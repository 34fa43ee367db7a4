------------------------------- MODULE MCLaunch -------------------------------
(* What a launch is made of, one behaviour for each: the games of one instance, *)
(* the modpack that is put into it, the library its files come from, and what  *)
(* is downloaded for the game itself.                                          *)
EXTENDS LaunchLifecycle, ContentLibrary, Modpacks, LaunchDownloads

CONSTANTS p1, p2, m1, m2, config, yosbr, jar, h1, h2, i1, i2, t1, t2, a, b, asm, log

VARIABLE part

ASSUME PacksAssumption == PackAssumption /\ DownloadsAssumption

MCProcess == {p1, p2}
MCModal == {m1, m2}

\* A configuration file and a mod, which only one version has, and an override.
MCDownload == {config, jar}
MCOverride == {yosbr}
MCMod == {jar}
MCWant == [v \in {1, 2} |->
  config :> (IF v = 1 THEN h1 ELSE h2) @@ yosbr :> (IF v = 1 THEN h1 ELSE h2)
    @@ jar :> (IF v = 1 THEN h1 ELSE Nothing)]

MCTask == {t1, t2}
MCLauncher == {a, b}

LaunchInit ==
  /\ part \in {"games", "packs", "files", "downloads"}
  /\ Init /\ PacksInit /\ LibraryInit /\ DownloadsInit
  /\ part # "packs" => /\ source = "modrinth" /\ pack.version = 1 /\ loader = "Vanilla"
                       /\ library[config][h1] = "absent" /\ file[config] = Nothing
  /\ part # "files" => lib = Nil /\ \A i \in Inode : content[i] = "part"
  \* For Forge, all may be there at first, for the others nothing is but the log; Fabric
  \* differs from vanilla in its progress alone.
  /\ own \/ mod_loader # "forge" => \A f \in {Java, Installer, Output, asm} : disk[f] = "none"
  /\ mod_loader = "fabric" => own
  /\ disk[log] = IF own \/ mod_loader = "legacy" THEN "none" ELSE "whole"
  /\ part # "downloads" => mod_loader = "vanilla" /\ own

LaunchNext ==
  /\ UNCHANGED part
  /\ \/ part = "games" /\ Next /\ UNCHANGED <<packs_vars, library_vars, downloads_vars>>
     \/ part = "packs" /\ PacksNext /\ UNCHANGED <<vars, library_vars, downloads_vars>>
     \/ part = "files" /\ LibraryNext /\ UNCHANGED <<vars, packs_vars, downloads_vars>>
     \/ part = "downloads" /\ DownloadsNext /\ UNCHANGED <<vars, packs_vars, library_vars>>

LaunchSpec == LaunchInit /\ [][LaunchNext]_<<part, vars, packs_vars, library_vars, downloads_vars>>

-----------------------------------------------------------------------------
\* What is downloaded comes: somebody who downloads can always go on.  What the other parts
\* are made of has its types.
DownloadersGoOn == TypeOK /\ PacksType /\ LibraryType /\ (part = "files" => SomeoneGoesOn)
=============================================================================
