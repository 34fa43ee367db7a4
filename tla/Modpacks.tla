------------------------------- MODULE Modpacks -------------------------------
(***************************************************************************)
(* How a launch puts a modpack into its instance                           *)
(* (prelaunch_apply_modpacks in backend/src/backend.rs): the files it has  *)
(* downloaded, the overrides that come with it, and the auxiliary file that*)
(* remembers which hash was put where, so that what a user has changed is  *)
(* left alone and what is as it was follows the pack.                      *)
(*                                                                         *)
(* One instance with one modpack.  A file of the pack is known by its path *)
(* in the instance and a hash is a version of that file.                   *)
(***************************************************************************)
EXTENDS Naturals

CONSTANTS
  Download,   \* paths of files that are downloaded
  Override,   \* paths of files that come with the pack
  Mod,        \* those in the mods folder
  Yosbr,      \* those in config/yosbr
  Version,    \* versions of the pack
  Hash,       \* the hashes of files
  Want,       \* what a version of the pack wants at a path, or None
  Nothing,
  MaxChanges, \* bound: what the user does
  MaxFaults   \* bound: failed downloads and interrupted launches

Path == Download \cup Override

\* A value for Want: every version of the pack renews every file, and is its hash.
Renewing == [v \in Version |-> [p \in Path |-> v]]

PackAssumption ==
  /\ Download \cap Override = {} /\ Mod \subseteq Path /\ Yosbr \subseteq Override
  /\ {Nothing, "user", "part"} \cap Hash = {} /\ Nothing # "user" /\ Nothing \notin Version
  /\ Want \in [Version -> [Path -> Hash \cup {Nothing}]]

VARIABLES
  source,     \* modrinth or curseforge
  pack,       \* the pack in the mods folder
  loader,     \* the loader of the instance
  library,    \* the content library: what is in the file of a path and a hash
  infos,      \* the cache of Curseforge's file infos: path and hash of a file id
  file,       \* what is at each path of the instance
  temporary,  \* .pandora.* in the mods folder: what they are
  aux,        \* the auxiliary file of the pack
  launch,     \* the launch
  changes,    \* what the user has done, counted
  touched,    \* paths the user changed after the pack wrote them (history)
  given,      \* paths a launch has put there, and not started from nothing since (history)
  faults,     \* failed downloads and interrupted launches, counted
  disturbed   \* a download failed, or the launcher stopped in mid-copy (history)

instance == <<file, temporary>>
packs_history == <<changes, touched, given, faults, disturbed>>
packs_vars == <<source, pack, loader, library, infos, instance, aux, launch, packs_history>>

\* A mod is a path and its hash.
Mods == Mod \X Hash
NoAux == [applied |-> [p \in Path |-> Nothing], disabled |-> {}]
NoLaunch == [pc |-> "none", version |-> Nothing, todo |-> {}, aux |-> NoAux, changed |-> FALSE,
             failed |-> FALSE, mods |-> {}]

Aux == [applied : [Path -> Hash \cup {Nothing}], disabled : SUBSET Path]

PacksType ==
  /\ source \in {"modrinth", "curseforge"}
  /\ pack \in [version : Version, enabled : BOOLEAN]
  /\ loader \in {"Vanilla", "Fabric", "Forge"}
  /\ library \in [Path -> [Hash -> {"absent", "part", "whole"}]]
  /\ infos \subseteq Path \X Hash
  /\ file \in [Path -> Hash \cup {Nothing, "user", "part"}]
  /\ temporary \subseteq Mods
  /\ aux \in Aux
  /\ launch \in [pc : {"none", "download", "apply", "launched"}, version : Version \cup {Nothing},
                 todo : SUBSET Path, aux : Aux, changed : BOOLEAN, failed : BOOLEAN,
                 mods : SUBSET Mods]
  /\ changes \in 0 .. MaxChanges
  /\ touched \subseteq Path /\ given \subseteq Path /\ faults \in 0 .. MaxFaults /\ disturbed \in BOOLEAN

\* A pack has just been installed; its children are there or not, in part
\* perhaps, and the user has files of his own.
PacksInit ==
  /\ source \in {"modrinth", "curseforge"}
  /\ pack \in [version : Version, enabled : {TRUE}]
  /\ loader \in {"Vanilla", "Fabric", "Forge"}
  /\ \E s \in {"absent", "part", "whole"} :
       library = [p \in Path |-> [h \in Hash |-> IF p \in Download THEN s ELSE "absent"]]
  /\ infos = {}
  /\ file \in {[p \in Path |-> c] : c \in {Nothing, "user"}}
  /\ temporary = {}
  /\ aux = NoAux
  /\ launch = NoLaunch
  /\ changes = 0 /\ touched = {} /\ given = {} /\ faults = 0 /\ disturbed = FALSE

-----------------------------------------------------------------------------
Wanted(v, paths) == {p \in paths : Want[v][p] # Nothing}
Overrides(v) == Wanted(v, Override)

\* check_sha1_hash of the file in the library.
Whole(v, p) == library[p][Want[v][p]] = "whole"

\* A pack of Modrinth names the files it wants; a pack of Curseforge has file ids,
\* and those whose info is seen have a name and a hash.
Known(v, seen) ==
  {p \in Wanted(v, Download) : source = "modrinth" \/ <<p, Want[v][p]>> \in seen}

\* Of what is asked for (a pack of Modrinth: all that is not disabled; of Curseforge:
\* what is not known), the files that are not there.
Missing(v, seen) ==
  {p \in Wanted(v, Download) : ~Whole(v, p)
     /\ IF source = "modrinth" THEN p \notin aux.disabled ELSE p \notin Known(v, seen)}

\* prelaunch_apply_modpacks, up to its first await: leftovers are removed.
Begin ==
  /\ launch.pc = "none"
  /\ IF loader = "Vanilla"
     THEN launch' = [NoLaunch EXCEPT !.pc = "launched"] /\ UNCHANGED temporary
     ELSE /\ temporary' = {}
          /\ launch' = IF pack.enabled THEN [NoLaunch EXCEPT !.pc = "download", !.version = pack.version]
                       ELSE [NoLaunch EXCEPT !.pc = "launched"]
  /\ UNCHANGED <<source, pack, loader, library, infos, file, aux, packs_history>>

Outcome == {"absent", "part", "whole"}

\* install_content of the missing files, each of which is there in the end, in part
\* or not at all.
Install(v, missing, r) ==
  library' = [p \in Path |-> IF p \in missing THEN [library[p] EXCEPT ![Want[v][p]] = r[p]]
                             ELSE library[p]]

Fault == faults < MaxFaults /\ faults' = faults + 1

\* The infos of a version.
InfosOf(v) == {<<p, Want[v][p]>> : p \in Wanted(v, Download)}

\* What the summary of the pack may know of them, and the cache once they are asked for.
Seen == IF source = "modrinth" THEN {{}} ELSE SUBSET infos
Brought(v) == IF source = "modrinth" THEN infos ELSE infos \cup InfosOf(v)

\* The infos that are not seen are asked for, which may fail and is then as if the
\* pack did not have these files; the files that are missing are downloaded.
\* An error is noted, and what is there is applied.
DownloadFiles ==
  /\ launch.pc = "download"
  /\ \E seen \in Seen :
       LET v == launch.version
           missing == Missing(v, seen)
           Applied(i) == (Known(v, i) \ aux.disabled) \cup Overrides(v)
       IN  \/ \E r \in [missing -> Outcome] :
                LET failed == \E p \in missing : r[p] # "whole" IN
                /\ Install(v, missing, r)
                /\ infos' = Brought(v)
                /\ launch' = [launch EXCEPT !.pc = "apply", !.aux = aux, !.failed = failed,
                                            !.todo = Applied(infos')]
                /\ IF failed THEN Fault /\ disturbed' = TRUE ELSE UNCHANGED <<faults, disturbed>>
           \/ /\ source = "curseforge" /\ Wanted(v, Download) # Known(v, seen)
              /\ launch' = [launch EXCEPT !.pc = "apply", !.aux = aux, !.todo = Applied(seen)]
              /\ UNCHANGED <<library, infos, faults, disturbed>>
  /\ UNCHANGED <<source, pack, loader, instance, aux, changes, touched, given>>

\* The user cancels, which is noticed at the awaits; or the launcher stops.
Interrupted ==
  /\ launch.pc = "download"
  /\ \/ UNCHANGED <<library, infos>>
     \/ \E seen \in Seen :
          LET missing == Missing(launch.version, seen)
          IN  /\ \E r \in [missing -> Outcome] : Install(launch.version, missing, r)
              /\ infos' = Brought(launch.version)
  /\ launch' = NoLaunch
  /\ Fault
  /\ UNCHANGED <<source, pack, loader, instance, aux, changes, touched, given, disturbed>>

-----------------------------------------------------------------------------
\* The file at p is as the hash says; FALSE if there is no file.
matches(p, h) == file[p] = h

\* (A bug: any change of the pack is copied.)
override_if_changed(a, p, new) ==
  \/ a.applied[p] = Nothing \/ file[p] = Nothing
  \/ p \in Yosbr /\ ~matches(p, new)
  \/ p \notin Yosbr /\ a.applied[p] # new
should_override_file(a, p, new) ==
  \/ a.applied[p] = Nothing \/ file[p] = Nothing
  \/ p \in Yosbr /\ ~matches(p, new)
  \/ p \notin Yosbr /\ matches(p, a.applied[p]) /\ a.applied[p] # new

\* A file that is not in the library cannot be copied, half a file can.
Copied(files, p, h) ==
  CASE files[p][h] = "absent" -> file[p] [] files[p][h] = "part" -> "part" [] OTHER -> h

\* A file of Curseforge that cannot be read says nothing of where it belongs.
Unreadable(p, h) == source = "curseforge" /\ p \in Download /\ library[p][h] # "whole"

\* What is written to the library before it is copied: an override, unless there
\* is a file already.
Stored(p, h, s) ==
  IF p \in Override /\ library[p][h] = "absent" THEN [library EXCEPT ![p][h] = s] ELSE library

\* One file.  Downloads come before overrides.
Apply(p) ==
  LET h == Want[launch.version][p]
      done == [launch EXCEPT !.todo = @ \ {p}]
      lib == Stored(p, h, "whole")
  IN
  /\ launch.pc = "apply" /\ p \in launch.todo
  /\ p \in Override => launch.todo \cap Download = {}
  /\ library' = lib
  /\ IF Unreadable(p, h) THEN launch' = done /\ UNCHANGED <<instance, touched>>
     ELSE IF p \in Mod
     THEN /\ IF loader = "Fabric" THEN launch' = [done EXCEPT !.mods = @ \cup {<<p, h>>}] /\ UNCHANGED temporary
             ELSE /\ launch' = done
                  /\ temporary' = temporary \cup (IF lib[p][h] = "absent" THEN {} ELSE {<<p, h>>})
          /\ UNCHANGED <<file, touched>>
     ELSE IF should_override_file(launch.aux, p, h)
     THEN /\ launch' = [done EXCEPT !.aux.applied[p] = h, !.changed = TRUE]
          /\ file' = [file EXCEPT ![p] = Copied(lib, p, h)]
          /\ touched' = touched \ {p}
          /\ UNCHANGED temporary
     ELSE launch' = done /\ UNCHANGED <<instance, touched>>
  /\ UNCHANGED <<source, pack, loader, infos, aux, changes, given, faults, disturbed>>

\* All files have had their turn.  What was applied is written down if the pack
\* has overrides.  An error that was noted ends the launch here.
Finish ==
  /\ launch.pc = "apply" /\ launch.todo = {}
  /\ aux' = IF Overrides(launch.version) # {} /\ launch.changed THEN launch.aux ELSE aux
  /\ given' = given \cup {p \in Path : launch.aux.applied[p] # Nothing}
  /\ launch' = IF launch.failed THEN NoLaunch
               ELSE [NoLaunch EXCEPT !.pc = "launched", !.version = launch.version, !.mods = launch.mods]
  /\ UNCHANGED <<source, pack, loader, library, infos, instance, changes, touched, faults, disturbed>>

\* The game has begun, and another launch is possible.
Played ==
  /\ launch.pc = "launched"
  /\ launch' = NoLaunch
  /\ UNCHANGED <<source, pack, loader, library, infos, instance, aux, packs_history>>

\* The launcher stops, perhaps while it writes an override or copies a file.
Crash ==
  /\ launch.pc = "apply"
  /\ launch' = NoLaunch
  /\ \/ UNCHANGED <<library, file>>
     \/ \E p \in launch.todo :
          LET h == Want[launch.version][p]
              lib == Stored(p, h, "whole")
          IN
          /\ p \in Override => launch.todo \cap Download = {}
          /\ \/ library' = Stored(p, h, "part") /\ UNCHANGED file
             \/ /\ p \notin Mod /\ ~Unreadable(p, h) /\ lib[p][h] # "absent"
                /\ should_override_file(launch.aux, p, h)
                /\ library' = lib /\ file' = [file EXCEPT ![p] = "part"]
  /\ Fault /\ disturbed' = TRUE
  /\ UNCHANGED <<source, pack, loader, infos, temporary, aux, changes, touched, given>>

-----------------------------------------------------------------------------
(* The user, between launches; files may be changed at any time. *)

Counted == changes < MaxChanges /\ changes' = changes + 1

EditFile(p) ==
  /\ Counted /\ p \notin Mod
  /\ \E c \in {"user", Nothing} \ {file[p]} : file' = [file EXCEPT ![p] = c]
  /\ touched' = touched \cup {p}
  /\ UNCHANGED <<source, pack, loader, library, infos, temporary, aux, launch, given, faults, disturbed>>

\* SetContentEnabled; the loader of the instance.
Configure ==
  /\ Counted /\ launch.pc = "none"
  /\ \/ pack' = [pack EXCEPT !.enabled = ~@] /\ UNCHANGED loader
     \/ loader' \in {"Vanilla", "Fabric", "Forge"} \ {loader} /\ UNCHANGED pack
  /\ UNCHANGED <<source, library, infos, instance, aux, launch, touched, given, faults, disturbed>>

\* SetContentChildEnabled.
SetContentChildEnabled(p) ==
  /\ Counted /\ launch.pc = "none" /\ p \in Download
  /\ aux' = [aux EXCEPT !.disabled = IF p \in @ THEN @ \ {p} ELSE @ \cup {p}]
  /\ UNCHANGED <<source, pack, loader, library, infos, instance, launch, touched, given, faults, disturbed>>

\* Another version of the pack takes its place; its files may have failed to come.
\* replace_aux_path keeps the auxiliary file, or removes it when the pack cannot
\* be read.
Update ==
  /\ Counted /\ launch.pc = "none"
  /\ \E v \in Version \ {pack.version} : pack' = [pack EXCEPT !.version = v]
  /\ \/ UNCHANGED <<aux, given>>
     \/ aux' = NoAux /\ given' = {}
  /\ UNCHANGED <<source, loader, library, infos, instance, launch, touched, faults, disturbed>>

User == Configure \/ Update \/ \E p \in Path : EditFile(p) \/ SetContentChildEnabled(p)

PacksNext ==
  \/ Begin \/ DownloadFiles \/ Interrupted
  \/ \E p \in Path : Apply(p)
  \/ Finish \/ Played \/ Crash
  \/ User

PacksSpec == PacksInit /\ [][PacksNext]_packs_vars

-----------------------------------------------------------------------------
\* The mods that the game is given.
Given == IF loader = "Fabric" THEN launch.mods ELSE temporary

\* The mods and files an enabled pack wants in the instance.
WantedMods == {<<p, Want[launch.version][p]>> : p \in Wanted(launch.version, Mod) \ aux.disabled}
WantedFiles == Wanted(launch.version, Path \ Mod) \ aux.disabled

\* A game that starts with a pack has the pack's mods and no others, and, if the
\* pack is Modrinth's, whole ones, and each of its files as this version of
\* the pack wants it, or as the user wants it: whatever was updated, disabled,
\* edited, deleted or cancelled before, unless a download failed or the
\* launcher stopped in mid-copy.
PackIsApplied ==
  launch.pc = "launched" /\ loader # "Vanilla" =>
    IF launch.version = Nothing THEN Given = {}
    ELSE /\ Given \subseteq WantedMods
         /\ source = "modrinth" /\ ~disturbed =>
              /\ Given = WantedMods
              /\ \A m \in Given : library[m[1]][m[2]] = "whole"
              /\ \A p \in WantedFiles : file[p] = Want[launch.version][p] \/ p \in touched

\* "If the file was modified by the user, it'll avoid overriding": once a launch
\* has put a file there, what the user makes of it stays, through updates,
\* failures and crashes.  Files in config/yosbr are the exception.
UserChangesKept ==
  [][\A p \in given \ Yosbr : file[p] = "user" => file'[p] \in {"user", Nothing}]_packs_vars

\* A game starts with the pack, and the user keeps what is the user's.
PacksAreKept == []PackIsApplied /\ UserChangesKept
=============================================================================
