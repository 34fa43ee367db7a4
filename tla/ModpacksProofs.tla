---------------------------- MODULE ModpacksProofs ----------------------------
(***************************************************************************)
(* What the user has made of a file stays, and a game starts with what its *)
(* pack wants of the others, for any pack with overrides in each of its    *)
(* versions, whatever fails, stops or is updated.  What comes from the     *)
(* library is whole, for any launchers, installs and files.                *)
(***************************************************************************)
EXTENDS Modpacks, ContentLibrary, SequenceTheorems, TLAPS

\* Of the launch, what the argument needs.
Launches == [pc : {"none", "download", "apply", "launched"}, version : Version \cup {Nothing},
             todo : SUBSET Path, aux : Aux, changed : BOOLEAN, failed : BOOLEAN, mods : SUBSET Mods]

Types == aux \in Aux /\ launch \in Launches /\ pack \in [version : Version, enabled : BOOLEAN]

\* A launch that applies files wants them, and its copy of the auxiliary file knows
\* at least what the file knows.
Applying ==
  /\ launch.pc \in {"download", "apply"} => launch.version \in Version
  /\ launch.pc = "apply" =>
       /\ launch.todo \subseteq Wanted(launch.version, Path)
       /\ \A p \in Path : aux.applied[p] # Nothing => launch.aux.applied[p] # Nothing
       /\ ~launch.changed => launch.aux.applied = aux.applied

\* The auxiliary file has every path that a launch has put there.
GivenIsKnown == given \subseteq Path /\ \A p \in given : aux.applied[p] # Nothing

IInv == Types /\ Applying /\ GivenIsKnown

\* Nothing launched and nothing applied have their types.
LEMMA NoLaunchIsOne == NoAux \in Aux /\ NoLaunch \in Launches
<1>1. NoAux \in Aux  BY DEF NoAux, Aux
<1> QED BY <1>1 DEF NoLaunch, Launches

\* A pack just installed: no launch is on its way and nothing was put anywhere.
THEOREM InitIInv == PacksInit => IInv
<1> SUFFICES ASSUME PacksInit PROVE IInv  OBVIOUS
<1>1. Types  BY NoLaunchIsOne DEF PacksInit, Types
<1>2. Applying /\ GivenIsKnown  BY DEF PacksInit, Applying, GivenIsKnown, NoLaunch
<1> QED BY <1>1, <1>2 DEF IInv

\* A file that is wanted has a hash, which is entered.
LEMMA EntryIsMade ==
  ASSUME PackAssumption, IInv, launch.pc = "apply", NEW p \in launch.todo
  PROVE  /\ p \in Path /\ Want[launch.version][p] \in Hash
         /\ [launch.aux.applied EXCEPT ![p] = Want[launch.version][p]] \in [Path -> Hash \cup {Nothing}]
<1>1. p \in Path /\ Want[launch.version][p] # Nothing /\ launch.version \in Version
  BY DEF IInv, Applying, Wanted
<1>2. Want[launch.version][p] \in Hash  BY <1>1 DEF PackAssumption
<1>3. launch.aux.applied \in [Path -> Hash \cup {Nothing}]  BY DEF IInv, Types, Launches, Aux
<1> QED BY <1>1, <1>2, <1>3

\* What is asked for of a pack is wanted by it.
LEMMA AppliedIsWanted ==
  ASSUME NEW v, NEW seen
  PROVE  (Known(v, seen) \ aux.disabled) \cup Overrides(v) \in SUBSET Wanted(v, Path)
BY DEF Known, Overrides, Wanted, Path

\* The launch when it applies what is known with the infos i.
LaunchThen(i, failed) ==
  [launch EXCEPT !.pc = "apply", !.aux = aux, !.failed = failed,
                 !.todo = (Known(launch.version, i) \ aux.disabled) \cup Overrides(launch.version)]

\* After the downloads, some infos are known and some download may have failed.
LEMMA LaunchApplies ==
  ASSUME IInv, DownloadFiles
  PROVE  \E i, failed : failed \in BOOLEAN /\ launch' = LaunchThen(i, failed)
<1> DEFINE v == launch.version
           Applied(i) == (Known(v, i) \ aux.disabled) \cup Overrides(v)
<1>1. launch \in Launches /\ launch.failed \in BOOLEAN  BY DEF IInv, Types, Launches
<1>2. \/ \E failed \in BOOLEAN : launch' =
           [launch EXCEPT !.pc = "apply", !.aux = aux, !.failed = failed, !.todo = Applied(infos')]
      \/ \E seen \in Seen :
           launch' = [launch EXCEPT !.pc = "apply", !.aux = aux, !.todo = Applied(seen)]
  BY Zenon DEF DownloadFiles
<1>3. ASSUME NEW seen PROVE [launch EXCEPT !.pc = "apply", !.aux = aux, !.todo = Applied(seen)]
        = [launch EXCEPT !.pc = "apply", !.aux = aux, !.failed = launch.failed, !.todo = Applied(seen)]
  BY <1>1 DEF Launches
<1> QED BY <1>1, <1>2, <1>3 DEF LaunchThen

\* The steps that leave the auxiliary file alone and apply nothing.
LEMMA LaunchAlone ==
  ASSUME IInv, UNCHANGED <<aux, given>>, pack' \in [version : Version, enabled : BOOLEAN],
         launch' = launch \/ (launch' \in Launches /\ launch'.pc \in {"none", "launched"})
  PROVE  IInv'
BY DEF IInv, Types, Applying, GivenIsKnown, Wanted

\* Every step of a launch and of the user keeps the invariant.
THEOREM NextIInv ==
  ASSUME PackAssumption, \A v \in Version : Overrides(v) # {}, IInv, [PacksNext]_packs_vars
  PROVE  IInv'
<1> USE DEF IInv
<1>1. NoAux \in Aux /\ NoLaunch \in Launches /\ NoLaunch.pc = "none"
  BY NoLaunchIsOne DEF NoLaunch
<1>2. pack \in [version : Version, enabled : BOOLEAN] /\ aux \in Aux /\ launch \in Launches  BY DEF Types
<1>3. CASE Begin
  <2>1. UNCHANGED <<aux, pack, given>>  BY <1>3 DEF Begin, packs_history
  <2>2. CASE launch' = [NoLaunch EXCEPT !.pc = "launched"]
    <3>1. launch' \in Launches /\ launch'.pc = "launched"  BY <1>1, <2>2 DEF Launches
    <3> QED BY <1>2, <2>1, <3>1, LaunchAlone
  <2>3. CASE launch' = [NoLaunch EXCEPT !.pc = "download", !.version = pack.version]
    <3>1. launch' \in Launches /\ launch'.pc = "download" /\ launch'.version \in Version
      BY <1>1, <1>2, <2>3 DEF Launches
    <3> QED BY <2>1, <3>1 DEF Types, Applying, GivenIsKnown
  <2> QED BY <1>3, <2>2, <2>3 DEF Begin
<1>4. CASE DownloadFiles
  <2>1. UNCHANGED <<aux, pack, given>> /\ launch.pc = "download"  BY <1>4 DEF DownloadFiles
  <2>2. PICK todo \in SUBSET Wanted(launch.version, Path), failed \in BOOLEAN :
          launch' = [launch EXCEPT !.pc = "apply", !.aux = aux, !.failed = failed, !.todo = todo]
    BY <1>4, LaunchApplies, AppliedIsWanted DEF LaunchThen
  <2>3. launch' \in Launches /\ launch'.version = launch.version /\ launch'.aux = aux /\ launch'.todo = todo
          /\ launch'.pc = "apply"
    BY <1>2, <2>2 DEF Launches, Wanted
  <2>4. Applying'  BY <2>1, <2>2, <2>3 DEF Applying, Wanted
  <2> QED BY <2>1, <2>3, <2>4 DEF Types, GivenIsKnown
<1>5. CASE Interrupted
  BY <1>1, <1>2, <1>5, LaunchAlone DEF Interrupted
<1>6. ASSUME NEW p \in Path, Apply(p) PROVE IInv'
  <2> DEFINE h == Want[launch.version][p]
  <2>1. launch.pc = "apply" /\ p \in launch.todo /\ UNCHANGED <<aux, pack, given>>
    BY <1>6 DEF Apply
  <2>2. h \in Hash /\ [launch.aux.applied EXCEPT ![p] = h] \in [Path -> Hash \cup {Nothing}]
    BY <2>1, EntryIsMade
  <2>3. CASE \E mods \in SUBSET Mods : launch' = [launch EXCEPT !.todo = @ \ {p}, !.mods = mods]
    <3>1. launch' \in Launches /\ launch'.pc = launch.pc /\ launch'.aux = launch.aux
            /\ launch'.changed = launch.changed /\ launch'.version = launch.version
            /\ launch'.todo \subseteq launch.todo
      <4>1. PICK mods \in SUBSET Mods : launch' = [launch EXCEPT !.todo = @ \ {p}, !.mods = mods]
        BY <2>3
      <4>2. launch.todo \ {p} \in SUBSET Path  BY <1>2 DEF Launches
      <4> QED BY <1>2, <4>1, <4>2 DEF Launches
    <3> QED BY <2>1, <3>1 DEF Types, Applying, GivenIsKnown, Wanted
  <2>4. CASE launch' = [[launch EXCEPT !.todo = @ \ {p}] EXCEPT !.aux.applied[p] = h, !.changed = TRUE]
    <3>1. launch.aux \in Aux /\ launch.aux.applied \in [Path -> Hash \cup {Nothing}]  BY <1>2 DEF Launches, Aux
    <3>2. launch'.aux = [launch.aux EXCEPT !.applied = [launch.aux.applied EXCEPT ![p] = h]]
            /\ launch'.changed = TRUE /\ launch'.todo = launch.todo \ {p}
            /\ launch'.pc = "apply" /\ launch'.version = launch.version
            /\ launch'.failed = launch.failed /\ launch'.mods = launch.mods
      BY <1>2, <2>1, <2>4 DEF Launches, Aux
    <3>3. launch'.aux \in Aux /\ launch'.aux.applied = [launch.aux.applied EXCEPT ![p] = h]
      BY <2>2, <3>1, <3>2 DEF Aux
    <3>4. launch' \in Launches  BY <1>2, <2>4, <3>2, <3>3 DEF Launches
    <3>5. Nothing \notin Hash  BY DEF PackAssumption
    <3> QED BY <2>1, <2>2, <3>1, <3>2, <3>3, <3>4, <3>5 DEF Types, Applying, GivenIsKnown, Wanted
  <2>5. \/ \E mods \in SUBSET Mods : launch' = [launch EXCEPT !.todo = @ \ {p}, !.mods = mods]
        \/ launch' = [[launch EXCEPT !.todo = @ \ {p}] EXCEPT !.aux.applied[p] = h, !.changed = TRUE]
    <3> DEFINE done == [launch EXCEPT !.todo = @ \ {p}]
    <3>1. \/ launch' = done
          \/ launch' = [done EXCEPT !.mods = @ \cup {<<p, h>>}] /\ p \in Mod
          \/ launch' = [done EXCEPT !.aux.applied[p] = h, !.changed = TRUE]
      <4>1. CASE Unreadable(p, h)  BY <1>6, <4>1 DEF Apply
      <4>2. CASE ~Unreadable(p, h) /\ p \in Mod /\ loader = "Fabric"
        BY <1>6, <4>2 DEF Apply
      <4>3. CASE ~Unreadable(p, h) /\ p \in Mod /\ loader # "Fabric"
        BY <1>6, <4>3 DEF Apply
      <4>4. CASE ~Unreadable(p, h) /\ p \notin Mod /\ should_override_file(launch.aux, p, h)
        BY <1>6, <4>4 DEF Apply
      <4>5. CASE ~Unreadable(p, h) /\ p \notin Mod /\ ~should_override_file(launch.aux, p, h)
        BY <1>6, <4>5 DEF Apply
      <4> QED BY <4>1, <4>2, <4>3, <4>4, <4>5
    <3>2. launch.mods \in SUBSET Mods
            /\ done = [launch EXCEPT !.todo = @ \ {p}, !.mods = launch.mods]
      BY <1>2 DEF Launches
    <3>3. [done EXCEPT !.mods = @ \cup {<<p, h>>}]
            = [launch EXCEPT !.todo = @ \ {p}, !.mods = launch.mods \cup {<<p, h>>}]
      BY <1>2 DEF Launches
    <3>4. p \in Mod => launch.mods \cup {<<p, h>>} \in SUBSET Mods  BY <2>2, <3>2 DEF Mods
    <3> HIDE DEF done
    <3>5. CASE launch' = done  BY <3>2, <3>5
    <3>6. CASE launch' = [done EXCEPT !.mods = @ \cup {<<p, h>>}] /\ p \in Mod  BY <3>3, <3>4, <3>6
    <3>7. CASE launch' = [done EXCEPT !.aux.applied[p] = h, !.changed = TRUE]  BY <3>7 DEF done
    <3> QED BY <3>1, <3>5, <3>6, <3>7
  <2> QED BY <2>3, <2>4, <2>5
<1>7. CASE Finish
  <2>1. /\ launch.pc = "apply" /\ launch.version \in Version /\ Overrides(launch.version) # {}
        /\ aux' = (IF launch.changed THEN launch.aux ELSE aux)
        /\ given' = given \cup {p \in Path : launch.aux.applied[p] # Nothing}
        /\ UNCHANGED pack
    BY <1>7 DEF Finish, Applying
  <2>2. launch' \in Launches /\ launch'.pc \in {"none", "launched"}
    BY <1>1, <1>2, <1>7 DEF Finish, Launches
  <2>3. aux' \in Aux /\ \A p \in Path : aux'.applied[p] # Nothing <=> launch.aux.applied[p] # Nothing
    BY <1>2, <2>1 DEF Applying, Launches
  <2>4. GivenIsKnown'
    <3>1. \A p \in given : p \in Path /\ launch.aux.applied[p] # Nothing  BY <2>1 DEF GivenIsKnown, Applying
    <3> QED BY <2>1, <2>3, <3>1 DEF GivenIsKnown
  <2> QED BY <1>2, <2>1, <2>2, <2>3, <2>4 DEF Types, Applying
<1>8. CASE Played  BY <1>1, <1>2, <1>8, LaunchAlone DEF Played, packs_history
<1>9. CASE Crash  BY <1>1, <1>2, <1>9, LaunchAlone DEF Crash
<1>10. CASE User
  <2>1. CASE Configure
    <3>1. pack' \in [version : Version, enabled : BOOLEAN]  BY <1>2, <2>1 DEF Configure
    <3> QED BY <2>1, <3>1, LaunchAlone DEF Configure
  <2>2. CASE Update
    <3>1. pack' \in [version : Version, enabled : BOOLEAN] /\ launch' = launch /\ launch.pc = "none"
      BY <1>2, <2>2 DEF Update
    <3>2. CASE UNCHANGED <<aux, given>>  BY <3>1, <3>2, LaunchAlone
    <3>3. CASE aux' = NoAux /\ given' = {}  BY <1>1, <3>1, <3>3 DEF Types, Applying, GivenIsKnown
    <3> QED BY <2>2, <3>2, <3>3 DEF Update
  <2>3. ASSUME NEW p \in Path, EditFile(p) PROVE IInv'
    BY <1>2, <2>3, LaunchAlone DEF EditFile
  <2>4. ASSUME NEW p \in Path, SetContentChildEnabled(p) PROVE IInv'
    <3>1. UNCHANGED <<pack, launch, given>> /\ launch.pc = "none" /\ p \in Path
      BY <2>4 DEF SetContentChildEnabled
    <3>2. aux' \in Aux /\ aux'.applied = aux.applied  BY <1>2, <2>4, <3>1 DEF SetContentChildEnabled, Aux
    <3> QED BY <3>1, <3>2 DEF Types, Applying, GivenIsKnown
  <2> QED BY <1>10, <2>1, <2>2, <2>3, <2>4 DEF User
<1>11. CASE UNCHANGED packs_vars  BY <1>2, <1>11, LaunchAlone DEF packs_vars, packs_history
<1> QED BY <1>3, <1>4, <1>5, <1>6, <1>7, <1>8, <1>9, <1>10, <1>11 DEF PacksNext

\* A file that a launch has put there and the user has changed is not overridden:
\* it is neither missing, nor unknown to the auxiliary file, nor as that file says.
LEMMA NotOverridden ==
  ASSUME PackAssumption, IInv, launch.pc = "apply", NEW p \in given \ Yosbr, file[p] = "user", NEW new
  PROVE  ~should_override_file(launch.aux, p, new)
<1>1. p \in Path /\ launch.aux.applied[p] # Nothing  BY DEF IInv, Applying, GivenIsKnown
<1>2. launch.aux.applied[p] \in Hash
  <2>1. launch.aux.applied \in [Path -> Hash \cup {Nothing}]  BY DEF IInv, Types, Launches, Aux
  <2> QED BY <1>1, <2>1
<1>3. "user" \notin Hash \cup {Nothing}  BY DEF PackAssumption
<1> QED BY <1>1, <1>2, <1>3 DEF should_override_file, matches

\* Each path has a file, or none.
Files == DOMAIN file = Path

\* Files come and go, paths do not.
LEMMA NextFiles ==
  ASSUME Files, [PacksNext]_packs_vars
  PROVE  Files'
<1>1. ASSUME NEW q \in Path, Apply(q) PROVE Files'
  <2>1. file' = file \/ \E c : file' = [file EXCEPT ![q] = c]  BY <1>1, Zenon DEF Apply, instance
  <2> QED BY <2>1 DEF Files
<1>2. CASE Crash
  <2>1. file' = file \/ \E q : file' = [file EXCEPT ![q] = "part"]  BY <1>2, Zenon DEF Crash
  <2> QED BY <2>1 DEF Files
<1>3. ASSUME NEW q \in Path, EditFile(q) PROVE Files'
  <2>1. \E c : file' = [file EXCEPT ![q] = c]  BY <1>3 DEF EditFile
  <2> QED BY <2>1 DEF Files
<1> QED BY <1>1, <1>2, <1>3
     DEF PacksNext, User, Begin, DownloadFiles, Interrupted, Finish, Played, Configure, Update,
         SetContentChildEnabled, packs_vars, instance, Files

\* The steps that change files: a file is copied only if it should be overridden.
LEMMA StepKeepsChanges ==
  ASSUME PackAssumption, IInv, Files, [PacksNext]_packs_vars, NEW p \in given \ Yosbr, file[p] = "user"
  PROVE  file'[p] \in {"user", Nothing}
<1>1. CASE UNCHANGED file  BY <1>1
<1>2. ASSUME NEW q \in Path, Apply(q), file' # file PROVE file'[p] \in {"user", Nothing}
  <2>1. launch.pc = "apply" /\ should_override_file(launch.aux, q, Want[launch.version][q])
    BY <1>2, Zenon DEF Apply, instance
  <2>2. \E c : file' = [file EXCEPT ![q] = c]  BY <1>2, Zenon DEF Apply, instance
  <2>3. q # p  BY <2>1, NotOverridden
  <2> QED BY <2>2, <2>3
<1>3. ASSUME Crash, file' # file PROVE file'[p] \in {"user", Nothing}
  <2>1. launch.pc = "apply"  BY <1>3 DEF Crash
  <2>2. PICK q \in launch.todo : /\ should_override_file(launch.aux, q, Want[launch.version][q])
                                 /\ file' = [file EXCEPT ![q] = "part"]
    BY <1>3, Zenon DEF Crash
  <2>3. q # p  BY <2>1, <2>2, NotOverridden
  <2> QED BY <2>2, <2>3
<1>4. ASSUME NEW q \in Path, EditFile(q) PROVE file'[p] \in {"user", Nothing}
  <2>1. PICK c \in {"user", Nothing} : file' = [file EXCEPT ![q] = c]  BY <1>4 DEF EditFile
  <2> QED BY <2>1 DEF Files
<1> QED BY <1>1, <1>2, <1>3, <1>4
     DEF PacksNext, User, Begin, DownloadFiles, Interrupted, Finish, Played, Configure, Update,
         SetContentChildEnabled, packs_vars, instance

\* prelaunch_apply_modpacks leaves what the user has made of a file it has put
\* there, through updates, failures, crashes and cancelled launches, for any number
\* of files and versions of a pack that has overrides in each of its versions: of
\* one without, nothing is remembered.
THEOREM UserChangesStay ==
  ASSUME PackAssumption, \A v \in Version : Overrides(v) # {}
  PROVE  PacksSpec => UserChangesKept
<1>1. IInv /\ Files /\ [PacksNext]_packs_vars => [\A p \in given \ Yosbr : file[p] = "user" => file'[p] \in {"user", Nothing}]_packs_vars
  BY StepKeepsChanges
<1>2. PacksInit => IInv /\ Files  BY InitIInv DEF PacksInit, Files
<1>3. IInv /\ Files /\ [PacksNext]_packs_vars => (IInv /\ Files)'  BY NextIInv, NextFiles
<1> QED BY <1>1, <1>2, <1>3, PTL DEF PacksSpec, UserChangesKept
-----------------------------------------------------------------------------
(* What a game starts with. *)

\* The library and the files are there for the paths of the pack; only what is
\* downloaded can be disabled.
Shapes ==
  /\ source \in {"modrinth", "curseforge"} /\ DOMAIN file = Path
  /\ library \in [Path -> [Hash -> Outcome]]
  /\ aux.disabled \subseteq Download

\* A launch with a pack applies what is wanted and not disabled, and the mods that it
\* has given so far are of that.
GivesWanted ==
  /\ launch.pc = "download" => Given = {}
  /\ launch.pc = "launched" /\ launch.version = Nothing /\ loader # "Vanilla" => Given = {}
  /\ launch.pc \in {"apply", "launched"} /\ launch.version # Nothing =>
       /\ launch.todo \subseteq Wanted(launch.version, Path) \ aux.disabled
       /\ launch.pc = "launched" => launch.todo = {}
       /\ Given \subseteq WantedMods
  /\ launch.pc = "apply" => launch.aux.disabled = aux.disabled

\* The rest is for packs of Modrinth, as long as no download fails and the launcher
\* does not stop in mid-copy.
Steady == source = "modrinth" /\ ~disturbed
WithPack == launch.pc \in {"apply", "launched"} /\ launch.version # Nothing

\* What is copied from the library is whole.
LibraryFits ==
  Steady =>
    /\ \A p \in Override, h \in Hash : library[p][h] # "part"
    /\ WithPack => /\ \A p \in Wanted(launch.version, Download) \ aux.disabled : Whole(launch.version, p)
                   /\ \A m \in Given : library[m[1]][m[2]] = "whole"

\* What was applied is remembered, by the launch until it is written down: the file is
\* still that unless the user has touched it.
Remembered == IF launch.pc = "apply" THEN launch.aux.applied ELSE aux.applied
RememberedFits ==
  Steady => \A p \in Path \ Mod : Remembered[p] # Nothing => file[p] = Remembered[p] \/ p \in touched

\* What has had its turn is in the instance.
TurnsFit ==
  Steady /\ WithPack =>
    \A p \in Wanted(launch.version, Path) \ aux.disabled :
      \/ p \in launch.todo
      \/ p \in Mod /\ <<p, Want[launch.version][p]>> \in Given
      \/ p \notin Mod /\ (file[p] = Want[launch.version][p] \/ p \in touched)

Fits == Shapes /\ GivesWanted /\ LibraryFits /\ RememberedFits /\ TurnsFit
PackInv == IInv /\ Fits

\* A pack just installed has been applied nowhere.
LEMMA FitsInitially == PackAssumption /\ PacksInit => Fits
<1> SUFFICES ASSUME PackAssumption, PacksInit PROVE Fits  OBVIOUS
<1>1. launch.pc = "none" /\ aux.disabled = {} /\ aux.applied = [p \in Path |-> Nothing]
  BY DEF PacksInit, NoLaunch, NoAux
<1>2. PICK s \in Outcome :
        library = [p \in Path |-> [h \in Hash |-> IF p \in Download THEN s ELSE "absent"]]
  BY DEF PacksInit, Outcome
<1>3. library \in [Path -> [Hash -> Outcome]]  BY <1>2 DEF Outcome
<1>4. Shapes  BY <1>1, <1>3 DEF PacksInit, Shapes
<1>5. \A p \in Override, h \in Hash : library[p][h] # "part"  BY <1>2 DEF PackAssumption, Path
<1>6. GivesWanted /\ TurnsFit  BY <1>1 DEF GivesWanted, TurnsFit, WithPack
<1>7. LibraryFits  BY <1>1, <1>5 DEF LibraryFits, WithPack
<1>8. RememberedFits  BY <1>1 DEF RememberedFits, Remembered
<1> QED BY <1>4, <1>6, <1>7, <1>8 DEF Fits

\* Without a launch that has a pack, what fits is what the library and the auxiliary
\* file say.
LEMMA WithoutPack ==
  ASSUME Shapes', launch'.pc \in {"none", "launched"},
         launch'.pc = "launched" => launch'.version = Nothing /\ (loader' # "Vanilla" => Given' = {}),
         Steady' => \A p \in Override, h \in Hash : library'[p][h] # "part",
         Steady' => \A p \in Path \ Mod : aux'.applied[p] # Nothing =>
                      file'[p] = aux'.applied[p] \/ p \in touched'
  PROVE  Fits'
<1>1. launch'.pc # "apply" /\ launch'.pc # "download" /\ ~WithPack'  BY DEF WithPack
<1>2. GivesWanted'  BY <1>1 DEF GivesWanted
<1>3. LibraryFits'  BY <1>1 DEF LibraryFits
<1>4. RememberedFits'  BY <1>1 DEF RememberedFits, Remembered
<1>5. TurnsFit'  BY <1>1 DEF TurnsFit
<1> QED BY <1>2, <1>3, <1>4, <1>5 DEF Fits

\* A step that does not touch the pack's things in any way.
LEMMA BeginFits == ASSUME PackAssumption, PackInv, Begin PROVE Fits'
<1> USE DEF PackInv, Fits
<1>1. launch.pc = "none" /\ UNCHANGED <<source, pack, loader, library, file, aux, touched, disturbed>>
  BY DEF Begin, packs_history
<1>2. Shapes'  BY <1>1 DEF Shapes
<1>3. (Steady' <=> Steady) /\ Remembered = aux.applied  BY <1>1 DEF Steady, Remembered
<1>4. NoLaunch.mods = {} /\ NoLaunch \in Launches /\ NoLaunch.version = Nothing
  BY NoLaunchIsOne DEF NoLaunch
<1>5. CASE launch' = [NoLaunch EXCEPT !.pc = "launched"] /\ (loader # "Vanilla" => temporary' = {})
  <2>1. launch'.pc = "launched" /\ launch'.version = Nothing /\ launch'.mods = {}
    BY <1>4, <1>5 DEF Launches
  <2>2. loader' # "Vanilla" => Given' = {}  BY <1>1, <1>5, <2>1 DEF Given
  <2> QED BY <1>1, <1>2, <1>3, <2>1, <2>2, WithoutPack DEF LibraryFits, RememberedFits
<1>6. CASE launch' = [NoLaunch EXCEPT !.pc = "download", !.version = pack.version] /\ temporary' = {}
  <2>1. launch'.pc = "download" /\ launch'.mods = {}  BY <1>4, <1>6 DEF Launches
  <2>2. Given' = {} /\ ~WithPack'  BY <1>6, <2>1 DEF Given, WithPack
  <2>3. GivesWanted'  BY <2>1, <2>2 DEF GivesWanted
  <2>4. LibraryFits'  BY <1>1, <1>3, <2>2 DEF LibraryFits
  <2>5. RememberedFits'  BY <1>1, <1>3, <2>1 DEF RememberedFits, Remembered
  <2>6. TurnsFit'  BY <2>2 DEF TurnsFit
  <2> QED BY <1>2, <2>3, <2>4, <2>5, <2>6
<1> QED BY <1>5, <1>6 DEF Begin

\* What an install leaves of the files that were missing.
LEMMA InstallLeaves ==
  ASSUME PackAssumption, Shapes, NEW v \in Version, NEW seen, NEW r \in [Missing(v, seen) -> Outcome],
         Install(v, Missing(v, seen), r)
  PROVE  /\ library' \in [Path -> [Hash -> Outcome]]
         /\ \A p \in Override : library'[p] = library[p]
         /\ \A p \in Path : p \notin Missing(v, seen) => library'[p] = library[p]
         /\ \A p \in Missing(v, seen) : library'[p][Want[v][p]] = r[p]
<1> DEFINE missing == Missing(v, seen)
<1>1. missing \subseteq Download /\ missing \subseteq Path  BY DEF Missing, Wanted, Path
<1>2. \A p \in missing : Want[v][p] \in Hash  BY <1>1 DEF Missing, Wanted, PackAssumption
<1>3. library \in [Path -> [Hash -> Outcome]]  BY DEF Shapes
<1> HIDE DEF missing
<1>4. library' = [p \in Path |-> IF p \in missing THEN [library[p] EXCEPT ![Want[v][p]] = r[p]]
                                 ELSE library[p]]
  BY DEF Install, missing
<1>5. ASSUME NEW p \in missing
      PROVE  library'[p] \in [Hash -> Outcome] /\ library'[p][Want[v][p]] = r[p]
  <2>1. library[p] \in [Hash -> Outcome] /\ r[p] \in Outcome  BY <1>1, <1>3 DEF missing
  <2>2. library'[p] = [library[p] EXCEPT ![Want[v][p]] = r[p]]  BY <1>1, <1>4
  <2> QED BY <1>2, <2>1, <2>2
<1>6. ASSUME NEW p \in Path, p \notin missing PROVE library'[p] = library[p]  BY <1>4, <1>6
<1>7. \A p \in Path : library'[p] \in [Hash -> Outcome]  BY <1>3, <1>5, <1>6
<1>8. library' \in [Path -> [Hash -> Outcome]]  BY <1>4, <1>7
<1>9. \A p \in Override : p \in Path /\ p \notin missing  BY <1>1 DEF PackAssumption, Path
<1> QED BY <1>5, <1>6, <1>8, <1>9 DEF missing

\* What a launch applies is wanted, and all of it if the pack is Modrinth's.
LEMMA DownloadFits == ASSUME PackAssumption, PackInv, DownloadFiles PROVE Fits'
<1> USE DEF PackInv, Fits
<1> DEFINE v == launch.version
           wanted == Wanted(v, Path) \ aux.disabled
           Applied(i) == (Known(v, i) \ aux.disabled) \cup Overrides(v)
<1>1. /\ launch.pc = "download" /\ UNCHANGED <<source, pack, loader, file, temporary, aux, touched>>
      /\ v \in Version /\ v # Nothing
  BY DEF DownloadFiles, instance, IInv, Applying, PackAssumption
<1>2. launch \in Launches  BY DEF IInv, Types
<1>3. PICK i, b : /\ b \in BOOLEAN
                  /\ launch' = [launch EXCEPT !.pc = "apply", !.aux = aux, !.failed = b, !.todo = Applied(i)]
  BY LaunchApplies DEF LaunchThen
<1>4. /\ launch'.pc = "apply" /\ launch'.version = v /\ launch'.todo = Applied(i)
      /\ launch'.aux = aux /\ launch'.mods = launch.mods
  BY <1>2, <1>3 DEF Launches
<1>5. Given' = {}  BY <1>1, <1>4 DEF GivesWanted, Given
<1>6. Applied(i) \subseteq wanted /\ (source = "modrinth" => Applied(i) = wanted)
  BY DEF Known, Overrides, Wanted, Path, Shapes, PackAssumption
<1>7. /\ library' \in [Path -> [Hash -> Outcome]]
      /\ Steady' => /\ Steady /\ \A p \in Override : library'[p] = library[p]
                    /\ \A p \in Wanted(v, Download) \ aux.disabled : library'[p][Want[v][p]] = "whole"
  <2>1. PICK seen \in Seen :
          \/ \E r \in [Missing(v, seen) -> Outcome] :
               /\ Install(v, Missing(v, seen), r)
               /\ IF \E p \in Missing(v, seen) : r[p] # "whole"
                  THEN Fault /\ disturbed' = TRUE ELSE UNCHANGED <<faults, disturbed>>
          \/ source = "curseforge" /\ UNCHANGED <<library, infos, faults, disturbed>>
    BY DEF DownloadFiles
  <2>2. CASE \E r \in [Missing(v, seen) -> Outcome] :
               /\ Install(v, Missing(v, seen), r)
               /\ IF \E p \in Missing(v, seen) : r[p] # "whole"
                  THEN Fault /\ disturbed' = TRUE ELSE UNCHANGED <<faults, disturbed>>
    <3>1. PICK r \in [Missing(v, seen) -> Outcome] :
            /\ Install(v, Missing(v, seen), r)
            /\ (\E p \in Missing(v, seen) : r[p] # "whole") => disturbed' = TRUE
            /\ (\A p \in Missing(v, seen) : r[p] = "whole") => disturbed' = disturbed
      BY <2>2
    <3>2. /\ library' \in [Path -> [Hash -> Outcome]]
          /\ \A p \in Override : library'[p] = library[p]
          /\ \A p \in Path : p \notin Missing(v, seen) => library'[p] = library[p]
          /\ \A p \in Missing(v, seen) : library'[p][Want[v][p]] = r[p]
      BY <1>1, <3>1, InstallLeaves
    <3>3. ASSUME Steady'
          PROVE  Steady /\ \A p \in Wanted(v, Download) \ aux.disabled : library'[p][Want[v][p]] = "whole"
      <4>1. source = "modrinth" /\ Steady /\ \A p \in Missing(v, seen) : r[p] = "whole"
        BY <1>1, <3>1, <3>3 DEF Steady
      <4>2. ASSUME NEW p \in Wanted(v, Download) \ aux.disabled, p \notin Missing(v, seen)
            PROVE  library'[p][Want[v][p]] = "whole"
        <5>1. p \in Path /\ library[p][Want[v][p]] = "whole"
          BY <4>1, <4>2 DEF Missing, Wanted, Path, Whole
        <5> QED BY <3>2, <4>2, <5>1
      <4> QED BY <3>2, <4>1, <4>2
    <3> QED BY <3>2, <3>3
  <2>3. CASE source = "curseforge" /\ UNCHANGED <<library, infos, faults, disturbed>>
    BY <1>1, <2>3 DEF Steady, Shapes
  <2> QED BY <2>1, <2>2, <2>3
<1>8. Shapes'  BY <1>1, <1>7 DEF Shapes
<1>9. GivesWanted'  BY <1>1, <1>4, <1>5, <1>6 DEF GivesWanted
<1>10. LibraryFits'
  <2> SUFFICES ASSUME Steady' PROVE /\ \A p \in Override, h \in Hash : library'[p][h] # "part"
                                   /\ \A p \in Wanted(v, Download) \ aux.disabled : library'[p][Want[v][p]] = "whole"
    BY <1>1, <1>4, <1>5 DEF LibraryFits, Whole, Wanted
  <2> QED BY <1>7 DEF LibraryFits
<1>11. RememberedFits'
  <2>1. Remembered' = Remembered  BY <1>1, <1>4 DEF Remembered
  <2> QED BY <1>1, <1>7, <2>1 DEF RememberedFits
<1>12. TurnsFit'
  <2>1. Steady' => source = "modrinth"  BY <1>1 DEF Steady
  <2>2. (Wanted(launch.version, Path) \ aux.disabled)' = wanted  BY <1>1, <1>4 DEF Wanted
  <2> QED BY <1>4, <1>6, <2>1, <2>2 DEF TurnsFit
<1> QED BY <1>8, <1>9, <1>10, <1>11, <1>12

\* Where a launch ends early, nothing was remembered or given.
LEMMA InterruptedFits == ASSUME PackAssumption, PackInv, Interrupted PROVE Fits'
<1> USE DEF PackInv, Fits
<1>1. /\ launch.pc = "download" /\ launch'.pc = "none" /\ launch.version \in Version
      /\ UNCHANGED <<source, file, aux, touched, disturbed>>
  BY DEF Interrupted, NoLaunch, instance, IInv, Applying
<1>2. /\ library' \in [Path -> [Hash -> Outcome]]
      /\ \A p \in Override : library'[p] = library[p]
  <2>1. CASE UNCHANGED library  BY <2>1 DEF Shapes
  <2>2. CASE \E seen \in Seen : \E r \in [Missing(launch.version, seen) -> Outcome] :
               Install(launch.version, Missing(launch.version, seen), r)
    BY <1>1, <2>2, InstallLeaves
  <2> QED BY <2>1, <2>2, Zenon DEF Interrupted
<1>3. Shapes'  BY <1>1, <1>2 DEF Shapes
<1>4. (Steady' <=> Steady) /\ Remembered = aux.applied  BY <1>1 DEF Steady, Remembered
<1>5. Steady' => \A p \in Override, h \in Hash : library'[p][h] # "part"  BY <1>2, <1>4 DEF LibraryFits
<1> QED BY <1>1, <1>3, <1>4, <1>5, WithoutPack DEF RememberedFits

\* One file has its turn: what becomes of the launch and of the instance.
LEMMA OneTurn ==
  ASSUME PackAssumption, IInv, NEW p \in Path, Apply(p), NEW h, h = Want[launch.version][p]
  PROVE  /\ launch.pc = "apply" /\ launch'.pc = "apply" /\ launch'.version = launch.version
         /\ p \in launch.todo /\ launch'.todo = launch.todo \ {p}
         /\ launch.version \in Version /\ h \in Hash /\ p \in Wanted(launch.version, Path)
         /\ launch'.aux.disabled = launch.aux.disabled
         /\ UNCHANGED <<source, loader, aux, disturbed>> /\ library' = Stored(p, h, "whole")
         /\ \/ /\ Unreadable(p, h)
               /\ Given' = Given /\ launch'.aux.applied = launch.aux.applied /\ UNCHANGED <<file, touched>>
            \/ /\ ~Unreadable(p, h) /\ p \in Mod
               /\ Given' = Given \cup
                    (IF loader # "Fabric" /\ library'[p][h] = "absent" THEN {} ELSE {<<p, h>>})
               /\ launch'.aux.applied = launch.aux.applied /\ UNCHANGED <<file, touched>>
            \/ /\ ~Unreadable(p, h) /\ p \notin Mod
               /\ should_override_file(launch.aux, p, h)
               /\ Given' = Given /\ launch'.aux.applied = [launch.aux.applied EXCEPT ![p] = h]
               /\ file' = [file EXCEPT ![p] = Copied(library', p, h)] /\ touched' = touched \ {p}
            \/ /\ ~Unreadable(p, h) /\ p \notin Mod
               /\ ~should_override_file(launch.aux, p, h)
               /\ Given' = Given /\ launch'.aux.applied = launch.aux.applied /\ UNCHANGED <<file, touched>>
<1> DEFINE done == [launch EXCEPT !.todo = @ \ {p}]
           stored == Stored(p, h, "whole")
<1>1. /\ launch.pc = "apply" /\ p \in launch.todo
      /\ UNCHANGED <<source, loader, aux, disturbed>> /\ library' = stored
  BY DEF Apply
<1>2. launch.version \in Version /\ h \in Hash /\ p \in Wanted(launch.version, Path)
  BY <1>1, EntryIsMade DEF IInv, Applying
<1>3. launch \in Launches /\ launch.aux \in Aux /\ launch.aux.applied \in [Path -> Hash \cup {Nothing}]
  BY DEF IInv, Types, Launches, Aux
<1>4. /\ done.pc = "apply" /\ done.version = launch.version /\ done.todo = launch.todo \ {p}
      /\ done.aux = launch.aux /\ done.mods = launch.mods
  BY <1>1, <1>3 DEF Launches
<1>5. CASE Unreadable(p, h)
  <2>1. launch' = done /\ UNCHANGED <<file, temporary, touched>>  BY <1>5 DEF Apply, instance
  <2>2. Given' = Given  BY <1>1, <1>4, <2>1 DEF Given
  <2> HIDE DEF done, stored
  <2> QED BY <1>1, <1>2, <1>4, <1>5, <2>1, <2>2 DEF stored
<1>6. CASE ~Unreadable(p, h) /\ p \in Mod
  <2>1. UNCHANGED <<file, touched>>  BY <1>6 DEF Apply
  <2>2. CASE loader = "Fabric"
    <3>1. launch' = [done EXCEPT !.mods = @ \cup {<<p, h>>}]  BY <1>6, <2>2 DEF Apply
    <3>2. /\ launch'.pc = "apply" /\ launch'.version = launch.version /\ launch'.todo = launch.todo \ {p}
          /\ launch'.aux = launch.aux /\ launch'.mods = launch.mods \cup {<<p, h>>}
      BY <1>1, <1>3, <3>1 DEF Launches
    <3>3. Given' = Given \cup {<<p, h>>}  BY <1>1, <2>2, <3>2 DEF Given
    <3> HIDE DEF done, stored
    <3> QED BY <1>1, <1>2, <1>6, <2>1, <2>2, <3>2, <3>3 DEF stored
  <2>3. CASE loader # "Fabric"
    <3>1. launch' = done /\ temporary' = temporary \cup (IF stored[p][h] = "absent" THEN {} ELSE {<<p, h>>})
      BY <1>6, <2>3 DEF Apply
    <3>2. Given' = Given \cup (IF library'[p][h] = "absent" THEN {} ELSE {<<p, h>>})
      BY <1>1, <2>3, <3>1 DEF Given
    <3> HIDE DEF done, stored
    <3> QED BY <1>1, <1>2, <1>4, <1>6, <2>1, <2>3, <3>1, <3>2 DEF stored
  <2> QED BY <2>2, <2>3
<1>7. CASE ~Unreadable(p, h) /\ p \notin Mod /\ should_override_file(launch.aux, p, h)
  <2>1. /\ launch' = [done EXCEPT !.aux.applied[p] = h, !.changed = TRUE]
        /\ file' = [file EXCEPT ![p] = Copied(stored, p, h)] /\ touched' = touched \ {p}
        /\ UNCHANGED temporary
    BY <1>7 DEF Apply
  <2>2. /\ launch'.aux = [launch.aux EXCEPT !.applied = [launch.aux.applied EXCEPT ![p] = h]]
        /\ launch'.pc = "apply" /\ launch'.version = launch.version /\ launch'.todo = launch.todo \ {p}
        /\ launch'.mods = launch.mods
    BY <1>1, <1>3, <2>1 DEF Launches, Aux
  <2>3. launch'.aux.applied = [launch.aux.applied EXCEPT ![p] = h] /\ launch'.aux.disabled = launch.aux.disabled
    BY <1>3, <2>2 DEF Aux
  <2>4. Given' = Given  BY <1>1, <2>1, <2>2 DEF Given
  <2> HIDE DEF done, stored
  <2> QED BY <1>1, <1>2, <1>7, <2>1, <2>2, <2>3, <2>4 DEF stored
<1>8. CASE ~Unreadable(p, h) /\ p \notin Mod /\ ~should_override_file(launch.aux, p, h)
  <2>1. launch' = done /\ UNCHANGED <<file, temporary, touched>>  BY <1>8 DEF Apply, instance
  <2>2. Given' = Given  BY <1>1, <1>4, <2>1 DEF Given
  <2> HIDE DEF done, stored
  <2> QED BY <1>1, <1>2, <1>4, <1>8, <2>1, <2>2 DEF stored
<1> QED BY <1>5, <1>6, <1>7, <1>8

\* What is stored changes one override, from absent to whole.
LEMMA StoredIsWhole ==
  ASSUME PackAssumption, Shapes, NEW p \in Path, NEW h \in Hash, NEW stored, stored = Stored(p, h, "whole")
  PROVE  /\ stored \in [Path -> [Hash -> Outcome]]
         /\ \A q \in Path, k \in Hash : stored[q][k] = library[q][k] \/ stored[q][k] = "whole"
         /\ p \in Override => stored[p][h] # "absent"
<1>1. library \in [Path -> [Hash -> Outcome]] /\ library[p] \in [Hash -> Outcome]  BY DEF Shapes
<1>2. CASE p \in Override /\ library[p][h] = "absent"
  <2>1. stored = [library EXCEPT ![p] = [library[p] EXCEPT ![h] = "whole"]]  BY <1>1, <1>2 DEF Stored
  <2>2. PICK row \in [Hash -> Outcome] : row = [library[p] EXCEPT ![h] = "whole"]
    BY <1>1 DEF Outcome
  <2>3. stored \in [Path -> [Hash -> Outcome]] /\ stored[p] = row /\ \A q \in Path : q # p => stored[q] = library[q]
    BY <1>1, <2>1, <2>2
  <2>4. \A k \in Hash : row[k] = library[p][k] \/ row[k] = "whole"  BY <1>1, <2>2
  <2>5. stored[p][h] = "whole"  BY <1>1, <2>2, <2>3
  <2> QED BY <2>3, <2>4, <2>5
<1>3. CASE ~(p \in Override /\ library[p][h] = "absent")
  BY <1>1, <1>3 DEF Stored
<1> QED BY <1>2, <1>3

\* A turn leaves the file as wanted, or as the user wants it.
LEMMA ApplyFits == ASSUME PackAssumption, PackInv, NEW p \in Path, Apply(p) PROVE Fits'
<1> USE DEF PackInv, Fits
<1> DEFINE v == launch.version
           wanted == Wanted(v, Path) \ aux.disabled
           old == launch.aux.applied
           new == launch'.aux.applied
<1>1. PICK h : h = Want[v][p]  OBVIOUS
<1> HIDE DEF PackInv
<1>2. /\ launch.pc = "apply" /\ launch'.pc = "apply" /\ launch'.version = v
      /\ p \in launch.todo /\ launch'.todo = launch.todo \ {p}
      /\ v \in Version /\ h \in Hash /\ p \in Wanted(v, Path)
      /\ launch'.aux.disabled = launch.aux.disabled
      /\ UNCHANGED <<source, loader, aux, disturbed>> /\ library' = Stored(p, h, "whole")
      /\ \/ /\ Unreadable(p, h)
            /\ Given' = Given /\ new = old /\ UNCHANGED <<file, touched>>
         \/ /\ ~Unreadable(p, h) /\ p \in Mod
            /\ Given' = Given \cup
                 (IF loader # "Fabric" /\ library'[p][h] = "absent" THEN {} ELSE {<<p, h>>})
            /\ new = old /\ UNCHANGED <<file, touched>>
         \/ /\ ~Unreadable(p, h) /\ p \notin Mod
            /\ should_override_file(launch.aux, p, h)
            /\ Given' = Given /\ new = [old EXCEPT ![p] = h]
            /\ file' = [file EXCEPT ![p] = Copied(library', p, h)] /\ touched' = touched \ {p}
         \/ /\ ~Unreadable(p, h) /\ p \notin Mod
            /\ ~should_override_file(launch.aux, p, h)
            /\ Given' = Given /\ new = old /\ UNCHANGED <<file, touched>>
  <2>1. IInv  BY DEF PackInv
  <2> HIDE DEF Fits
  <2> QED BY <1>1, <2>1, OneTurn
<1> USE DEF PackInv
<1>3. v # Nothing /\ WithPack /\ WithPack'  BY <1>2 DEF PackAssumption, WithPack
<1>4. p \in wanted /\ launch.todo \subseteq wanted /\ launch.aux.disabled = aux.disabled
  BY <1>2, <1>3 DEF GivesWanted
<1>5. /\ library' \in [Path -> [Hash -> Outcome]]
      /\ \A q \in Path, k \in Hash : library'[q][k] = library[q][k] \/ library'[q][k] = "whole"
      /\ p \in Override => library'[p][h] # "absent"
  BY <1>2, StoredIsWhole
<1>6. Steady' <=> Steady  BY <1>2 DEF Steady
<1>7. Steady => ~Unreadable(p, h) /\ library'[p][h] = "whole"
  <2> SUFFICES ASSUME Steady PROVE ~Unreadable(p, h) /\ library'[p][h] = "whole"  OBVIOUS
  <2>1. ~Unreadable(p, h)  BY DEF Steady, Unreadable
  <2>2. CASE p \in Download
    <3>1. p \in Wanted(v, Download) \ aux.disabled  BY <1>4, <2>2 DEF Wanted
    <3>2. library[p][h] = "whole"  BY <1>1, <1>3, <3>1 DEF LibraryFits, Whole
    <3> QED BY <1>2, <1>5, <2>1, <3>2
  <2>3. CASE p \in Override
    <3>1. library[p][h] # "part"  BY <1>2, <2>3 DEF LibraryFits
    <3>2. library'[p][h] \in Outcome  BY <1>2, <1>5
    <3> QED BY <1>2, <1>5, <2>1, <2>3, <3>1, <3>2 DEF Outcome
  <2> QED BY <2>2, <2>3 DEF Path
<1>8. Shapes'
  <2>1. DOMAIN file' = Path  BY <1>2 DEF Shapes
  <2> QED BY <1>2, <1>5, <2>1 DEF Shapes
<1>9. Given' \subseteq Given \cup (IF p \in Mod THEN {<<p, h>>} ELSE {})  BY <1>2
<1>10. GivesWanted'
  <2>1. WantedMods' = WantedMods  BY <1>2 DEF WantedMods, Wanted
  <2>2. p \in Mod => <<p, h>> \in WantedMods  BY <1>1, <1>4 DEF WantedMods, Wanted
  <2>3. Given' \subseteq WantedMods'  BY <1>2, <1>3, <1>9, <2>1, <2>2 DEF GivesWanted
  <2>4. launch'.todo \subseteq wanted  BY <1>2, <1>4
  <2> HIDE DEF wanted
  <2>5. wanted = (Wanted(launch.version, Path) \ aux.disabled)'  BY <1>2 DEF wanted, Wanted
  <2> QED BY <1>2, <1>4, <2>3, <2>4, <2>5 DEF GivesWanted
<1>11. LibraryFits'
  <2> SUFFICES ASSUME Steady
               PROVE  /\ \A q \in Override, k \in Hash : library'[q][k] # "part"
                      /\ \A q \in Wanted(v, Download) \ aux.disabled : library'[q][Want[v][q]] = "whole"
                      /\ \A m \in Given' : library'[m[1]][m[2]] = "whole"
    BY <1>2, <1>6 DEF LibraryFits, Whole, Wanted
  <2>1. \A q \in Override, k \in Hash : library'[q][k] # "part"
    BY <1>5 DEF LibraryFits, Path
  <2>2. ASSUME NEW q \in Wanted(v, Download) \ aux.disabled PROVE library'[q][Want[v][q]] = "whole"
    <3>1. q \in Path /\ Want[v][q] \in Hash  BY <1>2 DEF Wanted, Path, PackAssumption
    <3>2. library[q][Want[v][q]] = "whole"  BY <1>3 DEF LibraryFits, Whole
    <3> QED BY <1>5, <3>1, <3>2
  <2>3. ASSUME NEW m \in Given' PROVE library'[m[1]][m[2]] = "whole"
    <3>1. CASE m = <<p, h>>  BY <1>7, <3>1
    <3>2. CASE m \in Given
      <4>1. library[m[1]][m[2]] = "whole"  BY <1>3, <3>2 DEF LibraryFits
      <4>2. m \in WantedMods  BY <1>2, <1>3, <3>2 DEF GivesWanted
      <4>3. PICK q \in Wanted(v, Mod) : m = <<q, Want[v][q]>>  BY <4>2 DEF WantedMods
      <4>4. q \in Path /\ Want[v][q] \in Hash  BY <1>2, <4>3 DEF Wanted, PackAssumption
      <4> QED BY <1>5, <4>1, <4>3, <4>4
    <3> QED BY <1>9, <3>1, <3>2
  <2> QED BY <2>1, <2>2, <2>3
<1>12. old \in [Path -> Hash \cup {Nothing}] /\ DOMAIN file = Path
  BY DEF IInv, Types, Launches, Aux, Shapes
<1>13. Steady =>
         \/ /\ ~(p \notin Mod /\ should_override_file(launch.aux, p, h))
            /\ new = old /\ UNCHANGED <<file, touched>>
         \/ /\ p \notin Mod /\ new = [old EXCEPT ![p] = h]
            /\ file' = [file EXCEPT ![p] = h] /\ touched' = touched \ {p}
  BY <1>2, <1>7 DEF Copied
<1>14. \A q \in Path : q # p => file'[q] = file[q] /\ new[q] = old[q] /\ (q \in touched' <=> q \in touched)
  BY <1>2, <1>12
<1> HIDE DEF v, wanted, old, new
<1>15. RememberedFits'
  <2> SUFFICES ASSUME Steady, NEW q \in Path \ Mod, new[q] # Nothing
               PROVE  file'[q] = new[q] \/ q \in touched'
    BY <1>2, <1>6 DEF RememberedFits, Remembered, new
  <2>1. old[q] # Nothing => file[q] = old[q] \/ q \in touched
    BY <1>2 DEF RememberedFits, Remembered, old
  <2>2. CASE q # p  BY <1>14, <2>1, <2>2
  <2>3. CASE q = p  BY <1>12, <1>13, <2>1, <2>3
  <2> QED BY <2>2, <2>3
<1>16. TurnsFit'
  <2> SUFFICES ASSUME Steady, NEW q \in wanted
               PROVE  \/ q \in launch'.todo
                      \/ q \in Mod /\ <<q, Want[v][q]>> \in Given'
                      \/ q \notin Mod /\ (file'[q] = Want[v][q] \/ q \in touched')
    <3>1. wanted = (Wanted(launch.version, Path) \ aux.disabled)'  BY <1>2 DEF wanted, Wanted
    <3> QED BY <1>2, <1>6, <3>1 DEF TurnsFit
  <2>1. /\ q \in Path
        /\ \/ q \in launch.todo
           \/ q \in Mod /\ <<q, Want[v][q]>> \in Given
           \/ q \notin Mod /\ (file[q] = Want[v][q] \/ q \in touched)
    BY <1>3 DEF TurnsFit, v, wanted, Wanted
  <2>2. Given \subseteq Given'  BY <1>2
  <2>3. CASE q # p  BY <1>2, <1>14, <2>1, <2>2, <2>3
  <2>4. CASE q = p /\ p \in Mod
    <3>1. <<p, h>> \in Given'  BY <1>2, <1>7, <2>4
    <3> QED BY <1>1, <2>4, <3>1
  <2>5. CASE q = p /\ p \notin Mod
    <3>1. CASE file' = [file EXCEPT ![p] = h]  BY <1>1, <1>12, <2>5, <3>1
    <3>2. CASE ~should_override_file(launch.aux, p, h) /\ UNCHANGED <<file, touched>>
      <4>1. old[p] # Nothing /\ (file[p] = h \/ old[p] = h \/ file[p] # old[p])
        BY <3>2 DEF should_override_file, matches, old
      <4>2. file[p] = old[p] \/ p \in touched
        BY <1>2, <2>5, <4>1 DEF RememberedFits, Remembered, old
      <4> QED BY <1>1, <2>5, <3>2, <4>1, <4>2
    <3> QED BY <1>13, <2>5, <3>1, <3>2
  <2> QED BY <2>3, <2>4, <2>5
<1> QED BY <1>8, <1>10, <1>11, <1>15, <1>16

\* What was applied is written down, or was before.
LEMMA FinishFits ==
  ASSUME PackAssumption, \A v \in Version : Overrides(v) # {}, PackInv, Finish
  PROVE  Fits'
<1> USE DEF PackInv, Fits
<1> DEFINE v == launch.version
<1>1. /\ launch.pc = "apply" /\ launch.todo = {} /\ v \in Version /\ v # Nothing
      /\ UNCHANGED <<source, loader, library, file, temporary, touched, disturbed>>
  BY DEF Finish, instance, IInv, Applying, PackAssumption
<1>2. aux' = (IF launch.changed THEN launch.aux ELSE aux)  BY <1>1 DEF Finish
<1>3. aux'.applied = Remembered /\ aux'.disabled = aux.disabled
  BY <1>1, <1>2 DEF IInv, Applying, Remembered, GivesWanted
<1>4. Shapes'  BY <1>1, <1>3 DEF Shapes
<1>5. Steady' <=> Steady  BY <1>1 DEF Steady
<1>6. CASE launch.failed
  <2>1. launch'.pc = "none"  BY <1>6 DEF Finish, NoLaunch
  <2> QED BY <1>1, <1>3, <1>4, <1>5, <2>1, WithoutPack DEF LibraryFits, RememberedFits
<1>7. CASE ~launch.failed
  <2>1. launch' = [NoLaunch EXCEPT !.pc = "launched", !.version = v, !.mods = launch.mods]
    BY <1>7 DEF Finish
  <2>2. /\ launch'.pc = "launched" /\ launch'.version = v /\ launch'.mods = launch.mods
        /\ launch'.todo = {}
    BY <2>1 DEF NoLaunch
  <2>3. Given' = Given /\ WithPack /\ WithPack'  BY <1>1, <2>2 DEF Given, WithPack
  <2>4. WantedMods' = WantedMods  BY <1>3, <2>2 DEF WantedMods, Wanted
  <2>5. GivesWanted'  BY <1>1, <2>2, <2>3, <2>4 DEF GivesWanted
  <2>6. LibraryFits'  BY <1>1, <1>3, <1>5, <2>2, <2>3 DEF LibraryFits, Whole, Wanted
  <2>7. RememberedFits'  BY <1>1, <1>3, <1>5, <2>2 DEF RememberedFits, Remembered
  <2>8. TurnsFit'  BY <1>1, <1>3, <1>5, <2>2, <2>3 DEF TurnsFit, Wanted
  <2> QED BY <1>4, <2>5, <2>6, <2>7, <2>8
<1> QED BY <1>6, <1>7

LEMMA PlayedFits == ASSUME PackInv, Played PROVE Fits'
<1> USE DEF PackInv, Fits
<1>1. /\ launch.pc = "launched" /\ launch'.pc = "none"
      /\ UNCHANGED <<source, library, file, aux, touched, disturbed>>
  BY DEF Played, NoLaunch, instance, packs_history
<1>2. Shapes'  BY <1>1 DEF Shapes
<1>3. (Steady' <=> Steady) /\ Remembered = aux.applied  BY <1>1 DEF Steady, Remembered
<1> QED BY <1>1, <1>2, <1>3, WithoutPack DEF LibraryFits, RememberedFits

\* What is left half-written is known to be.
LEMMA CrashFits == ASSUME PackAssumption, PackInv, Crash PROVE Fits'
<1> USE DEF PackInv, Fits
<1>1. launch.pc = "apply" /\ launch'.pc = "none" /\ ~Steady' /\ UNCHANGED <<source, aux>>
  BY DEF Crash, NoLaunch, Steady
<1>2. \/ UNCHANGED <<library, file>>
      \/ \E p \in launch.todo, s \in {"part", "whole"} :
           /\ library' = Stored(p, Want[launch.version][p], s)
           /\ DOMAIN file' = DOMAIN file
  <2>1. CASE UNCHANGED <<library, file>>  BY <2>1
  <2>2. ASSUME NEW p \in launch.todo,
               \/ library' = Stored(p, Want[launch.version][p], "part") /\ UNCHANGED file
               \/ /\ library' = Stored(p, Want[launch.version][p], "whole")
                  /\ file' = [file EXCEPT ![p] = "part"]
        PROVE  \E s \in {"part", "whole"} : library' = Stored(p, Want[launch.version][p], s)
                                            /\ DOMAIN file' = DOMAIN file
    BY <2>2
  <2> QED BY <2>1, <2>2 DEF Crash
<1>3. library' \in [Path -> [Hash -> Outcome]]
  <2>1. library \in [Path -> [Hash -> Outcome]]  BY DEF Shapes
  <2>2. ASSUME NEW p \in launch.todo, NEW s \in {"part", "whole"},
               library' = Stored(p, Want[launch.version][p], s)
        PROVE  library' \in [Path -> [Hash -> Outcome]]
    <3>1. PICK h \in Hash : h = Want[launch.version][p]  BY <1>1, EntryIsMade
    <3>2. p \in Path  BY <1>1, EntryIsMade
    <3>3. PICK row \in [Hash -> Outcome] : row = [library[p] EXCEPT ![h] = s]
      BY <2>1, <2>2, <3>2 DEF Outcome
    <3>4. library' = library \/ library' = [library EXCEPT ![p] = row]
      BY <2>1, <2>2, <3>1, <3>2, <3>3 DEF Stored
    <3> QED BY <2>1, <3>3, <3>4
  <2> QED BY <1>2, <2>1, <2>2
<1>4. Shapes'
  <2>1. DOMAIN file' = Path  BY <1>2 DEF Shapes
  <2> QED BY <1>1, <1>3, <2>1 DEF Shapes
<1> QED BY <1>1, <1>4, WithoutPack

\* The user changes files at any time, and all else between launches.
LEMMA UserFits == ASSUME PackAssumption, PackInv, User PROVE Fits'
<1> USE DEF PackInv, Fits
<1>1. ASSUME NEW p \in Path, EditFile(p) PROVE Fits'
  <2>1. /\ \E c : file' = [file EXCEPT ![p] = c]
        /\ touched' = touched \cup {p}
        /\ UNCHANGED <<source, loader, library, temporary, aux, launch, disturbed>>
    BY <1>1 DEF EditFile
  <2>2. DOMAIN file' = Path /\ \A q \in Path : file'[q] = file[q] \/ q \in touched'
    BY <2>1 DEF Shapes
  <2>3. (Steady' <=> Steady) /\ Given' = Given /\ WithPack' = WithPack /\ Remembered' = Remembered
    BY <2>1 DEF Steady, Given, WithPack, Remembered
  <2>4. Shapes'  BY <2>1, <2>2 DEF Shapes
  <2>5. GivesWanted'  BY <2>1, <2>3 DEF GivesWanted, WantedMods, Wanted
  <2>6. LibraryFits'  BY <2>1, <2>3 DEF LibraryFits, Whole, Wanted
  <2>7. RememberedFits'  BY <2>1, <2>2, <2>3 DEF RememberedFits
  <2>8. TurnsFit'
    <3> SUFFICES ASSUME Steady, WithPack, NEW q \in Wanted(launch.version, Path) \ aux.disabled
                 PROVE  \/ q \in launch.todo
                        \/ q \in Mod /\ <<q, Want[launch.version][q]>> \in Given
                        \/ q \notin Mod /\ (file'[q] = Want[launch.version][q] \/ q \in touched')
      BY <2>1, <2>3 DEF TurnsFit, Wanted
    <3> QED BY <2>1, <2>2 DEF TurnsFit, Wanted
  <2> QED BY <2>4, <2>5, <2>6, <2>7, <2>8
<1>2. CASE Configure \/ Update \/ \E p \in Path : SetContentChildEnabled(p)
  <2>1. launch.pc = "none" /\ launch' = launch /\ UNCHANGED <<source, library, file, touched, disturbed>>
    BY <1>2 DEF Configure, Update, SetContentChildEnabled, instance
  <2>2. aux'.disabled \subseteq Download /\ (aux'.applied = aux.applied \/ aux' = NoAux)
    <3>1. CASE UNCHANGED aux  BY <3>1 DEF Shapes
    <3>2. CASE aux' = NoAux  BY <3>2 DEF NoAux
    <3>3. CASE \E p \in Path : SetContentChildEnabled(p)
      <4>1. PICK p \in Download :
              aux' = [aux EXCEPT !.disabled = IF p \in @ THEN @ \ {p} ELSE @ \cup {p}]
        BY <3>3 DEF SetContentChildEnabled
      <4>2. aux \in Aux  BY DEF IInv, Types
      <4> QED BY <4>1, <4>2 DEF Aux, Shapes
    <3> QED BY <1>2, <3>1, <3>2, <3>3 DEF Configure, Update
  <2>3. Shapes'  BY <2>1, <2>2 DEF Shapes
  <2>4. (Steady' <=> Steady) /\ Remembered = aux.applied  BY <2>1 DEF Steady, Remembered
  <2>5. \A p \in Path : NoAux.applied[p] = Nothing  BY DEF NoAux
  <2> QED BY <2>1, <2>2, <2>3, <2>4, <2>5, WithoutPack DEF LibraryFits, RememberedFits
<1> QED BY <1>1, <1>2 DEF User

LEMMA PackInvStep ==
  ASSUME PackAssumption, \A v \in Version : Overrides(v) # {}, PackInv, [PacksNext]_packs_vars
  PROVE  PackInv'
<1>1. IInv'  BY NextIInv DEF PackInv
<1>2. CASE UNCHANGED packs_vars
  <2>1. UNCHANGED <<source, loader, library, file, temporary, aux, launch, touched, disturbed>>
    BY <1>2 DEF packs_vars, instance, packs_history
  <2> QED BY <1>1, <2>1 DEF PackInv, Fits, Shapes, GivesWanted, LibraryFits, RememberedFits, TurnsFit,
        Given, WantedMods, Wanted, Steady, WithPack, Whole, Remembered
<1>3. ASSUME NEW p \in Path, Apply(p) PROVE Fits'  BY <1>3, ApplyFits
<1>4. CASE Begin \/ DownloadFiles \/ Interrupted
  BY <1>1, <1>4, BeginFits, DownloadFits, InterruptedFits DEF PackInv
<1>5. CASE Finish \/ Played \/ Crash \/ User
  BY <1>1, <1>5, FinishFits, PlayedFits, CrashFits, UserFits DEF PackInv
<1> QED BY <1>1, <1>2, <1>3, <1>4, <1>5 DEF PacksNext, PackInv

\* When the game starts, no file waits for its turn.
LEMMA PackInvIsEnough == ASSUME PackAssumption, PackInv PROVE PackIsApplied
<1> USE DEF PackInv, Fits
<1> SUFFICES ASSUME launch.pc = "launched", loader # "Vanilla", launch.version # Nothing
             PROVE  /\ Given \subseteq WantedMods
                    /\ source = "modrinth" /\ ~disturbed =>
                         /\ Given = WantedMods
                         /\ \A m \in Given : library[m[1]][m[2]] = "whole"
                         /\ \A p \in WantedFiles : file[p] = Want[launch.version][p] \/ p \in touched
  BY DEF PackIsApplied, GivesWanted
<1>1. WithPack /\ Given \subseteq WantedMods /\ launch.todo = {}  BY DEF WithPack, GivesWanted
<1>2. Mod \subseteq Path  BY DEF PackAssumption
<1> SUFFICES ASSUME Steady
             PROVE  /\ WantedMods \subseteq Given
                    /\ \A m \in Given : library[m[1]][m[2]] = "whole"
                    /\ \A p \in WantedFiles : file[p] = Want[launch.version][p] \/ p \in touched
  BY <1>1 DEF Steady
<1>3. ASSUME NEW p \in Wanted(launch.version, Mod) \ aux.disabled
      PROVE  <<p, Want[launch.version][p]>> \in Given
  BY <1>1, <1>2 DEF TurnsFit, Wanted
<1>4. WantedMods \subseteq Given  BY <1>3 DEF WantedMods
<1>5. \A m \in Given : library[m[1]][m[2]] = "whole"  BY <1>1 DEF LibraryFits
<1>6. ASSUME NEW p \in WantedFiles PROVE file[p] = Want[launch.version][p] \/ p \in touched
  <2>1. p \in Wanted(launch.version, Path) \ aux.disabled /\ p \notin Mod  BY DEF WantedFiles, Wanted
  <2> QED BY <1>1, <2>1 DEF TurnsFit
<1> QED BY <1>4, <1>5, <1>6

\* A game starts with what its pack wants in the instance (PackIsApplied), and what the
\* user has made of a file stays (UserChangesKept), through updates, failures, crashes and
\* cancelled launches, for any files and versions of a pack that has overrides in
\* each of its versions: of one without, nothing is remembered.
THEOREM PacksStayApplied ==
  ASSUME PackAssumption, \A v \in Version : Overrides(v) # {}
  PROVE  PacksSpec => PacksAreKept
<1>1. PacksInit => PackInv  BY InitIInv, FitsInitially DEF PackInv
<1>2. PackInv /\ [PacksNext]_packs_vars => PackInv'  BY PackInvStep
<1>3. PackAssumption /\ PackInv => PackIsApplied  BY PackInvIsEnough
<1>4. PacksSpec => UserChangesKept  BY UserChangesStay
<1> QED BY <1>1, <1>2, <1>3, <1>4, PTL DEF PacksSpec, PacksAreKept
-----------------------------------------------------------------------------
(* The library. *)

InCourse == {"permit", "path", "flock", "check", "request", "stream"}
TaskRecord == [pc : {"idle", "permit", "path", "flock", "check", "request", "stream",
                     "read", "create", "write", "dropped", "done"},
               kind : {"download", "copy"}, file : Inode \cup {Nil}, locked : BOOLEAN,
               owner : Launcher \cup {Nil}]

\* A download has the lock, unless that was not to be had; only a copy writes on by
\* itself; who writes has a file.
Shaped(k) ==
  /\ k.pc \in InCourse => k.kind = "download" /\ (unlocked \/ k.locked)
  /\ k.pc \in {"read", "create", "write", "dropped"} => k.kind = "copy"
  /\ k.pc \in {"write", "dropped"} => copied
  /\ k.pc \in {"stream", "write", "dropped"} => k.file \in Inode

Shelf ==
  /\ lib \in Inode \cup {Nil} /\ content \in [Inode -> {"part", "whole", "edited"}] /\ linked \subseteq Inode
  /\ unlocked \in BOOLEAN /\ copied \in BOOLEAN /\ raced \in BOOLEAN
  /\ edits \in Nat /\ edited \subseteq Inode /\ (edits = 0 => edited = {})

Tasks == task \in [Task -> TaskRecord] /\ \A t \in Task : Shaped(task[t])

\* Who has the lock file.
Within(k) == k.pc \in {"check", "request", "stream"} /\ k.locked
OneWithin == \A t, u \in Task : Within(task[t]) /\ Within(task[u]) => t = u

\* While nobody has raced, one at a time writes, to the file of the name, which is
\* not whole until then; it is when somebody is done, and nobody writes any more.
NobodyRaces == ~raced =>
  /\ \A i \in linked \ edited : content[i] = "whole"
  /\ \A t \in Writing : task[t].file = lib /\ content[lib] # "whole"
  /\ \A t, u \in Writing : t = u
  /\ \A t \in Task : task[t].pc = "done" =>
       Writing = {} /\ lib \in Inode /\ (content[lib] = "whole" \/ lib \in edited)

\* Who is about to empty the file has seen that it is not whole, and nobody else can
\* have made it so.
LookedUnderLock == ~unlocked /\ ~copied /\ edits = 0 =>
  ~raced /\ \A t \in Task : task[t].pc = "request" => ~valid_hash_on_disk

LibraryInv == Shelf /\ Tasks /\ OneWithin /\ NobodyRaces /\ LookedUnderLock

\* The course of a download, place by place.
LEMMA PlacesAre ==
  /\ \A pc : pc \in {Course[i] : i \in DOMAIN Course} <=> pc \in InCourse
  /\ Place("permit") = 1 /\ Place("path") = 2 /\ Place("flock") = 3
  /\ Place("check") = 4 /\ Place("request") = 5 /\ Place("stream") = 6
  /\ Course[1] = "permit" /\ Course[2] = "path" /\ Course[3] = "flock" /\ Course[4] = "check"
  /\ DOMAIN resources = 1 .. 3
  /\ resources[1] = "permit" /\ resources[2] = "path" /\ resources[3] = "flock"
<1>1. Course \in Seq(InCourse) /\ Len(Course) = 6
  <2>1. resources \in Seq(InCourse) /\ <<"check", "request", "stream">> \in Seq(InCourse)
    BY DEF resources, InCourse
  <2>2. Len(Course) = 6  BY DEF Course, resources
  <2> QED BY <2>1, <2>2, ConcatProperties DEF Course
<1>2. DOMAIN Course = 1 .. 6 /\ Course[1] = "permit" /\ Course[2] = "path" /\ Course[3] = "flock"
      /\ Course[4] = "check" /\ Course[5] = "request" /\ Course[6] = "stream"
  <2>1. DOMAIN Course = 1 .. 6  BY <1>1
  <2>2. Course[1] = "permit" /\ Course[2] = "path" /\ Course[3] = "flock"  BY DEF Course, resources
  <2>3. Course[4] = "check" /\ Course[5] = "request" /\ Course[6] = "stream"  BY DEF Course, resources
  <2> QED BY <2>1, <2>2, <2>3
<1>3. \A i \in DOMAIN Course : i \in {1, 2, 3, 4, 5, 6}  BY <1>2
<1>4. DOMAIN resources = 1 .. 3 /\ resources[1] = "permit" /\ resources[2] = "path" /\ resources[3] = "flock"
  BY DEF resources
<1>5. \A pc : pc \in {Course[i] : i \in DOMAIN Course} <=> pc \in InCourse
  BY <1>2, <1>3 DEF InCourse
<1>6. Place("permit") = 1 /\ Place("path") = 2 /\ Place("flock") = 3
  BY <1>2, <1>3 DEF Place
<1>7. Place("check") = 4 /\ Place("request") = 5 /\ Place("stream") = 6
  BY <1>2, <1>3 DEF Place
<1> QED BY <1>2, <1>4, <1>5, <1>6, <1>7

\* The lock file is held from its acquisition to the return.
LEMMA HoldsTheLock ==
  ASSUME Tasks, NEW t \in Task
  PROVE  Holds(t, "flock") <=> Within(task[t])
<1>1. task[t].pc \in InCourse => task[t].kind = "download"  BY DEF Tasks, Shaped
<1>2. Holds(t, "flock") <=>
        task[t].kind = "download" /\ task[t].pc \in InCourse /\ Place(task[t].pc) > 3 /\ task[t].locked
  BY PlacesAre DEF Holds
<1>3. CASE task[t].pc \in InCourse
  <2>1. Place(task[t].pc) > 3 <=> task[t].pc \in {"check", "request", "stream"}
    BY <1>3, PlacesAre DEF InCourse
  <2> QED BY <1>1, <1>2, <1>3, <2>1 DEF Within
<1>4. CASE task[t].pc \notin InCourse  BY <1>2, <1>4 DEF Within, InCourse
<1> QED BY <1>3, <1>4

\* Nothing is on its way, and of the files nothing is known.
LEMMA LibraryInvInitially == LibraryInit => LibraryInv
<1> SUFFICES ASSUME LibraryInit PROVE LibraryInv  OBVIOUS
<1>1. NoTask \in TaskRecord /\ NoTask.pc = "idle"  BY DEF NoTask, TaskRecord
<1>2. task \in [Task -> TaskRecord] /\ \A t \in Task : task[t].pc = "idle"  BY <1>1 DEF LibraryInit
<1>3. Shelf  BY DEF LibraryInit, Shelf
<1>4. Tasks  BY <1>2 DEF Tasks, Shaped, InCourse
<1>5. OneWithin  BY <1>2 DEF OneWithin, Within
<1>6. NobodyRaces  BY <1>2 DEF NobodyRaces, Writing, LibraryInit
<1>7. LookedUnderLock  BY <1>2 DEF LookedUnderLock, LibraryInit
<1> QED BY <1>3, <1>4, <1>5, <1>6, <1>7 DEF LibraryInv

\* Records of tasks.
LEMMA RecordFacts ==
  /\ NoTask \in TaskRecord /\ NoTask.pc = "idle"
  /\ \A o \in Launcher \cup {Nil} :
       LET done == [NoTask EXCEPT !.pc = "done", !.owner = o]
       IN  done \in TaskRecord /\ done.pc = "done"
  /\ \A k \in TaskRecord : Dropped(k) \in TaskRecord
  /\ \A k \in TaskRecord :
       IF k.pc \in {"write", "dropped"}
       THEN Dropped(k).pc = "dropped" /\ Dropped(k).kind = k.kind /\ Dropped(k).file = k.file
       ELSE Dropped(k).pc = "idle"
<1>1. NoTask \in TaskRecord /\ NoTask.pc = "idle"  BY DEF NoTask, TaskRecord
<1>2. ASSUME NEW o \in Launcher \cup {Nil}
      PROVE  LET done == [NoTask EXCEPT !.pc = "done", !.owner = o]
             IN  done \in TaskRecord /\ done.pc = "done"
  BY <1>1 DEF TaskRecord
<1>3. ASSUME NEW k \in TaskRecord
      PROVE  /\ Dropped(k) \in TaskRecord
             /\ IF k.pc \in {"write", "dropped"}
                THEN Dropped(k).pc = "dropped" /\ Dropped(k).kind = k.kind /\ Dropped(k).file = k.file
                ELSE Dropped(k).pc = "idle"
  <2>1. CASE k.pc \in {"write", "dropped"}
    <3>1. Dropped(k) = [k EXCEPT !.pc = "dropped"]  BY <2>1 DEF Dropped
    <3> QED BY <2>1, <3>1 DEF TaskRecord
  <2>2. CASE k.pc \notin {"write", "dropped"}
    <3>1. Dropped(k) = NoTask  BY <2>2 DEF Dropped
    <3> QED BY <2>2, <3>1, <1>1
  <2> QED BY <2>1, <2>2
<1> QED BY <1>1, <1>2, <1>3

\* A task goes on to pc, or without the lock.
LEMMA GoesOn ==
  ASSUME NEW k \in TaskRecord, NEW pc \in InCourse \cup {"read", "create", "write"}
  PROVE  \E d \in TaskRecord :
           /\ d = [k EXCEPT !.pc = pc]
           /\ d.pc = pc /\ d.kind = k.kind /\ d.locked = k.locked /\ d.file = k.file
<1> DEFINE d == [k EXCEPT !.pc = pc]
<1>1. d \in TaskRecord /\ d.pc = pc /\ d.kind = k.kind /\ d.locked = k.locked /\ d.file = k.file
  BY DEF TaskRecord, InCourse
<1> QED BY <1>1

LEMMA GoesOnWithout ==
  ASSUME NEW k \in TaskRecord
  PROVE  \E d \in TaskRecord :
           /\ d = [k EXCEPT !.pc = "check", !.locked = FALSE]
           /\ d.pc = "check" /\ d.kind = k.kind /\ d.locked = FALSE /\ d.file = k.file
<1> DEFINE d == [k EXCEPT !.pc = "check", !.locked = FALSE]
<1>1. d \in TaskRecord /\ d.pc = "check" /\ d.kind = k.kind /\ d.locked = FALSE /\ d.file = k.file
  BY DEF TaskRecord
<1> QED BY <1>1

\* Tasks that end, or are dropped, disturb nothing.
LEMMA TasksEnd ==
  ASSUME LibraryInv,
         UNCHANGED <<lib, content, linked, library_history>>,
         task' \in [Task -> TaskRecord],
         \A t \in Task : \/ task'[t] = task[t]
                         \/ task'[t] = NoTask
                         \/ task'[t] = Dropped(task[t])
  PROVE  LibraryInv'
<1> USE DEF LibraryInv
<1>1. \A t \in Task : task[t] \in TaskRecord /\ Shaped(task[t])  BY DEF Tasks
<1>2. \A t \in Task :
        \/ task'[t] = task[t]
        \/ task'[t].pc = "idle"
        \/ /\ task[t].pc \in {"write", "dropped"} /\ task'[t].pc = "dropped"
           /\ task'[t].kind = task[t].kind /\ task'[t].file = task[t].file
  BY <1>1, RecordFacts
<1>3. Shelf'  BY DEF Shelf, library_history
<1>4. Tasks'
  <2>1. ASSUME NEW t \in Task PROVE Shaped(task[t])'
    BY <1>1, <1>2 DEF Shaped, InCourse, library_history
  <2> QED BY <2>1 DEF Tasks
<1>5. OneWithin'
  <2>1. \A t \in Task : Within(task'[t]) => Within(task[t])  BY <1>2 DEF Within
  <2>2. OneWithin  OBVIOUS
  <2> QED BY <2>1, <2>2 DEF OneWithin, Within
<1>6. NobodyRaces'
  <2>1. \A t \in Task : t \in Writing' => t \in Writing /\ task'[t].file = task[t].file
    BY <1>2 DEF Writing
  <2>2. \A t \in Task : task'[t].pc = "done" => task[t].pc = "done"  BY <1>2
  <2>3. Writing' \subseteq Writing /\ Writing \subseteq Task  BY <2>1 DEF Writing
  <2> QED BY <2>1, <2>2, <2>3 DEF NobodyRaces, library_history
<1>7. LookedUnderLock'
  <2>1. \A t \in Task : task'[t].pc = "request" => task[t].pc = "request"  BY <1>2
  <2> QED BY <2>1 DEF LookedUnderLock, valid_hash_on_disk, library_history
<1> QED BY <1>3, <1>4, <1>5, <1>6, <1>7

\* A task that does not write goes on, and does not begin to.
LEMMA TaskMoves ==
  ASSUME LibraryInv, NEW t \in Task, NEW d \in TaskRecord, task' = [task EXCEPT ![t] = d],
         UNCHANGED <<lib, content, linked, copied, raced, edited, edits>>,
         unlocked' \in BOOLEAN, unlocked => unlocked', Shaped(d)',
         task[t].pc \notin {"stream", "write", "dropped"}, d.pc \notin {"stream", "write", "dropped"},
         Within(d) => Within(task[t]) \/ \A u \in Task : ~Within(task[u]),
         d.pc = "done" => valid_hash_on_disk,
         d.pc = "request" => ~valid_hash_on_disk
  PROVE  LibraryInv'
<1> USE DEF LibraryInv
<1>1. \A u \in Task : task[u] \in TaskRecord /\ Shaped(task[u])  BY DEF Tasks
<1>2. /\ task' \in [Task -> TaskRecord] /\ task'[t] = d
      /\ \A u \in Task : u # t => task'[u] = task[u]
  BY DEF Tasks
<1>3. Shelf'  BY DEF Shelf
<1>4. Tasks'
  <2>1. ASSUME NEW u \in Task PROVE Shaped(task[u])'
    <3>1. CASE u = t  BY <1>2, <3>1 DEF Shaped
    <3>2. CASE u # t  BY <1>1, <1>2, <3>2 DEF Shaped, Shelf
    <3> QED BY <3>1, <3>2
  <2> QED BY <1>2, <2>1 DEF Tasks
<1>5. OneWithin'  BY <1>2 DEF OneWithin
<1>6. NobodyRaces'
  <2>1. Writing' = Writing  BY <1>2 DEF Writing
  <2>2. ~raced /\ valid_hash_on_disk => Writing = {} /\ lib \in Inode /\ content[lib] = "whole"
    BY DEF NobodyRaces, valid_hash_on_disk, Shelf
  <2>3. \A u \in Writing : u # t  BY DEF Writing
  <2> QED BY <1>2, <2>1, <2>2, <2>3 DEF NobodyRaces, Writing
<1>7. LookedUnderLock'
  <2>1. ~unlocked' => ~unlocked  BY DEF Shelf
  <2> QED BY <1>2, <2>1 DEF LookedUnderLock, valid_hash_on_disk
<1> QED BY <1>3, <1>4, <1>5, <1>6, <1>7

LEMMA AcquireKeeps == ASSUME LibraryInv, NEW t \in Task, Acquire(t) PROVE LibraryInv'
<1>1. PICK k \in TaskRecord : k = task[t]  BY DEF LibraryInv, Tasks
<1>2. task \in [Task -> TaskRecord] /\ Shaped(k) /\ k.kind = "download"
  BY <1>1 DEF LibraryInv, Tasks, Acquire
<1>3. PICK i \in DOMAIN resources :
        task[t].pc = resources[i] /\ Available(t, resources[i]) /\ Go(t, Course[i + 1])
  BY DEF Acquire
<1>4. PICK pc : pc = Course[i + 1]  OBVIOUS
<1>5. /\ k.pc \in {"permit", "path", "flock"} /\ pc \in {"path", "flock", "check"}
      /\ pc = "check" => Available(t, "flock")
  <2>1. i \in {1, 2, 3}  BY PlacesAre
  <2>2. CASE i = 1  BY <1>1, <1>3, <1>4, <2>2, PlacesAre
  <2>3. CASE i = 2  BY <1>1, <1>3, <1>4, <2>3, PlacesAre
  <2>4. CASE i = 3  BY <1>1, <1>3, <1>4, <2>4, PlacesAre
  <2> QED BY <2>1, <2>2, <2>3, <2>4
<1>6. PICK d \in TaskRecord :
        /\ d = [k EXCEPT !.pc = pc]
        /\ d.pc = pc /\ d.kind = k.kind /\ d.locked = k.locked /\ d.file = k.file
  BY <1>5, GoesOn DEF InCourse
<1>7. task' = [task EXCEPT ![t] = d]  BY <1>1, <1>2, <1>3, <1>4, <1>6 DEF Go
<1>8. UNCHANGED <<lib, content, linked, unlocked, copied, raced, edited, edits>>
  BY DEF Acquire, library_history
<1>9. Within(d) => \A u \in Task : ~Within(task[u])
  <2>1. \A u \in Task : Holds(u, "flock") <=> Within(task[u])  BY HoldsTheLock DEF LibraryInv
  <2>2. Available(t, "flock") => \A u \in Task : ~Holds(u, "flock")
    BY DEF Available
  <2> QED BY <1>5, <1>6, <2>1, <2>2 DEF Within
<1>10. Shaped(d)'  BY <1>2, <1>5, <1>6, <1>8 DEF Shaped, InCourse
<1>11. unlocked' \in BOOLEAN  BY <1>8 DEF LibraryInv, Shelf
<1> QED BY <1>1, <1>5, <1>6, <1>7, <1>8, <1>9, <1>10, <1>11, TaskMoves

LEMMA LockFailsKeeps == ASSUME LibraryInv, NEW t \in Task, LockFails(t) PROVE LibraryInv'
<1>1. PICK k \in TaskRecord : k = task[t]  BY DEF LibraryInv, Tasks
<1>2. task \in [Task -> TaskRecord] /\ Shaped(k) /\ k.pc = "flock"
  BY <1>1 DEF LibraryInv, Tasks, LockFails
<1>3. Course[Place("flock") + 1] = "check"
  <2>1. Place("flock") + 1 = 4  BY PlacesAre
  <2> QED BY <2>1, PlacesAre
<1>4. PICK d \in TaskRecord :
        /\ d = [k EXCEPT !.pc = "check", !.locked = FALSE]
        /\ d.pc = "check" /\ d.kind = k.kind /\ d.locked = FALSE /\ d.file = k.file
  BY GoesOnWithout
<1>5. task' = [task EXCEPT ![t] = d]
  <2>1. task' = [task EXCEPT ![t].pc = "check", ![t].locked = FALSE]  BY <1>3 DEF LockFails
  <2> QED BY <1>1, <1>2, <1>4, <2>1
<1>6. unlocked' = TRUE /\ UNCHANGED <<lib, content, linked, copied, raced, edited, edits>>
  BY DEF LockFails
<1>7. Shaped(d)'  BY <1>2, <1>4, <1>6 DEF Shaped, InCourse
<1>8. ~Within(d)  BY <1>4 DEF Within
<1> QED BY <1>1, <1>2, <1>4, <1>5, <1>6, <1>7, <1>8, TaskMoves

\* A look at the file, under the lock or for a copy.
LEMMA CheckKeeps ==
  ASSUME LibraryInv, NEW t \in Task, Check(t) \/ CopyCheck(t)
  PROVE  LibraryInv'
<1>1. PICK k \in TaskRecord : k = task[t]  BY DEF LibraryInv, Tasks
<1>2. task \in [Task -> TaskRecord] /\ Shaped(k)  BY <1>1 DEF LibraryInv, Tasks
<1>3. UNCHANGED <<lib, content, linked, unlocked, copied, raced, edited, edits>>
  BY DEF Check, CopyCheck, library_history
<1>4. k.pc = "check" \/ k.pc = "read"  BY <1>1 DEF Check, CopyCheck
<1>5. unlocked' \in BOOLEAN  BY <1>3 DEF LibraryInv, Shelf
<1>6. CASE valid_hash_on_disk
  <2>1. k.owner \in Launcher \cup {Nil}  BY DEF TaskRecord
  <2>2. PICK done \in TaskRecord : done = [NoTask EXCEPT !.pc = "done", !.owner = k.owner] /\ done.pc = "done"
    BY <2>1, RecordFacts
  <2>3. task' = [task EXCEPT ![t] = done]  BY <1>1, <1>6, <2>2 DEF Check, CopyCheck, Ready
  <2>4. Shaped(done)' /\ ~Within(done)  BY <2>2 DEF Shaped, InCourse, Within
  <2> QED BY <1>1, <1>3, <1>4, <1>5, <1>6, <2>2, <2>3, <2>4, TaskMoves
<1>7. CASE ~valid_hash_on_disk
  <2>1. PICK pc \in {"request", "create"} :
          /\ Go(t, pc)
          /\ pc = "request" => k.pc = "check"
          /\ pc = "create" => k.pc = "read"
    <3>1. CASE Check(t)  BY <1>1, <1>7, <3>1 DEF Check
    <3>2. CASE CopyCheck(t)  BY <1>1, <1>7, <3>2 DEF CopyCheck
    <3> QED BY <3>1, <3>2
  <2>2. PICK d \in TaskRecord :
          /\ d = [k EXCEPT !.pc = pc]
          /\ d.pc = pc /\ d.kind = k.kind /\ d.locked = k.locked /\ d.file = k.file
    BY GoesOn DEF InCourse
  <2>3. task' = [task EXCEPT ![t] = d]  BY <1>1, <1>2, <2>1, <2>2 DEF Go
  <2>4. Shaped(d)'  BY <1>2, <1>3, <2>1, <2>2 DEF Shaped, InCourse
  <2>5. Within(d) => Within(k)  BY <2>1, <2>2 DEF Within
  <2> QED BY <1>1, <1>3, <1>4, <1>5, <1>7, <2>2, <2>3, <2>4, <2>5, TaskMoves
<1> QED BY <1>6, <1>7

\* A file is created or emptied: unless somebody has raced, nobody writes or is done,
\* and instances that have it know that it is not whole.
LEMMA FileIsCreated ==
  ASSUME LibraryInv, NEW t \in Task, NEW pc \in {"stream", "write"}, CreateFile(t, pc),
         \/ pc = "stream" /\ task[t].pc = "request" /\ copied' = copied
         \/ pc = "write" /\ task[t].pc = "create" /\ copied' = TRUE
  PROVE  LibraryInv'
<1> USE DEF LibraryInv
<1>1. PICK i \in Inode :
        /\ IF lib # Nil THEN i = lib ELSE i \notin linked /\ \A u \in Task : task[u].file # i
        /\ lib' = i /\ content' = [content EXCEPT ![i] = "part"]
        /\ task' = [task EXCEPT ![t].pc = pc, ![t].file = i]
        /\ edited' = edited \ (IF lib = Nil THEN {i} ELSE {})
  BY DEF CreateFile
<1>2. /\ raced' = (raced \/ Writing # {} \/ valid_hash_on_disk \/ \E u \in Task : task[u].pc = "done")
      /\ UNCHANGED <<linked, unlocked, edits>>
  BY DEF CreateFile
<1>3. PICK k \in TaskRecord : k = task[t]  BY DEF Tasks
<1>4. task \in [Task -> TaskRecord] /\ \A u \in Task : Shaped(task[u])  BY DEF Tasks
<1>5. PICK d \in TaskRecord :
        /\ d = [k EXCEPT !.pc = pc, !.file = i]
        /\ d.pc = pc /\ d.kind = k.kind /\ d.locked = k.locked /\ d.file = i
  <2> DEFINE e == [k EXCEPT !.pc = pc, !.file = i]
  <2>1. e \in TaskRecord /\ e.pc = pc /\ e.kind = k.kind /\ e.locked = k.locked /\ e.file = i
    BY DEF TaskRecord
  <2> QED BY <2>1
<1>6. task' = [task EXCEPT ![t] = d]  BY <1>1, <1>3, <1>4, <1>5
<1>7. /\ task' \in [Task -> TaskRecord] /\ task'[t] = d
      /\ \A u \in Task : u # t => task'[u] = task[u]
  BY <1>4, <1>6
<1>8. /\ pc = "stream" => k.pc = "request" /\ copied' = copied
      /\ pc = "write" => k.pc = "create" /\ copied' = TRUE
      /\ copied' \in BOOLEAN /\ (copied => copied')
  BY <1>3 DEF Shelf
<1>9. Shelf'
  <2>1. content' \in [Inode -> {"part", "whole", "edited"}]  BY <1>1 DEF Shelf
  <2>2. raced' \in BOOLEAN  BY <1>2 DEF Shelf
  <2> QED BY <1>1, <1>2, <1>8, <2>1, <2>2 DEF Shelf
<1>10. Tasks'
  <2>1. Shaped(d)'  BY <1>2, <1>3, <1>4, <1>5, <1>8 DEF Shaped, InCourse
  <2>2. ASSUME NEW u \in Task, u # t PROVE Shaped(task[u])'
    BY <1>2, <1>4, <1>7, <1>8, <2>2 DEF Shaped
  <2>3. ASSUME NEW u \in Task PROVE Shaped(task[u])'
    BY <1>7, <2>1, <2>2 DEF Shaped
  <2> QED BY <1>7, <2>3 DEF Tasks
<1>11. OneWithin'
  <2>1. Within(d) => Within(k)  BY <1>5, <1>8 DEF Within
  <2> QED BY <1>3, <1>7, <2>1 DEF OneWithin
<1>12. ASSUME ~raced'
       PROVE  ~raced /\ Writing = {} /\ ~valid_hash_on_disk /\ \A u \in Task : task[u].pc # "done"
  BY <1>2, <1>12
<1>13. content'[i] = "part" /\ \A j \in Inode : j # i => content'[j] = content[j]
  BY <1>1 DEF Shelf
<1>14. NobodyRaces'
  <2> SUFFICES ASSUME ~raced'
               PROVE  /\ \A j \in linked' \ edited' : content'[j] = "whole"
                      /\ \A u \in Writing' : task'[u].file = lib' /\ content'[lib'] # "whole"
                      /\ \A u, w \in Writing' : u = w
                      /\ \A u \in Task : task'[u].pc # "done"
    BY DEF NobodyRaces
  <2>1. Writing' = {t}
    <3>1. \A u \in Task : u # t => u \notin Writing'  BY <1>7, <1>12 DEF Writing
    <3>2. t \in Writing'  BY <1>5, <1>7 DEF Writing
    <3>3. Writing' \subseteq Task  BY DEF Writing
    <3> QED BY <3>1, <3>2, <3>3
  <2>2. ASSUME NEW j \in linked' \ edited' PROVE content'[j] = "whole"
    <3>1. j \in linked /\ j \in Inode /\ \A h \in linked \ edited : content[h] = "whole"
      BY <1>2, <1>12 DEF NobodyRaces, Shelf
    <3>2. CASE lib = Nil  BY <1>1, <1>13, <3>1, <3>2
    <3>3. CASE lib # Nil
      <4>1. j \in linked \ edited  BY <1>1, <3>1, <3>3
      <4>2. j # i  BY <1>1, <1>12, <3>1, <3>3, <4>1 DEF valid_hash_on_disk
      <4> QED BY <1>13, <3>1, <4>1, <4>2
    <3> QED BY <3>2, <3>3
  <2>3. \A u \in Task : task'[u].pc # "done"  BY <1>5, <1>7, <1>12
  <2> QED BY <1>1, <1>5, <1>7, <1>13, <2>1, <2>2, <2>3
<1>15. LookedUnderLock'
  <2> SUFFICES ASSUME ~unlocked, ~copied', edits = 0
               PROVE  ~raced' /\ ~valid_hash_on_disk'
    BY <1>2 DEF LookedUnderLock
  <2>1. ~copied /\ k.pc = "request"  BY <1>8
  <2>2. ~raced /\ ~valid_hash_on_disk /\ edited = {}
    BY <1>3, <2>1 DEF LookedUnderLock, Shelf
  <2>3. Writing = {}
    <3> SUFFICES ASSUME NEW w \in Writing PROVE FALSE  OBVIOUS
    <3>1. w \in Task /\ task[w].pc = "stream"  BY <1>4, <2>1 DEF Writing, Shaped
    <3>2. Within(task[w])  BY <1>4, <3>1 DEF Shaped, InCourse, Within
    <3>3. Within(task[t])  BY <1>3, <1>4, <2>1 DEF Shaped, InCourse, Within
    <3> QED BY <1>3, <2>1, <3>1, <3>2, <3>3 DEF OneWithin
  <2>4. ASSUME NEW u \in Task, task[u].pc = "done" PROVE FALSE
    <3>1. lib \in Inode /\ content[lib] = "whole"  BY <2>2, <2>4 DEF NobodyRaces
    <3> QED BY <2>2, <3>1, LibraryAssumption DEF valid_hash_on_disk
  <2>5. ~raced'  BY <1>2, <2>2, <2>3, <2>4
  <2>6. ~valid_hash_on_disk'  BY <1>1, <1>13 DEF valid_hash_on_disk
  <2> QED BY <2>5, <2>6
<1> QED BY <1>9, <1>10, <1>11, <1>14, <1>15

\* A file is written to the end.
LEMMA FileIsWritten ==
  ASSUME LibraryInv, NEW t \in Task, task[t].pc \in {"stream", "write", "dropped"},
         NEW d \in TaskRecord, d.pc \in {"idle", "done"}, task' = [task EXCEPT ![t] = d],
         NEW c \in {"part", "whole"}, ~raced => c = "whole",
         content' = [content EXCEPT ![task[t].file] = c],
         UNCHANGED <<lib, linked, library_history>>
  PROVE  LibraryInv'
<1> USE DEF LibraryInv
<1>1. UNCHANGED <<unlocked, copied, raced, edited, edits>>  BY DEF library_history
<1>2. task \in [Task -> TaskRecord] /\ \A u \in Task : Shaped(task[u])  BY DEF Tasks
<1>3. /\ task' \in [Task -> TaskRecord] /\ task'[t] = d
      /\ \A u \in Task : u # t => task'[u] = task[u]
  BY <1>2
<1>4. PICK i \in Inode : i = task[t].file  BY <1>2 DEF Shaped
<1>5. /\ content' \in [Inode -> {"part", "whole", "edited"}] /\ content'[i] = c
      /\ \A j \in Inode : j # i => content'[j] = content[j]
  BY <1>4 DEF Shelf
<1>6. Shelf'  BY <1>1, <1>5 DEF Shelf
<1>7. Tasks'
  <2>1. ASSUME NEW u \in Task PROVE Shaped(task[u])'
    <3>1. CASE u = t  BY <1>3, <3>1 DEF Shaped, InCourse
    <3>2. CASE u # t  BY <1>1, <1>2, <1>3, <3>2 DEF Shaped
    <3> QED BY <3>1, <3>2
  <2> QED BY <1>3, <2>1 DEF Tasks
<1>8. OneWithin'
  <2>1. ~Within(d)  BY DEF Within
  <2> QED BY <1>3, <2>1 DEF OneWithin
<1>9. t \in Writing  BY DEF Writing
<1>10. NobodyRaces'
  <2> SUFFICES ASSUME ~raced
               PROVE  /\ \A j \in linked \ edited : content'[j] = "whole"
                      /\ Writing' = {}
                      /\ lib \in Inode /\ content'[lib] = "whole"
    BY <1>1 DEF NobodyRaces
  <2>1. i = lib  BY <1>4, <1>9 DEF NobodyRaces
  <2>2. Writing' = {}
    <3> SUFFICES ASSUME NEW u \in Writing' PROVE FALSE  OBVIOUS
    <3>1. u \in Task /\ u # t /\ u \in Writing  BY <1>3 DEF Writing
    <3> QED BY <1>9, <3>1 DEF NobodyRaces
  <2>3. ASSUME NEW j \in linked \ edited PROVE content'[j] = "whole"
    <3>1. j \in Inode /\ content[j] = "whole"  BY DEF NobodyRaces, Shelf
    <3> QED BY <1>5, <3>1
  <2> QED BY <1>5, <2>1, <2>2, <2>3
<1>11. LookedUnderLock'
  <2> SUFFICES ASSUME ~unlocked, ~copied, edits = 0, NEW u \in Task, task'[u].pc = "request" PROVE FALSE
    BY <1>1 DEF LookedUnderLock
  <2>1. task[u].pc = "request" /\ u # t  BY <1>3
  <2>2. task[t].pc = "stream"  BY <1>2 DEF Shaped
  <2>3. Within(task[t]) /\ Within(task[u])  BY <1>2, <2>1, <2>2 DEF Shaped, InCourse, Within
  <2> QED BY <2>1, <2>3 DEF OneWithin
<1> QED BY <1>6, <1>7, <1>8, <1>10, <1>11

\* An install begins with tasks that were idle.
LEMMA InstallStarts == ASSUME LibraryInv, NEW l \in Launcher, StartInstall(l) PROVE LibraryInv'
<1> USE DEF LibraryInv
<1>1. PICK new \in SUBSET {t \in Task : task[t].pc = "idle"} \ {{}} :
      \E kind \in [new -> {"download", "copy"}] :
        task' = [t \in Task |->
          IF t \in new
          THEN [pc |-> IF kind[t] = "copy" THEN "read" ELSE Course[1],
                kind |-> kind[t], file |-> Nil, locked |-> TRUE, owner |-> l]
          ELSE task[t]]
  BY DEF StartInstall
<1>2. PICK kind \in [new -> {"download", "copy"}] :
        task' = [t \in Task |->
          IF t \in new
          THEN [pc |-> IF kind[t] = "copy" THEN "read" ELSE Course[1],
                kind |-> kind[t], file |-> Nil, locked |-> TRUE, owner |-> l]
          ELSE task[t]]
  BY <1>1
<1>3. UNCHANGED <<lib, content, linked, unlocked, copied, raced, edited, edits>>
  BY DEF StartInstall, library_history
<1>4. task \in [Task -> TaskRecord] /\ \A t \in Task : Shaped(task[t])  BY DEF Tasks
<1>5. ASSUME NEW t \in Task
      PROVE  \/ task'[t] = task[t]
             \/ /\ task'[t] \in TaskRecord /\ task[t].pc = "idle"
                /\ \/ task'[t].pc = "read" /\ task'[t].kind = "copy"
                   \/ task'[t].pc = "permit" /\ task'[t].kind = "download" /\ task'[t].locked
  <2>1. CASE t \in new
    <3>1. task[t].pc = "idle"  BY <1>1, <2>1
    <3>2. kind[t] \in {"download", "copy"}  BY <2>1
    <3>3. task'[t] = [pc |-> IF kind[t] = "copy" THEN "read" ELSE "permit",
                      kind |-> kind[t], file |-> Nil, locked |-> TRUE, owner |-> l]
      BY <1>2, <2>1, PlacesAre
    <3> QED BY <3>1, <3>2, <3>3 DEF TaskRecord
  <2>2. CASE t \notin new  BY <1>2, <2>2
  <2> QED BY <2>1, <2>2
<1>6. task' \in [Task -> TaskRecord]
  <2>1. \A t \in Task : task'[t] \in TaskRecord  BY <1>4, <1>5
  <2>2. task' = [t \in Task |-> task'[t]]  BY <1>2
  <2> QED BY <2>1, <2>2
<1>7. Shelf'  BY <1>3 DEF Shelf
<1>8. Tasks'
  <2>1. ASSUME NEW t \in Task PROVE Shaped(task[t])'
    BY <1>3, <1>4, <1>5 DEF Shaped, InCourse
  <2> QED BY <1>6, <2>1 DEF Tasks
<1>9. OneWithin'
  <2>1. \A t \in Task : Within(task'[t]) => Within(task[t])  BY <1>5 DEF Within
  <2> QED BY <2>1 DEF OneWithin
<1>10. NobodyRaces'
  <2>1. \A t \in Task : t \in Writing' => t \in Writing /\ task'[t] = task[t]  BY <1>5 DEF Writing
  <2>2. \A t \in Task : task'[t].pc = "done" => task[t].pc = "done"  BY <1>5
  <2>3. Writing' \subseteq Writing /\ Writing' \subseteq Task  BY <2>1 DEF Writing
  <2> QED BY <1>3, <2>1, <2>2, <2>3 DEF NobodyRaces
<1>11. LookedUnderLock'
  <2>1. \A t \in Task : task'[t].pc = "request" => task[t].pc = "request"  BY <1>5
  <2> QED BY <1>3, <2>1 DEF LookedUnderLock, valid_hash_on_disk
<1> QED BY <1>7, <1>8, <1>9, <1>10, <1>11

\* What is left of the tasks when one of them fails.
LEMMA FailsLeaves ==
  ASSUME LibraryInv, NEW t \in Task, Fails(t)
  PROVE  /\ task' \in [Task -> TaskRecord] /\ task'[t].pc = "idle" /\ task'[t] = NoTask
         /\ \A u \in Task : task'[u] = task[u] \/ task'[u] = NoTask \/ task'[u] = Dropped(task[u])
<1>1. task \in [Task -> TaskRecord]  BY DEF LibraryInv, Tasks
<1>2. CASE task' = [task EXCEPT ![t] = NoTask]  BY <1>1, <1>2, RecordFacts
<1>3. CASE task' = [u \in Task |-> IF u = t THEN NoTask
                                   ELSE IF u \in Siblings(t) THEN Dropped(task[u]) ELSE task[u]]
  <2>1. \A u \in Task : Dropped(task[u]) \in TaskRecord  BY <1>1, RecordFacts
  <2> QED BY <1>1, <1>3, <2>1, RecordFacts
<1> QED BY <1>2, <1>3 DEF Fails

LEMMA FailKeeps == ASSUME LibraryInv, NEW t \in Task, Fail(t) PROVE LibraryInv'
<1>1. Fails(t) /\ UNCHANGED <<lib, content, linked, library_history>>  BY DEF Fail
<1> QED BY <1>1, FailsLeaves, TasksEnd

LEMMA LauncherEndsKeeps == ASSUME LibraryInv, NEW l \in Launcher, LauncherEnds(l) PROVE LibraryInv'
<1>1. task' = [t \in Task |-> IF t \in Own(l) THEN NoTask ELSE task[t]]
      /\ UNCHANGED <<lib, content, linked, library_history>>
  BY DEF LauncherEnds
<1>2. task \in [Task -> TaskRecord]  BY DEF LibraryInv, Tasks
<1>3. task' \in [Task -> TaskRecord] /\ \A t \in Task : task'[t] = task[t] \/ task'[t] = NoTask
  BY <1>1, <1>2, RecordFacts
<1> QED BY <1>1, <1>3, TasksEnd

\* Wrong data are removed.  Who removes them was the only one to write, and nobody is done.
LEMMA WrongDataKeeps == ASSUME LibraryInv, NEW t \in Task, WrongData(t) PROVE LibraryInv'
<1> USE DEF LibraryInv
<1>1. /\ task[t].pc = "stream" /\ content' = [content EXCEPT ![task[t].file] = "part"]
      /\ lib' = Nil /\ Fails(t)
      /\ UNCHANGED <<linked, unlocked, copied, raced, edited, edits>>
  BY DEF WrongData, library_history
<1>2. task \in [Task -> TaskRecord] /\ \A u \in Task : Shaped(task[u])  BY DEF Tasks
<1>3. PICK i \in Inode : i = task[t].file  BY <1>1, <1>2 DEF Shaped
<1>4. /\ content' \in [Inode -> {"part", "whole", "edited"}] /\ content'[i] = "part"
      /\ \A j \in Inode : j # i => content'[j] = content[j]
  BY <1>1, <1>3 DEF Shelf
<1>5. \A u \in Task :
        \/ task'[u] = task[u]
        \/ task'[u].pc = "idle"
        \/ /\ task[u].pc \in {"write", "dropped"} /\ task'[u].pc = "dropped"
           /\ task'[u].kind = task[u].kind /\ task'[u].file = task[u].file
  <2>1. \A u \in Task : task'[u] = task[u] \/ task'[u] = NoTask \/ task'[u] = Dropped(task[u])
    BY <1>1, FailsLeaves
  <2>2. ASSUME NEW u \in Task, task'[u] = Dropped(task[u])
        PROVE  \/ task'[u].pc = "idle"
               \/ /\ task[u].pc \in {"write", "dropped"} /\ task'[u].pc = "dropped"
                  /\ task'[u].kind = task[u].kind /\ task'[u].file = task[u].file
    <3>1. task[u] \in TaskRecord  BY <1>2
    <3> QED BY <2>2, <3>1, RecordFacts
  <2> QED BY <2>1, <2>2, RecordFacts
<1>6. task' \in [Task -> TaskRecord] /\ task'[t].pc = "idle"  BY <1>1, FailsLeaves
<1>7. Shelf'  BY <1>1, <1>4 DEF Shelf
<1>8. Tasks'
  <2>1. ASSUME NEW u \in Task PROVE Shaped(task[u])'
    BY <1>1, <1>2, <1>5 DEF Shaped, InCourse
  <2> QED BY <1>6, <2>1 DEF Tasks
<1>9. OneWithin'
  <2>1. \A u \in Task : Within(task'[u]) => Within(task[u])  BY <1>5 DEF Within
  <2> QED BY <2>1 DEF OneWithin
<1>10. NobodyRaces'
  <2> SUFFICES ASSUME ~raced
               PROVE  /\ \A j \in linked \ edited : content'[j] = "whole"
                      /\ Writing' = {}
                      /\ \A u \in Task : task'[u].pc # "done"
    BY <1>1 DEF NobodyRaces
  <2>1. t \in Writing /\ i = lib /\ content[i] # "whole"  BY <1>1, <1>3 DEF Writing, NobodyRaces
  <2>2. Writing' = {}
    <3> SUFFICES ASSUME NEW u \in Writing' PROVE FALSE  OBVIOUS
    <3>1. u \in Task /\ u # t /\ u \in Writing  BY <1>5, <1>6 DEF Writing
    <3> QED BY <2>1, <3>1 DEF NobodyRaces
  <2>3. \A u \in Task : task'[u].pc # "done"
    <3>1. \A u \in Task : task'[u].pc = "done" => task[u].pc = "done"  BY <1>5
    <3> QED BY <2>1, <3>1 DEF NobodyRaces
  <2>4. ASSUME NEW j \in linked \ edited PROVE content'[j] = "whole"
    <3>1. j \in Inode /\ content[j] = "whole"  BY DEF NobodyRaces, Shelf
    <3> QED BY <1>4, <2>1, <3>1
  <2> QED BY <2>2, <2>3, <2>4
<1>11. LookedUnderLock'
  <2>1. ~valid_hash_on_disk'  BY <1>1 DEF valid_hash_on_disk
  <2> QED BY <1>1, <2>1 DEF LookedUnderLock
<1> QED BY <1>7, <1>8, <1>9, <1>10, <1>11

LEMMA ReceiveKeeps ==
  ASSUME LibraryInv, NEW t \in Task, ReceiveHead(t) \/ ReceiveAll(t) \/ CopyCreate(t) \/ CopyWritten(t)
  PROVE  LibraryInv'
<1>1. CASE ReceiveHead(t)  BY <1>1, FileIsCreated DEF ReceiveHead
<1>2. CASE CopyCreate(t)  BY <1>2, FileIsCreated DEF CopyCreate
<1>3. task[t].owner \in Launcher \cup {Nil}  BY DEF LibraryInv, Tasks, TaskRecord
<1>4. PICK done \in TaskRecord : done = [NoTask EXCEPT !.pc = "done", !.owner = task[t].owner] /\ done.pc = "done"
  BY <1>3, RecordFacts
<1>5. CASE ReceiveAll(t)
  <2>1. PICK c \in IF raced THEN {"part", "whole"} ELSE {"whole"} :
          content' = [content EXCEPT ![task[t].file] = c]
    BY <1>5 DEF ReceiveAll
  <2>2. /\ task[t].pc = "stream" /\ task' = [task EXCEPT ![t] = done]
        /\ UNCHANGED <<lib, linked, library_history>>
    BY <1>4, <1>5 DEF ReceiveAll, Ready
  <2>3. c \in {"part", "whole"} /\ (~raced => c = "whole")  BY <2>1
  <2> QED BY <1>4, <2>1, <2>2, <2>3, FileIsWritten
<1>6. CASE CopyWritten(t)
  <2>1. PICK c \in IF raced THEN {"part", "whole"} ELSE {"whole"} :
          content' = [content EXCEPT ![task[t].file] = c]
    BY <1>6 DEF CopyWritten
  <2>2. PICK d \in {done, NoTask} : task' = [task EXCEPT ![t] = d]
    BY <1>4, <1>6 DEF CopyWritten, Ready
  <2>3. /\ task[t].pc \in {"write", "dropped"} /\ UNCHANGED <<lib, linked, library_history>>
    BY <1>6 DEF CopyWritten
  <2>4. c \in {"part", "whole"} /\ (~raced => c = "whole")  BY <2>1
  <2>5. d \in TaskRecord /\ d.pc \in {"idle", "done"}  BY <1>4, <2>2, RecordFacts
  <2> QED BY <2>1, <2>2, <2>3, <2>4, <2>5, FileIsWritten
<1> QED BY <1>1, <1>2, <1>5, <1>6

\* What is linked is whole: while some file is done, nobody writes.
LEMMA LinkKeeps == ASSUME LibraryInv, NEW t \in Task, Link(t) PROVE LibraryInv'
<1> USE DEF LibraryInv
<1>1. /\ task[t].pc = "done" /\ task' = [task EXCEPT ![t] = NoTask]
      /\ linked' \in {linked, linked \cup ({lib} \ {Nil})}
      /\ UNCHANGED <<lib, content, unlocked, copied, raced, edited, edits>>
  BY DEF Link, library_history
<1>2. task \in [Task -> TaskRecord] /\ \A u \in Task : Shaped(task[u])  BY DEF Tasks
<1>3. /\ task' \in [Task -> TaskRecord] /\ task'[t].pc = "idle"
      /\ \A u \in Task : u # t => task'[u] = task[u]
  BY <1>1, <1>2, RecordFacts
<1>4. Shelf'  BY <1>1 DEF Shelf
<1>5. Tasks'
  <2>1. ASSUME NEW u \in Task PROVE Shaped(task[u])'
    <3>1. CASE u = t  BY <1>3, <3>1 DEF Shaped, InCourse
    <3>2. CASE u # t  BY <1>1, <1>2, <1>3, <3>2 DEF Shaped
    <3> QED BY <3>1, <3>2
  <2> QED BY <1>3, <2>1 DEF Tasks
<1>6. OneWithin'
  <2>1. \A u \in Task : Within(task'[u]) => Within(task[u])  BY <1>3 DEF Within
  <2> QED BY <2>1 DEF OneWithin
<1>7. NobodyRaces'
  <2> SUFFICES ASSUME ~raced
               PROVE  /\ \A j \in linked' \ edited : content[j] = "whole"
                      /\ Writing' = {}
                      /\ lib \in Inode /\ (content[lib] = "whole" \/ lib \in edited)
    BY <1>1 DEF NobodyRaces
  <2>1. Writing = {} /\ lib \in Inode /\ (content[lib] = "whole" \/ lib \in edited)
    BY <1>1 DEF NobodyRaces
  <2>2. \A j \in linked \ edited : content[j] = "whole"  BY DEF NobodyRaces
  <2>3. Writing' = {}
    <3>1. \A u \in Task : u \in Writing' => u \in Writing  BY <1>3 DEF Writing
    <3>2. Writing' \subseteq Task  BY DEF Writing
    <3> QED BY <2>1, <3>1, <3>2
  <2> QED BY <1>1, <2>1, <2>2, <2>3
<1>8. LookedUnderLock'
  <2>1. \A u \in Task : task'[u].pc = "request" => task[u].pc = "request"  BY <1>3
  <2> QED BY <1>1, <2>1 DEF LookedUnderLock, valid_hash_on_disk
<1> QED BY <1>4, <1>5, <1>6, <1>7, <1>8

\* Who changes or removes a file in place makes no file whole.
LEMMA EditKeeps == ASSUME LibraryInv, NEW i \in Inode, Edit(i) PROVE LibraryInv'
<1> USE DEF LibraryInv
<1>1. /\ content' = [content EXCEPT ![i] = "edited"] /\ edited' = edited \cup {i} /\ edits' = edits + 1
      /\ UNCHANGED <<lib, linked, task, unlocked, copied, raced>>
  BY DEF Edit
<1>2. edits \in Nat /\ edits' \in Nat /\ edits' # 0  BY <1>1 DEF Shelf
<1>3. /\ content' \in [Inode -> {"part", "whole", "edited"}] /\ content'[i] = "edited"
      /\ \A j \in Inode : j # i => content'[j] = content[j]
  BY <1>1 DEF Shelf
<1>4. Shelf'  BY <1>1, <1>2, <1>3 DEF Shelf
<1>5. Tasks'  BY <1>1 DEF Tasks, Shaped
<1>6. OneWithin'  BY <1>1 DEF OneWithin
<1>7. NobodyRaces'
  <2>1. Writing' = Writing  BY <1>1 DEF Writing
  <2>2. ASSUME NEW j \in Inode PROVE content'[j] = "whole" => content[j] = "whole"
    BY <1>3
  <2>3. \A j \in Inode \ edited' : content'[j] = content[j]  BY <1>1, <1>3
  <2>4. ASSUME ~raced, NEW j \in linked' \ edited' PROVE content'[j] = "whole"
    <3>1. j \in Inode /\ j \in linked \ edited  BY <1>1, <2>4 DEF Shelf
    <3> QED BY <2>3, <2>4, <3>1 DEF NobodyRaces
  <2>5. ASSUME ~raced, NEW u \in Writing PROVE task[u].file = lib /\ content'[lib] # "whole"
    <3>1. task[u].file = lib /\ content[lib] # "whole"  BY <2>5 DEF NobodyRaces
    <3>2. lib \in Inode  BY <3>1 DEF Tasks, Shaped, Writing
    <3> QED BY <2>2, <3>1, <3>2
  <2>6. ASSUME ~raced, lib \in Inode, content[lib] = "whole" \/ lib \in edited
        PROVE  content'[lib] = "whole" \/ lib \in edited'
    BY <1>1, <1>3, <2>6
  <2> QED BY <1>1, <2>1, <2>4, <2>5, <2>6 DEF NobodyRaces
<1>8. LookedUnderLock'  BY <1>2 DEF LookedUnderLock
<1> QED BY <1>4, <1>5, <1>6, <1>7, <1>8

LEMMA RemoveFileKeeps == ASSUME LibraryInv, NEW i \in Inode, RemoveFile(i) PROVE LibraryInv'
<1> USE DEF LibraryInv
<1>1. linked' \subseteq linked /\ UNCHANGED <<lib, content, task, unlocked, copied, raced, edited, edits>>
  BY DEF RemoveFile, library_history
<1>2. Shelf'  BY <1>1 DEF Shelf
<1>3. Tasks'  BY <1>1 DEF Tasks, Shaped
<1>4. OneWithin'  BY <1>1 DEF OneWithin
<1>5. NobodyRaces'  BY <1>1 DEF NobodyRaces, Writing
<1>6. LookedUnderLock'  BY <1>1 DEF LookedUnderLock, valid_hash_on_disk
<1> QED BY <1>2, <1>3, <1>4, <1>5, <1>6

LEMMA LibraryInvStep == LibraryInv /\ [LibraryNext]_library_vars => LibraryInv'
<1> SUFFICES ASSUME LibraryInv, [LibraryNext]_library_vars PROVE LibraryInv'  OBVIOUS
<1>1. ASSUME NEW t \in Task, TaskStep(t) PROVE LibraryInv'
  BY <1>1, AcquireKeeps, LockFailsKeeps, CheckKeeps, ReceiveKeeps, FailKeeps, WrongDataKeeps, LinkKeeps
     DEF TaskStep
<1>2. ASSUME NEW l \in Launcher, StartInstall(l) \/ LauncherEnds(l) PROVE LibraryInv'
  BY <1>2, InstallStarts, LauncherEndsKeeps
<1>3. ASSUME NEW i \in Inode, Edit(i) \/ RemoveFile(i) PROVE LibraryInv'
  BY <1>3, EditKeeps, RemoveFileKeeps
<1>4. CASE UNCHANGED library_vars
  <2>1. UNCHANGED <<lib, content, linked, task, unlocked, copied, raced, edited, edits>>
    BY <1>4 DEF library_vars, library_history
  <2> QED BY <2>1 DEF LibraryInv, Shelf, Tasks, Shaped, OneWithin, NobodyRaces, Writing,
                      LookedUnderLock, valid_hash_on_disk
<1> QED BY <1>1, <1>2, <1>3, <1>4 DEF LibraryNext

\* Two that write without being copies have both the lock.
LEMMA InvariantIsEnough == LibraryInv => LibraryIsWhole
<1> SUFFICES ASSUME LibraryInv PROVE LibraryIsWhole  OBVIOUS
<1> USE DEF LibraryInv
<1>1. LinkedIsWhole  BY DEF NobodyRaces, LinkedIsWhole
<1>2. LockKeepsApart
  <2> SUFFICES ASSUME ~unlocked, NEW t \in Writing, NEW u \in Writing, t # u,
                      task[t].kind # "copy", task[u].kind # "copy"
               PROVE  FALSE
    BY DEF LockKeepsApart
  <2>1. t \in Task /\ u \in Task /\ Shaped(task[t]) /\ Shaped(task[u])  BY DEF Writing, Tasks
  <2>2. task[t].pc = "stream" /\ task[u].pc = "stream"  BY <2>1 DEF Writing, Shaped
  <2>3. Within(task[t]) /\ Within(task[u])  BY <2>1, <2>2 DEF Shaped, InCourse, Within
  <2> QED BY <2>1, <2>3 DEF OneWithin
<1>3. DownloadsDoNotRace  BY DEF LookedUnderLock, DownloadsDoNotRace
<1> QED BY <1>1, <1>2, <1>3 DEF LibraryIsWhole

\* However many installs of however many launchers put a file into the library at
\* the same time, fail, are dropped or end with their launcher: what instances have
\* of it is whole (LinkedIsWhole), only copies write beside others (LockKeepsApart),
\* and downloads with the lock never empty what another one needs (DownloadsDoNotRace).
THEOREM LibraryStaysWhole == LibrarySpec => []LibraryIsWhole
<1>1. LibraryInit => LibraryInv  BY LibraryInvInitially
<1>2. LibraryInv /\ [LibraryNext]_library_vars => LibraryInv'  BY LibraryInvStep
<1>3. LibraryInv => LibraryIsWhole  BY InvariantIsEnough
<1> QED BY <1>1, <1>2, <1>3, PTL DEF LibrarySpec
=============================================================================
