---------------------------- MODULE FilesProofs ----------------------------
(***************************************************************************)
(* Proofs of what the launcher promises about files: that the maps of      *)
(* FileWatching agree with each other, and with what the system watches;   *)
(* that a setting in memory and its file stay together (PersistentFile);   *)
(* that an update leaves a launcher (SelfUpdate); that syncing shares      *)
(* what is newest and takes nothing away (Syncing); and that what is done  *)
(* to content is what the user meant (ContentList).  They are for any      *)
(* directories, targets, settings, versions, instances and files.          *)
(***************************************************************************)
EXTENDS FileWatching, PersistentFile, SelfUpdate, Syncing, ContentList, FiniteSetTheorems, TLAPS

\* What the maps say of paths and targets that a removal does not concern.
LEMMA WithoutGone ==
  ASSUME TypeOK, TargetsAgree, LinksAgree, NEW gone \in SUBSET Path
  PROVE  /\ watching_without(gone) \in [Path -> Target \cup {None}]
         /\ targets_without(gone) \in [Target -> Path \cup {None}]
         /\ sources_without(gone) \in [Path -> Path \cup {None}]
         /\ links_without(gone) \in [Path -> SUBSET Path]
         /\ \A p \in Path : watching_without(gone)[p] = IF p \in gone THEN None ELSE watching[p]
         /\ \A p \in Path \ gone : watching[p] # None =>
               targets_without(gone)[watching[p]] = p
         /\ \A p \in Path :
               sources_without(gone)[p] = IF p \in gone THEN None ELSE symlink_link_to_src[p]
         /\ \A p \in Path \ gone : symlink_link_to_src[p] # None =>
               p \in links_without(gone)[symlink_link_to_src[p]]
PROOF
  <1>1. /\ watching_without(gone) \in [Path -> Target \cup {None}]
        /\ \A p \in Path : watching_without(gone)[p] = IF p \in gone THEN None ELSE watching[p]
    BY DEF watching_without, TypeOK
  <1>2. /\ sources_without(gone) \in [Path -> Path \cup {None}]
        /\ \A p \in Path :
             sources_without(gone)[p] = IF p \in gone THEN None ELSE symlink_link_to_src[p]
    BY DEF sources_without, TypeOK
  <1>3. targets_without(gone) \in [Target -> Path \cup {None}]
    BY DEF targets_without, TypeOK
  <1>4. links_without(gone) \in [Path -> SUBSET Path]
    BY DEF links_without, TypeOK
  <1>5. ASSUME NEW p \in Path \ gone, watching[p] # None
        PROVE  targets_without(gone)[watching[p]] = p
    <2>1. watching[p] \in Target /\ watch_target_to_path[watching[p]] = p
      BY <1>5 DEF TypeOK, TargetsAgree
    <2>2. ~ \E q \in gone : watching[q] = watching[p]
      BY <1>5, <2>1 DEF TargetsAgree
    <2>3. QED  BY <2>1, <2>2 DEF targets_without
  <1>6. ASSUME NEW p \in Path \ gone, symlink_link_to_src[p] # None
        PROVE  p \in links_without(gone)[symlink_link_to_src[p]]
    <2>1. symlink_link_to_src[p] \in Path /\ p \in symlink_src_to_links[symlink_link_to_src[p]]
      BY <1>6 DEF TypeOK, LinksAgree
    <2>2. QED  BY <1>6, <2>1 DEF links_without
  <1>7. QED  BY <1>1, <1>2, <1>3, <1>4, <1>5, <1>6

\* The invariant of the maps.
Maps ==
  /\ watching \in [Path -> Target \cup {None}]
  /\ watch_target_to_path \in [Target -> Path \cup {None}]
  /\ symlink_link_to_src \in [Path -> Path \cup {None}]
  /\ symlink_src_to_links \in [Path -> SUBSET Path]
  /\ TargetsAgree
  /\ LinksAgree

\* A removal, with the links below it, leaves maps that agree.
LEMMA Removed ==
  ASSUME TypeOK, TargetsAgree, LinksAgree, NEW gone \in SUBSET Path, remove(gone)
  PROVE  Maps'
PROOF
  <1>1. TargetsAgree'
    BY WithoutGone DEF remove, TargetsAgree
  <1>2. LinksAgree'
    BY WithoutGone DEF remove, LinksAgree
  <1>3. QED  BY <1>1, <1>2, WithoutGone DEF remove, Maps

\* A watch that is added leaves maps that agree.
LEMMA Watched ==
  ASSUME TypeOK, TargetsAgree, LinksAgree,
         NEW p \in Path, NEW t \in Target, watch_filesystem(p, t)
  PROVE  /\ Maps'
         /\ os' \in [Path -> Path \cup {None}]
         /\ \A q \in Path : watching'[q] # None =>
               (watching[q] # None /\ os'[q] = os[q]) \/ os'[q] # None
PROOF
  <1> DEFINE gone == {watch_target_to_path[t]} \ {None}
             c == canonical[p]
  <1>1. gone \in SUBSET Path /\ c \in Path \cup {None}
    BY DEF TypeOK
  <1>2. CASE UNCHANGED <<maps, os>>
    BY <1>2, NoneAssumption DEF maps, TypeOK, TargetsAgree, LinksAgree, Maps
  <1>3. CASE /\ c # None
             /\ os' = [os EXCEPT ![p] = c]
             /\ watching' = [watching_without(gone) EXCEPT ![p] = t]
             /\ watch_target_to_path' = [targets_without(gone) EXCEPT ![t] = p]
             /\ symlink_link_to_src' =
                  [sources_without(gone) EXCEPT ![p] = IF c = p THEN @ ELSE c]
             /\ symlink_src_to_links' =
                  [links_without(gone) EXCEPT ![c] = IF c = p THEN @ ELSE @ \cup {p}]
    <2>1. /\ watching' \in [Path -> Target \cup {None}]
          /\ watch_target_to_path' \in [Target -> Path \cup {None}]
      BY <1>1, <1>3, WithoutGone
    <2>2. symlink_link_to_src' \in [Path -> Path \cup {None}]
      BY <1>1, <1>3, WithoutGone
    <2>3. symlink_src_to_links' \in [Path -> SUBSET Path]
      BY <1>1, <1>3, WithoutGone
    <2>4. \A q \in Path \ {p} : watching[q] # None /\ q \notin gone => watching[q] # t
      BY NoneAssumption DEF TargetsAgree
    <2>5. TargetsAgree'
      <3> SUFFICES ASSUME NEW q \in Path, watching'[q] # None
                   PROVE  watch_target_to_path'[watching'[q]] = q
        BY DEF TargetsAgree
      <3>1. CASE q = p
        BY <1>1, <1>3, <3>1, WithoutGone
      <3>2. CASE q # p
        <4>1. q \notin gone /\ watching'[q] = watching[q] /\ watching[q] # None
          BY <1>1, <1>3, <3>2, WithoutGone
        <4>2. watching[q] \in Target /\ watching[q] # t
          BY <2>4, <3>2, <4>1 DEF TypeOK
        <4>3. targets_without(gone)[watching[q]] = q
          BY <1>1, <4>1, WithoutGone
        <4>4. QED  BY <1>1, <1>3, <4>1, <4>2, <4>3, WithoutGone
      <3>3. QED  BY <3>1, <3>2
    <2>6. LinksAgree'
      <3> SUFFICES ASSUME NEW q \in Path, symlink_link_to_src'[q] # None
                   PROVE  /\ q \in symlink_src_to_links'[symlink_link_to_src'[q]]
                          /\ symlink_link_to_src'[q] # q
                          /\ watching'[q] # None
        BY DEF LinksAgree
      <3>1. \A s \in Path : links_without(gone)[s] \subseteq symlink_src_to_links'[s]
        BY <1>1, <1>3, WithoutGone
      <3>2. CASE q = p /\ c # p
        <4>1. symlink_link_to_src'[q] = c /\ p \in symlink_src_to_links'[c]
          BY <1>1, <1>3, <3>2, WithoutGone
        <4>2. watching'[q] = t
          BY <1>1, <1>3, <3>2, WithoutGone
        <4>3. QED  BY <3>2, <4>1, <4>2, NoneAssumption
      <3>3. CASE ~(q = p /\ c # p)
        <4>1. symlink_link_to_src'[q] = sources_without(gone)[q]
          BY <1>1, <1>3, <3>3, WithoutGone
        <4>2. q \notin gone /\ symlink_link_to_src'[q] = symlink_link_to_src[q]
              /\ symlink_link_to_src[q] # None
          BY <1>1, <4>1, WithoutGone
        <4>3. /\ symlink_link_to_src[q] \in Path /\ symlink_link_to_src[q] # q
              /\ watching[q] # None
              /\ q \in links_without(gone)[symlink_link_to_src[q]]
          BY <1>1, <4>2, WithoutGone DEF LinksAgree, TypeOK
        <4>4. watching'[q] # None
          BY <1>1, <1>3, <4>2, <4>3, WithoutGone, NoneAssumption
        <4>5. QED  BY <3>1, <4>2, <4>3, <4>4
      <3>4. QED  BY <3>2, <3>3
    <2>7. os' \in [Path -> Path \cup {None}]
      BY <1>1, <1>3 DEF TypeOK
    <2>8. \A q \in Path : watching'[q] # None =>
               (watching[q] # None /\ os'[q] = os[q]) \/ os'[q] # None
      BY <1>1, <1>3, WithoutGone DEF TypeOK
    <2>9. QED  BY <2>1, <2>2, <2>3, <2>5, <2>6, <2>7, <2>8 DEF Maps
  <1>4. QED  BY <1>2, <1>3 DEF watch_filesystem

\* The inductive invariant.
IInv == TypeOK /\ TargetsAgree /\ LinksAgree /\ WatchedBySystem

\* Nothing is watched at the start.
LEMMA InitInv == Init => IInv
  BY NoneAssumption DEF Init, IInv, TypeOK, TargetsAgree, LinksAgree, WatchedBySystem

\* A step that leaves the maps alone keeps what is said of them alone.
LEMMA MapsKept ==
  ASSUME IInv, UNCHANGED maps
  PROVE  Maps'
  BY DEF IInv, TypeOK, maps, TargetsAgree, LinksAgree, Maps

\* Every handler keeps it.
LEMMA InvStep == IInv /\ [Next]_vars => IInv'
PROOF
  <1> SUFFICES ASSUME IInv, [Next]_vars  PROVE IInv'
    OBVIOUS
  <1> USE DEF IInv
  <1>1. ASSUME NEW p \in Path, NEW t \in Target, Watch(p, t)  PROVE IInv'
    <2>1. watch_filesystem(p, t) /\ UNCHANGED <<publishing, published, dirty, changed, canonical, removed, coalesced>>
      BY <1>1 DEF Watch, worlds
    <2>2. TypeOK'
      BY <2>1, Watched DEF Maps, TypeOK
    <2>3. WatchedBySystem => WatchedBySystem'
      BY <2>1, Watched DEF WatchedBySystem
    <2>4. QED  BY <2>1, <2>2, <2>3, Watched DEF Maps
  <1>2. CASE UnwatchSubdirectories
    <2> DEFINE gone == {watch_target_to_path[t] : t \in Subdirs} \ {None}
    <2>1. gone \in SUBSET Path
      BY SubdirsAssumption DEF TypeOK
    <2>2. /\ watching' = watching_without(gone)
          /\ watch_target_to_path' =
               [t \in Target |-> IF t \in Subdirs THEN None ELSE targets_without(gone)[t]]
          /\ symlink_link_to_src' = sources_without(gone)
          /\ symlink_src_to_links' = links_without(gone)
          /\ os' = [p \in Path |-> IF p \in gone THEN None ELSE os[p]]
          /\ UNCHANGED <<publishing, published, dirty, changed, canonical, removed, coalesced>>
      BY <1>2 DEF UnwatchSubdirectories, worlds
    <2> HIDE DEF gone
    <2>3. TypeOK'
      BY <2>1, <2>2, WithoutGone DEF TypeOK
    <2>4. TargetsAgree'
      <3> SUFFICES ASSUME NEW p \in Path, watching'[p] # None
                   PROVE  watch_target_to_path'[watching'[p]] = p
        BY DEF TargetsAgree
      <3>1. p \notin gone /\ watching'[p] = watching[p] /\ watching[p] # None
        BY <2>1, <2>2, WithoutGone
      <3>2. watching[p] \in Target /\ watch_target_to_path[watching[p]] = p
        BY <3>1 DEF TypeOK, TargetsAgree
      <3>3. watching[p] \notin Subdirs
        BY <3>1, <3>2, NoneAssumption DEF gone
      <3>4. QED  BY <2>1, <2>2, <3>1, <3>2, <3>3, WithoutGone
    <2>5. LinksAgree'
      BY <2>1, <2>2, WithoutGone DEF LinksAgree
    <2>6. WatchedBySystem => WatchedBySystem'
      BY <2>1, <2>2, WithoutGone DEF WatchedBySystem
    <2>7. QED  BY <2>3, <2>4, <2>5, <2>6
  <1>3. ASSUME NEW p \in Path, HandleRemove(p)  PROVE IInv'
    <2> DEFINE gone == all_paths(p)
    <2>1. gone \in SUBSET Path /\ (watching[p] # None => p \in gone)
      BY DEF all_paths, TypeOK
    <2>2. /\ remove(gone) /\ removed' = removed \ {p}
          /\ UNCHANGED <<publishing, published, dirty, changed, os, canonical, coalesced>>
      BY <1>3 DEF HandleRemove, worlds
    <2> HIDE DEF gone
    <2>3. Maps'
      BY <2>1, <2>2, Removed
    <2>4. TypeOK'
      BY <2>2, <2>3 DEF TypeOK, Maps
    <2>5. WatchedBySystem => WatchedBySystem'
      BY <2>1, <2>2, WithoutGone DEF WatchedBySystem, remove
    <2>6. QED  BY <2>3, <2>4, <2>5 DEF Maps
  <1>4. CASE TakeDirtyWorlds \/ LoadWorlds
    <2>1. TypeOK' /\ UNCHANGED <<maps, os, removed, coalesced>>
      BY <1>4 DEF TakeDirtyWorlds, LoadWorlds, external, maps, TypeOK
    <2>2. QED  BY <2>1, MapsKept DEF Maps, WatchedBySystem, maps
  <1>5. ASSUME NEW w \in Worlds, PublishWorld(w)  PROVE IInv'
    <2>1. w \in Path /\ WorldDir \in Target
      BY WorldAssumption
    <2>2. /\ publishing' \in SUBSET Worlds /\ published' \in SUBSET Worlds
          /\ UNCHANGED <<dirty, changed, canonical, removed, coalesced>>
      BY <1>5 DEF PublishWorld, TypeOK
    <2>3. CASE watch_filesystem(w, WorldDir)
      <3>1. TypeOK'
        BY <2>1, <2>2, <2>3, Watched DEF Maps, TypeOK
      <3>2. WatchedBySystem => WatchedBySystem'
        BY <2>1, <2>2, <2>3, Watched DEF WatchedBySystem
      <3>3. QED  BY <2>1, <2>3, <3>1, <3>2, Watched DEF Maps
    <2>4. CASE UNCHANGED <<maps, os>>
      <3>1. TypeOK'
        BY <2>2, <2>4 DEF maps, TypeOK
      <3>2. QED  BY <2>2, <2>4, <3>1, MapsKept DEF Maps, WatchedBySystem, maps
    <2>5. QED  BY <1>5, <2>3, <2>4 DEF PublishWorld
  <1>6. ASSUME NEW w \in Worlds, HandleWorldChange(w) \/ ChangeWorldFile(w)  PROVE IInv'
    <2>1. UNCHANGED <<maps, os, removed, coalesced>>
      BY <1>6 DEF HandleWorldChange, ChangeWorldFile
    <2>2. all_paths(w) \in SUBSET Path
      BY WorldAssumption DEF all_paths, TypeOK
    <2>3. TypeOK'
      BY <1>6, <2>2 DEF HandleWorldChange, ChangeWorldFile, maps, worlds, TypeOK
    <2>4. QED  BY <2>1, <2>3, MapsKept DEF Maps, WatchedBySystem, maps
  <1>7. ASSUME NEW p \in Path, DeleteDirectory(p)  PROVE IInv'
    <2>1. UNCHANGED maps
      BY <1>7 DEF DeleteDirectory
    <2>2. TypeOK'
      BY <1>7 DEF DeleteDirectory, maps, TypeOK
    <2>3. WatchedBySystem => WatchedBySystem'
      BY <1>7 DEF DeleteDirectory, maps, WatchedBySystem, TypeOK
    <2>4. QED  BY <2>1, <2>2, <2>3, MapsKept DEF Maps
  <1>8. ASSUME NEW p \in Path, DeleteLink(p) \/ Create(p)  PROVE IInv'
    <2>1. UNCHANGED <<maps, os>>
      BY <1>8 DEF DeleteLink, Create
    <2>2. TypeOK'
      <3>1. removed' \in SUBSET Path
        BY <1>8 DEF DeleteLink, Create, TypeOK
      <3>2. coalesced' \in BOOLEAN
        BY <1>8 DEF DeleteLink, Create, TypeOK
      <3>3. canonical' \in [Path -> Path \cup {None}]
        BY <1>8 DEF DeleteLink, Create, TypeOK
      <3>4. published' \in SUBSET Worlds
        BY <1>8 DEF DeleteLink, Create, worlds, TypeOK
      <3>5. QED  BY <1>8, <3>1, <3>2, <3>3, <3>4 DEF DeleteLink, Create, maps, worlds, TypeOK
    <2>3. (coalesced => coalesced') /\ (~coalesced' => removed \subseteq removed')
      BY <1>8 DEF DeleteLink, Create
    <2>4. QED  BY <2>1, <2>2, <2>3, MapsKept DEF Maps, WatchedBySystem, maps
  <1>9. CASE UNCHANGED vars
    BY <1>9, MapsKept DEF vars, maps, worlds, external, Maps, TypeOK, WatchedBySystem
  <1>10. QED
    BY <1>1, <1>2, <1>3, <1>4, <1>5, <1>6, <1>7, <1>8, <1>9 DEF Next

THEOREM Invariance == Spec => []IInv
  BY InitInv, InvStep, PTL DEF Spec

\* No target is ever watched through two paths, and a watched link is always
\* found from its source.
THEOREM MapsAlwaysAgree == Spec => []MapsAgree
  <1>1. IInv => MapsAgree
    BY DEF IInv, MapsAgree
  <1>2. QED  BY Invariance, <1>1, PTL

\* As long as no directory is removed and created again within one batch of
\* events, what the launcher takes to be watched is.
THEOREM NothingSilentlyUnwatched == Spec => []WatchedBySystem
  BY Invariance, PTL DEF IInv

-----------------------------------------------------------------------------
Writing == pc \in {"create", "write", "rename"}

\* While a modification is being written, memory is ahead of the file.
Ahead == Writing => unwritten

\* The temporary file is complete when it is renamed.
TempIsWhole == pc = "rename" => temp # Torn

SettingsInv == PersistentType /\ MemoryIsFile /\ Ahead /\ TempIsWhole

\* Settings are settings again when one is changed, and never a torn file.
LEMMA SettingsFact ==
  /\ Default \in Settings
  /\ \A d \in Settings, s \in Setting : [d EXCEPT ![s] = ~@] \in Settings
  /\ Torn \notin Settings
BY TornAssumption DEF Settings, Default

\* What load_from_disk leaves in memory is of the right kind.
LEMMA LoadFact ==
  ASSUME PersistentType
  PROVE  load_from_disk \in Settings
BY TornAssumption DEF PersistentType, load_from_disk

\* The invariant holds at the start.
LEMMA SettingsInvInitially ==
  ASSUME PersistentInit
  PROVE  SettingsInv
<1>1. 0 \in 0 .. MaxWrites
  BY TornAssumption
<1>2. PersistentType
  BY <1>1, SettingsFact DEF PersistentInit, PersistentType
<1>3. MemoryIsFile /\ Ahead /\ TempIsWhole
  BY DEF PersistentInit, MemoryIsFile, Ahead, TempIsWhole, Writing
<1> QED
  BY <1>2, <1>3 DEF SettingsInv

\* Every step of the launcher, of others and a crash keep it.
LEMMA SettingsInvStays ==
  ASSUME SettingsInv, [PersistentNext]_settings
  PROVE  SettingsInv'
<1> USE DEF SettingsInv, PersistentType, MemoryIsFile, Ahead, TempIsWhole, Writing, memory
<1>1. CASE Load
  BY <1>1, SettingsFact DEF Load
<1>2. CASE get
  BY <1>2, SettingsFact, LoadFact DEF get, load_from_disk
<1>3. CASE mark_changed
  BY <1>3 DEF mark_changed
<1>4. CASE \E s \in Setting : modify(s)
  <2>1. PICK s \in Setting : modify(s)
    BY <1>4
  <2>2. data' \in Settings
    BY <2>1, SettingsFact, LoadFact DEF modify
  <2> QED
    BY <2>1, <2>2 DEF modify
<1>5. CASE create
  BY <1>5 DEF create
<1>6. CASE write
  BY <1>6, SettingsFact DEF write
<1>7. CASE rename
  BY <1>7, SettingsFact DEF rename
<1>8. CASE fail
  BY <1>8, TornAssumption DEF fail
<1>9. CASE Crash
  BY <1>9 DEF Crash
<1>10. CASE ForeignStart
  BY <1>10, TornAssumption DEF ForeignStart
<1>11. CASE ForeignEnd
  BY <1>11 DEF ForeignEnd
<1>12. CASE UNCHANGED settings
  BY <1>12 DEF settings
<1> QED
  BY <1>1, <1>2, <1>3, <1>4, <1>5, <1>6, <1>7, <1>8, <1>9, <1>10, <1>11, <1>12
  DEF PersistentNext, Launcher

\* No step of the launcher, and no crash, tears the file.
LEMMA StepFileStaysWhole ==
  SettingsInv /\ [PersistentNext]_settings =>
    [file # Torn /\ file' = Torn => foreign \/ foreign']_settings
<1> SUFFICES ASSUME SettingsInv, PersistentNext, file # Torn, file' = Torn PROVE foreign \/ foreign'
  OBVIOUS
<1> QED
  BY DEF SettingsInv, TempIsWhole, PersistentNext, Launcher, Load, get, mark_changed, modify, create,
     write, rename, fail, Crash, ForeignStart, ForeignEnd

\* All of it holds in every state that is reached.
LEMMA SettingsInvHolds == PersistentSpec => []SettingsInv
<1>1. PersistentInit => SettingsInv
  BY SettingsInvInitially
<1>2. SettingsInv /\ [PersistentNext]_settings => SettingsInv'
  BY SettingsInvStays
<1> QED
  BY <1>1, <1>2, PTL DEF PersistentSpec

\* What is in memory is what is in the file, when nothing is on its way.
THEOREM MemoryIsFileHolds == PersistentSpec => []MemoryIsFile
<1>1. SettingsInv => MemoryIsFile
  BY DEF SettingsInv
<1> QED
  BY <1>1, SettingsInvHolds, PTL

\* A file that could be read can be read after any step that is not the user's.
THEOREM FileStaysWholeHolds == PersistentSpec => FileStaysWhole
<1>1. SettingsInv /\ [PersistentNext]_settings => [file # Torn /\ file' = Torn => foreign \/ foreign']_settings
  BY StepFileStaysWhole
<1> QED
  BY <1>1, SettingsInvHolds, PTL DEF PersistentSpec, FileStaysWhole

\* Memory and the file stay together, whoever writes, fails or stops.
THEOREM SettingsStayTogether == PersistentSpec => SettingsAreKept
<1>1. SettingsInv => PersistentType  BY DEF SettingsInv
<1> QED
  BY <1>1, SettingsInvHolds, MemoryIsFileHolds, FileStaysWholeHolds, PTL DEF SettingsAreKept

-----------------------------------------------------------------------------
\* SelfUpdate: where install_update may be, and what the commands that are still to
\* come may be: the executable is moved, permitted to run and the old one removed; an
\* app is moved to a backup first.
Stage == {"idle", "download", "write", "move", "remove", "permit", "elevated", "undo"}
Moving == {<<"mv", "chmod">>, <<"mv", "chmod", "rm">>, <<"backup", "mv">>, <<"mv">>}
Finishing == {<<"chmod">>, <<"chmod", "rm">>, <<"rm">>}
ExeShell == {<<"mv", "chmod">>, <<"mv", "chmod", "rm">>, <<"failed">>, <<>>} \cup Finishing
AppShell == {<<"backup", "mv">>, <<"mv">>, <<"restore">>, <<"failed">>, <<>>}

\* What goes together: the kind, the stage and the commands.
UpdateShape ==
  /\ UpdateType /\ stage \in Stage /\ to \in 1 .. MaxVersion \cup {Nil} /\ cut \in BOOLEAN
  /\ shell \in ExeShell \cup AppShell
  /\ kind # "app" => shell \in ExeShell /\ stage # "undo"
  /\ kind = "app" => /\ shell \in AppShell /\ stage \notin {"remove", "permit"}
                     /\ ~renames /\ installed["old"] = Nil
  /\ shell # <<>> => stage \in {"elevated", "undo"} \/ (stage = "idle" /\ cut)
  /\ shell = <<"failed">> => stage # "idle"
  /\ outcome # Nil => stage = "idle" /\ shell = <<>>
  /\ stage = "undo" => shell \in {<<"restore">>, <<>>, <<"failed">>}
  /\ stage = "elevated" => shell # <<"restore">>
  /\ stage # "idle" => to \in 1 .. MaxVersion

\* What is to be moved into place is the version that was fetched ...
FetchedIsRight ==
  stage = "move" \/ shell \in Moving => fetched \in Copy /\ fetched.version = to

\* ... and so is what has been moved, before the old one may be removed.
NewIsRight ==
  \/ stage \in {"remove", "permit"} \/ shell \in Finishing
  \/ (stage = "elevated" /\ shell = <<>>) \/ outcome = "success"
  => installed["new"] \in Copy /\ installed["new"].version = to

\* Nothing has been moved yet, or the first command failed.
Untouched ==
  \/ stage \in {"download", "write", "move"}
  \/ stage = "elevated" /\ shell \in Moving \cup {<<"failed">>}

\* An executable: a copy is left whatever happens; while the update goes on, one that
\* may be run; and before anything is moved, and if it fails, all of it is as before.
ExeIsSafe ==
  kind # "app" =>
    /\ \E p \in Place : installed[p] \in Copy
    /\ ~cut /\ (Untouched \/ outcome = "error") => installed = before
    /\ ~cut /\ (Untouched \/ stage = "idle") => \E p \in Place : installed[p] \in Copy /\ installed[p].runs
    /\ ~cut /\ stage = "elevated" /\ shell \in {<<"rm">>, <<>>} => installed["new"].runs

\* An app: it is in its place, or in the backup for as long as it is being exchanged.
AppIsSafe ==
  kind = "app" /\ ~cut =>
    /\ stage \in {"download", "write", "move"} \/ (stage = "idle" /\ running # Nil /\ outcome = Nil)
         => installed["new"] \in Copy
    /\ stage \in {"elevated", "undo"} =>
         /\ shell \in {<<"backup", "mv">>, <<>>} => installed["new"] \in Copy
         /\ shell \in {<<"mv">>, <<"restore">>} => backup \in Copy
         /\ installed["new"] \in Copy \/ backup \in Copy

\* The inductive invariant of an update.
UpdateInv == UpdateShape /\ FetchedIsRight /\ NewIsRight /\ ExeIsSafe /\ AppIsSafe

\* Nothing is no copy, and a version is one, whether it may be run or not.
LEMMA CopyFacts ==
  /\ Nil \notin Copy /\ Nil # "success" /\ Nil # "error"
  /\ \A c \in Copy : c.version \in 1 .. MaxVersion /\ c.runs \in BOOLEAN
  /\ \A v \in 1 .. MaxVersion : [version |-> v, runs |-> TRUE] \in Copy /\ [version |-> v, runs |-> FALSE] \in Copy
  /\ "old" \in Place /\ "new" \in Place /\ "old" # "new" /\ \A p \in Place : p = "old" \/ p = "new"
BY NilAssumption DEF Copy, Place

\* The first command and the ones that follow.
LEMMA CommandFacts ==
  /\ Head(<<"mv", "chmod">>) = "mv" /\ Tail(<<"mv", "chmod">>) = <<"chmod">>
  /\ Head(<<"mv", "chmod", "rm">>) = "mv" /\ Tail(<<"mv", "chmod", "rm">>) = <<"chmod", "rm">>
  /\ Head(<<"chmod">>) = "chmod" /\ Tail(<<"chmod">>) = <<>>
  /\ Head(<<"chmod", "rm">>) = "chmod" /\ Tail(<<"chmod", "rm">>) = <<"rm">>
  /\ Head(<<"rm">>) = "rm" /\ Tail(<<"rm">>) = <<>>
  /\ Head(<<"backup", "mv">>) = "backup" /\ Tail(<<"backup", "mv">>) = <<"mv">>
  /\ Head(<<"mv">>) = "mv" /\ Tail(<<"mv">>) = <<>>
  /\ Head(<<"restore">>) = "restore" /\ Tail(<<"restore">>) = <<>>
<1>1. Head(<<"mv", "chmod">>) = "mv" /\ Tail(<<"mv", "chmod">>) = <<"chmod">>  OBVIOUS
<1>2. Head(<<"mv", "chmod", "rm">>) = "mv" /\ Tail(<<"mv", "chmod", "rm">>) = <<"chmod", "rm">>  OBVIOUS
<1>3. Head(<<"chmod">>) = "chmod" /\ Tail(<<"chmod">>) = <<>>  OBVIOUS
<1>4. Head(<<"chmod", "rm">>) = "chmod" /\ Tail(<<"chmod", "rm">>) = <<"rm">>  OBVIOUS
<1>5. Head(<<"rm">>) = "rm" /\ Tail(<<"rm">>) = <<>>  OBVIOUS
<1>6. Head(<<"backup", "mv">>) = "backup" /\ Tail(<<"backup", "mv">>) = <<"mv">>  OBVIOUS
<1>7. Head(<<"mv">>) = "mv" /\ Tail(<<"mv">>) = <<>>  OBVIOUS
<1>8. Head(<<"restore">>) = "restore" /\ Tail(<<"restore">>) = <<>>  OBVIOUS
<1> QED BY <1>1, <1>2, <1>3, <1>4, <1>5, <1>6, <1>7, <1>8, Zenon

\* The launcher that starts for the first time is in its place.
LEMMA UpdateInvInitially == UpdateInit => UpdateInv
<1> SUFFICES ASSUME UpdateInit PROVE UpdateInv  OBVIOUS
<1> DEFINE first == [version |-> 1, runs |-> TRUE]
<1>1. /\ kind \in Kinds /\ renames \in BOOLEAN /\ (kind = "app" => ~renames)
      /\ latest = 1 /\ running = 1 /\ prompt = Nil /\ stage = "idle" /\ to = Nil
      /\ fetched = Nil /\ backup = Nil /\ shell = <<>> /\ outcome = Nil /\ cut = FALSE
      /\ installed = [p \in Place |-> IF p = path THEN first ELSE Nil]
  BY DEF UpdateInit
<1>2. 1 \in 1 .. MaxVersion /\ first \in Copy /\ first.runs
  <2>1. 1 \in 1 .. MaxVersion  BY KindAssumption
  <2> QED BY <2>1 DEF Copy
<1> HIDE DEF first
<1>3. path \in Place /\ installed[path] = first /\ installed \in [Place -> Copy \cup {Nil}]
  BY <1>1, <1>2, CopyFacts DEF path
<1>4. UpdateShape
  <2>1. UpdateType  BY <1>1, <1>2, <1>3 DEF UpdateType
  <2>2. kind = "app" => path = "new" /\ installed["old"] = Nil
    BY <1>1, CopyFacts DEF path
  <2> QED BY <1>1, <2>1, <2>2, CopyFacts DEF UpdateShape, Stage, ExeShell, AppShell, Finishing
<1>5. FetchedIsRight /\ NewIsRight
  BY <1>1, CopyFacts DEF FetchedIsRight, NewIsRight, Moving, Finishing
<1>6. ExeIsSafe
  BY <1>1, <1>2, <1>3, CopyFacts DEF ExeIsSafe, Untouched
<1>7. AppIsSafe
  <2>1. kind = "app" => installed["new"] = first  BY <1>1, <1>3 DEF path
  <2> QED BY <1>1, <1>2, <2>1 DEF AppIsSafe
<1> QED BY <1>4, <1>5, <1>6, <1>7 DEF UpdateInv

\* A release, a check, or nothing at all.
LEMMA NothingIsDone ==
  ASSUME UpdateInv, latest' \in 1 .. MaxVersion, prompt' \in 1 .. MaxVersion \cup {Nil},
         UNCHANGED <<kind, renames, running, stage, to, installed, fetched, backup, shell, outcome, cut, before>>
  PROVE  UpdateInv'
<1>1. UpdateShape'
  <2>1. UpdateType'  BY DEF UpdateInv, UpdateShape, UpdateType
  <2> QED BY <2>1 DEF UpdateInv, UpdateShape
<1>2. FetchedIsRight' /\ NewIsRight'  BY DEF UpdateInv, FetchedIsRight, NewIsRight
<1>3. ExeIsSafe' /\ AppIsSafe'  BY DEF UpdateInv, ExeIsSafe, AppIsSafe, Untouched
<1> QED BY <1>1, <1>2, <1>3 DEF UpdateInv

\* An update that ends before anything is in its place leaves what there was.
LEMMA EndsUntouched ==
  ASSUME UpdateInv, stage \in {"download", "write", "move"}, shell = <<>>, stage' = "idle", outcome' = "error",
         fetched' \in Copy \cup {Nil}, backup' \in Copy \cup {Nil},
         UNCHANGED <<outside, installed, shell, cut>>
  PROVE  UpdateInv'
<1>1. UNCHANGED <<kind, renames, latest, running, prompt, to, before, installed, shell, cut>>
  BY DEF outside
<1>2. UpdateShape'
  <2>1. UpdateType'  BY <1>1 DEF UpdateInv, UpdateShape, UpdateType
  <2> QED BY <1>1, <2>1 DEF UpdateInv, UpdateShape, Stage
<1>3. FetchedIsRight'  BY <1>1 DEF UpdateInv, FetchedIsRight, Moving
<1>4. NewIsRight'  BY <1>1 DEF NewIsRight, Finishing
<1>5. ExeIsSafe'
  BY <1>1 DEF UpdateInv, ExeIsSafe, Untouched
<1>6. AppIsSafe'
  BY <1>1, CopyFacts DEF UpdateInv, AppIsSafe
<1> QED BY <1>2, <1>3, <1>4, <1>5, <1>6 DEF UpdateInv

\* An update goes on to its next stage with everything in its place.
LEMMA GoesOnUntouched ==
  ASSUME UpdateInv, stage \in {"download", "write", "move"}, shell = <<>>, outcome = Nil,
         stage' \in {"write", "move"}, fetched' \in Copy \cup {Nil},
         stage' = "move" => fetched' \in Copy /\ fetched'.version = to,
         UNCHANGED <<outside, installed, backup, shell, outcome, cut>>
  PROVE  UpdateInv'
<1>1. UNCHANGED <<kind, renames, latest, running, prompt, to, before, installed, backup, shell, outcome, cut>>
  BY DEF outside
<1>2. UpdateShape'
  <2>1. UpdateType'  BY <1>1 DEF UpdateInv, UpdateShape, UpdateType
  <2> QED BY <1>1, <2>1 DEF UpdateInv, UpdateShape, Stage
<1>3. FetchedIsRight'  BY <1>1 DEF FetchedIsRight, Moving
<1>4. NewIsRight'  BY <1>1, CopyFacts DEF NewIsRight, Finishing
<1>5. ExeIsSafe'
  BY <1>1, CopyFacts DEF UpdateInv, ExeIsSafe, Untouched
<1>6. AppIsSafe'
  BY <1>1 DEF UpdateInv, AppIsSafe
<1> QED BY <1>2, <1>3, <1>4, <1>5, <1>6 DEF UpdateInv

\* Before the commands, nothing is told and nothing runs beside.
LEMMA StagesAreQuiet ==
  ASSUME UpdateInv, stage # "idle"
  PROVE  outcome = Nil /\ to \in 1 .. MaxVersion /\ (stage \notin {"elevated", "undo"} => shell = <<>>)
BY DEF UpdateInv, UpdateShape

\* The update begins.
LEMMA UpdateKeeps ==
  ASSUME UpdateInv, Update
  PROVE  UpdateInv'
<1>1. /\ prompt # Nil /\ stage = "idle" /\ outcome = Nil /\ running # Nil /\ shell = <<>>
      /\ stage' = "download" /\ to' = prompt /\ before' = installed /\ fetched' = Nil /\ backup' = Nil
      /\ UNCHANGED <<kind, renames, latest, running, prompt, installed, shell, outcome, cut>>
  BY DEF Update
<1>2. UpdateShape'
  <2>1. UpdateType' /\ to' \in 1 .. MaxVersion  BY <1>1 DEF UpdateInv, UpdateShape, UpdateType
  <2> QED BY <1>1, <2>1 DEF UpdateInv, UpdateShape, Stage
<1>3. FetchedIsRight'  BY <1>1 DEF FetchedIsRight, Moving
<1>4. NewIsRight'  BY <1>1, CopyFacts DEF NewIsRight, Finishing
<1>5. ExeIsSafe'
  BY <1>1, CopyFacts DEF UpdateInv, ExeIsSafe, Untouched
<1>6. AppIsSafe'
  BY <1>1 DEF UpdateInv, AppIsSafe
<1> QED BY <1>2, <1>3, <1>4, <1>5, <1>6 DEF UpdateInv

\* The stages up to the one that moves.
LEMMA PreparationsKeep ==
  ASSUME UpdateInv, Download \/ write_new_exe \/ unpack \/ move_failed \/ backup_failed
  PROVE  UpdateInv'
<1>1. fetched \in Copy \cup {Nil} /\ backup \in Copy \cup {Nil}
  BY DEF UpdateInv, UpdateShape, UpdateType
<1>2. CASE Download
  <2>1. stage = "download" /\ UNCHANGED <<outside, installed, shell, cut>>  BY <1>2 DEF Download, outside
  <2>2. outcome = Nil /\ shell = <<>>  BY <2>1, StagesAreQuiet
  <2>3. CASE stage' = "write" /\ UNCHANGED <<outcome, fetched, backup>>
    BY <1>1, <2>1, <2>2, <2>3, GoesOnUntouched
  <2>4. CASE Fails
    BY <1>1, <2>1, <2>2, <2>4, EndsUntouched DEF Fails
  <2> QED BY <1>2, <2>3, <2>4 DEF Download
<1>3. CASE write_new_exe
  <2> DEFINE download == [version |-> to, runs |-> FALSE]
  <2>1. stage = "write" /\ UNCHANGED <<outside, installed, shell, cut>>  BY <1>3 DEF write_new_exe, outside
  <2>2. outcome = Nil /\ shell = <<>> /\ to \in 1 .. MaxVersion  BY <2>1, StagesAreQuiet
  <2>3. CASE stage' = "move" /\ fetched' = download /\ UNCHANGED <<outcome, backup>>
    <3>1. download \in Copy /\ download.version = to  BY <2>2 DEF Copy
    <3> HIDE DEF download
    <3> QED BY <2>1, <2>2, <2>3, <3>1, GoesOnUntouched
  <2>4. CASE Fails
    BY <1>1, <2>1, <2>2, <2>4, EndsUntouched DEF Fails
  <2> QED BY <1>3, <2>3, <2>4 DEF write_new_exe
<1>4. CASE unpack
  <2> DEFINE download == [version |-> to, runs |-> TRUE]
  <2>1. stage = "write" /\ UNCHANGED <<outside, installed, shell, cut>>  BY <1>4 DEF unpack, outside
  <2>2. outcome = Nil /\ shell = <<>> /\ to \in 1 .. MaxVersion  BY <2>1, StagesAreQuiet
  <2>3. CASE stage' = "move" /\ fetched' = download /\ UNCHANGED <<outcome, backup>>
    <3>1. download \in Copy /\ download.version = to  BY <2>2 DEF Copy
    <3> HIDE DEF download
    <3> QED BY <2>1, <2>2, <2>3, <3>1, GoesOnUntouched
  <2>4. CASE End("error")
    BY <1>1, <2>1, <2>2, <2>4, EndsUntouched DEF End
  <2> QED BY <1>4, <2>3, <2>4 DEF unpack
<1>5. CASE move_failed
  <2>1. stage = "move" /\ End("error") /\ UNCHANGED <<outside, installed, shell, cut>>
    BY <1>5 DEF move_failed, outside
  <2> QED BY <1>1, <2>1, StagesAreQuiet, EndsUntouched DEF End
<1>6. CASE backup_failed
  <2>1. stage = "move" /\ End("error") /\ UNCHANGED <<outside, installed, shell, cut>>
    BY <1>6 DEF backup_failed, outside
  <2> QED BY <1>1, <2>1, StagesAreQuiet, EndsUntouched DEF End
<1> QED BY <1>2, <1>3, <1>4, <1>5, <1>6

\* The launcher moves the new executable and removes the old one itself.
LEMMA MovesKeep ==
  ASSUME UpdateInv, move_renamed \/ remove_old \/ permit
  PROVE  UpdateInv'
<1>1. /\ UNCHANGED <<outside, shell>> /\ stage \in {"move", "remove", "permit"}
      /\ UNCHANGED <<kind, renames, latest, running, prompt, to, before>>
  BY DEF move_renamed, remove_old, permit, outside
<1>2. outcome = Nil /\ shell = <<>> /\ to \in 1 .. MaxVersion /\ shell' = <<>>
  BY <1>1, StagesAreQuiet
<1>3. kind # "app"
  BY DEF move_renamed, remove_old, permit, UpdateInv, UpdateShape
<1>4. installed \in [Place -> Copy \cup {Nil}] /\ fetched \in Copy \cup {Nil} /\ backup \in Copy \cup {Nil}
  BY DEF UpdateInv, UpdateShape, UpdateType
<1>5. /\ installed' \in [Place -> Copy \cup {Nil}] /\ installed'["new"] \in Copy /\ installed'["new"].version = to
      /\ fetched' \in Copy \cup {Nil} /\ backup' \in Copy \cup {Nil}
      /\ outcome' \in {"success", Nil} /\ (outcome' # Nil => stage' = "idle") /\ cut' \in BOOLEAN
      /\ stage' \in {"remove", "permit", "idle"}
      /\ stage' = "idle" /\ ~cut' => installed'["new"].runs
  <2>1. CASE move_renamed
    <3>1. /\ installed' = [installed EXCEPT !["new"] = fetched] /\ fetched' = Nil
          /\ stage' \in {"remove", "permit"} /\ stage = "move" /\ UNCHANGED <<backup, outcome, cut>>
      BY <2>1 DEF move_renamed
    <3>2. fetched \in Copy /\ fetched.version = to /\ cut \in BOOLEAN
      BY <3>1 DEF UpdateInv, FetchedIsRight, UpdateShape
    <3> QED BY <1>2, <1>4, <3>1, <3>2, CopyFacts
  <2>2. CASE remove_old
    <3>1. /\ installed' \in {installed, [installed EXCEPT !["old"] = Nil]}
          /\ stage' = "permit" /\ stage = "remove" /\ UNCHANGED <<fetched, backup, outcome, cut>>
      BY <2>2 DEF remove_old
    <3>2. installed["new"] \in Copy /\ installed["new"].version = to /\ cut \in BOOLEAN
      BY <3>1 DEF UpdateInv, NewIsRight, UpdateShape
    <3> QED BY <1>2, <1>4, <3>1, <3>2, CopyFacts
  <2>3. CASE permit
    <3> DEFINE new == [version |-> installed["new"].version, runs |-> TRUE]
    <3>1. /\ \/ installed' = [installed EXCEPT !["new"] = new] /\ cut' = cut
             \/ installed' = installed /\ cut' = TRUE
          /\ stage = "permit" /\ stage' = "idle" /\ outcome' = "success"
          /\ fetched' \in {fetched, Nil} /\ backup' \in {backup, Nil}
      BY <2>3 DEF permit, permitted, End
    <3>2. installed["new"] \in Copy /\ installed["new"].version = to /\ cut \in BOOLEAN
      BY <3>1 DEF UpdateInv, NewIsRight, UpdateShape
    <3>3. new \in Copy /\ new.version = to /\ new.runs
      BY <3>2, CopyFacts DEF Copy
    <3> HIDE DEF new
    <3> QED BY <1>4, <3>1, <3>2, <3>3, CopyFacts
  <2> QED BY <2>1, <2>2, <2>3
<1>6. UpdateShape'
  <2>1. UpdateType'  BY <1>1, <1>5 DEF UpdateInv, UpdateShape, UpdateType
  <2> QED BY <1>1, <1>2, <1>3, <1>5, <2>1 DEF UpdateInv, UpdateShape, Stage
<1>7. FetchedIsRight'  BY <1>2, <1>5 DEF FetchedIsRight, Moving
<1>8. NewIsRight'  BY <1>1, <1>5 DEF NewIsRight
<1>9. ExeIsSafe'
  BY <1>1, <1>5, CopyFacts DEF ExeIsSafe, Untouched
<1>10. AppIsSafe'  BY <1>1, <1>3 DEF AppIsSafe
<1> QED BY <1>6, <1>7, <1>8, <1>9, <1>10 DEF UpdateInv

\* The rest of the update is left to commands.
LEMMA DeniedKeeps ==
  ASSUME UpdateInv, move_denied \/ backup_denied
  PROVE  UpdateInv'
<1>1. /\ UNCHANGED <<installed, fetched, backup, outcome, cut>> /\ stage = "move" /\ stage' = "elevated"
      /\ UNCHANGED <<kind, renames, latest, running, prompt, to, before>>
  BY DEF move_denied, backup_denied, outside
<1>2. outcome = Nil /\ shell = <<>> /\ to \in 1 .. MaxVersion
  BY <1>1, StagesAreQuiet
<1>3. /\ kind # "app" => shell' \in {<<"mv", "chmod">>, <<"mv", "chmod", "rm">>}
      /\ kind = "app" => shell' = <<"backup", "mv">>
  BY DEF move_denied, backup_denied
<1>4. shell' \in Moving /\ shell' \notin Finishing /\ shell' # <<>> /\ shell' # <<"failed">>
  BY <1>3 DEF Moving, Finishing
<1>5. UpdateShape'
  <2>1. UpdateType'  BY <1>1 DEF UpdateInv, UpdateShape, UpdateType
  <2> QED BY <1>1, <1>2, <1>3, <1>4, <2>1 DEF UpdateInv, UpdateShape, Stage, ExeShell, AppShell
<1>6. FetchedIsRight'  BY <1>1 DEF UpdateInv, FetchedIsRight
<1>7. NewIsRight'  BY <1>1, <1>2, <1>4, CopyFacts DEF NewIsRight
<1>8. ExeIsSafe'
  BY <1>1, <1>2, <1>3, <1>4, CopyFacts DEF UpdateInv, ExeIsSafe, Untouched
<1>9. AppIsSafe'
  BY <1>1, <1>3 DEF UpdateInv, AppIsSafe
<1> QED BY <1>5, <1>6, <1>7, <1>8, <1>9 DEF UpdateInv

\* The backup succeeds, which is taken for an error; or the commands are undone.
LEMMA BackupsKeep ==
  ASSUME UpdateInv, backup_moved \/ undo
  PROVE  UpdateInv'
<1>1. /\ UNCHANGED <<kind, renames, latest, running, prompt, to, before, cut>>
      /\ kind = "app" /\ stage # "idle"
  BY DEF backup_moved, undo, outside
<1>2. outcome = Nil /\ to \in 1 .. MaxVersion /\ (stage \notin {"elevated", "undo"} => shell = <<>>)
  BY <1>1, StagesAreQuiet
<1>3. installed \in [Place -> Copy \cup {Nil}] /\ fetched \in Copy \cup {Nil} /\ backup \in Copy \cup {Nil}
  BY DEF UpdateInv, UpdateShape, UpdateType
<1>4. CASE backup_moved
  <2>1. /\ installed' = [installed EXCEPT !["new"] = Nil] /\ backup' \in {installed["new"], Nil}
        /\ stage = "move" /\ stage' = "idle" /\ outcome' = "error" /\ fetched' \in {fetched, Nil}
        /\ shell' = shell /\ shell = <<>>
    BY <1>2, <1>4 DEF backup_moved
  <2>2. UpdateShape'
    <3>1. UpdateType'
      BY <1>1, <1>3, <2>1, CopyFacts DEF UpdateInv, UpdateShape, UpdateType
    <3>2. installed'["old"] = installed["old"]  BY <1>3, <2>1, CopyFacts
    <3> QED BY <1>1, <2>1, <3>1, <3>2 DEF UpdateInv, UpdateShape, Stage
  <2>3. FetchedIsRight'  BY <2>1 DEF FetchedIsRight, Moving
  <2>4. NewIsRight'  BY <2>1 DEF NewIsRight, Finishing
  <2>5. ExeIsSafe'  BY <1>1 DEF ExeIsSafe
  <2>6. AppIsSafe'  BY <2>1, CopyFacts DEF AppIsSafe
  <2> QED BY <2>2, <2>3, <2>4, <2>5, <2>6 DEF UpdateInv
<1>5. CASE undo
  <2>1. /\ stage = "elevated" /\ shell = <<"failed">> /\ backup # Nil /\ stage' = "undo" /\ shell' = <<"restore">>
        /\ UNCHANGED <<installed, fetched, backup, outcome>>
    BY <1>5 DEF undo
  <2>2. UpdateShape'
    <3>1. UpdateType'
      BY <1>1, <2>1 DEF UpdateInv, UpdateShape, UpdateType
    <3> QED BY <1>1, <2>1, <3>1 DEF UpdateInv, UpdateShape, Stage, AppShell
  <2>3. FetchedIsRight'  BY <2>1 DEF FetchedIsRight, Moving
  <2>4. NewIsRight'  BY <1>2, <2>1, CopyFacts DEF NewIsRight, Finishing
  <2>5. ExeIsSafe'  BY <1>1 DEF ExeIsSafe
  <2>6. AppIsSafe'  BY <1>3, <2>1 DEF AppIsSafe
  <2> QED BY <2>2, <2>3, <2>4, <2>5, <2>6 DEF UpdateInv
<1> QED BY <1>4, <1>5

\* The commands have ended.
LEMMA EndsKeep ==
  ASSUME UpdateInv, elevated \/ undone
  PROVE  UpdateInv'
<1>1. /\ UNCHANGED <<kind, renames, latest, running, prompt, to, before, cut, installed>>
      /\ stage \in {"elevated", "undo"} /\ stage' = "idle" /\ shell' = <<>> /\ shell \in {<<>>, <<"failed">>}
      /\ outcome' \in {"success", "error"} /\ (outcome' = "success" => stage = "elevated" /\ shell = <<>>)
      /\ stage = "elevated" /\ outcome' = "error" => shell = <<"failed">>
      /\ fetched' \in {fetched, Nil} /\ backup' \in {backup, Nil}
  BY DEF elevated, undone, End, outside
<1>2. installed \in [Place -> Copy \cup {Nil}] /\ fetched \in Copy \cup {Nil} /\ backup \in Copy \cup {Nil}
  BY DEF UpdateInv, UpdateShape, UpdateType
<1>3. UpdateShape'
  <2>1. UpdateType'
    BY <1>1, <1>2 DEF UpdateInv, UpdateShape, UpdateType
  <2> QED BY <1>1, <2>1 DEF UpdateInv, UpdateShape, Stage, ExeShell, AppShell
<1>4. FetchedIsRight'  BY <1>1 DEF FetchedIsRight, Moving
<1>5. NewIsRight'  BY <1>1 DEF UpdateInv, NewIsRight, Finishing
<1>6. ExeIsSafe'
  <2> SUFFICES ASSUME kind # "app" PROVE ExeIsSafe'  BY <1>1 DEF ExeIsSafe
  <2>1. stage = "elevated"  BY <1>1 DEF UpdateInv, UpdateShape
  <2>2. CASE shell = <<>>
    <3>1. outcome' = "success" /\ installed["new"] \in Copy /\ (~cut => installed["new"].runs)
      BY <1>1, <2>1, <2>2 DEF UpdateInv, NewIsRight, ExeIsSafe
    <3> QED BY <1>1, <3>1, CopyFacts DEF ExeIsSafe, Untouched
  <2>3. CASE shell = <<"failed">>
    BY <1>1, <2>1, <2>3 DEF UpdateInv, ExeIsSafe, Untouched
  <2> QED BY <1>1, <2>2, <2>3
<1>7. AppIsSafe'  BY <1>1, CopyFacts DEF AppIsSafe
<1> QED BY <1>3, <1>4, <1>5, <1>6, <1>7 DEF UpdateInv

\* The launcher ends, and may be started again where a copy can be run.
LEMMA QuitAndStartKeep ==
  ASSUME UpdateInv, Quit \/ Start
  PROVE  UpdateInv'
<1>1. /\ UNCHANGED <<kind, latest, to, before, installed, fetched, backup>>
  BY DEF Quit, Start
<1>2. CASE Quit
  <2>1. /\ renames' = renames /\ running' = Nil /\ prompt' = Nil /\ stage' = "idle" /\ outcome' = Nil
        /\ cut' = (cut \/ stage # "idle") /\ shell' = IF shell = <<"failed">> THEN <<>> ELSE shell
    BY <1>2 DEF Quit
  <2>2. UpdateShape'
    <3>1. UpdateType'  BY <1>1, <2>1 DEF UpdateInv, UpdateShape, UpdateType
    <3>2. cut' \in BOOLEAN  BY <2>1 DEF UpdateInv, UpdateShape
    <3>3. shell' # <<>> => cut'  BY <2>1 DEF UpdateInv, UpdateShape
    <3>4. shell' # <<"failed">>  BY <2>1
    <3>5. /\ shell' \in ExeShell \cup AppShell
          /\ (kind # "app" => shell' \in ExeShell)
          /\ (kind = "app" => shell' \in AppShell)
      BY <2>1 DEF UpdateInv, UpdateShape, ExeShell, AppShell
    <3>6. stage' = "idle" /\ outcome' = Nil /\ renames' = renames  BY <2>1
    <3>7. /\ to \in 1 .. MaxVersion \cup {Nil}
          /\ (kind = "app" => ~renames /\ installed["old"] = Nil)
      BY DEF UpdateInv, UpdateShape
    <3>8. stage' \in Stage  BY <3>6 DEF Stage
    <3>9. to' \in 1 .. MaxVersion \cup {Nil}  BY <1>1, <3>7
    <3>10. kind' # "app" => (shell' \in ExeShell /\ stage' # "undo")  BY <1>1, <3>5, <3>6
    <3>11. kind' = "app" => /\ shell' \in AppShell /\ stage' \notin {"remove", "permit"}
                           /\ ~renames' /\ installed'["old"] = Nil
      BY <1>1, <3>5, <3>6, <3>7
    <3>12. shell' # <<>> => stage' \in {"elevated", "undo"} \/ (stage' = "idle" /\ cut')
      BY <3>3, <3>6
    <3>13. stage' # "undo" /\ stage' # "elevated" /\ ~(stage' # "idle")  BY <3>6
    <3> QED BY <3>1, <3>2, <3>4, <3>5, <3>6, <3>8, <3>9, <3>10, <3>11, <3>12, <3>13 DEF UpdateShape
  <2>3. FetchedIsRight'  BY <1>1, <2>1 DEF UpdateInv, FetchedIsRight, Moving
  <2>4. NewIsRight'  BY <1>1, <2>1, CopyFacts DEF UpdateInv, NewIsRight, Finishing
  <2>5. ExeIsSafe'
    <3> SUFFICES ASSUME kind # "app" PROVE ExeIsSafe'  BY <1>1 DEF ExeIsSafe
    <3>1. CASE stage = "idle"
      BY <1>1, <2>1, <3>1, CopyFacts DEF UpdateInv, ExeIsSafe, Untouched
    <3>2. CASE stage # "idle"
      BY <1>1, <2>1, <3>2 DEF UpdateInv, ExeIsSafe
    <3> QED BY <3>1, <3>2
  <2>6. AppIsSafe'  BY <1>1, <2>1 DEF AppIsSafe
  <2> QED BY <2>2, <2>3, <2>4, <2>5, <2>6 DEF UpdateInv
<1>3. CASE Start
  <2>1. PICK p \in Place : /\ installed[p] # Nil /\ installed[p].runs
                           /\ running' = installed[p].version /\ renames' = (p = "old")
    BY <1>3 DEF Start
  <2>2. running = Nil /\ UNCHANGED <<prompt, stage, shell, outcome, cut>>
    BY <1>3 DEF Start
  <2>3. installed[p] \in Copy /\ running' \in 1 .. MaxVersion
    BY <2>1, CopyFacts DEF UpdateInv, UpdateShape, UpdateType
  <2>4. UpdateShape'
    <3>1. UpdateType'  BY <1>1, <2>2, <2>3 DEF UpdateInv, UpdateShape, UpdateType
    <3>2. kind = "app" => ~renames'  BY <2>1 DEF UpdateInv, UpdateShape
    <3> QED BY <1>1, <2>2, <3>1, <3>2 DEF UpdateInv, UpdateShape
  <2>5. FetchedIsRight' /\ NewIsRight'  BY <1>1, <2>2 DEF UpdateInv, FetchedIsRight, NewIsRight
  <2>6. ExeIsSafe'  BY <1>1, <2>2 DEF UpdateInv, ExeIsSafe, Untouched
  <2>7. AppIsSafe'
    <3>1. kind = "app" => installed["new"] \in Copy
      BY <2>1, <2>3, CopyFacts DEF UpdateInv, UpdateShape
    <3> QED BY <1>1, <2>2, <3>1 DEF UpdateInv, AppIsSafe
  <2> QED BY <2>4, <2>5, <2>6, <2>7 DEF UpdateInv
<1> QED BY <1>2, <1>3

\* A command is run, or fails.
LEMMA ShellKeeps ==
  ASSUME UpdateInv, Shell
  PROVE  UpdateInv'
<1>1. /\ UNCHANGED <<kind, renames, latest, running, prompt, stage, to, before, outcome>>
      /\ shell # <<>> /\ shell # <<"failed">>
  BY DEF Shell, outside
<1>2. /\ installed \in [Place -> Copy \cup {Nil}] /\ fetched \in Copy \cup {Nil} /\ backup \in Copy \cup {Nil}
      /\ cut \in BOOLEAN /\ kind \in Kinds
  BY DEF UpdateInv, UpdateShape, UpdateType
<1>3. outcome = Nil /\ (stage \in {"elevated", "undo"} \/ (stage = "idle" /\ cut))
  BY <1>1 DEF UpdateInv, UpdateShape, UpdateType
<1>4. CASE run_command(Head(shell)) /\ shell' = Tail(shell) /\ UNCHANGED cut
  <2>1. CASE kind # "app"
    <3>1. shell \in {<<"mv", "chmod">>, <<"mv", "chmod", "rm">>, <<"chmod">>, <<"chmod", "rm">>, <<"rm">>}
          /\ stage \in {"elevated", "idle"}
      BY <1>1, <1>3, <2>1 DEF UpdateInv, UpdateShape, ExeShell, Finishing
    <3> DEFINE new == [version |-> installed["new"].version, runs |-> TRUE]
    <3>2. /\ installed' \in [Place -> Copy \cup {Nil}] /\ installed'["new"] \in Copy
          /\ installed'["new"].version = to
          /\ fetched' \in Copy \cup {Nil} /\ backup' = backup
          /\ shell' \in {<<"chmod">>, <<"chmod", "rm">>, <<"rm">>, <<>>}
          /\ ~cut /\ stage = "elevated" /\ shell' \in {<<"rm">>, <<>>} => installed'["new"].runs
      <4>1. CASE shell \in {<<"mv", "chmod">>, <<"mv", "chmod", "rm">>}
        <5>1. Head(shell) = "mv" /\ shell' \in {<<"chmod">>, <<"chmod", "rm">>}
          BY <1>4, <4>1, CommandFacts, Zenon
        <5>4. shell' \notin {<<"rm">>, <<>>}  BY <5>1
        <5>2. installed' = [installed EXCEPT !["new"] = fetched] /\ fetched' = Nil /\ backup' = backup
          BY <1>4, <5>1 DEF run_command
        <5>3. fetched \in Copy /\ fetched.version = to  BY <4>1 DEF UpdateInv, FetchedIsRight, Moving
        <5> QED BY <1>2, <5>1, <5>2, <5>3, <5>4, CopyFacts
      <4>2. CASE shell \in {<<"chmod">>, <<"chmod", "rm">>}
        <5>1. Head(shell) = "chmod" /\ shell' \in {<<>>, <<"rm">>}
          BY <1>4, <4>2, CommandFacts, Zenon
        <5>2. installed' = [installed EXCEPT !["new"] = new] /\ fetched' = fetched /\ backup' = backup
          BY <1>4, <5>1 DEF run_command, permitted
        <5>3. installed["new"] \in Copy /\ installed["new"].version = to
          BY <4>2 DEF UpdateInv, NewIsRight, Finishing
        <5>4. new \in Copy /\ new.version = to /\ new.runs  BY <5>3 DEF Copy
        <5> HIDE DEF new
        <5> QED BY <1>2, <5>1, <5>2, <5>4, CopyFacts
      <4>3. CASE shell = <<"rm">>
        <5>1. Head(shell) = "rm" /\ shell' = <<>>  BY <1>4, <4>3
        <5>2. installed' = [installed EXCEPT !["old"] = Nil] /\ fetched' = fetched /\ backup' = backup
          BY <1>4, <5>1 DEF run_command
        <5>3. /\ installed["new"] \in Copy /\ installed["new"].version = to
              /\ (~cut /\ stage = "elevated" => installed["new"].runs)
          BY <2>1, <4>3 DEF UpdateInv, NewIsRight, Finishing, ExeIsSafe
        <5> QED BY <1>2, <5>1, <5>2, <5>3, CopyFacts
      <4> QED BY <3>1, <4>1, <4>2, <4>3
    <3> HIDE DEF new
    <3>3. UpdateShape'
      <4>1. UpdateType'  BY <1>1, <1>2, <3>2 DEF UpdateInv, UpdateShape, UpdateType
      <4>2. shell' \in ExeShell /\ shell' # <<"failed">> /\ shell' # <<"restore">>
        BY <3>2 DEF ExeShell, Finishing
      <4>3. cut' \in BOOLEAN /\ (cut => cut')  BY <1>2, <1>4
      <4>4. stage # "undo"  BY <3>1
      <4> QED BY <1>1, <1>3, <2>1, <4>1, <4>2, <4>3, <4>4, CopyFacts DEF UpdateInv, UpdateShape
    <3>4. FetchedIsRight'
      BY <1>1, <3>1, <3>2 DEF FetchedIsRight, Moving
    <3>5. NewIsRight'  BY <1>1, <3>2 DEF NewIsRight
    <3>6. ExeIsSafe'
      <4>1. shell' \notin Moving \cup {<<"failed">>}  BY <3>2 DEF Moving
      <4>2. ~Untouched'  BY <1>1, <3>1, <4>1 DEF Untouched
      <4> QED BY <1>1, <1>3, <1>4, <3>2, <4>2, CopyFacts DEF ExeIsSafe
    <3>7. AppIsSafe'  BY <1>1, <2>1 DEF AppIsSafe
    <3> QED BY <3>3, <3>4, <3>5, <3>6, <3>7 DEF UpdateInv
  <2>2. CASE kind = "app"
    <3>1. shell \in {<<"backup", "mv">>, <<"mv">>, <<"restore">>} /\ ~renames /\ installed["old"] = Nil
      BY <1>1, <2>2 DEF UpdateInv, UpdateShape, AppShell
    <3>2. /\ installed' \in [Place -> Copy \cup {Nil}] /\ installed'["old"] = Nil
          /\ fetched' \in Copy \cup {Nil} /\ backup' \in Copy \cup {Nil}
          /\ shell' \in {<<"mv">>, <<>>}
          /\ shell' = <<"mv">> => fetched' \in Copy /\ fetched'.version = to
          /\ stage = "elevated" /\ shell' = <<>> /\ shell = <<"mv">> =>
               installed'["new"] \in Copy /\ installed'["new"].version = to
          /\ ~cut /\ shell' = <<"mv">> => backup' \in Copy
          /\ ~cut /\ shell' = <<>> => installed'["new"] \in Copy
      <4>1. CASE shell = <<"backup", "mv">>
        <5>1. Head(shell) = "backup" /\ shell' = <<"mv">>  BY <1>4, <4>1
        <5>2. installed' = [installed EXCEPT !["new"] = Nil] /\ fetched' = fetched /\ backup' = installed["new"]
          BY <1>4, <5>1 DEF run_command
        <5>3. /\ fetched \in Copy /\ fetched.version = to
              /\ (~cut => installed["new"] \in Copy)
          BY <1>3, <2>2, <4>1 DEF UpdateInv, FetchedIsRight, Moving, AppIsSafe
        <5> QED BY <1>2, <3>1, <5>1, <5>2, <5>3, CopyFacts
      <4>2. CASE shell = <<"mv">>
        <5>1. Head(shell) = "mv" /\ shell' = <<>>  BY <1>4, <4>2
        <5>2. installed' = [installed EXCEPT !["new"] = fetched] /\ fetched' = Nil /\ backup' = backup
          BY <1>4, <5>1 DEF run_command
        <5>3. fetched \in Copy /\ fetched.version = to
          BY <4>2 DEF UpdateInv, FetchedIsRight, Moving
        <5> QED BY <1>2, <3>1, <5>1, <5>2, <5>3, CopyFacts
      <4>3. CASE shell = <<"restore">>
        <5>1. Head(shell) = "restore" /\ shell' = <<>>  BY <1>4, <4>3
        <5>2. installed' = [installed EXCEPT !["new"] = backup] /\ backup' = Nil /\ fetched' = fetched
          BY <1>4, <5>1 DEF run_command
        <5>3. ~cut => backup \in Copy
          BY <1>3, <2>2, <4>3 DEF UpdateInv, AppIsSafe
        <5> QED BY <1>2, <3>1, <4>3, <5>1, <5>2, <5>3, CopyFacts
      <4> QED BY <3>1, <4>1, <4>2, <4>3
    <3>3. stage = "undo" => shell = <<"restore">> /\ shell' = <<>>
      BY <1>1, <1>4, <3>1 DEF UpdateInv, UpdateShape
    <3>4. stage = "elevated" => shell # <<"restore">>
      BY DEF UpdateInv, UpdateShape
    <3>5. UpdateShape'
      <4>1. UpdateType'  BY <1>1, <1>2, <3>2 DEF UpdateInv, UpdateShape, UpdateType
      <4>2. shell' \in AppShell /\ shell' # <<"failed">> /\ shell' # <<"restore">>  BY <3>2 DEF AppShell
      <4>3. stage = "undo" => shell' = <<>>  BY <3>3
      <4>4. stage \notin {"remove", "permit"}  BY <2>2 DEF UpdateInv, UpdateShape
      <4> QED BY <1>1, <1>2, <1>3, <1>4, <2>2, <3>1, <3>2, <4>1, <4>2, <4>3, <4>4 DEF UpdateInv, UpdateShape
    <3>6. FetchedIsRight'
      BY <1>1, <1>3, <3>2 DEF FetchedIsRight, Moving
    <3>7. NewIsRight'
      <4>1. shell' \notin Finishing  BY <3>2 DEF Finishing
      <4>2. stage = "elevated" /\ shell' = <<>> => shell = <<"mv">>
        BY <1>4, <3>1, <3>4
      <4>3. stage \notin {"remove", "permit"}  BY <1>3
      <4> QED BY <1>1, <1>3, <3>2, <4>1, <4>2, <4>3, CopyFacts DEF NewIsRight
    <3>8. ExeIsSafe'  BY <1>1, <2>2 DEF ExeIsSafe
    <3>9. AppIsSafe'
      BY <1>1, <1>3, <1>4, <3>2 DEF AppIsSafe
    <3> QED BY <3>5, <3>6, <3>7, <3>8, <3>9 DEF UpdateInv
  <2> QED BY <2>1, <2>2
<1>5. CASE /\ shell' = (IF stage = "idle" THEN <<>> ELSE <<"failed">>)
           /\ cut' = (cut \/ Head(shell) \in {"chmod", "rm", "restore"})
           /\ UNCHANGED <<installed, fetched, backup>>
  <2>1. UpdateShape'
    <3>1. UpdateType'  BY <1>1, <1>5 DEF UpdateInv, UpdateShape, UpdateType
    <3>2. cut' \in BOOLEAN /\ (cut => cut')  BY <1>2, <1>5
    <3>3. shell' \in ExeShell /\ shell' \in AppShell /\ shell' # <<"restore">>
      BY <1>5 DEF ExeShell, AppShell
    <3>4. stage = "idle" => shell' = <<>>  BY <1>5
    <3>5. stage = "undo" => shell' \in {<<"restore">>, <<>>, <<"failed">>}  BY <1>5
    <3> QED BY <1>1, <1>3, <1>5, <3>1, <3>2, <3>3, <3>4, <3>5, CopyFacts DEF UpdateInv, UpdateShape
  <2>2. FetchedIsRight'  BY <1>1, <1>3, <1>5 DEF FetchedIsRight, Moving
  <2>3. NewIsRight'
    <3>1. shell' \notin Finishing  BY <1>5 DEF Finishing
    <3>2. stage = "elevated" => shell' # <<>>  BY <1>5
    <3> QED BY <1>1, <1>3, <3>1, <3>2, CopyFacts DEF NewIsRight
  <2>4. ExeIsSafe'
    <3> SUFFICES ASSUME kind # "app" PROVE ExeIsSafe'  BY <1>1 DEF ExeIsSafe
    <3>1. \E p \in Place : installed[p] \in Copy  BY DEF UpdateInv, ExeIsSafe
    <3>2. CASE cut'  BY <1>1, <1>5, <3>1, <3>2 DEF ExeIsSafe
    <3>3. CASE ~cut'
      <4>1. ~cut /\ stage = "elevated" /\ shell' = <<"failed">>
        BY <1>3, <1>5, <3>3 DEF UpdateInv, UpdateShape
      <4>2. shell \in {<<"mv", "chmod">>, <<"mv", "chmod", "rm">>}
        <5>1. Head(shell) \notin {"chmod", "rm", "restore"}  BY <1>5, <3>3
        <5>2. shell \notin Finishing  BY <5>1, CommandFacts, Zenon DEF Finishing
        <5> QED BY <1>1, <5>2 DEF UpdateInv, UpdateShape, ExeShell
      <4>3. installed = before /\ \E p \in Place : installed[p] \in Copy /\ installed[p].runs
        BY <4>1, <4>2 DEF UpdateInv, ExeIsSafe, Untouched, Moving
      <4> QED BY <1>1, <1>5, <3>1, <4>1, <4>3 DEF ExeIsSafe, Untouched
    <3> QED BY <3>2, <3>3
  <2>5. AppIsSafe'
    <3> SUFFICES ASSUME kind = "app", ~cut' PROVE AppIsSafe'  BY <1>1 DEF AppIsSafe
    <3>1. ~cut /\ stage \in {"elevated", "undo"} /\ shell' = <<"failed">>
      BY <1>3, <1>5
    <3>2. installed["new"] \in Copy \/ backup \in Copy
      BY <3>1 DEF UpdateInv, AppIsSafe
    <3> QED BY <1>1, <1>5, <3>1, <3>2 DEF AppIsSafe
  <2> QED BY <2>1, <2>2, <2>3, <2>4, <2>5 DEF UpdateInv
<1> QED BY <1>4, <1>5 DEF Shell

\* Every step of an update, of its commands, of the user and of the server.
LEMMA UpdateInvStays == UpdateInv /\ [UpdateNext]_update_vars => UpdateInv'
<1> SUFFICES ASSUME UpdateInv, [UpdateNext]_update_vars PROVE UpdateInv'  OBVIOUS
<1>1. /\ latest \in 1 .. MaxVersion /\ prompt \in 1 .. MaxVersion \cup {Nil}
  BY DEF UpdateInv, UpdateShape, UpdateType
<1>2. CASE Release
  <2>1. latest' \in 1 .. MaxVersion  BY <1>1, <1>2, KindAssumption DEF Release
  <2> QED BY <1>1, <1>2, <2>1, NothingIsDone DEF Release
<1>3. CASE check_for_updates
  <2>1. prompt' \in {latest, Nil}  BY <1>3 DEF check_for_updates
  <2> QED BY <1>1, <1>3, <2>1, NothingIsDone DEF check_for_updates
<1>4. CASE UNCHANGED update_vars
  BY <1>1, <1>4, NothingIsDone DEF update_vars, outside
<1> QED BY <1>2, <1>3, <1>4, UpdateKeeps, PreparationsKeep, MovesKeep, DeniedKeeps, BackupsKeep, EndsKeep,
          ShellKeeps, QuitAndStartKeep DEF UpdateNext

\* Replacing the launcher leaves one that can be started, and what the user is told
\* of it is so, wherever it stops or fails (update.rs).
THEOREM UpdatesLeaveALauncher == UpdateSpec => []UpdatesAreSafe
<1>1. UpdateInv => UpdatesAreSafe
  <2> SUFFICES ASSUME UpdateInv PROVE UpdatesAreSafe  OBVIOUS
  <2>1. ThereIsALauncher
    BY CopyFacts DEF UpdateInv, ExeIsSafe, ThereIsALauncher
  <2>2. OutcomeIsTrue
    BY CopyFacts DEF UpdateInv, NewIsRight, ExeIsSafe, OutcomeIsTrue
  <2>3. AppIsSomewhere
    BY CopyFacts DEF UpdateInv, UpdateShape, AppIsSafe, AppIsSomewhere, Stage
  <2>4. UpdateType  BY DEF UpdateInv, UpdateShape
  <2> QED BY <2>1, <2>2, <2>3, <2>4 DEF UpdatesAreSafe
<1> QED BY <1>1, UpdateInvInitially, UpdateInvStays, PTL DEF UpdateSpec

-----------------------------------------------------------------------------
(* Syncing: files. *)

\* Of the instances, v is what the last that says something says.
SaidLast(at, says, v) ==
  LET saying == {j \in Instance : says[j] # Missing}
  IN  /\ saying = {} => v = Missing
      /\ saying # {} => \E i \in saying : \A j \in saying : at[j] <= at[i]
      /\ \A i \in saying : (\A j \in saying : at[j] <= at[i]) => says[i] = v

ats(written) == [j \in Instance |-> written[j].at]
settings_said == [j \in Instance |-> options[j].setting]
values_said == [j \in Instance |-> copies[j].value]

\* What games wrote last is what the newest files say, and the fallback says nothing
\* that no game has written.
NewestIsLatest ==
  /\ SaidLast(ats(options), settings_said, newest.setting)
  /\ SaidLast(ats(copies), values_said, newest.value)
  /\ newest.setting = Missing => fallback.setting = Missing

WrittenBefore == \A i \in Instance : options[i].at <= time /\ copies[i].at <= time

SyncInv == SyncType /\ SyncedIsLinked /\ NewestIsLatest /\ WrittenBefore

\* Who writes last, be it what was said before, says what is said last.
LEMMA SaysLast ==
  ASSUME NEW at \in [Instance -> Nat], NEW says \in [Instance -> Values], NEW v, SaidLast(at, says, v),
         NEW i \in Instance, NEW t \in Nat, \A j \in Instance : at[j] < t,
         NEW w \in Values, w = Missing => v = Missing
  PROVE  SaidLast([at EXCEPT ![i] = t], [says EXCEPT ![i] = w], w)
<1> DEFINE saying == {j \in Instance : says[j] # Missing}
           at1 == [at EXCEPT ![i] = t]
           says1 == [says EXCEPT ![i] = w]
           saying1 == {j \in Instance : says1[j] # Missing}
<1>1. /\ saying = {} => v = Missing
      /\ saying # {} => \E k \in saying : \A j \in saying : at[j] <= at[k]
      /\ \A k \in saying : (\A j \in saying : at[j] <= at[k]) => says[k] = v
  BY DEF SaidLast
<1>2. CASE w = Missing
  <2>1. saying = {}
    <3>1. \A k \in saying : says[k] # v  BY <1>2
    <3> HIDE DEF saying
    <3> QED BY <1>1, <3>1
  <2>2. saying1 = {}  BY <1>2, <2>1
  <2> QED BY <1>2, <2>2 DEF SaidLast
<1>3. CASE w # Missing
  <2>1. i \in saying1 /\ at1[i] = t /\ says1[i] = w  BY <1>3
  <2>2. \A j \in saying1 : at1[j] \in Nat /\ at1[j] <= t /\ (j # i => at1[j] < t)
    <3> SUFFICES ASSUME NEW j \in saying1 PROVE at1[j] \in Nat /\ at1[j] <= t /\ (j # i => at1[j] < t)
      OBVIOUS
    <3>1. j \in Instance /\ at[j] \in Nat /\ at[j] < t  OBVIOUS
    <3>2. CASE j = i  BY <3>2
    <3>3. CASE j # i
      <4>1. at1[j] = at[j]  BY <3>1, <3>3
      <4> QED BY <3>1, <4>1
    <3> QED BY <3>2, <3>3
  <2> HIDE DEF saying1, at1, says1
  <2>3. saying1 # {} /\ \E k \in saying1 : \A j \in saying1 : at1[j] <= at1[k]  BY <2>1, <2>2
  <2>4. \A k \in saying1 : (\A j \in saying1 : at1[j] <= at1[k]) => k = i  BY <2>1, <2>2
  <2>5. \A k \in saying1 : (\A j \in saying1 : at1[j] <= at1[k]) => says1[k] = w  BY <2>1, <2>4
  <2> QED BY <2>3, <2>5 DEF SaidLast, saying1, at1, says1
<1> QED BY <1>2, <1>3

\* The latest that says something says what was said last.
LEMMA LatestSaysLast ==
  ASSUME NEW written, NEW says \in [Instance -> Values], NEW v, SaidLast(ats(written), says, v),
         {j \in Instance : says[j] # Missing} # {}
  PROVE  LET saying == {j \in Instance : says[j] # Missing}
         IN  Latest(saying, written) \in saying /\ says[Latest(saying, written)] = v
<1> DEFINE saying == {j \in Instance : says[j] # Missing}
           k == Latest(saying, written)
<1>1. \A j \in saying : ats(written)[j] = written[j].at  BY DEF ats
<1>2. /\ \E i \in saying : \A j \in saying : ats(written)[j] <= ats(written)[i]
      /\ \A i \in saying : (\A j \in saying : ats(written)[j] <= ats(written)[i]) => says[i] = v
  BY DEF SaidLast
<1> HIDE DEF saying
<1>3. \E i \in saying : \A j \in saying : written[j].at <= written[i].at  BY <1>1, <1>2
<1>4. k \in saying /\ \A j \in saying : written[j].at <= written[k].at  BY <1>3 DEF Latest
<1>5. says[k] = v  BY <1>1, <1>2, <1>4
<1> QED BY <1>4, <1>5 DEF saying

\* The types of files and settings.
LEMMA FileTypes ==
  ASSUME SyncInv
  PROVE  /\ copies \in [Instance -> [at : At, value : Values]]
         /\ options \in [Instance -> [at : At, setting : Values, packs : Values]]
         /\ fallback \in [setting : Values, packs : Values] /\ newest \in [value : Values, setting : Values]
         /\ time \in At /\ MaxTime \in Nat
         /\ ats(options) \in [Instance -> Nat] /\ ats(copies) \in [Instance -> Nat]
         /\ settings_said \in [Instance -> Values] /\ values_said \in [Instance -> Values]
         /\ \A j \in Instance : ats(options)[j] <= time /\ ats(copies)[j] <= time
<1>1. /\ copies \in [Instance -> [at : At, value : Values]]
      /\ options \in [Instance -> [at : At, setting : Values, packs : Values]]
      /\ fallback \in [setting : Values, packs : Values] /\ newest \in [value : Values, setting : Values]
      /\ time \in At /\ MaxTime \in Nat
  BY SyncAssumption DEF SyncInv, SyncType
<1>2. ASSUME NEW j \in Instance
      PROVE  /\ options[j].at \in Nat /\ copies[j].at \in Nat
             /\ options[j].setting \in Values /\ copies[j].value \in Values
  <2>1. options[j] \in [at : At, setting : Values, packs : Values] /\ copies[j] \in [at : At, value : Values]
    BY <1>1
  <2> QED BY <1>1, <2>1 DEF At
<1>3. \A j \in Instance : ats(options)[j] <= time /\ ats(copies)[j] <= time
  BY DEF SyncInv, WrittenBefore, ats
<1> QED BY <1>1, <1>2, <1>3 DEF ats, settings_said, values_said

\* Nothing is written.
LEMMA NothingIsWritten ==
  ASSUME SyncInv, UNCHANGED <<copies, options, fallback, newest, time>>
  PROVE  NewestIsLatest' /\ WrittenBefore'
  BY DEF SyncInv, NewestIsLatest, WrittenBefore, SaidLast, ats, settings_said, values_said

\* Instance i writes w into its options, which may be what was said before.
LEMMA OptionsAreWritten ==
  ASSUME SyncInv, NEW i \in Instance, NEW w \in Values, NEW packs \in Values, time' = time + 1,
         w = Missing => newest.setting = Missing,
         options' = [options EXCEPT ![i] = [at |-> time', setting |-> w, packs |-> packs]]
  PROVE  SaidLast(ats(options)', settings_said', w)
<1>1. ats(options)' = [ats(options) EXCEPT ![i] = time']  BY FileTypes DEF ats
<1>2. settings_said' = [settings_said EXCEPT ![i] = w]  BY FileTypes DEF settings_said
<1>3. SaidLast(ats(options), settings_said, newest.setting)  BY DEF SyncInv, NewestIsLatest
<1>4. time' \in Nat /\ \A j \in Instance : ats(options)[j] < time'
  <2>1. \A j \in Instance : ats(options)[j] \in Nat /\ ats(options)[j] <= time  BY FileTypes
  <2> QED BY FileTypes, <2>1 DEF At
<1>5. ats(options) \in [Instance -> Nat] /\ settings_said \in [Instance -> Values]  BY FileTypes
<1>6. SaidLast([ats(options) EXCEPT ![i] = time'], [settings_said EXCEPT ![i] = w], w)
  BY <1>3, <1>4, <1>5, SaysLast
<1> QED BY <1>1, <1>2, <1>6

\* Likewise the file of instance i.
LEMMA CopyIsWritten ==
  ASSUME SyncInv, NEW i \in Instance, NEW w \in Values, time' = time + 1,
         w = Missing => newest.value = Missing,
         copies' = [copies EXCEPT ![i] = [at |-> time', value |-> w]]
  PROVE  SaidLast(ats(copies)', values_said', w)
<1>1. ats(copies)' = [ats(copies) EXCEPT ![i] = time']  BY FileTypes DEF ats
<1>2. values_said' = [values_said EXCEPT ![i] = w]  BY FileTypes DEF values_said
<1>3. SaidLast(ats(copies), values_said, newest.value)  BY DEF SyncInv, NewestIsLatest
<1>4. time' \in Nat /\ \A j \in Instance : ats(copies)[j] < time'
  <2>1. \A j \in Instance : ats(copies)[j] \in Nat /\ ats(copies)[j] <= time  BY FileTypes
  <2> QED BY FileTypes, <2>1 DEF At
<1>5. ats(copies) \in [Instance -> Nat] /\ values_said \in [Instance -> Values]  BY FileTypes
<1>6. SaidLast([ats(copies) EXCEPT ![i] = time'], [values_said EXCEPT ![i] = w], w)
  BY <1>3, <1>4, <1>5, SaysLast
<1> QED BY <1>1, <1>2, <1>6

\* What options.txt is combined to says what was said last, and has packs of its own.
LEMMA CombinedIsNewest ==
  ASSUME SyncInv, NEW i \in Instance
  PROVE  /\ create_combined(i).setting = newest.setting
         /\ create_combined(i).setting \in Values /\ create_combined(i).packs \in Values
         /\ options[i].packs # Missing => create_combined(i).packs = options[i].packs
<1> DEFINE saying == {j \in Instance : options[j].setting # Missing}
           said == {j \in Instance : settings_said[j] # Missing}
<1>1. saying = said  BY DEF settings_said
<1>2. SaidLast(ats(options), settings_said, newest.setting)  BY DEF SyncInv, NewestIsLatest
<1>3. fallback.setting \in Values /\ fallback.packs \in Values /\ options[i].packs \in Values
  <2>1. options[i] \in [at : At, setting : Values, packs : Values]  BY FileTypes
  <2> QED BY <2>1, FileTypes
<1>4. CASE saying = {}
  <2>1. newest.setting = Missing /\ fallback.setting = Missing
    BY <1>1, <1>2, <1>4 DEF SaidLast, SyncInv, NewestIsLatest
  <2>2. create_combined(i).setting = Missing  BY <1>4, <2>1 DEF create_combined
  <2> QED BY <1>3, <2>1, <2>2 DEF create_combined
<1>5. CASE saying # {}
  <2>1. Latest(said, options) \in said /\ settings_said[Latest(said, options)] = newest.setting
    BY <1>1, <1>2, <1>5, FileTypes, LatestSaysLast
  <2>2. options[Latest(saying, options)].setting = newest.setting
    BY <1>1, <2>1 DEF settings_said
  <2>3. create_combined(i).setting = newest.setting  BY <1>5, <2>2 DEF create_combined
  <2>4. newest.setting \in Values  BY FileTypes
  <2> QED BY <1>3, <2>3, <2>4 DEF create_combined
<1> QED BY <1>4, <1>5

\* Options of an instance are combined, as far as that succeeds.
LEMMA OptionsAreGiven ==
  ASSUME SyncInv, NEW i \in Instance, combine(i), time' = time + 1, time < MaxTime
  PROVE  /\ options' \in [Instance -> [at : At, setting : Values, packs : Values]]
         /\ fallback' \in [setting : Values, packs : Values]
         /\ SaidLast(ats(options)', settings_said', newest.setting)
         /\ newest.setting = Missing => fallback'.setting = Missing
         /\ \A k \in Instance :
              /\ options[k].packs # Missing => options'[k].packs = options[k].packs
              /\ options'[k].at > options[k].at => options'[k].setting = newest.setting
              /\ options'[k].at <= time'
<1> DEFINE c == create_combined(i)
<1>1. /\ fallback' \in {fallback, c}
      /\ options' \in {options, [options EXCEPT ![i] = [at |-> time', setting |-> c.setting, packs |-> c.packs]]}
  BY DEF combine
<1>2. /\ c.setting = newest.setting /\ c.setting \in Values /\ c.packs \in Values
      /\ options[i].packs # Missing => c.packs = options[i].packs
  BY CombinedIsNewest
<1>3. c \in [setting : Values, packs : Values]  BY <1>2 DEF create_combined
<1> HIDE DEF c
<1>4. time \in Nat /\ time' \in At /\ time' \in Nat  BY FileTypes DEF At
<1>5. ASSUME NEW k \in Instance
      PROVE  /\ options[k] \in [at : At, setting : Values, packs : Values]
             /\ options[k].at \in Nat /\ options[k].at <= time
  <2>1. options[k] \in [at : At, setting : Values, packs : Values]  BY FileTypes
  <2> QED BY <2>1 DEF At, SyncInv, WrittenBefore
<1>6. fallback' \in [setting : Values, packs : Values]  BY <1>1, <1>3, FileTypes
<1>7. newest.setting = Missing => fallback'.setting = Missing
  BY <1>1, <1>2 DEF SyncInv, NewestIsLatest
<1>8. CASE options' = options
  <2>1. SaidLast(ats(options)', settings_said', newest.setting)
    <3>1. ats(options)' = ats(options) /\ settings_said' = settings_said  BY <1>8 DEF ats, settings_said
    <3> QED BY <3>1 DEF SyncInv, NewestIsLatest
  <2>2. \A k \in Instance : ~ (options'[k].at > options[k].at) /\ options'[k].at <= time'
    BY <1>4, <1>5, <1>8
  <2> QED BY <1>6, <1>7, <1>8, <2>1, <2>2, FileTypes
<1>9. CASE options' = [options EXCEPT ![i] = [at |-> time', setting |-> c.setting, packs |-> c.packs]]
  <2>1. SaidLast(ats(options)', settings_said', newest.setting)
    <3>1. SaidLast(ats(options)', settings_said', c.setting)  BY <1>2, <1>9, OptionsAreWritten
    <3> QED BY <1>2, <3>1
  <2>2. options' \in [Instance -> [at : At, setting : Values, packs : Values]]
    BY <1>2, <1>4, <1>9, FileTypes
  <2>3. ASSUME NEW k \in Instance
        PROVE  /\ options[k].packs # Missing => options'[k].packs = options[k].packs
               /\ options'[k].at > options[k].at => options'[k].setting = newest.setting
               /\ options'[k].at <= time'
    <3>1. CASE k = i
      <4>1. options'[k].at = time' /\ options'[k].setting = c.setting /\ options'[k].packs = c.packs
        BY <1>9, <3>1, FileTypes
      <4> QED BY <1>2, <1>4, <3>1, <4>1
    <3>2. CASE k # i
      <4>1. options'[k] = options[k]  BY <1>9, <3>2, FileTypes
      <4> QED BY <1>4, <1>5, <4>1
    <3> QED BY <3>1, <3>2
  <2> QED BY <1>6, <1>7, <2>1, <2>2, <2>3
<1> QED BY <1>1, <1>8, <1>9

\* The file of an instance is copied, in part or not at all.
LEMMA CopyIsGiven ==
  ASSUME SyncInv, NEW i \in Instance, copy(i), time' = time + 1, time < MaxTime
  PROVE  /\ copies' \in [Instance -> [at : At, value : Values]]
         /\ newest' \in [value : Values, setting : Values] /\ newest'.setting = newest.setting
         /\ SaidLast(ats(copies)', values_said', newest'.value)
         /\ \A k \in Instance :
              /\ copies'[k].at > copies[k].at => copies'[k].value = newest'.value
              /\ copies'[k].at <= time'
<1> DEFINE having == {j \in Instance : copies[j].value # Missing}
           given == copies[Latest(having, copies)].value
           Becomes(value) == copies' = [copies EXCEPT ![i] = [at |-> time', value |-> value]]
<1>1. \/ UNCHANGED <<copies, newest>>
      \/ having # {} /\ Becomes(given) /\ UNCHANGED newest
      \/ Becomes(Cut) /\ newest' = [newest EXCEPT !.value = Cut]
  BY DEF copy
<1>2. time \in Nat /\ time' \in At /\ time' \in Nat  BY FileTypes DEF At
<1>3. ASSUME NEW k \in Instance
      PROVE  copies[k] \in [at : At, value : Values] /\ copies[k].at \in Nat /\ copies[k].at <= time
  <2>1. copies[k] \in [at : At, value : Values]  BY FileTypes
  <2> QED BY <2>1 DEF At, SyncInv, WrittenBefore
<1>4. CASE UNCHANGED <<copies, newest>>
  <2>1. SaidLast(ats(copies)', values_said', newest'.value)
    <3>1. ats(copies)' = ats(copies) /\ values_said' = values_said  BY <1>4 DEF ats, values_said
    <3> QED BY <1>4, <3>1 DEF SyncInv, NewestIsLatest
  <2>2. \A k \in Instance : ~ (copies'[k].at > copies[k].at) /\ copies'[k].at <= time'
    BY <1>2, <1>3, <1>4
  <2> QED BY <1>4, <2>1, <2>2, FileTypes
<1>5. ASSUME NEW w \in Values, Becomes(w), w = Missing => newest.value = Missing,
             newest' \in [value : Values, setting : Values], newest'.value = w, newest'.setting = newest.setting
      PROVE  /\ copies' \in [Instance -> [at : At, value : Values]]
             /\ SaidLast(ats(copies)', values_said', newest'.value)
             /\ \A k \in Instance :
                  /\ copies'[k].at > copies[k].at => copies'[k].value = newest'.value
                  /\ copies'[k].at <= time'
  <2>0. copies' = [copies EXCEPT ![i] = [at |-> time', value |-> w]]  BY <1>5
  <2>1. copies' \in [Instance -> [at : At, value : Values]]  BY <1>2, <2>0, FileTypes
  <2>2. SaidLast(ats(copies)', values_said', newest'.value)
    <3>1. SaidLast(ats(copies)', values_said', w)  BY <1>5, <2>0, CopyIsWritten
    <3> QED BY <1>5, <3>1
  <2>3. ASSUME NEW k \in Instance
        PROVE  (copies'[k].at > copies[k].at => copies'[k].value = newest'.value) /\ copies'[k].at <= time'
    <3>1. CASE k = i
      <4>1. copies'[k].at = time' /\ copies'[k].value = w  BY <2>0, <3>1, FileTypes
      <4> QED BY <1>2, <1>5, <4>1
    <3>2. CASE k # i
      <4>1. copies'[k] = copies[k]  BY <2>0, <3>2, FileTypes
      <4> QED BY <1>2, <1>3, <4>1
    <3> QED BY <3>1, <3>2
  <2> QED BY <2>1, <2>2, <2>3
<1>6. CASE having # {} /\ Becomes(given) /\ UNCHANGED newest
  <2> DEFINE said == {j \in Instance : values_said[j] # Missing}
  <2>1. having = said  BY DEF values_said
  <2>2. SaidLast(ats(copies), values_said, newest.value)  BY DEF SyncInv, NewestIsLatest
  <2>3. Latest(said, copies) \in said /\ values_said[Latest(said, copies)] = newest.value
    BY <1>6, <2>1, <2>2, FileTypes, LatestSaysLast
  <2>4. given = newest.value  BY <2>1, <2>3 DEF values_said
  <2>5. Becomes(newest.value)  BY <1>6, <2>4
  <2> HIDE DEF Becomes, given, having
  <2> QED BY <1>5, <1>6, <2>5, FileTypes
<1>7. CASE Becomes(Cut) /\ newest' = [newest EXCEPT !.value = Cut]
  <2>1. Cut \in Values /\ Cut # Missing  BY SyncAssumption DEF Values
  <2>2. newest' \in [value : Values, setting : Values] /\ newest'.value = Cut /\ newest'.setting = newest.setting
    BY <1>7, <2>1, FileTypes
  <2> HIDE DEF Becomes
  <2> QED BY <1>5, <1>7, <2>1, <2>2
<1> HIDE DEF having, given, Becomes
<1> QED BY <1>1, <1>4, <1>6, <1>7

\* What an instance is given when files are synced.
LEMMA FilesAreGiven ==
  ASSUME SyncInv, NEW i \in Instance, NEW disable, apply_files(i, disable)
  PROVE  /\ copies' \in [Instance -> [at : At, value : Values]]
         /\ options' \in [Instance -> [at : At, setting : Values, packs : Values]]
         /\ fallback' \in [setting : Values, packs : Values]
         /\ newest' \in [value : Values, setting : Values] /\ time' \in At
         /\ NewestIsLatest' /\ WrittenBefore'
         /\ \A k \in Instance :
              /\ options[k].packs # Missing => options'[k].packs = options[k].packs
              /\ options'[k].at > options[k].at => options'[k].setting = newest'.setting
              /\ copies'[k].at > copies[k].at => copies'[k].value = newest'.value
<1>1. CASE ~files \/ disable
  <2>1. UNCHANGED <<copies, options, fallback, newest, time>>  BY <1>1 DEF apply_files, copying
  <2>2. ASSUME NEW k \in Instance PROVE ~ (options'[k].at > options[k].at) /\ ~ (copies'[k].at > copies[k].at)
    <3>1. options[k] \in [at : At, setting : Values, packs : Values] /\ copies[k] \in [at : At, value : Values]
      BY FileTypes
    <3> QED BY <2>1, <3>1 DEF At
  <2> QED BY <2>1, <2>2, FileTypes, NothingIsWritten
<1>2. CASE ~ (~files \/ disable)
  <2>1. time < MaxTime /\ time' = time + 1 /\ combine(i) /\ copy(i)  BY <1>2 DEF apply_files
  <2>2. /\ options' \in [Instance -> [at : At, setting : Values, packs : Values]]
        /\ fallback' \in [setting : Values, packs : Values]
        /\ SaidLast(ats(options)', settings_said', newest.setting)
        /\ newest.setting = Missing => fallback'.setting = Missing
        /\ \A k \in Instance :
             /\ options[k].packs # Missing => options'[k].packs = options[k].packs
             /\ options'[k].at > options[k].at => options'[k].setting = newest.setting
             /\ options'[k].at <= time'
    BY <2>1, OptionsAreGiven
  <2>3. /\ copies' \in [Instance -> [at : At, value : Values]]
        /\ newest' \in [value : Values, setting : Values] /\ newest'.setting = newest.setting
        /\ SaidLast(ats(copies)', values_said', newest'.value)
        /\ \A k \in Instance :
             /\ copies'[k].at > copies[k].at => copies'[k].value = newest'.value
             /\ copies'[k].at <= time'
    BY <2>1, CopyIsGiven
  <2>4. time' \in At  BY <2>1, FileTypes DEF At
  <2>5. NewestIsLatest' /\ WrittenBefore'  BY <2>2, <2>3 DEF NewestIsLatest, WrittenBefore
  <2> QED BY <2>2, <2>3, <2>4, <2>5
<1> QED BY <1>1, <1>2
-----------------------------------------------------------------------------
(* Folders. *)

Nodes == {Missing, Shared} \cup SUBSET Item
FolderTypes ==
  /\ folder \in [Instance -> [Folder -> Nodes]]
  /\ shared \in [Folder -> {Missing} \cup SUBSET Item]
  /\ folders \subseteq Folder
  /\ strayed \subseteq Instance \X Folder

\* Nothing in a folder is taken, here or shared.
FoldersAreKept ==
  /\ \A i \in Instance, f \in Folder : Occupied(folder[i][f]) => folder'[i][f] = folder[i][f]
  /\ \A f \in Folder : shared[f] # Missing => shared'[f] = shared[f]

\* A launch, or a switch of the instance.
LEMMA InstanceIsLinked ==
  ASSUME SyncInv, NEW i \in Instance, NEW disable, apply_to_instance(i, disable),
         disable <=> i \in off', \A k \in Instance : k # i => (k \in off' <=> k \in off)
  PROVE  FolderTypes' /\ SyncedIsLinked' /\ FoldersAreKept
<1> DEFINE wanted == Targets(disable)
<1>1. /\ folder \in [Instance -> [Folder -> Nodes]]
      /\ shared \in [Folder -> {Missing} \cup SUBSET Item]
      /\ folders \subseteq Folder /\ strayed \subseteq Instance \X Folder /\ SyncedIsLinked
      /\ Missing # Shared
  BY SyncAssumption DEF SyncInv, SyncType, Nodes
<1>2. wanted \subseteq Folder /\ wanted = Targets(i \in off')  BY <1>1 DEF Targets
<1>3. PICK failing \in SUBSET (ToLink(i, wanted) \cup ToUnlink(i, wanted)), gone \in SUBSET wanted :
        /\ gone \subseteq failing
        /\ folder' = [folder EXCEPT ![i] = Linked(i, wanted, failing, gone)]
        /\ strayed' = (strayed \ ({i} \X Folder)) \cup ({i} \X failing)
  BY DEF apply_to_instance
<1>4. PICK made \in SUBSET {f \in wanted : ~Occupied(folder[i][f]) /\ shared[f] = Missing} :
        shared' = [f \in Folder |-> IF f \in made THEN {} ELSE shared[f]]
  BY DEF apply_to_instance
<1>10. folders' = folders  BY DEF apply_to_instance
<1> HIDE DEF wanted
<1> DEFINE linked == Linked(i, wanted, failing, gone)
<1>11. failing \subseteq Folder /\ gone \subseteq failing /\ gone \subseteq ToLink(i, wanted)
  BY <1>2, <1>3 DEF ToLink, ToUnlink
<1>5. ASSUME NEW f \in Folder
      PROVE  /\ folder'[i][f] = linked[f]
             /\ linked[f] \in Nodes
             /\ Occupied(folder[i][f]) => folder'[i][f] = folder[i][f]
             /\ f \notin failing =>
                  IF f \in wanted THEN folder'[i][f] = Shared \/ Occupied(folder'[i][f])
                  ELSE folder'[i][f] # Shared
  <2>1. folder'[i] = linked  BY <1>1, <1>3
  <2>2. linked[f] = IF f \in ToLink(i, wanted) \ failing THEN Shared
                    ELSE IF f \in (ToUnlink(i, wanted) \ failing) \cup gone THEN Missing
                    ELSE folder[i][f]
    BY DEF Linked
  <2>3. folder[i][f] \in Nodes /\ Missing \in Nodes /\ Shared \in Nodes  BY <1>1 DEF Nodes
  <2>4. Occupied(folder[i][f]) => folder[i][f] # Shared  BY DEF Occupied, IsDir
  <2>5. f \in ToLink(i, wanted) <=> f \in wanted /\ folder[i][f] # Shared /\ ~Occupied(folder[i][f])
    BY DEF ToLink
  <2>6. f \in ToUnlink(i, wanted) <=> f \notin wanted /\ folder[i][f] = Shared  BY DEF ToUnlink
  <2> HIDE DEF linked
  <2>7. Occupied(folder[i][f]) => folder'[i][f] = folder[i][f]
    <3> SUFFICES ASSUME Occupied(folder[i][f]) PROVE folder'[i][f] = folder[i][f]  OBVIOUS
    <3>1. f \notin ToLink(i, wanted) /\ f \notin ToUnlink(i, wanted) /\ f \notin gone
      BY <1>11, <2>4, <2>5, <2>6
    <3> QED BY <2>1, <2>2, <3>1
  <2>8. f \notin failing =>
          IF f \in wanted THEN folder'[i][f] = Shared \/ Occupied(folder'[i][f])
          ELSE folder'[i][f] # Shared
    <3> SUFFICES ASSUME f \notin failing
                 PROVE  IF f \in wanted THEN folder'[i][f] = Shared \/ Occupied(folder'[i][f])
                        ELSE folder'[i][f] # Shared
      OBVIOUS
    <3>1. CASE f \in wanted /\ Occupied(folder[i][f])
      BY <2>7, <3>1
    <3>2. CASE f \in wanted /\ ~Occupied(folder[i][f])
      <4>1. f \in ToLink(i, wanted) \/ folder[i][f] = Shared  BY <2>5, <3>2
      <4>2. f \notin gone /\ f \notin ToUnlink(i, wanted)  BY <1>11, <2>6, <3>2
      <4> QED BY <2>1, <2>2, <3>2, <4>1, <4>2
    <3>3. CASE f \notin wanted
      <4>1. f \notin ToLink(i, wanted)  BY <2>5, <3>3
      <4> QED BY <1>1, <2>1, <2>2, <2>6, <3>3, <4>1
    <3> QED BY <3>1, <3>2, <3>3
  <2>9. linked[f] \in Nodes  BY <2>2, <2>3
  <2> QED BY <2>1, <2>7, <2>8, <2>9
<1>6. \A k \in Instance : k # i => folder'[k] = folder[k]  BY <1>1, <1>3
<1>7. FolderTypes'
  <2>1. folder' \in [Instance -> [Folder -> Nodes]]
    <3>1. linked = [f \in Folder |-> linked[f]]  BY DEF Linked
    <3>2. linked \in [Folder -> Nodes]  BY <1>5, <3>1
    <3> QED BY <1>1, <1>3, <3>2
  <2>2. shared' \in [Folder -> {Missing} \cup SUBSET Item]
    <3>1. {} \in SUBSET Item /\ \A f \in Folder : shared[f] \in {Missing} \cup SUBSET Item  BY <1>1
    <3> QED BY <1>4, <3>1
  <2>3. strayed' \subseteq Instance \X Folder  BY <1>1, <1>3, <1>11
  <2> QED BY <1>1, <1>10, <2>1, <2>2, <2>3 DEF FolderTypes, Nodes
<1>8. SyncedIsLinked'
  <2> SUFFICES ASSUME NEW k \in Instance, NEW f \in Folder, <<k, f>> \notin strayed'
               PROVE  IF f \in Targets(k \in off)' THEN folder'[k][f] = Shared \/ Occupied(folder'[k][f])
                      ELSE folder'[k][f] # Shared
    BY DEF SyncedIsLinked, Occupied, IsDir
  <2>1. CASE k = i
    <3>1. f \notin failing  BY <1>3, <2>1
    <3>2. f \in wanted <=> f \in Targets(k \in off)'  BY <1>2, <1>10, <2>1 DEF Targets
    <3> QED BY <1>5, <2>1, <3>1, <3>2
  <2>2. CASE k # i
    <3>1. <<k, f>> \notin strayed  BY <1>3, <2>2
    <3>2. f \in Targets(k \in off)' <=> f \in Targets(k \in off)  BY <1>10, <2>2 DEF Targets
    <3>3. folder'[k][f] = folder[k][f]  BY <1>6, <2>2
    <3> QED BY <1>1, <3>1, <3>2, <3>3 DEF SyncedIsLinked
  <2> QED BY <2>1, <2>2
<1>9. FoldersAreKept  BY <1>4, <1>5, <1>6 DEF FoldersAreKept
<1> QED BY <1>7, <1>8, <1>9

\* A folder is synced in all instances.
LEMMA AllAreEnabled ==
  ASSUME SyncInv, NEW f \in Folder, enable_all(f), off' = off
  PROVE  FolderTypes' /\ SyncedIsLinked' /\ FoldersAreKept
<1> DEFINE todo == {i \in Instance \ off : folder[i][f] # Shared}
           Become(linked, gone) ==
             folder' = [i \in Instance |-> [folder[i] EXCEPT ![f] =
                          IF i \in linked THEN Shared ELSE IF i \in gone THEN Missing ELSE @]]
<1>1. /\ folder \in [Instance -> [Folder -> Nodes]]
      /\ shared \in [Folder -> {Missing} \cup SUBSET Item]
      /\ folders \subseteq Folder /\ strayed \subseteq Instance \X Folder /\ SyncedIsLinked
      /\ Missing # Shared /\ Missing \in Nodes /\ Shared \in Nodes
  BY SyncAssumption DEF SyncInv, SyncType, Nodes
<1>2. ASSUME NEW linked, NEW gone, Become(linked, gone)
      PROVE  /\ folder' \in [Instance -> [Folder -> Nodes]]
             /\ \A i \in Instance : \A g \in Folder : g # f => folder'[i][g] = folder[i][g]
             /\ \A i \in Instance : folder'[i][f] =
                  IF i \in linked THEN Shared ELSE IF i \in gone THEN Missing ELSE folder[i][f]
  <2>1. \A i \in Instance : folder[i] \in [Folder -> Nodes]  BY <1>1
  <2>2. \A i \in Instance : folder'[i] = [folder[i] EXCEPT ![f] =
          IF i \in linked THEN Shared ELSE IF i \in gone THEN Missing ELSE folder[i][f]]
    BY <1>2
  <2>3. \A i \in Instance : folder'[i] \in [Folder -> Nodes]
    <3> SUFFICES ASSUME NEW i \in Instance PROVE folder'[i] \in [Folder -> Nodes]  OBVIOUS
    <3>1. folder[i] \in [Folder -> Nodes] /\ folder[i][f] \in Nodes  BY <2>1
    <3>2. PICK v \in Nodes : folder'[i] = [folder[i] EXCEPT ![f] = v]
      <4> DEFINE v == IF i \in linked THEN Shared ELSE IF i \in gone THEN Missing ELSE folder[i][f]
      <4>1. v \in Nodes  BY <1>1, <3>1
      <4>2. folder'[i] = [folder[i] EXCEPT ![f] = v]  BY <2>2
      <4> HIDE DEF v
      <4> QED BY <4>1, <4>2
    <3> QED BY <3>1, <3>2
  <2>4. folder' = [i \in Instance |-> folder'[i]]  BY <1>2
  <2>5. folder' \in [Instance -> [Folder -> Nodes]]  BY <2>3, <2>4
  <2> QED BY <2>1, <2>2, <2>5
<1>3. CASE /\ \E gone \in SUBSET {i \in todo : ~Occupied(folder[i][f])} : Become({}, gone)
           /\ UNCHANGED <<shared, folders, strayed>>
  <2>1. PICK gone \in SUBSET {i \in todo : ~Occupied(folder[i][f])} : Become({}, gone)
    BY <1>3
  <2>2. UNCHANGED <<shared, folders, strayed>>  BY <1>3
  <2>3. /\ folder' \in [Instance -> [Folder -> Nodes]]
        /\ \A i \in Instance : \A g \in Folder : g # f => folder'[i][g] = folder[i][g]
        /\ \A i \in Instance : folder'[i][f] = IF i \in gone THEN Missing ELSE folder[i][f]
    <3> HIDE DEF Become
    <3>1. \A i \in Instance : folder'[i][f] =
            IF i \in {} THEN Shared ELSE IF i \in gone THEN Missing ELSE folder[i][f]
      BY <1>2, <2>1
    <3> QED BY <1>2, <2>1, <3>1
  <2> HIDE DEF Become
  <2>4. FolderTypes'  BY <1>1, <2>2, <2>3 DEF FolderTypes, Nodes
  <2>5. FoldersAreKept
    <3>1. \A i \in gone : ~Occupied(folder[i][f])  BY <2>1
    <3> QED BY <2>2, <2>3, <3>1 DEF FoldersAreKept
  <2>6. SyncedIsLinked'
    <3> SUFFICES ASSUME NEW k \in Instance, NEW g \in Folder, <<k, g>> \notin strayed
                 PROVE  IF g \in Targets(k \in off) THEN folder'[k][g] = Shared \/ Occupied(folder'[k][g])
                        ELSE folder'[k][g] # Shared
      BY <2>2 DEF SyncedIsLinked, Occupied, IsDir, Targets
    <3>1. IF g \in Targets(k \in off) THEN folder[k][g] = Shared \/ Occupied(folder[k][g])
          ELSE folder[k][g] # Shared
      BY <1>1 DEF SyncedIsLinked
    <3>2. CASE g = f /\ k \in gone
      <4>1. ~Occupied(folder[k][f]) /\ folder[k][f] # Shared  BY <2>1, <3>2
      <4> QED BY <1>1, <2>3, <3>1, <3>2, <4>1
    <3>3. CASE ~ (g = f /\ k \in gone)
      <4>1. folder'[k][g] = folder[k][g]  BY <2>3, <3>3
      <4> QED BY <3>1, <4>1
    <3> QED BY <3>2, <3>3
  <2> QED BY <2>4, <2>5, <2>6
<1>4. CASE /\ \A i \in todo : ~Occupied(folder[i][f])
           /\ \E linked \in SUBSET todo :
                /\ Become(linked, todo)
                /\ folders' = IF linked = todo THEN folders \cup {f} ELSE folders
                /\ strayed' = IF linked = todo THEN strayed \ ((Instance \ off) \X {f})
                              ELSE strayed \cup (todo \X {f})
           /\ shared' = [shared EXCEPT ![f] = IF @ = Missing THEN {} ELSE @]
  <2>1. PICK linked \in SUBSET todo :
          /\ Become(linked, todo)
          /\ folders' = IF linked = todo THEN folders \cup {f} ELSE folders
          /\ strayed' = IF linked = todo THEN strayed \ ((Instance \ off) \X {f})
                        ELSE strayed \cup (todo \X {f})
    BY <1>4
  <2>2. shared' = [shared EXCEPT ![f] = IF shared[f] = Missing THEN {} ELSE shared[f]]
    BY <1>4
  <2>3. /\ folder' \in [Instance -> [Folder -> Nodes]]
        /\ \A i \in Instance : \A g \in Folder : g # f => folder'[i][g] = folder[i][g]
        /\ \A i \in Instance : folder'[i][f] =
             IF i \in linked THEN Shared ELSE IF i \in todo THEN Missing ELSE folder[i][f]
    <3> HIDE DEF Become, todo
    <3> QED BY <1>2, <2>1
  <2> HIDE DEF Become
  <2>4. FolderTypes'
    <3>1. shared' \in [Folder -> {Missing} \cup SUBSET Item]  BY <1>1, <2>2
    <3>2. folders' \subseteq Folder /\ strayed' \subseteq Instance \X Folder  BY <1>1, <2>1
    <3> QED BY <2>3, <3>1, <3>2 DEF FolderTypes, Nodes
  <2>5. FoldersAreKept  BY <1>1, <1>4, <2>1, <2>2, <2>3 DEF FoldersAreKept
  <2>6. SyncedIsLinked'
    <3> SUFFICES ASSUME NEW k \in Instance, NEW g \in Folder, <<k, g>> \notin strayed'
                 PROVE  IF g \in Targets(k \in off)' THEN folder'[k][g] = Shared \/ Occupied(folder'[k][g])
                        ELSE folder'[k][g] # Shared
      BY DEF SyncedIsLinked, Occupied, IsDir
    <3>0. g \in Targets(k \in off)' <=> g \in folders' /\ k \notin off  BY DEF Targets
    <3>1. <<k, g>> \notin strayed =>
            IF g \in folders /\ k \notin off THEN folder[k][g] = Shared \/ Occupied(folder[k][g])
            ELSE folder[k][g] # Shared
      BY <1>1 DEF SyncedIsLinked, Targets
    <3>2. CASE g # f
      <4>1. <<k, g>> \notin strayed /\ (g \in folders' <=> g \in folders) /\ folder'[k][g] = folder[k][g]
        BY <2>1, <2>3, <3>2
      <4> QED BY <3>0, <3>1, <4>1
    <3>3. CASE g = f /\ linked = todo
      <4>1. g \in folders'  BY <2>1, <3>3
      <4>2. CASE k \in off
        <5>1. <<k, g>> \notin strayed /\ k \notin todo  BY <2>1, <3>3, <4>2
        <5>2. folder'[k][g] = folder[k][g]  BY <2>3, <3>3, <5>1
        <5> QED BY <3>0, <3>1, <4>2, <5>1, <5>2
      <4>3. CASE k \notin off
        <5>1. folder'[k][f] = Shared  BY <2>3, <3>3, <4>3
        <5> QED BY <3>0, <3>3, <4>1, <4>3, <5>1
      <4> QED BY <4>2, <4>3
    <3>4. CASE g = f /\ linked # todo
      <4>1. <<k, g>> \notin strayed /\ k \notin todo /\ folders' = folders  BY <2>1, <3>4
      <4>2. folder'[k][g] = folder[k][g]  BY <2>1, <2>3, <3>4, <4>1
      <4> QED BY <3>0, <3>1, <4>1, <4>2
    <3> QED BY <3>2, <3>3, <3>4
  <2> QED BY <2>4, <2>5, <2>6
<1> QED BY <1>3, <1>4 DEF enable_all

\* A folder is no longer synced.
LEMMA AllAreDisabled ==
  ASSUME SyncInv, NEW f \in Folder, disable_all(f), off' = off
  PROVE  FolderTypes' /\ SyncedIsLinked' /\ FoldersAreKept
<1> DEFINE todo == {i \in Instance : folder[i][f] = Shared}
<1>1. /\ folder \in [Instance -> [Folder -> Nodes]]
      /\ shared \in [Folder -> {Missing} \cup SUBSET Item]
      /\ folders \subseteq Folder /\ strayed \subseteq Instance \X Folder /\ SyncedIsLinked
      /\ Missing # Shared /\ Missing \in Nodes
  BY SyncAssumption DEF SyncInv, SyncType, Nodes
<1>2. PICK done \in SUBSET todo :
        /\ folder' = [i \in Instance |-> [folder[i] EXCEPT ![f] = IF i \in done THEN Missing ELSE folder[i][f]]]
        /\ folders' = IF done = todo THEN folders \ {f} ELSE folders
        /\ strayed' = IF done = todo THEN strayed \ (Instance \X {f}) ELSE strayed \cup (todo \X {f})
  BY DEF disable_all
<1>3. shared' = shared  BY DEF disable_all
<1>4. /\ folder' \in [Instance -> [Folder -> Nodes]]
      /\ \A i \in Instance : \A g \in Folder : g # f => folder'[i][g] = folder[i][g]
      /\ \A i \in Instance : folder'[i][f] = IF i \in done THEN Missing ELSE folder[i][f]
  <2>1. \A i \in Instance : folder[i] \in [Folder -> Nodes]  BY <1>1
  <2>2. \A i \in Instance : folder'[i] = [folder[i] EXCEPT ![f] = IF i \in done THEN Missing ELSE folder[i][f]]
    BY <1>2
  <2>3. \A i \in Instance : folder'[i] \in [Folder -> Nodes]
    <3> SUFFICES ASSUME NEW i \in Instance PROVE folder'[i] \in [Folder -> Nodes]  OBVIOUS
    <3>1. folder[i] \in [Folder -> Nodes] /\ folder[i][f] \in Nodes  BY <2>1
    <3>2. PICK v \in Nodes : folder'[i] = [folder[i] EXCEPT ![f] = v]
      <4> DEFINE v == IF i \in done THEN Missing ELSE folder[i][f]
      <4>1. v \in Nodes  BY <1>1, <3>1
      <4>2. folder'[i] = [folder[i] EXCEPT ![f] = v]  BY <2>2
      <4> HIDE DEF v
      <4> QED BY <4>1, <4>2
    <3> QED BY <3>1, <3>2
  <2>4. folder' = [i \in Instance |-> folder'[i]]  BY <1>2
  <2>5. folder' \in [Instance -> [Folder -> Nodes]]  BY <2>3, <2>4
  <2> QED BY <2>1, <2>2, <2>5
<1>5. FolderTypes'
  <2>1. folders' \subseteq Folder /\ strayed' \subseteq Instance \X Folder  BY <1>1, <1>2
  <2> QED BY <1>1, <1>3, <1>4, <2>1 DEF FolderTypes, Nodes
<1>6. FoldersAreKept
  <2>1. \A i \in done : ~Occupied(folder[i][f])  BY <1>2 DEF Occupied, IsDir
  <2> QED BY <1>3, <1>4, <2>1 DEF FoldersAreKept
<1>7. SyncedIsLinked'
  <2> SUFFICES ASSUME NEW k \in Instance, NEW g \in Folder, <<k, g>> \notin strayed'
               PROVE  IF g \in Targets(k \in off)' THEN folder'[k][g] = Shared \/ Occupied(folder'[k][g])
                      ELSE folder'[k][g] # Shared
    BY DEF SyncedIsLinked, Occupied, IsDir
  <2>0. g \in Targets(k \in off)' <=> g \in folders' /\ k \notin off  BY DEF Targets
  <2>1. <<k, g>> \notin strayed =>
          IF g \in folders /\ k \notin off THEN folder[k][g] = Shared \/ Occupied(folder[k][g])
          ELSE folder[k][g] # Shared
    BY <1>1 DEF SyncedIsLinked, Targets
  <2>2. CASE g # f
    <3>1. <<k, g>> \notin strayed /\ (g \in folders' <=> g \in folders) /\ folder'[k][g] = folder[k][g]
      BY <1>2, <1>4, <2>2
    <3> QED BY <2>0, <2>1, <3>1
  <2>3. CASE g = f /\ done = todo
    <3>1. g \notin folders' /\ folder'[k][f] # Shared  BY <1>1, <1>2, <1>4, <2>3
    <3> QED BY <2>0, <2>3, <3>1
  <2>4. CASE g = f /\ done # todo
    <3>1. <<k, g>> \notin strayed /\ k \notin todo /\ folders' = folders  BY <1>2, <2>4
    <3>2. folder'[k][g] = folder[k][g]  BY <1>2, <1>4, <2>4, <3>1
    <3> QED BY <2>0, <2>1, <3>1, <3>2
  <2> QED BY <2>2, <2>3, <2>4
<1> QED BY <1>5, <1>6, <1>7
-----------------------------------------------------------------------------
(* All steps. *)

\* What a step of the launcher does not take.
Kind ==
  /\ work' = work => FoldersAreKept /\ \A i \in Instance :
       options[i].packs # Missing => options'[i].packs = options[i].packs
  /\ \A i \in Instance :
       /\ options'[i].at > options[i].at => options'[i].setting = newest'.setting
       /\ copies'[i].at > copies[i].at => copies'[i].value = newest'.value

FilesKept ==
  /\ UNCHANGED copying
  /\ \A i \in Instance : ~ (options'[i].at > options[i].at) /\ ~ (copies'[i].at > copies[i].at)

LEMMA CopyingUnchanged == ASSUME SyncInv, UNCHANGED copying PROVE FilesKept
<1> SUFFICES ASSUME NEW i \in Instance PROVE ~ (options'[i].at > options[i].at) /\ ~ (copies'[i].at > copies[i].at)
  BY DEF FilesKept
<1>1. options[i] \in [at : At, setting : Values, packs : Values] /\ copies[i] \in [at : At, value : Values]
  BY FileTypes
<1> QED BY <1>1 DEF At, copying

\* The folders of one instance, or what is synced, change, and no files do.
LEMMA FoldersChange ==
  ASSUME SyncInv, UNCHANGED copying, FolderTypes', SyncedIsLinked', files' \in BOOLEAN, off' \subseteq Instance,
         work' \in 0 .. MaxWork, work' = work => FoldersAreKept
  PROVE  SyncInv' /\ Kind
<1>1. FilesKept  BY CopyingUnchanged
<1>2. NewestIsLatest' /\ WrittenBefore'  BY NothingIsWritten DEF copying
<1>3. SyncType'
  BY FileTypes DEF SyncType, FolderTypes, Nodes, copying
<1>4. Kind  BY <1>1 DEF Kind, FilesKept, copying
<1> QED BY <1>2, <1>3, <1>4 DEF SyncInv

\* The launcher prepares a launch, or switches an instance.
LEMMA LauncherApplies ==
  ASSUME SyncInv, NEW i \in Instance, Launch(i) \/ SetInstanceDisableFileSyncing(i)
  PROVE  SyncInv' /\ Kind
<1>1. PICK disable :
        /\ apply_to_instance(i, disable) /\ (disable <=> i \in off')
        /\ \A k \in Instance : k # i => (k \in off' <=> k \in off)
  <2>1. CASE Launch(i)
    <3>1. apply_to_instance(i, i \in off) /\ off' = off  BY <2>1 DEF Launch
    <3>2. i \in off <=> i \in off'  BY <3>1
    <3> QED BY <3>1, <3>2, Zenon
  <2>2. CASE SetInstanceDisableFileSyncing(i)
    <3>1. apply_to_instance(i, i \notin off) /\ off' = IF i \in off THEN off \ {i} ELSE off \cup {i}
      BY <2>2, Zenon DEF SetInstanceDisableFileSyncing
    <3>2. i \notin off <=> i \in off'  BY <3>1
    <3>3. \A k \in Instance : k # i => (k \in off' <=> k \in off)  BY <3>1
    <3> QED BY <3>1, <3>2, <3>3, Zenon
  <2> QED BY <2>1, <2>2
<1>2. UNCHANGED <<files, work>> /\ off' \subseteq Instance /\ files \in BOOLEAN /\ work \in 0 .. MaxWork
  BY DEF Launch, SetInstanceDisableFileSyncing, SyncInv, SyncType
<1>3. FolderTypes' /\ SyncedIsLinked' /\ FoldersAreKept  BY <1>1, InstanceIsLinked
<1>4. apply_files(i, disable)  BY <1>1 DEF apply_to_instance
<1>5. /\ copies' \in [Instance -> [at : At, value : Values]]
      /\ options' \in [Instance -> [at : At, setting : Values, packs : Values]]
      /\ fallback' \in [setting : Values, packs : Values]
      /\ newest' \in [value : Values, setting : Values] /\ time' \in At
      /\ NewestIsLatest' /\ WrittenBefore'
      /\ \A k \in Instance :
           /\ options[k].packs # Missing => options'[k].packs = options[k].packs
           /\ options'[k].at > options[k].at => options'[k].setting = newest'.setting
           /\ copies'[k].at > copies[k].at => copies'[k].value = newest'.value
  BY <1>4, FilesAreGiven
<1>6. SyncType'  BY <1>2, <1>3, <1>5, FileTypes DEF SyncType, FolderTypes, Nodes
<1>7. Kind  BY <1>2, <1>3, <1>5 DEF Kind
<1> QED BY <1>3, <1>5, <1>6, <1>7 DEF SyncInv

\* What is synced is set.
LEMMA SettingApplies == ASSUME SyncInv, SetSyncing PROVE SyncInv' /\ Kind
<1>0. files \in BOOLEAN /\ off \subseteq Instance /\ work \in 0 .. MaxWork  BY DEF SyncInv, SyncType
<1>1. CASE UNCHANGED <<copying, files, off, work>> /\ \E f \in Folder : enable_all(f) \/ disable_all(f)
  <2>1. PICK f \in Folder : enable_all(f) \/ disable_all(f)  BY <1>1
  <2>2. UNCHANGED copying /\ files' \in BOOLEAN /\ off' = off /\ off' \subseteq Instance
          /\ work' = work /\ work' \in 0 .. MaxWork
    BY <1>0, <1>1
  <2>3. FolderTypes' /\ SyncedIsLinked' /\ FoldersAreKept  BY <2>1, <2>2, AllAreEnabled, AllAreDisabled
  <2> QED BY <2>2, <2>3, FoldersChange
<1>2. CASE files' = ~files /\ UNCHANGED <<folding, copying, off, work>>
  <2>1. UNCHANGED <<folder, shared, folders, strayed, copying, off, work>>  BY <1>2 DEF folding
  <2>2. FolderTypes'  BY <2>1 DEF FolderTypes, SyncInv, SyncType, Nodes
  <2>3. SyncedIsLinked'  BY <2>1 DEF SyncedIsLinked, Targets, Occupied, IsDir, SyncInv
  <2>4. FoldersAreKept  BY <2>1 DEF FoldersAreKept
  <2>5. files' \in BOOLEAN  BY <1>2, Zenon
  <2> QED BY <1>0, <2>1, <2>2, <2>3, <2>4, <2>5, FoldersChange
<1> QED BY <1>1, <1>2 DEF SetSyncing

\* A game writes into a folder, or the user removes one: what is not theirs stays linked.
LEMMA FoldersAreUsed ==
  ASSUME SyncInv,
         \/ \E i \in Instance, f \in Folder : Clear(i, f) \/ \E item \in Item : WriteItem(i, f, item)
         \/ \E f \in Folder : ClearShared(f)
  PROVE  SyncInv' /\ Kind
<1>0. /\ files \in BOOLEAN /\ off \subseteq Instance /\ work \in 0 .. MaxWork /\ MaxWork \in Nat
      /\ FolderTypes /\ SyncedIsLinked /\ Missing \in Nodes
  BY SyncAssumption DEF SyncInv, SyncType, FolderTypes, Nodes
<1>1. UNCHANGED <<copying, folders, files, off>> /\ work' = work + 1 /\ work < MaxWork
  BY DEF Clear, WriteItem, ClearShared, Work
<1>2. work' \in 0 .. MaxWork /\ work' # work  BY <1>0, <1>1
<1>3. /\ FolderTypes'
      /\ \/ UNCHANGED <<folder, strayed>>
         \/ \E i \in Instance, f \in Folder :
              /\ strayed' = strayed \cup {<<i, f>>}
              /\ \A k \in Instance, g \in Folder : <<k, g>> # <<i, f>> => folder'[k][g] = folder[k][g]
  <2>1. ASSUME NEW i \in Instance, NEW f \in Folder, NEW v \in Nodes,
               folder' = [folder EXCEPT ![i][f] = v], strayed' = strayed \cup {<<i, f>>}, UNCHANGED shared
        PROVE  /\ FolderTypes'
               /\ \A k \in Instance, g \in Folder : <<k, g>> # <<i, f>> => folder'[k][g] = folder[k][g]
    <3>1. folder' \in [Instance -> [Folder -> Nodes]]  BY <1>0, <2>1 DEF FolderTypes
    <3>2. strayed' \subseteq Instance \X Folder  BY <1>0, <2>1 DEF FolderTypes
    <3>3. FolderTypes'  BY <1>0, <1>1, <2>1, <3>1, <3>2 DEF FolderTypes, Nodes
    <3> QED BY <1>0, <2>1, <3>3 DEF FolderTypes
  <2>2. ASSUME NEW i \in Instance, NEW f \in Folder, Clear(i, f)
        PROVE  \E v \in Nodes : folder' = [folder EXCEPT ![i][f] = v]
    <3>1. {} \in Nodes  BY DEF Nodes
    <3> QED BY <1>0, <2>2, <3>1 DEF Clear
  <2>3. ASSUME NEW i \in Instance, NEW f \in Folder, NEW x \in Item, WriteItem(i, f, x), folder[i][f] # Shared
        PROVE  \E v \in Nodes : folder' = [folder EXCEPT ![i][f] = v]
    <3> DEFINE v == IF folder[i][f] = Missing THEN {x} ELSE folder[i][f] \cup {x}
    <3>1. v \in Nodes  BY <1>0, <2>3 DEF FolderTypes, Nodes
    <3>2. folder' = [folder EXCEPT ![i][f] = v]  BY <2>3 DEF WriteItem
    <3> QED BY <3>1, <3>2
  <2>4. ASSUME NEW i \in Instance, NEW f \in Folder, Clear(i, f)
        PROVE  strayed' = strayed \cup {<<i, f>>} /\ UNCHANGED shared
    BY <2>4 DEF Clear
  <2>5. ASSUME NEW i \in Instance, NEW f \in Folder, NEW x \in Item, WriteItem(i, f, x)
        PROVE  IF folder[i][f] # Shared THEN strayed' = strayed \cup {<<i, f>>} /\ UNCHANGED shared
               ELSE UNCHANGED <<folder, strayed>> /\ shared' \in [Folder -> {Missing} \cup SUBSET Item]
    <3>1. CASE folder[i][f] # Shared  BY <2>5, <3>1 DEF WriteItem
    <3>2. CASE folder[i][f] = Shared
      <4>1. shared[f] # Missing /\ shared' = [shared EXCEPT ![f] = shared[f] \cup {x}] /\ UNCHANGED <<folder, strayed>>
        BY <2>5, <3>2 DEF WriteItem
      <4>2. shared[f] \cup {x} \in SUBSET Item  BY <1>0, <4>1 DEF FolderTypes
      <4> QED BY <1>0, <3>2, <4>1, <4>2 DEF FolderTypes
    <3> QED BY <3>1, <3>2
  <2>6. ASSUME NEW f \in Folder, ClearShared(f)
        PROVE  UNCHANGED <<folder, strayed>> /\ shared' \in [Folder -> {Missing} \cup SUBSET Item]
    BY <1>0, <2>6 DEF ClearShared, FolderTypes
  <2>7. ASSUME UNCHANGED <<folder, strayed>>, shared' \in [Folder -> {Missing} \cup SUBSET Item]
        PROVE  FolderTypes'
    BY <1>0, <1>1, <2>7 DEF FolderTypes, Nodes
  <2> QED BY <2>1, <2>2, <2>3, <2>4, <2>5, <2>6, <2>7
<1>4. SyncedIsLinked'
  <2> SUFFICES ASSUME NEW k \in Instance, NEW g \in Folder, <<k, g>> \notin strayed'
               PROVE  IF g \in Targets(k \in off) THEN folder'[k][g] = Shared \/ Occupied(folder'[k][g])
                      ELSE folder'[k][g] # Shared
    BY <1>1 DEF SyncedIsLinked, Occupied, IsDir, Targets
  <2>1. <<k, g>> \notin strayed /\ folder'[k][g] = folder[k][g]  BY <1>3
  <2> QED BY <1>0, <2>1 DEF SyncedIsLinked
<1> QED BY <1>0, <1>1, <1>2, <1>3, <1>4, FoldersChange

\* A game writes a file or its options.
LEMMA FilesAreWrittenToo ==
  ASSUME SyncInv, NEW i \in Instance, WriteFile(i) \/ WriteOptions(i)
  PROVE  SyncInv' /\ Kind
<1>0. /\ files \in BOOLEAN /\ off \subseteq Instance /\ work \in 0 .. MaxWork /\ MaxWork \in Nat
      /\ FolderTypes /\ SyncedIsLinked
  BY SyncAssumption DEF SyncInv, SyncType, FolderTypes, Nodes
<1>1. /\ UNCHANGED <<folder, shared, folders, strayed, fallback, files, off>>
      /\ work' = work + 1 /\ work < MaxWork /\ time' = time + 1 /\ time < MaxTime
  BY DEF WriteFile, WriteOptions, Work, folding
<1>2. work' \in 0 .. MaxWork /\ work' # work /\ time' \in At /\ time \in Nat
  BY <1>0, <1>1, FileTypes DEF At
<1>3. i \in Values /\ i # Missing  BY SyncAssumption DEF Values
<1>4. FolderTypes' /\ SyncedIsLinked'
  BY <1>0, <1>1 DEF FolderTypes, SyncedIsLinked, Targets, Occupied, IsDir
<1>5. CASE WriteFile(i)
  <2>1. /\ copies' = [copies EXCEPT ![i] = [at |-> time', value |-> i]]
        /\ newest' = [newest EXCEPT !.value = i] /\ UNCHANGED options
    BY <1>5 DEF WriteFile
  <2>2. newest' \in [value : Values, setting : Values] /\ newest'.value = i /\ newest'.setting = newest.setting
    BY <1>3, <2>1, FileTypes
  <2>3. SaidLast(ats(copies)', values_said', i)  BY <1>1, <1>3, <2>1, CopyIsWritten
  <2>4. ats(options)' = ats(options) /\ settings_said' = settings_said  BY <2>1 DEF ats, settings_said
  <2>5. NewestIsLatest'  BY <1>1, <2>2, <2>3, <2>4 DEF SyncInv, NewestIsLatest
  <2>6. copies' \in [Instance -> [at : At, value : Values]]  BY <1>2, <1>3, <2>1, FileTypes
  <2>7. ASSUME NEW k \in Instance
        PROVE  /\ copies'[k].at > copies[k].at => copies'[k].value = i
               /\ ~ (options'[k].at > options[k].at)
               /\ copies'[k].at <= time' /\ options'[k].at <= time'
    <3>1. options[k] \in [at : At, setting : Values, packs : Values] /\ copies[k] \in [at : At, value : Values]
      BY FileTypes
    <3>2. options[k].at \in Nat /\ options[k].at <= time /\ copies[k].at \in Nat /\ copies[k].at <= time
      BY <3>1 DEF At, SyncInv, WrittenBefore
    <3>3. CASE k = i
      <4>1. copies'[k].at = time' /\ copies'[k].value = i  BY <2>1, <3>3, FileTypes
      <4> QED BY <1>1, <1>2, <2>1, <3>2, <4>1
    <3>4. CASE k # i
      <4>1. copies'[k] = copies[k]  BY <2>1, <3>4, FileTypes
      <4> QED BY <1>1, <1>2, <2>1, <3>2, <4>1
    <3> QED BY <3>3, <3>4
  <2>8. WrittenBefore'  BY <2>7 DEF WrittenBefore
  <2>9. Kind  BY <1>2, <2>2, <2>7 DEF Kind
  <2>10. SyncType'
    BY <1>0, <1>1, <1>2, <1>4, <2>1, <2>2, <2>6, FileTypes DEF SyncType, FolderTypes, Nodes
  <2> QED BY <1>4, <2>5, <2>8, <2>9, <2>10 DEF SyncInv
<1>6. CASE WriteOptions(i)
  <2>1. PICK packs \in Instance :
          options' = [options EXCEPT ![i] = [at |-> time', setting |-> i, packs |-> packs]]
    BY <1>6 DEF WriteOptions
  <2>2. newest' = [newest EXCEPT !.setting = i] /\ UNCHANGED copies
    BY <1>6 DEF WriteOptions
  <2>3. newest' \in [value : Values, setting : Values] /\ newest'.setting = i /\ newest'.value = newest.value
    BY <1>3, <2>2, FileTypes
  <2>4. packs \in Values  BY DEF Values
  <2>5. SaidLast(ats(options)', settings_said', i)  BY <1>1, <1>3, <2>1, <2>4, OptionsAreWritten
  <2>6. ats(copies)' = ats(copies) /\ values_said' = values_said  BY <2>2 DEF ats, values_said
  <2>7. NewestIsLatest'  BY <1>1, <1>3, <2>3, <2>5, <2>6 DEF SyncInv, NewestIsLatest
  <2>8. options' \in [Instance -> [at : At, setting : Values, packs : Values]]
    BY <1>2, <1>3, <2>1, <2>4, FileTypes
  <2>9. ASSUME NEW k \in Instance
        PROVE  /\ options'[k].at > options[k].at => options'[k].setting = i
               /\ ~ (copies'[k].at > copies[k].at)
               /\ copies'[k].at <= time' /\ options'[k].at <= time'
    <3>1. options[k] \in [at : At, setting : Values, packs : Values] /\ copies[k] \in [at : At, value : Values]
      BY FileTypes
    <3>2. options[k].at \in Nat /\ options[k].at <= time /\ copies[k].at \in Nat /\ copies[k].at <= time
      BY <3>1 DEF At, SyncInv, WrittenBefore
    <3>3. CASE k = i
      <4>1. options'[k].at = time' /\ options'[k].setting = i  BY <2>1, <3>3, FileTypes
      <4> QED BY <1>1, <1>2, <2>2, <3>2, <4>1
    <3>4. CASE k # i
      <4>1. options'[k] = options[k]  BY <2>1, <3>4, FileTypes
      <4> QED BY <1>1, <1>2, <2>2, <3>2, <4>1
    <3> QED BY <3>3, <3>4
  <2>10. WrittenBefore'  BY <2>9 DEF WrittenBefore
  <2>11. Kind  BY <1>2, <2>3, <2>9 DEF Kind
  <2>12. SyncType'
    BY <1>0, <1>1, <1>2, <1>4, <2>2, <2>3, <2>8, FileTypes DEF SyncType, FolderTypes, Nodes
  <2> QED BY <1>4, <2>7, <2>10, <2>11, <2>12 DEF SyncInv
<1> QED BY <1>5, <1>6

\* What instances share is kept, for any instances, folders and files, whatever of the
\* disk fails: a folder is a link if and only if it is synced, but where a link has failed,
\* nothing that was in one is removed, and what a launch brings is what any game has
\* written last, or what is left of it if a copy of it has been cut off (syncing.rs).
THEOREM SharingIsKind == SyncSpec => SharedIsKept
<1> DEFINE Taken == work' = work =>
       /\ \A i \in Instance, f \in Folder : Occupied(folder[i][f]) => folder'[i][f] = folder[i][f]
       /\ \A f \in Folder : shared[f] # Missing => shared'[f] = shared[f]
       /\ \A i \in Instance : options[i].packs # Missing => options'[i].packs = options[i].packs
           Given == \A i \in Instance :
       /\ options'[i].at > options[i].at => options'[i].setting = newest'.setting
       /\ copies'[i].at > copies[i].at => copies'[i].value = newest'.value
<1>1. SyncInit => SyncInv
  <2> SUFFICES ASSUME SyncInit PROVE SyncInv  OBVIOUS
  <2> USE SyncAssumption DEF SyncInit
  <2>1. SyncType
    <3>1. 0 \in At /\ 0 \in 0 .. MaxWork /\ Missing \in Values  BY DEF At, Values
    <3>2. /\ copies \in [Instance -> [at : At, value : Values]]
          /\ options \in [Instance -> [at : At, setting : Values, packs : Values]]
          /\ fallback \in [setting : Values, packs : Values] /\ newest \in [value : Values, setting : Values]
      BY <3>1
    <3> QED BY <3>1, <3>2 DEF SyncType
  <2>2. SyncedIsLinked  BY DEF SyncedIsLinked, Targets
  <2>3. SaidLast(ats(options), settings_said, newest.setting) /\ SaidLast(ats(copies), values_said, newest.value)
    BY DEF SaidLast, settings_said, values_said
  <2>4. NewestIsLatest  BY <2>3 DEF NewestIsLatest
  <2>5. WrittenBefore
    <3>1. time = 0 /\ \A i \in Instance : options[i].at = 0 /\ copies[i].at = 0  OBVIOUS
    <3>2. 0 <= 0  OBVIOUS
    <3> HIDE DEF SyncInit
    <3> QED BY <3>1, <3>2 DEF WrittenBefore
  <2> QED BY <2>1, <2>2, <2>4, <2>5 DEF SyncInv
<1>2. SyncInv /\ [SyncNext]_syncing => SyncInv' /\ [Taken]_syncing /\ [Given]_syncing
  <2> SUFFICES ASSUME SyncInv, [SyncNext]_syncing PROVE SyncInv' /\ [Taken]_syncing /\ [Given]_syncing
    OBVIOUS
  <2>1. CASE UNCHANGED syncing
    <3>1. UNCHANGED <<folder, shared, folders, strayed, copying, files, off, work>>
      BY <2>1 DEF syncing, folding
    <3>2. FolderTypes'  BY <3>1 DEF FolderTypes, SyncInv, SyncType, Nodes
    <3>3. SyncedIsLinked'  BY <3>1 DEF SyncedIsLinked, Targets, Occupied, IsDir, SyncInv
    <3>4. FoldersAreKept  BY <3>1 DEF FoldersAreKept
    <3>5. files' \in BOOLEAN /\ off' \subseteq Instance /\ work' \in 0 .. MaxWork
      BY <3>1 DEF SyncInv, SyncType
    <3>6. SyncInv'  BY <3>1, <3>2, <3>3, <3>4, <3>5, FoldersChange
    <3> QED BY <2>1, <3>6
  <2>2. CASE SyncNext
    <3>1. SyncInv' /\ Kind
      BY <2>2, LauncherApplies, SettingApplies, FoldersAreUsed, FilesAreWrittenToo DEF SyncNext
    <3> QED BY <3>1 DEF Kind, FoldersAreKept
  <2> QED BY <2>1, <2>2
<1>3. SyncInv => SyncType /\ SyncedIsLinked  BY DEF SyncInv
<1>4. SharedIsKept <=> [](SyncType /\ SyncedIsLinked) /\ [][Taken]_syncing /\ [][Given]_syncing
  BY DEF SharedIsKept, NothingIsTaken, LatestIsShared
<1> QED BY <1>1, <1>2, <1>3, <1>4, PTL DEF SyncSpec

-----------------------------------------------------------------------------
(* The list of content. *)

Id == Nat \X (0 .. MaxLoads)

\* What a row shows, and what a request is for, is what the id stands for, if it
\* stands for anything.
StandsFor(s) == s.id[2] <= generation /\ \A t \in try_get_content(s.id) : t.mod = s.mod
IsMeant(r) == \A n \in DOMAIN r.ids :
  /\ r.ids[n] \in Id /\ r.ids[n][2] <= generation
  /\ \A t \in try_get_content(r.ids[n]) : t.mod \in r.meant

ListShape ==
  /\ generation \in 0 .. MaxLoads /\ on \subseteq Mod /\ disabled \subseteq Mod
  /\ content \in Seq(Summary) /\ updates \in Seq(Seq(Summary)) /\ summaries \in Seq(Summary)

ListInv ==
  /\ ListShape
  /\ \A k \in 1 .. Len(content) : StandsFor(content[k])
  /\ \A u \in 1 .. Len(updates) : \A k \in 1 .. Len(updates[u]) : StandsFor(updates[u][k])
  /\ \E D : requests \in Seq(D) /\ \A r \in 1 .. Len(requests) : IsMeant(requests[r])

Meaning == \A m \in Mod :
  (m \in on /\ m \notin on') \/ (m \in disabled /\ m \notin disabled') => m \in Head(requests).meant

LEMMA ListInvInitially == ListInit => ListInv
<1> SUFFICES ASSUME ListInit PROVE ListInv  OBVIOUS
<1>1. ListShape  BY PackAssumption DEF ListInit, ListShape
<1>2. requests \in Seq({}) /\ Len(requests) = 0 /\ Len(content) = 0 /\ Len(updates) = 0
  BY DEF ListInit
<1> QED BY <1>1, <1>2 DEF ListInv

\* An id of an earlier load stands for nothing after the next one.
LEMMA LoadKeeps == ListInv /\ load_content => ListInv'
<1> SUFFICES ASSUME ListInv, load_content PROVE ListInv'  OBVIOUS
<1> DEFINE S == (on \X {TRUE}) \cup (disabled \X {FALSE})
           D == 1 .. Cardinality(S)
<1>1. /\ generation' = generation + 1 /\ updates' = Append(updates, summaries')
      /\ UNCHANGED <<on, disabled, requests, content>>
  BY DEF load_content, list
<1>2. PICK order \in SetToSeqs(S) : summaries' = [i \in DOMAIN order |->
         [mod |-> order[i][1], enabled |-> order[i][2], id |-> <<i, generation'>>]]
  BY DEF load_content
<1>3. ListShape  BY DEF ListInv
<1>4. Cardinality(S) \in Nat
  <2>1. S \subseteq Mod \X BOOLEAN  BY <1>3 DEF ListShape
  <2>2. IsFiniteSet(Mod \X BOOLEAN)
    <3>1. IsFiniteSet(BOOLEAN)
      <4>1. IsFiniteSet({TRUE}) /\ IsFiniteSet({FALSE})  BY FS_Singleton
      <4>2. BOOLEAN = {TRUE} \cup {FALSE}  OBVIOUS
      <4> QED BY <4>1, <4>2, FS_Union
    <3> QED BY <3>1, PackAssumption, FS_Product
  <2> QED BY <2>1, <2>2, FS_Subset, FS_CardinalityType
<1>5. order \in [D -> S]  BY <1>2 DEF SetToSeqs
<1> HIDE DEF S
<1>6. \A i \in D : order[i][1] \in Mod /\ order[i][2] \in BOOLEAN
  BY <1>3, <1>5 DEF S, ListShape
<1>7. /\ generation' \in Nat /\ generation \in Nat /\ generation < generation'
      /\ generation' \in 0 .. MaxLoads
  BY <1>1, <1>3, PackAssumption DEF ListShape, load_content
<1>8. /\ summaries' \in Seq(Summary) /\ Len(summaries') = Cardinality(S)
      /\ \A i \in D : summaries'[i].id = <<i, generation'>>
  <2>1. summaries' = [i \in D |-> [mod |-> order[i][1], enabled |-> order[i][2], id |-> <<i, generation'>>]]
    BY <1>2, <1>5
  <2>2. \A i \in D : summaries'[i] \in Summary /\ summaries'[i].id = <<i, generation'>>
    BY <2>1, <1>4, <1>6, <1>7 DEF Summary, Id
  <2>3. summaries' \in [D -> Summary]  BY <2>1, <2>2
  <2> QED BY <1>4, <2>2, <2>3
<1>9. ASSUME NEW k \in 1 .. Len(summaries') PROVE StandsFor(summaries[k])'
  <2>1. summaries'[k].id[1] = k /\ summaries'[k].id[2] = generation'  BY <1>8
  <2>2. try_get_content(summaries[k].id)' \subseteq {summaries'[k]}  BY <2>1 DEF try_get_content
  <2> QED BY <2>1, <2>2, <1>7 DEF StandsFor
<1>10. \A id \in Id : id[2] <= generation => id[2] <= generation' /\ try_get_content(id)' = {}
  BY <1>7 DEF Id, try_get_content
<1>11. \A s \in Summary : StandsFor(s) => StandsFor(s)'
  BY <1>10 DEF Summary, Id, StandsFor
<1>12. ListShape'
  BY <1>1, <1>3, <1>7, <1>8 DEF ListShape
<1>13. ASSUME NEW k \in 1 .. Len(content') PROVE StandsFor(content[k])'
  <2>1. content[k] \in Summary /\ StandsFor(content[k]) /\ content' = content
    BY <1>1, <1>3, <1>13 DEF ListInv, ListShape
  <2> QED BY <1>11, <2>1 DEF StandsFor
<1>14. ASSUME NEW u \in 1 .. Len(updates'), NEW k \in 1 .. Len(updates'[u]) PROVE StandsFor(updates[u][k])'
  <2>1. updates \in Seq(Seq(Summary)) /\ Len(updates) \in Nat  BY <1>3 DEF ListShape
  <2>2. CASE u = Len(updates) + 1
    <3>1. updates'[u] = summaries'  BY <1>1, <1>8, <2>1, <2>2
    <3> QED BY <1>9, <1>14, <3>1 DEF StandsFor
  <2>3. CASE u # Len(updates) + 1
    <3>1. u \in 1 .. Len(updates) /\ updates'[u] = updates[u]  BY <1>1, <1>8, <1>14, <2>1, <2>3
    <3>2. updates[u][k] \in Summary /\ StandsFor(updates[u][k])  BY <1>14, <2>1, <3>1 DEF ListInv
    <3> QED BY <1>11, <3>1, <3>2 DEF StandsFor
  <2> QED BY <2>2, <2>3
<1>15. \E E : requests' \in Seq(E) /\ \A r \in 1 .. Len(requests') : IsMeant(requests[r])'
  <2>1. PICK E : requests \in Seq(E) /\ \A r \in 1 .. Len(requests) : IsMeant(requests[r])
    BY DEF ListInv
  <2>2. ASSUME NEW r \in 1 .. Len(requests') PROVE IsMeant(requests[r])'
    <3>1. IsMeant(requests[r]) /\ requests' = requests  BY <1>1, <2>1
    <3> QED BY <1>10, <3>1 DEF IsMeant
  <2> QED BY <1>1, <2>1, <2>2
<1> QED BY <1>12, <1>13, <1>14, <1>15 DEF ListInv

\* What does not load does not change what an id stands for.
LEMMA OthersKeep ==
  ASSUME ListInv, UNCHANGED <<summaries, generation>>,
         on' \subseteq Mod, disabled' \subseteq Mod,
         content' \in Seq(Summary), updates' \in Seq(Seq(Summary)),
         \A k \in 1 .. Len(content') : StandsFor(content'[k]),
         \A u \in 1 .. Len(updates') : \A k \in 1 .. Len(updates'[u]) : StandsFor(updates'[u][k]),
         NEW E, requests' \in Seq(E), \A r \in 1 .. Len(requests') : IsMeant(requests'[r])
  PROVE  ListInv'
<1>1. ListShape'  BY DEF ListInv, ListShape
<1>2. \A k \in 1 .. Len(content') : StandsFor(content[k])'
  BY DEF StandsFor, try_get_content
<1>3. \A u \in 1 .. Len(updates') : \A k \in 1 .. Len(updates'[u]) : StandsFor(updates[u][k])'
  BY DEF StandsFor, try_get_content
<1>4. \A r \in 1 .. Len(requests') : IsMeant(requests[r])'
  BY DEF IsMeant, try_get_content
<1> QED BY <1>1, <1>2, <1>3, <1>4 DEF ListInv

\* The backend serves a request, and takes away only what it is for.
LEMMA ServingKeeps ==
  ASSUME ListInv, SetContentEnabled \/ DeleteContent
  PROVE  ListInv' /\ Meaning
<1> DEFINE r == Head(requests)
<1>1. PICK E : requests \in Seq(E) /\ \A n \in 1 .. Len(requests) : IsMeant(requests[n])
  BY DEF ListInv
<1>2. /\ requests # <<>> /\ requests' = Tail(requests)
      /\ UNCHANGED <<summaries, generation, updates, content>>
  BY DEF SetContentEnabled, DeleteContent, list
<1>3. IsMeant(r)
  <2>1. r = requests[1] /\ 1 \in 1 .. Len(requests)  BY <1>1, <1>2
  <2> QED BY <1>1, <2>1
<1>4. requests' \in Seq(E) /\ \A n \in 1 .. Len(requests') : IsMeant(requests'[n])
  <2>1. requests' \in Seq(E) /\ \A n \in 1 .. Len(requests') :
          n + 1 \in 1 .. Len(requests) /\ requests'[n] = requests[n + 1]
    BY <1>1, <1>2
  <2> QED BY <1>1, <2>1
<1> DEFINE meant == UNION {{s.mod : s \in try_get_content(r.ids[n])} : n \in DOMAIN r.ids}
<1>5. meant \subseteq r.meant  BY <1>3 DEF IsMeant
<1>6. /\ on' \subseteq on \cup disabled /\ disabled' \subseteq on \cup disabled
      /\ on \ on' \subseteq meant /\ disabled \ disabled' \subseteq meant
  <2>1. CASE SetContentEnabled
    <3> DEFINE moved == UNION {{s.mod : s \in try_get_content(r.ids[i])} : i \in Before(r.ids, r.value)}
    <3>1. moved \subseteq meant  BY DEF Before
    <3>2. IF r.value THEN on' = on \cup (moved \cap disabled) /\ disabled' = disabled \ moved
          ELSE disabled' = disabled \cup (moved \cap on) /\ on' = on \ moved
      BY <2>1 DEF SetContentEnabled
    <3> HIDE DEF moved, meant
    <3>3. CASE r.value  BY <3>1, <3>2, <3>3
    <3>4. CASE ~ r.value  BY <3>1, <3>2, <3>4
    <3> QED BY <3>3, <3>4
  <2>2. CASE DeleteContent
    <3> DEFINE valid == {i \in DOMAIN r.ids : \A j \in DOMAIN r.ids :
                           j <= i => try_get_content(r.ids[j]) # {}}
               gone == UNION {try_get_content(r.ids[i]) : i \in valid}
    <3>1. /\ on' = on \ {s.mod : s \in {t \in gone : t.enabled}}
          /\ disabled' = disabled \ {s.mod : s \in {t \in gone : ~t.enabled}}
      BY <2>2 DEF DeleteContent
    <3>2. \A s \in gone : s.mod \in meant  OBVIOUS
    <3> HIDE DEF gone, meant
    <3> QED BY <3>1, <3>2
  <2> QED BY <2>1, <2>2
<1>7. Meaning
  <2> HIDE DEF meant
  <2> QED BY <1>5, <1>6 DEF Meaning
<1>8. on' \subseteq Mod /\ disabled' \subseteq Mod
  <2> HIDE DEF meant
  <2> QED BY <1>6 DEF ListInv, ListShape
<1> QED BY <1>1, <1>2, <1>4, <1>7, <1>8, OthersKeep DEF ListInv, ListShape

\* The list takes what the last load found.
LEMMA SetContentKeeps == ListInv /\ set_content => ListInv'
<1> SUFFICES ASSUME ListInv, set_content PROVE ListInv'  OBVIOUS
<1>1. /\ updates # <<>> /\ updates' = Tail(updates) /\ content' = Head(updates)
      /\ UNCHANGED <<on, disabled, summaries, generation, requests>>
  BY DEF set_content, backend
<1>2. updates \in Seq(Seq(Summary))  BY DEF ListInv, ListShape
<1>3. 1 \in 1 .. Len(updates) /\ content' = updates[1] /\ content' \in Seq(Summary)  BY <1>1, <1>2
<1>4. \A k \in 1 .. Len(content') : StandsFor(content'[k])  BY <1>3 DEF ListInv
<1>5. /\ updates' \in Seq(Seq(Summary))
      /\ \A u \in 1 .. Len(updates') : u + 1 \in 1 .. Len(updates) /\ updates'[u] = updates[u + 1]
  BY <1>1, <1>2
<1>6. \A u \in 1 .. Len(updates') : \A k \in 1 .. Len(updates'[u]) : StandsFor(updates'[u][k])
  BY <1>5 DEF ListInv
<1>7. PICK E : requests \in Seq(E) /\ \A r \in 1 .. Len(requests) : IsMeant(requests[r])
  BY DEF ListInv
<1> QED BY <1>1, <1>3, <1>4, <1>5, <1>6, <1>7, OthersKeep DEF ListInv, ListShape

\* A request is for the rows it has the ids of.
LEMMA RequestIsMeant ==
  ASSUME ListInv, NEW what, NEW i, NEW value
  PROVE  \E E : /\ Request(what, i, value) \in Seq(E)
               /\ \A r \in 1 .. Len(Request(what, i, value)) : IsMeant(Request(what, i, value)[r])
<1> DEFINE new == [kind |-> what, value |-> value, ids |-> [n \in Meant(i) |-> content[n].id],
                   meant |-> {content[n].mod : n \in Meant(i)}]
           asked == Append(requests, new)
<1>1. PICK E : requests \in Seq(E) /\ \A r \in 1 .. Len(requests) : IsMeant(requests[r])
  BY DEF ListInv
<1>2. content \in Seq(Summary)  BY DEF ListInv, ListShape
<1>3. Request(what, i, value) = asked  BY DEF Request
<1>4. IsMeant(new)
  <2> SUFFICES ASSUME NEW n \in Meant(i)
               PROVE  /\ content[n].id \in Id /\ content[n].id[2] <= generation
                      /\ \A t \in try_get_content(content[n].id) : t.mod \in {content[k].mod : k \in Meant(i)}
    BY DEF IsMeant
  <2>1. n \in 1 .. Len(content) /\ content[n] \in Summary  BY <1>2 DEF Meant
  <2>2. StandsFor(content[n])  BY <2>1 DEF ListInv
  <2> QED BY <2>1, <2>2 DEF Summary, Id, StandsFor
<1> HIDE DEF new
<1>5. /\ asked \in Seq(E \cup {new}) /\ Len(asked) = Len(requests) + 1 /\ Len(requests) \in Nat
      /\ asked[Len(requests) + 1] = new /\ \A r \in 1 .. Len(requests) : asked[r] = requests[r]
  <2>1. requests \in Seq(E \cup {new})  BY <1>1
  <2> QED BY <1>1, <2>1
<1> HIDE DEF asked
<1>6. ASSUME NEW r \in 1 .. Len(asked) PROVE IsMeant(asked[r])
  <2>1. CASE r = Len(requests) + 1  BY <1>4, <1>5, <2>1
  <2>2. CASE r # Len(requests) + 1
    <3>1. r \in 1 .. Len(requests) /\ asked[r] = requests[r]  BY <1>5, <2>2
    <3> QED BY <1>1, <3>1
  <2> QED BY <2>1, <2>2
<1> QED BY <1>3, <1>5, <1>6

\* A click changes what is selected, to be confirmed, expanded or searched, or asks.
LEMMA ClicksKeep ==
  ASSUME ListInv, UNCHANGED <<backend, updates, content>>,
         requests' = requests \/ \E what, i, value : requests' = Request(what, i, value)
  PROVE  ListInv'
<1>1. UNCHANGED <<on, disabled, summaries, generation, updates, content>>  BY DEF backend
<1>2. PICK E : requests' \in Seq(E) /\ \A r \in 1 .. Len(requests') : IsMeant(requests'[r])
  <2>1. CASE requests' = requests  BY <2>1 DEF ListInv
  <2>2. CASE \E what, i, value : requests' = Request(what, i, value)  BY <2>2, RequestIsMeant
  <2> QED BY <2>1, <2>2
<1> QED BY <1>1, <1>2, OthersKeep DEF ListInv, ListShape

LEMMA ListInvStays == ListInv /\ [ListNext]_listing => ListInv' /\ (Meaning \/ UNCHANGED listing)
<1> SUFFICES ASSUME ListInv, [ListNext]_listing PROVE ListInv' /\ (Meaning \/ UNCHANGED listing)
  OBVIOUS
<1>1. CASE load_content
  BY <1>1, LoadKeeps DEF load_content, Meaning
<1>2. CASE SetContentEnabled \/ DeleteContent
  BY <1>2, ServingKeeps
<1>3. CASE set_content
  BY <1>3, SetContentKeeps DEF set_content, backend, Meaning
<1>4. CASE Search
  BY <1>4, ClicksKeep DEF Search, Click, backend, Meaning
<1>5. ASSUME NEW i, Toggle(i) PROVE ListInv' /\ Meaning
  BY <1>5, ClicksKeep DEF Toggle, Click, backend, list, Meaning
<1>6. ASSUME NEW i, Delete(i) PROVE ListInv' /\ Meaning
  BY <1>6, ClicksKeep DEF Delete, Click, backend, Meaning
<1>7. ASSUME NEW i, Expand(i) PROVE ListInv' /\ Meaning
  BY <1>7, ClicksKeep DEF Expand, Click, backend, Meaning
<1>8. ASSUME NEW i, NEW ctrl, Select(i, ctrl) PROVE ListInv' /\ Meaning
  BY <1>8, ClicksKeep DEF Select, Click, backend, Meaning
<1>9. CASE UNCHANGED listing
  BY <1>9, ClicksKeep DEF listing, backend, list
<1> QED BY <1>1, <1>2, <1>3, <1>4, <1>5, <1>6, <1>7, <1>8, <1>9 DEF ListNext

\* What the list shows, and what is selected of it.
ViewType ==
  /\ searched \subseteq Mod /\ selected \subseteq Mod /\ confirming \subseteq Mod
  /\ expanded \in Nat /\ clicks \in 0 .. MaxClicks

LEMMA ViewTypeStays == ListInv /\ ViewType /\ [ListNext]_listing => ViewType'
<1> SUFFICES ASSUME ListInv, ViewType, [ListNext]_listing PROVE ViewType'  OBVIOUS
<1>1. content \in Seq(Summary) /\ \A i \in DOMAIN content : content[i].mod \in Mod
  <2>1. content \in Seq(Summary)  BY DEF ListInv, ListShape
  <2>2. \A i \in DOMAIN content : content[i] \in Summary  BY <2>1
  <2> QED BY <2>1, <2>2 DEF Summary
<1>2. Click => clicks' \in 0 .. MaxClicks  BY PackAssumption DEF Click, ViewType
<1>3. CASE load_content \/ SetContentEnabled \/ DeleteContent \/ UNCHANGED listing
  BY <1>3 DEF load_content, SetContentEnabled, DeleteContent, listing, list, ViewType
<1>4. CASE set_content
  BY <1>4 DEF set_content, ViewType
<1>5. CASE Search
  BY <1>2, <1>5 DEF Search, ViewType
<1>6. ASSUME NEW i \in DOMAIN content, Toggle(i) PROVE ViewType'
  BY <1>2, <1>6 DEF Toggle, list, ViewType
<1>7. ASSUME NEW i \in DOMAIN content, Delete(i) PROVE ViewType'
  <2>1. {content[n].mod : n \in Meant(i)} \subseteq Mod  BY <1>1 DEF Meant
  <2> QED BY <1>2, <1>7, <2>1 DEF Delete, ViewType
<1>8. ASSUME NEW i \in DOMAIN content, Expand(i) PROVE ViewType'
  <2>1. RowOf(i) \in Nat
    <3>1. i \in Nat  BY <1>1
    <3> QED BY <3>1, PackAssumption DEF RowOf, ChildrenOf, ViewType
  <2> QED BY <1>2, <1>8, <2>1 DEF Expand, ViewType
<1>9. ASSUME NEW i \in DOMAIN content, NEW ctrl \in BOOLEAN, Select(i, ctrl) PROVE ViewType'
  BY <1>1, <1>2, <1>9 DEF Select, ViewType
<1> QED BY <1>3, <1>4, <1>5, <1>6, <1>7, <1>8, <1>9 DEF ListNext

\* Whatever loads come between a click and its request, only files that the user meant
\* are deleted, enabled or disabled (content_list.rs, handle_message).
THEOREM OnlyTheMeantIsDone == ListSpec => OnlyWhatWasMeant
<1>1. ListInv /\ [ListNext]_listing => [Meaning]_listing
  BY ListInvStays
<1>2. OnlyWhatWasMeant <=> []ListType /\ [][Meaning]_listing  BY DEF OnlyWhatWasMeant, Meaning
<1>3. ListInit => ViewType  BY PackAssumption DEF ListInit, ViewType
<1>4. ListInv /\ ViewType => ListType
  <2> SUFFICES ASSUME ListInv, ViewType PROVE ListType  OBVIOUS
  <2>1. ToSet(content) \subseteq Summary /\ ToSet(summaries) \subseteq Summary
    BY DEF ListInv, ListShape, ToSet
  <2> QED BY <2>1 DEF ListInv, ListShape, ViewType, ListType
<1> QED BY <1>1, <1>2, <1>3, <1>4, ListInvInitially, ListInvStays, ViewTypeStays, PTL DEF ListSpec
=============================================================================
