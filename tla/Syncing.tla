------------------------------- MODULE Syncing -------------------------------
(***************************************************************************)
(* Syncing between instances (backend/src/syncing.rs).  A folder that is   *)
(* synced is a link to a directory which all instances share; files are    *)
(* copied from the latest instance that has them, and options.txt is       *)
(* combined, when an instance is launched.                                 *)
(*                                                                         *)
(* A call is one step: the handler awaits nothing in them, and holds the   *)
(* settings.  Each thing it does to the disk may fail, most of it          *)
(* unnoticed, or not be done because the launcher has ended.               *)
(***************************************************************************)
EXTENDS Naturals

CONSTANTS
  Instance, Folder, Item, Shared, Missing,
  Cut,        \* what is in a file after a copy that has failed midway
  MaxTime,    \* bound: writes to files
  MaxWork     \* bound: what users and games do

ASSUME SyncAssumption ==
  /\ Missing # Shared /\ Missing # Cut /\ {Missing, Cut} \cap Instance = {}
  /\ MaxTime \in Nat /\ MaxWork \in Nat

VARIABLES
  folder,     \* in each instance: Missing, Shared, or the items of a directory
  shared,     \* items of the shared directory of a folder, or Missing
  folders,    \* sync_targets.folders
  files,      \* whether sync_targets.files has a file and options.txt
  off,        \* instances with disable_file_syncing
  copies,     \* the file of each instance, and when it was written
  options,    \* options.txt likewise: a setting, and the resource packs
  fallback,   \* fallback_options.txt
  newest,     \* what a game wrote last, of the file, unless a copy of it was cut off
              \* since, and of the setting (history)
  strayed,    \* folders a user, a game or a failure has had a hand in (history)
  time, work  \* counted

folding == <<folder, shared, folders, strayed>>
copying == <<copies, options, fallback, newest, time>>
syncing == <<folding, copying, files, off, work>>

At == 0 .. MaxTime
Values == Instance \cup {Missing, Cut}
IsDir(p) == p \notin {Missing, Shared}

SyncType ==
  /\ folder \in [Instance -> [Folder -> {Missing, Shared} \cup SUBSET Item]]
  /\ shared \in [Folder -> {Missing} \cup SUBSET Item]
  /\ folders \subseteq Folder /\ files \in BOOLEAN /\ off \subseteq Instance
  /\ copies \in [Instance -> [at : At, value : Values]]
  /\ options \in [Instance -> [at : At, setting : Values, packs : Values]]
  /\ fallback \in [setting : Values, packs : Values] /\ newest \in [value : Values, setting : Values]
  /\ strayed \subseteq Instance \X Folder
  /\ time \in At /\ work \in 0 .. MaxWork

SyncInit ==
  /\ folder = [i \in Instance |-> [f \in Folder |-> Missing]]
  /\ shared = [f \in Folder |-> Missing]
  /\ folders = {} /\ files = FALSE /\ off = {} /\ strayed = {}
  /\ copies = [i \in Instance |-> [at |-> 0, value |-> Missing]]
  /\ options = [i \in Instance |-> [at |-> 0, setting |-> Missing, packs |-> Missing]]
  /\ fallback = [setting |-> Missing, packs |-> Missing]
  /\ newest = [value |-> Missing, setting |-> Missing]
  /\ time = 0 /\ work = 0

-----------------------------------------------------------------------------
(* Files. *)

\* find_latest: of the instances that have the file, whether they are synced or not.
Latest(S, written) == CHOOSE i \in S : \A j \in S : written[j].at <= written[i].at

\* create_combined_options_txt: what later files say goes before what earlier ones
\* and the fallback do; the packs of other instances are left out.
\* (A bug: they are not.)
create_combined_all(i) ==
  LET saying == {j \in Instance : options[j].setting # Missing}
  IN  [setting |-> IF saying = {} THEN fallback.setting ELSE options[Latest(saying, options)].setting,
       packs |-> IF saying = {} THEN fallback.packs ELSE options[Latest(saying, options)].packs]
create_combined(i) ==
  LET saying == {j \in Instance : options[j].setting # Missing}
  IN  [setting |-> IF saying = {} THEN fallback.setting ELSE options[Latest(saying, options)].setting,
       packs |-> IF options[i].packs = Missing THEN fallback.packs ELSE options[i].packs]

\* create_combined_options_txt is written by two calls of write_safe.
combine(i) ==
  LET c == create_combined(i)
  IN  /\ fallback' \in {fallback, c}
      /\ options' \in {options, [options EXCEPT ![i] = [at |-> time', setting |-> c.setting, packs |-> c.packs]]}

\* The latest file is copied over that of the instance: what is there is emptied first.
copy(i) ==
  LET having == {j \in Instance : copies[j].value # Missing}
      latest == copies[Latest(having, copies)].value
      Becomes(value) == copies' = [copies EXCEPT ![i] = [at |-> time', value |-> value]]
  IN  \/ UNCHANGED <<copies, newest>>
      \/ /\ having # {} /\ Latest(having, copies) # i
         /\ \/ Becomes(latest) /\ UNCHANGED newest
            \/ Becomes(Cut) /\ newest' = [newest EXCEPT !.value = Cut]

\* The file targets of an instance.
apply_files(i, disable) ==
  IF ~files \/ disable THEN UNCHANGED copying
  ELSE time < MaxTime /\ time' = time + 1 /\ combine(i) /\ copy(i)

-----------------------------------------------------------------------------
(* Folders. *)

Targets(disable) == IF disable THEN {} ELSE folders

\* remove_dir removes no directory that has something in it, and no link.
Occupied(p) == IsDir(p) /\ p # {}

\* Links that are not wanted are removed; what is not there, or empty, becomes a link to a
\* directory that is made if need be.
ToLink(i, wanted) == {f \in wanted : folder[i][f] # Shared /\ ~Occupied(folder[i][f])}
ToUnlink(i, wanted) == {f \in Folder \ wanted : folder[i][f] = Shared}

\* Where a link fails an empty directory may be gone by then.
Linked(i, wanted, failing, gone) ==
  [f \in Folder |->
    IF f \in ToLink(i, wanted) \ failing THEN Shared
    ELSE IF f \in (ToUnlink(i, wanted) \ failing) \cup gone THEN Missing
    ELSE folder[i][f]]

\* apply_to_instance, with the targets of the settings, or with none.
apply_to_instance(i, disable) ==
  LET wanted == Targets(disable)
  IN  /\ \E failing \in SUBSET (ToLink(i, wanted) \cup ToUnlink(i, wanted)) :
         \E gone \in SUBSET (failing \cap wanted) :
           /\ folder' = [folder EXCEPT ![i] = Linked(i, wanted, failing, gone)]
           /\ strayed' = (strayed \ ({i} \X Folder)) \cup ({i} \X failing)
      /\ \E made \in SUBSET {f \in wanted : ~Occupied(folder[i][f]) /\ shared[f] = Missing} :
           shared' = [f \in Folder |-> IF f \in made THEN {} ELSE shared[f]]
      /\ UNCHANGED folders
      /\ apply_files(i, disable)

\* prelaunch.
Launch(i) == apply_to_instance(i, i \in off) /\ UNCHANGED <<files, off, work>>

SetInstanceDisableFileSyncing(i) ==
  /\ off' = IF i \in off THEN off \ {i} ELSE off \cup {i}
  /\ apply_to_instance(i, i \notin off)
  /\ UNCHANGED <<files, work>>

\* enable_all: nothing is linked if one instance has something there, a directory cannot be
\* removed or the shared one cannot be made, but empty directories may be gone; a link that
\* fails leaves those before it.
enable_all(f) ==
  LET todo == {i \in Instance \ off : folder[i][f] # Shared}
      Become(linked, gone) ==
        folder' = [i \in Instance |-> [folder[i] EXCEPT ![f] =
                     IF i \in linked THEN Shared ELSE IF i \in gone THEN Missing ELSE @]]
  IN  \/ /\ \E gone \in SUBSET {i \in todo : ~Occupied(folder[i][f])} : Become({}, gone)
         /\ UNCHANGED <<shared, folders, strayed>>
      \/ /\ \A i \in todo : ~Occupied(folder[i][f])
         /\ \E linked \in SUBSET todo :
              /\ Become(linked, todo)
              /\ folders' = IF linked = todo THEN folders \cup {f} ELSE folders
              /\ strayed' = IF linked = todo THEN strayed \ ((Instance \ off) \X {f})
                            ELSE strayed \cup (todo \X {f})
         /\ shared' = [shared EXCEPT ![f] = IF @ = Missing THEN {} ELSE @]

\* disable_all, of all instances.
disable_all(f) ==
  LET todo == {i \in Instance : folder[i][f] = Shared}
  IN  /\ \E done \in SUBSET todo :
           /\ folder' = [i \in Instance |-> [folder[i] EXCEPT ![f] = IF i \in done THEN Missing ELSE @]]
           /\ folders' = IF done = todo THEN folders \ {f} ELSE folders
           /\ strayed' = IF done = todo THEN strayed \ (Instance \X {f}) ELSE strayed \cup (todo \X {f})
      /\ UNCHANGED shared

SetSyncing ==
  \/ /\ \E f \in Folder : enable_all(f) \/ disable_all(f)
     /\ UNCHANGED <<copying, files, off, work>>
  \/ files' = ~files /\ UNCHANGED <<folding, copying, off, work>>

-----------------------------------------------------------------------------
(* Games and users. *)

Work == work < MaxWork /\ work' = work + 1

\* A game writes into a folder, through the link if it is one.
WriteItem(i, f, item) ==
  /\ Work
  /\ \/ /\ folder[i][f] = Shared /\ shared[f] # Missing
        /\ shared' = [shared EXCEPT ![f] = @ \cup {item}] /\ UNCHANGED <<folder, strayed>>
     \/ /\ folder[i][f] # Shared
        /\ folder' = [folder EXCEPT ![i][f] = IF @ = Missing THEN {item} ELSE @ \cup {item}]
        /\ strayed' = strayed \cup {<<i, f>>} /\ UNCHANGED shared
  /\ UNCHANGED <<folders, copying, files, off>>

\* The user empties or removes a folder, or the shared directory.
Clear(i, f) ==
  /\ Work
  /\ folder' \in {[folder EXCEPT ![i][f] = Missing]}
               \cup {[folder EXCEPT ![i][f] = {}] : x \in {g \in {f} : folder[i][g] # Shared}}
  /\ strayed' = strayed \cup {<<i, f>>}
  /\ UNCHANGED <<shared, folders, copying, files, off>>
ClearShared(f) ==
  /\ Work /\ shared' = [shared EXCEPT ![f] = Missing]
  /\ UNCHANGED <<folder, folders, strayed, copying, files, off>>

\* A game writes a file, or its options: the instance is what tells values apart.
WriteFile(i) ==
  /\ Work /\ time < MaxTime /\ time' = time + 1
  /\ copies' = [copies EXCEPT ![i] = [at |-> time', value |-> i]]
  /\ newest' = [newest EXCEPT !.value = i]
  /\ UNCHANGED <<options, fallback, folding, files, off>>
WriteOptions(i) ==
  /\ Work /\ time < MaxTime /\ time' = time + 1
  /\ \E packs \in Instance :
       options' = [options EXCEPT ![i] = [at |-> time', setting |-> i, packs |-> packs]]
  /\ newest' = [newest EXCEPT !.setting = i]
  /\ UNCHANGED <<copies, fallback, folding, files, off>>

SyncNext ==
  \/ \E i \in Instance : Launch(i) \/ SetInstanceDisableFileSyncing(i) \/ WriteFile(i) \/ WriteOptions(i)
  \/ SetSyncing
  \/ \E i \in Instance, f \in Folder : Clear(i, f) \/ \E item \in Item : WriteItem(i, f, item)
  \/ \E f \in Folder : ClearShared(f)

SyncSpec == SyncInit /\ [][SyncNext]_syncing

-----------------------------------------------------------------------------
\* Whatever calls, launches and failures there were: a folder is a link if it is
\* synced and nothing was in its way, and is not one otherwise, but for folders that
\* a user, a game or a failure has had a hand in since the last launch.
SyncedIsLinked ==
  \A i \in Instance, f \in Folder :
    <<i, f>> \notin strayed =>
      IF f \in Targets(i \in off) THEN folder[i][f] = Shared \/ Occupied(folder[i][f])
      ELSE folder[i][f] # Shared

\* The launcher removes nothing that was in a folder, and no call but a game's
\* gives an instance that has resource packs other ones.
NothingIsTaken ==
  [][work' = work =>
       /\ \A i \in Instance, f \in Folder : Occupied(folder[i][f]) => folder'[i][f] = folder[i][f]
       /\ \A f \in Folder : shared[f] # Missing => shared'[f] = shared[f]
       /\ \A i \in Instance : options[i].packs # Missing => options'[i].packs = options[i].packs]_syncing

\* What a launch gives an instance is what any game wrote last, as long as no copy has
\* been cut off since: what is left of one is newest, and what all others are given.
LatestIsShared ==
  [][\A i \in Instance :
       /\ options'[i].at > options[i].at => options'[i].setting = newest'.setting
       /\ copies'[i].at > copies[i].at => copies'[i].value = newest'.value]_syncing

\* Syncing shares what is to be shared and is newest, and takes nothing away.
SharedIsKept == [](SyncType /\ SyncedIsLinked) /\ NothingIsTaken /\ LatestIsShared
=============================================================================
