--------------------------- MODULE InstanceRegistry ---------------------------
(***************************************************************************)
(* Which instances there are (backend/src/backend.rs): the launcher loads  *)
(* the folders of its instances directory, creates, renames and deletes    *)
(* them itself, and follows what other programs do to them by the events   *)
(* of the directories it watches (backend_filesystem.rs).                  *)
(*                                                                         *)
(* An instance is kept in an IdSlab; of it, the folder it was loaded from. *)
(* Events are handled one by one and a handler is one step.                *)
(***************************************************************************)
EXTENDS IdSlab, Sequences

CONSTANTS
  Folder,      \* names of folders; an instance has the name of its folder
  Dir,         \* the instances directory itself
  InstancesDir, InvalidInstanceDir,  \* targets; the third is the id of an instance
  None,
  MaxChanges,  \* bound: what happens to the folders
  MaxEvents    \* bound: events that wait

RegistryAssumption ==
  /\ Value = Folder /\ Dir \notin Folder /\ MaxChanges \in Nat
  /\ InstancesDir # InvalidInstanceDir /\ {InstancesDir, InvalidInstanceDir, None} \cap Id = {}

VARIABLES
  disk,        \* absent, a folder with a readable info_v1.json or without, or a plain file
  exists,      \* the instances directory exists
  watching,    \* the target each path is watched under
  invalid,     \* the path of the target InvalidInstanceDir, which all such folders share
  heard,       \* what the system watches
  loading,     \* folders that load_all_instances is about to load
  events,      \* the events that wait
  changes,     \* counted
  taken,       \* instances whose watch was taken by an invalid folder (history)
  missed       \* folders of which a change was not reported or not looked at (history)

files == <<disk, exists, heard>>
maps == <<watching, invalid, taken>>
vars == <<slab, files, maps, loading, events, changes, missed>>

WatchTarget == Id \cup {InstancesDir, InvalidInstanceDir, None}
Event == [kind : {"change", "remove"}, path : Folder \cup {Dir}]
           \cup [kind : {"info", "noinfo"}, path : Folder]
           \cup [kind : {"rename"}, path : Folder, to : Folder]

TypeOK ==
  /\ SlabType
  /\ disk \in [Folder -> {"absent", "instance", "invalid", "file"}] /\ exists \in BOOLEAN
  /\ watching \in [Folder \cup {Dir} -> WatchTarget] /\ invalid \in Folder \cup {None}
  /\ heard \subseteq Folder \cup {Dir}
  /\ loading \subseteq Folder /\ events \in Seq(Event)
  /\ changes \in 0 .. MaxChanges /\ missed \subseteq Folder /\ taken \subseteq Folder

Instances == {f \in Folder : disk[f] = "instance"}
IsDir(p) == IF p = Dir THEN exists ELSE disk[p] \in {"instance", "invalid"}

\* The launcher is started on any directory, and load_all_instances is to come.
Init ==
  /\ SlabInit
  /\ disk \in [Folder -> {"absent", "instance", "invalid", "file"}] /\ exists = TRUE
  /\ watching = [p \in Folder \cup {Dir} |-> None] /\ invalid = None
  /\ heard = {} /\ loading = {}
  /\ events = <<[kind |-> "change", path |-> Dir]>>
  /\ changes = 0 /\ missed = {} /\ taken = {}

-----------------------------------------------------------------------------
(* Watching (see FileWatching), as far as these folders are concerned. *)

Watched == [on |-> watching, invalid |-> invalid, heard |-> heard]
Watch(m) ==
  /\ watching' = m.on /\ invalid' = m.invalid /\ heard' = m.heard
  /\ taken' = taken \cup {f \in Stored' : watching[f] \in Id /\ m.on[f] = None}

\* remove(p) of the maps: the target p is watched under is forgotten as well.
forget(m, p) ==
  [on |-> [m.on EXCEPT ![p] = None], heard |-> m.heard,
   invalid |-> IF m.on[p] = InvalidInstanceDir THEN None ELSE m.invalid]

\* watch_filesystem(p, t): the path that the target had before is forgotten,
\* whatever it is watched for by now.
\* (A bug: the target keeps the first path.)
watch_first(m, p, t) ==
  IF ~IsDir(p) \/ m.on[p] # None THEN m
  ELSE [on |-> [m.on EXCEPT ![p] = t], invalid |-> IF t = InvalidInstanceDir THEN p ELSE m.invalid,
        heard |-> m.heard \cup {p}]
watch(m, p, t) ==
  LET shared == t = InvalidInstanceDir
      cleared == IF shared /\ m.invalid # None THEN forget(m, m.invalid) ELSE m
  IN  IF ~IsDir(p) \/ (IF shared THEN m.invalid = p ELSE m.on[p] = t) THEN m
      ELSE [on |-> [cleared.on EXCEPT ![p] = t],
            invalid |-> IF shared THEN p ELSE cleared.invalid,
            heard |-> m.heard \cup {p}]

\* load_instance_from_path: an instance that is known is brought up to date, one
\* that is not is inserted and watched, and one that cannot be read is dropped
\* and watched as an invalid one, by callers that do so.
load_instance_from_path(f, m, watches) ==
  \/ /\ disk[f] # "instance"
     /\ retain(Folder \ {f})
     /\ Watch(IF watches THEN watch(m, f, InvalidInstanceDir) ELSE m)
  \/ /\ disk[f] = "instance" /\ f \in Stored
     /\ UNCHANGED slab /\ Watch(m)
  \/ /\ disk[f] = "instance" /\ f \notin Stored
     /\ insert(f)
     /\ \E i \in Index : slots'[i] # slots[i] /\ Watch(watch(m, f, slots'[i].id))

-----------------------------------------------------------------------------
(* Events. *)

Subject == Head(events).path
Handle(kind) ==
  /\ loading = {} /\ events # <<>> /\ Head(events).kind = kind
  /\ events' = Tail(events)
  /\ UNCHANGED <<disk, exists, changes>>

\* An event that comes late: what it tells is not so any more, and no later one
\* will tell.
Outdated(otherwise) == otherwise /\ \A i \in 2 .. Len(events) : events[i].path # Subject

\* handle_filesystem drops an event if the next one of the batch has its path.
SamePath(a, b) ==
  /\ a.path = b.path
  /\ {a.kind, b.kind} \subseteq {"change", "remove"} \/ {a.kind, b.kind} \subseteq {"info", "noinfo"}
Coalesce ==
  /\ loading = {} /\ Len(events) > 1 /\ SamePath(events[1], events[2])
  /\ events' = Tail(events)
  /\ UNCHANGED <<slab, files, maps, loading, changes, missed>>

\* load_all_instances returns at the first plain file, and unwraps the directory.
\* (An instance whose folder is gone stays as it is.)
ListInstances ==
  /\ Handle("change") /\ Subject = Dir /\ exists
  /\ UNCHANGED slab
  /\ Watch(watch(Watched, Dir, InstancesDir))
  /\ IF \E f \in Folder : disk[f] = "file"
     THEN loading' = {} /\ missed' = missed \cup Instances \cup Stored
     ELSE loading' = {f \in Folder : disk[f] # "absent"} /\ UNCHANGED missed

LoadNext(f) ==
  /\ f \in loading /\ loading' = loading \ {f}
  /\ load_instance_from_path(f, Watched, TRUE)
  /\ UNCHANGED <<disk, exists, events, changes, missed>>

\* The directory is gone, with all instances.
DirRemoved ==
  /\ Handle("remove") /\ Subject = Dir
  /\ IF watching[Dir] = InstancesDir THEN retain({}) ELSE UNCHANGED slab
  /\ Watch([forget(Watched, Dir) EXCEPT !.heard = @ \ {Dir}])
  /\ UNCHANGED <<loading, missed>>

\* A folder appears, or may have been changed.
FolderChanged ==
  /\ Handle("change") /\ Subject # Dir
  /\ IF IsDir(Subject) /\ watching[Dir] # None
     THEN load_instance_from_path(Subject, Watched, TRUE) /\ UNCHANGED missed
     ELSE UNCHANGED <<slab, maps, heard>> /\ missed' = missed \cup {Subject}
  /\ UNCHANGED loading

\* A folder is gone.  Only those that are watched for an instance take it along.
FolderRemoved ==
  /\ Handle("remove") /\ Subject # Dir
  /\ IF watching[Subject] \in Id THEN remove(watching[Subject]) ELSE UNCHANGED slab
  /\ Watch([forget(Watched, Subject) EXCEPT !.heard = @ \ {Subject}])
  /\ missed' = IF watching[Subject] = None \/ Outdated(disk[Subject] # "absent")
               THEN missed \cup {Subject} ELSE missed
  /\ UNCHANGED loading

\* info_v1.json was written: a change of the instance's configuration, or a
\* folder that may be an instance now.
InfoChanged ==
  /\ Handle("info")
  /\ LET t == watching[Subject]
         known == t \in Id /\ get(t) # Vacant
     IN  /\ IF t = None \/ known THEN UNCHANGED <<slab, maps, heard>>
            ELSE load_instance_from_path(Subject, Watched, FALSE)
         /\ missed' = IF t = None THEN missed \cup {Subject} ELSE missed
  /\ UNCHANGED loading

InfoRemoved ==
  /\ Handle("noinfo")
  /\ LET t == watching[Subject] IN
     /\ IF t \in Id THEN remove(t) /\ Watch(watch(Watched, Subject, InvalidInstanceDir))
        ELSE UNCHANGED <<slab, maps, heard>>
     /\ missed' = IF t = None \/ Outdated(disk[Subject] = "instance")
                  THEN missed \cup {Subject} ELSE missed
  /\ UNCHANGED loading

\* A folder has another name: the instance that is watched there goes along, any
\* other folder is as if it had appeared.
FolderRenamed ==
  /\ Handle("rename")
  /\ LET t == watching[Subject]
         to == Head(events).to
         m == [forget(Watched, Subject) EXCEPT !.heard = @ \ {Subject}]
         moves == t \in Id /\ get(t) # Vacant
     IN  /\ IF moves THEN update(t, to) /\ Watch(watch(m, to, t))
            ELSE IF IsDir(to) THEN load_instance_from_path(to, m, TRUE)
            ELSE UNCHANGED slab /\ Watch(m)
         /\ missed' = missed
              \cup (IF t = None \/ Outdated(disk[Subject] # "absent") THEN {Subject} ELSE {})
              \cup (IF moves /\ (disk[to] # "instance" \/ to \in Stored) THEN {to} ELSE {})
  /\ UNCHANGED loading

HandleEvent ==
  \/ Coalesce \/ ListInstances \/ DirRemoved
  \/ FolderChanged \/ FolderRemoved \/ InfoChanged \/ InfoRemoved \/ FolderRenamed

-----------------------------------------------------------------------------
(* What becomes of the folders: by other programs, and by the launcher. *)

\* Folders come to be as they are now.  The event is reported if who should hear it
\* does; a folder may yet be looked at for another event, or be found in the directory.
Reported(by, folders, es) ==
  /\ changes < MaxChanges /\ changes' = changes + 1 /\ exists
  /\ Len(events) + Len(es) <= MaxEvents
  /\ LET waiting == {events[i].path : i \in {j \in 1 .. Len(events) : events[j].kind = "change"}}
         listed == IF Dir \in waiting THEN {f \in Folder : disk'[f] # "absent" \/ f \notin Stored} ELSE {}
     IN  IF by \in heard THEN events' = events \o es /\ UNCHANGED missed
         ELSE UNCHANGED events /\ missed' = missed \cup (folders \ (loading \cup waiting \cup listed))
  /\ UNCHANGED <<slab, maps, loading, exists>>

E(kind, f) == [kind |-> kind, path |-> f]

Appears(f) ==
  /\ disk[f] = "absent"
  /\ disk' \in {[disk EXCEPT ![f] = k] : k \in {"instance", "invalid", "file"}}
  /\ Reported(Dir, {f}, <<E("change", f)>>) /\ UNCHANGED heard

WritesInfo(f) ==
  /\ IsDir(f)
  /\ disk' = [disk EXCEPT ![f] = "instance"]
  /\ Reported(f, {f}, <<E("info", f)>>) /\ UNCHANGED heard

LosesInfo(f) ==
  /\ disk[f] = "instance"
  /\ disk' = [disk EXCEPT ![f] = "invalid"]
  /\ Reported(f, {f}, <<E("noinfo", f)>>) /\ UNCHANGED heard

Disappears(f) ==
  /\ disk[f] # "absent"
  /\ disk' = [disk EXCEPT ![f] = "absent"] /\ heard' = heard \ {f}
  /\ Reported(Dir, {f}, <<E("remove", f)>>)

Moves(f, g) ==
  /\ IsDir(f) /\ disk[g] = "absent"
  /\ disk' = [disk EXCEPT ![g] = disk[f], ![f] = "absent"] /\ heard' = heard \ {f}
  /\ Reported(Dir, {f, g}, <<[kind |-> "rename", path |-> f, to |-> g]>>)

\* The instances directory, empty by then, or made again.
DirMoves ==
  /\ changes < MaxChanges /\ changes' = changes + 1 /\ Len(events) < MaxEvents
  /\ \A f \in Folder : disk[f] = "absent"
  /\ exists' = ~exists
  /\ events' = Append(events, E(IF exists THEN "remove" ELSE "change", Dir))
  /\ heard' = IF exists THEN {} ELSE heard
  /\ UNCHANGED <<slab, disk, maps, loading, missed>>

\* create_instance, under a name no instance has; a plain file there is a panic.
CreateInstance(f) ==
  /\ loading = {} /\ f \notin Stored
  /\ \/ disk[f] = "absent" /\ Appears(f) /\ disk'[f] = "instance"
     \/ WritesInfo(f)

\* DeleteInstance and RenameInstance, by an id the frontend has had.
DeleteInstance(id) ==
  /\ loading = {} /\ get(id) # Vacant
  /\ Disappears(get(id)) \/ LosesInfo(get(id))
RenameInstance(id, name) ==
  /\ loading = {} /\ get(id) # Vacant /\ name \notin Stored
  /\ Moves(get(id), name)

Change ==
  \/ \E f \in Folder : Appears(f) \/ WritesInfo(f) \/ LosesInfo(f) \/ Disappears(f) \/ CreateInstance(f)
  \/ \E f, g \in Folder : Moves(f, g)
  \/ DirMoves
  \/ \E id \in Id : DeleteInstance(id) \/ \E name \in Folder : RenameInstance(id, name)

Next == HandleEvent \/ (\E f \in Folder : LoadNext(f)) \/ Change

Spec == Init /\ [][Next]_vars

-----------------------------------------------------------------------------
\* When all events have been handled the instances are the folders that can be read
\* as one, and no others: but for folders of which a change was not reported, or dropped.
FoldersAreInstances ==
  events = <<>> /\ loading = {} => \A f \in Folder \ missed : f \in Stored <=> f \in Instances

\* At any time an instance is watched under its own id, but for those folders and
\* instances whose watch was taken; and what happens to a folder is never taken for
\* something that happens to the instance in another one.
InstancesAreWatched ==
  /\ \A f \in Stored \ (missed \cup taken) :
       \E i \in Index : slots[i] = [id |-> watching[f], value |-> f]
  /\ \A f \in Folder : watching[f] \in Id => get(watching[f]) \in {f, Vacant}

\* No two instances have the same folder.
OnePerFolder ==
  \A i, j \in Index :
    slots[i] # Vacant /\ slots[j] # Vacant /\ slots[i].value = slots[j].value =>
      i = j \/ slots[i].value \in missed

\* The instances are what is on the disk, and an id is never the id of another one.
RegistryIsDisk ==
  [](TypeOK /\ FoldersAreInstances /\ InstancesAreWatched /\ OnePerFolder) /\ ImplementsIdMap
=============================================================================
