----------------------------- MODULE SkinLibrary -----------------------------
(***************************************************************************)
(* The skin library: the folder of skins, its loads                        *)
(* (backend/src/skin_manager.rs), the events that make it dirty, and the   *)
(* page that shows it (frontend/src/entity/mod.rs).                        *)
(*                                                                         *)
(* It resembles the loads of InstanceLoad, but a load runs on a blocking   *)
(* thread, nobody waits for it, everything is behind the one lock of the   *)
(* SkinManager, which is not reentrant, and a load that ends starts the    *)
(* next one by itself, the lock in hand.                                   *)
(*                                                                         *)
(* The contents of a file are numbered by the changes made to it; 0 is no  *)
(* skin.  The load state of the library is that of InstanceLoad.           *)
(***************************************************************************)
EXTENDS Naturals, Sequences

CONSTANTS
  Path,       \* files of the folder
  MaxChanges, \* bound: changes of each file
  MaxFolders, \* bound: how often the folder goes away
  MaxInbox    \* bound: SkinLibraryUpdated messages on their way

BoundAssumption == MaxChanges \in Nat /\ MaxFolders \in Nat /\ MaxInbox \in Nat

VARIABLES
  disk,     \* what is in each file
  changes,  \* how often each file was changed
  folder,   \* the folder is there
  removals, \* how often it went away
  events,   \* files whose event has not been handled
  event,    \* the event of the folder that has not been handled
  watched,  \* the folder is watched
  flags,    \* skin_library_state
  dirty,    \* skin_library_changes
  library,  \* skin_library_last
  load,     \* the load
  request,  \* a RequestSkinLibrary is on its way
  inbox,    \* SkinLibraryUpdated messages on their way
  view,     \* the library the frontend has
  observing \* the frontend is between set_observed and should_load

files == <<disk, changes, folder, removals>>
backend == <<watched, flags, dirty, library>>
frontend == <<request, inbox, view, observing>>
vars == <<files, events, event, backend, load, frontend>>

Content == 0 .. MaxChanges
Empty == [p \in Path |-> 0]
NotYet == <<>>

Flag == {"loading", "observed", "dirty", "rest"}
UNLOADED == Flag \ {"loading"}
should_load(f) == f \in {{"observed", "dirty"}, UNLOADED}

no_changes == [all |-> FALSE, paths |-> {}]
all_dirty == [all |-> TRUE, paths |-> {}]

NoLoad == [pc |-> "none", all |-> FALSE, fresh |-> {}, todo |-> {}, snap |-> Empty]

TypeOK ==
  /\ disk \in [Path -> Content] /\ changes \in [Path -> Content]
  /\ folder \in BOOLEAN /\ removals \in 0 .. MaxFolders
  /\ events \subseteq Path /\ event \in {"none", "removed", "created"}
  /\ watched \in BOOLEAN /\ flags \subseteq Flag
  /\ dirty \in [all : BOOLEAN, paths : SUBSET Path] /\ (dirty.all => dirty.paths = {})
  /\ library \in [Path -> Content]
  /\ load \in [pc : {"none", "list", "read", "sent", "finished", "stuck"}, all : BOOLEAN,
               fresh : SUBSET Path, todo : SUBSET Path, snap : [Path -> Content]]
  /\ request \in BOOLEAN /\ inbox \in Seq([Path -> Content])
  /\ view \in [Path -> Content] \cup {NotYet} /\ observing \in BOOLEAN

Init ==
  /\ folder \in BOOLEAN
  /\ changes \in [Path -> {0, 1}]
  /\ disk = [p \in Path |-> IF folder THEN changes[p] ELSE 0]
  /\ removals = 0
  /\ events = {} /\ event = "none"
  /\ watched = FALSE /\ flags = UNLOADED /\ dirty = all_dirty /\ library = Empty
  /\ load = NoLoad
  /\ request = FALSE /\ inbox = <<>> /\ view = NotYet /\ observing = FALSE

-----------------------------------------------------------------------------
(* The files.  The root folder is always watched. *)

ChangeFile(p) ==
  /\ folder /\ changes[p] < MaxChanges
  /\ changes' = [changes EXCEPT ![p] = @ + 1]
  /\ disk' = [disk EXCEPT ![p] = changes'[p]]
  /\ events' = IF watched THEN events \cup {p} ELSE events
  /\ UNCHANGED <<folder, removals, event, backend, load, frontend>>

DeleteFile(p) ==
  /\ disk[p] # 0
  /\ disk' = [disk EXCEPT ![p] = 0]
  /\ events' = IF watched THEN events \cup {p} ELSE events
  /\ UNCHANGED <<changes, folder, removals, event, backend, load, frontend>>

\* A removal is reported before the folder is there again: what happens when
\* it is not is the subject of FileWatching.
RemoveFolder ==
  /\ folder /\ removals < MaxFolders /\ event = "none"
  /\ folder' = FALSE /\ removals' = removals + 1
  /\ disk' = Empty
  /\ event' = IF watched THEN "removed" ELSE "none"
  /\ UNCHANGED <<changes, events, backend, load, frontend>>

CreateFolder ==
  /\ ~folder /\ event = "none"
  /\ folder' = TRUE
  /\ event' = "created"
  /\ UNCHANGED <<disk, changes, removals, events, backend, load, frontend>>

-----------------------------------------------------------------------------
(* load_skin_library, skin_library_mark_dirty and the events. *)

\* The write guard of the SkinManager is held by a load that is about to end.
Locked == load.pc \in {"sent", "finished", "stuck"}

may_start(f, c) == c # no_changes /\ should_load(f)

load_started(f) == {"loading"}

\* load_skin_library, with flags f and changes c.
load_skin_library(f, c) ==
  IF may_start(f, c)
  THEN /\ flags' = load_started(f)
       /\ dirty' = no_changes
       /\ load' = [pc |-> IF c.all THEN "list" ELSE "read", all |-> c.all, fresh |-> c.paths,
                   todo |-> c.paths, snap |-> Empty]
  ELSE flags' = f /\ dirty' = c /\ UNCHANGED load

\* watch_filesystem: a folder that is not there cannot be watched.
Watches == watched \/ folder

\* (A bug: the new changes take the place of the old ones.)
replace(c, other) == c
apply_to(c, other) ==
  IF c.all \/ other.all THEN all_dirty ELSE [all |-> FALSE, paths |-> c.paths \cup other.paths]

\* skin_library_mark_dirty(c), after which the folder is watched or not.
mark_dirty(c, watching) ==
  LET f == flags \cup {"dirty"}
      starts == should_load(f) /\ may_start(f, apply_to(c, dirty))
  IN
  IF c = no_changes THEN watched' = watching /\ UNCHANGED <<flags, dirty, load>>
  ELSE /\ watched' = (watching \/ (starts /\ folder))
       /\ IF should_load(f) THEN load_skin_library(f, apply_to(c, dirty))
          ELSE flags' = f /\ dirty' = apply_to(c, dirty) /\ UNCHANGED load

\* RequestSkinLibrary.
HandleRequest ==
  /\ ~Locked /\ request
  /\ request' = FALSE
  /\ watched' = (watched \/ (may_start(flags, dirty) /\ folder))
  /\ load_skin_library(flags, dirty)
  /\ UNCHANGED <<files, events, event, library, inbox, view, observing>>

\* A batch of events of files.
HandleFiles ==
  /\ ~Locked
  /\ \E batch \in (SUBSET events) \ {{}} :
       /\ events' = events \ batch
       /\ mark_dirty([all |-> FALSE, paths |-> batch], watched)
  /\ UNCHANGED <<files, event, library, frontend>>

\* The folder has gone: what watched it has gone with it.
HandleRemoval ==
  /\ ~Locked /\ event = "removed"
  /\ event' = "none"
  /\ mark_dirty(all_dirty, FALSE)
  /\ UNCHANGED <<files, events, library, frontend>>

is_not_unloaded(f) == f # UNLOADED

\* The folder is there: it is watched again, unless nobody has asked for it.
HandleCreation ==
  /\ ~Locked /\ event = "created"
  /\ event' = "none"
  /\ IF is_not_unloaded(flags) THEN mark_dirty(all_dirty, Watches)
     ELSE UNCHANGED <<watched, flags, dirty, load>>
  /\ UNCHANGED <<files, events, library, frontend>>

-----------------------------------------------------------------------------
(* The blocking thread of a load. *)

\* The folder is listed, if it is there.
LoadList ==
  /\ load.pc = "list"
  /\ load' = [load EXCEPT !.pc = "read", !.fresh = Path, !.todo = {p \in Path : disk[p] # 0}]
  /\ UNCHANGED <<files, events, event, backend, frontend>>

LoadRead(p) ==
  /\ load.pc = "read" /\ p \in load.todo
  /\ load' = [load EXCEPT !.todo = @ \ {p}, !.snap[p] = disk[p]]
  /\ UNCHANGED <<files, events, event, backend, frontend>>

merged(l) == [p \in Path |-> IF p \in l.fresh THEN l.snap[p] ELSE library[p]]

\* All is read: the lock is taken, the library replaced and sent.
LoadSend ==
  /\ load.pc = "read" /\ load.todo = {} /\ Len(inbox) < MaxInbox
  /\ library' = merged(load)
  /\ inbox' = Append(inbox, library')
  /\ load' = [load EXCEPT !.pc = "sent"]
  /\ UNCHANGED <<files, events, event, watched, flags, dirty, request, view, observing>>

load_finished(f) == f \ {"loading"}

LoadFinish ==
  /\ load.pc = "sent"
  /\ flags' = load_finished(flags)
  /\ load' = [load EXCEPT !.pc = "finished"]
  /\ UNCHANGED <<files, events, event, watched, dirty, library, frontend>>

\* When there is more to load load_skin_library is called, which takes the lock
\* that this thread holds; else the lock is given back.
LoadEnd ==
  /\ load.pc = "finished"
  /\ load' = IF should_load(flags) THEN [load EXCEPT !.pc = "stuck"] ELSE NoLoad
  /\ UNCHANGED <<files, events, event, backend, frontend>>

-----------------------------------------------------------------------------
(* The frontend, use_skin_library and set_skin_library. *)

\* The page is drawn: there is nothing yet; or what there is has been seen.
DrawNothing ==
  /\ view = NotYet /\ ~request
  /\ request' = TRUE
  /\ UNCHANGED <<files, events, event, backend, load, inbox, view, observing>>

DrawObserve ==
  /\ view # NotYet /\ ~observing
  /\ flags' = flags \cup {"observed"}
  /\ observing' = TRUE
  /\ UNCHANGED <<files, events, event, watched, dirty, library, load, request, inbox, view>>

DrawRequest ==
  /\ observing
  /\ observing' = FALSE
  /\ request' = (request \/ should_load(flags))
  /\ UNCHANGED <<files, events, event, backend, load, inbox, view>>

Receive ==
  /\ inbox # <<>>
  /\ view' = Head(inbox)
  /\ inbox' = Tail(inbox)
  /\ UNCHANGED <<files, events, event, backend, load, request, observing>>

-----------------------------------------------------------------------------
HandleEvents == HandleFiles \/ HandleRemoval \/ HandleCreation
LoadStep == LoadList \/ (\E p \in Path : LoadRead(p)) \/ LoadSend \/ LoadFinish \/ LoadEnd
Draw == DrawNothing \/ DrawObserve \/ DrawRequest

Next ==
  \/ \E p \in Path : ChangeFile(p) \/ DeleteFile(p)
  \/ RemoveFolder \/ CreateFolder
  \/ HandleRequest \/ HandleEvents
  \/ LoadStep \/ Draw \/ Receive

Spec == Init /\ [][Next]_vars

\* Threads run, the handler takes messages and events in turn, and the page is
\* on the screen.
Fairness ==
  /\ WF_vars(LoadStep) /\ SF_vars(HandleRequest) /\ SF_vars(HandleEvents)
  /\ WF_vars(Draw) /\ WF_vars(Receive)

FairSpec == Spec /\ Fairness

-----------------------------------------------------------------------------
(* Properties. *)

\* What p will be made of is not settled: a change is dirty, announced, or the
\* load that runs has yet to read it or has read what is there.
Covered(p) ==
  \/ dirty.all \/ p \in dirty.paths \/ p \in events \/ event # "none"
  \/ load.pc = "list"
  \/ load.pc = "read" /\ p \in load.fresh /\ (p \in load.todo \/ load.snap[p] = disk[p])

\* A skin of the library that is not what the file is now will be looked at
\* again: no change is forgotten between the dirty set, the load and the events,
\* nor when the folder goes away and comes back.
StaleIsCovered == \A p \in Path : library[p] # disk[p] => Covered(p)

\* No thread waits for a lock that it holds itself (main.rs looks for deadlocks
\* every ten seconds and reports them as errors).
NoDeadlock == load.pc # "stuck"

\* An open page ends up with what is in the folder, unless a load comes to wait
\* for its own lock.
EventuallyShown == []NoDeadlock => <>[](view = disk)
=============================================================================
