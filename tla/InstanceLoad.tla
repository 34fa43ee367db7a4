---------------------------- MODULE InstanceLoad ----------------------------
(***************************************************************************)
(* How one piece of an instance's data -- the mods or resource packs       *)
(* folder, or servers.dat -- travels from the disk to the page that shows  *)
(* it (backend/src/instance.rs, bridge/src/message.rs and the pages of the *)
(* frontend).                                                              *)
(*                                                                         *)
(* The disk changes at any time.  The file watcher queues an event, the    *)
(* backend marks the data dirty, and a load task takes the dirty set,      *)
(* reads the files on a blocking thread, publishes a snapshot and sends it *)
(* to the frontend.  Tasks interleave only where they await; the blocking  *)
(* read, the watcher, the user and the frontend thread run in parallel     *)
(* with them.                                                              *)
(*                                                                         *)
(* The states a file goes through are numbered: disk[p] is the number of   *)
(* changes made to p (or to its .aux.json) so far, and <<p, n>> \in        *)
(* Missing says that p does not exist in its n-th state.  A summary is     *)
(* represented by the state of the file it was read from.                  *)
(***************************************************************************)
EXTENDS Naturals, Sequences

CONSTANTS
  Path,          \* the files of the folder
  Missing,       \* {<<p, n>> : p does not exist in its n-th state}
  Task,          \* slots for load tasks: bounds how many exist at a time
  None,          \* no task
  Kinds,         \* of "content" (mods, resource packs) and "servers"
  Reloads,       \* the values of `reload` that dirty-all callers pass
  MaxVersion,    \* bounds the number of changes made to each file
  MaxInbox       \* bound on the updates the frontend has not taken yet

ASSUME TaskAssumption == None \notin Task
ASSUME MissingAssumption == Missing \subseteq Path \X Nat
ASSUME KindsAssumption == Kinds \subseteq {"content", "servers"}
ASSUME ReloadsAssumption == Reloads \subseteq BOOLEAN
ASSUME BoundAssumption == MaxVersion \in [Path -> Nat] /\ MaxInbox \in Nat

\* A load task does not exist, is about to look at the state, awaits another
\* load, awaits its own read, or has returned to the handler that awaits it.
Stage == {"idle", "entry", "wait", "reading", "returned"}

Version == Nat
Snapshot == [Path -> Version]
Empty == [p \in Path |-> 0]

VARIABLES
  \* Instance / ContentFolderState, guarded by the instance_state lock
  alive,         \* the instance is in the slab under the id the tasks use
  flags,         \* the bits of BridgeDataLoadState
  dirty,         \* FolderChanges: everything, or a set of paths
  pending,       \* the task whose signal is the pending load; None as well
                 \* when that signal has been notified
  loaded,        \* summaries is Some
  data,          \* the summaries, when loaded
  watched,       \* the folder is watched
  \* load tasks
  pc,            \* where each task stands
  signal,        \* the task whose signal a waiting task awaits
  fresh,         \* the paths the blocking read takes from the disk
  todo,          \* the paths the blocking read has not come to yet
  snap,          \* the summaries the blocking read has so far
  handler,       \* the load the message handler itself is awaiting, if any
  \* the world outside the backend
  kind,          \* which kind of data this is
  disk,          \* the state of every file
  events,        \* file events the watcher has not delivered
  \* frontend
  visible,       \* a page showing this data is open
  render,        \* gpui has been told to render the page
  observed,      \* the render is between set_observed and should_load
  request,       \* a RequestLoad message is in the backend's queue
  inbox,         \* Instance..Updated messages not handled by the frontend
  view           \* what the page shows

backend  == <<alive, flags, dirty, pending, loaded, data, watched>>
tasks    == <<pc, signal, fresh, todo, snap, handler>>
outside  == <<kind, disk, events>>
frontend == <<visible, render, observed, request, inbox, view>>
vars     == <<backend, tasks, outside, frontend>>

-----------------------------------------------------------------------------
(* BridgeDataLoadState: one byte, with the five bits that have no name of  *)
(* their own taken together as "rest".  UNLOADED is every bit but LOADING. *)

Flag == {"loading", "observed", "dirty", "rest"}
UNLOADED == Flag \ {"loading"}

should_load(f) == f \in {{"observed", "dirty"}, UNLOADED}
set_observed(f) == f \cup {"observed"}
set_dirty(f) == f \cup {"dirty"}
load_started == {"loading"}
\* (A bug: DIRTY is cleared too, as if nothing had changed since the start.)
finish_clean(f) == f \ {"loading", "dirty"}
load_finished(f) == f \ {"loading"}

(* FolderChanges.  dirty_servers is the case in which there are no paths.  *)

FolderChanges == [all: BOOLEAN, paths: SUBSET Path]
no_changes == [all |-> FALSE, paths |-> {}]
all_dirty == [all |-> TRUE, paths |-> {}]
is_empty(c) == c = no_changes
apply_to(c, other) ==
  IF c.all \/ other.all THEN all_dirty
  ELSE [all |-> FALSE, paths |-> other.paths \cup c.paths]

Exists(p, n) == <<p, n>> \notin Missing

\* (A bug: the first load of all is not waited for.)
InFlightLater == loaded /\ pending # None
\* A load is pending and its signal has not been notified.
InFlight == pending # None

\* Nothing changed since the last load.
NothingToLoad == loaded /\ is_empty(dirty)

-----------------------------------------------------------------------------
(* A file event names a file or the .aux.json that belongs to it. *)

Event == [path: Path, aux: BOOLEAN]

\* (A bug: a .aux.json is ignored when no summary is the one it belongs to.)
ChangesOfPublished(batch) ==
  [all |-> FALSE, paths |-> {e.path : e \in {e \in batch :
                       ~e.aux \/ (loaded /\ Exists(e.path, data[e.path]))}}]

\* The changes a batch of events amounts to.  The .aux.json of a content file
\* is found through the published summaries; one that belongs to none of them
\* dirties the whole folder.  Any event about servers.dat dirties it all.
ChangesOf(batch) ==
  LET known   == {e \in batch : ~e.aux \/ (loaded /\ Exists(e.path, data[e.path]))}
  IN  IF kind = "servers" \/ known # batch THEN all_dirty
      ELSE [all |-> FALSE, paths |-> {e.path : e \in batch}]

\* tokio::task::spawn of a load, when `needed`; q is the value pc has otherwise.
Spawn(needed, q) ==
  IF needed
  THEN \E t \in Task : q[t] = "idle" /\ pc' = [q EXCEPT ![t] = "entry"]
  ELSE pc' = q

\* mark_content_dirty and mark_servers_dirty; the latter has nothing left to
\* do when the data is dirty already.
MarkDirty(changes, reload) ==
  IF is_empty(changes) \/ (kind = "servers" /\ dirty.all)
  THEN UNCHANGED <<dirty, flags, pc>>
  ELSE /\ dirty' = apply_to(changes, dirty)
       /\ flags' = set_dirty(flags)
       /\ Spawn(reload /\ should_load(flags'), pc)

-----------------------------------------------------------------------------
TypeOK ==
  /\ alive \in BOOLEAN
  /\ flags \in SUBSET Flag
  /\ dirty \in FolderChanges
  /\ pending \in Task \cup {None}
  /\ loaded \in BOOLEAN
  /\ data \in Snapshot
  /\ watched \in BOOLEAN
  /\ pc \in [Task -> Stage]
  /\ signal \in [Task -> Task \cup {None}]
  /\ fresh \in [Task -> SUBSET Path]
  /\ todo \in [Task -> SUBSET Path]
  /\ snap \in [Task -> Snapshot]
  /\ handler \in Task \cup {None}
  /\ kind \in Kinds
  /\ disk \in Snapshot
  /\ events \in SUBSET Event
  /\ visible \in BOOLEAN
  /\ render \in BOOLEAN
  /\ observed \in BOOLEAN
  /\ request \in BOOLEAN
  /\ inbox \in Seq(Snapshot)
  /\ view \in Snapshot

Init ==
  /\ alive = TRUE
  /\ flags = UNLOADED
  /\ dirty = all_dirty
  /\ pending = None
  /\ loaded = FALSE
  /\ data = Empty
  /\ watched = FALSE
  /\ pc = [t \in Task |-> "idle"]
  /\ signal = [t \in Task |-> None]
  /\ fresh = [t \in Task |-> {}]
  /\ todo = [t \in Task |-> {}]
  /\ snap = [t \in Task |-> Empty]
  /\ handler = None
  /\ kind \in Kinds
  /\ disk = Empty
  /\ events = {}
  /\ visible = FALSE
  /\ render = FALSE
  /\ observed = FALSE
  /\ request = FALSE
  /\ inbox = <<>>
  /\ view = Empty

-----------------------------------------------------------------------------
(* The disk, and the callers that dirty data without a file event.  The   *)
(* backend handles one message, one batch of events or one tick at a time, *)
(* and none while a handler awaits a load (handler # None).                *)

\* A program creates, writes or removes a file of the folder.  What happens to
\* the files of a removed instance is of no interest.
ChangeFile(p) ==
  /\ alive /\ disk[p] < MaxVersion[p]
  /\ disk' = [disk EXCEPT ![p] = @ + 1] /\ UNCHANGED kind
  /\ \E aux \in BOOLEAN :
       events' = IF watched THEN events \cup {[path |-> p, aux |-> aux]} ELSE events
  /\ UNCHANGED <<backend, tasks, frontend>>

\* handle_filesystem: the debounced events reach the handler, which marks the
\* data dirty when it has seen all of them.
HandleFilesystem ==
  /\ handler = None
  /\ \E batch \in (SUBSET events) \ {{}} :
       /\ events' = events \ batch
       /\ IF alive THEN MarkDirty(ChangesOf(batch), TRUE)
                   ELSE UNCHANGED <<dirty, flags, pc>>
  /\ UNCHANGED <<alive, pending, loaded, data, watched,
                 signal, fresh, todo, snap, handler, kind, disk, frontend>>

\* The root was renamed, or .minecraft itself appeared or went away: nothing is
\* known about its files any more.
MarkAllDirty(reload) ==
  /\ handler = None /\ alive
  /\ MarkDirty(all_dirty, reload)
  /\ UNCHANGED <<alive, pending, loaded, data, watched,
                 signal, fresh, todo, snap, handler, outside, frontend>>

\* remove_instance: the tasks' id resolves to nothing from now on.
RemoveInstance ==
  /\ handler = None /\ alive
  /\ alive' = FALSE
  /\ UNCHANGED <<flags, dirty, pending, loaded, data, watched,
                 tasks, outside, frontend>>

-----------------------------------------------------------------------------
(* A load: load_content_inner and load_servers_inner. *)

\* (A bug: the result of a load the handler awaits is lost.)
ReturnedToNobody(t, q) == [q EXCEPT ![t] = "idle"]
\* What the return of task t makes of q, the value pc has otherwise: a spawned
\* task is gone, a load the handler awaits gives it its result.
Returned(t, q) == [q EXCEPT ![t] = IF t = handler THEN "returned" ELSE "idle"]

\* instances.get_mut(id)? finds nothing.
LoadMissing(t) ==
  /\ pc[t] = "entry" /\ ~alive
  /\ pc' = Returned(t, pc)
  /\ UNCHANGED <<backend, signal, fresh, todo, snap, handler, outside, frontend>>

\* Another load is in flight: await its signal and try again.
LoadWait(t) ==
  /\ pc[t] = "entry" /\ alive /\ InFlight
  /\ pc' = [pc EXCEPT ![t] = "wait"]
  /\ signal' = [signal EXCEPT ![t] = pending]
  /\ UNCHANGED <<backend, fresh, todo, snap, handler, outside, frontend>>

\* The task returns the data as it is.
LoadClean(t) ==
  /\ pc[t] = "entry" /\ alive /\ ~InFlight /\ NothingToLoad
  /\ watched' = TRUE
  /\ pc' = Returned(t, pc)
  /\ UNCHANGED <<alive, flags, dirty, pending, loaded, data,
                 signal, fresh, todo, snap, handler, outside, frontend>>

\* Watch, take the changes, hand them to a blocking thread.
LoadStart(t) ==
  /\ pc[t] = "entry" /\ alive /\ ~InFlight /\ ~NothingToLoad
  /\ watched' = TRUE
  /\ fresh' = [fresh EXCEPT ![t] = IF loaded /\ ~dirty.all THEN dirty.paths ELSE Path]
  /\ todo' = [todo EXCEPT ![t] = Path]
  /\ snap' = [snap EXCEPT ![t] = data]
  /\ dirty' = no_changes
  /\ pending' = t
  /\ flags' = load_started
  /\ pc' = [pc EXCEPT ![t] = "reading"]
  /\ UNCHANGED <<alive, loaded, data, signal, handler, outside, frontend>>

\* The blocking thread comes to file p: it summarises p if p is to be read, and
\* otherwise keeps the summary it has of it as long as the file exists.
LoadRead(t, p) ==
  /\ pc[t] = "reading" /\ p \in todo[t]
  /\ todo' = [todo EXCEPT ![t] = @ \ {p}]
  /\ snap' = [snap EXCEPT ![t][p] =
                IF p \in fresh[t] \/ (Exists(p, @) /\ ~Exists(p, disk[p]))
                THEN disk[p] ELSE @]
  /\ UNCHANGED <<backend, pc, signal, fresh, handler, outside, frontend>>

\* (A bug: only a task whose instance still exists is notified.)
WasNotifiedIfAlive(t, w) == alive /\ pc[w] = "wait" /\ signal[w] = t
\* Task w waits for the signal of task t.
WasNotified(t, w) == pc[w] = "wait" /\ signal[w] = t
\* Task t returns and its locals go away with it.  Dropping its
\* KeepAliveNotifySignal sends the tasks that await it round their loop again.
Notified(t) ==
  [w \in Task |-> IF w = t THEN Returned(t, pc)[t]
                  ELSE IF WasNotified(t, w) THEN "entry" ELSE pc[w]]
DropLocals(t) ==
  /\ signal' = [w \in Task |-> IF WasNotified(t, w) THEN None ELSE signal[w]]
  /\ fresh' = [fresh EXCEPT ![t] = {}]
  /\ snap' = [snap EXCEPT ![t] = Empty]

\* The blocking read is done.  Publish it, tell the frontend, notify the
\* waiting tasks, and load again what was dirtied and observed meanwhile.
LoadFinish(t) ==
  /\ pc[t] = "reading" /\ todo[t] = {} /\ alive
  /\ Len(inbox) < MaxInbox
  /\ loaded' = TRUE
  /\ data' = snap[t]
  /\ pending' = IF kind = "content" \/ pending = t THEN None ELSE pending
  /\ flags' = load_finished(flags)
  /\ inbox' = Append(inbox, snap[t])
  /\ Spawn(should_load(flags'), Notified(t))
  /\ DropLocals(t)
  /\ UNCHANGED <<alive, dirty, watched, todo, handler,
                 outside, visible, render, observed, request, view>>

\* The blocking read is done but the instance is gone: the signal is dropped.
LoadAbandon(t) ==
  /\ pc[t] = "reading" /\ todo[t] = {} /\ ~alive
  /\ pc' = Notified(t)
  /\ DropLocals(t)
  /\ UNCHANGED <<backend, todo, handler, outside, frontend>>

\* A handler (an update check, an install, a launch) loads the content and
\* awaits the result before it goes on.
HandlerLoad(t) ==
  /\ handler = None /\ pc[t] = "idle"
  /\ handler' = t
  /\ pc' = [pc EXCEPT ![t] = "entry"]
  /\ UNCHANGED <<backend, signal, fresh, todo, snap, outside, frontend>>

\* It has the result.  An update check that succeeds marks everything dirty.
HandlerResume(t) ==
  /\ handler = t /\ pc[t] = "returned"
  /\ handler' = None
  /\ LET q == [pc EXCEPT ![t] = "idle"]
     IN \/ /\ pc' = q
           /\ UNCHANGED <<dirty, flags>>
        \/ /\ alive /\ kind = "content"
           /\ dirty' = all_dirty
           /\ flags' = set_dirty(flags)
           /\ Spawn(should_load(flags'), q)
  /\ UNCHANGED <<alive, pending, loaded, data, watched,
                 signal, fresh, todo, snap, outside, frontend>>

-----------------------------------------------------------------------------
(* The frontend: one thread, so nothing of it happens inside a render. *)

OpenPage ==
  /\ ~observed /\ ~visible
  /\ visible' = TRUE /\ render' = TRUE
  /\ UNCHANGED <<backend, tasks, outside, observed, request, inbox, view>>

ClosePage ==
  /\ ~observed /\ visible
  /\ visible' = FALSE /\ render' = FALSE
  /\ UNCHANGED <<backend, tasks, outside, observed, request, inbox, view>>

\* The page is rendered, because it has been told to or for a reason of its own.
RenderObserve ==
  /\ ~observed /\ visible
  /\ observed' = TRUE /\ render' = FALSE
  /\ flags' = set_observed(flags)
  /\ UNCHANGED <<alive, dirty, pending, loaded, data, watched,
                 tasks, outside, visible, request, inbox, view>>

\* send_with_serial sends nothing while the same request is still queued.
RenderRequest ==
  /\ observed
  /\ observed' = FALSE
  /\ request' = (request \/ should_load(flags))
  /\ UNCHANGED <<backend, tasks, outside, visible, render, inbox, view>>

\* The frontend handles Instance..Updated.
TakeUpdate ==
  /\ ~observed /\ inbox # <<>>
  /\ view' = Head(inbox)
  /\ inbox' = Tail(inbox)
  /\ render' = visible
  /\ UNCHANGED <<backend, tasks, outside, visible, observed, request>>

\* The backend handles RequestLoad..: it spawns a load.
HandleRequest ==
  /\ handler = None /\ request
  /\ request' = FALSE
  /\ Spawn(TRUE, pc)
  /\ UNCHANGED <<backend, signal, fresh, todo, snap, handler, outside,
                 visible, render, observed, inbox, view>>

-----------------------------------------------------------------------------
LoadStep(t) ==
  \/ LoadMissing(t) \/ LoadWait(t) \/ LoadClean(t) \/ LoadStart(t)
  \/ \E p \in Path : LoadRead(t, p)
  \/ LoadFinish(t) \/ LoadAbandon(t)

Next ==
  \/ \E p \in Path : ChangeFile(p)
  \/ HandleFilesystem
  \/ \E reload \in Reloads : MarkAllDirty(reload)
  \/ RemoveInstance
  \/ \E t \in Task : LoadStep(t) \/ HandlerLoad(t) \/ HandlerResume(t)
  \/ OpenPage \/ ClosePage \/ RenderObserve \/ RenderRequest
  \/ TakeUpdate \/ HandleRequest

Spec == Init /\ [][Next]_vars

\* Tasks run, the watcher delivers, the frontend thread drains its queue and
\* renders what it has been told to.  The handler's select! picks its next
\* branch at random and queued messages are taken in order, so neither events
\* nor requests are passed over for ever by other messages; nor are updates by
\* the frontend thread's renders.
Fairness ==
  /\ \A t \in Task : WF_vars(LoadStep(t)) /\ WF_vars(HandlerResume(t))
  /\ SF_vars(HandleFilesystem)
  /\ SF_vars(HandleRequest)
  /\ WF_vars(render /\ RenderObserve)
  /\ WF_vars(RenderRequest)
  /\ SF_vars(TakeUpdate)

FairSpec == Spec /\ Fairness

-----------------------------------------------------------------------------
(* Properties. *)

\* At most one blocking read of the data is in flight, and it is the one the
\* pending signal stands for (instance.rs: the loop on pending_load).
SingleFlight ==
  /\ \A t, u \in Task : pc[t] = "reading" /\ pc[u] = "reading" => t = u
  /\ alive => \A t \in Task : pc[t] = "reading" <=> pending = t

\* A waiting task awaits a load that is in flight and will notify it: the
\* signal cannot have been notified before the task began to wait.
NoLostWakeup ==
  \A t \in Task : pc[t] = "wait" => signal[t] # None /\ pc[signal[t]] = "reading"

\* The read of t still has to come to p, or took p as it is now.
WillRefresh(t, p) ==
  pc[t] = "reading" /\ p \in fresh[t] /\ (p \in todo[t] \/ snap[t][p] = disk[p])

\* No change is ever forgotten: a summary that differs from its file is dirty,
\* or is being read again, or an event about it has yet to be delivered.
StaleIsCovered ==
  alive => \A p \in Path :
    \/ loaded /\ data[p] = disk[p]
    \/ dirty.all \/ p \in dirty.paths
    \/ \E t \in Task : WillRefresh(t, p)
    \/ \E e \in events : e.path = p

\* The lock-free load state agrees with what the lock guards: LOADING while a
\* load is in flight, DIRTY exactly when there is something to load.
FlagsAgree ==
  alive =>
    /\ "loading" \in flags <=> \E t \in Task : pc[t] = "reading"
    /\ "dirty" \in flags <=> ~is_empty(dirty)
    /\ "rest" \in flags <=> ~loaded /\ pending = None

\* However loads, waits, removals and returns interleave: one load at a time, no
\* waiter left behind, and a lock-free state that says so.
Control == SingleFlight /\ NoLostWakeup /\ FlagsAgree

\* Seen from the page, all of this is a copy of the files that only moves
\* forward: no load publishes what another has read since, and no update
\* overtakes another on its way.
Abstract == INSTANCE FreshCopy WITH copy <- view
ImplementsFreshCopy == Abstract!Spec

\* Once nothing dirties the data any more, every load that was asked for comes
\* to an end, whatever it has to wait for, and so does the message handler,
\* which awaits some loads itself.  (As long as the data is dirtied again and
\* again, new loads may overtake a waiting one every time it wakes.)
EveryLoadReturns ==
  <>[]is_empty(dirty) =>
    \A t \in Task : /\ pc[t] = "entry" ~> pc[t] \in {"idle", "returned"}
                    /\ handler = t ~> handler = None

\* What an open page of an existing instance shows catches up with the disk
\* once the disk is left alone.
VisibleEventuallyFresh ==
  kind = "content" /\ <>[](visible /\ alive) => <>[](view = disk)

\* The same for a page that is drawn again and again.  It is the most that can
\* be said of servers.dat: mark_servers_dirty loses the reload of a change to
\* servers that were dirtied without one (instance.rs:745-748).
DrawnEventuallyFresh == <>[](visible /\ alive) /\ []<>observed => <>[](view = disk)

\* Pages catch up with the disk.
EventuallyFresh == VisibleEventuallyFresh /\ DrawnEventuallyFresh

=============================================================================
