------------------------- MODULE InstanceLoadProofs -------------------------
(***************************************************************************)
(* Proofs that every safety property of InstanceLoad holds for every value *)
(* of its constants, and every property of ContentInstalls: what is in an  *)
(* instance, as it is read and as it is brought there.                     *)
(***************************************************************************)
EXTENDS InstanceLoad, ContentInstalls, FiniteSetTheorems, TLAPS

-----------------------------------------------------------------------------
(* What the shared parts of the actions do. *)

\* A spawn turns at most an idle slot into a task that is about to start.
LEMMA SpawnedTask ==
  ASSUME NEW needed \in BOOLEAN, NEW q \in [Task -> Stage], Spawn(needed, q)
  PROVE  /\ pc' \in [Task -> Stage]
         /\ \A u \in Task : pc'[u] = q[u] \/ (q[u] = "idle" /\ pc'[u] = "entry")
  BY DEF Spawn, Stage

\* The changes a batch amounts to are changes, and at least one.
LEMMA ChangesOfBatch ==
  ASSUME NEW batch \in SUBSET Event, batch # {}
  PROVE  /\ ChangesOf(batch) \in FolderChanges
         /\ ~is_empty(ChangesOf(batch))
         /\ ChangesOf(batch).all \/ \A e \in batch : e.path \in ChangesOf(batch).paths
  BY DEF ChangesOf, Event, FolderChanges, is_empty, no_changes, all_dirty

LEMMA AppliedChanges ==
  ASSUME NEW c \in FolderChanges, NEW other \in FolderChanges
  PROVE  /\ apply_to(c, other) \in FolderChanges
         /\ apply_to(c, other).all \/ (/\ ~c.all /\ c.paths \subseteq apply_to(c, other).paths
                                       /\ ~other.all /\ other.paths \subseteq apply_to(c, other).paths)
         /\ ~is_empty(c) => ~is_empty(apply_to(c, other))
         /\ ~is_empty(other) => ~is_empty(apply_to(c, other))
  BY DEF apply_to, FolderChanges, is_empty, no_changes, all_dirty

\* Marking data dirty only ever adds to what is dirty, and covers the changes.
LEMMA MarkedDirty ==
  ASSUME TypeOK, NEW changes \in FolderChanges, NEW reload \in BOOLEAN,
         MarkDirty(changes, reload)
  PROVE  /\ dirty' \in FolderChanges
         /\ flags' \in SUBSET Flag
         /\ pc' \in [Task -> Stage]
         /\ \A u \in Task : pc'[u] = pc[u] \/ (pc[u] = "idle" /\ pc'[u] = "entry")
         /\ dirty'.all \/ (~dirty.all /\ dirty.paths \subseteq dirty'.paths)
         /\ dirty'.all \/ (~changes.all /\ changes.paths \subseteq dirty'.paths)
         /\ \/ dirty' = dirty /\ flags' = flags
            \/ ~is_empty(dirty') /\ flags' = flags \cup {"dirty"}
PROOF
  <1>1. CASE is_empty(changes) \/ (kind = "servers" /\ dirty.all)
    BY <1>1 DEF MarkDirty, TypeOK, is_empty, no_changes
  <1>2. CASE ~(is_empty(changes) \/ (kind = "servers" /\ dirty.all))
    <2>1. /\ dirty' = apply_to(changes, dirty)
          /\ flags' = flags \cup {"dirty"}
          /\ Spawn(reload /\ should_load(flags'), pc)
      BY <1>2 DEF MarkDirty, set_dirty
    <2>2. /\ pc' \in [Task -> Stage]
          /\ \A u \in Task : pc'[u] = pc[u] \/ (pc[u] = "idle" /\ pc'[u] = "entry")
      <3>1. (reload /\ should_load(flags')) \in BOOLEAN
        BY DEF should_load
      <3>2. pc \in [Task -> Stage]
        BY DEF TypeOK
      <3>3. QED  BY <2>1, <3>1, <3>2, SpawnedTask
    <2>3. flags' \in SUBSET Flag
      BY <2>1 DEF TypeOK, Flag
    <2>4. QED  BY <1>2, <2>1, <2>2, <2>3, AppliedChanges DEF TypeOK
  <1>3. QED  BY <1>1, <1>2

\* So do the other callers of Spawn, whose q differs from pc in one task or
\* in the tasks that are notified.
LEMMA TaskGone ==
  ASSUME TypeOK, NEW t \in Task
  PROVE  /\ Returned(t, pc) \in [Task -> Stage]
         /\ \A u \in Task : u # t => Returned(t, pc)[u] = pc[u]
         /\ Returned(t, pc)[t] \in {"idle", "returned"}
  BY DEF Returned, TypeOK, Stage

LEMMA TasksNotified ==
  ASSUME TypeOK, NEW t \in Task
  PROVE  /\ Notified(t) \in [Task -> Stage]
         /\ Notified(t)[t] \in {"idle", "returned"}
         /\ \A u \in Task : u # t =>
               \/ pc[u] = "wait" /\ signal[u] = t /\ Notified(t)[u] = "entry"
               \/ ~(pc[u] = "wait" /\ signal[u] = t) /\ Notified(t)[u] = pc[u]
  BY TaskGone DEF Notified, WasNotified, TypeOK, Stage

-----------------------------------------------------------------------------
(* Type correctness. *)

\* The part of TypeOK about the variables that MarkDirty leaves alone.
LEMMA TypeStep ==
  ASSUME TypeOK, [Next]_vars
  PROVE  TypeOK'
PROOF
  <1> USE DEF TypeOK
  <1>1. ASSUME NEW p \in Path, ChangeFile(p)  PROVE TypeOK'
    <2>1. disk' \in Snapshot
      BY <1>1 DEF ChangeFile, Snapshot, Version
    <2>2. events' \in SUBSET Event
      BY <1>1 DEF ChangeFile, Event
    <2>3. QED  BY <1>1, <2>1, <2>2 DEF ChangeFile, backend, tasks, frontend
  <1>2. CASE HandleFilesystem
    <2>1. PICK batch \in (SUBSET events) \ {{}} :
            /\ events' = events \ batch
            /\ IF alive THEN MarkDirty(ChangesOf(batch), TRUE)
                        ELSE UNCHANGED <<dirty, flags, pc>>
      BY <1>2 DEF HandleFilesystem
    <2>2. batch \in SUBSET Event /\ batch # {}
      BY <2>1
    <2>3. dirty' \in FolderChanges /\ flags' \in SUBSET Flag /\ pc' \in [Task -> Stage]
      <3>1. CASE alive   BY <3>1, <2>1, <2>2, ChangesOfBatch, MarkedDirty
      <3>2. CASE ~alive  BY <3>2, <2>1
      <3>3. QED  BY <3>1, <3>2
    <2>4. QED  BY <1>2, <2>1, <2>3 DEF HandleFilesystem, frontend
  <1>3. ASSUME NEW reload \in Reloads, MarkAllDirty(reload)  PROVE TypeOK'
    <2>1. reload \in BOOLEAN
      BY ReloadsAssumption
    <2>2. all_dirty \in FolderChanges
      BY DEF all_dirty, FolderChanges
    <2>3. dirty' \in FolderChanges /\ flags' \in SUBSET Flag /\ pc' \in [Task -> Stage]
      BY <1>3, <2>1, <2>2, MarkedDirty DEF MarkAllDirty
    <2>4. QED  BY <1>3, <2>3 DEF MarkAllDirty, frontend, outside
  <1>4. CASE RemoveInstance
    BY <1>4 DEF RemoveInstance, tasks, outside, frontend
  <1>5. ASSUME NEW t \in Task, LoadMissing(t)  PROVE TypeOK'
    BY <1>5, TaskGone DEF LoadMissing, backend, outside, frontend
  <1>6. ASSUME NEW t \in Task, LoadWait(t)  PROVE TypeOK'
    BY <1>6 DEF LoadWait, InFlight, Stage, backend, outside, frontend
  <1>7. ASSUME NEW t \in Task, LoadClean(t)  PROVE TypeOK'
    BY <1>7, TaskGone DEF LoadClean, outside, frontend
  <1>8. ASSUME NEW t \in Task, LoadStart(t)  PROVE TypeOK'
    <2>1. dirty' \in FolderChanges
      BY <1>8 DEF LoadStart, no_changes, FolderChanges
    <2>2. fresh' \in [Task -> SUBSET Path]
      BY <1>8 DEF LoadStart, FolderChanges
    <2>3. flags' \in SUBSET Flag
      BY <1>8 DEF LoadStart, load_started, Flag
    <2>4. QED  BY <1>8, <2>1, <2>2, <2>3 DEF LoadStart, Stage, outside, frontend
  <1>9. ASSUME NEW t \in Task, NEW p \in Path, LoadRead(t, p)  PROVE TypeOK'
    <2>1. snap' \in [Task -> Snapshot]
      BY <1>9 DEF LoadRead, Snapshot
    <2>2. QED  BY <1>9, <2>1 DEF LoadRead, backend, outside, frontend
  <1>10. ASSUME NEW t \in Task, LoadFinish(t)  PROVE TypeOK'
    <2>1. pc' \in [Task -> Stage]
      <3>1. Notified(t) \in [Task -> Stage]
        BY TasksNotified
      <3>2. should_load(flags') \in BOOLEAN
        BY DEF should_load
      <3>3. QED  BY <1>10, <3>1, <3>2, SpawnedTask DEF LoadFinish
    <2>2. /\ signal' \in [Task -> Task \cup {None}]
          /\ fresh' \in [Task -> SUBSET Path]
          /\ snap' \in [Task -> Snapshot]
      BY <1>10 DEF LoadFinish, DropLocals, Snapshot, Version, Empty
    <2>3. inbox' \in Seq(Snapshot) /\ data' \in Snapshot
      BY <1>10 DEF LoadFinish
    <2>4. flags' \in SUBSET Flag
      BY <1>10 DEF LoadFinish, load_finished
    <2>5. pending' \in Task \cup {None}
      BY <1>10 DEF LoadFinish
    <2>6. QED  BY <1>10, <2>1, <2>2, <2>3, <2>4, <2>5 DEF LoadFinish, outside
  <1>11. ASSUME NEW t \in Task, LoadAbandon(t)  PROVE TypeOK'
    <2>1. /\ signal' \in [Task -> Task \cup {None}]
          /\ fresh' \in [Task -> SUBSET Path]
          /\ snap' \in [Task -> Snapshot]
      BY <1>11 DEF LoadAbandon, DropLocals, Snapshot, Version, Empty
    <2>2. QED  BY <1>11, <2>1, TasksNotified DEF LoadAbandon, backend, outside, frontend
  <1>12. ASSUME NEW t \in Task, HandlerLoad(t)  PROVE TypeOK'
    BY <1>12 DEF HandlerLoad, Stage, backend, outside, frontend
  <1>13. ASSUME NEW t \in Task, HandlerResume(t)  PROVE TypeOK'
    <2>1. [pc EXCEPT ![t] = "idle"] \in [Task -> Stage]
      BY DEF Stage
    <2>2. dirty' \in FolderChanges /\ flags' \in SUBSET Flag /\ pc' \in [Task -> Stage]
      <3>1. CASE pc' = [pc EXCEPT ![t] = "idle"] /\ UNCHANGED <<dirty, flags>>
        BY <3>1, <2>1
      <3>2. CASE /\ dirty' = all_dirty
                 /\ flags' = set_dirty(flags)
                 /\ Spawn(should_load(flags'), [pc EXCEPT ![t] = "idle"])
        <4>1. should_load(flags') \in BOOLEAN
          BY DEF should_load
        <4>2. pc' \in [Task -> Stage]
          BY <3>2, <2>1, <4>1, SpawnedTask
        <4>3. QED  BY <3>2, <4>2 DEF all_dirty, FolderChanges, set_dirty, Flag
      <3>3. QED  BY <1>13, <3>1, <3>2 DEF HandlerResume
    <2>3. QED  BY <1>13, <2>2 DEF HandlerResume, outside, frontend
  <1>14. CASE OpenPage \/ ClosePage
    BY <1>14 DEF OpenPage, ClosePage, backend, tasks, outside
  <1>15. CASE RenderObserve
    BY <1>15 DEF RenderObserve, set_observed, Flag, tasks, outside
  <1>16. CASE RenderRequest
    BY <1>16 DEF RenderRequest, should_load, backend, tasks, outside
  <1>17. CASE TakeUpdate
    BY <1>17 DEF TakeUpdate, backend, tasks, outside
  <1>18. CASE HandleRequest
    <2>1. pc' \in [Task -> Stage]
      BY <1>18, SpawnedTask DEF HandleRequest
    <2>2. QED  BY <1>18, <2>1 DEF HandleRequest, backend, outside
  <1>19. CASE UNCHANGED vars
    BY <1>19 DEF vars, backend, tasks, outside, frontend
  <1>20. QED
    BY <1>1, <1>2, <1>3, <1>4, <1>5, <1>6, <1>7, <1>8, <1>9, <1>10, <1>11, <1>12,
       <1>13, <1>14, <1>15, <1>16, <1>17, <1>18, <1>19 DEF Next, LoadStep

LEMMA InitTypeOK == Init => TypeOK
PROOF
  <1>1. Empty \in Snapshot /\ <<>> \in Seq(Snapshot)
    BY DEF Empty, Snapshot, Version
  <1>2. all_dirty \in FolderChanges /\ UNLOADED \in SUBSET Flag /\ "idle" \in Stage
    BY DEF all_dirty, FolderChanges, UNLOADED, Stage
  <1>3. QED  BY <1>1, <1>2 DEF Init, TypeOK

\* Every variable keeps its type.
THEOREM TypeCorrect == Spec => []TypeOK
PROOF
  <1>1. TypeOK /\ [Next]_vars => TypeOK'
    BY TypeStep
  <1>2. QED  BY <1>1, InitTypeOK, PTL DEF Spec

-----------------------------------------------------------------------------
(* Four steps of a load task change who reads and who waits.  All others   *)
(* leave that alone, and only ever add to what is dirty.                   *)

Quiet ==
  /\ alive' => alive
  /\ UNCHANGED <<pending, loaded, data, signal, fresh>>
  /\ watched => watched'
  /\ \A u \in Task : /\ pc'[u] = "reading" <=> pc[u] = "reading"
                     /\ pc'[u] = "wait" <=> pc[u] = "wait"
  /\ dirty'.all \/ (~dirty.all /\ dirty.paths \subseteq dirty'.paths)
  /\ \/ dirty' = dirty /\ flags' \in {flags, flags \cup {"observed"}}
     \/ ~is_empty(dirty') /\ flags' = flags \cup {"dirty"}

LEMMA StepCases ==
  ASSUME TypeOK, [Next]_vars
  PROVE  Quiet \/ \E t \in Task : LoadWait(t) \/ LoadStart(t) \/ LoadFinish(t) \/ LoadAbandon(t)
PROOF
  <1>1. ASSUME NEW p \in Path, ChangeFile(p)  PROVE Quiet
    BY <1>1 DEF ChangeFile, Quiet, backend, tasks, frontend
  <1>2. CASE HandleFilesystem
    <2>1. PICK batch \in (SUBSET events) \ {{}} :
            IF alive THEN MarkDirty(ChangesOf(batch), TRUE)
                     ELSE UNCHANGED <<dirty, flags, pc>>
      BY <1>2 DEF HandleFilesystem
    <2>2. batch \in SUBSET Event /\ batch # {}
      BY <2>1 DEF TypeOK
    <2>3. CASE alive
      BY <1>2, <2>1, <2>2, <2>3, ChangesOfBatch, MarkedDirty DEF HandleFilesystem, Quiet
    <2>4. CASE ~alive
      BY <1>2, <2>1, <2>4 DEF HandleFilesystem, Quiet
    <2>5. QED  BY <2>3, <2>4
  <1>3. ASSUME NEW reload \in Reloads, MarkAllDirty(reload)  PROVE Quiet
    <2>1. reload \in BOOLEAN /\ all_dirty \in FolderChanges
      BY ReloadsAssumption DEF all_dirty, FolderChanges
    <2>2. QED  BY <1>3, <2>1, MarkedDirty DEF MarkAllDirty, Quiet
  <1>4. CASE RemoveInstance
    BY <1>4 DEF RemoveInstance, Quiet, tasks
  <1>5. ASSUME NEW t \in Task, LoadMissing(t) \/ LoadClean(t)  PROVE Quiet
    BY <1>5, TaskGone DEF LoadMissing, LoadClean, Quiet, backend
  <1>6. ASSUME NEW t \in Task, NEW p \in Path, LoadRead(t, p)  PROVE Quiet
    BY <1>6 DEF LoadRead, Quiet, backend
  <1>7. ASSUME NEW t \in Task, HandlerLoad(t)  PROVE Quiet
    BY <1>7 DEF HandlerLoad, Quiet, backend, TypeOK
  <1>8. ASSUME NEW t \in Task, HandlerResume(t)  PROVE Quiet
    <2> DEFINE q == [pc EXCEPT ![t] = "idle"]
    <2>1. /\ q \in [Task -> Stage]
          /\ \A u \in Task : u # t => q[u] = pc[u]
          /\ q[t] = "idle" /\ pc[t] = "returned"
      BY <1>8 DEF HandlerResume, TypeOK, Stage
    <2>2. CASE pc' = q /\ UNCHANGED <<dirty, flags>>
      BY <1>8, <2>1, <2>2 DEF HandlerResume, Quiet
    <2>3. CASE /\ dirty' = all_dirty
               /\ flags' = set_dirty(flags)
               /\ Spawn(should_load(flags'), q)
      <3>1. should_load(flags') \in BOOLEAN
        BY DEF should_load
      <3>2. \A u \in Task : pc'[u] = q[u] \/ (q[u] = "idle" /\ pc'[u] = "entry")
        BY <2>1, <2>3, <3>1, SpawnedTask
      <3>3. \A u \in Task : /\ pc'[u] = "reading" <=> pc[u] = "reading"
                            /\ pc'[u] = "wait" <=> pc[u] = "wait"
        BY <2>1, <3>2
      <3>4. ~is_empty(dirty') /\ dirty'.all /\ flags' = flags \cup {"dirty"}
        BY <2>3 DEF is_empty, all_dirty, no_changes, set_dirty
      <3>5. QED  BY <1>8, <3>3, <3>4 DEF HandlerResume, Quiet
    <2>4. QED  BY <1>8, <2>2, <2>3 DEF HandlerResume
  <1>9. CASE OpenPage \/ ClosePage \/ RenderRequest \/ TakeUpdate
    BY <1>9 DEF OpenPage, ClosePage, RenderRequest, TakeUpdate, Quiet, backend, tasks
  <1>10. CASE RenderObserve
    BY <1>10 DEF RenderObserve, set_observed, Quiet, tasks
  <1>11. CASE HandleRequest
    <2>1. \A u \in Task : pc'[u] = pc[u] \/ (pc[u] = "idle" /\ pc'[u] = "entry")
      BY <1>11, SpawnedTask DEF HandleRequest, TypeOK
    <2>2. QED  BY <1>11, <2>1 DEF HandleRequest, Quiet, backend
  <1>12. CASE UNCHANGED vars
    BY <1>12 DEF vars, backend, tasks, Quiet
  <1>13. QED
    BY <1>1, <1>2, <1>3, <1>4, <1>5, <1>6, <1>7, <1>8, <1>9, <1>10, <1>11, <1>12
       DEF Next, LoadStep

-----------------------------------------------------------------------------
(* The control of a load: one reader, no lost wake-up, flags that agree.   *)

LEMMA ControlStep ==
  ASSUME TypeOK, TypeOK', Control, [Next]_vars
  PROVE  Control'
PROOF
  <1>1. CASE Quiet
    <2>1. SingleFlight'
      BY <1>1 DEF Quiet, Control, SingleFlight
    <2>2. NoLostWakeup'
      BY <1>1 DEF Quiet, Control, NoLostWakeup, TypeOK
    <2>3. FlagsAgree'
      BY <1>1 DEF Quiet, Control, FlagsAgree, is_empty
    <2>4. QED  BY <2>1, <2>2, <2>3 DEF Control
  <1>2. ASSUME NEW t \in Task, LoadWait(t)  PROVE Control'
    <2>1. \A u \in Task : pc'[u] = "reading" <=> pc[u] = "reading"
      BY <1>2 DEF LoadWait, TypeOK
    <2>2. SingleFlight' /\ FlagsAgree'
      BY <1>2, <2>1 DEF LoadWait, Control, SingleFlight, FlagsAgree, is_empty, backend
    <2>3. pending \in Task /\ pc[pending] = "reading"
      BY <1>2 DEF LoadWait, InFlight, Control, SingleFlight, TypeOK
    <2>4. NoLostWakeup'
      BY <1>2, <2>1, <2>3, TaskAssumption DEF LoadWait, Control, NoLostWakeup, TypeOK
    <2>5. QED  BY <2>2, <2>4 DEF Control
  <1>3. ASSUME NEW t \in Task, LoadStart(t)  PROVE Control'
    <2>1. \A u \in Task : pc[u] # "reading"
      BY <1>3, TaskAssumption DEF LoadStart, InFlight, Control, SingleFlight
    <2>2. \A u \in Task : pc'[u] = IF u = t THEN "reading" ELSE pc[u]
      BY <1>3 DEF LoadStart, TypeOK
    <2>3. SingleFlight'
      BY <1>3, <2>1, <2>2 DEF LoadStart, SingleFlight
    <2>4. NoLostWakeup'
      BY <1>3, <2>1, <2>2 DEF LoadStart, Control, NoLostWakeup, TypeOK
    <2>5. FlagsAgree'
      BY <1>3, <2>2, TaskAssumption DEF LoadStart, load_started, is_empty, FlagsAgree
    <2>6. QED  BY <2>3, <2>4, <2>5 DEF Control
  <1>4. ASSUME NEW t \in Task, LoadFinish(t)  PROVE Control'
    <2>1. alive /\ alive' /\ pending = t /\ pending' = None /\ \A u \in Task : pc[u] = "reading" => u = t
      BY <1>4 DEF LoadFinish, Control, SingleFlight
    <2>2. \A u \in Task : pc'[u] = Notified(t)[u] \/ (Notified(t)[u] = "idle" /\ pc'[u] = "entry")
      <3>1. should_load(flags') \in BOOLEAN
        BY DEF should_load
      <3>2. QED  BY <1>4, <3>1, TasksNotified, SpawnedTask DEF LoadFinish
    <2>3. \A u \in Task : pc'[u] # "reading"
      BY <2>1, <2>2, TasksNotified
    <2>4. SingleFlight'
      BY <2>1, <2>3, TaskAssumption DEF SingleFlight
    <2>5. NoLostWakeup'
      BY <2>1, <2>2, TasksNotified DEF Control, NoLostWakeup, TypeOK
    <2>6. FlagsAgree'
      BY <1>4, <2>1, <2>3, TaskAssumption
         DEF LoadFinish, load_finished, Control, FlagsAgree, is_empty
    <2>7. QED  BY <2>4, <2>5, <2>6 DEF Control
  <1>5. ASSUME NEW t \in Task, LoadAbandon(t)  PROVE Control'
    <2>1. ~alive /\ ~alive' /\ pc' = Notified(t)
      BY <1>5 DEF LoadAbandon, backend
    <2>2. SingleFlight' /\ FlagsAgree'
      BY <2>1, TasksNotified DEF Control, SingleFlight, FlagsAgree
    <2>3. \A u \in Task : signal'[u] = signal[u] \/ (pc[u] = "wait" /\ signal[u] = t)
      BY <1>5 DEF LoadAbandon, DropLocals, WasNotified
    <2>4. NoLostWakeup'
      <3> SUFFICES ASSUME NEW u \in Task, pc'[u] = "wait"
                   PROVE  signal'[u] # None /\ pc'[signal'[u]] = "reading"
        BY DEF NoLostWakeup
      <3>1. pc[u] = "wait" /\ signal[u] # t
        BY <2>1, TasksNotified
      <3>2. signal'[u] = signal[u] /\ signal[u] \in Task /\ pc[signal[u]] = "reading"
        BY <2>3, <3>1 DEF Control, NoLostWakeup, TypeOK
      <3>3. QED  BY <2>1, <3>1, <3>2, TasksNotified, TaskAssumption
    <2>5. QED  BY <2>2, <2>4 DEF Control
  <1>6. QED  BY <1>1, <1>2, <1>3, <1>4, <1>5, StepCases

LEMMA InitControl == Init => Control
PROOF
  <1> SUFFICES ASSUME Init  PROVE Control
    OBVIOUS
  <1>1. \A t \in Task : pc[t] = "idle" /\ pending # t
    BY TaskAssumption DEF Init
  <1>2. ~is_empty(dirty)
    BY DEF Init, is_empty, no_changes, all_dirty
  <1>3. QED
    BY <1>1, <1>2
       DEF Init, Control, SingleFlight, NoLostWakeup, FlagsAgree, UNLOADED, Flag

\* One read of the data is in flight at most, and it is the pending one; a task
\* that waits does so for a load that will notify it; and the load state that
\* is read without a lock agrees with the one the lock guards.  Inductive
\* together with the types.
THEOREM ControlCorrect == Spec => []Control
PROOF
  <1>1. TypeOK /\ TypeOK' /\ Control /\ [Next]_vars => Control'
    BY ControlStep
  <1>2. QED  BY <1>1, InitControl, TypeCorrect, PTL DEF Spec

-----------------------------------------------------------------------------
(* What is read, published, sent and shown only ever gets newer. *)

NoNewer(f, g) == \A p \in Path : f[p] <= g[p]

\* view <= inbox[1] <= ... <= inbox[n] <= data <= snap[t] <= disk.
InOrder ==
  /\ NoNewer(data, disk)
  /\ \A t \in Task : pc[t] = "reading" => NoNewer(data, snap[t]) /\ NoNewer(snap[t], disk)
  /\ NoNewer(view, data)
  /\ \A i \in 1 .. Len(inbox) : NoNewer(view, inbox[i]) /\ NoNewer(inbox[i], data)
  /\ \A i, j \in 1 .. Len(inbox) : i <= j => NoNewer(inbox[i], inbox[j])

\* Files that are not watched have never been read.
UnwatchedIsUnread ==
  alive => watched \/ (dirty.all /\ ~loaded /\ \A t \in Task : pc[t] # "reading")

LEMMA NoNewerTrans ==
  ASSUME NEW f \in Snapshot, NEW g \in Snapshot, NEW h \in Snapshot,
         NoNewer(f, g), NoNewer(g, h)
  PROVE  NoNewer(f, h)
PROOF
  <1> SUFFICES ASSUME NEW p \in Path  PROVE f[p] <= h[p]
    BY DEF NoNewer
  <1>1. f[p] \in Nat /\ g[p] \in Nat /\ h[p] \in Nat
    BY DEF Snapshot, Version
  <1>2. f[p] <= g[p] /\ g[p] <= h[p]
    BY DEF NoNewer
  <1>3. QED  BY <1>1, <1>2

LEMMA NoNewerRefl == ASSUME NEW f \in Snapshot  PROVE NoNewer(f, f)
  BY DEF NoNewer, Snapshot, Version

\* The steps, besides those of StepCases, that move data.
Plain == UNCHANGED <<disk, events, todo, snap, inbox, view>>

LEMMA DataCases ==
  ASSUME [Next]_vars
  PROVE  \/ \E t \in Task : LoadWait(t) \/ LoadStart(t) \/ LoadFinish(t) \/ LoadAbandon(t)
         \/ \E p \in Path : ChangeFile(p)
         \/ \E t \in Task, p \in Path : LoadRead(t, p)
         \/ HandleFilesystem
         \/ TakeUpdate
         \/ Plain
PROOF
  <1>1. ASSUME NEW t \in Task, LoadMissing(t) \/ LoadClean(t) \/ HandlerLoad(t) \/ HandlerResume(t)
        PROVE  Plain
    BY <1>1 DEF LoadMissing, LoadClean, HandlerLoad, HandlerResume, Plain, outside, frontend
  <1>2. ASSUME NEW reload \in Reloads, MarkAllDirty(reload)  PROVE Plain
    BY <1>2 DEF MarkAllDirty, Plain, outside, frontend
  <1>3. CASE RemoveInstance
    BY <1>3 DEF RemoveInstance, Plain, outside, tasks, frontend
  <1>4. CASE OpenPage \/ ClosePage \/ RenderObserve \/ RenderRequest
    BY <1>4 DEF OpenPage, ClosePage, RenderObserve, RenderRequest, Plain, outside, tasks
  <1>5. CASE HandleRequest
    BY <1>5 DEF HandleRequest, Plain, outside
  <1>6. CASE UNCHANGED vars
    BY <1>6 DEF vars, outside, tasks, frontend, Plain
  <1>7. QED  BY <1>1, <1>2, <1>3, <1>4, <1>5, <1>6 DEF Next, LoadStep

LEMMA InOrderStep ==
  ASSUME TypeOK, TypeOK', Control, InOrder, [Next]_vars
  PROVE  InOrder'
PROOF
  <1>1. CASE Quiet /\ Plain
    BY <1>1 DEF Quiet, Plain, InOrder, NoNewer
  <1>2. ASSUME Quiet, NEW p \in Path, ChangeFile(p)  PROVE InOrder'
    <2>1. NoNewer(disk, disk')
      <3> SUFFICES ASSUME NEW q \in Path  PROVE disk[q] <= disk'[q]
        BY DEF NoNewer
      <3>1. disk[q] \in Nat
        BY DEF TypeOK, Snapshot, Version
      <3>2. disk'[q] = IF q = p THEN disk[q] + 1 ELSE disk[q]
        BY <1>2 DEF ChangeFile, TypeOK, Snapshot
      <3>3. QED  BY <3>1, <3>2
    <2>2. UNCHANGED <<snap, inbox, view>>
      BY <1>2 DEF ChangeFile, tasks, frontend
    <2>3. NoNewer(data, disk')
      BY <2>1, NoNewerTrans DEF InOrder, TypeOK
    <2>4. \A t \in Task : pc[t] = "reading" => NoNewer(snap[t], disk')
      BY <2>1, NoNewerTrans DEF InOrder, TypeOK
    <2>5. QED  BY <1>2, <2>2, <2>3, <2>4 DEF Quiet, InOrder, NoNewer
  <1>3. ASSUME Quiet, NEW t \in Task, NEW p \in Path, LoadRead(t, p)  PROVE InOrder'
    <2>1. UNCHANGED <<data, disk, inbox, view>>
      BY <1>3 DEF LoadRead, backend, outside, frontend
    <2>2. \A u \in Task, q \in Path : snap'[u][q] \in {snap[u][q], disk[q]}
      BY <1>3 DEF LoadRead, TypeOK, Snapshot
    <2>3. ASSUME NEW u \in Task, pc[u] = "reading"
          PROVE  NoNewer(data, snap'[u]) /\ NoNewer(snap'[u], disk)
      <3> SUFFICES ASSUME NEW q \in Path
                   PROVE  data[q] <= snap'[u][q] /\ snap'[u][q] <= disk[q]
        BY DEF NoNewer
      <3>1. data[q] <= snap[u][q] /\ snap[u][q] <= disk[q] /\ data[q] <= disk[q]
        BY <2>3 DEF InOrder, NoNewer
      <3>2. disk[q] <= disk[q]
        BY DEF TypeOK, Snapshot, Version
      <3>3. QED  BY <2>2, <3>1, <3>2
    <2>4. QED  BY <1>3, <2>1, <2>3 DEF Quiet, InOrder, NoNewer
  <1>4. CASE Quiet /\ HandleFilesystem
    BY <1>4 DEF Quiet, HandleFilesystem, frontend, InOrder, NoNewer
  <1>5. CASE Quiet /\ TakeUpdate
    <2>1. /\ view' = inbox[1] /\ Len(inbox) >= 1
          /\ Len(inbox') = Len(inbox) - 1
          /\ \A i \in 1 .. Len(inbox') : inbox'[i] = inbox[i + 1]
          /\ Len(inbox) \in Nat
      BY <1>5 DEF TakeUpdate, TypeOK
    <2>2. UNCHANGED <<data, disk, snap>>
      BY <1>5 DEF TakeUpdate, backend, tasks, outside
    <2>3. NoNewer(view', data)
      BY <2>1 DEF InOrder, TypeOK
    <2>4. \A i \in 1 .. Len(inbox') : NoNewer(view', inbox'[i]) /\ NoNewer(inbox'[i], data)
      <3> SUFFICES ASSUME NEW i \in 1 .. Len(inbox')
                   PROVE  NoNewer(view', inbox'[i]) /\ NoNewer(inbox'[i], data)
        OBVIOUS
      <3>1. i + 1 \in 1 .. Len(inbox) /\ 1 \in 1 .. Len(inbox) /\ 1 <= i + 1
        BY <2>1
      <3>2. QED  BY <2>1, <3>1 DEF InOrder
    <2>5. \A i, j \in 1 .. Len(inbox') : i <= j => NoNewer(inbox'[i], inbox'[j])
      <3> SUFFICES ASSUME NEW i \in 1 .. Len(inbox'), NEW j \in 1 .. Len(inbox'), i <= j
                   PROVE  NoNewer(inbox'[i], inbox'[j])
        OBVIOUS
      <3>1. i + 1 \in 1 .. Len(inbox) /\ j + 1 \in 1 .. Len(inbox) /\ i + 1 <= j + 1
        BY <2>1
      <3>2. QED  BY <2>1, <3>1 DEF InOrder
    <2>6. QED  BY <1>5, <2>2, <2>3, <2>4, <2>5 DEF Quiet, InOrder, NoNewer
  <1>6. ASSUME NEW t \in Task, LoadWait(t)  PROVE InOrder'
    <2>1. \A u \in Task : pc'[u] = "reading" <=> pc[u] = "reading"
      BY <1>6 DEF LoadWait, TypeOK
    <2>2. QED  BY <1>6, <2>1 DEF LoadWait, InOrder, NoNewer, backend, outside, frontend
  <1>7. ASSUME NEW t \in Task, LoadStart(t)  PROVE InOrder'
    <2>1. \A u \in Task : pc'[u] = "reading" => u = t
      BY <1>7, TaskAssumption DEF LoadStart, InFlight, Control, SingleFlight, TypeOK
    <2>2. snap'[t] = data /\ UNCHANGED <<data, disk, inbox, view>>
      BY <1>7 DEF LoadStart, outside, frontend, TypeOK
    <2>3. NoNewer(data, data)
      BY NoNewerRefl DEF TypeOK
    <2>4. QED  BY <2>1, <2>2, <2>3 DEF InOrder, NoNewer
  <1>8. ASSUME NEW t \in Task, LoadFinish(t)  PROVE InOrder'
    <2>1. \A u \in Task : pc'[u] # "reading"
      <3>1. should_load(flags') \in BOOLEAN
        BY DEF should_load
      <3>2. \A u \in Task : pc'[u] = Notified(t)[u] \/ pc'[u] = "entry"
        BY <1>8, <3>1, TasksNotified, SpawnedTask DEF LoadFinish
      <3>3. QED  BY <1>8, <3>2, TasksNotified DEF LoadFinish, Control, SingleFlight
    <2>2. /\ data' = snap[t] /\ UNCHANGED <<disk, view>>
          /\ Len(inbox') = Len(inbox) + 1
          /\ inbox'[Len(inbox) + 1] = snap[t]
          /\ \A i \in 1 .. Len(inbox) : inbox'[i] = inbox[i]
      BY <1>8 DEF LoadFinish, outside, TypeOK
    <2>3. NoNewer(data, data') /\ NoNewer(data', disk) /\ data' \in Snapshot
      BY <1>8, <2>2 DEF LoadFinish, InOrder, TypeOK
    <2>4. NoNewer(view, data')
      BY <2>3, NoNewerTrans DEF InOrder, TypeOK
    <2>5. \A i \in 1 .. Len(inbox) : inbox[i] \in Snapshot /\ NoNewer(inbox[i], data')
      BY <2>3, NoNewerTrans DEF InOrder, TypeOK
    <2>6. NoNewer(data', data')
      BY <2>3, NoNewerRefl
    <2>7. \A i \in 1 .. Len(inbox') : NoNewer(view, inbox'[i]) /\ NoNewer(inbox'[i], data')
      BY <2>2, <2>4, <2>5, <2>6 DEF InOrder, TypeOK
    <2>8. \A i, j \in 1 .. Len(inbox') : i <= j => NoNewer(inbox'[i], inbox'[j])
      BY <2>2, <2>5, <2>6 DEF InOrder, TypeOK
    <2>9. QED  BY <2>1, <2>2, <2>3, <2>4, <2>7, <2>8 DEF InOrder, NoNewer
  <1>9. ASSUME NEW t \in Task, LoadAbandon(t)  PROVE InOrder'
    <2>1. \A u \in Task : pc'[u] # "reading"
      BY <1>9, TasksNotified DEF LoadAbandon, Control, SingleFlight
    <2>2. QED  BY <1>9, <2>1 DEF LoadAbandon, InOrder, NoNewer, backend, outside, frontend
  <1>10. QED
    BY <1>1, <1>2, <1>3, <1>4, <1>5, <1>6, <1>7, <1>8, <1>9, StepCases, DataCases

LEMMA UnwatchedIsUnreadStep ==
  ASSUME TypeOK, UnwatchedIsUnread, [Next]_vars
  PROVE  UnwatchedIsUnread'
PROOF
  <1>1. CASE Quiet
    BY <1>1 DEF Quiet, UnwatchedIsUnread
  <1>2. ASSUME NEW t \in Task, LoadWait(t)  PROVE UnwatchedIsUnread'
    BY <1>2 DEF LoadWait, UnwatchedIsUnread, backend, TypeOK
  <1>3. ASSUME NEW t \in Task, LoadStart(t)  PROVE UnwatchedIsUnread'
    BY <1>3 DEF LoadStart, UnwatchedIsUnread
  <1>4. ASSUME NEW t \in Task, LoadFinish(t)  PROVE UnwatchedIsUnread'
    BY <1>4 DEF LoadFinish, UnwatchedIsUnread
  <1>5. ASSUME NEW t \in Task, LoadAbandon(t)  PROVE UnwatchedIsUnread'
    BY <1>5 DEF LoadAbandon, UnwatchedIsUnread, backend
  <1>6. QED  BY <1>1, <1>2, <1>3, <1>4, <1>5, StepCases

\* StaleIsCovered for one file.
Covered(p) ==
  \/ loaded /\ data[p] = disk[p]
  \/ dirty.all \/ p \in dirty.paths
  \/ \E t \in Task : WillRefresh(t, p)
  \/ \E e \in events : e.path = p

LEMMA CoveredStep ==
  ASSUME TypeOK, Control, InOrder, UnwatchedIsUnread, [Next]_vars,
         alive, alive', NEW p \in Path, Covered(p)
  PROVE  Covered(p)'
PROOF
  <1>1. CASE Quiet /\ Plain
    BY <1>1 DEF Quiet, Plain, Covered, WillRefresh
  <1>2. ASSUME Quiet, NEW q \in Path, ChangeFile(q)  PROVE Covered(p)'
    <2>1. UNCHANGED <<todo, snap>> /\ disk' = [disk EXCEPT ![q] = @ + 1]
      BY <1>2 DEF ChangeFile, tasks
    <2>2. CASE ~watched
      <3>1. dirty.all
        BY <2>2 DEF UnwatchedIsUnread
      <3>2. QED  BY <1>2, <3>1 DEF Quiet, Covered
    <2>3. CASE watched
      <3>1. PICK aux \in BOOLEAN : events' = events \cup {[path |-> q, aux |-> aux]}
        BY <1>2, <2>3 DEF ChangeFile
      <3>2. CASE p = q
        <4>1. [path |-> q, aux |-> aux] \in events' /\ [path |-> q, aux |-> aux].path = p
          BY <3>1, <3>2
        <4>2. QED  BY <4>1 DEF Covered
      <3>3. CASE p # q
        <4>1. disk'[p] = disk[p]
          BY <2>1, <3>3 DEF TypeOK, Snapshot
        <4>2. QED  BY <1>2, <2>1, <3>1, <4>1 DEF Quiet, Covered, WillRefresh
      <3>4. QED  BY <3>2, <3>3
    <2>4. QED  BY <2>2, <2>3
  <1>3. ASSUME Quiet, NEW t \in Task, NEW q \in Path, LoadRead(t, q)  PROVE Covered(p)'
    <2>1. UNCHANGED <<disk, events>>
      BY <1>3 DEF LoadRead, outside
    <2>2. ASSUME NEW u \in Task, WillRefresh(u, p)  PROVE WillRefresh(u, p)'
      <3>1. CASE u = t /\ q = p
        <4>1. snap'[u][p] = disk[p]
          BY <1>3, <2>2, <3>1 DEF LoadRead, WillRefresh, TypeOK, Snapshot
        <4>2. QED  BY <1>3, <2>1, <2>2, <4>1 DEF Quiet, WillRefresh
      <3>2. CASE ~(u = t /\ q = p)
        <4>1. snap'[u][p] = snap[u][p] /\ (p \in todo[u] => p \in todo'[u])
          BY <1>3, <3>2 DEF LoadRead, TypeOK, Snapshot
        <4>2. QED  BY <1>3, <2>1, <2>2, <4>1 DEF Quiet, WillRefresh
      <3>3. QED  BY <3>1, <3>2
    <2>3. QED  BY <1>3, <2>1, <2>2 DEF Quiet, Covered
  <1>4. CASE Quiet /\ HandleFilesystem
    <2>1. UNCHANGED <<disk, todo, snap>>
      BY <1>4 DEF HandleFilesystem
    <2>2. PICK batch \in (SUBSET events) \ {{}} :
            events' = events \ batch /\ MarkDirty(ChangesOf(batch), TRUE)
      BY <1>4 DEF HandleFilesystem
    <2>3. batch \in SUBSET Event /\ batch # {}
      BY <2>2 DEF TypeOK
    <2>4. CASE \E e \in batch : e.path = p
      BY <2>2, <2>3, <2>4, ChangesOfBatch, MarkedDirty DEF Covered
    <2>5. CASE ~\E e \in batch : e.path = p
      BY <1>4, <2>1, <2>2, <2>5 DEF Quiet, Covered, WillRefresh
    <2>6. QED  BY <2>4, <2>5
  <1>5. CASE Quiet /\ TakeUpdate
    BY <1>5 DEF Quiet, TakeUpdate, outside, tasks, Covered, WillRefresh
  <1>6. ASSUME NEW t \in Task, LoadWait(t)  PROVE Covered(p)'
    <2>1. \A u \in Task : pc'[u] = "reading" <=> pc[u] = "reading"
      BY <1>6 DEF LoadWait, TypeOK
    <2>2. QED  BY <1>6, <2>1 DEF LoadWait, backend, outside, Covered, WillRefresh
  <1>7. ASSUME NEW t \in Task, LoadStart(t)  PROVE Covered(p)'
    <2>1. UNCHANGED <<loaded, data, disk, events>>
      BY <1>7 DEF LoadStart, outside
    <2>2. pc'[t] = "reading" /\ p \in todo'[t]
      BY <1>7 DEF LoadStart, TypeOK
    <2>3. CASE ~loaded \/ dirty.all \/ p \in dirty.paths
      <3>1. p \in fresh'[t]
        BY <1>7, <2>3 DEF LoadStart, TypeOK
      <3>2. QED  BY <2>2, <3>1 DEF Covered, WillRefresh
    <2>4. CASE loaded /\ ~dirty.all /\ p \notin dirty.paths
      <3>1. \A u \in Task : pc[u] # "reading"
        BY <1>7, TaskAssumption DEF LoadStart, InFlight, Control, SingleFlight
      <3>2. QED  BY <2>1, <2>4, <3>1 DEF Covered, WillRefresh
    <2>5. QED  BY <2>3, <2>4
  <1>8. ASSUME NEW t \in Task, LoadFinish(t)  PROVE Covered(p)'
    <2>1. UNCHANGED <<dirty, disk, events>> /\ loaded' /\ data' = snap[t]
      BY <1>8 DEF LoadFinish, outside
    <2>2. CASE loaded /\ data[p] = disk[p]
      <3>1. data[p] <= snap[t][p] /\ snap[t][p] <= disk[p]
        BY <1>8 DEF LoadFinish, InOrder, NoNewer
      <3>2. data[p] \in Nat /\ snap[t][p] \in Nat /\ disk[p] \in Nat
        BY DEF TypeOK, Snapshot, Version
      <3>3. QED  BY <2>1, <2>2, <3>1, <3>2 DEF Covered
    <2>3. ASSUME NEW u \in Task, WillRefresh(u, p)  PROVE Covered(p)'
      <3>1. u = t /\ todo[t] = {}
        BY <1>8, <2>3 DEF LoadFinish, WillRefresh, Control, SingleFlight
      <3>2. QED  BY <2>1, <2>3, <3>1 DEF Covered, WillRefresh
    <2>4. CASE dirty.all \/ p \in dirty.paths \/ \E e \in events : e.path = p
      BY <2>1, <2>4 DEF Covered
    <2>5. QED  BY <2>2, <2>3, <2>4 DEF Covered
  <1>9. ASSUME NEW t \in Task, LoadAbandon(t)  PROVE Covered(p)'
    BY <1>9 DEF LoadAbandon
  <1>10. QED
    BY <1>1, <1>2, <1>3, <1>4, <1>5, <1>6, <1>7, <1>8, <1>9, StepCases, DataCases

\* The inductive invariant: StaleIsCovered needs the order of what is read and
\* published, or a load could publish less than the data it replaces; and that
\* nothing is read before it is watched, or a change would go unnoticed.
IInv == TypeOK /\ Control /\ InOrder /\ UnwatchedIsUnread /\ StaleIsCovered

LEMMA IInvStep == IInv /\ [Next]_vars => IInv'
PROOF
  <1> SUFFICES ASSUME IInv, [Next]_vars  PROVE IInv'
    OBVIOUS
  <1>1. TypeOK' /\ Control'
    BY TypeStep, ControlStep DEF IInv
  <1>2. InOrder' /\ UnwatchedIsUnread'
    BY <1>1, InOrderStep, UnwatchedIsUnreadStep DEF IInv
  <1>3. alive' => alive
    BY StepCases DEF IInv, Quiet, LoadWait, LoadStart, LoadFinish, LoadAbandon, backend
  <1>4. StaleIsCovered'
    <2> SUFFICES ASSUME alive', NEW p \in Path  PROVE Covered(p)'
      BY DEF StaleIsCovered, Covered
    <2>1. alive /\ Covered(p)
      BY <1>3 DEF IInv, StaleIsCovered, Covered
    <2>2. QED  BY <2>1, CoveredStep DEF IInv
  <1>5. QED  BY <1>1, <1>2, <1>4 DEF IInv

\* The inductive invariant holds.
THEOREM Invariance == Spec => []IInv
PROOF
  <1>1. Init /\ TypeOK => InOrder /\ UnwatchedIsUnread /\ StaleIsCovered
    BY DEF Init, InOrder, NoNewer, Empty, UnwatchedIsUnread, StaleIsCovered, all_dirty
  <1>2. Init => TypeOK /\ Control
    BY InitTypeOK, InitControl
  <1>3. Init => IInv
    BY <1>1, <1>2 DEF IInv
  <1>4. IInv /\ [Next]_vars => IInv'
    BY IInvStep
  <1>5. QED  BY <1>3, <1>4, PTL DEF Spec

\* No change of a file is ever forgotten.
THEOREM NothingForgotten == Spec => []StaleIsCovered
  BY Invariance, PTL DEF IInv

-----------------------------------------------------------------------------
(* Refinement: what the page shows is a copy that only moves forward. *)

LEMMA InitRefines == Init => Abstract!Init
  BY DEF Init, Empty, Abstract!Init

LEMMA StepRefines == IInv /\ [Next]_vars => [Abstract!Next]_(Abstract!vars)
PROOF
  <1> SUFFICES ASSUME IInv, [Next]_vars  PROVE [Abstract!Next]_(Abstract!vars)
    OBVIOUS
  <1>1. ASSUME NEW p \in Path, ChangeFile(p)  PROVE Abstract!Change(p)
    BY <1>1 DEF ChangeFile, frontend, Abstract!Change
  <1>2. CASE TakeUpdate
    <2>1. view' = inbox[1] /\ 1 \in 1 .. Len(inbox) /\ disk' = disk
      BY <1>2 DEF TakeUpdate, outside, IInv, TypeOK
    <2>2. view' \in [Path -> Nat]
      BY <2>1 DEF IInv, TypeOK, Snapshot, Version
    <2>3. NoNewer(view, view') /\ NoNewer(view', data) /\ NoNewer(data, disk)
      BY <2>1 DEF IInv, InOrder
    <2>4. NoNewer(view', disk)
      BY <2>2, <2>3, NoNewerTrans DEF IInv, TypeOK, Snapshot, Version
    <2>5. QED  BY <2>1, <2>2, <2>3, <2>4 DEF Abstract!Next, Abstract!Refresh, NoNewer
  <1>3. ASSUME NEW t \in Task, LoadWait(t) \/ LoadStart(t) \/ LoadFinish(t) \/ LoadAbandon(t)
        PROVE  UNCHANGED <<disk, view>>
    BY <1>3 DEF LoadWait, LoadStart, LoadFinish, LoadAbandon, outside, frontend
  <1>4. ASSUME NEW t \in Task, NEW p \in Path, LoadRead(t, p)  PROVE UNCHANGED <<disk, view>>
    BY <1>4 DEF LoadRead, outside, frontend
  <1>5. CASE HandleFilesystem
    BY <1>5 DEF HandleFilesystem, frontend, Abstract!vars
  <1>6. CASE Plain
    BY <1>6 DEF Plain, Abstract!vars
  <1>7. QED
    BY <1>1, <1>2, <1>3, <1>4, <1>5, <1>6, DataCases DEF Abstract!Next, Abstract!vars

\* InstanceLoad implements FreshCopy.
THEOREM LoadImplementsFreshCopy == Spec => ImplementsFreshCopy
PROOF
  <1>1. QED
    BY InitRefines, StepRefines, Invariance, PTL DEF Spec, ImplementsFreshCopy, Abstract!Spec
-----------------------------------------------------------------------------
(* ContentInstalls *)

\* What an install has got: a content and where it goes.
Got == [content : Content, to : Place, replace : Place \cup {Nil}, source : Mod,
        required : BOOLEAN, by_url : BOOLEAN]

\* InstallsType, with what a job is made of.
HasInstalls ==
  /\ mods \in [Place -> Content \cup {Nil}]
  /\ listed \in [Place -> (Content \cup {Nil}) \X (Mod \cup {Nil})]
  /\ target \in Target
  /\ newest \in [Mod -> 1 .. 1 + MaxReleases]
  /\ from \in [Content -> Mod \cup {Nil}]
  /\ updates \in [Content \X Target -> Content \cup {Nil}]
  /\ job \in [pc : {"idle", "files", "link"}, running : SUBSET FileToInstall, dependencies : BOOLEAN,
              round : Nat, next : SUBSET FileToInstall, got : SUBSET Got]
  /\ projects \subseteq Mod

\* A project that may be the source of p.
may_be_from(p, source) ==
  IF Catalogue[p].curseforge THEN Catalogue[source].curseforge ELSE source = p

\* Sources, and what the checks have found, are of the same site; with Modrinth, of
\* the same project.
SourcesFit ==
  /\ \A c \in Content : from[c] # Nil => may_be_from(project(c), from[c])
  /\ \A c \in Content, t \in Target :
       updates[<<c, t>>] # Nil => may_be_from(project(c), project(updates[<<c, t>>]))
  /\ \A k \in job.running \cup job.next : may_be_from(k.project, k.source)
  /\ \A g \in job.got : may_be_from(project(g.content), g.source)

\* Projects of Modrinth that only installs have brought, and none has brought twice.
Kept == {p \in Mod \ doubled : ~Catalogue[p].curseforge}

\* Of their content the source is kept, and listed.
SourcesAreKnown ==
  \A p \in Kept :
    /\ \A c \in In(mods) : project(c) = p => from[c] = p
    /\ \A f \in Place : Listed(f) # Nil /\ project(Listed(f)) = p => listed[f][2] = p

\* They are in the folder once at most; not while they are on their way, but for the
\* file that is replaced; and not if they have not been asked for.
KeptOnce ==
  \A p \in Kept :
    /\ \A f, h \in Copies(p) : f = h
    /\ \A k \in job.running : k.project = p => Copies(p) = {}
    /\ \A g \in job.got : project(g.content) = p => Copies(p) \subseteq {g.replace}
    /\ job.pc = "files" /\ job.dependencies /\ p \notin projects => Copies(p) = {}

\* What runs is of different projects, or known to be brought twice; they are marked as
\* asked for, but those that are sent by their URL, which may be brought again if they
\* have no id.
AskedOnce ==
  /\ \A k, l \in job.running : k.project = l.project => k = l \/ (job.round = 0 /\ k.project \in doubled)
  /\ \A g, h \in job.got : g # h /\ project(g.content) = project(h.content) =>
       /\ project(g.content) \in doubled
       /\ g.required => h.by_url /\ mod_id(h.content) = Nil
  /\ \A k \in job.running, g \in job.got : k.project = project(g.content) =>
       IF job.round = 0 THEN k.project \in doubled ELSE g.by_url
  /\ \A k \in job.running : by_url(k) \/ k.project \in projects
  /\ \A g \in job.got :
       /\ g.by_url => ~g.required
       /\ IF g.replace = Nil THEN g.by_url \/ project(g.content) \in projects
          ELSE job.got = {g} /\ job.running = {} /\ job.next = {} /\ ~g.required

\* Where a job stands.
Stages ==
  /\ job.pc = "idle" => job.running = {} /\ job.next = {} /\ job.got = {}
  /\ job.pc = "link" =>
       /\ job.running = {} /\ job.next = {}
       /\ \A g \in job.got : ~Catalogue[project(g.content)].curseforge => from[g.content] = project(g.content)
  /\ job.next # {} \/ job.round > 0 => job.dependencies
  /\ \A k \in job.running : ~by_url(k) => job.dependencies
  /\ \A k \in job.next : ~by_url(k)
  /\ job.round > 0 => \A k \in job.running : ~by_url(k)

\* What is required is new: to what was listed, and by its id.
RequiredIsNew ==
  /\ Nil \notin ids
  /\ job.dependencies => had.sources \subseteq projects \cup {Nil} /\ had.ids \subseteq ids
  /\ job.round > 0 => \A k \in job.running : k.project \notin had.sources
  /\ \A g \in job.got :
       /\ job.dependencies /\ g.replace = Nil => mod_id(g.content) \in ids \cup {Nil}
       /\ g.required =>
            /\ job.round > 0 /\ project(g.content) \notin had.sources
            /\ mod_id(g.content) # Nil =>
                 /\ mod_id(g.content) \notin had.ids
                 /\ \A h \in job.got \ {g} : mod_id(h.content) # mod_id(g.content)

\* Each round but the last asks for a project that was not asked for before.
RoundsAskAnew ==
  /\ job.round <= Cardinality(projects)
  /\ job.next # {} \/ (\E k \in job.running : ~by_url(k)) => job.round + 1 <= Cardinality(projects)

InstallsInv ==
  /\ HasInstalls /\ SourcesFit /\ SourcesAreKnown /\ KeptOnce /\ AskedOnce /\ Stages
  /\ RequiredIsNew /\ RoundsAskAnew

\* The names of a project's files.
names(p) == {Catalogue[p].names[v] : v \in 1 .. 1 + MaxReleases}

\* Nobody else gives a file the name of one of Modrinth's.
NamesDiffer ==
  \A p, q \in Mod : p # q /\ ~Catalogue[p].curseforge => names(p) \cap names(q) = {}

\* Files have a name of their project, and are replaced by the same project's.
NamesFit ==
  /\ \A f \in Place :
       /\ mods[f] # Nil => f[1] \in names(project(mods[f]))
       /\ Listed(f) # Nil => f[1] \in names(project(Listed(f)))
  /\ \A g \in job.got :
       /\ g.to[1] \in names(project(g.content))
       /\ g.replace # Nil =>
            \A p \in Mod : ~Catalogue[p].curseforge /\ g.replace[1] \in names(p) => project(g.content) = p

\* A content has a place, enabled and disabled.
LEMMA PlaceFact ==
  ASSUME CatalogueAssumption, NEW c \in Content, NEW enabled \in BOOLEAN
  PROVE  /\ place(c, enabled) \in Place /\ project(c) \in Mod
         /\ place(c, enabled)[1] \in names(project(c)) /\ c[2] \in 1 .. 1 + MaxReleases
<1>1. c[1] \in Mod /\ c[2] \in 1 .. 1 + MaxReleases  BY DEF Content
<1> QED BY <1>1 DEF place, Place, project, names

\* One id.
LEMMA OneId ==
  ASSUME NEW c
  PROVE  mod_ids({c}) = {mod_id(c)} \ {Nil}
BY DEF mod_ids

\* The invariant at first.
LEMMA InitInstalls ==
  ASSUME CatalogueAssumption, InstallsInit
  PROVE  InstallsInv /\ NamesFit
<1>1. HasInstalls
  BY DEF InstallsInit, HasInstalls, NoJob, CatalogueAssumption
<1>2. SourcesFit /\ SourcesAreKnown /\ KeptOnce
  BY DEF InstallsInit, SourcesFit, SourcesAreKnown, KeptOnce, NoJob, In, Listed, Copies
<1>3. AskedOnce /\ Stages /\ RequiredIsNew
  BY DEF InstallsInit, AskedOnce, Stages, RequiredIsNew, NoJob, Nothing
<1>4. RoundsAskAnew
  BY FS_EmptySet DEF InstallsInit, RoundsAskAnew, NoJob
<1>5. NamesFit
  BY DEF InstallsInit, NamesFit, NoJob, Listed
<1> QED BY <1>1, <1>2, <1>3, <1>4, <1>5 DEF InstallsInv

\* What is read is what is in the folder, from where it is known to be.
LEMMA ReadFact ==
  ASSUME CatalogueAssumption, HasInstalls, SourcesAreKnown, Read \/ UNCHANGED listed
  PROVE  /\ listed' \in [Place -> (Content \cup {Nil}) \X (Mod \cup {Nil})]
         /\ \A p \in Kept, f \in Place :
              listed'[f][1] # Nil /\ project(listed'[f][1]) = p => listed'[f][2] = p
         /\ \A f \in Place : listed'[f][1] \in {Listed(f), mods[f]}
<1>1. CASE UNCHANGED listed  BY <1>1 DEF HasInstalls, SourcesAreKnown, Listed
<1>2. CASE Read
  <2>1. PICK everything \in BOOLEAN :
          listed' = [f \in Place |->
            IF ~everything /\ Listed(f) = mods[f] THEN listed[f]
            ELSE <<mods[f], IF mods[f] = Nil THEN Nil ELSE from[mods[f]]>>]
    BY <1>2 DEF Read
  <2>2. \A f \in Place : mods[f] # Nil => mods[f] \in Content /\ from[mods[f]] \in Mod \cup {Nil}
    BY DEF HasInstalls
  <2>3. ASSUME NEW f \in Place
        PROVE  /\ listed'[f] \in (Content \cup {Nil}) \X (Mod \cup {Nil})
               /\ listed'[f][1] \in {Listed(f), mods[f]}
               /\ \A p \in Kept : listed'[f][1] # Nil /\ project(listed'[f][1]) = p => listed'[f][2] = p
    <3>1. CASE listed'[f] = listed[f]  BY <3>1 DEF HasInstalls, SourcesAreKnown, Listed
    <3>2. CASE listed'[f] = <<mods[f], IF mods[f] = Nil THEN Nil ELSE from[mods[f]]>>
      <4>1. CASE mods[f] = Nil  BY <3>2, <4>1
      <4>2. CASE mods[f] # Nil
        <5>1. mods[f] \in In(mods)  BY <4>2 DEF In
        <5> QED BY <2>2, <3>2, <4>2, <5>1 DEF SourcesAreKnown
      <4> QED BY <4>1, <4>2
    <3> QED BY <2>1, <3>1, <3>2
  <2>4. DOMAIN listed' = Place /\ listed' = [f \in Place |-> listed'[f]]  BY <2>1
  <2>5. listed' \in [Place -> (Content \cup {Nil}) \X (Mod \cup {Nil})]  BY <2>3, <2>4
  <2> QED BY <2>3, <2>5
<1> QED BY <1>1, <1>2

\* SourcesFit and what is not about the folder: the steps that leave the job alone.
LEMMA JobStays ==
  ASSUME InstallsInv, UNCHANGED <<job, projects, ids, had, from>>, doubled \subseteq doubled'
  PROVE  AskedOnce' /\ Stages' /\ RequiredIsNew' /\ RoundsAskAnew'
BY DEF InstallsInv, AskedOnce, Stages, RequiredIsNew, RoundsAskAnew
\* A list that is read, alone or by an action that leaves the rest.
LEMMA ListKeeps ==
  ASSUME CatalogueAssumption, InstallsInv, Read \/ UNCHANGED listed, doubled \subseteq doubled',
         UNCHANGED <<mods, from>>
  PROVE  /\ listed' \in [Place -> (Content \cup {Nil}) \X (Mod \cup {Nil})]
         /\ SourcesAreKnown' /\ Kept' \subseteq Kept
<1>1. /\ listed' \in [Place -> (Content \cup {Nil}) \X (Mod \cup {Nil})]
      /\ \A p \in Kept, f \in Place :
           listed'[f][1] # Nil /\ project(listed'[f][1]) = p => listed'[f][2] = p
  BY ReadFact DEF InstallsInv
<1>2. Kept' \subseteq Kept  BY DEF Kept
<1>3. \A p \in Kept : \A c \in In(mods)' : project(c) = p => from'[c] = p
  BY DEF InstallsInv, SourcesAreKnown, In
<1>4. SourcesAreKnown'  BY <1>1, <1>2, <1>3 DEF SourcesAreKnown, Listed
<1> QED BY <1>1, <1>2, <1>4

\* Names stay right when a list is read.
LEMMA ListKeepsNames ==
  ASSUME CatalogueAssumption, InstallsInv, NamesFit, Read \/ UNCHANGED listed, UNCHANGED mods
  PROVE  \A f \in Place :
           /\ mods'[f] # Nil => f[1] \in names(project(mods'[f]))
           /\ Listed(f)' # Nil => f[1] \in names(project(Listed(f)'))
BY ReadFact DEF InstallsInv, NamesFit, Listed

LEMMA ReleaseKeeps ==
  ASSUME CatalogueAssumption, InstallsInv, NEW p \in Mod, Release(p)
  PROVE  InstallsInv' /\ (NamesFit => NamesFit')
<1>1. HasInstalls'
  BY DEF Release, InstallsInv, HasInstalls, installs_history, known, installed_ids, CatalogueAssumption
<1>2. SourcesFit' /\ SourcesAreKnown' /\ KeptOnce' /\ NamesFit' = NamesFit
  BY DEF Release, InstallsInv, SourcesFit, SourcesAreKnown, KeptOnce, NamesFit, Kept, In, Copies, Listed, installs_history,
     known, installed_ids
<1> QED BY <1>1, <1>2, JobStays DEF Release, InstallsInv, installs_history, known, installed_ids

LEMMA ReloadKeeps ==
  ASSUME CatalogueAssumption, InstallsInv, Reload
  PROVE  InstallsInv' /\ (NamesFit => NamesFit')
<1>1. Read /\ UNCHANGED <<mods, target, newest, from, updates, job, projects, ids, had, doubled, gone>>
  BY DEF Reload, known, installed_ids, installs_history
<1>2. listed' \in [Place -> (Content \cup {Nil}) \X (Mod \cup {Nil})] /\ SourcesAreKnown'
  BY <1>1, ListKeeps
<1>3. HasInstalls'  BY <1>1, <1>2 DEF InstallsInv, HasInstalls
<1>4. SourcesFit' /\ KeptOnce'
  BY <1>1 DEF InstallsInv, SourcesFit, KeptOnce, Kept, Copies
<1>5. NamesFit => NamesFit'  BY <1>1, ListKeepsNames DEF NamesFit
<1> QED BY <1>1, <1>2, <1>3, <1>4, <1>5, JobStays DEF InstallsInv

\* What a check finds is from where the content is.
LEMMA NewerFact ==
  ASSUME CatalogueAssumption, InstallsInv, NEW c \in Content
  PROVE  /\ newer(c) \in Content \cup {Nil}
         /\ newer(c) # Nil => may_be_from(project(c), project(newer(c)))
<1> DEFINE asked == IF Catalogue[project(c)].curseforge THEN from[c] ELSE project(c)
<1>1. project(c) \in Mod  BY DEF project, Content
<1>2. CASE newer(c) = Nil  BY <1>2
<1>3. CASE newer(c) # Nil
  <2>1. from[c] # Nil /\ asked = from[c] /\ newer(c) = <<asked, newest[asked]>>
    BY <1>3 DEF newer
  <2>2. asked \in Mod /\ newest[asked] \in 1 .. 1 + MaxReleases
    BY <2>1 DEF InstallsInv, HasInstalls
  <2>3. newer(c) \in Content /\ project(newer(c)) = asked  BY <2>1, <2>2 DEF Content, project
  <2> QED BY <1>1, <2>1, <2>3 DEF InstallsInv, SourcesFit
<1> QED BY <1>2, <1>3

LEMMA UpdateCheckKeeps ==
  ASSUME CatalogueAssumption, InstallsInv, UpdateCheck
  PROVE  InstallsInv' /\ (NamesFit => NamesFit')
<1>1. /\ Read \/ UNCHANGED listed
      /\ UNCHANGED <<mods, target, newest, from, job, projects, ids, had, doubled, gone>>
      /\ updates' = [k \in Content \X Target |->
           IF k[1] \in InList(listed') /\ k[2] = target THEN newer(k[1]) ELSE updates[k]]
  BY DEF UpdateCheck, installed_ids
<1>2. listed' \in [Place -> (Content \cup {Nil}) \X (Mod \cup {Nil})] /\ SourcesAreKnown'
  BY <1>1, ListKeeps
<1>3. \A k \in Content \X Target : updates'[k] \in {newer(k[1]), updates[k]}  BY <1>1
<1>4. updates' \in [Content \X Target -> Content \cup {Nil}]
  BY <1>1, <1>3, NewerFact DEF InstallsInv, HasInstalls
<1>5. \A c \in Content, t \in Target :
        updates'[<<c, t>>] # Nil => may_be_from(project(c), project(updates'[<<c, t>>]))
  <2> SUFFICES ASSUME NEW c \in Content, NEW t \in Target, updates'[<<c, t>>] # Nil
               PROVE  may_be_from(project(c), project(updates'[<<c, t>>]))
    OBVIOUS
  <2>1. updates'[<<c, t>>] \in {newer(c), updates[<<c, t>>]}  BY <1>3
  <2> QED BY <2>1, NewerFact DEF InstallsInv, SourcesFit
<1>6. HasInstalls'  BY <1>1, <1>2, <1>4 DEF InstallsInv, HasInstalls
<1>7. SourcesFit'
  BY <1>1, <1>5 DEF InstallsInv, SourcesFit
<1>8. KeptOnce'
  BY <1>1 DEF InstallsInv, KeptOnce, Kept, Copies
<1>9. NamesFit => NamesFit'  BY <1>1, ListKeepsNames DEF NamesFit
<1> QED BY <1>1, <1>2, <1>6, <1>7, <1>8, <1>9, JobStays DEF InstallsInv

LEMMA ChangeTargetKeeps ==
  ASSUME CatalogueAssumption, InstallsInv, NEW t \in Target, ChangeTarget(t)
  PROVE  InstallsInv' /\ (NamesFit => NamesFit')
<1>1. target' = t /\ UNCHANGED <<mods, listed, newest, from, updates, job, projects, ids, had, doubled, gone>>
  BY DEF ChangeTarget, known, installed_ids
<1>2. HasInstalls'  BY <1>1 DEF InstallsInv, HasInstalls
<1>3. SourcesFit' /\ SourcesAreKnown' /\ KeptOnce' /\ NamesFit' = NamesFit
  BY <1>1 DEF InstallsInv, SourcesFit, SourcesAreKnown, KeptOnce, NamesFit, Kept, In, Copies, Listed
<1> QED BY <1>1, <1>2, <1>3, JobStays DEF InstallsInv

-----------------------------------------------------------------------------
\* What the user does to the folder, while no job is there.
LEMMA UserKeeps ==
  ASSUME CatalogueAssumption, InstallsInv, job.pc = "idle",
         UNCHANGED <<listed, target, newest, from, updates, job, projects, ids, had>>,
         mods' \in [Place -> Content \cup {Nil}], doubled \subseteq doubled',
         In(mods') \subseteq In(mods) \cup {c \in Content : project(c) \in doubled'},
         \A p \in Kept' : \A f, h \in Copies(p)' : f = h
  PROVE  InstallsInv'
<1>1. HasInstalls'  BY DEF InstallsInv, HasInstalls
<1>2. Kept' \subseteq Kept /\ Kept' \cap doubled' = {}  BY DEF Kept
<1>3. SourcesFit'  BY DEF InstallsInv, SourcesFit
<1>4. SourcesAreKnown'
  <2>1. \A p \in Kept' : \A c \in In(mods') : project(c) = p => from'[c] = p
    BY <1>2 DEF InstallsInv, SourcesAreKnown
  <2>2. \A p \in Kept', f \in Place : Listed(f)' # Nil /\ project(Listed(f)') = p => listed'[f][2] = p
    BY <1>2 DEF InstallsInv, SourcesAreKnown, Listed
  <2> QED BY <2>1, <2>2 DEF SourcesAreKnown, In
<1>5. KeptOnce'
  BY DEF InstallsInv, Stages, KeptOnce
<1> QED BY <1>1, <1>3, <1>4, <1>5, JobStays DEF InstallsInv

LEMMA AddFileKeeps ==
  ASSUME CatalogueAssumption, InstallsInv, NEW c \in Content, AddFile(c)
  PROVE  InstallsInv' /\ (NamesFit => NamesFit')
<1>1. /\ job.pc = "idle" /\ doubled' = doubled \cup {project(c)}
      /\ mods' = IF mods[place(c, TRUE)] = Nil THEN [mods EXCEPT ![place(c, TRUE)] = c] ELSE mods
      /\ UNCHANGED <<listed, target, newest, from, updates, job, projects, ids, had, gone>>
  BY DEF AddFile, Click, known, installed_ids
<1>2. place(c, TRUE) \in Place /\ place(c, TRUE)[1] \in names(project(c))  BY PlaceFact
<1>3. mods \in [Place -> Content \cup {Nil}]  BY DEF InstallsInv, HasInstalls
<1>4. /\ mods' \in [Place -> Content \cup {Nil}]
      /\ \A f \in Place : mods'[f] \in {mods[f], c}
      /\ \A f \in Place : mods'[f] # mods[f] => f = place(c, TRUE) /\ mods'[f] = c
  BY <1>1, <1>2, <1>3
<1>5. In(mods') \subseteq In(mods) \cup {d \in Content : project(d) \in doubled'}
  BY <1>1, <1>4 DEF In
<1>6. ASSUME NEW p \in Kept' PROVE Copies(p)' = Copies(p) /\ p \in Kept
  <2>1. p # project(c) /\ p \in Kept  BY <1>1 DEF Kept
  <2>2. \A f \in Place : (mods'[f] # Nil /\ project(mods'[f]) = p) <=> (mods[f] # Nil /\ project(mods[f]) = p)
    BY <1>1, <1>2, <1>3, <2>1
  <2> QED BY <2>1, <2>2 DEF Copies
<1>7. \A p \in Kept' : \A f, h \in Copies(p)' : f = h  BY <1>6 DEF InstallsInv, KeptOnce
<1>8. InstallsInv'  BY <1>1, <1>4, <1>5, <1>7, UserKeeps
<1>9. NamesFit => NamesFit'  BY <1>1, <1>2, <1>4 DEF NamesFit, Listed
<1> QED BY <1>8, <1>9

\* Enabling or disabling a file moves what is there, over what is at the other name.
LEMMA ToggleFact ==
  ASSUME CatalogueAssumption, InstallsInv, NEW f \in Place, Toggle(f)
  PROVE  /\ job.pc = "idle"
         /\ UNCHANGED <<listed, target, newest, from, updates, job, projects, ids, had, doubled>>
         /\ <<f[1], ~f[2]>> \in Place /\ <<f[1], ~f[2]>> # f
         /\ mods' \in [Place -> Content \cup {Nil}]
         /\ \/ UNCHANGED mods
            \/ /\ mods[f] # Nil /\ mods'[f] = Nil /\ mods'[<<f[1], ~f[2]>>] = mods[f]
               /\ \A h \in Place \ {f, <<f[1], ~f[2]>>} : mods'[h] = mods[h]
         /\ gone' = gone \cup (IF mods[f] # Nil /\ mods[<<f[1], ~f[2]>>] # Nil
                               THEN {project(mods[<<f[1], ~f[2]>>])} ELSE {})
<1> DEFINE to == <<f[1], ~f[2]>>
<1>1. f = <<f[1], f[2]>> /\ f[2] \in BOOLEAN /\ to \in Place /\ to # f
  <2>1. f = <<f[1], f[2]>> /\ f[2] \in BOOLEAN /\ \A enabled \in BOOLEAN : <<f[1], enabled>> \in Place
    BY DEF Place
  <2>2. CASE f[2] = TRUE
    <3>1. (~f[2]) = FALSE  BY <2>2, Zenon
    <3>2. to = <<f[1], FALSE>>  BY <3>1, Zenon
    <3>3. <<f[1], FALSE>> # f
      <4>1. <<f[1], FALSE>>[2] = FALSE  OBVIOUS
      <4> QED BY <2>2, <4>1, Zenon
    <3> QED BY <2>1, <3>2, <3>3
  <2>3. CASE f[2] = FALSE
    <3>1. (~f[2]) = TRUE  BY <2>3, Zenon
    <3>2. to = <<f[1], TRUE>>  BY <3>1, Zenon
    <3>3. <<f[1], TRUE>> # f
      <4>1. <<f[1], TRUE>>[2] = TRUE  OBVIOUS
      <4> QED BY <2>3, <4>1, Zenon
    <3> QED BY <2>1, <3>2, <3>3
  <2> QED BY <2>1, <2>2, <2>3
<1>2. mods \in [Place -> Content \cup {Nil}]  BY DEF InstallsInv, HasInstalls
<1>3. /\ job.pc = "idle" /\ UNCHANGED <<listed, target, newest, from, updates, job, projects, ids, had, doubled>>
      /\ mods' = IF mods[f] = Nil THEN mods ELSE [mods EXCEPT ![f] = Nil, ![to] = mods[f]]
      /\ gone' = gone \cup (IF mods[f] # Nil /\ mods[to] # Nil THEN {project(mods[to])} ELSE {})
  BY DEF Toggle, Click, known, installed_ids
<1> HIDE DEF to
<1>4. /\ mods' \in [Place -> Content \cup {Nil}]
      /\ \/ UNCHANGED mods
         \/ /\ mods[f] # Nil /\ mods'[f] = Nil /\ mods'[to] = mods[f]
            /\ \A h \in Place \ {f, to} : mods'[h] = mods[h]
  BY <1>1, <1>2, <1>3
<1> QED BY <1>1, <1>3, <1>4 DEF to

LEMMA ToggleKeeps ==
  ASSUME CatalogueAssumption, InstallsInv, NEW f \in Place, Toggle(f)
  PROVE  InstallsInv' /\ (NamesFit => NamesFit')
<1>1. PICK to : to = <<f[1], ~f[2]>>  OBVIOUS
<1>2. /\ job.pc = "idle" /\ UNCHANGED <<listed, target, newest, from, updates, job, projects, ids, had, doubled>>
      /\ to \in Place /\ to # f /\ to[1] = f[1]
      /\ mods' \in [Place -> Content \cup {Nil}]
      /\ \/ UNCHANGED mods
         \/ /\ mods[f] # Nil /\ mods'[f] = Nil /\ mods'[to] = mods[f]
            /\ \A h \in Place \ {f, to} : mods'[h] = mods[h]
  BY <1>1, ToggleFact
<1>3. In(mods') \subseteq In(mods)  BY <1>2 DEF In
<1>4. ASSUME NEW p \in Kept', NEW g \in Copies(p)', NEW h \in Copies(p)' PROVE g = h
  <2>1. p \in Kept  BY <1>2 DEF Kept
  <2>2. \A x, y \in Copies(p) : x = y  BY <2>1 DEF InstallsInv, KeptOnce
  <2>3. ASSUME NEW x \in Copies(p)' PROVE x \in Copies(p) \/ (x = to /\ f \in Copies(p) /\ mods'[f] = Nil)
    BY <1>2 DEF Copies
  <2>4. ASSUME NEW x \in Copies(p)', mods'[f] = Nil PROVE x # f  BY <2>4 DEF Copies
  <2>5. g \in Copies(p) \/ (g = to /\ f \in Copies(p) /\ mods'[f] = Nil)  BY <2>3
  <2>6. h \in Copies(p) \/ (h = to /\ f \in Copies(p) /\ mods'[f] = Nil)  BY <2>3
  <2> QED BY <2>2, <2>4, <2>5, <2>6
<1>5. InstallsInv'
  <2>1. In(mods') \subseteq In(mods) \cup {c \in Content : project(c) \in doubled'} /\ doubled \subseteq doubled'
    BY <1>2, <1>3
  <2> QED BY <1>2, <1>4, <2>1, UserKeeps
<1>6. NamesFit => NamesFit'  BY <1>2 DEF NamesFit, Listed
<1> QED BY <1>5, <1>6

LEMMA DeleteContentKeeps ==
  ASSUME CatalogueAssumption, InstallsInv, NEW f \in Place, DeleteContent(f)
  PROVE  InstallsInv' /\ (NamesFit => NamesFit')
<1>1. /\ job.pc = "idle" /\ mods' = [mods EXCEPT ![f] = Nil]
      /\ UNCHANGED <<listed, target, newest, from, updates, job, projects, ids, had, doubled>>
  BY DEF DeleteContent, Click, known, installed_ids
<1>2. mods \in [Place -> Content \cup {Nil}]  BY DEF InstallsInv, HasInstalls
<1>3. mods' \in [Place -> Content \cup {Nil}] /\ mods'[f] = Nil /\ \A h \in Place \ {f} : mods'[h] = mods[h]
  BY <1>1, <1>2
<1>4. In(mods') \subseteq In(mods) \cup {c \in Content : project(c) \in doubled'} /\ doubled \subseteq doubled'
  BY <1>1, <1>3 DEF In
<1>5. \A p \in Kept' : \A g, h \in Copies(p)' : g = h
  BY <1>1, <1>3 DEF InstallsInv, KeptOnce, Kept, Copies
<1>6. InstallsInv'  BY <1>1, <1>3, <1>4, <1>5, UserKeeps
<1>7. NamesFit => NamesFit'  BY <1>1, <1>3 DEF NamesFit, Listed
<1> QED BY <1>6, <1>7

-----------------------------------------------------------------------------
\* A file by its URL is a file to install, and so is the newest of a project.
LEMMA FileFact ==
  ASSUME CatalogueAssumption, NEW p \in Mod, NEW source \in Mod
  PROVE  /\ latest(p, source) \in FileToInstall /\ ~by_url(latest(p, source))
         /\ latest(p, source).project = p /\ latest(p, source).source = source
         /\ \A version \in 1 .. 1 + MaxReleases :
              [project |-> p, source |-> source, version |-> version] \in FileToInstall
BY DEF latest, by_url, FileToInstall, CatalogueAssumption

\* What is asked for is of its own project.
LEMMA AskedFact ==
  ASSUME CatalogueAssumption, HasInstalls, NEW p \in Mod, Install(p)
  PROVE  \E files \in SUBSET FileToInstall : install_content(files) /\ \A k \in files : k.source = k.project
<1>1. CASE install_content({latest(p, p)})
  <2>1. latest(p, p) \in FileToInstall /\ latest(p, p).source = p /\ latest(p, p).project = p  BY FileFact
  <2> QED BY <1>1, <2>1
<1>2. CASE \E version \in 1 .. newest[p], needs \in SUBSET Catalogue[p].requires :
             install_content({[project |-> p, source |-> p, version |-> version]} \cup {latest(q, q) : q \in needs})
  <2>1. PICK version \in 1 .. newest[p], needs \in SUBSET Catalogue[p].requires :
          install_content({[project |-> p, source |-> p, version |-> version]} \cup {latest(q, q) : q \in needs})
    BY <1>2
  <2>2. newest[p] \in 1 .. 1 + MaxReleases /\ MaxReleases \in Nat  BY DEF HasInstalls, CatalogueAssumption
  <2>3. version \in 1 .. 1 + MaxReleases  BY <2>2
  <2>4. [project |-> p, source |-> p, version |-> version] \in FileToInstall  BY <2>3, FileFact
  <2>5. \A q \in needs : latest(q, q) \in FileToInstall /\ latest(q, q).source = latest(q, q).project
    BY FileFact DEF CatalogueAssumption
  <2> QED BY <2>1, <2>4, <2>5
<1> QED BY <1>1, <1>2 DEF Install

\* A job begins, with the files that are asked for.
LEMMA InstallContentKeeps ==
  ASSUME CatalogueAssumption, InstallsInv, NEW files \in SUBSET FileToInstall, install_content(files),
         \A k \in files : k.source = k.project
  PROVE  InstallsInv' /\ (NamesFit => NamesFit')
<1>1. PICK asked : asked = {k.project : k \in {k \in files : ~by_url(k)}}  OBVIOUS
<1>2. PICK dependencies \in BOOLEAN : dependencies = (asked # {})  OBVIOUS
<1>3. PICK twice : twice = {k.project : k \in {k \in files : \E l \in files \ {k} : k.project = l.project}}
  OBVIOUS
<1>4. /\ job.pc = "idle" /\ (UNCHANGED listed \/ (dependencies /\ Read))
      /\ had' = IF dependencies THEN [sources |-> {listed'[f][2] : f \in Place}, ids |-> mod_ids(InList(listed'))]
                ELSE Nothing
      /\ projects' = IF dependencies THEN already_there \cup asked ELSE {}
      /\ ids' = IF dependencies THEN mod_ids(InList(listed')) ELSE {}
      /\ job' = [NoJob EXCEPT !.pc = "files", !.running = files, !.dependencies = dependencies]
      /\ doubled' = doubled \cup {project(c) : c \in In(mods) \ InList(listed')}
                      \cup twice \cup {p \in {k.project : k \in files} : Copies(p) # {}}
      /\ UNCHANGED <<mods, target, newest, from, updates>>
  BY <1>1, <1>2, <1>3 DEF install_content, Click, known
<1>5. /\ listed' \in [Place -> (Content \cup {Nil}) \X (Mod \cup {Nil})]
      /\ SourcesAreKnown' /\ Kept' \subseteq Kept /\ Kept' \cap doubled' = {}
  BY <1>4, ListKeeps DEF Kept
<1>6. job' = [pc |-> "files", running |-> files, dependencies |-> dependencies,
              round |-> 0, next |-> {}, got |-> {}]
  BY <1>4 DEF NoJob
<1>7. \A k \in files : k.project \in Mod /\ k.source = k.project  BY DEF FileToInstall
<1>8. already_there \subseteq Mod /\ projects' \subseteq Mod
  BY <1>1, <1>4, <1>5, <1>7 DEF already_there
<1>9. \A k \in files : ~by_url(k) => dependencies /\ k.project \in projects'
  BY <1>1, <1>2, <1>4
<1>10. HasInstalls'
  BY <1>4, <1>5, <1>6, <1>8 DEF InstallsInv, HasInstalls
<1>11. SourcesFit'
  <2>1. \A p \in Mod : may_be_from(p, p)  BY DEF may_be_from, CatalogueAssumption
  <2>2. job'.running \cup job'.next = files /\ job'.got = {}  BY <1>6
  <2> QED BY <1>4, <1>7, <2>1, <2>2 DEF InstallsInv, SourcesFit
<1>12. KeptOnce'
  <2> SUFFICES ASSUME NEW q \in Kept'
               PROVE  /\ \A f, h \in Copies(q) : f = h
                      /\ \A k \in files : k.project = q => Copies(q) = {}
                      /\ dependencies /\ q \notin projects' => Copies(q) = {}
    <3>1. \A q : Copies(q)' = Copies(q)  BY <1>4 DEF Copies
    <3>2. job'.dependencies = dependencies /\ job'.got = {} /\ job'.running = files  BY <1>6
    <3> QED BY <3>1, <3>2 DEF KeptOnce
  <2>1. \A f, h \in Copies(q) : f = h  BY <1>5 DEF InstallsInv, KeptOnce
  <2>2. \A k \in files : k.project = q => Copies(q) = {}  BY <1>4, <1>5
  <2>3. ASSUME dependencies, NEW f \in Copies(q) PROVE q \in projects'
    <3>1. mods[f] \in In(mods) /\ project(mods[f]) = q /\ f \in Place  BY DEF Copies, In
    <3>2. mods[f] \in InList(listed')  BY <1>4, <1>5, <3>1
    <3>3. PICK h \in Place : listed'[h][1] = mods[f] /\ listed'[h][1] # Nil
      BY <3>1, <3>2 DEF InList
    <3>4. listed'[h][2] = q  BY <1>5, <3>1, <3>3 DEF SourcesAreKnown, Listed
    <3>5. q \in already_there  BY <3>3, <3>4 DEF already_there, Kept, CatalogueAssumption
    <3> QED BY <1>4, <2>3, <3>5
  <2> QED BY <2>1, <2>2, <2>3
<1>13. AskedOnce' /\ Stages'
  <2>1. /\ job'.pc = "files" /\ job'.running = files /\ job'.dependencies = dependencies /\ job'.round = 0
        /\ job'.next = {} /\ job'.got = {}
    BY <1>6
  <2>2. \A k, l \in files : k.project = l.project => k = l \/ k.project \in doubled'  BY <1>3, <1>4
  <2>3. AskedOnce'  BY <1>9, <2>1, <2>2 DEF AskedOnce, by_url
  <2>4. Stages'  BY <1>9, <2>1 DEF Stages, by_url
  <2> QED BY <2>3, <2>4
<1>14. RequiredIsNew'
  <2>1. Nil \notin ids'  BY <1>4 DEF mod_ids
  <2>2. dependencies => had'.sources \subseteq projects' \cup {Nil} /\ had'.ids \subseteq ids'
    BY <1>4 DEF already_there
  <2> QED BY <1>6, <2>1, <2>2 DEF RequiredIsNew
<1>15. RoundsAskAnew'
  <2>1. IsFiniteSet(projects')  BY <1>8, FS_Subset DEF CatalogueAssumption
  <2>2. Cardinality(projects') \in Nat /\ (projects' # {} => Cardinality(projects') # 0)
    BY <2>1, FS_CardinalityType, FS_EmptySet
  <2>3. job'.running = files /\ job'.round = 0 /\ job'.next = {}  BY <1>6
  <2>4. (\E k \in files : ~by_url(k)) => projects' # {}  BY <1>9
  <2> QED BY <2>2, <2>3, <2>4 DEF RoundsAskAnew, by_url
<1>16. NamesFit => NamesFit'
  <2> SUFFICES ASSUME NamesFit PROVE NamesFit'  OBVIOUS
  <2>1. \A f \in Place :
          /\ mods'[f] # Nil => f[1] \in names(project(mods'[f]))
          /\ Listed(f)' # Nil => f[1] \in names(project(Listed(f)'))
    BY <1>4, ListKeepsNames
  <2>2. job'.got = {}  BY <1>6
  <2> QED BY <2>1, <2>2 DEF NamesFit
<1> QED BY <1>5, <1>10, <1>11, <1>12, <1>13, <1>14, <1>15, <1>16 DEF InstallsInv

LEMMA InstallKeeps ==
  ASSUME CatalogueAssumption, InstallsInv, NEW p \in Mod, Install(p)
  PROVE  InstallsInv' /\ (NamesFit => NamesFit')
<1>1. PICK files \in SUBSET FileToInstall : install_content(files) /\ \A k \in files : k.source = k.project
  BY AskedFact DEF InstallsInv
<1> QED BY <1>1, InstallContentKeeps

\* What a file requires is of its site.
LEMMA RequiredFact ==
  ASSUME CatalogueAssumption, NEW p \in Mod
  PROVE  /\ required(p) \subseteq FileToInstall
         /\ \A k \in required(p) : may_be_from(k.project, k.source) /\ ~by_url(k)
<1>1. \A q \in Catalogue[p].requires : q \in Mod /\ Catalogue[q].curseforge = Catalogue[p].curseforge
  BY DEF CatalogueAssumption
<1>2. \A q \in Catalogue[p].requires :
        /\ source_of(p, q) \in Mod /\ may_be_from(q, source_of(p, q))
        /\ latest(q, source_of(p, q)) \in FileToInstall /\ ~by_url(latest(q, source_of(p, q)))
        /\ latest(q, source_of(p, q)).project = q /\ latest(q, source_of(p, q)).source = source_of(p, q)
  <2> SUFFICES ASSUME NEW q \in Catalogue[p].requires
               PROVE  /\ source_of(p, q) \in Mod /\ may_be_from(q, source_of(p, q))
                      /\ latest(q, source_of(p, q)) \in FileToInstall /\ ~by_url(latest(q, source_of(p, q)))
                      /\ latest(q, source_of(p, q)).project = q
                      /\ latest(q, source_of(p, q)).source = source_of(p, q)
    OBVIOUS
  <2>1. source_of(p, q) \in Mod /\ may_be_from(q, source_of(p, q))
    BY <1>1 DEF source_of, may_be_from, CatalogueAssumption
  <2> QED BY <1>1, <2>1, FileFact
<1> QED BY <1>2 DEF required

LEMMA FinishKeeps ==
  ASSUME CatalogueAssumption, InstallsInv, NEW k \in job.running, Finish(k)
  PROVE  InstallsInv' /\ (NamesFit => NamesFit')
<1>1. PICK c : c = content_of(k)  OBVIOUS
<1>2. PICK already : already = (job.round > 0 /\ known_id(c))  OBVIOUS
<1>3. PICK g : g = [content |-> c, to |-> place(c, TRUE), replace |-> Nil, source |-> k.source,
                    required |-> job.round > 0, by_url |-> by_url(k)]
  OBVIOUS
<1>0. PICK again : again = {h \in job.got : project(h.content) = k.project /\ h.by_url /\ mod_id(c) = Nil}  OBVIOUS
<1>4. /\ job.pc = "files" /\ ids' = (IF job.dependencies THEN ids \cup mod_ids({c}) ELSE ids)
      /\ job' = [job EXCEPT
           !.running = @ \ {k},
           !.next = IF already \/ by_url(k) THEN @ ELSE @ \cup required(k.project),
           !.got = IF already THEN @ ELSE @ \cup {g}]
      /\ doubled' = IF again = {} THEN doubled ELSE doubled \cup {k.project}
      /\ UNCHANGED <<mods, listed, target, newest, from, updates, projects, had>>
  BY <1>0, <1>1, <1>2, <1>3 DEF Finish, known
<1>5. job \in [pc : {"idle", "files", "link"}, running : SUBSET FileToInstall, dependencies : BOOLEAN,
              round : Nat, next : SUBSET FileToInstall, got : SUBSET Got]
  BY DEF InstallsInv, HasInstalls
<1>6. /\ job'.pc = "files" /\ job'.running = job.running \ {k} /\ job'.dependencies = job.dependencies
      /\ job'.round = job.round
      /\ job'.next = (IF already \/ by_url(k) THEN job.next ELSE job.next \cup required(k.project))
      /\ job'.got = (IF already THEN job.got ELSE job.got \cup {g})
  BY <1>4, <1>5
<1>7. k \in FileToInstall /\ k.project \in Mod /\ k.source \in Mod  BY <1>5 DEF FileToInstall
<1>8. c \in Content /\ project(c) = k.project
  <2>1. newest[k.project] \in 1 .. 1 + MaxReleases  BY <1>7 DEF InstallsInv, HasInstalls
  <2>2. by_url(k) => k.version \in 1 .. 1 + MaxReleases  BY <1>7 DEF by_url, FileToInstall, CatalogueAssumption
  <2> QED BY <1>1, <1>7, <2>1, <2>2 DEF content_of, Content, project
<1>9. place(c, TRUE) \in Place /\ place(c, TRUE)[1] \in names(project(c))  BY <1>8, PlaceFact
<1>10. /\ g \in Got /\ g.content = c /\ g.to = place(c, TRUE) /\ g.replace = Nil /\ g.source = k.source
       /\ g.required = (job.round > 0) /\ g.by_url = by_url(k)
  <2>1. (job.round > 0) \in BOOLEAN /\ by_url(k) \in BOOLEAN  BY <1>5 DEF by_url
  <2> QED BY <1>3, <1>7, <1>8, <1>9, <2>1 DEF Got
<1>11. /\ required(k.project) \subseteq FileToInstall
       /\ \A l \in required(k.project) : may_be_from(l.project, l.source) /\ ~by_url(l)
  BY <1>7, RequiredFact
<1>12. HasInstalls'
  <2>1. job' \in [pc : {"idle", "files", "link"}, running : SUBSET FileToInstall, dependencies : BOOLEAN,
                  round : Nat, next : SUBSET FileToInstall, got : SUBSET Got]
    <3>1. job'.next \in SUBSET FileToInstall /\ job'.got \in SUBSET Got /\ job'.running \in SUBSET FileToInstall
      BY <1>5, <1>6, <1>10, <1>11
    <3>2. job' = [pc |-> "files", running |-> job'.running, dependencies |-> job.dependencies,
                  round |-> job.round, next |-> job'.next, got |-> job'.got]
      BY <1>4, <1>5, <1>6
    <3> QED BY <1>5, <3>1, <3>2
  <2> QED BY <1>4, <2>1 DEF InstallsInv, HasInstalls
<1>13. SourcesFit'
  <2>1. \A l \in job'.running \cup job'.next : may_be_from(l.project, l.source)
    BY <1>6, <1>11 DEF InstallsInv, SourcesFit
  <2>2. \A h \in job'.got : may_be_from(project(h.content), h.source)
    BY <1>6, <1>8, <1>10 DEF InstallsInv, SourcesFit
  <2> QED BY <1>4, <2>1, <2>2 DEF InstallsInv, SourcesFit
<1>14. Kept' \subseteq Kept /\ SourcesAreKnown'
  <2>1. Kept' \subseteq Kept  BY <1>4 DEF Kept
  <2> QED BY <1>4, <2>1 DEF InstallsInv, SourcesAreKnown, In, Listed
<1>15. KeptOnce'
  <2> SUFFICES ASSUME NEW p \in Kept
               PROVE  /\ \A f, h \in Copies(p) : f = h
                      /\ \A l \in job'.running : l.project = p => Copies(p) = {}
                      /\ \A h \in job'.got : project(h.content) = p => Copies(p) \subseteq {h.replace}
                      /\ job'.pc = "files" /\ job'.dependencies /\ p \notin projects => Copies(p) = {}
    <3>1. \A p : Copies(p)' = Copies(p)  BY <1>4 DEF Copies
    <3> QED BY <1>4, <1>14, <3>1 DEF KeptOnce
  <2>1. k.project = p => Copies(p) = {}  BY DEF InstallsInv, KeptOnce
  <2> QED BY <1>4, <1>6, <1>8, <1>10, <2>1 DEF InstallsInv, KeptOnce
<1>16. AskedOnce'
  <2>1. \A h \in job.got : h.replace = Nil  BY DEF InstallsInv, AskedOnce
  <2>2. doubled \subseteq doubled'  BY <1>4
  <2>3. ASSUME NEW h \in job.got, project(h.content) = k.project, ~already
        PROVE  k.project \in doubled' /\ (g.required => h.by_url /\ mod_id(h.content) = Nil)
    <3>1. CASE job.round = 0
      <4>1. k.project \in doubled  BY <2>3, <3>1 DEF InstallsInv, AskedOnce
      <4>2. ASSUME g.required PROVE FALSE
        <5>1. (job.round > 0) = TRUE  BY <1>10, <4>2
        <5> QED BY <3>1, <5>1
      <4> QED BY <2>2, <4>1, <4>2
    <3>2. CASE job.round # 0
      <4>1. job.round > 0 /\ job.dependencies  BY <1>5, <3>2 DEF InstallsInv, Stages
      <4>2. h.by_url  BY <2>3, <3>2 DEF InstallsInv, AskedOnce
      <4>3. mod_id(h.content) = mod_id(c)  BY <1>8, <2>3 DEF mod_id
      <4>4. mod_id(h.content) \in ids \cup {Nil}  BY <2>1, <4>1 DEF InstallsInv, RequiredIsNew
      <4>5. mod_id(c) \notin ids  BY <1>2, <2>3, <4>1 DEF known_id
      <4>6. mod_id(c) = Nil  BY <4>3, <4>4, <4>5
      <4>7. h \in again  BY <1>0, <2>3, <4>2, <4>6
      <4> QED BY <1>4, <4>2, <4>3, <4>6, <4>7
    <3> QED BY <3>1, <3>2
  <2>4. \A h \in job.got : ~h.required \/ job.round > 0  BY DEF InstallsInv, RequiredIsNew
  <2>5. ASSUME NEW h \in job'.got, NEW i \in job'.got, h # i, project(h.content) = project(i.content)
        PROVE  project(h.content) \in doubled' /\ (h.required => i.by_url /\ mod_id(i.content) = Nil)
    <3>1. CASE h \in job.got /\ i \in job.got  BY <2>2, <2>5, <3>1 DEF InstallsInv, AskedOnce
    <3>2. CASE h = g /\ i \in job.got /\ ~already  BY <1>8, <1>10, <2>3, <2>5, <3>2
    <3>3. CASE i = g /\ h \in job.got /\ ~already
      <4>1. project(h.content) = k.project  BY <1>8, <1>10, <2>5, <3>3
      <4>2. project(h.content) \in doubled'  BY <2>3, <3>3, <4>1
      <4>3. ASSUME h.required PROVE FALSE
        <5>1. job.round # 0 /\ ~h.by_url  BY <1>5, <2>4, <3>3, <4>3 DEF InstallsInv, AskedOnce
        <5> QED BY <3>3, <4>1, <5>1 DEF InstallsInv, AskedOnce
      <4> QED BY <4>2, <4>3
    <3> QED BY <1>6, <2>5, <3>1, <3>2, <3>3
  <2>6. ASSUME NEW l \in job'.running, NEW h \in job'.got, l.project = project(h.content)
        PROVE  IF job'.round = 0 THEN l.project \in doubled' ELSE h.by_url
    <3>1. l \in job.running /\ l # k  BY <1>6
    <3>2. CASE h \in job.got  BY <1>6, <2>2, <2>6, <3>1, <3>2 DEF InstallsInv, AskedOnce
    <3>3. CASE h = g
      <4>1. job.round = 0 /\ k.project \in doubled
        BY <1>8, <1>10, <2>6, <3>1, <3>3 DEF InstallsInv, AskedOnce
      <4> QED BY <1>6, <1>8, <1>10, <2>2, <2>6, <3>3, <4>1
    <3> QED BY <1>6, <3>2, <3>3
  <2>7. by_url(k) => ~g.required  BY <1>5, <1>10 DEF InstallsInv, Stages
  <2>8. by_url(k) \/ k.project \in projects  BY DEF InstallsInv, AskedOnce
  <2>9. \A h \in job'.got :
          h.replace = Nil /\ (h.by_url => ~h.required) /\ (h.by_url \/ project(h.content) \in projects)
    BY <1>6, <1>8, <1>10, <2>1, <2>7, <2>8 DEF InstallsInv, AskedOnce
  <2>10. \A l, m \in job'.running :
           l.project = m.project => l = m \/ (job'.round = 0 /\ l.project \in doubled')
    BY <1>6, <2>2 DEF InstallsInv, AskedOnce
  <2>11. \A l \in job'.running : by_url(l) \/ l.project \in projects'
    BY <1>4, <1>6 DEF InstallsInv, AskedOnce
  <2> QED BY <1>4, <2>5, <2>6, <2>9, <2>10, <2>11 DEF AskedOnce, by_url
<1>17. Stages'
  <2>1. ~by_url(k) => job.dependencies  BY DEF InstallsInv, Stages
  <2>2. \A l \in job'.next : ~by_url(l)  BY <1>6, <1>11 DEF InstallsInv, Stages
  <2>3. job'.next # {} \/ job'.round > 0 => job'.dependencies  BY <1>6, <2>1 DEF InstallsInv, Stages
  <2> QED BY <1>4, <1>6, <2>2, <2>3 DEF InstallsInv, Stages, by_url
<1>18. RequiredIsNew'
  <2>1. mod_ids({c}) = {mod_id(c)} \ {Nil}  BY OneId
  <2>2. Nil \notin ids' /\ ids \subseteq ids'  BY <1>4, <2>1 DEF InstallsInv, RequiredIsNew
  <2>3. ~already /\ job.round > 0 => mod_id(c) \notin ids  BY <1>2 DEF known_id
  <2>4. job.round > 0 => job.dependencies /\ project(c) \notin had.sources
    BY <1>8 DEF InstallsInv, RequiredIsNew, Stages
  <2>5. \A h \in job.got : h.replace = Nil  BY DEF InstallsInv, AskedOnce
  <2>6. ASSUME NEW h \in job'.got
        PROVE  /\ job.dependencies /\ h.replace = Nil => mod_id(h.content) \in ids' \cup {Nil}
               /\ h.required =>
                    /\ job.round > 0 /\ project(h.content) \notin had.sources
                    /\ mod_id(h.content) # Nil =>
                         /\ mod_id(h.content) \notin had.ids
                         /\ \A i \in job'.got \ {h} : mod_id(i.content) # mod_id(h.content)
    <3>1. job.dependencies /\ h.replace = Nil => mod_id(h.content) \in ids' \cup {Nil}
      <4>1. CASE h \in job.got  BY <2>2, <4>1 DEF InstallsInv, RequiredIsNew
      <4>2. CASE h = g  BY <1>4, <1>10, <2>1, <4>2
      <4> QED BY <1>6, <4>1, <4>2
    <3>2. CASE h \in job.got /\ (already \/ h # g)
      <4>1. h.required =>
              /\ job.round > 0 /\ project(h.content) \notin had.sources
              /\ mod_id(h.content) # Nil =>
                   /\ mod_id(h.content) \notin had.ids
                   /\ \A i \in job.got \ {h} : mod_id(i.content) # mod_id(h.content)
        BY <3>2 DEF InstallsInv, RequiredIsNew
      <4>2. h.required => job.dependencies  BY <2>4, <4>1
      <4>3. h.required => mod_id(h.content) \in ids \cup {Nil}
        BY <2>5, <3>2, <4>2 DEF InstallsInv, RequiredIsNew
      <4> QED BY <1>6, <1>10, <2>3, <3>1, <4>1, <4>3
    <3>3. CASE ~already /\ h = g
      <4>1. job.round > 0 => \A i \in job.got : mod_id(i.content) \in ids \cup {Nil}
        BY <2>4, <2>5 DEF InstallsInv, RequiredIsNew
      <4>2. job.round > 0 => had.ids \subseteq ids  BY <2>4 DEF InstallsInv, RequiredIsNew
      <4> QED BY <1>6, <1>10, <2>3, <2>4, <3>1, <3>3, <4>1, <4>2
    <3> QED BY <1>6, <3>2, <3>3
  <2>7. job'.dependencies => had'.sources \subseteq projects' \cup {Nil} /\ had'.ids \subseteq ids'
    BY <1>4, <1>6, <2>2 DEF InstallsInv, RequiredIsNew
  <2>8. job'.round > 0 => \A l \in job'.running : l.project \notin had'.sources
    BY <1>4, <1>6 DEF InstallsInv, RequiredIsNew
  <2> QED BY <1>4, <1>6, <2>2, <2>6, <2>7, <2>8 DEF RequiredIsNew
<1>19. RoundsAskAnew'
  BY <1>4, <1>6 DEF InstallsInv, RoundsAskAnew, by_url
<1>20. NamesFit => NamesFit'
  <2> SUFFICES ASSUME NamesFit PROVE NamesFit'  OBVIOUS
  <2>1. \A h \in job'.got : h.to[1] \in names(project(h.content))
    BY <1>6, <1>9, <1>10 DEF NamesFit
  <2>2. \A h \in job'.got : h.replace # Nil => h \in job.got  BY <1>6, <1>10
  <2> QED BY <1>4, <2>1, <2>2 DEF NamesFit, Listed
<1> QED BY <1>12, <1>13, <1>14, <1>15, <1>16, <1>17, <1>18, <1>19, <1>20 DEF InstallsInv

\* A job that has less to do, or is over.
LEMMA LessKeeps ==
  ASSUME CatalogueAssumption, InstallsInv,
         UNCHANGED <<mods, listed, target, newest, from, updates, projects, ids, had, doubled>>,
         job' = NoJob \/ \E running \in SUBSET job.running : job' = [job EXCEPT !.running = running]
  PROVE  InstallsInv' /\ (NamesFit => NamesFit')
<1>1. job \in [pc : {"idle", "files", "link"}, running : SUBSET FileToInstall, dependencies : BOOLEAN,
              round : Nat, next : SUBSET FileToInstall, got : SUBSET Got]
  BY DEF InstallsInv, HasInstalls
<1>2. \/ job' = NoJob
      \/ /\ job'.pc = job.pc /\ job'.running \subseteq job.running /\ job'.next = job.next
         /\ job'.got = job.got /\ job'.round = job.round /\ job'.dependencies = job.dependencies
  BY <1>1
<1>3. /\ job' \in [pc : {"idle", "files", "link"}, running : SUBSET FileToInstall, dependencies : BOOLEAN,
                   round : Nat, next : SUBSET FileToInstall, got : SUBSET Got]
      /\ job'.running \subseteq job.running /\ job'.next \subseteq job.next /\ job'.got \subseteq job.got
  <2>1. CASE job' = NoJob  BY <2>1 DEF NoJob
  <2>2. CASE \E running \in SUBSET job.running : job' = [job EXCEPT !.running = running]
    BY <1>1, <2>2
  <2> QED BY <2>1, <2>2
<1>4. HasInstalls'  BY <1>3 DEF InstallsInv, HasInstalls
<1>5. SourcesFit' /\ SourcesAreKnown'
  <2>1. SourcesFit'  BY <1>3 DEF InstallsInv, SourcesFit
  <2>2. SourcesAreKnown'  BY DEF InstallsInv, SourcesAreKnown, Kept, In, Listed
  <2> QED BY <2>1, <2>2
<1>6. KeptOnce'
  <2>1. Kept' = Kept /\ \A p : Copies(p)' = Copies(p)  BY DEF Kept, Copies
  <2>2. job'.pc = "files" /\ job'.dependencies => job.pc = "files" /\ job.dependencies
    <3>1. CASE job' = NoJob
      <4>1. job'.pc # "files"  BY <3>1 DEF NoJob
      <4> QED BY <4>1
    <3>2. CASE job'.pc = job.pc /\ job'.dependencies = job.dependencies  BY <3>2
    <3> QED BY <1>2, <3>1, <3>2
  <2> QED BY <1>3, <2>1, <2>2 DEF InstallsInv, KeptOnce
<1>7. CASE job' = NoJob
  <2>0. /\ job'.pc = "idle" /\ job'.running = {} /\ job'.next = {} /\ job'.got = {}
        /\ job'.round = 0 /\ job'.dependencies = FALSE
    BY <1>7 DEF NoJob
  <2>1. AskedOnce' /\ Stages' /\ RequiredIsNew'
    <3>1. AskedOnce' /\ Stages'  BY <2>0 DEF AskedOnce, Stages
    <3>2. Nil \notin ids'  BY DEF InstallsInv, RequiredIsNew
    <3> QED BY <2>0, <3>1, <3>2 DEF RequiredIsNew
  <2>2. RoundsAskAnew'
    <3>1. IsFiniteSet(projects)  BY FS_Subset DEF InstallsInv, HasInstalls, CatalogueAssumption
    <3>2. Cardinality(projects) \in Nat  BY <3>1, FS_CardinalityType
    <3> QED BY <1>7, <3>2 DEF NoJob, RoundsAskAnew
  <2>3. NamesFit => NamesFit'  BY <1>7 DEF NoJob, NamesFit, Listed
  <2> QED BY <1>4, <1>5, <1>6, <2>1, <2>2, <2>3 DEF InstallsInv
<1>8. CASE job' # NoJob
  <2>1. /\ job'.pc = job.pc /\ job'.running \subseteq job.running /\ job'.next = job.next
        /\ job'.got = job.got /\ job'.round = job.round /\ job'.dependencies = job.dependencies
    BY <1>2, <1>8
  <2>2. AskedOnce'  BY <2>1 DEF InstallsInv, AskedOnce, by_url
  <2>3. Stages'  BY <2>1 DEF InstallsInv, Stages, by_url
  <2>4. RequiredIsNew'  BY <2>1 DEF InstallsInv, RequiredIsNew
  <2>5. RoundsAskAnew'  BY <2>1 DEF InstallsInv, RoundsAskAnew, by_url
  <2>6. NamesFit => NamesFit'  BY <2>1 DEF NamesFit, Listed
  <2> QED BY <1>4, <1>5, <1>6, <2>2, <2>3, <2>4, <2>5, <2>6 DEF InstallsInv
<1> QED BY <1>7, <1>8

LEMMA FailKeeps ==
  ASSUME CatalogueAssumption, InstallsInv, NEW k \in job.running, Fail(k)
  PROVE  InstallsInv' /\ (NamesFit => NamesFit')
<1>1. job' = NoJob \/ \E running \in SUBSET job.running : job' = [job EXCEPT !.running = running]
  BY DEF Fail
<1> QED BY <1>1, LessKeeps DEF Fail, known, installed_ids

LEMMA FailUpdateKeeps ==
  ASSUME CatalogueAssumption, InstallsInv, FailUpdate
  PROVE  InstallsInv' /\ (NamesFit => NamesFit')
BY LessKeeps DEF FailUpdate, known, installed_ids

\* More projects have been asked for.
LEMMA MoreProjects ==
  ASSUME CatalogueAssumption, InstallsInv, NEW more \in SUBSET Mod, more \cap projects = {}
  PROVE  /\ IsFiniteSet(projects) /\ Cardinality(projects) \in Nat
         /\ Cardinality(projects \cup more) \in Nat /\ Cardinality(projects) <= Cardinality(projects \cup more)
         /\ more # {} => Cardinality(projects) < Cardinality(projects \cup more)
<1>1. IsFiniteSet(projects) /\ IsFiniteSet(projects \cup more)
  BY FS_Subset DEF InstallsInv, HasInstalls, CatalogueAssumption
<1>2. Cardinality(projects) \in Nat /\ Cardinality(projects \cup more) \in Nat
  BY <1>1, FS_CardinalityType
<1>3. Cardinality(projects) <= Cardinality(projects \cup more)  BY <1>1, FS_Subset
<1>4. ASSUME more # {} PROVE Cardinality(projects) < Cardinality(projects \cup more)
  <2>1. projects # projects \cup more /\ projects \subseteq projects \cup more  BY <1>4
  <2>2. Cardinality(projects) # Cardinality(projects \cup more)
    BY <1>1, <2>1, FS_Subset
  <2> QED BY <1>2, <1>3, <2>2
<1> QED BY <1>1, <1>2, <1>3, <1>4

LEMMA NextRoundKeeps ==
  ASSUME CatalogueAssumption, InstallsInv, NextRound
  PROVE  InstallsInv' /\ (NamesFit => NamesFit')
<1>1. PICK round \in SUBSET {k \in job.next : not_yet_asked(k)} :
        /\ job.pc = "files" /\ job.running = {} /\ job.next # {}
        /\ \A k, l \in round : k.project = l.project => k = l
        /\ job' = [job EXCEPT !.running = round, !.next = {}, !.round = @ + 1]
        /\ projects' = projects \cup {k.project : k \in round}
        /\ UNCHANGED <<mods, listed, target, newest, from, updates, ids, had, doubled>>
  BY DEF NextRound, known, installs_history
<1>2. job \in [pc : {"idle", "files", "link"}, running : SUBSET FileToInstall, dependencies : BOOLEAN,
              round : Nat, next : SUBSET FileToInstall, got : SUBSET Got]
  BY DEF InstallsInv, HasInstalls
<1>3. job' = [pc |-> "files", running |-> round, dependencies |-> TRUE, round |-> job.round + 1, next |-> {},
              got |-> job.got]
  <2>1. job.dependencies = TRUE  BY <1>1, <1>2 DEF InstallsInv, Stages
  <2> QED BY <1>1, <1>2, <2>1
<1>4. round \subseteq FileToInstall /\ round \subseteq job.next /\ \A k \in round : k.project \in Mod \ projects
  BY <1>1, <1>2 DEF not_yet_asked, FileToInstall
<1>5. job.dependencies  BY <1>1 DEF InstallsInv, Stages
<1>6. HasInstalls'
  <2>1. projects' \subseteq Mod  BY <1>1, <1>4 DEF InstallsInv, HasInstalls
  <2>2. job' \in [pc : {"idle", "files", "link"}, running : SUBSET FileToInstall, dependencies : BOOLEAN,
                  round : Nat, next : SUBSET FileToInstall, got : SUBSET Got]
    BY <1>2, <1>3, <1>4
  <2> QED BY <1>1, <2>1, <2>2 DEF InstallsInv, HasInstalls
<1>7. SourcesFit'  BY <1>1, <1>3, <1>4 DEF InstallsInv, SourcesFit
<1>8. SourcesAreKnown'  BY <1>1 DEF InstallsInv, SourcesAreKnown, Kept, In, Listed
<1>9. KeptOnce'
  <2> SUFFICES ASSUME NEW p \in Kept
               PROVE  /\ \A f, h \in Copies(p) : f = h
                      /\ \A k \in round : k.project = p => Copies(p) = {}
                      /\ \A g \in job.got : project(g.content) = p => Copies(p) \subseteq {g.replace}
                      /\ p \notin projects' => Copies(p) = {}
    <3>1. Kept' = Kept /\ \A p : Copies(p)' = Copies(p)  BY <1>1 DEF Kept, Copies
    <3> QED BY <1>3, <3>1 DEF KeptOnce
  <2> QED BY <1>1, <1>4, <1>5 DEF InstallsInv, KeptOnce
<1>10. AskedOnce'
  <2>1. \A g \in job.got : g.replace = Nil /\ (g.by_url \/ project(g.content) \in projects)
    BY <1>1 DEF InstallsInv, AskedOnce
  <2>2. \A k \in round : k.project \in projects'  BY <1>1
  <2>3. job'.round # 0  BY <1>2, <1>3
  <2>4. \A k \in round, g \in job.got : k.project = project(g.content) => g.by_url  BY <1>4, <2>1
  <2>5. \A g \in job.got : g.by_url \/ project(g.content) \in projects'  BY <1>1, <2>1
  <2> QED BY <1>1, <1>3, <2>1, <2>2, <2>3, <2>4, <2>5 DEF InstallsInv, AskedOnce, by_url
<1>11. Stages'
  <2>1. \A k \in round : ~by_url(k)  BY <1>4 DEF InstallsInv, Stages
  <2> QED BY <1>3, <2>1 DEF Stages, by_url
<1>12. RequiredIsNew'
  <2>1. \A k \in round : k.project \notin had.sources
    <3>1. had.sources \subseteq projects \cup {Nil}  BY <1>5 DEF InstallsInv, RequiredIsNew
    <3> QED BY <1>4, <3>1 DEF CatalogueAssumption
  <2>2. \A g \in job.got : g.required => job.round + 1 > 0  BY <1>2
  <2>3. had'.sources \subseteq projects' \cup {Nil} /\ had'.ids \subseteq ids'
    BY <1>1, <1>5 DEF InstallsInv, RequiredIsNew
  <2> QED BY <1>1, <1>3, <2>1, <2>2, <2>3 DEF InstallsInv, RequiredIsNew
<1>13. RoundsAskAnew'
  <2>1. PICK more : more = {k.project : k \in round}  OBVIOUS
  <2>2. more \subseteq Mod /\ more \cap projects = {}  BY <1>4, <2>1
  <2>3. /\ Cardinality(projects) \in Nat /\ Cardinality(projects') \in Nat
        /\ Cardinality(projects) <= Cardinality(projects')
        /\ more # {} => Cardinality(projects) < Cardinality(projects')
    BY <1>1, <2>1, <2>2, MoreProjects
  <2>4. job.round \in Nat /\ job.round + 1 <= Cardinality(projects)
    BY <1>1, <1>2 DEF InstallsInv, RoundsAskAnew
  <2>7. job'.round = job.round + 1 /\ job'.next = {} /\ job'.running = round  BY <1>3
  <2>5. CASE round = {}  BY <2>3, <2>4, <2>5, <2>7 DEF RoundsAskAnew
  <2>6. CASE round # {}
    <3>1. more # {}  BY <2>1, <2>6
    <3> QED BY <2>3, <2>4, <2>7, <3>1 DEF RoundsAskAnew
  <2> QED BY <2>5, <2>6
<1>14. NamesFit => NamesFit'  BY <1>1, <1>3 DEF NamesFit, Listed
<1> QED BY <1>6, <1>7, <1>8, <1>9, <1>10, <1>11, <1>12, <1>13, <1>14 DEF InstallsInv

LEMMA EndRoundsKeeps ==
  ASSUME CatalogueAssumption, InstallsInv, EndRounds
  PROVE  InstallsInv' /\ (NamesFit => NamesFit')
<1>1. /\ job.pc = "files" /\ job.running = {} /\ job.next = {}
      /\ from' = [c \in Content |->
           IF \E g \in job.got : g.content = c THEN (CHOOSE g \in job.got : g.content = c).source
           ELSE from[c]]
      /\ job' = [job EXCEPT !.pc = IF job.got = {} THEN "idle" ELSE "link"]
      /\ UNCHANGED <<mods, listed, target, newest, updates, projects, ids, had, doubled>>
  BY DEF EndRounds, installed_ids, installs_history
<1>2. job \in [pc : {"idle", "files", "link"}, running : SUBSET FileToInstall, dependencies : BOOLEAN,
              round : Nat, next : SUBSET FileToInstall, got : SUBSET Got]
  BY DEF InstallsInv, HasInstalls
<1>3. /\ job'.pc = (IF job.got = {} THEN "idle" ELSE "link") /\ job'.running = {} /\ job'.next = {}
      /\ job'.got = job.got /\ job'.round = job.round /\ job'.dependencies = job.dependencies
  BY <1>1, <1>2
<1>4. \A c \in Content :
        \/ from'[c] = from[c] /\ ~\E g \in job.got : g.content = c
        \/ \E g \in job.got : g.content = c /\ from'[c] = g.source
  BY <1>1
<1>5. \A g \in job.got : g.source \in Mod /\ g.content \in Content /\ project(g.content) \in Mod
  BY <1>2 DEF Got, Content, project
<1>6. from' \in [Content -> Mod \cup {Nil}]
  <2>1. \A c \in Content : from'[c] \in Mod \cup {Nil}
    BY <1>4, <1>5 DEF InstallsInv, HasInstalls
  <2>2. from' = [c \in Content |-> from'[c]]  BY <1>1
  <2> QED BY <2>1, <2>2
<1>7. HasInstalls'
  <2>1. job' \in [pc : {"idle", "files", "link"}, running : SUBSET FileToInstall, dependencies : BOOLEAN,
                  round : Nat, next : SUBSET FileToInstall, got : SUBSET Got]
    BY <1>1, <1>2
  <2> QED BY <1>1, <1>6, <2>1 DEF InstallsInv, HasInstalls
<1>8. \A c \in Content : from'[c] # Nil => may_be_from(project(c), from'[c])
  BY <1>4 DEF InstallsInv, SourcesFit
<1>9. SourcesFit'  BY <1>1, <1>3, <1>8 DEF InstallsInv, SourcesFit
<1>10. \A c \in Content : ~Catalogue[project(c)].curseforge =>
         from'[c] = from[c] \/ from'[c] = project(c)
  BY <1>4 DEF InstallsInv, SourcesFit, may_be_from
<1>11. SourcesAreKnown'
  <2>1. Kept' = Kept /\ In(mods)' = In(mods) /\ In(mods) \subseteq Content
    BY <1>1 DEF Kept, In, InstallsInv, HasInstalls
  <2>2. \A p \in Kept : \A c \in In(mods) : project(c) = p => from'[c] = p
    BY <1>10, <2>1 DEF InstallsInv, SourcesAreKnown, Kept
  <2> QED BY <1>1, <2>1, <2>2 DEF InstallsInv, SourcesAreKnown, Listed
<1>12. KeptOnce'
  <2>1. Kept' = Kept /\ \A p : Copies(p)' = Copies(p)  BY <1>1 DEF Kept, Copies
  <2> QED BY <1>1, <1>3, <2>1 DEF InstallsInv, KeptOnce
<1>13. AskedOnce'  BY <1>1, <1>3 DEF InstallsInv, AskedOnce
<1>14. Stages'
  <2>1. \A g \in job.got : ~Catalogue[project(g.content)].curseforge => from'[g.content] = project(g.content)
    BY <1>4, <1>5 DEF InstallsInv, SourcesFit, may_be_from
  <2> QED BY <1>1, <1>3, <2>1 DEF InstallsInv, Stages
<1>15. RequiredIsNew'  BY <1>1, <1>3 DEF InstallsInv, RequiredIsNew
<1>16. RoundsAskAnew'  BY <1>1, <1>3 DEF InstallsInv, RoundsAskAnew
<1>17. NamesFit => NamesFit'  BY <1>1, <1>3 DEF NamesFit, Listed
<1> QED BY <1>7, <1>9, <1>11, <1>12, <1>13, <1>14, <1>15, <1>16, <1>17 DEF InstallsInv

\* The file that is listed at f is to be replaced by what the last check has found.
LEMMA UpdateContentKeeps ==
  ASSUME CatalogueAssumption, InstallsInv, NEW f \in Place, UpdateContent(f)
  PROVE  InstallsInv' /\ (NamesDiffer /\ NamesFit => NamesFit')
<1>1. PICK c : c = updates[<<Listed(f), target>>]  OBVIOUS
<1>2. PICK g : g = [content |-> c, to |-> place(c, f[2]), replace |-> f, source |-> project(c),
                    required |-> FALSE, by_url |-> TRUE]
  OBVIOUS
<1>3. /\ job.pc = "idle" /\ Listed(f) # Nil /\ c # Nil
      /\ job' = [NoJob EXCEPT !.pc = "files", !.got = {g}]
      /\ doubled' = IF Listed(f) # mods[f] THEN doubled \cup {project(c)} ELSE doubled
      /\ UNCHANGED <<mods, listed, target, newest, from, updates, projects, ids, had>>
  BY <1>1, <1>2 DEF UpdateContent, Click, known, installed_ids
<1>4. job' = [pc |-> "files", running |-> {}, dependencies |-> FALSE, round |-> 0, next |-> {}, got |-> {g}]
  BY <1>3 DEF NoJob
<1>5. Listed(f) \in Content /\ target \in Target  BY <1>3 DEF InstallsInv, HasInstalls, Listed
<1>6. c \in Content /\ may_be_from(project(Listed(f)), project(c))
  BY <1>1, <1>3, <1>5 DEF InstallsInv, HasInstalls, SourcesFit
<1>7. f[2] \in BOOLEAN /\ f # Nil  BY DEF Place, CatalogueAssumption
<1>8. place(c, f[2]) \in Place /\ project(c) \in Mod /\ place(c, f[2])[1] \in names(project(c))
  BY <1>6, <1>7, PlaceFact
<1>9. g \in Got /\ g.content = c /\ g.replace = f /\ g.source = project(c) /\ g.required = FALSE /\ g.by_url = TRUE
      /\ g.to = place(c, f[2])
  BY <1>2, <1>6, <1>8 DEF Got
<1>10. HasInstalls'
  <2>1. job' \in [pc : {"idle", "files", "link"}, running : SUBSET FileToInstall, dependencies : BOOLEAN,
                  round : Nat, next : SUBSET FileToInstall, got : SUBSET Got]
    BY <1>4, <1>9
  <2> QED BY <1>3, <2>1 DEF InstallsInv, HasInstalls
<1>11. /\ job'.pc = "files" /\ job'.running = {} /\ job'.next = {} /\ job'.got = {g} /\ job'.round = 0
       /\ job'.dependencies = FALSE
  BY <1>4
<1>12. SourcesFit'
  <2>1. may_be_from(project(c), project(c))  BY <1>8 DEF may_be_from, CatalogueAssumption
  <2> QED BY <1>3, <1>9, <1>11, <2>1 DEF InstallsInv, SourcesFit
<1>13. Kept' \subseteq Kept  BY <1>3 DEF Kept
<1>14. SourcesAreKnown'
  BY <1>3, <1>13 DEF InstallsInv, SourcesAreKnown, In, Listed
<1>15. KeptOnce'
  <2>1. \A p : Copies(p)' = Copies(p)  BY <1>3 DEF Copies
  <2>2. ASSUME NEW p \in Kept', project(c) = p PROVE Copies(p) \subseteq {f}
    <3>1. Listed(f) = mods[f]  BY <1>3, <2>2 DEF Kept
    <3>2. project(Listed(f)) = p
      BY <1>5, <1>6, <2>2 DEF may_be_from, Kept, CatalogueAssumption, Content, project
    <3>3. f \in Copies(p)  BY <1>3, <3>1, <3>2 DEF Copies
    <3> QED BY <1>13, <3>3 DEF InstallsInv, KeptOnce
  <2> QED BY <1>9, <1>11, <1>13, <2>1, <2>2 DEF InstallsInv, KeptOnce
<1>16. AskedOnce' /\ Stages'
  BY <1>3, <1>7, <1>9, <1>11 DEF AskedOnce, Stages
<1>17. RequiredIsNew'
  BY <1>3, <1>7, <1>9, <1>11 DEF InstallsInv, RequiredIsNew
<1>18. RoundsAskAnew'
  <2>1. IsFiniteSet(projects)  BY FS_Subset DEF InstallsInv, HasInstalls, CatalogueAssumption
  <2>2. Cardinality(projects) \in Nat  BY <2>1, FS_CardinalityType
  <2> QED BY <1>3, <1>11, <2>2 DEF RoundsAskAnew
<1>19. ASSUME NamesDiffer, NamesFit PROVE NamesFit'
  <2>1. f[1] \in names(project(Listed(f)))  BY <1>3, <1>19 DEF NamesFit
  <2>2. ASSUME NEW p \in Mod, ~Catalogue[p].curseforge, f[1] \in names(p) PROVE project(c) = p
    <3>1. project(Listed(f)) \in Mod  BY <1>5 DEF Content, project
    <3>2. project(Listed(f)) = p  BY <1>19, <2>1, <2>2, <3>1 DEF NamesDiffer
    <3> QED BY <1>6, <2>2, <3>2 DEF may_be_from
  <2> QED BY <1>3, <1>8, <1>9, <1>11, <1>19, <2>2 DEF NamesFit, Listed
<1> QED BY <1>10, <1>12, <1>14, <1>15, <1>16, <1>17, <1>18, <1>19 DEF InstallsInv

\* What a link leaves in the folder: the file that is replaced is gone, and the new
\* one is there if no other had its name.
LEMMA LinkFact ==
  ASSUME CatalogueAssumption, InstallsInv, NEW g \in job.got, Link(g)
  PROVE  /\ job.pc = "link" /\ g \in Got
         /\ UNCHANGED <<listed, target, newest, from, updates, projects, ids, had, doubled>>
         /\ job' = IF job.got = {g} THEN NoJob ELSE [job EXCEPT !.got = @ \ {g}]
         /\ mods' \in [Place -> Content \cup {Nil}]
         /\ \A f \in Place :
              \/ f # g.replace /\ mods'[f] = mods[f]
              \/ mods'[f] = Nil /\ f = g.replace
              \/ mods'[f] = g.content /\ f = g.to /\ mods'[f] # Nil /\ (mods[f] = Nil \/ f = g.replace)
         /\ \/ mods'[g.to] # Nil /\ UNCHANGED gone
            \/ gone' = gone \cup {project(c) : c \in In(mods) \ In(mods')}
<1>1. /\ job.pc = "link"
      /\ UNCHANGED <<listed, target, newest, from, updates, projects, ids, had, doubled>>
      /\ job' = IF job.got = {g} THEN NoJob ELSE [job EXCEPT !.got = @ \ {g}]
      /\ \/ mods' = replaced(g) /\ UNCHANGED gone
         \/ mods' = without(g, mods) /\ gone' = gone \cup {project(c) : c \in In(mods) \ In(mods')}
  BY DEF Link, known, installed_ids
<1>2. g \in Got /\ g.content \in Content /\ g.content # Nil /\ g.to \in Place /\ g.replace \in Place \cup {Nil}
  BY DEF InstallsInv, HasInstalls, Got, CatalogueAssumption
<1>3. mods \in [Place -> Content \cup {Nil}]  BY DEF InstallsInv, HasInstalls
<1>4. PICK less : less = without(g, mods)  OBVIOUS
<1>5. /\ less \in [Place -> Content \cup {Nil}]
      /\ \A f \in Place : IF f = g.replace THEN less[f] = Nil ELSE less[f] = mods[f]
  <2>1. CASE g.replace = Nil  BY <1>3, <1>4, <2>1 DEF without, CatalogueAssumption
  <2>2. CASE g.replace # Nil
    <3>1. less = [mods EXCEPT ![g.replace] = Nil]  BY <1>4, <2>2 DEF without
    <3> QED BY <1>2, <1>3, <2>2, <3>1
  <2> QED BY <2>1, <2>2
<1>6. PICK more : more = with(g, less)  OBVIOUS
<1>7. /\ more \in [Place -> Content \cup {Nil}] /\ more[g.to] # Nil
      /\ \A f \in Place : more[f] = less[f] \/ (f = g.to /\ less[f] = Nil /\ more[f] = g.content)
  BY <1>2, <1>5, <1>6 DEF with
<1>8. mods' = less \/ mods' = more  BY <1>1, <1>4, <1>6 DEF replaced
<1>9. /\ mods' \in [Place -> Content \cup {Nil}]
      /\ \A f \in Place :
           \/ f # g.replace /\ mods'[f] = mods[f]
           \/ mods'[f] = Nil /\ f = g.replace
           \/ mods'[f] = g.content /\ f = g.to /\ mods'[f] # Nil /\ (mods[f] = Nil \/ f = g.replace)
  BY <1>2, <1>5, <1>7, <1>8
<1>10. \/ mods'[g.to] # Nil /\ UNCHANGED gone
       \/ gone' = gone \cup {project(c) : c \in In(mods) \ In(mods')}
  BY <1>1, <1>4, <1>6, <1>7 DEF replaced
<1> QED BY <1>1, <1>2, <1>9, <1>10

LEMMA LinkKeeps ==
  ASSUME CatalogueAssumption, InstallsInv, NEW g \in job.got, Link(g)
  PROVE  InstallsInv' /\ (NamesFit => NamesFit')
<1>1. /\ job.pc = "link" /\ g \in Got
      /\ UNCHANGED <<listed, target, newest, from, updates, projects, ids, had, doubled>>
      /\ job' = IF job.got = {g} THEN NoJob ELSE [job EXCEPT !.got = @ \ {g}]
      /\ mods' \in [Place -> Content \cup {Nil}]
      /\ \A f \in Place :
           \/ f # g.replace /\ mods'[f] = mods[f]
           \/ mods'[f] = Nil /\ f = g.replace
           \/ mods'[f] = g.content /\ f = g.to /\ mods'[f] # Nil /\ (mods[f] = Nil \/ f = g.replace)
  BY LinkFact
<1>2. job \in [pc : {"idle", "files", "link"}, running : SUBSET FileToInstall, dependencies : BOOLEAN,
              round : Nat, next : SUBSET FileToInstall, got : SUBSET Got]
  BY DEF InstallsInv, HasInstalls
<1>3. job.running = {} /\ job.next = {}  BY <1>1 DEF InstallsInv, Stages
<1>4. /\ job' \in [pc : {"idle", "files", "link"}, running : SUBSET FileToInstall, dependencies : BOOLEAN,
                   round : Nat, next : SUBSET FileToInstall, got : SUBSET Got]
      /\ job'.running = {} /\ job'.next = {} /\ job'.got = job.got \ {g}
      /\ \/ job'.pc = "link" /\ job'.round = job.round /\ job'.dependencies = job.dependencies
         \/ job'.pc = "idle" /\ job'.round = 0 /\ job'.dependencies = FALSE /\ job'.got = {}
  <2>1. CASE job.got = {g}
    <3>1. job' = NoJob  BY <1>1, <2>1
    <3>2. job.got \ {g} = {}  BY <2>1
    <3> QED BY <3>1, <3>2 DEF NoJob
  <2>2. CASE job.got # {g}
    <3>1. job' = [job EXCEPT !.got = @ \ {g}]  BY <1>1, <2>2
    <3> QED BY <1>1, <1>2, <1>3, <3>1
  <2> QED BY <2>1, <2>2
<1>5. HasInstalls'  BY <1>1, <1>4 DEF InstallsInv, HasInstalls
<1>6. SourcesFit'  BY <1>1, <1>4 DEF InstallsInv, SourcesFit
<1>7. g.content \in Content /\ project(g.content) \in Mod  BY <1>1 DEF Got, Content, project
<1>8. In(mods') \subseteq In(mods) \cup {g.content}  BY <1>1 DEF In
<1>9. SourcesAreKnown'
  <2>1. ASSUME NEW p \in Kept, NEW c \in In(mods'), project(c) = p PROVE from[c] = p
    <3>1. CASE c \in In(mods)  BY <2>1, <3>1 DEF InstallsInv, SourcesAreKnown
    <3>2. CASE c = g.content  BY <1>1, <2>1, <3>2 DEF InstallsInv, Stages, Kept
    <3> QED BY <1>8, <3>1, <3>2
  <2> QED BY <1>1, <2>1 DEF InstallsInv, SourcesAreKnown, Kept, In, Listed
<1>10. KeptOnce'
  <2>1. Kept' = Kept  BY <1>1 DEF Kept
  <2>2. ASSUME NEW p \in Kept
        PROVE  /\ \A f, h \in Copies(p)' : f = h
               /\ \A i \in job'.got : project(i.content) = p => Copies(p)' \subseteq {i.replace}
    <3>1. CASE project(g.content) # p
      <4>1. Copies(p)' \subseteq Copies(p)  BY <1>1, <3>1 DEF Copies
      <4> QED BY <1>4, <4>1 DEF InstallsInv, KeptOnce
    <3>2. CASE project(g.content) = p
      <4>1. Copies(p) \subseteq {g.replace}  BY <3>2 DEF InstallsInv, KeptOnce
      <4>2. Copies(p)' \subseteq {g.to}  BY <1>1, <4>1 DEF Copies
      <4>3. \A i \in job'.got : project(i.content) # p  BY <1>4, <3>2 DEF InstallsInv, AskedOnce, Kept
      <4> QED BY <4>2, <4>3
    <3> QED BY <3>1, <3>2
  <2> QED BY <1>4, <2>1, <2>2 DEF KeptOnce
<1>11. AskedOnce'
  BY <1>1, <1>3, <1>4 DEF InstallsInv, AskedOnce
<1>12. Stages'
  BY <1>1, <1>3, <1>4 DEF InstallsInv, Stages
<1>13. RequiredIsNew'
  <2>1. \A h \in job'.got : h \in job.got /\ job'.round = job.round  BY <1>4
  <2>2. job'.dependencies => job.dependencies  BY <1>4
  <2> QED BY <1>1, <1>4, <2>1, <2>2 DEF InstallsInv, RequiredIsNew
<1>14. RoundsAskAnew'
  <2>1. IsFiniteSet(projects)  BY FS_Subset DEF InstallsInv, HasInstalls, CatalogueAssumption
  <2>2. Cardinality(projects) \in Nat  BY <2>1, FS_CardinalityType
  <2>3. job.round \in Nat /\ job.round <= Cardinality(projects)
    BY <1>2 DEF InstallsInv, RoundsAskAnew
  <2>4. job'.round <= Cardinality(projects)  BY <1>4, <2>2, <2>3
  <2> QED BY <1>1, <1>4, <2>4 DEF RoundsAskAnew
<1>15. ASSUME NamesFit PROVE NamesFit'
  <2>1. g.to[1] \in names(project(g.content))  BY <1>15 DEF NamesFit
  <2>2. ASSUME NEW f \in Place, mods'[f] # Nil PROVE f[1] \in names(project(mods'[f]))
    BY <1>1, <1>15, <2>1, <2>2 DEF NamesFit
  <2> QED BY <1>1, <1>4, <1>15, <2>2 DEF NamesFit, Listed
<1> QED BY <1>5, <1>6, <1>9, <1>10, <1>11, <1>12, <1>13, <1>14, <1>15 DEF InstallsInv

-----------------------------------------------------------------------------
\* Every step keeps the invariant.
LEMMA InstallsStep ==
  ASSUME CatalogueAssumption, InstallsInv, [InstallsNext]_installs_vars
  PROVE  InstallsInv' /\ (NamesDiffer /\ NamesFit => NamesFit')
<1>1. CASE \E p \in Mod : Release(p) \/ Install(p)
  BY <1>1, ReleaseKeeps, InstallKeeps
<1>2. CASE \E k \in job.running : Finish(k) \/ Fail(k)  BY <1>2, FinishKeeps, FailKeeps
<1>3. CASE NextRound \/ EndRounds \/ FailUpdate
  BY <1>3, NextRoundKeeps, EndRoundsKeeps, FailUpdateKeeps
<1>4. CASE \E g \in job.got : Link(g)  BY <1>4, LinkKeeps
<1>5. CASE UpdateCheck \/ Reload  BY <1>5, UpdateCheckKeeps, ReloadKeeps
<1>6. CASE \E f \in Place : UpdateContent(f) \/ Toggle(f) \/ DeleteContent(f)
  BY <1>6, UpdateContentKeeps, ToggleKeeps, DeleteContentKeeps
<1>7. CASE \E c \in Content : AddFile(c)  BY <1>7, AddFileKeeps
<1>8. CASE \E t \in Target : ChangeTarget(t)  BY <1>8, ChangeTargetKeeps
<1>9. CASE UNCHANGED installs_vars
  <2>1. UNCHANGED <<mods, listed, target, newest, from, updates, job, projects, ids, had, doubled>>
    BY <1>9 DEF installs_vars, known, installed_ids, installs_history
  <2>2. HasInstalls' /\ SourcesFit' /\ SourcesAreKnown' /\ KeptOnce'
    BY <2>1 DEF InstallsInv, HasInstalls, SourcesFit, SourcesAreKnown, KeptOnce, Kept, In, Copies, Listed
  <2>3. NamesFit' = NamesFit  BY <2>1 DEF NamesFit, Listed
  <2> QED BY <2>1, <2>2, <2>3, JobStays DEF InstallsInv
<1> QED BY <1>1, <1>2, <1>3, <1>4, <1>5, <1>6, <1>7, <1>8, <1>9 DEF InstallsNext

\* The invariant says what is asked of an install.
LEMMA InstallsInvImplies ==
  ASSUME CatalogueAssumption, InstallsInv
  PROVE  InstallsType /\ InstallsAreOnce
<1>1. InstallsType  BY DEF InstallsInv, HasInstalls, InstallsType
<1>2. RequiredOnce
  <2> SUFFICES ASSUME NEW g \in job.got, g.required
               PROVE  /\ project(g.content) \notin had.sources
                      /\ \A h \in job.got \ {g} :
                           project(h.content) = project(g.content) => h.by_url /\ mod_id(h.content) = Nil
                      /\ mod_ids({g.content}) \cap (had.ids \cup mod_ids({h.content : h \in job.got \ {g}})) = {}
    BY DEF RequiredOnce
  <2>1. project(g.content) \notin had.sources  BY DEF InstallsInv, RequiredIsNew
  <2>2. \A h \in job.got \ {g} :
          project(h.content) = project(g.content) => h.by_url /\ mod_id(h.content) = Nil
    BY DEF InstallsInv, AskedOnce
  <2>3. mod_id(g.content) # Nil =>
          /\ mod_id(g.content) \notin had.ids
          /\ \A h \in job.got \ {g} : mod_id(h.content) # mod_id(g.content)
    BY DEF InstallsInv, RequiredIsNew
  <2>4. mod_ids({g.content}) = {mod_id(g.content)} \ {Nil}  BY OneId
  <2>5. \A id \in mod_ids({h.content : h \in job.got \ {g}}) : \E h \in job.got \ {g} : id = mod_id(h.content)
    BY DEF mod_ids
  <2> QED BY <2>1, <2>2, <2>3, <2>4, <2>5
<1>3. RoundsEnd
  <2>1. IsFiniteSet(Mod) /\ IsFiniteSet(projects) /\ Cardinality(projects) <= Cardinality(Mod)
    BY FS_Subset DEF InstallsInv, HasInstalls, CatalogueAssumption
  <2>2. Cardinality(projects) \in Nat /\ Cardinality(Mod) \in Nat /\ job.round \in Nat
    BY <2>1, FS_CardinalityType DEF InstallsInv, HasInstalls
  <2> QED BY <2>1, <2>2 DEF InstallsInv, RoundsAskAnew, RoundsEnd
<1>4. OneOfEach
  <2> SUFFICES ASSUME NEW p \in Kept PROVE Cardinality(Copies(p)) <= 1  BY DEF OneOfEach, Kept
  <2>1. CASE Copies(p) = {}  BY <2>1, FS_EmptySet
  <2>2. CASE Copies(p) # {}
    <3>1. PICK f \in Copies(p) : TRUE  BY <2>2
    <3>2. \A h \in Copies(p) : h = f  BY <3>1 DEF InstallsInv, KeptOnce
    <3>3. Copies(p) = {f}  BY <3>1, <3>2
    <3> QED BY <3>3, FS_Singleton
  <2> QED BY <2>1, <2>2
<1> QED BY <1>1, <1>2, <1>3, <1>4 DEF InstallsAreOnce

\* A project of Modrinth stays in the folder.
LEMMA NothingIsLostStep ==
  ASSUME CatalogueAssumption, NamesDiffer, InstallsInv, NamesFit, [InstallsNext]_installs_vars,
         NEW p \in Mod, ~Catalogue[p].curseforge, Copies(p) # {}, p \notin gone'
  PROVE  Copies(p)' # {}
<1>1. CASE UNCHANGED mods  BY <1>1 DEF Copies
<1>2. ASSUME NEW c \in Content, AddFile(c) PROVE Copies(p)' # {}
  <2>1. PICK f \in Place : mods[f] # Nil /\ project(mods[f]) = p  BY DEF Copies
  <2>2. mods'[f] = mods[f]
    <3>1. mods' = mods \/ (mods[place(c, TRUE)] = Nil /\ mods' = [mods EXCEPT ![place(c, TRUE)] = c])
      BY <1>2 DEF AddFile
    <3> QED BY <2>1, <3>1 DEF InstallsInv, HasInstalls
  <2> QED BY <2>1, <2>2 DEF Copies
<1>3. ASSUME NEW f \in Place, Toggle(f) PROVE Copies(p)' # {}
  <2>1. PICK to : to = <<f[1], ~f[2]>>  OBVIOUS
  <2>2. /\ to \in Place /\ to # f
        /\ \/ UNCHANGED mods
           \/ /\ mods[f] # Nil /\ mods'[f] = Nil /\ mods'[to] = mods[f]
              /\ \A h \in Place \ {f, to} : mods'[h] = mods[h]
        /\ gone' = gone \cup (IF mods[f] # Nil /\ mods[to] # Nil THEN {project(mods[to])} ELSE {})
    BY <1>3, <2>1, ToggleFact
  <2>3. PICK h \in Place : mods[h] # Nil /\ project(mods[h]) = p  BY DEF Copies
  <2>4. CASE UNCHANGED mods  BY <2>4 DEF Copies
  <2>5. CASE mods[f] # Nil /\ mods'[to] = mods[f] /\ h = f  BY <2>2, <2>3, <2>5 DEF Copies
  <2>6. CASE mods[f] # Nil /\ h = to  BY <2>2, <2>3, <2>6
  <2>7. CASE h \notin {f, to} /\ mods'[h] = mods[h]  BY <2>3, <2>7 DEF Copies
  <2> QED BY <2>2, <2>4, <2>5, <2>6, <2>7
<1>4. ASSUME NEW f \in Place, DeleteContent(f) PROVE Copies(p)' # {}
  <2>1. /\ mods' = [mods EXCEPT ![f] = Nil]
        /\ gone' = gone \cup (IF mods[f] # Nil THEN {project(mods[f])} ELSE {})
    BY <1>4 DEF DeleteContent
  <2>2. PICK h \in Place : mods[h] # Nil /\ project(mods[h]) = p  BY DEF Copies
  <2>3. h # f  BY <2>1, <2>2
  <2>4. mods'[h] = mods[h]  BY <2>1, <2>3 DEF InstallsInv, HasInstalls
  <2> QED BY <2>2, <2>4 DEF Copies
<1>5. ASSUME NEW g \in job.got, Link(g) PROVE Copies(p)' # {}
  <2>1. /\ g \in Got
        /\ mods' \in [Place -> Content \cup {Nil}]
        /\ \A f \in Place :
             \/ f # g.replace /\ mods'[f] = mods[f]
             \/ mods'[f] = Nil /\ f = g.replace
             \/ mods'[f] = g.content /\ f = g.to /\ mods'[f] # Nil /\ (mods[f] = Nil \/ f = g.replace)
        /\ \/ mods'[g.to] # Nil /\ UNCHANGED gone
           \/ gone' = gone \cup {project(c) : c \in In(mods) \ In(mods')}
    BY <1>5, LinkFact
  <2>2. PICK h \in Place : mods[h] # Nil /\ project(mods[h]) = p  BY DEF Copies
  <2>3. CASE h # g.replace
    <3>1. mods'[h] = mods[h]  BY <2>1, <2>2, <2>3
    <3> QED BY <2>2, <3>1 DEF Copies
  <2>4. CASE h = g.replace /\ mods'[g.to] # Nil
    <3>1. h # Nil /\ h[1] \in names(p)  BY <2>2 DEF NamesFit, CatalogueAssumption
    <3>2. project(g.content) = p  BY <2>4, <3>1 DEF NamesFit
    <3>3. g.to \in Place /\ g.to[1] \in names(p)  BY <2>1, <3>2 DEF NamesFit, Got
    <3>4. mods'[g.to] = g.content \/ mods'[g.to] = mods[g.to]  BY <2>1, <2>4, <3>3
    <3>5. project(mods'[g.to]) = p
      <4>1. CASE mods'[g.to] = g.content  BY <3>2, <4>1
      <4>2. CASE mods'[g.to] = mods[g.to]
        <5>1. mods[g.to] \in Content /\ g.to[1] \in names(project(mods[g.to]))
          BY <2>4, <3>3, <4>2 DEF InstallsInv, HasInstalls, NamesFit
        <5>2. project(mods[g.to]) \in Mod  BY <5>1 DEF Content, project
        <5> QED BY <3>3, <4>2, <5>1, <5>2 DEF NamesDiffer
      <4> QED BY <3>4, <4>1, <4>2
    <3> QED BY <2>4, <3>3, <3>5 DEF Copies
  <2>5. CASE gone' = gone \cup {project(c) : c \in In(mods) \ In(mods')}
    <3>1. mods[h] \in In(mods)  BY <2>2 DEF In
    <3>2. mods[h] \in In(mods')  BY <2>2, <2>5, <3>1
    <3>3. PICK f \in Place : mods'[f] = mods[h]  BY <3>2 DEF In
    <3> QED BY <2>2, <3>3 DEF Copies
  <2> QED BY <2>1, <2>3, <2>4, <2>5
<1>6. CASE \E q \in Mod : Release(q) \/ Install(q)
  <2>1. UNCHANGED mods  BY <1>6 DEF Release, Install, install_content
  <2> QED BY <1>1, <2>1
<1>7. CASE \E k \in job.running : Finish(k) \/ Fail(k)  BY <1>1, <1>7 DEF Finish, Fail
<1>8. CASE NextRound \/ EndRounds \/ FailUpdate \/ UpdateCheck \/ Reload
  BY <1>1, <1>8 DEF NextRound, EndRounds, FailUpdate, UpdateCheck, Reload
<1>9. CASE \E f \in Place : UpdateContent(f)  BY <1>1, <1>9 DEF UpdateContent
<1>10. CASE \E t \in Target : ChangeTarget(t)  BY <1>1, <1>10 DEF ChangeTarget
<1>11. CASE UNCHANGED installs_vars  BY <1>1, <1>11 DEF installs_vars
<1> QED BY <1>2, <1>3, <1>4, <1>5, <1>6, <1>7, <1>8, <1>9, <1>10, <1>11 DEF InstallsNext

\* What an install brings because something requires it was not there and is brought
\* once, its rounds end, and what is of Modrinth is in the folder once; but for a file
\* that a dialog sends by its URL and that has no id, which is brought again if what is
\* sent beside it requires it.
THEOREM InstallsStayOnce ==
  ASSUME CatalogueAssumption
  PROVE  InstallsSpec => [](InstallsType /\ InstallsAreOnce)
<1>1. InstallsInit => InstallsInv  BY InitInstalls
<1>2. InstallsInv /\ [InstallsNext]_installs_vars => InstallsInv'  BY InstallsStep
<1>3. InstallsInv => InstallsType /\ InstallsAreOnce  BY InstallsInvImplies
<1> QED BY <1>1, <1>2, <1>3, PTL DEF InstallsSpec

\* And unless somebody else gives a file the name of one of Modrinth's projects,
\* no update takes a project away.
THEOREM ContentStaysThere ==
  ASSUME CatalogueAssumption, NamesDiffer
  PROVE  InstallsSpec => ContentIsThereOnce
<1> DEFINE Lost == \A p \in Mod : ~Catalogue[p].curseforge /\ Copies(p) # {} /\ p \notin gone' => Copies(p)' # {}
<1>1. InstallsInit => InstallsInv /\ NamesFit  BY InitInstalls
<1>2. InstallsInv /\ NamesFit /\ [InstallsNext]_installs_vars => InstallsInv' /\ NamesFit'  BY InstallsStep
<1>3. InstallsInv /\ NamesFit /\ [InstallsNext]_installs_vars => Lost  BY NothingIsLostStep
<1>4. InstallsInv => InstallsType /\ InstallsAreOnce  BY InstallsInvImplies
<1> QED BY <1>1, <1>2, <1>3, <1>4, PTL DEF InstallsSpec, ContentIsThereOnce, NothingIsLost
=============================================================================
