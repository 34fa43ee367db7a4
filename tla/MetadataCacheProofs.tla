------------------------ MODULE MetadataCacheProofs ------------------------
(***************************************************************************)
(* What holds of MetadataCache for any callers, loads and items, however   *)
(* often the server's data change and the page asks: handles, results and  *)
(* data belong together, and a page goes back to older data only when a    *)
(* download has failed.  Of the page that searches, for any texts, filters *)
(* and hits: what it shows belongs to the search it shows.  And of the     *)
(* page of the log files, for any readers: a log is shown as it is.        *)
(***************************************************************************)
EXTENDS MetadataCache, SearchPage, LogPage, FiniteSetTheorems, SequenceTheorems, TLAPS

-----------------------------------------------------------------------------
(* The inductive invariant.                                                *)

\* Whoever is in a call is in the lock's queue once, and only its head has the lock.
LockInv ==
  /\ \A i, j \in 1 .. Len(lock) : lock[i] = lock[j] => i = j
  /\ \A i \in 1 .. Len(lock) : task[lock[i]].pc # "idle"
  /\ \A t \in Task : task[t].pc # "idle" => \E i \in 1 .. Len(lock) : lock[i] = t
  /\ \A t \in Task : task[t].pc \in {"expiring", "await"} => lock # <<>> /\ Head(lock) = t

\* A call that is about to add its KeepAlive to the list is the only one that knows
\* its handle, and the slot of its load is free.
FreshHandle ==
  \A t \in Task : task[t].pc = "expiring" =>
    /\ handle \in Load /\ load[handle].pc = "none"
    /\ page.handle # handle
    /\ \A i \in 1 .. Len(expiring) : expiring[i] # handle
    /\ \A i \in 1 .. Len(results) : results[i].handle # handle

\* There is a load if and only if the item is pending, and only then anybody waits.
PendingInv ==
  /\ state.at = "pending" <=> state.load # None
  /\ \A t \in Task : task[t].pc = "await" => state.at = "pending"

\* Only what expires has a live handle; whoever has it, or is about to get it, has the
\* result of the cache.
SameHandle ==
  handle \in Load =>
    /\ Expires
    /\ page.handle = handle => state.at = "done" /\ state.result = page.result
    /\ \A i \in 1 .. Len(results) :
         results[i].handle = handle => state.at = "done" /\ state.result = results[i].result

\* What is written has been received; with a known hash, it has that hash.
LoadInv ==
  \A l \in Load :
    /\ load[l].pc = "write" => load[l].got # None
    /\ Hashed =>
         /\ load[l].fallback = None
         /\ load[l].pc = "write" => load[l].got = 1
         /\ load[l].result.ok => load[l].result.value = 1

\* Nothing is newer than what the server has.
OldData ==
  /\ 1 <= server /\ (Hashed => server = 1)
  /\ file # None => file <= server
  /\ state.result.value <= server /\ page.result.value <= server
  /\ \A i \in 1 .. Len(results) : results[i].result.value <= server
  /\ \A l \in Load :
       /\ load[l].result.value <= server
       /\ load[l].got # None => load[l].got <= server
       /\ load[l].fallback # None => load[l].fallback <= server

\* b, if it is not the file's for want of an answer, is as new as a.
NotOlder(a, b) == a.ok /\ b.ok /\ ~b.fallback => a.value <= b.value

\* r is as new as all that the page has and is about to get.
Newest(r) ==
  /\ NotOlder(page.result, r)
  /\ \A i \in 1 .. Len(results) : NotOlder(results[i].result, r)

\* Results are in order, and what comes of the load on its way will be newer.
InOrder ==
  /\ \A i \in 1 .. Len(results) : NotOlder(page.result, results[i].result)
  /\ \A i, j \in 1 .. Len(results) : i < j => NotOlder(results[i].result, results[j].result)
  /\ Newest(state.result)
  /\ \A l \in Load : state.load = l =>
       /\ Newest(load[l].result)
       /\ load[l].pc = "write" => Newest(Good(load[l].got, FALSE))

IInv ==
  /\ TypeOK /\ LockInv /\ FreshHandle /\ PendingInv /\ SameHandle /\ LiveHandlesExpire
  /\ LoadInv /\ Verified /\ OldData /\ InOrder

-----------------------------------------------------------------------------
(* Type correctness.                                                       *)

LEMMA ResultFacts ==
  /\ Error \in Result /\ ~Error.ok /\ Error.value = 0
  /\ \A v \in Version, fallback \in BOOLEAN :
       /\ Good(v, fallback) \in Result
       /\ Good(v, fallback).ok /\ Good(v, fallback).value = v /\ Good(v, fallback).fallback = fallback
  /\ \A r \in Result : r.ok \in BOOLEAN /\ r.value \in Nat /\ r.fallback \in BOOLEAN
<1>1. Version \subseteq Nat
  BY BoundAssumption DEF Version
<1>2. Error \in Result /\ ~Error.ok /\ Error.value = 0
  BY DEF Error, Result
<1>3. \A v \in Version, fallback \in BOOLEAN :
       /\ Good(v, fallback) \in Result
       /\ Good(v, fallback).ok /\ Good(v, fallback).value = v /\ Good(v, fallback).fallback = fallback
  BY DEF Good, Result
<1>4. ASSUME NEW r \in Result PROVE r.ok \in BOOLEAN /\ r.value \in Nat /\ r.fallback \in BOOLEAN
  <2>1. CASE r \in [ok : {TRUE}, value : Version, fallback : BOOLEAN]
    BY <1>1, <2>1
  <2>2. CASE r = Error
    BY <2>2 DEF Error
  <2> QED BY <2>1, <2>2 DEF Result, Error
<1> QED BY <1>2, <1>3, <1>4

LEMMA ItemFacts ==
  ASSUME TypeOK
  PROVE  Expires \in BOOLEAN /\ Hashed \in BOOLEAN /\ Cached \in BOOLEAN
BY ItemAssumption DEF TypeOK, Expires, Hashed, Cached

LEMMA EmptyFacts ==
  NoLoad \in LoadState /\ NoTask \in TaskState /\ Unloaded \in ItemState
BY ResultFacts DEF NoLoad, NoTask, Unloaded, LoadState, TaskState, ItemState

\* What a caller that has the lock knows of it.
LEMMA HolderIsTask ==
  ASSUME TypeOK, NEW t \in Task, NEW pc, Holds(t, pc)
  PROVE  /\ lock # <<>> /\ Len(lock) \in Nat /\ Len(lock) >= 1 /\ lock[1] = t
         /\ Tail(lock) \in Seq(Task) /\ Len(Tail(lock)) = Len(lock) - 1
         /\ \A i \in 1 .. Len(lock) - 1 : Tail(lock)[i] = lock[i + 1]
BY HeadTailProperties DEF TypeOK, Holds

\* The queue without caller t: the others move up.
LEMMA QueueWithout ==
  ASSUME TypeOK, LockInv, NEW t \in Task, task[t].pc # "idle"
  PROVE  \E k \in 1 .. Len(lock) :
           /\ lock[k] = t
           /\ lock_without(t) \in Seq(Task) /\ Len(lock_without(t)) = Len(lock) - 1
           /\ \A i \in 1 .. Len(lock) - 1 : lock_without(t)[i] = IF i < k THEN lock[i] ELSE lock[i + 1]
<1>1. PICK k \in 1 .. Len(lock) : lock[k] = t
  BY DEF LockInv
<1>2. lock \in Seq(Task) /\ Len(lock) \in Nat /\ DOMAIN lock = 1 .. Len(lock)
  BY DEF TypeOK
<1>3. \A i \in 1 .. Len(lock) - 1 : (\E j \in 1 .. i : lock[j] = t) <=> k <= i
  BY <1>1, <1>2 DEF LockInv
<1>4. lock_without(t) = [i \in 1 .. Len(lock) - 1 |-> IF i < k THEN lock[i] ELSE lock[i + 1]]
  BY <1>1, <1>2, <1>3 DEF lock_without
<1>5. [i \in 1 .. Len(lock) - 1 |-> IF i < k THEN lock[i] ELSE lock[i + 1]] \in [1 .. Len(lock) - 1 -> Task]
  BY <1>1, <1>2
<1>6. lock_without(t) \in Seq(Task) /\ Len(lock_without(t)) = Len(lock) - 1
  BY <1>1, <1>2, <1>4, <1>5, IsASeq
<1> QED BY <1>1, <1>2, <1>4, <1>6

-----------------------------------------------------------------------------
(* What each kind of step does to the queue.                               *)

\* A call queues up.
LEMMA Queued ==
  ASSUME TypeOK, LockInv, NEW t \in Task, NEW new \in TaskState, task[t].pc = "idle",
         new.pc = "lock", task' = [task EXCEPT ![t] = new], lock' = Append(lock, t)
  PROVE  lock' \in Seq(Task) /\ task' \in [Task -> TaskState] /\ LockInv'
<1>1. lock \in Seq(Task) /\ Len(lock) \in Nat /\ task \in [Task -> TaskState]
  BY DEF TypeOK, TaskState
<1>2. lock' \in Seq(Task) /\ Len(lock') = Len(lock) + 1 /\ lock'[Len(lock) + 1] = t
      /\ \A i \in 1 .. Len(lock) : lock'[i] = lock[i]
  BY <1>1, AppendProperties
<1>3. task' \in [Task -> TaskState]  BY <1>1
<1>4. \A i \in 1 .. Len(lock) : lock[i] # t  BY DEF LockInv
<1>5. LockInv'
  <2>1. \A i, j \in 1 .. Len(lock') : lock'[i] = lock'[j] => i = j
    BY <1>1, <1>2, <1>4 DEF LockInv
  <2>2. \A i \in 1 .. Len(lock') : task'[lock'[i]].pc # "idle"
    BY <1>1, <1>2, <1>4 DEF LockInv
  <2>3. ASSUME NEW u \in Task, task'[u].pc # "idle" PROVE \E i \in 1 .. Len(lock') : lock'[i] = u
    <3>1. CASE u = t  BY <1>1, <1>2, <3>1
    <3>2. CASE u # t
      <4>1. PICK i \in 1 .. Len(lock) : lock[i] = u  BY <1>1, <2>3, <3>2 DEF LockInv
      <4> QED BY <1>1, <1>2, <4>1
    <3> QED BY <3>1, <3>2
  <2>4. ASSUME NEW u \in Task, task'[u].pc \in {"expiring", "await"} PROVE lock' # <<>> /\ Head(lock') = u
    <3>1. u # t  BY <1>1, <2>4
    <3>2. lock # <<>> /\ Head(lock) = u  BY <1>1, <2>4, <3>1 DEF LockInv
    <3> QED BY <1>1, <1>2, <3>2
  <2> QED BY <2>1, <2>2, <2>3, <2>4 DEF LockInv
<1> QED BY <1>2, <1>3, <1>5

\* A caller that is not idle stays in the queue where it is; if it goes on, it has the lock.
LEMMA Advanced ==
  ASSUME TypeOK, LockInv, NEW t \in Task, NEW new \in TaskState, new.pc # "idle",
         lock # <<>>, Head(lock) = t, task' = [task EXCEPT ![t] = new], lock' = lock
  PROVE  task' \in [Task -> TaskState] /\ LockInv'
<1>1. lock \in Seq(Task) /\ Len(lock) \in Nat /\ task \in [Task -> TaskState]
  BY DEF TypeOK, TaskState
<1>2. task' \in [Task -> TaskState]  BY <1>1
<1>3. \A i \in 1 .. Len(lock) : task'[lock[i]].pc # "idle"
  BY <1>1 DEF LockInv
<1>4. ASSUME NEW u \in Task, task'[u].pc # "idle" PROVE \E i \in 1 .. Len(lock) : lock[i] = u
  <2>1. CASE u = t
    <3>1. 1 \in 1 .. Len(lock) /\ lock[1] = t  BY <1>1
    <3> QED BY <2>1, <3>1
  <2>2. CASE u # t  BY <1>1, <1>4, <2>2 DEF LockInv
  <2> QED BY <2>1, <2>2
<1>5. \A u \in Task : task'[u].pc \in {"expiring", "await"} => Head(lock) = u
  BY <1>1 DEF LockInv
<1> QED BY <1>2, <1>3, <1>4, <1>5 DEF LockInv

\* The lock goes on to the next.
LEMMA Unlocked ==
  ASSUME TypeOK, LockInv, NEW t \in Task,
         lock # <<>>, Head(lock) = t, task' = [task EXCEPT ![t] = NoTask], lock' = Tail(lock)
  PROVE  lock' \in Seq(Task) /\ task' \in [Task -> TaskState] /\ LockInv'
<1>1. lock \in Seq(Task) /\ Len(lock) \in Nat /\ task \in [Task -> TaskState]
  BY DEF TypeOK, TaskState
<1>2. Len(lock) >= 1 /\ lock[1] = t /\ lock' \in Seq(Task) /\ Len(lock') = Len(lock) - 1
      /\ \A i \in 1 .. Len(lock) - 1 : lock'[i] = lock[i + 1]
  BY <1>1, HeadTailProperties
<1>3. task' \in [Task -> TaskState] /\ task'[t].pc = "idle"  BY <1>1, EmptyFacts DEF NoTask
<1>4. \A i \in 1 .. Len(lock') : lock'[i] # t  BY <1>1, <1>2 DEF LockInv
<1>5. LockInv'
  <2>1. \A i, j \in 1 .. Len(lock') : lock'[i] = lock'[j] => i = j
    BY <1>1, <1>2 DEF LockInv
  <2>2. \A i \in 1 .. Len(lock') : task'[lock'[i]].pc # "idle"
    BY <1>1, <1>2, <1>4 DEF LockInv
  <2>3. ASSUME NEW u \in Task, task'[u].pc # "idle" PROVE \E i \in 1 .. Len(lock') : lock'[i] = u
    <3>1. u # t  BY <1>3, <2>3
    <3>0. task[u].pc # "idle"  BY <1>1, <2>3, <3>1
    <3>2. PICK i \in 1 .. Len(lock) : lock[i] = u  BY <3>0 DEF LockInv
    <3>3. i # 1 /\ i - 1 \in 1 .. Len(lock')  BY <1>1, <1>2, <3>1, <3>2
    <3>4. lock'[i - 1] = lock[(i - 1) + 1] /\ (i - 1) + 1 = i  BY <1>1, <1>2, <3>3
    <3> QED BY <3>2, <3>3, <3>4
  <2>4. \A u \in Task : task'[u].pc \notin {"expiring", "await"}
    BY <1>1, <1>3 DEF LockInv
  <2> QED BY <2>1, <2>2, <2>3, <2>4 DEF LockInv
<1> QED BY <1>2, <1>3, <1>5

\* A caller is dropped.
LEMMA Dropped ==
  ASSUME TypeOK, LockInv, NEW t \in Task, task[t].pc # "idle",
         task' = [task EXCEPT ![t] = NoTask], lock' = lock_without(t)
  PROVE  lock' \in Seq(Task) /\ task' \in [Task -> TaskState] /\ LockInv'
<1>1. lock \in Seq(Task) /\ Len(lock) \in Nat /\ task \in [Task -> TaskState]
  BY DEF TypeOK, TaskState
<1>2. PICK k \in 1 .. Len(lock) :
        /\ lock[k] = t /\ lock' \in Seq(Task) /\ Len(lock') = Len(lock) - 1
        /\ \A i \in 1 .. Len(lock) - 1 : lock'[i] = IF i < k THEN lock[i] ELSE lock[i + 1]
  BY QueueWithout
<1>3. task' \in [Task -> TaskState] /\ task'[t].pc = "idle"  BY <1>1, EmptyFacts DEF NoTask
<1>4. \A i \in 1 .. Len(lock') : lock'[i] # t  BY <1>1, <1>2 DEF LockInv
<1>5. LockInv'
  <2>1. \A i, j \in 1 .. Len(lock') : lock'[i] = lock'[j] => i = j
    BY <1>1, <1>2 DEF LockInv
  <2>2. \A i \in 1 .. Len(lock') : task'[lock'[i]].pc # "idle"
    BY <1>1, <1>2, <1>4 DEF LockInv
  <2>3. ASSUME NEW u \in Task, task'[u].pc # "idle" PROVE \E i \in 1 .. Len(lock') : lock'[i] = u
    <3>1. u # t  BY <1>3, <2>3
    <3>2. PICK i \in 1 .. Len(lock) : lock[i] = u  BY <1>1, <2>3, <3>1 DEF LockInv
    <3>3. CASE i < k  BY <1>1, <1>2, <3>2, <3>3
    <3>4. CASE ~(i < k)
      <4>1. i # k /\ i - 1 \in 1 .. Len(lock')  BY <1>1, <1>2, <3>1, <3>2, <3>4
      <4>2. lock'[i - 1] = lock[(i - 1) + 1] /\ (i - 1) + 1 = i  BY <1>1, <1>2, <3>4, <4>1
      <4> QED BY <3>2, <4>1, <4>2
    <3> QED BY <3>3, <3>4
  <2>4. ASSUME NEW u \in Task, task'[u].pc \in {"expiring", "await"} PROVE lock' # <<>> /\ Head(lock') = u
    <3>1. u # t  BY <1>3, <2>4
    <3>2. lock # <<>> /\ lock[1] = u /\ k # 1  BY <1>1, <1>2, <2>4, <3>1 DEF LockInv
    <3>3. Len(lock') >= 1 /\ lock'[1] = u  BY <1>1, <1>2, <3>2
    <3> QED BY <1>2, <3>3
  <2> QED BY <2>1, <2>2, <2>3, <2>4 DEF LockInv
<1> QED BY <1>2, <1>3, <1>5

-----------------------------------------------------------------------------
(* What each kind of step does to loads, results and handles.              *)

LEMMA Finished ==
  ASSUME TypeOK, NEW l \in Load, NEW r \in Result, Finish(l, r)
  PROVE  /\ load' \in [Load -> LoadState]
         /\ \A k \in Load :
              load'[k] = IF k # l THEN load[k] ELSE IF state.load = l THEN Over(r) ELSE NoLoad
         /\ Over(r).pc = "done" /\ Over(r).fallback = None /\ Over(r).got = None /\ Over(r).result = r
<1>1. Over(r) \in LoadState
  BY DEF Over, LoadState
<1> QED BY <1>1, EmptyFacts DEF Finish, TypeOK, Over

LEMMA Started ==
  ASSUME TypeOK, NEW l \in Load, StartLoading(l)
  PROVE  /\ state' \in ItemState /\ state' = [at |-> "pending", load |-> l, result |-> Error]
         /\ load' \in [Load -> LoadState]
         /\ \A k \in Load :
              IF k = l THEN /\ load'[k].pc \in {"file", "request"} /\ load'[k].fallback = None
                            /\ load'[k].got = None /\ load'[k].result = Error
              ELSE load'[k] \in {load[k], NoLoad}
<1>1. state' \in ItemState /\ state' = [at |-> "pending", load |-> l, result |-> Error]
  BY ResultFacts DEF StartLoading, ItemState
<1> DEFINE first == [NoLoad EXCEPT !.pc = IF Cached THEN "file" ELSE "request"]
<1>2. first = [pc |-> IF Cached THEN "file" ELSE "request", fallback |-> None, got |-> None, result |-> Error]
  BY DEF NoLoad
<1>3. first \in LoadState /\ first.pc \in {"file", "request"}
  BY <1>2, ResultFacts DEF LoadState
<1> HIDE DEF first
<1>4. load' = [k \in Load |->
                IF k = l THEN first
                ELSE IF k = state.load /\ load[k].pc = "done" THEN NoLoad ELSE load[k]]
  BY DEF StartLoading, first
<1> QED BY <1>1, <1>2, <1>3, <1>4, EmptyFacts DEF TypeOK

\* A KeepAlive is dropped: nothing but handles changes.
LEMMA HandlesDropped ==
  ASSUME TypeOK, NEW l \in Load, DropPageHandles(l)
  PROVE  /\ page'.at = page.at /\ page'.result = page.result
         /\ page'.handle = IF page.handle = l THEN Dead ELSE page.handle
         /\ page' \in [at : {"absent", "loading", "loaded"}, result : Result, handle : Handle]
         /\ results' \in Seq(Answer) /\ Len(results') = Len(results)
         /\ \A i \in 1 .. Len(results) :
              /\ results'[i].result = results[i].result
              /\ results'[i].handle = IF results[i].handle = l THEN Dead ELSE results[i].handle
<1>1. results \in Seq(Answer) /\ Len(results) \in Nat /\ DOMAIN results = 1 .. Len(results)
      /\ \A i \in 1 .. Len(results) : results[i] \in Answer
  BY DEF TypeOK
<1> DEFINE new(i) == [results[i] EXCEPT !.handle = dropped(@, l)]
<1>2. ASSUME NEW i \in 1 .. Len(results)
      PROVE  /\ new(i) \in Answer /\ new(i).result = results[i].result
             /\ new(i).handle = IF results[i].handle = l THEN Dead ELSE results[i].handle
  BY <1>1 DEF Answer, Handle, dropped
<1>3. results' = [i \in 1 .. Len(results) |-> new(i)]
  BY <1>1 DEF DropPageHandles
<1>4. results' \in Seq(Answer) /\ Len(results') = Len(results)
  <2> HIDE DEF new
  <2> QED BY <1>1, <1>2, <1>3, IsASeq
<1>5. /\ page'.at = page.at /\ page'.result = page.result
      /\ page'.handle = IF page.handle = l THEN Dead ELSE page.handle
      /\ page' \in [at : {"absent", "loading", "loaded"}, result : Result, handle : Handle]
  BY DEF DropPageHandles, TypeOK, Handle, dropped
<1> QED BY <1>2, <1>3, <1>4, <1>5

\* A call that returns gives the page its answer, with the handle there is.
LEMMA Returned ==
  ASSUME TypeOK, NEW t \in Task, NEW r \in Result, Return(t, r)
  PROVE  /\ results' \in Seq(Answer)
         /\ Len(results') \in {Len(results), Len(results) + 1}
         /\ task[t].kind # "page" => results' = results
         /\ \A i \in 1 .. Len(results) : results'[i] = results[i]
         /\ \A i \in 1 .. Len(results') : i > Len(results) =>
              i = Len(results) + 1 /\ results'[i].result = r /\ results'[i].handle = handle
<1>1. results \in Seq(Answer) /\ Len(results) \in Nat
  BY DEF TypeOK
<1> DEFINE answer == [result |-> r, handle |-> handle]
<1>2. answer \in Answer /\ answer.result = r /\ answer.handle = handle
  BY DEF TypeOK, Answer
<1> HIDE DEF answer
<1>3. results' = IF task[t].kind = "page" THEN Append(results, answer) ELSE results
  BY DEF Return, answer
<1> QED BY <1>1, <1>2, <1>3, AppendProperties

-----------------------------------------------------------------------------
(* The types and the queue are kept.                                       *)

USE DEF cache, outside, frontend

LEMMA InitInv ==
  ASSUME Init
  PROVE  IInv
<1>1. lock = <<>> \/ \E u \in Task : lock = <<u>>
  BY DEF Init
<1>2. lock \in Seq(Task)
  <2>1. CASE lock = <<>>  BY <2>1
  <2>2. CASE \E u \in Task : lock = <<u>>  BY <2>2
  <2> QED BY <1>1, <2>1, <2>2
<1>3. task \in [Task -> TaskState] /\ \A t \in Task : task[t].pc \in {"idle", "lock"}
  BY EmptyFacts DEF Init, TaskState, NoTask
<1>4. server = 1 /\ server \in Version /\ file \in Version \cup {None} /\ (file # None => file <= 1)
  BY BoundAssumption DEF Init, Version
<1>5. TypeOK
  BY <1>2, <1>3, <1>4, ResultFacts, EmptyFacts DEF Init, TypeOK, Handle, Absent
<1>6. LockInv
  <2>1. CASE lock = <<>>  BY <2>1 DEF Init, LockInv, NoTask
  <2>2. CASE \E u \in Task : lock = <<u>>
    <3>1. PICK u \in Task : lock = <<u>>  BY <2>2
    <3>2. \A t \in Task : task[t].pc = IF t = u THEN "lock" ELSE "idle"
      BY <3>1 DEF Init, NoTask
    <3>3. Len(lock) = 1 /\ lock[1] = u  BY <3>1
    <3> QED BY <3>2, <3>3 DEF LockInv
  <2> QED BY <2>1, <2>2, <1>1
<1>7. FreshHandle  BY <1>3 DEF FreshHandle
<1>8. PendingInv  BY <1>3 DEF PendingInv, Init, Unloaded
<1>9. SameHandle /\ LiveHandlesExpire  BY NoneAssumption DEF Init, SameHandle, LiveHandlesExpire
<1>10. LoadInv /\ Verified  BY ResultFacts DEF Init, LoadInv, Verified, NoLoad, Unloaded
<1>11. OldData
  BY <1>4, ResultFacts DEF Init, OldData, NoLoad, Unloaded, Absent
<1>12. InOrder
  <2>1. page.result = Error /\ results = <<>> /\ state.load = None /\ state.result = Error
    BY DEF Init, Absent, Unloaded
  <2>2. \A r : NotOlder(Error, r)  BY ResultFacts DEF NotOlder
  <2>3. Len(results) = 0 /\ 1 .. Len(results) = {}  BY <2>1
  <2>4. \A l \in Load : state.load # l  BY <2>1, NoneAssumption
  <2> QED BY <2>1, <2>2, <2>3, <2>4 DEF InOrder, Newest
<1> QED BY <1>5, <1>6, <1>7, <1>8, <1>9, <1>10, <1>11, <1>12 DEF IInv

\* A result there is, in the state of the item, of a load or from its file.
LEMMA KnownResults ==
  ASSUME TypeOK
  PROVE  /\ state.result \in Result
         /\ \A l \in Load : load[l].result \in Result /\ instead(l) \in Result
         /\ \A v \in Version : Good(v, FALSE) \in Result
<1>1. state.result \in Result  BY DEF TypeOK, ItemState
<1>2. ASSUME NEW l \in Load PROVE load[l].result \in Result /\ instead(l) \in Result
  <2>1. load[l] \in LoadState  BY DEF TypeOK
  <2>2. load[l].result \in Result /\ load[l].fallback \in Version \cup {None}  BY <2>1 DEF LoadState
  <2>3. instead(l) \in Result  BY <2>2, ResultFacts DEF instead
  <2> QED BY <2>2, <2>3
<1> QED BY <1>1, <1>2, ResultFacts

LEMMA CallerStep ==
  ASSUME TypeOK, LockInv, PendingInv, FreshHandle, NEW t \in Task, Advance(t) \/ Fetch(t) \/ Cancel(t)
  PROVE  TypeOK' /\ LockInv'
<1> USE DEF Holds
<1>0. task[t] \in TaskState /\ handle \in Handle
  BY DEF TypeOK
<1>1. ASSUME NEW pc \in {"lock", "expiring", "await"}
      PROVE  [task[t] EXCEPT !.pc = pc] \in TaskState /\ [task[t] EXCEPT !.pc = pc].pc = pc
  BY <1>0 DEF TaskState
<1>2. CASE Renew(t)
  <2>1. task' \in [Task -> TaskState] /\ LockInv'
    BY <1>1, <1>2, Advanced DEF Renew, TypeOK
  <2> QED BY <1>2, <2>1 DEF Renew, TypeOK, Handle
<1>3. ASSUME NEW l \in Load, StartLoading(l), AfterStart(t), lock # <<>>, Head(lock) = t
      PROVE  /\ lock' \in Seq(Task) /\ task' \in [Task -> TaskState] /\ LockInv'
             /\ state' \in ItemState /\ load' \in [Load -> LoadState]
  <2>1. CASE task[t].kind = "load"  BY <1>3, <2>1, Unlocked, Started DEF AfterStart
  <2>2. CASE task[t].kind # "load"  BY <1>1, <1>3, <2>2, Advanced, Started DEF AfterStart, TypeOK
  <2> QED BY <2>1, <2>2
<1>4. CASE StartExpiring(t)
  <2>1. handle \in Load  BY <1>4 DEF StartExpiring, FreshHandle
  <2>2. expiring' \in Seq(Load)  BY <1>4, <2>1 DEF StartExpiring, TypeOK
  <2> QED BY <1>3, <1>4, <2>1, <2>2 DEF StartExpiring, TypeOK
<1>5. CASE StartForGood(t)
  <2>1. PICK l \in Load : StartLoading(l)  BY <1>5 DEF StartForGood
  <2> QED BY <1>3, <1>5, <2>1 DEF StartForGood, TypeOK
<1>6. CASE Join(t)
  <2>1. task' \in [Task -> TaskState] /\ LockInv'
    BY <1>1, <1>6, Advanced DEF Join, TypeOK
  <2> QED BY <1>6, <2>1 DEF Join, TypeOK
<1>7. ASSUME NEW r \in Result, Return(t, r), lock # <<>>, Head(lock) = t
      PROVE  lock' \in Seq(Task) /\ task' \in [Task -> TaskState] /\ LockInv' /\ results' \in Seq(Answer)
  BY <1>7, Unlocked, Returned DEF Return
<1>8. CASE UseLoaded(t)
  BY <1>7, <1>8, KnownResults DEF UseLoaded, TypeOK
<1>9. CASE Take(t)
  <2>1. state.load \in Load  BY <1>9 DEF Take, PendingInv, TypeOK, ItemState
  <2>2. load[state.load].result \in Result  BY <2>1, KnownResults
  <2>3. state' \in ItemState  BY <1>9, <2>2 DEF Take, settled, ItemState
  <2>4. load' \in [Load -> LoadState]  BY <1>9, EmptyFacts DEF Take, TypeOK
  <2> QED BY <1>7, <1>9, <2>2, <2>3, <2>4 DEF Take, TypeOK
<1>10. CASE Fetch(t)
  <2>1. [pc |-> "lock", kind |-> "fetch", force |-> FALSE] \in TaskState  BY DEF TaskState
  <2> QED BY <1>10, <2>1, Queued DEF Fetch, Begin, TypeOK
<1>11. CASE Cancel(t)
  <2>1. handle' \in Handle  BY <1>11, <1>0 DEF Cancel, handle_without, Handle
  <2> QED BY <1>11, <2>1, Dropped DEF Cancel, TypeOK
<1> QED BY <1>2, <1>4, <1>5, <1>6, <1>8, <1>9, <1>10, <1>11 DEF Advance

\* What a load is about to deliver.
LEMMA LoadStepFacts ==
  ASSUME TypeOK, LoadInv, NEW l \in Load, LoadStep(l)
  PROVE  /\ UNCHANGED <<cache, item, server, frontend>>
         /\ file' \in {file, load[l].got, None} /\ (file' # file => load[l].pc = "write")
         /\ \/ \E r \in Result : Finish(l, r)
            \/ load' \in [Load -> LoadState] /\ load' = [load EXCEPT ![l] = load'[l]]
<1>0. load \in [Load -> LoadState] /\ load[l] \in LoadState /\ load[l].fallback \in Version \cup {None}
      /\ load[l].got \in Version \cup {None}
  BY DEF TypeOK, LoadState
<1>1. CASE ReadFile(l)
  <2>1. CASE file # None /\ file_is_enough(file)
    <3>1. file \in Version  BY <2>1 DEF TypeOK
    <3> QED BY <1>1, <2>1, <3>1, KnownResults DEF ReadFile
  <2>2. CASE ~(file # None /\ file_is_enough(file))
    <3>1. load' = [load EXCEPT ![l].pc = "request", ![l].fallback = IF Hashed THEN None ELSE file]
      BY <1>1, <2>2 DEF ReadFile
    <3>2. file \in Version \cup {None}  BY DEF TypeOK
    <3>3. load' \in [Load -> LoadState] /\ load' = [load EXCEPT ![l] = load'[l]]
      BY <1>0, <3>1, <3>2 DEF LoadState
    <3> QED BY <1>1, <3>3 DEF ReadFile
  <2> QED BY <2>1, <2>2
<1>2. CASE Receive(l)
  <2>1. PICK v \in IF Hashed THEN {0, 1} ELSE {server} :
       IF ~correct_hash(v) THEN Finish(l, Error)
       ELSE IF Cached THEN load' = [load EXCEPT ![l].pc = "write", ![l].fallback = None, ![l].got = v]
       ELSE Finish(l, Good(v, FALSE))
    BY <1>2 DEF Receive
  <2>2. v \in Version  BY <2>1, BoundAssumption DEF TypeOK, Version
  <2>3. CASE Finish(l, Error) \/ Finish(l, Good(v, FALSE))
    BY <1>2, <2>2, <2>3, ResultFacts DEF Receive
  <2>4. CASE load' = [load EXCEPT ![l].pc = "write", ![l].fallback = None, ![l].got = v]
    <3>1. load' \in [Load -> LoadState] /\ load' = [load EXCEPT ![l] = load'[l]]
      BY <1>0, <2>2, <2>4 DEF LoadState
    <3> QED BY <1>2, <3>1 DEF Receive
  <2> QED BY <2>1, <2>3, <2>4
<1>3. CASE FailRequest(l)
  BY <1>3, KnownResults DEF FailRequest
<1>4. CASE WriteFile(l)
  <2>1. load[l].pc = "write" /\ load[l].got \in Version
    BY <1>0, <1>4 DEF WriteFile, LoadInv
  <2> QED BY <1>4, <2>1, KnownResults DEF WriteFile
<1> QED BY <1>1, <1>2, <1>3, <1>4 DEF LoadStep

LEMMA TypeStep ==
  ASSUME IInv, [Next]_vars
  PROVE  TypeOK' /\ LockInv'
<1> USE DEF IInv
<1>1. CASE Expire
  <2>1. Head(expiring) \in Load /\ Tail(expiring) \in Seq(Load)
    BY <1>1 DEF Expire, TypeOK
  <2>2. dropped(handle, Head(expiring)) \in Handle
    BY DEF dropped, TypeOK, Handle
  <2>3. TypeOK'
    BY <1>1, <2>1, <2>2, HandlesDropped DEF Expire, TypeOK
  <2> QED BY <1>1, <2>3 DEF Expire, LockInv
<1>2. CASE \E t \in Task : Advance(t) \/ Fetch(t) \/ Cancel(t)
  BY <1>2, CallerStep
<1>3. CASE \E l \in Load : LoadStep(l)
  <2>1. PICK l \in Load : LoadStep(l)  BY <1>3
  <2>2. load' \in [Load -> LoadState]
    BY <2>1, LoadStepFacts, Finished
  <2>3. UNCHANGED <<lock, handle, state, expiring, task, item, server, requests, results, page>>
    BY <2>1, LoadStepFacts
  <2>4. load[l].got \in Version \cup {None}  BY DEF TypeOK, LoadState
  <2>5. file' \in Version \cup {None}
    BY <2>1, <2>4, LoadStepFacts DEF TypeOK
  <2>6. TypeOK'  BY <2>2, <2>3, <2>5 DEF TypeOK
  <2> QED BY <2>3, <2>6 DEF LockInv
<1>4. CASE Draw \/ ForceReload
  <2>1. PICK force \in BOOLEAN : Send(force)  BY <1>4 DEF Draw, ForceReload
  <2>2. requests' \in Seq(BOOLEAN)  BY <2>1 DEF Send, TypeOK
  <2>3. page' \in [at : {"absent", "loading", "loaded"}, result : Result, handle : Handle]
    BY <1>4 DEF Draw, ForceReload, TypeOK
  <2>4. UNCHANGED <<cache, load, outside, results>>  BY <1>4 DEF Draw, ForceReload
  <2> QED BY <2>2, <2>3, <2>4 DEF TypeOK, LockInv
<1>5. CASE HandleRequest
  <2>1. Head(requests) \in BOOLEAN /\ Tail(requests) \in Seq(BOOLEAN)
    BY <1>5 DEF HandleRequest, TypeOK
  <2>2. PICK t \in Task : Begin(t, "page", Head(requests))  BY <1>5 DEF HandleRequest
  <2>3. [pc |-> "lock", kind |-> "page", force |-> Head(requests)] \in TaskState
    BY <2>1 DEF TaskState
  <2> QED BY <1>5, <2>1, <2>2, <2>3, Queued DEF HandleRequest, Begin, TypeOK
<1>6. CASE SetResult
  <2>1. Head(results) \in Answer /\ Tail(results) \in Seq(Answer)
    BY <1>6 DEF SetResult, TypeOK
  <2> QED BY <1>6, <2>1 DEF SetResult, TypeOK, Answer, LockInv
<1>7. CASE ServerChanges
  <2>1. server' \in Version  BY <1>7, BoundAssumption DEF ServerChanges, TypeOK, Version
  <2> QED BY <1>7, <2>1 DEF ServerChanges, TypeOK, LockInv
<1>8. CASE UNCHANGED vars
  BY <1>8 DEF vars, TypeOK, LockInv
<1> QED BY <1>1, <1>2, <1>3, <1>4, <1>5, <1>6, <1>7, <1>8 DEF Next, LauncherNext

-----------------------------------------------------------------------------
(* Handles and results stay together.                                      *)

HandleInv == FreshHandle /\ PendingInv /\ SameHandle /\ LiveHandlesExpire

\* Nobody but the one that has the lock is past it.
LEMMA OneHolder ==
  ASSUME LockInv, NEW t \in Task, NEW pc, Holds(t, pc)
  PROVE  \A u \in Task : u # t => task[u].pc \notin {"expiring", "await"}
BY DEF LockInv, Holds

LEMMA SeqFacts ==
  ASSUME TypeOK
  PROVE  /\ Len(expiring) \in Nat /\ DOMAIN expiring = 1 .. Len(expiring) /\ Len(results) \in Nat
         /\ \A i \in 1 .. Len(expiring) : expiring[i] \in Load
         /\ \A i \in 1 .. Len(results) : results[i] \in Answer /\ results[i].handle \in Handle
         /\ task \in [Task -> TaskState] /\ load \in [Load -> LoadState] /\ state \in ItemState
<1>1. \A a \in Answer : a.handle \in Handle  BY DEF Answer
<1> QED BY <1>1 DEF TypeOK

\* A step by which no handle, result or load of the item changes.
LEMMA HandlesKept ==
  ASSUME IInv, LockInv', UNCHANGED <<item, handle, state, expiring, results>>, page'.handle = page.handle,
         page'.result = page.result,
         \A u \in Task : task'[u].pc \in {"expiring", "await"} => task'[u].pc = task[u].pc,
         \A u \in Task : task[u].pc = "expiring" => task'[u].pc = "expiring",
         \A l \in Load : load[l].pc = "none" => load'[l].pc = "none"
  PROVE  HandleInv'
<1> USE DEF IInv, HandleInv
<1>1. FreshHandle'  BY DEF FreshHandle
<1>2. PendingInv'  BY DEF PendingInv
<1>3. SameHandle'  BY DEF SameHandle, Expires
<1>4. LiveHandlesExpire'
  BY DEF LiveHandlesExpire, Holds, LockInv
<1> QED BY <1>1, <1>2, <1>3, <1>4

LEMMA ExpireKeepsHandles ==
  ASSUME IInv, Expire
  PROVE  HandleInv'
<1> USE DEF IInv, Expire
<1> DEFINE l == Head(expiring)
<1>1. /\ l \in Load /\ l = expiring[1] /\ Len(expiring) >= 1 /\ Len(expiring') = Len(expiring) - 1
      /\ \A i \in 1 .. Len(expiring) - 1 : expiring'[i] = expiring[i + 1]
      /\ DOMAIN expiring' = 1 .. Len(expiring')
  BY HeadTailProperties DEF TypeOK
<1>2. handle' = IF handle = l THEN Dead ELSE handle
  BY DEF dropped
<1>3. /\ page'.result = page.result
      /\ page'.handle = IF page.handle = l THEN Dead ELSE page.handle
      /\ Len(results') = Len(results)
      /\ \A i \in 1 .. Len(results) :
           /\ results'[i].result = results[i].result
           /\ results'[i].handle = IF results[i].handle = l THEN Dead ELSE results[i].handle
  BY <1>1, HandlesDropped
<1> HIDE DEF l
<1>4. FreshHandle'
  BY <1>1, <1>2, <1>3, NoneAssumption, SeqFacts DEF FreshHandle
<1>5. PendingInv'  BY DEF PendingInv
<1>6. SameHandle'
  BY <1>2, <1>3, NoneAssumption DEF SameHandle, Expires
<1>7. LiveHandlesExpire'
  <2> SUFFICES ASSUME handle' \in Load PROVE LiveHandlesExpire'  BY DEF LiveHandlesExpire
  <2>1. handle' = handle /\ handle # l  BY <1>2, NoneAssumption
  <2>2. CASE \E i \in DOMAIN expiring : expiring[i] = handle
    <3>1. PICK i \in 1 .. Len(expiring) : expiring[i] = handle  BY <2>2, SeqFacts
    <3>2. i - 1 \in 1 .. Len(expiring') /\ expiring'[i - 1] = expiring[(i - 1) + 1] /\ (i - 1) + 1 = i
      BY <1>1, <2>1, <3>1, SeqFacts
    <3> QED BY <1>1, <2>1, <3>1, <3>2 DEF LiveHandlesExpire
  <2>3. CASE \E t \in Task : Holds(t, "expiring")
    BY <2>3 DEF Holds, LiveHandlesExpire
  <2> QED BY <2>1, <2>2, <2>3 DEF LiveHandlesExpire
<1> QED BY <1>4, <1>5, <1>6, <1>7 DEF HandleInv

LEMMA CallerKeepsHandles ==
  ASSUME IInv, TypeOK', LockInv', NEW t \in Task, Advance(t) \/ Fetch(t) \/ Cancel(t)
  PROVE  HandleInv'
<1> USE DEF IInv, HandleInv
<1>0. /\ task \in [Task -> TaskState] /\ \A u \in Task : task[u] \in TaskState
      /\ \A u \in Task : \A pc : [task[u] EXCEPT !.pc = pc].pc = pc
  BY SeqFacts DEF TaskState
<1>1. CASE Renew(t)
  <2>1. PICK l \in Load : Free(l) /\ handle' = l  BY <1>1 DEF Renew
  <2>2. /\ load[l].pc = "none" /\ page.handle # l
        /\ \A i \in 1 .. Len(expiring) : expiring[i] # l
        /\ \A i \in 1 .. Len(results) : results[i].handle # l
    BY <2>1, SeqFacts DEF Free, Held, TypeOK
  <2>3. task'[t].pc = "expiring" /\ \A u \in Task : u # t => task'[u] = task[u]
    BY <1>0, <1>1 DEF Renew
  <2>4. FreshHandle'  BY <1>1, <2>1, <2>2, <2>3 DEF Renew, FreshHandle
  <2>5. PendingInv'  BY <1>1, <2>3 DEF Renew, PendingInv
  <2>6. SameHandle'  BY <1>1, <2>1, <2>2 DEF Renew, SameHandle, Expires
  <2>7. LiveHandlesExpire'  BY <1>1, <2>3 DEF Renew, Holds, LiveHandlesExpire
  <2> QED BY <2>4, <2>5, <2>6, <2>7
<1>2. ASSUME NEW l \in Load, StartLoading(l), AfterStart(t), NEW pc, Holds(t, pc)
      PROVE  /\ state'.at = "pending" /\ state'.load = l
             /\ \A u \in Task : task'[u].pc # "expiring"
             /\ FreshHandle' /\ PendingInv'
  <2>1. \A u \in Task : u # t => task[u].pc \notin {"expiring", "await"}  BY <1>2, OneHolder
  <2>2. task'[t].pc \in {"idle", "await"} /\ \A u \in Task : u # t => task'[u] = task[u]
    <3>1. CASE task[t].kind = "load"  BY <1>0, <1>2, <3>1 DEF AfterStart, NoTask
    <3>2. CASE task[t].kind # "load"  BY <1>0, <1>2, <3>2 DEF AfterStart
    <3> QED BY <3>1, <3>2
  <2>3. state'.at = "pending" /\ state'.load = l  BY <1>2, Started
  <2> QED BY <2>1, <2>2, <2>3, NoneAssumption DEF FreshHandle, PendingInv
<1>3. CASE StartExpiring(t)
  <2>1. handle \in Load /\ page.handle # handle /\ \A i \in 1 .. Len(results) : results[i].handle # handle
    BY <1>3 DEF StartExpiring, Holds, FreshHandle
  <2>2. FreshHandle' /\ PendingInv'  BY <1>2, <1>3, <2>1 DEF StartExpiring
  <2>3. SameHandle'  BY <1>3, <2>1 DEF StartExpiring, SameHandle, Expires
  <2>4. Len(expiring') = Len(expiring) + 1 /\ expiring'[Len(expiring) + 1] = handle
        /\ DOMAIN expiring' = 1 .. Len(expiring')
    BY <1>3, <2>1 DEF StartExpiring, TypeOK
  <2>5. LiveHandlesExpire'
    BY <1>3, <2>4, SeqFacts DEF StartExpiring, LiveHandlesExpire
  <2> QED BY <2>2, <2>3, <2>5
<1>4. CASE StartForGood(t)
  <2>1. PICK l \in Load : StartLoading(l)  BY <1>4 DEF StartForGood
  <2>2. FreshHandle' /\ PendingInv'  BY <1>2, <1>4, <2>1 DEF StartForGood
  <2>3. handle' \notin Load  BY <1>4 DEF StartForGood, SameHandle
  <2> QED BY <2>2, <2>3 DEF SameHandle, LiveHandlesExpire
<1>5. CASE Join(t)
  <2>1. task'[t].pc = "await" /\ \A u \in Task : u # t => task'[u] = task[u]
    BY <1>0, <1>5 DEF Join
  <2>2. \A u \in Task : u # t => task[u].pc \notin {"expiring", "await"}  BY <1>5, OneHolder DEF Join
  <2>3. FreshHandle' /\ PendingInv'
    BY <1>5, <2>1, <2>2 DEF Join, FreshHandle, PendingInv
  <2>4. SameHandle'  BY <1>5 DEF Join, SameHandle, Expires
  <2>5. LiveHandlesExpire'
    BY <1>5, <2>1, <2>2 DEF Join, Holds, LiveHandlesExpire
  <2> QED BY <2>3, <2>4, <2>5
<1>6. ASSUME NEW r \in Result, Return(t, r), NEW pc \in {"lock", "await"}, Holds(t, pc),
             UNCHANGED <<item, handle, expiring, page>>,
             \/ UNCHANGED state /\ (task[t].kind = "page" => state.at = "done" /\ state.result = r)
             \/ state.at = "pending" /\ state' = settled(r)
      PROVE  HandleInv'
  <2>1. task'[t].pc = "idle" /\ \A u \in Task : u # t => task'[u] = task[u]
    BY <1>0, <1>6 DEF Return, NoTask
  <2>2. \A u \in Task : u # t => task[u].pc \notin {"expiring", "await"}  BY <1>6, OneHolder
  <2>3. FreshHandle' /\ PendingInv'
    BY <1>6, <2>1, <2>2 DEF FreshHandle, PendingInv, settled
  <2>4. SameHandle'
    <3> SUFFICES ASSUME handle \in Load PROVE SameHandle'  BY <1>6 DEF SameHandle
    <3>1. Expires'  BY <1>6 DEF SameHandle, Expires
    <3>2. page'.handle = handle' => state'.at = "done" /\ state'.result = page'.result
      BY <1>6 DEF SameHandle
    <3>3. ASSUME NEW i \in 1 .. Len(results'), results'[i].handle = handle'
          PROVE  state'.at = "done" /\ state'.result = results'[i].result
      <4>1. CASE i \in 1 .. Len(results)
        <5>1. results'[i] = results[i]  BY <1>6, <4>1, Returned
        <5> QED BY <1>6, <3>3, <4>1, <5>1 DEF SameHandle
      <4>2. CASE i \notin 1 .. Len(results)
        <5>1. Len(results') = Len(results) + 1 /\ task[t].kind = "page" /\ results'[i].result = r
          BY <1>6, <4>2, Returned, SeqFacts
        <5> QED BY <1>6, <5>1 DEF settled
      <4> QED BY <4>1, <4>2
    <3> QED BY <3>1, <3>2, <3>3 DEF SameHandle
  <2>5. LiveHandlesExpire'
    BY <1>6, <2>2 DEF Holds, LiveHandlesExpire
  <2> QED BY <2>3, <2>4, <2>5
<1>7. CASE UseLoaded(t)
  <2>1. state.result \in Result  BY KnownResults
  <2>2. task[t].kind = "page" => state.at = "done"  BY <1>7 DEF UseLoaded
  <2> QED BY <1>6, <1>7, <2>1, <2>2 DEF UseLoaded
<1>8. CASE Take(t)
  <2>1. state.at = "pending"  BY <1>8 DEF Take, Holds, PendingInv
  <2>2. state.load \in Load  BY <2>1 DEF PendingInv, TypeOK, ItemState
  <2>3. load[state.load].result \in Result  BY <2>2, KnownResults
  <2> QED BY <1>6, <1>8, <2>1, <2>3 DEF Take
<1>9. CASE Fetch(t)
  <2>1. \A u \in Task : u # t => task'[u] = task[u]  BY <1>0, <1>9 DEF Fetch, Begin
  <2>2. task[t].pc = "idle" /\ task'[t].pc = "lock"  BY <1>0, <1>9 DEF Fetch, Begin
  <2> QED BY <1>9, <2>1, <2>2, HandlesKept DEF Fetch
<1>10. CASE Cancel(t)
  <2>1. task'[t].pc = "idle" /\ \A u \in Task : u # t => task'[u] = task[u]
    BY <1>0, <1>10 DEF Cancel, NoTask
  <2>2. CASE task[t].pc = "expiring"
    <3>1. handle' = Dead /\ handle' \notin Load  BY <1>10, <2>2, NoneAssumption DEF Cancel, handle_without
    <3>2. \A u \in Task : task'[u].pc # "expiring"
      BY <2>1, <2>2 DEF LockInv
    <3>3. FreshHandle' /\ PendingInv'  BY <1>10, <2>1, <3>2 DEF Cancel, FreshHandle, PendingInv
    <3> QED BY <3>1, <3>3 DEF SameHandle, LiveHandlesExpire
  <2>3. CASE task[t].pc # "expiring"
    <3>1. handle' = handle  BY <1>10, <2>3 DEF Cancel, handle_without
    <3> QED BY <1>10, <2>1, <2>3, <3>1, HandlesKept DEF Cancel
  <2> QED BY <2>2, <2>3
<1> QED BY <1>1, <1>3, <1>4, <1>5, <1>7, <1>8, <1>9, <1>10 DEF Advance

LEMMA HandleStep ==
  ASSUME IInv, TypeOK', LockInv', [Next]_vars
  PROVE  HandleInv'
<1> USE DEF IInv
<1>1. CASE Expire  BY <1>1, ExpireKeepsHandles
<1>2. CASE \E t \in Task : Advance(t) \/ Fetch(t) \/ Cancel(t)
  BY <1>2, CallerKeepsHandles
<1>3. CASE \E l \in Load : LoadStep(l)
  <2>1. PICK l \in Load : LoadStep(l)  BY <1>3
  <2>2. load[l].pc # "none"
    BY <2>1 DEF LoadStep, ReadFile, Receive, FailRequest, WriteFile
  <2>3. \A k \in Load : k # l => load'[k] = load[k]
    BY <2>1, LoadStepFacts, Finished, SeqFacts
  <2> QED BY <2>1, <2>2, <2>3, LoadStepFacts, HandlesKept
<1>4. CASE Draw \/ ForceReload
  <2>1. page'.handle = page.handle /\ page'.result = page.result
    BY <1>4 DEF Draw, ForceReload, TypeOK
  <2> QED BY <1>4, <2>1, HandlesKept DEF Draw, ForceReload
<1>5. CASE HandleRequest
  <2>1. PICK t \in Task : Begin(t, "page", Head(requests))  BY <1>5 DEF HandleRequest
  <2>2. task[t].pc = "idle" /\ task'[t].pc = "lock" /\ \A u \in Task : u # t => task'[u] = task[u]
    BY <2>1, SeqFacts DEF Begin
  <2> QED BY <1>5, <2>2, HandlesKept DEF HandleRequest
<1>6. CASE SetResult
  <2>1. /\ page'.handle = results[1].handle /\ page'.result = results[1].result /\ Len(results) >= 1
        /\ Len(results') = Len(results) - 1
        /\ \A i \in 1 .. Len(results) - 1 : results'[i] = results[i + 1]
    <3>1. results \in Seq(Answer) /\ results # <<>>  BY <1>6 DEF SetResult, TypeOK
    <3>2. /\ Head(results) = results[1] /\ Len(results) >= 1
          /\ Len(Tail(results)) = Len(results) - 1
          /\ \A i \in 1 .. Len(results) - 1 : Tail(results)[i] = results[i + 1]
      BY <3>1
    <3> QED BY <1>6, <3>2 DEF SetResult
  <2>0. UNCHANGED <<item, handle, state, expiring, task, load>>  BY <1>6 DEF SetResult, cache
  <2>2. FreshHandle'
    <3>1. FreshHandle /\ Len(results) \in Nat  BY SeqFacts
    <3> QED BY <2>0, <2>1, <3>1 DEF FreshHandle
  <2>3. PendingInv'  BY <1>6 DEF SetResult, PendingInv
  <2>4. SameHandle'
    <3>1. SameHandle /\ Len(results) \in Nat  BY SeqFacts
    <3> HIDE DEF IInv
    <3>2. handle' = handle /\ state' = state /\ Expires' = Expires  BY <2>0 DEF Expires
    <3> SUFFICES ASSUME handle \in Load
        PROVE  /\ Expires
               /\ page'.handle = handle => state.at = "done" /\ state.result = page'.result
               /\ \A i \in 1 .. Len(results') :
                    results'[i].handle = handle => state.at = "done" /\ state.result = results'[i].result
      BY <3>2 DEF SameHandle
    <3>3. \A i \in 1 .. Len(results) :
            results[i].handle = handle => state.at = "done" /\ state.result = results[i].result
      BY <3>1 DEF SameHandle
    <3>4. page'.handle = handle => state.at = "done" /\ state.result = page'.result
      <4>1. 1 \in 1 .. Len(results)  BY <2>1, <3>1
      <4> QED BY <2>1, <3>3, <4>1
    <3>5. ASSUME NEW i \in 1 .. Len(results')
          PROVE  results'[i].handle = handle => state.at = "done" /\ state.result = results'[i].result
      <4>1. i \in 1 .. Len(results) - 1 /\ i + 1 \in 1 .. Len(results)  BY <2>1, <3>1
      <4> QED BY <2>1, <3>3, <4>1
    <3> QED BY <3>1, <3>4, <3>5 DEF SameHandle
  <2>5. LiveHandlesExpire'  BY <1>6 DEF SetResult, LiveHandlesExpire, Holds
  <2> QED BY <2>2, <2>3, <2>4, <2>5 DEF HandleInv
<1>7. CASE ServerChanges
  BY <1>7, HandlesKept DEF ServerChanges
<1>8. CASE UNCHANGED vars
  BY <1>8, HandlesKept DEF vars
<1> QED BY <1>1, <1>2, <1>3, <1>4, <1>5, <1>6, <1>7, <1>8 DEF Next, LauncherNext

-----------------------------------------------------------------------------
(* Data that are verified stay so, and results stay in order.              *)

DataInv == LoadInv /\ Verified /\ OldData /\ InOrder

\* Values of results are numbers, so that they can be compared.
LEMMA Numbers ==
  ASSUME TypeOK
  PROVE  /\ server \in Nat /\ (file # None => file \in Nat)
         /\ state.result \in Result /\ page.result \in Result
         /\ \A i \in 1 .. Len(results) : results[i].result \in Result
         /\ \A l \in Load : /\ load[l].result \in Result
                            /\ load[l].got # None => load[l].got \in Version
                            /\ load[l].fallback # None => load[l].fallback \in Version
<1>1. server \in Nat /\ (file # None => file \in Nat)  BY BoundAssumption DEF TypeOK, Version
<1>2. state.result \in Result /\ page.result \in Result  BY DEF TypeOK, ItemState
<1>3. \A a \in Answer : a.result \in Result  BY DEF Answer
<1>4. \A i \in 1 .. Len(results) : results[i].result \in Result  BY <1>3 DEF TypeOK
<1>5. \A k \in LoadState : k.result \in Result /\ (k.got # None => k.got \in Version)
                           /\ (k.fallback # None => k.fallback \in Version)
  BY DEF LoadState
<1> QED BY <1>1, <1>2, <1>4, <1>5 DEF TypeOK

\* What the server has is newest.
LEMMA ServerIsNewest ==
  ASSUME TypeOK, OldData, NEW r \in Result, r.ok => r.value = server
  PROVE  Newest(r)
BY Numbers, ResultFacts DEF OldData, Newest, NotOlder

\* Nothing of what is compared changes.
LEMMA DataKept ==
  ASSUME IInv, UNCHANGED <<item, file, load>>, state'.result = state.result, state'.load = state.load,
         state'.at = state.at, page'.result = page.result, Len(results') = Len(results),
         server <= server', server' \in Nat, Hashed => server' = server,
         \A i \in 1 .. Len(results) : results'[i].result = results[i].result
  PROVE  DataInv'
<1> USE DEF IInv
<1>1. LoadInv' /\ Verified'  BY DEF LoadInv, Verified, Hashed
<1>2. OldData'
  <2>1. \A r \in Result : r.value <= server => r.value <= server'
    BY Numbers, ResultFacts
  <2>2. \A v \in Version : v <= server => v <= server'
    BY Numbers, BoundAssumption DEF Version
  <2>3. file # None => file <= server'  BY <2>2 DEF OldData, TypeOK
  <2>4. 1 <= server' /\ (Hashed' => server' = 1)  BY Numbers DEF OldData, Hashed
  <2> QED BY <2>1, <2>2, <2>3, <2>4, Numbers DEF OldData
<1>3. InOrder'  BY DEF InOrder, Newest, NotOlder
<1> QED BY <1>1, <1>2, <1>3 DEF DataInv

\* A load starts: it has nothing to say yet.
LEMMA StartKeepsData ==
  ASSUME IInv, NEW l \in Load, StartLoading(l), UNCHANGED <<item, server, file, results, page>>
  PROVE  DataInv'
<1> USE DEF IInv
<1>1. state' = [at |-> "pending", load |-> l, result |-> Error]  BY Started
<1>2. \A k \in Load :
        IF k = l THEN /\ load'[k].pc \in {"file", "request"} /\ load'[k].fallback = None
                      /\ load'[k].got = None /\ load'[k].result = Error
        ELSE load'[k] \in {load[k], NoLoad}
  BY Started
<1>3. NoLoad.pc = "none" /\ NoLoad.fallback = None /\ NoLoad.got = None /\ NoLoad.result = Error
  BY DEF NoLoad
<1>4. ~Error.ok /\ Error.value = 0  BY ResultFacts
<1>5. LoadInv' /\ Verified'
  BY <1>1, <1>2, <1>3, <1>4 DEF LoadInv, Verified, Hashed
<1>6. OldData'
  <2>1. 0 <= server  BY Numbers
  <2> QED BY <1>1, <1>2, <1>3, <1>4, <2>1 DEF OldData, Hashed
<1>7. InOrder'
  <2>1. Newest(Error)  BY <1>4 DEF Newest, NotOlder
  <2> QED BY <1>1, <1>2, <2>1 DEF InOrder, Newest
<1> QED BY <1>5, <1>6, <1>7 DEF DataInv

\* A result is returned that is as new as those before.
LEMMA ReturnKeepsData ==
  ASSUME IInv, NEW t \in Task, NEW r \in Result, Return(t, r), Newest(r), r.value <= server,
         Hashed /\ r.ok => r.value = 1,
         state'.result = r, state'.load = None, UNCHANGED <<item, server, file, page>>,
         \A l \in Load : load'[l] \in {load[l], NoLoad}
  PROVE  DataInv'
<1> USE DEF IInv
<1>1. NoLoad.pc = "none" /\ NoLoad.fallback = None /\ NoLoad.got = None /\ NoLoad.result = Error
  BY DEF NoLoad
<1>2. ~Error.ok /\ Error.value = 0  BY ResultFacts
<1>3. LoadInv' /\ Verified'
  BY <1>1, <1>2 DEF LoadInv, Verified, Hashed
<1>4. \A i \in 1 .. Len(results') :
        IF i \in 1 .. Len(results) THEN results'[i] = results[i]
        ELSE i = Len(results) + 1 /\ results'[i].result = r
  BY Returned, SeqFacts
<1>5. OldData'
  <2>1. 0 <= server  BY Numbers
  <2> QED BY <1>1, <1>2, <1>4, <2>1 DEF OldData, Hashed
<1>6. InOrder'
  <2>1. NotOlder(r, r)  BY ResultFacts DEF NotOlder
  <2>2. Newest(r)'  BY <1>4, <2>1 DEF Newest, NotOlder
  <2>3. \A i \in 1 .. Len(results') : NotOlder(page'.result, results'[i].result)
    BY <1>4 DEF InOrder, Newest
  <2>4. ASSUME NEW i \in 1 .. Len(results'), NEW j \in 1 .. Len(results'), i < j
        PROVE  NotOlder(results'[i].result, results'[j].result)
    <3>1. CASE j \in 1 .. Len(results)
      <4>1. i \in 1 .. Len(results)  BY <2>4, <3>1, SeqFacts
      <4> QED BY <1>4, <2>4, <3>1, <4>1 DEF InOrder
    <3>2. CASE j \notin 1 .. Len(results)
      <4>1. j = Len(results) + 1 /\ results'[j].result = r /\ i \in 1 .. Len(results)
        BY <1>4, <2>4, <3>2, SeqFacts
      <4> QED BY <1>4, <4>1 DEF Newest
    <3> QED BY <3>1, <3>2
  <2> QED BY <2>2, <2>3, <2>4, NoneAssumption DEF InOrder, NotOlder, Newest
<1> QED BY <1>3, <1>5, <1>6 DEF DataInv

LEMMA CallerKeepsData ==
  ASSUME IInv, NEW t \in Task, Advance(t) \/ Fetch(t) \/ Cancel(t)
  PROVE  DataInv'
<1> USE DEF IInv
<1>1. ASSUME UNCHANGED <<outside, load, state, results, page>> PROVE DataInv'
  BY <1>1, DataKept, Numbers
<1>2. CASE Renew(t) \/ Join(t) \/ Fetch(t) \/ Cancel(t)
  BY <1>1, <1>2 DEF Renew, Join, Fetch, Cancel
<1>3. CASE StartExpiring(t)
  <2>1. handle \in Load  BY <1>3 DEF StartExpiring, Holds, FreshHandle
  <2> QED BY <1>3, <2>1, StartKeepsData DEF StartExpiring
<1>4. CASE StartForGood(t)
  BY <1>4, StartKeepsData DEF StartForGood
<1>5. CASE UseLoaded(t)
  <2>1. CASE state.at = "done"
    <3>1. state.load = None  BY <2>1 DEF PendingInv, TypeOK, ItemState
    <3>2. state.result \in Result /\ state.result.value <= server /\ Newest(state.result)
          /\ (Hashed /\ state.result.ok => state.result.value = 1)
      BY <2>1, KnownResults DEF OldData, InOrder, Verified
    <3> QED BY <1>5, <3>1, <3>2, ReturnKeepsData DEF UseLoaded
  <2>2. CASE state.at # "done"
    <3>1. results' = results
      BY <1>5, <2>2 DEF UseLoaded, Return
    <3> QED BY <1>1, <1>5, <3>1 DEF UseLoaded
  <2> QED BY <2>1, <2>2
<1>6. CASE Take(t)
  <2>1. state.at = "pending"  BY <1>6 DEF Take, Holds, PendingInv
  <2>2. state.load \in Load  BY <2>1 DEF PendingInv, TypeOK, ItemState
  <2> DEFINE r == load[state.load].result
  <2>3. r \in Result  BY <2>2, KnownResults
  <2>4. r.value <= server  BY <2>2 DEF OldData
  <2>5. Newest(r)  BY <2>2 DEF InOrder
  <2>6. Hashed /\ r.ok => r.value = 1  BY <2>2 DEF LoadInv
  <2>7. state'.result = r /\ state'.load = None  BY <1>6 DEF Take, settled
  <2>8. \A l \in Load : load'[l] \in {load[l], NoLoad}  BY <1>6, SeqFacts DEF Take
  <2>9. Return(t, r) /\ UNCHANGED <<item, server, file, page>>  BY <1>6 DEF Take
  <2> HIDE DEF r
  <2> QED BY <2>3, <2>4, <2>5, <2>6, <2>7, <2>8, <2>9, ReturnKeepsData
<1> QED BY <1>2, <1>3, <1>4, <1>5, <1>6 DEF Advance

\* A load is over with a result that is as new as those before; it may have written it.
LEMMA FinishKeepsData ==
  ASSUME IInv, NEW l \in Load, NEW r \in Result, Finish(l, r), Newest(r), r.value <= server,
         Hashed /\ r.ok => r.value = 1,
         UNCHANGED <<item, server, state, results, page>>,
         file' \in {file, None} \/ (load[l].got # None /\ file' = load[l].got)
  PROVE  DataInv'
<1> USE DEF IInv
<1>1. NoLoad.pc = "none" /\ NoLoad.fallback = None /\ NoLoad.got = None /\ NoLoad.result = Error
  BY DEF NoLoad
<1>2. ~Error.ok /\ Error.value = 0 /\ 0 <= server  BY ResultFacts, Numbers
<1>3. \A k \in Load : IF k # l THEN load'[k] = load[k]
                      ELSE /\ load'[k].pc # "write" /\ load'[k].fallback = None /\ load'[k].got = None
                           /\ load'[k].result \in {r, Error} /\ (state.load = k => load'[k].result = r)
  BY <1>1, Finished
<1>4. LoadInv' /\ Verified'
  BY <1>2, <1>3 DEF LoadInv, Verified, Hashed
<1>5. OldData'
  BY <1>2, <1>3 DEF OldData, Hashed
<1>6. InOrder'
  BY <1>3 DEF InOrder, Newest
<1> QED BY <1>4, <1>5, <1>6 DEF DataInv

\* A load goes on with what it has got.
LEMMA ProgressKeepsData ==
  ASSUME IInv, NEW l \in Load, load' = [load EXCEPT ![l] = load'[l]],
         UNCHANGED <<item, server, state, results, page, file>>,
         load'[l].result = load[l].result,
         load'[l].fallback # None => load'[l].fallback <= server /\ ~Hashed,
         load'[l].got # None => load'[l].got <= server,
         load'[l].pc = "write" =>
           load'[l].got # None /\ (Hashed => load'[l].got = 1) /\ Newest(Good(load'[l].got, FALSE))
  PROVE  DataInv'
<1> USE DEF IInv
<1>1. \A k \in Load : k # l => load'[k] = load[k]  BY SeqFacts
<1>2. LoadInv' /\ Verified'
  BY <1>1 DEF LoadInv, Verified, Hashed
<1>3. OldData'
  BY <1>1 DEF OldData, Hashed
<1>4. InOrder'
  BY <1>1 DEF InOrder, Newest
<1> QED BY <1>2, <1>3, <1>4 DEF DataInv

LEMMA LoadKeepsData ==
  ASSUME IInv, NEW l \in Load, LoadStep(l)
  PROVE  DataInv'
<1> USE DEF IInv
<1>0. load \in [Load -> LoadState] /\ load[l] \in LoadState  BY SeqFacts
<1>1. UNCHANGED <<item, server, state, results, page>>  BY LoadStepFacts
<1>2. server \in Nat /\ server \in Version  BY Numbers DEF TypeOK
<1>3. Newest(Error) /\ Error \in Result /\ Error.value <= server /\ ~Error.ok
  BY <1>2, ResultFacts DEF Newest, NotOlder
<1>4. ASSUME NEW v \in Version, v <= server, Newest(Good(v, FALSE)), Hashed => v = 1
      PROVE  /\ Good(v, FALSE) \in Result /\ Newest(Good(v, FALSE)) /\ Good(v, FALSE).value <= server
             /\ (Hashed => Good(v, FALSE).value = 1)
  BY <1>4, ResultFacts
<1>5. Newest(Good(server, FALSE))
  BY <1>2, ServerIsNewest, ResultFacts
<1>10. /\ Good(server, FALSE) \in Result /\ Good(server, FALSE).value <= server
       /\ (Hashed => Good(server, FALSE).value = 1)
  <2>1. Good(server, FALSE) \in Result /\ Good(server, FALSE).value = server  BY <1>2, ResultFacts
  <2>2. server <= server  BY <1>2
  <2>3. Hashed => server = 1  BY DEF OldData
  <2> QED BY <2>1, <2>2, <2>3
<1>6. CASE ReadFile(l)
  <2>1. CASE file # None /\ file_is_enough(file)
    <3>1. Hashed /\ file = 1 /\ server = 1
      BY <2>1 DEF file_is_enough, correct_hash, OldData
    <3>2. Finish(l, Good(server, FALSE))  BY <1>6, <2>1, <3>1 DEF ReadFile
    <3> QED BY <1>1, <1>5, <1>6, <1>10, <3>2, FinishKeepsData DEF ReadFile
  <2>2. CASE ~(file # None /\ file_is_enough(file))
    <3>1. load' = [load EXCEPT ![l].pc = "request", ![l].fallback = IF Hashed THEN None ELSE file]
      BY <1>6, <2>2 DEF ReadFile
    <3>2. /\ load'[l].pc = "request" /\ load'[l].fallback = (IF Hashed THEN None ELSE file)
          /\ load'[l].got = load[l].got /\ load'[l].result = load[l].result
          /\ load' = [load EXCEPT ![l] = load'[l]]
      BY <1>0, <3>1 DEF LoadState
    <3>3. load'[l].got # None => load'[l].got <= server  BY <3>2 DEF OldData
    <3>4. load'[l].fallback # None => load'[l].fallback <= server /\ ~Hashed  BY <3>2 DEF OldData
    <3> QED BY <1>1, <1>6, <3>2, <3>3, <3>4, ProgressKeepsData DEF ReadFile
  <2> QED BY <2>1, <2>2
<1>7. CASE Receive(l)
  <2>1. PICK v \in IF Hashed THEN {0, 1} ELSE {server} :
       IF ~correct_hash(v) THEN Finish(l, Error)
       ELSE IF Cached THEN load' = [load EXCEPT ![l].pc = "write", ![l].fallback = None, ![l].got = v]
       ELSE Finish(l, Good(v, FALSE))
    BY <1>7 DEF Receive
  <2>2. CASE ~correct_hash(v)
    <3>1. Finish(l, Error)  BY <2>1, <2>2
    <3> QED BY <1>1, <1>3, <1>7, <3>1, FinishKeepsData DEF Receive
  <2>3. CASE correct_hash(v)
    <3>1. v = server /\ (Hashed => v = 1)  BY <2>1, <2>3 DEF correct_hash, OldData
    <3>2. CASE ~Cached
      <4>1. Finish(l, Good(server, FALSE))  BY <2>1, <2>3, <3>1, <3>2
      <4> QED BY <1>1, <1>5, <1>7, <1>10, <4>1, FinishKeepsData DEF Receive
    <3>3. CASE Cached
      <4>1. load' = [load EXCEPT ![l].pc = "write", ![l].fallback = None, ![l].got = server]  BY <2>1, <2>3, <3>1, <3>3
      <4>2. /\ load'[l].pc = "write" /\ load'[l].fallback = None
            /\ load'[l].got = server /\ load'[l].result = load[l].result
            /\ load' = [load EXCEPT ![l] = load'[l]]
        BY <1>0, <4>1 DEF LoadState
      <4>3. server # None /\ server <= server  BY <1>2, NoneAssumption
      <4> QED BY <1>1, <1>5, <1>7, <3>1, <4>2, <4>3, ProgressKeepsData DEF Receive
    <3> QED BY <3>2, <3>3
  <2> QED BY <2>2, <2>3
<1>8. CASE FailRequest(l)
  <2>1. CASE load[l].fallback = None
    <3>1. Finish(l, Error)  BY <1>8, <2>1 DEF FailRequest, instead
    <3> QED BY <1>1, <1>3, <1>8, <3>1, FinishKeepsData DEF FailRequest
  <2>2. CASE load[l].fallback # None
    <3> DEFINE v == load[l].fallback
    <3>1. v \in Version /\ v <= server /\ ~Hashed  BY <2>2, Numbers DEF OldData, LoadInv
    <3>2. Finish(l, Good(v, TRUE))  BY <1>8, <2>2 DEF FailRequest, instead
    <3>3. Good(v, TRUE) \in Result /\ Good(v, TRUE).value <= server /\ Good(v, TRUE).fallback
      BY <3>1, ResultFacts
    <3>4. Newest(Good(v, TRUE))  BY <3>3 DEF Newest, NotOlder
    <3> HIDE DEF v
    <3> QED BY <1>1, <1>8, <3>1, <3>2, <3>3, <3>4, FinishKeepsData DEF FailRequest
  <2> QED BY <2>1, <2>2
<1>9. CASE WriteFile(l)
  <2> DEFINE v == load[l].got
  <2>1. load[l].pc = "write" /\ v # None /\ v \in Version /\ v <= server /\ (Hashed => v = 1)
    BY <1>9, Numbers DEF WriteFile, LoadInv, OldData
  <2>2. Finish(l, Good(v, FALSE)) /\ file' \in {file, v, None}  BY <1>9 DEF WriteFile
  <2>3. CASE state.load = l
    <3>1. Newest(Good(v, FALSE))  BY <2>1, <2>3 DEF InOrder
    <3> HIDE DEF v
    <3>2. file' \in {file, None} \/ (load[l].got # None /\ file' = load[l].got)  BY <2>1, <2>2 DEF v
    <3> QED BY <1>1, <1>4, <2>1, <2>2, <3>1, <3>2, FinishKeepsData
  <2>4. CASE state.load # l
    <3>1. Finish(l, Error)  BY <2>2, <2>4 DEF Finish
    <3> QED BY <1>1, <1>3, <2>1, <2>2, <3>1, FinishKeepsData
  <2> QED BY <2>3, <2>4
<1> QED BY <1>6, <1>7, <1>8, <1>9 DEF LoadStep

LEMMA DataStep ==
  ASSUME IInv, TypeOK', [Next]_vars
  PROVE  DataInv'
<1> USE DEF IInv
<1>0. server \in Nat /\ server <= server  BY Numbers
<1>1. CASE Expire
  <2>1. Head(expiring) \in Load  BY <1>1 DEF Expire, TypeOK
  <2> QED BY <1>0, <1>1, <2>1, HandlesDropped, DataKept DEF Expire
<1>2. CASE \E t \in Task : Advance(t) \/ Fetch(t) \/ Cancel(t)
  BY <1>2, CallerKeepsData
<1>3. CASE \E l \in Load : LoadStep(l)
  BY <1>3, LoadKeepsData
<1>4. CASE Draw \/ ForceReload
  <2>1. page'.result = page.result  BY <1>4 DEF Draw, ForceReload, TypeOK
  <2> QED BY <1>0, <1>4, <2>1, DataKept DEF Draw, ForceReload
<1>5. CASE HandleRequest
  BY <1>0, <1>5, DataKept DEF HandleRequest
<1>6. CASE SetResult
  <2>1. /\ page'.result = results[1].result /\ Len(results) >= 1 /\ Len(results') = Len(results) - 1
        /\ \A i \in 1 .. Len(results) - 1 : results'[i] = results[i + 1]
    BY <1>6, HeadTailProperties DEF SetResult, TypeOK
  <2>2. \A i \in 1 .. Len(results') : i \in 1 .. Len(results) - 1 /\ i + 1 \in 1 .. Len(results)
    BY <2>1, SeqFacts
  <2>3. LoadInv' /\ Verified'  BY <1>6 DEF SetResult, LoadInv, Verified, Hashed
  <2>4. OldData'
    BY <1>6, <2>1, <2>2, SeqFacts DEF SetResult, OldData, Hashed
  <2>5. InOrder'
    <3>1. ASSUME NEW r, Newest(r)
          PROVE  NotOlder(page'.result, r) /\ \A i \in 1 .. Len(results') : NotOlder(results'[i].result, r)
      <4>1. NotOlder(results[1].result, r)  BY <2>1, <3>1, SeqFacts DEF Newest
      <4>2. ASSUME NEW i \in 1 .. Len(results') PROVE NotOlder(results'[i].result, r)
        <5>1. results'[i] = results[i + 1] /\ i + 1 \in 1 .. Len(results)  BY <2>1, <2>2
        <5>2. NotOlder(results[i + 1].result, r)  BY <3>1, <5>1 DEF Newest
        <5> QED BY <5>1, <5>2
      <4> QED BY <2>1, <4>1, <4>2
    <3>2. \A i \in 1 .. Len(results') : NotOlder(page'.result, results'[i].result)
      BY <2>1, <2>2, SeqFacts DEF InOrder
    <3>3. ASSUME NEW i \in 1 .. Len(results'), NEW j \in 1 .. Len(results'), i < j
          PROVE  NotOlder(results'[i].result, results'[j].result)
      <4>1. results'[i] = results[i + 1] /\ i + 1 \in 1 .. Len(results)  BY <2>1, <2>2
      <4>2. results'[j] = results[j + 1] /\ j + 1 \in 1 .. Len(results) /\ i + 1 < j + 1
        BY <2>1, <2>2, <3>3
      <4>3. NotOlder(results[i + 1].result, results[j + 1].result)  BY <4>1, <4>2 DEF InOrder
      <4> QED BY <4>1, <4>2, <4>3
    <3>4. UNCHANGED <<state, load>>  BY <1>6 DEF SetResult
    <3>5. \A r : Newest(r) => Newest(r)'  BY <3>1 DEF Newest, NotOlder
    <3> QED BY <3>2, <3>3, <3>4, <3>5 DEF InOrder, NotOlder, Good
  <2> QED BY <2>3, <2>4, <2>5 DEF DataInv
<1>7. CASE ServerChanges
  BY <1>0, <1>7, DataKept DEF ServerChanges
<1>8. CASE UNCHANGED vars
  BY <1>0, <1>8, DataKept DEF vars
<1> QED BY <1>1, <1>2, <1>3, <1>4, <1>5, <1>6, <1>7, <1>8 DEF Next, LauncherNext

-----------------------------------------------------------------------------
(* The theorems.                                                           *)

LEMMA Invariance == Spec => []IInv
<1>1. Init => IInv  BY InitInv
<1>2. IInv /\ [Next]_vars => IInv'
  BY TypeStep, HandleStep, DataStep DEF IInv, HandleInv, DataInv
<1> QED BY <1>1, <1>2, PTL DEF Spec

\* The state of the cache, its loads and the page has its types.
THEOREM TypeCorrect == Spec => []TypeOK
<1>1. IInv => TypeOK  BY DEF IInv
<1> QED BY <1>1, Invariance, PTL

\* A page and a cache with the same live handle have the same result, every live
\* handle is going to expire, and data with a known hash have it (manager.rs): for any
\* number of callers, dropped wherever they wait, and of loads that were replaced.
THEOREM HandlesBelongToResults == Spec => []HandlesAreRight
<1>1. IInv => HandlesAreRight
  BY DEF IInv, HandlesAreRight, SameHandle, SameHandleSameResult
<1> QED BY <1>1, Invariance, PTL

\* What a page is given after data of the server is as new, unless it is the cache
\* file's because a download failed: no load that was replaced is heard of again.
THEOREM PagesGoForwards == Spec => BackwardsOnlyByFallback
<1>1. IInv /\ [Next]_vars =>
        [page.result.ok /\ page'.result.ok /\ ~page'.result.fallback
           => page.result.value <= page'.result.value]_page
  <2> SUFFICES ASSUME IInv, [Next]_vars, page' # page,
                      page.result.ok, page'.result.ok, ~page'.result.fallback
               PROVE  page.result.value <= page'.result.value
    OBVIOUS
  <2> USE DEF IInv
  <2>1. CASE SetResult
    <3>1. Len(results) >= 1 /\ page'.result = results[1].result
      BY <2>1 DEF SetResult, TypeOK
    <3> QED BY <3>1, SeqFacts DEF InOrder, NotOlder
  <2>2. CASE page'.result = page.result
    <3>1. page.result.value \in Nat  BY Numbers, ResultFacts
    <3> QED BY <2>2, <3>1
  <2>3. SetResult \/ page'.result = page.result
    <3>1. CASE Expire
      <4>1. Head(expiring) \in Load  BY <3>1 DEF Expire, TypeOK
      <4> QED BY <3>1, <4>1, HandlesDropped DEF Expire
    <3>2. CASE \E t \in Task : Advance(t) \/ Fetch(t) \/ Cancel(t)
      BY <3>2 DEF Advance, Renew, StartExpiring, StartForGood, Join, UseLoaded, Take, Fetch, Cancel
    <3>3. CASE \E l \in Load : LoadStep(l)  BY <3>3, LoadStepFacts
    <3>4. CASE Draw \/ ForceReload  BY <3>4 DEF Draw, ForceReload, TypeOK
    <3>5. CASE HandleRequest \/ ServerChanges \/ UNCHANGED vars
      BY <3>5 DEF HandleRequest, ServerChanges, vars
    <3> QED BY <3>1, <3>2, <3>3, <3>4, <3>5 DEF Next, LauncherNext
  <2> QED BY <2>1, <2>2, <2>3
<1> QED BY <1>1, Invariance, PTL DEF Spec, BackwardsOnlyByFallback
-----------------------------------------------------------------------------
(* The page that searches. *)

Hit == [of : Query, at : Nat]
SearchConfig == [project_type : Type, filter_version : BOOLEAN, install_latest : BOOLEAN]
Page ==
  [install_for : DOMAIN Instance \cup {Nil},
   filter_version : {Instance[i].game : i \in DOMAIN Instance} \cup {Nil},
   can_install_latest : BOOLEAN, installed : {by_project(c) : c \in Contents \cup {<<>>}},
   last_search : DOMAIN Matching, filter_loaders : SUBSET Loader, filter_categories : SUBSET Category,
   hits : Seq(Hit), total_hits : Nat, loading : Request \cup {Nil}, pending_reload : BOOLEAN,
   pending_clear : BOOLEAN, clear_task : BOOLEAN, search_error : BOOLEAN]

\* The hits of a page are the first ones of one search.
OneSearch(p) ==
  /\ \A n \in DOMAIN p.hits : p.hits[n] = [of |-> p.hits[1].of, at |-> n]
  /\ p.hits # <<>> => p.total_hits = Matching[p.hits[1].of.text]

\* This is the search of the page, unless the hits wait to be cleared.  Where there are none
\* the page has been cleared, or there are as many as the search has.
UpToDate(p, cfg) ==
  ~p.pending_clear =>
    /\ p.hits # <<>> => p.hits[1].of = query(p, cfg)
    /\ p.hits = <<>> => p.total_hits \in {1, Matching[p.last_search]}


\* A page, and what it waits for.
PageIsRight(p, cfg, data) ==
  /\ p \in Page /\ OneSearch(p) /\ (p.pending_clear => p.clear_task)
  /\ p.loading # Nil => p.loading \in DOMAIN data /\ data[p.loading] = "loading"
  /\ IF p.pending_reload THEN p.loading # Nil
     ELSE UpToDate(p, cfg) /\ (p.loading # Nil => p.loading = request(p, cfg))

Answers(data) ==
  DOMAIN data \subseteq Request /\ data \in [DOMAIN data -> {"loading", "loaded", "error"}]

SearchInv ==
  /\ config \in SearchConfig /\ mods \in [DOMAIN Instance -> Contents] /\ Answers(known)
  /\ search_page # Nil => PageIsRight(search_page, config, known)

-----------------------------------------------------------------------------
(* What becomes of a page. *)

\* What is searched for with a page.
SameSearch(p, q) ==
  /\ q.last_search = p.last_search /\ q.filter_version = p.filter_version
  /\ q.filter_loaders = p.filter_loaders /\ q.filter_categories = p.filter_categories

LEMMA SearchOfPage ==
  ASSUME NEW p \in Page, NEW cfg \in SearchConfig
  PROVE  /\ query(p, cfg) \in Query
         /\ query(p, cfg).text = p.last_search
         /\ \A q \in Page : SameSearch(p, q) => query(q, cfg) = query(p, cfg)
<1>1. PICK v : v = IF cfg.project_type \in Mods /\ cfg.filter_version THEN p.filter_version ELSE Nil
  OBVIOUS
<1>2. PICK l : l = IF cfg.project_type \in Mods THEN p.filter_loaders ELSE {}  OBVIOUS
<1>3. query(p, cfg) = [text |-> p.last_search, type |-> cfg.project_type, version |-> v,
                       loaders |-> l, categories |-> p.filter_categories]
  BY <1>1, <1>2 DEF query
<1>4. p.filter_version \in {Instance[i].game : i \in DOMAIN Instance} \cup {Nil}  BY DEF Page
<1>5. p.filter_loaders \in SUBSET Loader /\ p.filter_categories \in SUBSET Category
      /\ p.last_search \in DOMAIN Matching
  BY DEF Page
<1>6. v \in {Instance[i].game : i \in DOMAIN Instance} \cup {Nil}  BY <1>1, <1>4
<1>7. l \in SUBSET Loader  BY <1>2, <1>5
<1>8. cfg.project_type \in Type  BY DEF SearchConfig
<1>9. query(p, cfg) \in Query  BY <1>3, <1>5, <1>6, <1>7, <1>8 DEF Query
<1>10. query(p, cfg).text = p.last_search  BY <1>3
<1>11. ASSUME NEW q \in Page, SameSearch(p, q) PROVE query(q, cfg) = query(p, cfg)
  BY <1>11 DEF query, SameSearch
<1> QED BY <1>9, <1>10, <1>11

LEMMA RequestOfPage ==
  ASSUME NEW p \in Page, NEW cfg \in SearchConfig
  PROVE  /\ request(p, cfg) \in Request
         /\ request(p, cfg).query = query(p, cfg)
         /\ request(p, cfg).offset = IF p.pending_clear THEN 0 ELSE Len(p.hits)
<1>1. Len(p.hits) \in Nat  BY DEF Page
<1>2. query(p, cfg) \in Query  BY SearchOfPage
<1> QED BY <1>1, <1>2 DEF request, Request

\* A portion begins where it was asked for.
LEMMA PortionFacts ==
  ASSUME NEW r \in Request
  PROVE  /\ portion(r) \in Seq(Hit)
         /\ \A i \in 1 .. Len(portion(r)) : portion(r)[i] = [of |-> r.query, at |-> r.offset + i]
<1>1. r.query \in Query /\ r.offset \in Nat /\ r.query.text \in DOMAIN Matching  BY DEF Request, Query
<1>2. Matching[r.query.text] \in Nat  BY <1>1, SearchAssumption
<1>3. PICK k \in Int : k = Matching[r.query.text] - r.offset  BY <1>1, <1>2
<1>4. PICK m \in Int : m = Min({Limit, k})
  <2>1. Limit \in Nat  BY SearchAssumption
  <2>2. \E x \in {Limit, k} : \A y \in {Limit, k} : x =< y  BY <2>1
  <2>3. Min({Limit, k}) \in {Limit, k}  BY <2>2 DEF Min
  <2> QED BY <2>1, <2>3
<1>5. PICK n \in Nat : n = Max({0, m})
  <2>1. \E x \in {0, m} : \A y \in {0, m} : x >= y  OBVIOUS
  <2>2. Max({0, m}) \in {0, m} /\ \A y \in {0, m} : Max({0, m}) >= y  BY <2>1 DEF Max
  <2> QED BY <2>2
<1>6. portion(r) = [i \in 1 .. n |-> [of |-> r.query, at |-> r.offset + i]]
  BY <1>3, <1>4, <1>5 DEF portion
<1>7. \A i \in 1 .. n : [of |-> r.query, at |-> r.offset + i] \in Hit  BY <1>1 DEF Hit
<1> QED BY <1>6, <1>7

\* What the request of a page does not depend on.
Alike(p, q) == SameSearch(p, q) /\ q.loading = p.loading /\ q.pending_reload = p.pending_reload

LEMMA ClearedPage ==
  ASSUME NEW p \in Page
  PROVE  /\ clear(p) \in Page /\ Alike(p, clear(p)) /\ clear(p).clear_task = p.clear_task
         /\ clear(p).pending_clear = FALSE /\ clear(p).hits = <<>> /\ clear(p).total_hits = 1
<1>1. <<>> \in Seq(Hit) /\ 1 \in Nat  OBVIOUS
<1>2. clear(p) \in Page  BY <1>1 DEF clear, Page
<1> QED BY <1>2 DEF clear, Page, Alike, SameSearch

LEMMA AppliedPage ==
  ASSUME NEW p \in Page, NEW cfg \in SearchConfig, OneSearch(p), UpToDate(p, cfg),
         NEW r, r = request(p, cfg), NEW q, q = apply_search_data(p, r)
  PROVE  /\ q \in Page /\ OneSearch(q) /\ UpToDate(q, cfg) /\ Alike(p, q)
         /\ q.pending_clear = FALSE
<1>1. PICK k \in Page :
        /\ k = IF p.pending_clear THEN [clear(p) EXCEPT !.clear_task = FALSE] ELSE p
        /\ Alike(p, k) /\ k.pending_clear = FALSE
        /\ k.hits = IF p.pending_clear THEN <<>> ELSE p.hits
  <2>1. CASE p.pending_clear
    <3>1. PICK c \in Page : c = clear(p)  BY ClearedPage
    <3>2. Alike(p, c) /\ c.pending_clear = FALSE /\ c.hits = <<>>  BY <3>1, ClearedPage
    <3> DEFINE d == [c EXCEPT !.clear_task = FALSE]
    <3>3. d \in Page /\ d.pending_clear = FALSE /\ d.hits = <<>>  BY <3>2 DEF Page
    <3>4. Alike(p, d)  BY <3>2 DEF Page, Alike, SameSearch
    <3> QED BY <2>1, <3>1, <3>3, <3>4
  <2>2. CASE ~p.pending_clear
    <3>1. p.pending_clear = FALSE  BY <2>2 DEF Page
    <3> QED BY <3>1 DEF Alike, SameSearch
  <2> QED BY <2>1, <2>2
<1>2. r \in Request /\ r.query = query(p, cfg) /\ r.offset = Len(k.hits)
  <2>1. Len(<<>>) = 0  OBVIOUS
  <2> QED BY <1>1, <2>1, RequestOfPage
<1>3. PICK new \in Seq(Hit) :
        /\ new = portion(r)
        /\ \A i \in 1 .. Len(new) : new[i] = [of |-> r.query, at |-> r.offset + i]
  BY <1>2, PortionFacts
<1>4. PICK hits \in Seq(Hit) : hits = k.hits \o new
  <2>1. k.hits \in Seq(Hit)  BY DEF Page
  <2>2. k.hits \o new \in Seq(Hit)  BY <2>1, ConcatProperties
  <2> QED BY <2>2
<1>5. PICK total \in Nat : total = Matching[r.query.text]
  BY <1>2, SearchAssumption DEF Request, Query
<1>6. q = [k EXCEPT !.hits = hits, !.total_hits = total]
  BY <1>1, <1>3, <1>4, <1>5 DEF apply_search_data
<1>7. q \in Page /\ q.hits = hits /\ q.total_hits = total /\ q.pending_clear = FALSE
  BY <1>1, <1>6 DEF Page
<1>8. Alike(p, q)  BY <1>1, <1>6 DEF Page, Alike, SameSearch
<1>9. r.query = query(q, cfg)  BY <1>2, <1>7, <1>8, SearchOfPage DEF Alike
<1>10. \A n \in 1 .. Len(hits) : hits[n] = [of |-> r.query, at |-> n]
  <2> SUFFICES ASSUME NEW n \in 1 .. Len(hits) PROVE hits[n] = [of |-> r.query, at |-> n]
    OBVIOUS
  <2>1. k.hits \in Seq(Hit) /\ Len(k.hits) \in Nat /\ Len(new) \in Nat /\ DOMAIN k.hits = 1 .. Len(k.hits)
    BY DEF Page
  <2>2. Len(hits) = Len(k.hits) + Len(new)  BY <1>4, <2>1
  <2>3. CASE n =< Len(k.hits)
    <3>1. hits[n] = k.hits[n] /\ n \in DOMAIN k.hits /\ k.hits # <<>>  BY <1>4, <2>1, <2>3
    <3>2. p.pending_clear = FALSE /\ k.hits = p.hits  BY <1>1, <3>1 DEF Page
    <3>3. p.hits[1].of = r.query  BY <1>2, <3>1, <3>2 DEF UpToDate
    <3> QED BY <3>1, <3>2, <3>3 DEF OneSearch
  <2>4. CASE n > Len(k.hits)
    <3>1. n - Len(k.hits) \in 1 .. Len(new)  BY <2>1, <2>2, <2>4
    <3>2. hits[n] = new[n - Len(k.hits)]  BY <1>4, <2>1, <2>2, <2>4
    <3>3. r.offset + (n - Len(k.hits)) = n  BY <1>2, <2>1
    <3> QED BY <1>3, <3>1, <3>2, <3>3
  <2> QED BY <2>1, <2>3, <2>4
<1>11. DOMAIN hits = 1 .. Len(hits) /\ Len(hits) \in Nat /\ (hits # <<>> => 1 \in 1 .. Len(hits))
  OBVIOUS
<1>12. hits # <<>> => hits[1].of = r.query  BY <1>10, <1>11
<1>13. OneSearch(q)
  <2>1. \A n \in DOMAIN hits : hits[n] = [of |-> hits[1].of, at |-> n]
    <3>1. ASSUME NEW n \in DOMAIN hits PROVE hits # <<>>  OBVIOUS
    <3> QED BY <1>10, <1>11, <1>12, <3>1
  <2> QED BY <1>5, <1>7, <1>12, <2>1 DEF OneSearch
<1>14. UpToDate(q, cfg)
  <2>1. r.query.text = q.last_search  BY <1>7, <1>9, SearchOfPage
  <2> QED BY <1>5, <1>7, <1>9, <1>12, <2>1 DEF UpToDate
<1> QED BY <1>7, <1>8, <1>13, <1>14

\* Pages with the same hits.
SameHits(p, q) ==
  /\ SameSearch(p, q) /\ q.hits = p.hits /\ q.total_hits = p.total_hits
  /\ q.pending_clear = p.pending_clear /\ q.clear_task = p.clear_task

LEMMA SameHitsFacts ==
  ASSUME NEW p \in Page, NEW q \in Page, SameHits(p, q), NEW cfg \in SearchConfig
  PROVE  /\ OneSearch(p) => OneSearch(q)
         /\ UpToDate(p, cfg) => UpToDate(q, cfg)
         /\ request(q, cfg) = request(p, cfg)
<1>1. query(q, cfg) = query(p, cfg)  BY SearchOfPage DEF SameHits
<1>2. q.last_search = p.last_search  BY DEF SameHits, SameSearch
<1>3. OneSearch(p) => OneSearch(q)  BY DEF SameHits, OneSearch
<1>4. UpToDate(p, cfg) => UpToDate(q, cfg)  BY <1>1, <1>2 DEF SameHits, UpToDate
<1>5. request(q, cfg) = request(p, cfg)  BY <1>1 DEF SameHits, request
<1> QED BY <1>3, <1>4, <1>5

\* A page waits, or does not.
LEMMA WaitingPage ==
  ASSUME NEW p \in Page, NEW l \in Request \cup {Nil}
  PROVE  \E q \in Page : /\ q = [p EXCEPT !.loading = l]
                         /\ SameHits(p, q) /\ q.loading = l /\ q.pending_reload = p.pending_reload
<1> DEFINE q == [p EXCEPT !.loading = l]
<1>1. q \in Page  BY DEF Page
<1>2. SameHits(p, q) /\ q.loading = l /\ q.pending_reload = p.pending_reload
  BY DEF Page, SameHits, SameSearch
<1> QED BY <1>1, <1>2

LEMMA FailedPage ==
  ASSUME NEW p \in Page
  PROVE  \E q \in Page : /\ q = failed(p)
                         /\ SameHits(p, q) /\ q.loading = p.loading /\ q.pending_reload = p.pending_reload
<1> DEFINE q == failed(p)
<1>1. q \in Page  BY DEF Page, failed
<1>2. SameHits(p, q) /\ q.loading = p.loading /\ q.pending_reload = p.pending_reload
  BY DEF Page, SameHits, SameSearch, failed
<1> QED BY <1>1, <1>2

\* The next portion is asked for, or is there already.
LEMMA LoadMoreKeeps ==
  ASSUME NEW p \in Page, NEW cfg \in SearchConfig, NEW data, Answers(data), NEW resent, NEW stale \in BOOLEAN,
         OneSearch(p), UpToDate(p, cfg), p.pending_clear => p.clear_task, p.loading = Nil,
         NEW st, st = load_more(Asking(p, data, resent), cfg, stale)
  PROVE  Answers(st.data) /\ PageIsRight(st.page, cfg, st.data)
<1>1. PICK q \in Page :
        /\ q = [p EXCEPT !.pending_reload = FALSE, !.search_error = FALSE]
        /\ SameHits(p, q) /\ q.loading = Nil /\ q.pending_reload = FALSE
  <2> DEFINE k == [p EXCEPT !.pending_reload = FALSE, !.search_error = FALSE]
  <2>1. k \in Page  BY DEF Page
  <2>2. SameHits(p, k) /\ k.loading = Nil /\ k.pending_reload = FALSE  BY DEF Page, SameHits, SameSearch
  <2> QED BY <2>1, <2>2
<1>2. PICK r \in Request : r = request(p, cfg)  BY RequestOfPage
<1>3. /\ OneSearch(q) /\ UpToDate(q, cfg) /\ request(q, cfg) = r
      /\ q.pending_clear => q.clear_task
  <2>1. OneSearch(q) /\ UpToDate(q, cfg) /\ request(q, cfg) = request(p, cfg)
    BY <1>1, SameHitsFacts
  <2> QED BY <1>1, <1>2, <2>1 DEF SameHits
<1>4. r # Nil  BY SearchAssumption
<1>5. PICK w \in Page : /\ w = [q EXCEPT !.loading = r]
                        /\ SameHits(q, w) /\ w.loading = r /\ w.pending_reload = FALSE
  <2>1. r \in Request \cup {Nil}  OBVIOUS
  <2>2. \E w \in Page : /\ w = [q EXCEPT !.loading = r]
                        /\ SameHits(q, w) /\ w.loading = r /\ w.pending_reload = q.pending_reload
    BY <2>1, WaitingPage
  <2> QED BY <1>1, <2>2
<1>6. ASSUME NEW d, r \in DOMAIN d, d[r] = "loading" PROVE PageIsRight(w, cfg, d)
  BY <1>3, <1>4, <1>5, <1>6, SameHitsFacts DEF PageIsRight, SameHits
<1>7. PICK again_sent : again_sent = IF stale THEN resent \cup {r} ELSE resent  OBVIOUS
<1>8. CASE r \notin DOMAIN data
  <2> DEFINE more == [k \in DOMAIN data \cup {r} |-> IF k = r THEN "loading" ELSE data[k]]
  <2>1. st = Asking(w, more, resent)  BY <1>1, <1>2, <1>5, <1>8 DEF load_more, Asking
  <2>2. st.page = w /\ st.data = more  BY <2>1 DEF Asking
  <2>3. Answers(more)  BY DEF Answers
  <2>4. r \in DOMAIN more /\ more[r] = "loading"  OBVIOUS
  <2> QED BY <1>6, <2>2, <2>3, <2>4
<1>9. CASE r \in DOMAIN data /\ data[r] = "loading"
  <2>1. st = Asking(w, data, resent)
    BY <1>1, <1>2, <1>5, <1>9 DEF load_more, With, Asking
  <2>2. st.page = w /\ st.data = data  BY <2>1 DEF Asking
  <2> QED BY <1>6, <1>9, <2>2
<1>10. CASE r \in DOMAIN data /\ data[r] = "loaded"
  <2>1. PICK k : k = apply_search_data(q, r)  OBVIOUS
  <2>2. st = Asking(k, data, again_sent)
    BY <1>1, <1>2, <1>7, <1>10, <2>1 DEF load_more, Asking
  <2>3. st.page = k /\ st.data = data  BY <2>2 DEF Asking
  <2>4. k \in Page /\ OneSearch(k) /\ UpToDate(k, cfg) /\ Alike(q, k) /\ k.pending_clear = FALSE
    BY <1>3, <2>1, AppliedPage
  <2> QED BY <1>1, <2>3, <2>4 DEF PageIsRight, Alike
<1>11. CASE r \in DOMAIN data /\ data[r] = "error"
  <2>1. PICK k \in Page : /\ k = failed(q)
                          /\ SameHits(q, k) /\ k.loading = Nil /\ k.pending_reload = FALSE
    BY <1>1, FailedPage
  <2>2. st = Asking(k, data, again_sent)
    BY <1>1, <1>2, <1>7, <1>11, <2>1 DEF load_more, Asking
  <2>3. st.page = k /\ st.data = data  BY <2>2 DEF Asking
  <2> QED BY <1>3, <2>1, <2>3, SameHitsFacts DEF PageIsRight, SameHits
<1> QED BY <1>8, <1>9, <1>10, <1>11 DEF Answers

LEMMA ReloadKeeps ==
  ASSUME NEW p \in Page, NEW cfg \in SearchConfig, NEW data, Answers(data), NEW resent, NEW stale \in BOOLEAN,
         OneSearch(p), p.pending_clear => p.clear_task,
         p.loading # Nil => p.loading \in DOMAIN data /\ data[p.loading] = "loading",
         NEW st, st = reload(Asking(p, data, resent), cfg, stale)
  PROVE  Answers(st.data) /\ PageIsRight(st.page, cfg, st.data)
<1>1. CASE p.loading # Nil
  <2> DEFINE q == [p EXCEPT !.pending_reload = TRUE]
  <2>1. st = Asking(q, data, resent)  BY <1>1 DEF reload, With, Asking
  <2>2. st.page = q /\ st.data = data
    <3> HIDE DEF q
    <3> QED BY <2>1 DEF Asking
  <2>3. q \in Page  BY DEF Page
  <2>4. /\ q.loading = p.loading /\ q.pending_reload = TRUE /\ q.pending_clear = p.pending_clear
        /\ q.clear_task = p.clear_task /\ q.hits = p.hits /\ q.total_hits = p.total_hits
    BY DEF Page
  <2>5. OneSearch(q)  BY <2>4 DEF OneSearch
  <2> HIDE DEF q
  <2> QED BY <1>1, <2>2, <2>3, <2>4, <2>5 DEF PageIsRight
<1>2. CASE p.loading = Nil
  <2> DEFINE q == [p EXCEPT !.pending_clear = TRUE, !.clear_task = TRUE]
  <2>1. st = load_more(Asking(q, data, resent), cfg, stale)  BY <1>2 DEF reload, With, Asking
  <2>2. q \in Page  BY DEF Page
  <2>3. /\ q.loading = Nil /\ q.pending_clear = TRUE /\ q.clear_task = TRUE
        /\ q.hits = p.hits /\ q.total_hits = p.total_hits
    BY <1>2 DEF Page
  <2>4. OneSearch(q) /\ UpToDate(q, cfg)  BY <2>3 DEF OneSearch, UpToDate
  <2> HIDE DEF q
  <2> QED BY <2>1, <2>2, <2>3, <2>4, LoadMoreKeeps
<1> QED BY <1>1, <1>2

\* The answer is used, or thrown away for what is searched for now.
LEMMA ObservedKeeps ==
  ASSUME NEW p \in Page, NEW cfg \in SearchConfig, NEW data, Answers(data), NEW resent, NEW stale \in BOOLEAN,
         OneSearch(p), p.pending_clear => p.clear_task,
         NEW r \in DOMAIN data, p.loading = r, data[r] \in {"loaded", "error"},
         ~p.pending_reload => UpToDate(p, cfg) /\ r = request(p, cfg),
         NEW st, st = observed(Asking(p, data, resent), r, cfg, stale)
  PROVE  Answers(st.data) /\ PageIsRight(st.page, cfg, st.data)
<1>1. PICK told \in Page :
        /\ told = CASE data[r] = "error" -> failed(p)
                    [] data[r] = "loaded" /\ ~p.pending_reload -> apply_search_data(p, r)
                    [] OTHER -> p
        /\ OneSearch(told) /\ (told.pending_clear => told.clear_task)
        /\ told.pending_reload = p.pending_reload
        /\ ~p.pending_reload => UpToDate(told, cfg)
  <2>1. CASE data[r] = "error"
    <3>1. PICK k \in Page : /\ k = failed(p)
                            /\ SameHits(p, k) /\ k.loading = p.loading /\ k.pending_reload = p.pending_reload
      BY FailedPage
    <3>2. OneSearch(k) /\ (UpToDate(p, cfg) => UpToDate(k, cfg))  BY <3>1, SameHitsFacts
    <3> QED BY <2>1, <3>1, <3>2 DEF SameHits
  <2>2. CASE data[r] = "loaded" /\ ~p.pending_reload
    <3>1. PICK k : k = apply_search_data(p, r)  OBVIOUS
    <3>2. k \in Page /\ OneSearch(k) /\ UpToDate(k, cfg) /\ Alike(p, k) /\ k.pending_clear = FALSE
      BY <2>2, <3>1, AppliedPage
    <3> QED BY <2>2, <3>1, <3>2 DEF Alike
  <2>3. CASE data[r] = "loaded" /\ p.pending_reload  BY <2>3
  <2> QED BY <2>1, <2>2, <2>3
<1>2. PICK idle \in Page :
        /\ idle = [told EXCEPT !.loading = Nil]
        /\ SameHits(told, idle) /\ idle.loading = Nil /\ idle.pending_reload = told.pending_reload
  <2>1. Nil \in Request \cup {Nil}  OBVIOUS
  <2> QED BY <2>1, WaitingPage
<1>3. /\ OneSearch(idle) /\ (idle.pending_clear => idle.clear_task)
      /\ ~p.pending_reload => UpToDate(idle, cfg)
  <2>1. OneSearch(idle) /\ (UpToDate(told, cfg) => UpToDate(idle, cfg))  BY <1>1, <1>2, SameHitsFacts
  <2> QED BY <1>1, <1>2, <2>1 DEF SameHits
<1>4. st = IF p.pending_reload THEN reload(Asking(idle, data, resent), cfg, stale)
           ELSE Asking(idle, data, resent)
  BY <1>1, <1>2 DEF observed, With, Asking
<1>5. CASE p.pending_reload  BY <1>2, <1>3, <1>4, <1>5, ReloadKeeps
<1>6. CASE ~p.pending_reload
  <2>1. st.page = idle /\ st.data = data  BY <1>4, <1>6 DEF Asking
  <2> QED BY <1>1, <1>2, <1>3, <1>6, <2>1 DEF PageIsRight
<1> QED BY <1>5, <1>6

-----------------------------------------------------------------------------
(* The steps of the page. *)

LEMMA OpenKeeps ==
  ASSUME SearchInv, NEW i \in DOMAIN Instance \cup {Nil}, NEW type \in Type, NEW stale \in BOOLEAN,
         Open(i, type, stale)
  PROVE  SearchInv'
<1> DEFINE opened ==
      [install_for |-> i, filter_version |-> IF i = Nil THEN Nil ELSE Instance[i].game,
       can_install_latest |-> i # Nil /\ Instance[i].loader # Vanilla,
       installed |-> by_project(IF i = Nil THEN <<>> ELSE mods[i]),
       last_search |-> "", filter_loaders |-> {}, filter_categories |-> {},
       hits |-> <<>>, total_hits |-> 1, loading |-> Nil, pending_reload |-> FALSE,
       pending_clear |-> FALSE, clear_task |-> FALSE, search_error |-> FALSE]
<1>1. config' \in SearchConfig  BY DEF Open, SearchInv, SearchConfig
<1>2. mods' = mods  BY DEF Open
<1>3. PICK st : /\ st = load_more(Asking(opened, known, again), config', stale)
                /\ search_page' = st.page /\ known' = st.data
  BY DEF Open, Becomes
<1>4. opened \in Page
  <2>1. PICK v \in {Instance[j].game : j \in DOMAIN Instance} \cup {Nil} :
          v = IF i = Nil THEN Nil ELSE Instance[i].game
    OBVIOUS
  <2>2. PICK content \in Contents \cup {<<>>} : content = IF i = Nil THEN <<>> ELSE mods[i]
    BY DEF SearchInv
  <2>3. by_project(content) \in {by_project(c) : c \in Contents \cup {<<>>}}  OBVIOUS
  <2>4. PICK l \in BOOLEAN : l = (i # Nil /\ Instance[i].loader # Vanilla)  OBVIOUS
  <2>5. "" \in DOMAIN Matching  BY SearchAssumption
  <2>6. opened = [install_for |-> i, filter_version |-> v, can_install_latest |-> l,
                  installed |-> by_project(content), last_search |-> "", filter_loaders |-> {},
                  filter_categories |-> {}, hits |-> <<>>, total_hits |-> 1, loading |-> Nil,
                  pending_reload |-> FALSE, pending_clear |-> FALSE, clear_task |-> FALSE,
                  search_error |-> FALSE]
    BY <2>1, <2>2, <2>4
  <2>7. <<>> \in Seq(Hit)  OBVIOUS
  <2> HIDE DEF opened
  <2> QED BY <2>3, <2>5, <2>6, <2>7 DEF Page
<1>5. OneSearch(opened) /\ UpToDate(opened, config')  BY DEF OneSearch, UpToDate
<1>6. opened.loading = Nil /\ opened.pending_clear = FALSE  OBVIOUS
<1>7. Answers(known)  BY DEF SearchInv
<1> HIDE DEF opened
<1>8. Answers(st.data) /\ PageIsRight(st.page, config', st.data)
  BY <1>1, <1>3, <1>4, <1>5, <1>6, <1>7, LoadMoreKeeps
<1> QED BY <1>1, <1>2, <1>3, <1>8 DEF SearchInv

\* Something else is searched for: the page is loaded anew.
LEMMA ChangedKeeps ==
  ASSUME SearchInv, search_page # Nil, NEW p \in Page, NEW cfg \in SearchConfig, NEW stale \in BOOLEAN,
         p.hits = search_page.hits, p.total_hits = search_page.total_hits,
         p.loading = search_page.loading, p.pending_clear = search_page.pending_clear,
         p.clear_task = search_page.clear_task, Changed(p, cfg, stale)
  PROVE  SearchInv'
<1>1. PageIsRight(search_page, config, known) /\ Answers(known)  BY DEF SearchInv
<1>2. PICK st : /\ st = reload(Asking(p, known, again), cfg, stale)
                /\ search_page' = st.page /\ known' = st.data
  BY DEF Changed, Becomes, With, Now, Asking
<1>3. OneSearch(p)  BY <1>1 DEF PageIsRight, OneSearch
<1>4. /\ p.pending_clear => p.clear_task
      /\ p.loading # Nil => p.loading \in DOMAIN known /\ known[p.loading] = "loading"
  BY <1>1 DEF PageIsRight
<1>5. Answers(st.data) /\ PageIsRight(st.page, cfg, st.data)
  BY <1>1, <1>2, <1>3, <1>4, ReloadKeeps
<1>6. config' = cfg /\ mods' = mods  BY DEF Changed
<1> QED BY <1>2, <1>5, <1>6 DEF SearchInv

LEMMA FiltersKeep ==
  ASSUME SearchInv, search_page # Nil, NEW stale \in BOOLEAN,
         \/ \E text \in DOMAIN Matching : on_search_input_event(text, stale)
         \/ \E type \in Type : set_project_type(type, stale)
         \/ \E loaders \in SUBSET Loader : set_filter_loaders(loaders, stale)
         \/ \E categories \in SUBSET Category : set_filter_categories(categories, stale)
         \/ toggle_filter_version(stale)
  PROVE  SearchInv'
<1>1. search_page \in Page /\ config \in SearchConfig  BY DEF SearchInv, PageIsRight
<1>2. ASSUME NEW text \in DOMAIN Matching, on_search_input_event(text, stale) PROVE SearchInv'
  <2> DEFINE p == [search_page EXCEPT !.last_search = text]
  <2>1. p \in Page  BY <1>1 DEF Page
  <2>2. /\ p.hits = search_page.hits /\ p.total_hits = search_page.total_hits
        /\ p.loading = search_page.loading /\ p.pending_clear = search_page.pending_clear
        /\ p.clear_task = search_page.clear_task
    BY <1>1 DEF Page
  <2>3. Changed(p, config, stale)  BY <1>2 DEF on_search_input_event
  <2> HIDE DEF p
  <2> QED BY <1>1, <2>1, <2>2, <2>3, ChangedKeeps
<1>3. ASSUME NEW type \in Type, set_project_type(type, stale) PROVE SearchInv'
  <2> DEFINE p == [search_page EXCEPT !.filter_categories = {}]
             cfg == [config EXCEPT !.project_type = type]
  <2>1. p \in Page /\ cfg \in SearchConfig  BY <1>1 DEF Page, SearchConfig
  <2>2. /\ p.hits = search_page.hits /\ p.total_hits = search_page.total_hits
        /\ p.loading = search_page.loading /\ p.pending_clear = search_page.pending_clear
        /\ p.clear_task = search_page.clear_task
    BY <1>1 DEF Page
  <2>3. Changed(p, cfg, stale)  BY <1>3 DEF set_project_type
  <2> HIDE DEF p, cfg
  <2> QED BY <2>1, <2>2, <2>3, ChangedKeeps
<1>4. ASSUME NEW loaders \in SUBSET Loader, set_filter_loaders(loaders, stale) PROVE SearchInv'
  <2> DEFINE p == [search_page EXCEPT !.filter_loaders = loaders]
  <2>1. p \in Page  BY <1>1 DEF Page
  <2>2. /\ p.hits = search_page.hits /\ p.total_hits = search_page.total_hits
        /\ p.loading = search_page.loading /\ p.pending_clear = search_page.pending_clear
        /\ p.clear_task = search_page.clear_task
    BY <1>1 DEF Page
  <2>3. Changed(p, config, stale)  BY <1>4 DEF set_filter_loaders
  <2> HIDE DEF p
  <2> QED BY <1>1, <2>1, <2>2, <2>3, ChangedKeeps
<1>5. ASSUME NEW categories \in SUBSET Category, set_filter_categories(categories, stale)
      PROVE  SearchInv'
  <2> DEFINE p == [search_page EXCEPT !.filter_categories = categories]
  <2>1. p \in Page  BY <1>1 DEF Page
  <2>2. /\ p.hits = search_page.hits /\ p.total_hits = search_page.total_hits
        /\ p.loading = search_page.loading /\ p.pending_clear = search_page.pending_clear
        /\ p.clear_task = search_page.clear_task
    BY <1>1 DEF Page
  <2>3. Changed(p, config, stale)  BY <1>5 DEF set_filter_categories
  <2> HIDE DEF p
  <2> QED BY <1>1, <2>1, <2>2, <2>3, ChangedKeeps
<1>6. ASSUME toggle_filter_version(stale) PROVE SearchInv'
  <2> DEFINE cfg == [config EXCEPT !.filter_version = ~@]
  <2>1. cfg \in SearchConfig  BY <1>1 DEF SearchConfig
  <2>2. Changed(search_page, cfg, stale)  BY <1>6 DEF toggle_filter_version
  <2> HIDE DEF cfg
  <2> QED BY <1>1, <2>1, <2>2, ChangedKeeps
<1> QED BY <1>2, <1>3, <1>4, <1>5, <1>6

LEMMA DelayedClearKeeps == ASSUME SearchInv, DelayedClear PROVE SearchInv'
<1>1. /\ search_page # Nil /\ search_page.clear_task
      /\ UNCHANGED <<config, known, again, mods>>
      /\ PageIsRight(search_page, config, known) /\ search_page \in Page /\ config \in SearchConfig
  BY DEF DelayedClear, SearchInv, PageIsRight
<1>2. PICK k \in Page :
        /\ k = IF search_page.pending_clear THEN clear(search_page) ELSE search_page
        /\ OneSearch(k) /\ k.pending_clear = FALSE /\ Alike(search_page, k)
        /\ ~search_page.pending_reload =>
             UpToDate(k, config) /\ request(k, config) = request(search_page, config)
  <2>1. CASE search_page.pending_clear
    <3>1. PICK k \in Page : k = clear(search_page)  BY <1>1, ClearedPage
    <3>2. /\ Alike(search_page, k) /\ k.pending_clear = FALSE /\ k.hits = <<>> /\ k.total_hits = 1
      BY <1>1, <3>1, ClearedPage
    <3>3. OneSearch(k) /\ UpToDate(k, config)  BY <3>2 DEF OneSearch, UpToDate
    <3>4. query(k, config) = query(search_page, config)  BY <1>1, <3>2, SearchOfPage DEF Alike
    <3>5. request(k, config) = request(search_page, config)
      <4>1. Len(<<>>) = 0  OBVIOUS
      <4> QED BY <2>1, <3>2, <3>4, <4>1 DEF request
    <3> QED BY <2>1, <3>1, <3>2, <3>3, <3>5
  <2>2. CASE ~search_page.pending_clear
    <3>1. search_page.pending_clear = FALSE  BY <1>1, <2>2 DEF Page
    <3> QED BY <1>1, <3>1 DEF PageIsRight, Alike, SameSearch
  <2> QED BY <2>1, <2>2
<1>3. PICK q \in Page : /\ q = [k EXCEPT !.clear_task = FALSE]
                        /\ Alike(k, q) /\ q.pending_clear = FALSE
                        /\ q.hits = k.hits /\ q.total_hits = k.total_hits
  <2> DEFINE e == [k EXCEPT !.clear_task = FALSE]
  <2>1. e \in Page  BY DEF Page
  <2>2. e.pending_clear = FALSE /\ e.hits = k.hits /\ e.total_hits = k.total_hits  BY <1>2 DEF Page
  <2>3. Alike(k, e)  BY DEF Page, Alike, SameSearch
  <2> QED BY <2>1, <2>2, <2>3
<1>4. search_page' = q  BY <1>2, <1>3 DEF DelayedClear
<1>5. q.last_search = k.last_search /\ query(q, config) = query(k, config)
  BY <1>1, <1>3, SearchOfPage DEF Alike, SameSearch
<1>6. OneSearch(q)  BY <1>2, <1>3 DEF OneSearch
<1>7. ~search_page.pending_reload =>
        UpToDate(q, config) /\ request(q, config) = request(search_page, config)
  <2>1. UpToDate(k, config) => UpToDate(q, config)  BY <1>2, <1>3, <1>5 DEF UpToDate
  <2>2. request(q, config) = request(k, config)  BY <1>2, <1>3, <1>5 DEF request
  <2> QED BY <1>2, <2>1, <2>2
<1>8. q.loading = search_page.loading /\ q.pending_reload = search_page.pending_reload
  BY <1>2, <1>3 DEF Alike
<1>9. PageIsRight(q, config, known)  BY <1>1, <1>3, <1>6, <1>7, <1>8 DEF PageIsRight
<1> QED BY <1>1, <1>4, <1>9 DEF SearchInv

LEMMA RenderKeeps == ASSUME SearchInv, NEW stale \in BOOLEAN, render_items(stale) PROVE SearchInv'
<1>1. /\ search_page # Nil /\ UNCHANGED <<config, mods>> /\ Answers(known)
      /\ PageIsRight(search_page, config, known) /\ search_page \in Page /\ config \in SearchConfig
  BY DEF render_items, SearchInv, PageIsRight
<1>2. PICK st : /\ st = load_more(Asking(search_page, known, again), config, stale)
                /\ search_page' = st.page /\ known' = st.data
  BY DEF render_items, Becomes, Now
<1>3. Answers(st.data) /\ PageIsRight(st.page, config, st.data)
  <2>1. CASE search_page.loading # Nil
    <3>1. st.page = search_page /\ st.data = known  BY <1>2, <2>1 DEF load_more, Asking
    <3> QED BY <1>1, <3>1
  <2>2. CASE search_page.loading = Nil
    <3>1. /\ OneSearch(search_page) /\ UpToDate(search_page, config)
          /\ search_page.pending_clear => search_page.clear_task
      BY <1>1, <2>2 DEF PageIsRight
    <3> QED BY <1>1, <1>2, <2>2, <3>1, LoadMoreKeeps
  <2> QED BY <2>1, <2>2
<1> QED BY <1>1, <1>2, <1>3 DEF SearchInv

LEMMA ResultArrivesKeeps ==
  ASSUME SearchInv, NEW r \in DOMAIN known, NEW outcome \in {"loaded", "error"}, NEW stale \in BOOLEAN,
         ResultArrives(r, outcome, stale)
  PROVE  SearchInv'
<1> DEFINE data == [known EXCEPT ![r] = outcome]
<1>1. UNCHANGED <<config, mods>> /\ config \in SearchConfig /\ Answers(known)
  BY DEF ResultArrives, SearchInv
<1>2. /\ Answers(data) /\ DOMAIN data = DOMAIN known /\ data[r] = outcome
      /\ \A k \in DOMAIN known : k # r => data[k] = known[k]
  BY <1>1 DEF Answers
<1>3. PICK resent : resent = again \ {r}  OBVIOUS
<1>4. PICK st :
        /\ st = IF search_page # Nil /\ search_page.loading = r
                THEN observed(Asking(search_page, data, resent), r, config, stale)
                ELSE Asking(search_page, data, resent)
        /\ search_page' = st.page /\ known' = st.data
  BY <1>3 DEF ResultArrives, Becomes
<1> HIDE DEF data
<1>5. CASE search_page # Nil /\ search_page.loading = r
  <2>1. r # Nil  BY <1>1, SearchAssumption DEF Answers
  <2>2. PageIsRight(search_page, config, known)  BY <1>5 DEF SearchInv
  <2>3. st = observed(Asking(search_page, data, resent), r, config, stale)  BY <1>4, <1>5
  <2>4. /\ search_page \in Page /\ OneSearch(search_page)
        /\ search_page.pending_clear => search_page.clear_task
        /\ ~search_page.pending_reload =>
             UpToDate(search_page, config) /\ r = request(search_page, config)
    BY <1>5, <2>1, <2>2 DEF PageIsRight
  <2>5. r \in DOMAIN data /\ data[r] \in {"loaded", "error"}  BY <1>2
  <2>6. Answers(st.data) /\ PageIsRight(st.page, config, st.data)
    BY <1>1, <1>2, <1>5, <2>3, <2>4, <2>5, ObservedKeeps
  <2> QED BY <1>1, <1>4, <2>6 DEF SearchInv
<1>6. CASE ~(search_page # Nil /\ search_page.loading = r)
  <2>1. search_page' = search_page /\ known' = data  BY <1>4, <1>6 DEF Asking
  <2>2. ASSUME search_page # Nil PROVE PageIsRight(search_page, config, data)
    BY <1>2, <1>6, <2>2 DEF SearchInv, PageIsRight
  <2> QED BY <1>1, <1>2, <2>1, <2>2 DEF SearchInv
<1> QED BY <1>5, <1>6

LEMMA ContentArrivesKeeps ==
  ASSUME SearchInv, NEW i \in DOMAIN Instance, NEW content \in Contents, ContentArrives(i, content)
  PROVE  SearchInv'
<1>1. /\ UNCHANGED <<config, known>> /\ config \in SearchConfig
      /\ mods' \in [DOMAIN Instance -> Contents]
  BY DEF ContentArrives, SearchInv
<1>2. ASSUME search_page # Nil PROVE PageIsRight([search_page EXCEPT !.installed = by_project(content)], config, known)
  <2> DEFINE q == [search_page EXCEPT !.installed = by_project(content)]
  <2>1. PageIsRight(search_page, config, known) /\ search_page \in Page  BY <1>2 DEF SearchInv, PageIsRight
  <2>2. by_project(content) \in {by_project(c) : c \in Contents \cup {<<>>}}  OBVIOUS
  <2>3. q \in Page  BY <2>1, <2>2 DEF Page
  <2>4. SameHits(search_page, q) /\ q.loading = search_page.loading /\ q.pending_reload = search_page.pending_reload
    BY <2>1 DEF Page, SameHits, SameSearch
  <2> HIDE DEF q
  <2>5. /\ OneSearch(search_page) => OneSearch(q)
        /\ UpToDate(search_page, config) => UpToDate(q, config)
        /\ request(q, config) = request(search_page, config)
    BY <1>1, <2>1, <2>3, <2>4, SameHitsFacts
  <2>6. PageIsRight(q, config, known)  BY <2>1, <2>3, <2>4, <2>5 DEF PageIsRight, SameHits
  <2> QED BY <2>6 DEF q
<1>3. search_page' = search_page \/ (search_page # Nil /\ search_page' = [search_page EXCEPT !.installed = by_project(content)])
  BY DEF ContentArrives
<1> QED BY <1>1, <1>2, <1>3 DEF SearchInv

\* Whether to install without asking is no matter of the search.
LEMMA ToggleKeeps == ASSUME SearchInv, toggle_install_latest PROVE SearchInv'
<1> DEFINE cfg == [config EXCEPT !.install_latest = ~@]
<1>1. /\ UNCHANGED <<search_page, known, mods>> /\ config' = cfg /\ config \in SearchConfig
  BY DEF toggle_install_latest, SearchInv
<1>2. /\ cfg \in SearchConfig /\ cfg.project_type = config.project_type
      /\ cfg.filter_version = config.filter_version
  BY <1>1 DEF SearchConfig
<1> HIDE DEF cfg
<1>3. \A p : query(p, cfg) = query(p, config)  BY <1>2 DEF query
<1>4. \A p : request(p, cfg) = request(p, config)  BY <1>3 DEF request
<1>5. \A p : UpToDate(p, config) => UpToDate(p, cfg)  BY <1>3 DEF UpToDate
<1>6. search_page # Nil => PageIsRight(search_page, cfg, known)
  BY <1>4, <1>5 DEF SearchInv, PageIsRight
<1> QED BY <1>1, <1>2, <1>6 DEF SearchInv

LEMMA SearchInvStep == SearchInv /\ [SearchNext]_search_vars => SearchInv'
<1> SUFFICES ASSUME SearchInv, [SearchNext]_search_vars PROVE SearchInv'  OBVIOUS
<1>1. ASSUME NEW stale \in BOOLEAN, UserNext(stale) PROVE SearchInv'
  BY <1>1, OpenKeeps, FiltersKeep, RenderKeeps DEF UserNext
<1>2. ASSUME NEW project \in Project, Click(project) PROVE SearchInv'
  BY <1>2 DEF Click, SearchInv
<1>3. CASE UNCHANGED search_vars  BY <1>3 DEF search_vars, SearchInv
<1> QED BY <1>1, <1>2, <1>3, ToggleKeeps, DelayedClearKeeps, ResultArrivesKeeps, ContentArrivesKeeps
       DEF SearchNext

LEMMA SearchInvInitially == SearchInit => SearchInv
<1> SUFFICES ASSUME SearchInit PROVE SearchInv  OBVIOUS
<1>1. Answers(<<>>)  BY DEF Answers
<1> QED BY <1>1 DEF SearchInit, SearchInv, SearchConfig

LEMMA SearchInvIsEnough == SearchInv => HitsAreRight
<1> SUFFICES ASSUME SearchInv, search_page # Nil PROVE HitsAreRight
  BY DEF HitsAreRight, SearchType, HitsAreOfOneSearch, HitsAreCurrent, AllCanBeReached
<1>1. PICK p \in Page : p = search_page  BY DEF SearchInv, PageIsRight
<1>2. PageIsRight(p, config, known) /\ config \in SearchConfig  BY <1>1 DEF SearchInv
<1>3. SearchType
  <2>1. p.last_search \in DOMAIN Matching /\ p.total_hits \in Nat  BY DEF Page
  <2> QED BY <1>1, <1>2, <2>1 DEF SearchType, PageIsRight
<1>4. HitsAreOfOneSearch  BY <1>1, <1>2 DEF HitsAreOfOneSearch, PageIsRight, OneSearch
<1>5. HitsAreCurrent
  <2>1. p.loading # Nil /\ ~p.pending_reload => p.loading.query = query(p, config)
    BY <1>2, RequestOfPage DEF PageIsRight
  <2>2. p.hits # <<>> /\ p.hits[1].of # query(p, config) =>
          p.pending_reload \/ (p.pending_clear /\ p.clear_task)
    BY <1>2 DEF PageIsRight, UpToDate
  <2> QED BY <1>1, <2>1, <2>2 DEF HitsAreCurrent
<1>6. AllCanBeReached
  <2> SUFFICES ASSUME Len(p.hits) < Matching[p.last_search], ~p.pending_reload, ~p.pending_clear
               PROVE  p.total_hits > Len(p.hits)
    <3>1. Len(p.hits) \in Nat  BY DEF Page
    <3>2. p.total_hits > Len(p.hits) => item_count(p) = Len(p.hits) + 1  BY DEF item_count
    <3>3. p.total_hits > Len(p.hits) => item_count(p) > Len(p.hits)  BY <3>1, <3>2
    <3>4. \/ ~(Len(p.hits) < Matching[p.last_search]) \/ item_count(p) > Len(p.hits)
          \/ p.pending_reload \/ p.pending_clear
      BY <3>3
    <3> QED BY <1>1, <3>4 DEF AllCanBeReached
  <2>1. UpToDate(p, config) /\ OneSearch(p)  BY <1>2 DEF PageIsRight
  <2>2. Len(p.hits) \in Nat /\ (p.hits = <<>> => Len(p.hits) = 0)  BY DEF Page
  <2>3. Matching[p.last_search] \in Nat /\ p.total_hits \in Nat  BY SearchAssumption DEF Page
  <2>4. CASE p.hits = <<>>
    <3>1. Len(p.hits) = 0 /\ p.total_hits \in {1, Matching[p.last_search]}
      BY <2>1, <2>2, <2>4 DEF UpToDate
    <3> QED BY <2>3, <3>1
  <2>5. CASE p.hits # <<>>
    <3>1. p.hits[1].of = query(p, config) /\ query(p, config).text = p.last_search
      BY <1>2, <2>1, <2>5, SearchOfPage DEF UpToDate
    <3> QED BY <2>1, <2>5, <3>1 DEF OneSearch
  <2> QED BY <2>4, <2>5
<1> QED BY <1>3, <1>4, <1>5, <1>6 DEF HitsAreRight

\* Whatever is typed, chosen and opened while portions are on their way, and however
\* many of them fail, are too old or come when the hits before are still shown: the hits
\* are the first ones of one search, of the one the page shows unless they are about to go,
\* and as long as some are missing they can be asked for.
THEOREM HitsStayRight == SearchSpec => []HitsAreRight
<1>1. SearchInit => SearchInv  BY SearchInvInitially
<1>2. SearchInv /\ [SearchNext]_search_vars => SearchInv'  BY SearchInvStep
<1>3. SearchInv => HitsAreRight  BY SearchInvIsEnough
<1> QED BY <1>1, <1>2, <1>3, PTL DEF SearchSpec

-----------------------------------------------------------------------------
(* The log files and the page that shows one. *)

Got(r) == field[r] \o channel[r] \o reader[r].queue

\* Each follows on the one before it.
Linked(got) == \A k \in 1 .. Len(got) - 1 : got[k + 1].from = After(got[k])
FromStart(got) == got # <<>> => got[1].from = 0 /\ Linked(got)

Line == [from : Nat, upto : Nat, ended : BOOLEAN]
Readers == [path : Path \cup {Missing}, at : {"off", "asked", "reading", "sending", "ended"},
            first : BOOLEAN, line : Nat, pos : Nat, queue : Seq(Line)]
Asked == [kind : {"list", "cleanup"}] \cup [kind : {"read"}, reader : Reader]

LogTypes ==
  /\ log \in [Path -> [there : BOOLEAN, ends : SUBSET (0 .. MaxLength - 1), length : 0 .. MaxLength]]
  /\ reader \in [Reader -> Readers]
  /\ channel \in [Reader -> Seq(Line)] /\ field \in [Reader -> Seq(Line)]
  /\ to_backend \in Seq(Asked)
  /\ logs_page \in [listing : BOOLEAN, available : (SUBSET Path) \cup {Missing},
                    selected : Path \cup {Missing}, reader : Reader \cup {Missing}]
  /\ \A r \in Reader : Len(channel[r]) <= ChannelSize

\* The reader that is shown is that of the selected log.
ShownIsSelected == logs_page.reader # Missing => reader[logs_page.reader].path = logs_page.selected

\* A log is asked for once for each reader.
AskedOnce ==
  \A i \in DOMAIN to_backend : to_backend[i].kind = "read" =>
    /\ reader[to_backend[i].reader].at = "asked"
    /\ \A j \in DOMAIN to_backend :
         to_backend[j].kind = "read" /\ to_backend[j].reader = to_backend[i].reader => j = i

\* What a reader reads next begins where what it has sent, or has to send, is at an end.
ReaderGoesOn(r) ==
  LET now == reader[r] IN
  /\ now.at \in {"off", "asked"} => field[r] = <<>> /\ channel[r] = <<>>
  /\ now.at \in {"off", "asked", "reading"} => now.queue = <<>>
  /\ now.at = "sending" => now.queue # <<>>
  /\ now.at \in {"asked", "reading", "sending"} =>
       /\ now.path \in Path
       /\ IF Got(r) = <<>> THEN now.line = 0
          ELSE ~now.first /\ After(Last(Got(r))) = now.line /\ now.pos = now.line
  /\ Shows(r) \/ now.at # "ended" => FromStart(Got(r))

LogsInv ==
  /\ LogTypes /\ ShownIsSelected /\ AskedOnce
  /\ \A r \in Reader : ReaderGoesOn(r)

-----------------------------------------------------------------------------
\* Finitely many numbers can be put in order.
LEMMA NumbersAscend ==
  ASSUME NEW S \in SUBSET Nat, IsFiniteSet(S)
  PROVE  /\ Cardinality(S) \in Nat
         /\ Ascending(S) \in [1 .. Cardinality(S) -> S]
         /\ \A j, k \in 1 .. Cardinality(S) : j < k => Ascending(S)[j] < Ascending(S)[k]
         /\ \A e \in S : \E k \in 1 .. Cardinality(S) : Ascending(S)[k] = e
<1> DEFINE n == Cardinality(S)
           upto(e) == {d \in S : d <= e}
           rank == [e \in S |-> Cardinality(upto(e))]
<1>1. n \in Nat  BY FS_CardinalityType
<1>2. ASSUME NEW e \in S PROVE IsFiniteSet(upto(e)) /\ rank[e] \in 1 .. n
  <2>1. upto(e) \in SUBSET S  OBVIOUS
  <2>2. IsFiniteSet(upto(e)) /\ Cardinality(upto(e)) <= n  BY <2>1, FS_Subset
  <2>3. e \in upto(e)  OBVIOUS
  <2>4. Cardinality(upto(e)) \in Nat  BY <2>2, FS_CardinalityType
  <2>5. Cardinality(upto(e)) # 0  BY <2>2, <2>3, FS_EmptySet
  <2> QED BY <2>2, <2>4, <2>5, <1>1
<1>3. ASSUME NEW d \in S, NEW e \in S, d < e PROVE rank[d] < rank[e]
  <2>1. upto(d) \in SUBSET upto(e)
    <3> SUFFICES ASSUME NEW c \in S, c <= d PROVE c <= e  OBVIOUS
    <3> QED BY ONLY c \in S, d \in S, e \in S, S \in SUBSET Nat, c <= d, <1>3
  <2>2. e \in upto(e) /\ e \notin upto(d)  BY <1>3
  <2>3. Cardinality(upto(d)) <= Cardinality(upto(e)) /\ Cardinality(upto(d)) # Cardinality(upto(e))
    BY <1>2, <2>1, <2>2, FS_Subset
  <2>4. rank[d] = Cardinality(upto(d)) /\ rank[e] = Cardinality(upto(e))  OBVIOUS
  <2> HIDE DEF rank, upto, n
  <2>5. rank[d] \in 1 .. n /\ rank[e] \in 1 .. n  BY <1>2
  <2> QED BY <2>3, <2>4, <2>5, <1>1
<1> HIDE DEF rank
<1>4. rank \in Injection(S, 1 .. n)
  <2>1. rank \in [S -> 1 .. n]  BY <1>2 DEF rank
  <2>2. \A d, e \in S : rank[d] = rank[e] => d = e
    <3> SUFFICES ASSUME NEW d \in S, NEW e \in S, rank[d] = rank[e], d # e PROVE FALSE
      OBVIOUS
    <3>1. rank[d] \in Nat  BY <2>1
    <3> QED BY <3>1, <1>3
  <2> QED BY <2>1, <2>2 DEF Injection, IsInjective
<1>5. rank \in Surjection(S, 1 .. n)
  <2>1. IsFiniteSet(1 .. n) /\ Cardinality(1 .. n) = n  BY <1>1, FS_Interval
  <2> QED BY <1>4, <2>1, FS_Injection
<1>6. \A k \in 1 .. n : \E e \in S : rank[e] = k  BY <1>5 DEF Surjection
<1> DEFINE s == [k \in 1 .. n |-> CHOOSE e \in S : rank[e] = k]
<1>7. \A k \in 1 .. n : s[k] \in S /\ rank[s[k]] = k  BY <1>6
<1>8. s \in [1 .. n -> S] /\ \A j, k \in DOMAIN s : j < k => s[j] < s[k]
  <2>1. s \in [1 .. n -> S]  BY <1>7
  <2>2. ASSUME NEW j \in 1 .. n, NEW k \in 1 .. n, j < k PROVE s[j] < s[k]
    <3>1. s[j] \in S /\ s[k] \in S /\ rank[s[j]] = j /\ rank[s[k]] = k  BY <1>7
    <3>2. s[k] < s[j] => k < j  BY <3>1, <1>3
    <3>3. s[k] = s[j] => k = j  BY <3>1
    <3> HIDE DEF s, n
    <3>4. s[j] \in Nat /\ s[k] \in Nat  BY <3>1
    <3> QED BY <3>2, <3>3, <3>4, <2>2, <1>1
  <2> QED BY <2>1, <2>2
<1> DEFINE o == Ascending(S)
<1>9. o \in [1 .. n -> S] /\ \A j, k \in DOMAIN o : j < k => o[j] < o[k]
  <2> HIDE DEF s
  <2> QED BY <1>8 DEF Ascending
<1> HIDE DEF s, o
<1>10. o \in Injection(1 .. n, S)
  <2> SUFFICES ASSUME NEW j \in 1 .. n, NEW k \in 1 .. n, o[j] = o[k], j # k PROVE FALSE
    BY <1>9 DEF Injection, IsInjective
  <2>1. o[j] \in Nat  BY <1>9
  <2> HIDE DEF n
  <2> QED BY <2>1, <1>9, <1>1
<1>11. o \in Surjection(1 .. n, S)
  <2>1. IsFiniteSet(1 .. n) /\ Cardinality(1 .. n) = n  BY <1>1, FS_Interval
  <2> QED BY <1>10, <2>1, FS_Injection
<1>12. \A e \in S : \E k \in 1 .. n : o[k] = e  BY <1>11 DEF Surjection
<1> QED BY <1>1, <1>9, <1>12 DEF o

\* The least of some numbers.
LEMMA LeastOfEnds ==
  ASSUME NEW S \in SUBSET Nat, IsFiniteSet(S), S # {}
  PROVE  Min(S) \in S /\ \A e \in S : Min(S) <= e
<1> DEFINE n == Cardinality(S)
           o == Ascending(S)
<1>1. /\ n \in Nat /\ o \in [1 .. n -> S]
      /\ \A j, k \in 1 .. n : j < k => o[j] < o[k]
      /\ \A e \in S : \E k \in 1 .. n : o[k] = e
  BY NumbersAscend
<1> HIDE DEF o, n
<1>2. 1 \in 1 .. n
  <2>1. PICK e \in S : TRUE  OBVIOUS
  <2>2. PICK k \in 1 .. n : o[k] = e  BY <1>1
  <2> QED BY <1>1
<1>3. o[1] \in S  BY <1>1, <1>2
<1>4. ASSUME NEW e \in S PROVE o[1] <= e
  <2>1. PICK k \in 1 .. n : o[k] = e  BY <1>1
  <2>2. k = 1 \/ 1 < k  BY <1>1
  <2>3. o[1] \in Nat /\ e \in Nat  BY <1>3
  <2>4. 1 < k => o[1] < o[k]  BY <1>1, <1>2
  <2> QED BY <2>1, <2>2, <2>3, <2>4
<1> QED BY <1>3, <1>4 DEF Min

\* The lines of a piece of a log are the whole of it.
LEMMA SplitIsWhole ==
  ASSUME NEW ends \in SUBSET Nat, NEW from \in Nat, NEW upto \in Nat
  PROVE  LET lines == Split(ends, from, upto)
         IN  /\ lines \in Seq(Line) /\ lines # <<>> /\ Linked(lines)
             /\ lines[1].from = from /\ After(lines[Len(lines)]) = upto
<1> DEFINE S == {e \in ends : from <= e /\ e < upto} \cup {upto}
           n == Cardinality(S)
           o == Ascending(S)
           piece(k) == Piece(IF k = 1 THEN from ELSE o[k - 1] + 1, o[k], k < n)
           lines == [k \in 1 .. n |-> piece(k)]
<1>1. S \in SUBSET Nat /\ IsFiniteSet(S)
  <2>1. S \in SUBSET Nat  OBVIOUS
  <2>2. \A e \in S : e <= upto  OBVIOUS
  <2> QED BY <2>1, <2>2, FS_BoundedSetOfNaturals
<1>2. upto \in S /\ \A e \in S : e <= upto
  <2>1. \A e \in S : e <= upto  OBVIOUS
  <2> QED BY <2>1
<1>3. /\ n \in Nat /\ o \in [1 .. n -> S]
      /\ \A j, k \in 1 .. n : j < k => o[j] < o[k]
      /\ \A e \in S : \E k \in 1 .. n : o[k] = e
  BY <1>1, NumbersAscend
<1>4. Split(ends, from, upto) = lines
  <2>1. DOMAIN o = 1 .. n  BY <1>3
  <2>2. Len(o) = n  BY <1>3, <2>1
  <2> QED BY <2>1, <2>2 DEF Split
<1> HIDE DEF S, o, n
<1>5. n >= 1 /\ o[n] = upto
  <2>1. PICK k \in 1 .. n : o[k] = upto  BY <1>2, <1>3
  <2>2. n \in 1 .. n  BY <1>3
  <2>3. o[n] \in S  BY <1>3, <2>2
  <2>4. k < n => o[k] < o[n]  BY <1>3, <2>2
  <2>5. o[n] \in Nat /\ o[n] <= upto  BY <1>1, <1>2, <2>3
  <2> QED BY <1>3, <2>1, <2>4, <2>5
<1>6. ASSUME NEW k \in 1 .. n PROVE piece(k) \in Line /\ piece(k).upto = o[k]
  <2>1. o[k] \in Nat  BY <1>1, <1>3
  <2>2. k # 1 => o[k - 1] + 1 \in Nat
    <3> HAVE k # 1
    <3>1. k - 1 \in 1 .. n  BY <1>3
    <3>2. o[k - 1] \in Nat  BY <1>1, <1>3, <3>1
    <3> QED BY <3>2
  <2> QED BY <2>1, <2>2 DEF Piece, Line
<1>7. lines \in Seq(Line) /\ Len(lines) = n
  <2> HIDE DEF piece
  <2> QED BY <1>3, <1>6
<1>8. Linked(lines)
  <2> SUFFICES ASSUME NEW k \in 1 .. n - 1 PROVE lines[k + 1].from = After(lines[k])
    BY <1>7 DEF Linked
  <2>1. k \in 1 .. n /\ k + 1 \in 1 .. n /\ k + 1 # 1 /\ k < n /\ k + 1 - 1 = k  BY <1>3
  <2>2. lines[k + 1] = piece(k + 1) /\ lines[k] = piece(k)  BY <2>1
  <2>3. piece(k + 1).from = o[k] + 1  BY <2>1 DEF Piece
  <2>4. piece(k).upto = o[k] /\ piece(k).ended  BY <2>1 DEF Piece
  <2> QED BY <2>2, <2>3, <2>4 DEF After
<1>9. lines[1].from = from  BY <1>3, <1>5 DEF Piece
<1>10. After(lines[Len(lines)]) = upto
  <2>1. lines[n] = piece(n)  BY <1>3, <1>5
  <2>2. piece(n).upto = upto  BY <1>5 DEF Piece
  <2>3. ~piece(n).ended
    <3>1. piece(n).ended => n < n  BY DEF Piece
    <3> QED BY <1>3, <3>1
  <2>4. After(piece(n)) = upto
    <3> HIDE DEF piece
    <3> QED BY <2>2, <2>3 DEF After
  <2> HIDE DEF piece, lines
  <2> QED BY <1>7, <2>1, <2>4
<1>11. lines # <<>>
  <2> HIDE DEF lines
  <2> QED BY <1>5, <1>7
<1> HIDE DEF lines
<1> QED BY <1>4, <1>7, <1>8, <1>9, <1>10, <1>11

\* What follows on a whole is a whole.
LEMMA FollowsOn ==
  ASSUME NEW a \in Seq(Line), FromStart(a), NEW b \in Seq(Line), b # <<>>, Linked(b),
         b[1].from = (IF a = <<>> THEN 0 ELSE After(Last(a)))
  PROVE  a \o b \in Seq(Line) /\ a \o b # <<>> /\ FromStart(a \o b) /\ Last(a \o b) = Last(b)
<1> DEFINE c == a \o b
<1>1. /\ c \in Seq(Line) /\ Len(c) = Len(a) + Len(b) /\ Len(a) \in Nat /\ Len(b) \in Nat \ {0}
      /\ \A k \in 1 .. Len(c) : c[k] = IF k <= Len(a) THEN a[k] ELSE b[k - Len(a)]
  BY EmptySeq, LenProperties, ConcatProperties
<1> HIDE DEF c
<1>2. c # <<>>  BY <1>1
<1>3. Last(c) = Last(b)
  <2>1. Len(c) \in 1 .. Len(c) /\ ~(Len(c) <= Len(a)) /\ Len(c) - Len(a) = Len(b)  BY <1>1
  <2> QED BY <1>1, <2>1 DEF Last
<1>4. c[1].from = 0
  <2>1. 1 \in 1 .. Len(c)  BY <1>1
  <2>2. CASE a = <<>>
    <3>1. c[1] = b[1]  BY <1>1, <2>1, <2>2
    <3> QED BY <2>2, <3>1
  <2>3. CASE a # <<>>
    <3>1. 1 <= Len(a)  BY <1>1, <2>3, EmptySeq
    <3>2. c[1] = a[1]  BY <1>1, <2>1, <3>1
    <3> QED BY <2>3, <3>2 DEF FromStart
  <2> QED BY <2>2, <2>3
<1>5. Linked(c)
  <2> SUFFICES ASSUME NEW k \in 1 .. Len(c) - 1 PROVE c[k + 1].from = After(c[k])
    BY DEF Linked
  <2>1. k \in 1 .. Len(c) /\ k + 1 \in 1 .. Len(c) /\ k \in Nat  BY <1>1
  <2>2. CASE k < Len(a)
    <3>1. c[k] = a[k] /\ c[k + 1] = a[k + 1]  BY <1>1, <2>1, <2>2
    <3>2. k \in 1 .. Len(a) - 1 /\ a # <<>>  BY <1>1, <2>1, <2>2
    <3> QED BY <3>1, <3>2 DEF FromStart, Linked
  <2>3. CASE k = Len(a)
    <3>1. c[k] = a[k] /\ c[k + 1] = b[1]
      <4>1. k <= Len(a) /\ ~(k + 1 <= Len(a)) /\ k + 1 - Len(a) = 1  BY <1>1, <2>3
      <4> QED BY <1>1, <2>1, <4>1
    <3>2. a # <<>> /\ Last(a) = a[k]  BY <1>1, <2>1, <2>3 DEF Last
    <3> QED BY <3>1, <3>2
  <2>4. CASE k > Len(a)
    <3>1. ~(k <= Len(a)) /\ ~(k + 1 <= Len(a)) /\ k + 1 - Len(a) = (k - Len(a)) + 1  BY <1>1, <2>1, <2>4
    <3>2. c[k] = b[k - Len(a)] /\ c[k + 1] = b[(k - Len(a)) + 1]  BY <1>1, <2>1, <3>1
    <3>3. k - Len(a) \in 1 .. Len(b) - 1  BY <1>1, <2>1, <2>4
    <3> QED BY <3>2, <3>3 DEF Linked
  <2> QED BY <1>1, <2>1, <2>2, <2>3, <2>4
<1> QED BY <1>1, <1>2, <1>3, <1>4, <1>5 DEF c, FromStart

LEMMA LinesAssociative == \A x, y, z \in Seq(Line) : x \o y \o z = x \o (y \o z)
<1> TAKE x, y, z \in Seq(Line)
<1> PICK S : S = Line  OBVIOUS
<1> QED BY ConcatAssociative, SMTT(30)

\* A line goes from the front of one queue to the end of another.
LEMMA LineGoesOn ==
  ASSUME NEW a \in Seq(Line), NEW b \in Seq(Line), b # <<>>
  PROVE  /\ Head(b) \in Line /\ Tail(b) \in Seq(Line) /\ Append(a, Head(b)) \in Seq(Line)
         /\ Append(a, Head(b)) \o Tail(b) = a \o b
         /\ Len(Append(a, Head(b))) = Len(a) + 1
         /\ Len(Tail(b)) = Len(b) - 1 /\ (Len(b) = 1 <=> Tail(b) = <<>>)
<1> DEFINE h == Head(b)
           t == Tail(b)
<1>1. h \in Line /\ t \in Seq(Line) /\ b = <<h>> \o t /\ Len(t) = Len(b) - 1
  <2>1. h \in Line /\ t \in Seq(Line) /\ Len(t) = Len(b) - 1  BY HeadTailProperties
  <2> QED BY <2>1
<1>2. Append(a, h) = a \o <<h>>  BY <1>1, AppendIsConcat
<1>3. Append(a, h) \o t = a \o (<<h>> \o t)
  <2>1. <<h>> \in Seq(Line)  BY <1>1
  <2>2. a \o <<h>> \o t = a \o (<<h>> \o t)  BY <1>1, <2>1, LinesAssociative, Zenon
  <2> QED BY <1>2, <2>2
<1>4. Append(a, h) \in Seq(Line) /\ Len(Append(a, h)) = Len(a) + 1  BY <1>1, AppendProperties
<1>5. Len(b) = 1 <=> t = <<>>
  <2>1. Len(b) \in Nat /\ (t = <<>> <=> Len(t) = 0)  BY <1>1, EmptySeq, LenProperties
  <2> QED BY <1>1, <2>1
<1> QED BY <1>1, <1>3, <1>4, <1>5

\* The same with what is before the two.
LEMMA LineGoesOnAfter ==
  ASSUME NEW before \in Seq(Line), NEW a \in Seq(Line), NEW b \in Seq(Line), b # <<>>
  PROVE  before \o Append(a, Head(b)) \o Tail(b) = before \o a \o b
<1>1. /\ Tail(b) \in Seq(Line) /\ Append(a, Head(b)) \in Seq(Line)
      /\ Append(a, Head(b)) \o Tail(b) = a \o b
  BY LineGoesOn
<1> DEFINE c == Append(a, Head(b))
           d == Tail(b)
<1> HIDE DEF c, d
<1>2. before \o c \o d = before \o (c \o d)
  <2>1. c \in Seq(Line) /\ d \in Seq(Line)  BY <1>1 DEF c, d
  <2> QED BY <2>1, LinesAssociative, Zenon
<1>3. before \o a \o b = before \o (a \o b)  BY LinesAssociative, Zenon
<1> QED BY <1>1, <1>2, <1>3 DEF c, d

\* What a reader has got is a sequence of lines.
LEMMA GotLines == ASSUME LogTypes, NEW r \in Reader PROVE
  /\ field[r] \in Seq(Line) /\ channel[r] \in Seq(Line) /\ reader[r] \in Readers
  /\ reader[r].queue \in Seq(Line) /\ Got(r) \in Seq(Line)
<1>1. field[r] \in Seq(Line) /\ channel[r] \in Seq(Line) /\ reader[r] \in Readers  BY DEF LogTypes
<1>2. reader[r].queue \in Seq(Line)  BY <1>1 DEF Readers
<1>3. field[r] \o channel[r] \in Seq(Line)  BY <1>1, ConcatProperties
<1> QED BY <1>1, <1>2, <1>3, ConcatProperties DEF Got

\* A reader that nothing happens to goes on as it did.
LEMMA SameReader ==
  ASSUME NEW r \in Reader, ReaderGoesOn(r), reader'[r] = reader[r], channel'[r] = channel[r],
         field'[r] = field[r], Shows(r)' => Shows(r)
  PROVE  ReaderGoesOn(r)'
BY DEF ReaderGoesOn, Got

\* What is taken from the messages leaves the others as they are.
LEMMA OthersAreAsked ==
  ASSUME to_backend \in Seq(Asked), to_backend # <<>>, to_backend' = Tail(to_backend), AskedOnce,
         \A i \in 2 .. Len(to_backend) : to_backend[i].kind = "read" =>
           reader'[to_backend[i].reader].at = reader[to_backend[i].reader].at
  PROVE  to_backend' \in Seq(Asked) /\ AskedOnce'
<1>1. /\ to_backend' \in Seq(Asked) /\ Len(to_backend') = Len(to_backend) - 1 /\ Len(to_backend) \in Nat
      /\ \A i \in 1 .. Len(to_backend') : to_backend'[i] = to_backend[i + 1]
  BY HeadTailProperties, LenProperties
<1>2. ASSUME NEW i \in DOMAIN to_backend'
      PROVE  i + 1 \in 2 .. Len(to_backend) /\ i + 1 \in DOMAIN to_backend
  BY <1>1
<1>3. ASSUME NEW i \in DOMAIN to_backend', to_backend'[i].kind = "read"
      PROVE  /\ reader'[to_backend'[i].reader].at = "asked"
             /\ \A j \in DOMAIN to_backend' :
                  to_backend'[j].kind = "read" /\ to_backend'[j].reader = to_backend'[i].reader => j = i
  <2>1. i \in 1 .. Len(to_backend') /\ to_backend'[i] = to_backend[i + 1]  BY <1>1
  <2>2. i + 1 \in 2 .. Len(to_backend) /\ i + 1 \in DOMAIN to_backend  BY <1>2
  <2>3. reader'[to_backend'[i].reader].at = "asked"  BY <1>3, <2>1, <2>2 DEF AskedOnce
  <2>4. ASSUME NEW j \in DOMAIN to_backend', to_backend'[j].kind = "read",
               to_backend'[j].reader = to_backend'[i].reader
        PROVE  j = i
    <3>1. j \in 1 .. Len(to_backend') /\ to_backend'[j] = to_backend[j + 1]  BY <1>1
    <3>2. j + 1 \in DOMAIN to_backend  BY <1>2
    <3>3. j + 1 = i + 1  BY <1>3, <2>1, <2>2, <2>4, <3>1, <3>2 DEF AskedOnce
    <3> QED BY <2>1, <3>1, <3>3
  <2> QED BY <2>3, <2>4
<1> QED BY <1>1, <1>3 DEF AskedOnce

\* So does a message that asks for no reader.
LEMMA NoReaderIsAsked ==
  ASSUME LogsInv, UNCHANGED reader, to_backend' \in Seq(Asked),
         \A i \in DOMAIN to_backend' : to_backend'[i].kind = "read" =>
           i \in DOMAIN to_backend /\ to_backend'[i] = to_backend[i]
  PROVE  AskedOnce'
BY DEF LogsInv, AskedOnce

-----------------------------------------------------------------------------
LEMMA LogsInitially == ASSUME LogAssumption, LogsInit PROVE LogsInv
<1> USE DEF LogsInit
<1>1. log \in [Path -> [there : BOOLEAN, ends : SUBSET (0 .. MaxLength - 1), length : 0 .. MaxLength]]
  <2>1. \A p \in Path : log[p] \in [there : {TRUE}, ends : SUBSET (0 .. 2), length : {3}]  OBVIOUS
  <2>2. 0 .. 2 \subseteq 0 .. MaxLength - 1 /\ 3 \in 0 .. MaxLength  BY DEF LogAssumption
  <2>3. \A p \in Path :
          log[p] \in [there : BOOLEAN, ends : SUBSET (0 .. MaxLength - 1), length : 0 .. MaxLength]
    BY <2>1, <2>2
  <2> QED BY <2>3
<1>2. LogTypes
  <2>1. NoReader \in Readers  BY DEF NoReader, Readers
  <2>2. [kind |-> "list"] \in Asked  BY DEF Asked
  <2>3. to_backend \in Seq(Asked)  BY <2>2
  <2>4. Missing \in {Missing} /\ NoLogs \in [listing : BOOLEAN, available : (SUBSET Path) \cup {Missing},
                    selected : Path \cup {Missing}, reader : Reader \cup {Missing}]  BY DEF NoLogs
  <2>5. ChannelSize \in Nat  BY DEF LogAssumption
  <2> QED BY <1>1, <2>1, <2>3, <2>4, <2>5 DEF LogTypes
<1>3. ShownIsSelected  BY DEF ShownIsSelected, NoLogs
<1>4. AskedOnce  BY DEF AskedOnce
<1>5. ASSUME NEW r \in Reader PROVE ReaderGoesOn(r)
  <2>1. reader[r] = NoReader /\ field[r] = <<>> /\ channel[r] = <<>>  OBVIOUS
  <2>2. Got(r) = <<>>  BY <2>1 DEF Got, NoReader
  <2> QED BY <2>1, <2>2 DEF ReaderGoesOn, NoReader, FromStart
<1> QED BY <1>2, <1>3, <1>4, <1>5 DEF LogsInv

LEMMA ListingKeeps == ASSUME LogAssumption, LogsInv, get_log_files PROVE LogsInv'
<1> USE DEF LogsInv
<1>1. UNCHANGED <<log, reader, channel, field>> /\ logs_page' = NoLogs  BY DEF get_log_files
<1>2. PICK clean \in BOOLEAN :
        to_backend' = to_backend \o (IF clean THEN <<[kind |-> "cleanup"]>> ELSE <<>>)
                        \o <<[kind |-> "list"]>>
  BY DEF get_log_files
<1>3. /\ to_backend' \in Seq(Asked)
      /\ \A i \in DOMAIN to_backend' : to_backend'[i].kind = "read" =>
           i \in DOMAIN to_backend /\ to_backend'[i] = to_backend[i]
  <2>1. to_backend \in Seq(Asked) /\ [kind |-> "list"] \in Asked /\ [kind |-> "cleanup"] \in Asked
    BY DEF LogTypes, Asked
  <2>2. CASE clean
    <3>1. to_backend' = to_backend \o <<[kind |-> "cleanup"]>> \o <<[kind |-> "list"]>>  BY <1>2, <2>2
    <3> QED BY <2>1, <3>1
  <2>3. CASE ~clean
    <3>1. to_backend' = to_backend \o <<>> \o <<[kind |-> "list"]>>  BY <1>2, <2>3
    <3> QED BY <2>1, <3>1
  <2> QED BY <2>2, <2>3
<1>4. AskedOnce'  BY <1>1, <1>3, NoReaderIsAsked
<1>5. LogTypes'
  <2>1. NoLogs \in [listing : BOOLEAN, available : (SUBSET Path) \cup {Missing},
                    selected : Path \cup {Missing}, reader : Reader \cup {Missing}]  BY DEF NoLogs
  <2> QED BY <1>1, <1>3, <2>1 DEF LogTypes
<1>6. ShownIsSelected'  BY <1>1 DEF ShownIsSelected, NoLogs
<1>7. ASSUME NEW r \in Reader PROVE ReaderGoesOn(r)'
  <2>1. ~Shows(r)'  BY <1>1 DEF Shows, NoLogs, LogAssumption
  <2> QED BY <1>1, <2>1, SameReader
<1> QED BY <1>4, <1>5, <1>6, <1>7

LEMMA SelectKeeps ==
  ASSUME LogAssumption, LogsInv, NEW r \in Reader, NEW path \in Path, SelectLog(path, r)
  PROVE  LogsInv'
<1> USE DEF LogsInv
<1> DEFINE now == [NoReader EXCEPT !.path = path, !.at = "asked"]
<1>1. /\ UNCHANGED log
      /\ logs_page' = [logs_page EXCEPT !.selected = path, !.reader = r]
      /\ reader' = [reader EXCEPT ![r] = now]
      /\ channel' = [channel EXCEPT ![r] = <<>>] /\ field' = [field EXCEPT ![r] = <<>>]
      /\ to_backend' = Append(to_backend, [kind |-> "read", reader |-> r])
      /\ reader[r].at \in {"off", "ended"}
  BY DEF SelectLog
<1>2. now \in Readers /\ now.path = path /\ now.at = "asked" /\ now.queue = <<>> /\ now.line = 0
  <2>1. NoReader \in Readers /\ NoReader.queue = <<>> /\ NoReader.line = 0  BY DEF NoReader, Readers
  <2>2. ASSUME NEW n \in Readers
        PROVE  LET m == [n EXCEPT !.path = path, !.at = "asked"]
               IN  /\ m \in Readers /\ m.path = path /\ m.at = "asked"
                   /\ m.queue = n.queue /\ m.line = n.line
    BY DEF Readers
  <2> QED BY <2>1, <2>2
<1> HIDE DEF now
<1>3. reader'[r] = now /\ channel'[r] = <<>> /\ field'[r] = <<>>  BY <1>1 DEF LogTypes
<1>4. \A q \in Reader \ {r} : reader'[q] = reader[q] /\ channel'[q] = channel[q] /\ field'[q] = field[q]
  BY <1>1 DEF LogTypes
<1>5. logs_page'.reader = r /\ logs_page'.selected = path  BY <1>1 DEF LogTypes
<1>6. LogTypes'
  <2>1. [kind |-> "read", reader |-> r] \in Asked  BY DEF Asked
  <2>2. to_backend' \in Seq(Asked)  BY <1>1, <2>1 DEF LogTypes
  <2>3. reader' \in [Reader -> Readers]  BY <1>1, <1>2 DEF LogTypes
  <2>4. channel' \in [Reader -> Seq(Line)] /\ field' \in [Reader -> Seq(Line)]  BY <1>1 DEF LogTypes
  <2>5. \A q \in Reader : Len(channel'[q]) <= ChannelSize
    <3>1. Len(channel'[r]) <= ChannelSize  BY <1>3 DEF LogAssumption
    <3> QED BY <1>4, <3>1 DEF LogTypes
  <2>6. logs_page' \in [listing : BOOLEAN, available : (SUBSET Path) \cup {Missing},
                        selected : Path \cup {Missing}, reader : Reader \cup {Missing}]
    BY <1>1 DEF LogTypes
  <2> QED BY <1>1, <2>2, <2>3, <2>4, <2>5, <2>6 DEF LogTypes
<1>7. ShownIsSelected'  BY <1>2, <1>3, <1>5 DEF ShownIsSelected
<1>8. AskedOnce'
  <2>1. /\ Len(to_backend') = Len(to_backend) + 1 /\ Len(to_backend) \in Nat
        /\ \A i \in 1 .. Len(to_backend) : to_backend'[i] = to_backend[i]
        /\ to_backend'[Len(to_backend) + 1] = [kind |-> "read", reader |-> r]
        /\ DOMAIN to_backend' = 1 .. Len(to_backend) + 1 /\ DOMAIN to_backend = 1 .. Len(to_backend)
    <3>1. [kind |-> "read", reader |-> r] \in Asked  BY DEF Asked
    <3>2. to_backend \in Seq(Asked)  BY DEF LogTypes
    <3> QED BY <1>1, <3>1, <3>2, AppendProperties, LenProperties
  <2>2. \A i \in 1 .. Len(to_backend) : to_backend[i].kind = "read" =>
          to_backend[i].reader # r /\ to_backend[i].reader \in Reader
    <3> SUFFICES ASSUME NEW i \in 1 .. Len(to_backend), to_backend[i].kind = "read"
                 PROVE  to_backend[i].reader # r /\ to_backend[i].reader \in Reader
      OBVIOUS
    <3>1. to_backend[i] \in Asked  BY DEF LogTypes
    <3>2. to_backend[i].reader \in Reader  BY <3>1 DEF Asked
    <3>3. reader[to_backend[i].reader].at = "asked"  BY <2>1 DEF AskedOnce
    <3> QED BY <1>1, <3>2, <3>3
  <2> SUFFICES ASSUME NEW i \in 1 .. Len(to_backend) + 1, to_backend'[i].kind = "read"
               PROVE  /\ reader'[to_backend'[i].reader].at = "asked"
                      /\ \A j \in 1 .. Len(to_backend) + 1 :
                           to_backend'[j].kind = "read" /\ to_backend'[j].reader = to_backend'[i].reader
                             => j = i
    BY <2>1 DEF AskedOnce
  <2>3. CASE i = Len(to_backend) + 1
    <3>1. to_backend'[i].reader = r  BY <2>1, <2>3
    <3>2. \A j \in 1 .. Len(to_backend) : to_backend'[j].kind = "read" => to_backend'[j].reader # r
      BY <2>1, <2>2
    <3> QED BY <1>2, <1>3, <2>1, <2>3, <3>1, <3>2
  <2>4. CASE i \in 1 .. Len(to_backend)
    <3>1. to_backend'[i] = to_backend[i] /\ to_backend[i].reader \in Reader \ {r}  BY <2>1, <2>2, <2>4
    <3>2. reader'[to_backend'[i].reader].at = "asked"  BY <1>4, <2>1, <2>4, <3>1 DEF AskedOnce
    <3>3. ASSUME NEW j \in 1 .. Len(to_backend) + 1, to_backend'[j].kind = "read",
                 to_backend'[j].reader = to_backend'[i].reader
          PROVE  j = i
      <4>1. j # Len(to_backend) + 1  BY <2>1, <3>1, <3>3
      <4>2. j \in 1 .. Len(to_backend)  BY <2>1, <4>1
      <4>3. to_backend'[j] = to_backend[j]  BY <2>1, <4>2
      <4> QED BY <2>1, <2>4, <3>1, <3>3, <4>2, <4>3 DEF AskedOnce
    <3> QED BY <3>2, <3>3
  <2> QED BY <2>1, <2>3, <2>4
<1>9. ASSUME NEW q \in Reader PROVE ReaderGoesOn(q)'
  <2>1. CASE q = r
    <3>1. Got(r)' = <<>>  BY <1>2, <1>3 DEF Got
    <3> QED BY <1>2, <1>3, <2>1, <3>1 DEF ReaderGoesOn, FromStart
  <2>2. CASE q # r
    <3>1. ~Shows(q)'  BY <1>5, <2>2 DEF Shows
    <3> QED BY <1>4, <2>2, <3>1, SameReader
  <2> QED BY <2>1, <2>2
<1> QED BY <1>6, <1>7, <1>8, <1>9

LEMMA ReceiveKeeps ==
  ASSUME LogAssumption, LogsInv, NEW r \in Reader, ReceiveLine(r) PROVE LogsInv'
<1> USE DEF LogsInv
<1>1. /\ UNCHANGED <<log, to_backend, reader, logs_page>> /\ channel[r] # <<>> /\ Shows(r)
      /\ channel' = [channel EXCEPT ![r] = Tail(channel[r])]
      /\ field' = [field EXCEPT ![r] = Append(field[r], Head(channel[r]))]
  BY DEF ReceiveLine
<1>2. field[r] \in Seq(Line) /\ channel[r] \in Seq(Line) /\ reader[r].queue \in Seq(Line)  BY GotLines
<1>3. /\ Tail(channel[r]) \in Seq(Line) /\ Append(field[r], Head(channel[r])) \in Seq(Line)
      /\ Append(field[r], Head(channel[r])) \o Tail(channel[r]) = field[r] \o channel[r]
      /\ Len(Tail(channel[r])) = Len(channel[r]) - 1
  BY <1>1, <1>2, LineGoesOn
<1>4. LogTypes'
  <2>1. channel' \in [Reader -> Seq(Line)] /\ field' \in [Reader -> Seq(Line)]  BY <1>1, <1>3 DEF LogTypes
  <2>2. \A q \in Reader : Len(channel'[q]) <= Len(channel[q])
    <3>1. Len(channel[r]) \in Nat  BY <1>2, LenProperties
    <3>2. \A q \in Reader : Len(channel[q]) \in Nat  BY LenProperties DEF LogTypes
    <3> QED BY <1>1, <1>3, <3>1, <3>2 DEF LogTypes
  <2>3. \A q \in Reader : Len(channel'[q]) \in Nat /\ Len(channel[q]) \in Nat
    BY <2>1, LenProperties DEF LogTypes
  <2>4. \A q \in Reader : Len(channel'[q]) <= ChannelSize  BY <2>2, <2>3 DEF LogTypes, LogAssumption
  <2> QED BY <1>1, <2>1, <2>4 DEF LogTypes
<1>5. ShownIsSelected' /\ AskedOnce'  BY <1>1 DEF ShownIsSelected, AskedOnce
<1>6. ASSUME NEW q \in Reader PROVE ReaderGoesOn(q)'
  <2>1. CASE q = r
    <3>1. Got(r)' = Got(r)  BY <1>1, <1>3 DEF Got, LogTypes
    <3>2. reader[r].at \notin {"off", "asked"}  BY <1>1 DEF ReaderGoesOn
    <3>3. Shows(r)' = Shows(r)  BY <1>1 DEF Shows
    <3> QED BY <1>1, <2>1, <3>1, <3>2, <3>3 DEF ReaderGoesOn
  <2>2. CASE q # r
    <3>1. channel'[q] = channel[q] /\ field'[q] = field[q] /\ reader'[q] = reader[q]
      BY <1>1, <2>2 DEF LogTypes
    <3>2. Shows(q)' => Shows(q)  BY <1>1 DEF Shows
    <3> QED BY <3>1, <3>2, SameReader
  <2> QED BY <2>1, <2>2
<1> QED BY <1>4, <1>5, <1>6

LEMMA ListedKeeps == ASSUME LogAssumption, LogsInv, GetLogFiles PROVE LogsInv'
<1> USE DEF LogsInv
<1>1. UNCHANGED <<log, reader, channel, field>> /\ to_backend # <<>> /\ to_backend' = Tail(to_backend)
  BY DEF GetLogFiles, Handles
<1>2. to_backend' \in Seq(Asked) /\ AskedOnce'  BY <1>1, OthersAreAsked DEF LogTypes
<1>3. /\ logs_page' \in [listing : BOOLEAN, available : (SUBSET Path) \cup {Missing},
                         selected : Path \cup {Missing}, reader : Reader \cup {Missing}]
      /\ logs_page'.reader = logs_page.reader /\ logs_page'.selected = logs_page.selected
  <2>1. CASE UNCHANGED logs_page  BY <2>1 DEF LogTypes
  <2>2. CASE logs_page' = [logs_page EXCEPT !.listing = FALSE, !.available = {p \in Path : log[p].there}]
    <3>1. {p \in Path : log[p].there} \in (SUBSET Path) \cup {Missing}  OBVIOUS
    <3>2. ASSUME NEW S \in (SUBSET Path) \cup {Missing},
                 logs_page' = [logs_page EXCEPT !.listing = FALSE, !.available = S]
          PROVE  /\ logs_page' \in [listing : BOOLEAN, available : (SUBSET Path) \cup {Missing},
                                  selected : Path \cup {Missing}, reader : Reader \cup {Missing}]
                 /\ logs_page'.reader = logs_page.reader /\ logs_page'.selected = logs_page.selected
      BY <3>2 DEF LogTypes
    <3> QED BY <2>2, <3>1, <3>2
  <2> QED BY <2>1, <2>2 DEF GetLogFiles
<1>4. LogTypes'  BY <1>1, <1>2, <1>3 DEF LogTypes
<1>5. ShownIsSelected'  BY <1>1, <1>3 DEF ShownIsSelected
<1>6. ASSUME NEW r \in Reader PROVE ReaderGoesOn(r)'
  <2>1. Shows(r)' => Shows(r)  BY <1>3 DEF Shows
  <2> QED BY <1>1, <2>1, SameReader
<1> QED BY <1>2, <1>4, <1>5, <1>6

\* What becomes of the files is nothing to the readers.
LEMMA FilesKeep ==
  ASSUME LogsInv, UNCHANGED <<reader, channel, field, logs_page>>,
         log' \in [Path -> [there : BOOLEAN, ends : SUBSET (0 .. MaxLength - 1), length : 0 .. MaxLength]],
         to_backend' \in Seq(Asked), AskedOnce'
  PROVE  LogsInv'
<1> USE DEF LogsInv
<1>1. LogTypes' /\ ShownIsSelected'  BY DEF LogTypes, ShownIsSelected
<1>2. ASSUME NEW r \in Reader PROVE ReaderGoesOn(r)'
  <2>1. Shows(r)' => Shows(r)  BY DEF Shows
  <2> QED BY <2>1, SameReader
<1> QED BY <1>1, <1>2

LEMMA CleanupKeeps == ASSUME LogsInv, CleanupOldLogFiles PROVE LogsInv'
<1>1. to_backend # <<>> /\ to_backend' = Tail(to_backend) /\ UNCHANGED <<reader, channel, field, logs_page>>
  BY DEF CleanupOldLogFiles, Handles
<1>2. to_backend' \in Seq(Asked) /\ AskedOnce'  BY <1>1, OthersAreAsked DEF LogTypes, LogsInv
<1>3. log' \in [Path -> [there : BOOLEAN, ends : SUBSET (0 .. MaxLength - 1), length : 0 .. MaxLength]]
  <2>1. log' = [p \in Path |-> [log[p] EXCEPT !.there = @ /\ p \notin Gzipped]]  BY DEF CleanupOldLogFiles
  <2>2. ASSUME NEW p \in Path
        PROVE  [log[p] EXCEPT !.there = @ /\ p \notin Gzipped]
                 \in [there : BOOLEAN, ends : SUBSET (0 .. MaxLength - 1), length : 0 .. MaxLength]
    <3>1. log[p] \in [there : BOOLEAN, ends : SUBSET (0 .. MaxLength - 1), length : 0 .. MaxLength]
      BY DEF LogsInv, LogTypes
    <3>2. (log[p].there /\ p \notin Gzipped) \in BOOLEAN  OBVIOUS
    <3> QED BY <3>1, <3>2
  <2> QED BY <2>1, <2>2
<1> QED BY <1>1, <1>2, <1>3, FilesKeep

LEMMA WriteKeeps ==
  ASSUME LogAssumption, LogsInv, NEW p \in Path, NEW whole \in BOOLEAN, Write(p, whole)
  PROVE  LogsInv'
<1>1. log[p].length < MaxLength /\ UNCHANGED <<to_backend, reader, channel, field, logs_page>>  BY DEF Write
<1>2. to_backend' \in Seq(Asked) /\ AskedOnce'  BY <1>1 DEF LogTypes, LogsInv, AskedOnce
<1>3. log' \in [Path -> [there : BOOLEAN, ends : SUBSET (0 .. MaxLength - 1), length : 0 .. MaxLength]]
  <2> DEFINE Log == [there : BOOLEAN, ends : SUBSET (0 .. MaxLength - 1), length : 0 .. MaxLength]
             length == log[p].length + 1
             ends == IF whole THEN log[p].ends \cup {log[p].length} ELSE log[p].ends
  <2>1. log \in [Path -> Log]  BY DEF LogsInv, LogTypes
  <2>2. log' = [log EXCEPT ![p].length = length, ![p].ends = ends]  BY DEF Write
  <2>3. length \in 0 .. MaxLength /\ ends \in SUBSET (0 .. MaxLength - 1)  BY <1>1, <2>1 DEF LogAssumption
  <2> HIDE DEF length, ends
  <2>4. [log[p] EXCEPT !.length = length, !.ends = ends] \in Log  BY <2>1, <2>3
  <2>5. log' = [log EXCEPT ![p] = [log[p] EXCEPT !.length = length, !.ends = ends]]  BY <2>1, <2>2
  <2> HIDE DEF Log
  <2> QED BY <2>1, <2>4, <2>5 DEF Log
<1> QED BY <1>1, <1>2, <1>3, FilesKeep

\* What one reader does is its own.
LEMMA OneReader ==
  ASSUME LogsInv, NEW r \in Reader, NEW now \in Readers, UNCHANGED <<log, logs_page>>,
         reader' = [reader EXCEPT ![r] = now], now.path = reader[r].path,
         channel' \in [Reader -> Seq(Line)], field' \in [Reader -> Seq(Line)],
         \A q \in Reader \ {r} : channel'[q] = channel[q] /\ field'[q] = field[q],
         Len(channel'[r]) <= ChannelSize,
         to_backend' \in Seq(Asked), AskedOnce', ReaderGoesOn(r)'
  PROVE  LogsInv'
<1> USE DEF LogsInv
<1>1. \A q \in Reader \ {r} : reader'[q] = reader[q]  BY DEF LogTypes
<1>2. reader'[r] = now  BY DEF LogTypes
<1>3. LogTypes'
  <2>1. reader' \in [Reader -> Readers]  BY DEF LogTypes
  <2>2. \A q \in Reader : Len(channel'[q]) <= ChannelSize  BY DEF LogTypes
  <2> QED BY <2>1, <2>2 DEF LogTypes
<1>4. ShownIsSelected'
  <2>1. \A q \in Reader : reader'[q].path = reader[q].path  BY <1>1, <1>2
  <2>2. logs_page.reader # Missing => logs_page.reader \in Reader  BY DEF LogTypes
  <2> QED BY <2>1, <2>2 DEF ShownIsSelected
<1>5. ASSUME NEW q \in Reader PROVE ReaderGoesOn(q)'
  <2>1. CASE q # r
    <3>1. Shows(q)' => Shows(q)  BY DEF Shows
    <3> QED BY <1>1, <2>1, <3>1, SameReader
  <2> QED BY <2>1
<1> QED BY <1>3, <1>4, <1>5

\* One that is not asked for is in no message.
LEMMA StaysAsked ==
  ASSUME LogsInv, NEW r \in Reader, NEW now, reader[r].at # "asked",
         reader' = [reader EXCEPT ![r] = now], UNCHANGED to_backend
  PROVE  to_backend' \in Seq(Asked) /\ AskedOnce'
<1> USE DEF LogsInv
<1>1. ASSUME NEW i \in DOMAIN to_backend, to_backend[i].kind = "read"
      PROVE  reader'[to_backend[i].reader].at = "asked"
  <2>1. to_backend[i] \in Asked  BY DEF LogTypes
  <2>2. to_backend[i].reader \in Reader  BY <1>1, <2>1 DEF Asked
  <2>3. reader[to_backend[i].reader].at = "asked"  BY <1>1 DEF AskedOnce
  <2>4. to_backend[i].reader # r  BY <2>3
  <2> QED BY <2>2, <2>3, <2>4 DEF LogTypes
<1> QED BY <1>1 DEF AskedOnce, LogTypes

LEMMA ReadLogKeeps == ASSUME LogAssumption, LogsInv, ReadLog PROVE LogsInv'
<1> USE DEF LogsInv
<1>1. to_backend # <<>> /\ Head(to_backend).kind = "read" /\ to_backend' = Tail(to_backend)
  BY DEF ReadLog, Handles
<1>2. 1 \in DOMAIN to_backend /\ to_backend[1] = Head(to_backend) /\ Head(to_backend) \in Asked
  BY <1>1 DEF LogTypes
<1>3. PICK r \in Reader : r = Head(to_backend).reader  BY <1>1, <1>2 DEF Asked
<1> DEFINE p == reader[r].path
           buffered == IF p \in Gzipped THEN 0 ELSE Min({BufferSize, log[p].length})
           now == IF ~log[p].there THEN [reader[r] EXCEPT !.at = "ended"]
                  ELSE [reader[r] EXCEPT !.at = "reading", !.first = p \notin Gzipped, !.pos = buffered]
<1>4. /\ reader[r].at = "asked"
      /\ UNCHANGED <<log, channel, field, logs_page>>
      /\ reader' = [reader EXCEPT ![r] = now]
  <2>1. reader[r].at = "asked"  BY <1>3, <1>1, <1>2 DEF AskedOnce
  <2> QED BY <1>3, <2>1 DEF ReadLog, LogTypes
<1>5. p \in Path /\ field[r] = <<>> /\ channel[r] = <<>> /\ reader[r].queue = <<>> /\ reader[r].line = 0
  <2>1. p \in Path /\ field[r] = <<>> /\ channel[r] = <<>> /\ reader[r].queue = <<>>
    BY <1>4 DEF ReaderGoesOn
  <2>2. Got(r) = <<>>  BY <2>1 DEF Got
  <2> QED BY <1>4, <2>1, <2>2 DEF ReaderGoesOn
<1>6. buffered \in Nat
  <2>1. log[p].length \in Nat /\ BufferSize \in Nat
    <3>1. log[p] \in [there : BOOLEAN, ends : SUBSET (0 .. MaxLength - 1), length : 0 .. MaxLength]
      BY <1>5 DEF LogTypes
    <3> QED BY <3>1 DEF LogAssumption
  <2>2. {BufferSize, log[p].length} \in SUBSET Nat /\ IsFiniteSet({BufferSize, log[p].length})
    <3>1. IsFiniteSet({BufferSize} \cup {log[p].length})  BY FS_Singleton, FS_AddElement
    <3>2. {BufferSize} \cup {log[p].length} = {BufferSize, log[p].length}  OBVIOUS
    <3> QED BY <2>1, <3>1, <3>2
  <2>3. Min({BufferSize, log[p].length}) \in Nat  BY <2>2, LeastOfEnds
  <2> QED BY <2>3
<1> HIDE DEF buffered
<1>7. now \in Readers /\ now.path = p /\ now.queue = <<>> /\ now.line = 0 /\ now.at \in {"reading", "ended"}
  <2>1. reader[r] \in Readers /\ (p \notin Gzipped) \in BOOLEAN  BY <1>4 DEF LogTypes
  <2>2. [reader[r] EXCEPT !.at = "ended"] \in Readers  BY <2>1 DEF Readers
  <2>3. [reader[r] EXCEPT !.at = "reading", !.first = p \notin Gzipped, !.pos = buffered] \in Readers
    BY <1>6, <2>1 DEF Readers
  <2> DEFINE reading == [reader[r] EXCEPT !.at = "reading", !.first = p \notin Gzipped, !.pos = buffered]
             ended == [reader[r] EXCEPT !.at = "ended"]
  <2>4. /\ reading.path = p /\ reading.queue = reader[r].queue /\ reading.line = reader[r].line
        /\ reading.at = "reading"
    BY <2>1 DEF Readers
  <2>5. ended.path = p /\ ended.queue = reader[r].queue /\ ended.line = reader[r].line /\ ended.at = "ended"
    BY <2>1 DEF Readers
  <2>6. now \in {reading, ended}  OBVIOUS
  <2> HIDE DEF now, reading, ended
  <2>7. CASE now = reading  BY <1>5, <2>3, <2>4, <2>7 DEF reading
  <2>8. CASE now = ended  BY <1>5, <2>2, <2>5, <2>8 DEF ended
  <2> QED BY <2>6, <2>7, <2>8
<1> HIDE DEF now
<1>8. to_backend' \in Seq(Asked) /\ AskedOnce'
  <2> SUFFICES ASSUME NEW i \in 2 .. Len(to_backend), to_backend[i].kind = "read"
               PROVE  reader'[to_backend[i].reader].at = reader[to_backend[i].reader].at
    BY <1>1, OthersAreAsked DEF LogTypes
  <2>1. i \in DOMAIN to_backend /\ i # 1 /\ to_backend[i] \in Asked  BY DEF LogTypes
  <2>2. to_backend[i].reader \in Reader /\ to_backend[i].reader # r
    BY <1>3, <1>1, <1>2, <2>1 DEF Asked, AskedOnce
  <2> QED BY <1>4, <2>2 DEF LogTypes
<1>9. ReaderGoesOn(r)'
  <2>1. reader'[r] = now  BY <1>4 DEF LogTypes
  <2>2. channel'[r] = <<>> /\ field'[r] = <<>>  BY <1>4, <1>5
  <2>3. Got(r)' = <<>>  BY <1>7, <2>1, <2>2 DEF Got
  <2> QED BY <1>5, <1>7, <2>1, <2>2, <2>3 DEF ReaderGoesOn, FromStart
<1>10. Len(channel'[r]) <= ChannelSize  BY <1>4 DEF LogTypes
<1> QED BY <1>4, <1>7, <1>8, <1>9, <1>10, OneReader DEF LogTypes

\* What is read follows on what was read before.
LEMMA ReadKeeps == ASSUME LogAssumption, LogsInv, read_until PROVE LogsInv'
<1> USE DEF LogsInv
<1>1. PICK r \in Reader :
        LET now == reader[r]
            ends == {e \in log[now.path].ends : e >= now.pos}
            upto == IF ends = {} THEN log[now.path].length ELSE Min(ends) + 1
        IN  /\ now.at = "reading" /\ now.pos < log[now.path].length
            /\ reader' = [reader EXCEPT ![r].at = "sending", ![r].first = FALSE,
                 ![r].pos = upto, ![r].line = upto,
                 ![r].queue = IF now.first THEN Split(log[now.path].ends, now.line, upto)
                              ELSE <<Piece(now.line, IF ends = {} THEN upto ELSE upto - 1, ends # {})>>]
            /\ UNCHANGED <<log, to_backend, channel, field, logs_page>>
  BY DEF read_until, kept_in_line
<1> DEFINE p == reader[r].path
           line == reader[r].line
           ends == {e \in log[p].ends : e >= reader[r].pos}
           upto == IF ends = {} THEN log[p].length ELSE Min(ends) + 1
           queue == IF reader[r].first THEN Split(log[p].ends, line, upto)
                    ELSE <<Piece(line, IF ends = {} THEN upto ELSE upto - 1, ends # {})>>
           now == [reader[r] EXCEPT !.at = "sending", !.first = FALSE,
                                    !.pos = upto, !.line = upto, !.queue = queue]
           got == field[r] \o channel[r]
<1>2. /\ reader[r].at = "reading" /\ reader' = [reader EXCEPT ![r] = now]
      /\ UNCHANGED <<log, to_backend, channel, field, logs_page>>
  BY <1>1 DEF LogTypes
<1>3. /\ reader[r] \in Readers /\ reader[r].queue = <<>> /\ p \in Path /\ line \in Nat
      /\ field[r] \in Seq(Line) /\ channel[r] \in Seq(Line)
  <2>1. reader[r].queue = <<>> /\ p \in Path  BY <1>2 DEF ReaderGoesOn
  <2>2. reader[r] \in Readers /\ field[r] \in Seq(Line) /\ channel[r] \in Seq(Line)  BY GotLines
  <2> QED BY <2>1, <2>2 DEF Readers
<1>4. got \in Seq(Line) /\ Got(r) = got
  <2>1. got \in Seq(Line)  BY <1>3, ConcatProperties
  <2>2. got \o <<>> = got  BY <2>1, ConcatEmptySeq
  <2> QED BY <1>3, <2>1, <2>2 DEF Got
<1>5. /\ FromStart(got)
      /\ IF got = <<>> THEN line = 0 ELSE ~reader[r].first /\ After(Last(got)) = line
  BY <1>2, <1>4 DEF ReaderGoesOn
<1>6. log[p].ends \in SUBSET Nat /\ log[p].length \in Nat
  <2>1. log[p] \in [there : BOOLEAN, ends : SUBSET (0 .. MaxLength - 1), length : 0 .. MaxLength]
    BY <1>3 DEF LogTypes
  <2> QED BY <2>1 DEF LogAssumption
<1>7. upto \in Nat /\ (ends # {} => upto - 1 \in Nat)
  <2>1. CASE ends = {}  BY <1>6, <2>1
  <2>2. CASE ends # {}
    <3>1. ends \in SUBSET Nat  BY <1>6
    <3>2. IsFiniteSet(ends)
      <4>1. IsFiniteSet(0 .. MaxLength - 1)  BY FS_Interval DEF LogAssumption
      <4>2. log[p] \in [there : BOOLEAN, ends : SUBSET (0 .. MaxLength - 1), length : 0 .. MaxLength]
        BY <1>3 DEF LogTypes
      <4>3. ends \in SUBSET (0 .. MaxLength - 1)  BY <4>2
      <4> QED BY <4>1, <4>3, FS_Subset
    <3>3. Min(ends) \in Nat
      <4> HIDE DEF ends
      <4> QED BY <2>2, <3>1, <3>2, LeastOfEnds
    <3>4. upto = Min(ends) + 1  BY <2>2
    <3> HIDE DEF ends, upto
    <3> QED BY <3>3, <3>4
  <2> QED BY <2>1, <2>2
<1> HIDE DEF upto, ends
<1>8. /\ queue \in Seq(Line) /\ queue # <<>> /\ Linked(queue)
      /\ queue[1].from = line /\ After(Last(queue)) = upto
  <2>1. CASE reader[r].first
    <3>1. queue = Split(log[p].ends, line, upto)  BY <2>1
    <3> HIDE DEF queue
    <3> QED BY <1>3, <1>6, <1>7, <3>1, SplitIsWhole DEF Last
  <2>2. CASE ~reader[r].first
    <3> DEFINE piece == Piece(line, IF ends = {} THEN upto ELSE upto - 1, ends # {})
    <3>1. queue = <<piece>>  BY <2>2
    <3>2. piece \in Line /\ piece.from = line
      <4>1. (ends # {}) \in BOOLEAN  OBVIOUS
      <4> QED BY <1>3, <1>7, <4>1 DEF Piece, Line
    <3>3. After(piece) = upto
      <4>1. CASE ends = {}
        <5>1. piece.upto = upto /\ ~piece.ended  BY <4>1 DEF Piece
        <5> HIDE DEF piece
        <5> QED BY <1>7, <5>1 DEF After
      <4>2. CASE ends # {}
        <5>1. piece.upto = upto - 1 /\ piece.ended  BY <4>2 DEF Piece
        <5> HIDE DEF piece
        <5> QED BY <1>7, <5>1 DEF After
      <4> QED BY <4>1, <4>2
    <3> HIDE DEF piece, queue, line
    <3>4. Len(queue) = 1 /\ queue[1] = piece /\ queue \in Seq(Line)  BY <3>1, <3>2
    <3>5. queue # <<>>  BY <3>1
    <3>6. Linked(queue)
      <4>1. 1 .. 1 - 1 = {} /\ Len(queue) = 1  BY <3>4
      <4>2. 1 .. Len(queue) - 1 = {}  BY <4>1
      <4> QED BY <4>2 DEF Linked
    <3> QED BY <3>2, <3>3, <3>4, <3>5, <3>6 DEF Last
  <2> QED BY <2>1, <2>2
<1> HIDE DEF queue
<1>9. /\ now \in Readers /\ now.path = p /\ now.at = "sending" /\ ~now.first
      /\ now.pos = upto /\ now.line = upto /\ now.queue = queue
  BY <1>3, <1>7, <1>8 DEF Readers
<1> HIDE DEF now
<1>10. ReaderGoesOn(r)'
  <2>1. reader'[r] = now  BY <1>2 DEF LogTypes
  <2>2. Got(r)' = got \o queue  BY <1>2, <1>9, <2>1 DEF Got
  <2> HIDE DEF got
  <2>3. queue[1].from = IF got = <<>> THEN 0 ELSE After(Last(got))  BY <1>5, <1>8
  <2>4. /\ got \o queue # <<>> /\ FromStart(got \o queue)
        /\ Last(got \o queue) = Last(queue)
    BY <1>4, <1>5, <1>8, <2>3, FollowsOn
  <2> QED BY <1>3, <1>8, <1>9, <2>1, <2>2, <2>4 DEF ReaderGoesOn
<1>11. to_backend' \in Seq(Asked) /\ AskedOnce'  BY <1>2, StaysAsked
<1>12. Len(channel'[r]) <= ChannelSize  BY <1>2 DEF LogTypes
<1> HIDE DEF got
<1> QED BY <1>2, <1>9, <1>10, <1>11, <1>12, OneReader DEF LogTypes

LEMMA EndKeeps == ASSUME LogsInv, NEW r \in Reader, EndOfFile(r) PROVE LogsInv'
<1> USE DEF LogsInv
<1> DEFINE now == [reader[r] EXCEPT !.at = "ended"]
<1>1. /\ reader[r].at = "reading" /\ reader' = [reader EXCEPT ![r] = now]
      /\ UNCHANGED <<log, to_backend, channel, field, logs_page>>
  BY DEF EndOfFile
<1>2. now \in Readers /\ now.path = reader[r].path /\ now.at = "ended" /\ now.queue = reader[r].queue
  BY DEF LogTypes, Readers
<1> HIDE DEF now
<1>3. ReaderGoesOn(r)'
  <2>1. reader'[r] = now  BY <1>1 DEF LogTypes
  <2>2. Got(r)' = Got(r)  BY <1>1, <1>2, <2>1 DEF Got
  <2> QED BY <1>1, <1>2, <2>1, <2>2 DEF ReaderGoesOn
<1>4. to_backend' \in Seq(Asked) /\ AskedOnce'  BY <1>1, StaysAsked
<1>5. Len(channel'[r]) <= ChannelSize  BY <1>1 DEF LogTypes
<1> QED BY <1>1, <1>2, <1>3, <1>4, <1>5, OneReader DEF LogTypes

LEMMA SendKeeps == ASSUME LogAssumption, LogsInv, NEW r \in Reader, send(r) PROVE LogsInv'
<1> USE DEF LogsInv
<1> DEFINE queue == reader[r].queue
           at == IF Len(queue) = 1 THEN "reading" ELSE "sending"
           now == [reader[r] EXCEPT !.queue = Tail(queue), !.at = at]
<1>1. /\ reader[r].at = "sending" /\ Shows(r) /\ Len(channel[r]) < ChannelSize
      /\ channel' = [channel EXCEPT ![r] = Append(channel[r], Head(queue))]
      /\ reader' = [reader EXCEPT ![r] = now]
      /\ UNCHANGED <<log, to_backend, field, logs_page>>
  BY DEF send, LogTypes
<1>2. /\ field[r] \in Seq(Line) /\ channel[r] \in Seq(Line) /\ queue \in Seq(Line) /\ queue # <<>>
      /\ reader[r] \in Readers
  BY <1>1, GotLines DEF ReaderGoesOn
<1> HIDE DEF queue
<1>3. /\ Head(queue) \in Line /\ Tail(queue) \in Seq(Line) /\ Append(channel[r], Head(queue)) \in Seq(Line)
      /\ Len(Append(channel[r], Head(queue))) = Len(channel[r]) + 1
      /\ (Len(queue) = 1 <=> Tail(queue) = <<>>)
  BY <1>2, LineGoesOn
<1>4. at \in {"reading", "sending"} /\ (at = "reading" <=> Tail(queue) = <<>>)  BY <1>3
<1> HIDE DEF at
<1>5. /\ now \in Readers /\ now.path = reader[r].path /\ now.at = at /\ now.queue = Tail(queue)
      /\ now.line = reader[r].line /\ now.pos = reader[r].pos /\ now.first = reader[r].first
  BY <1>2, <1>3, <1>4 DEF Readers
<1> HIDE DEF now
<1>6. reader'[r] = now /\ channel'[r] = Append(channel[r], Head(queue)) /\ field'[r] = field[r]
  BY <1>1 DEF LogTypes
<1>7. Got(r)' = Got(r)
  <2>1. Got(r)' = field[r] \o Append(channel[r], Head(queue)) \o Tail(queue)  BY <1>5, <1>6 DEF Got
  <2>2. Got(r) = field[r] \o channel[r] \o queue  BY DEF Got, queue
  <2> QED BY <1>2, <2>1, <2>2, LineGoesOnAfter
<1>8. ReaderGoesOn(r)'  BY <1>1, <1>4, <1>5, <1>6, <1>7 DEF ReaderGoesOn, Shows
<1>9. to_backend' \in Seq(Asked) /\ AskedOnce'  BY <1>1, StaysAsked
<1>10. Len(channel'[r]) <= ChannelSize
  <2>1. Len(channel[r]) \in Nat  BY <1>2, LenProperties
  <2> QED BY <1>1, <1>3, <1>6, <2>1 DEF LogAssumption
<1>11. channel' \in [Reader -> Seq(Line)] /\ \A q \in Reader \ {r} : channel'[q] = channel[q]
  BY <1>1, <1>3 DEF LogTypes
<1> QED BY <1>1, <1>5, <1>8, <1>9, <1>10, <1>11, OneReader DEF LogTypes

LEMMA ClosedKeeps == ASSUME LogAssumption, LogsInv, NEW r \in Reader, closed(r) PROVE LogsInv'
<1> USE DEF LogsInv
<1> DEFINE now == [reader[r] EXCEPT !.at = "ended"]
<1>1. /\ reader[r].at \in {"reading", "sending"} /\ ~Shows(r) /\ reader' = [reader EXCEPT ![r] = now]
      /\ channel' = [channel EXCEPT ![r] = <<>>] /\ field' = [field EXCEPT ![r] = <<>>]
      /\ UNCHANGED <<log, to_backend, logs_page>>
  BY DEF closed
<1>2. now \in Readers /\ now.path = reader[r].path /\ now.at = "ended"
  BY DEF LogTypes, Readers
<1> HIDE DEF now
<1>3. ReaderGoesOn(r)'
  <2>1. reader'[r] = now  BY <1>1 DEF LogTypes
  <2>2. ~Shows(r)'  BY <1>1 DEF Shows
  <2> QED BY <1>2, <2>1, <2>2 DEF ReaderGoesOn
<1>4. to_backend' \in Seq(Asked) /\ AskedOnce'  BY <1>1, StaysAsked
<1>5. /\ channel' \in [Reader -> Seq(Line)] /\ field' \in [Reader -> Seq(Line)]
      /\ \A q \in Reader \ {r} : channel'[q] = channel[q] /\ field'[q] = field[q]
  BY <1>1 DEF LogTypes
<1>6. Len(channel'[r]) <= ChannelSize
  <2>1. channel'[r] = <<>>  BY <1>1 DEF LogTypes
  <2> QED BY <2>1 DEF LogAssumption
<1> QED BY <1>1, <1>2, <1>3, <1>4, <1>5, <1>6, OneReader

LEMMA LogsInvStep == ASSUME LogAssumption PROVE LogsInv /\ [LogsNext]_log_vars => LogsInv'
<1> SUFFICES ASSUME LogsInv, [LogsNext]_log_vars PROVE LogsInv'  OBVIOUS
<1>1. CASE UNCHANGED log_vars
  <2>1. AskedOnce' /\ to_backend' \in Seq(Asked)  BY <1>1 DEF log_vars, LogsInv, AskedOnce, LogTypes
  <2> QED BY <1>1, <2>1, FilesKeep DEF log_vars, LogsInv, LogTypes
<1>2. CASE get_log_files  BY <1>2, ListingKeeps
<1>3. CASE GetLogFiles  BY <1>3, ListedKeeps
<1>4. CASE CleanupOldLogFiles  BY <1>4, CleanupKeeps
<1>5. CASE ReadLog  BY <1>5, ReadLogKeeps
<1>6. CASE read_until  BY <1>6, ReadKeeps
<1>7. ASSUME NEW r \in Reader, NEW p \in Path, SelectLog(p, r) PROVE LogsInv'  BY <1>7, SelectKeeps
<1>8. ASSUME NEW r \in Reader, ReceiveLine(r) \/ EndOfFile(r) \/ send(r) \/ closed(r) PROVE LogsInv'
  BY <1>8, ReceiveKeeps, EndKeeps, SendKeeps, ClosedKeeps
<1>9. ASSUME NEW p \in Path, NEW whole \in BOOLEAN, Write(p, whole) PROVE LogsInv'  BY <1>9, WriteKeeps
<1> QED BY <1>1, <1>2, <1>3, <1>4, <1>5, <1>6, <1>7, <1>8, <1>9 DEF LogsNext

\* A log file is shown as it is: what the page holds of it, what is on its way and what is read
\* next follow on each other from its beginning, for any number of readers, any sizes of the
\* first buffer and of the channel, and however the file grows (ReadLog, read_until, the channel
\* and InstanceLogsSubpage).
THEOREM LogsAreShown == ASSUME LogAssumption PROVE LogsSpec => [](LogsType /\ LogIsShown)
<1>1. LogsInv => LogsType /\ LogIsShown
  <2> SUFFICES ASSUME LogsInv PROVE LogsType /\ LogIsShown  OBVIOUS
  <2> USE DEF LogsInv
  <2>1. LogsType
    <3>1. \A r \in Reader : reader[r].path \in Path \cup {Missing} /\ Len(channel[r]) <= ChannelSize
      BY DEF LogTypes, Readers
    <3> QED BY <3>1 DEF LogsType, LogTypes
  <2>2. logs_page.reader # Missing => reader[logs_page.reader].path \in {logs_page.selected, Missing}
    BY DEF ShownIsSelected
  <2>3. ASSUME NEW r \in Reader, Got(r) # <<>>, Shows(r) \/ reader[r].at # "ended"
        PROVE  /\ Got(r)[1].from = 0
               /\ \A k \in 1 .. Len(Got(r)) - 1 : Got(r)[k + 1].from = After(Got(r)[k])
               /\ reader[r].at = "reading" => After(Last(Got(r))) = reader[r].pos
    BY <2>3 DEF ReaderGoesOn, FromStart, Linked
  <2> QED BY <2>1, <2>2, <2>3 DEF LogIsShown, Got
<1> QED BY <1>1, LogsInitially, LogsInvStep, PTL DEF LogsSpec
=============================================================================
