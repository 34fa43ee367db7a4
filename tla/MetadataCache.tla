---------------------------- MODULE MetadataCache ----------------------------
(***************************************************************************)
(* One item of the metadata cache (backend/src/metadata/manager.rs): a     *)
(* download that those who want it share, that is good for five minutes,   *)
(* or for ever, and that falls back on the file it was written to; and the *)
(* page that shows it (frontend/src/entity/metadata.rs).                   *)
(*                                                                         *)
(* The state of an item is behind an asynchronous lock, which the one that *)
(* waits for the download holds; a load itself is a task of its own, which *)
(* goes on when it has been replaced and nobody waits for it.  Callers     *)
(* within the backend may be dropped wherever they wait (a launch that is  *)
(* cancelled, a try_join of which another part has failed).                *)
(*                                                                         *)
(* Data: the server's answer is the number of times it has changed.  For   *)
(* an item with a known hash 1 is the data that has it, and 0 data that    *)
(* has not.  A KeepAliveHandle is the load it was created for, or Dead     *)
(* once its KeepAlive has been dropped: the flag is shared, so every copy  *)
(* of the handle changes at once.                                          *)
(***************************************************************************)
EXTENDS Naturals, Sequences, FiniteSets

CONSTANTS
  Task,         \* slots for callers: spawned for the page, or the backend's own
  Load,         \* slots for loads
  None,         \* no load, no file, no handle
  Dead,         \* a handle whose KeepAlive is gone
  Items,        \* what item.expires(), data_hash() and cache_file() may say
  MaxServer,    \* bound: changes of the server's data
  MaxRequests,  \* bound: messages in the channel, in either direction
  MaxKeepAlives \* bound: forced reloads only while there are fewer KeepAlives

ASSUME NoneAssumption == None \notin Load /\ Dead \notin Load /\ None # Dead /\ None \notin Nat
ASSUME ItemAssumption == Items \subseteq [expires : BOOLEAN, hashed : BOOLEAN, cached : BOOLEAN]
ASSUME BoundAssumption == MaxServer \in Nat \ {0} /\ MaxRequests \in Nat /\ MaxKeepAlives \in Nat

VARIABLES
  item,      \* the item
  lock,      \* who holds the item's lock (the head), and who waits for it
  handle,    \* the KeepAliveHandle of the item
  state,     \* its MetaLoadState
  load,      \* what each load has got to
  expiring,  \* the KeepAlives, the oldest first
  task,      \* where each caller is
  server,    \* what the server answers now
  file,      \* the cache file
  requests,  \* RequestMetadata messages to the backend: force_reload of each
  results,   \* MetadataResult messages to the frontend
  page       \* FrontendMetadataState of the item

cache == <<lock, handle, state, expiring, task>>
outside == <<item, server, file>>
frontend == <<requests, results, page>>
vars == <<cache, load, outside, frontend>>

Expires == item.expires
Hashed == item.hashed
Cached == item.cached

Version == 0 .. MaxServer
Handle == Load \cup {None, Dead}

\* A result, and whether it is the file's for want of an answer.
Result == [ok : {TRUE}, value : Version, fallback : BOOLEAN]
            \cup {[ok |-> FALSE, value |-> 0, fallback |-> FALSE]}
Error == [ok |-> FALSE, value |-> 0, fallback |-> FALSE]
Good(v, fallback) == [ok |-> TRUE, value |-> v, fallback |-> fallback]

Unloaded == [at |-> "unloaded", load |-> None, result |-> Error]
NoLoad == [pc |-> "none", fallback |-> None, got |-> None, result |-> Error]
NoTask == [pc |-> "idle", kind |-> "fetch", force |-> FALSE]
Absent == [at |-> "absent", result |-> Error, handle |-> None]

ItemState == [at : {"unloaded", "pending", "done"}, load : Load \cup {None}, result : Result]
LoadState == [pc : {"none", "file", "request", "write", "done"},
              fallback : Version \cup {None}, got : Version \cup {None}, result : Result]
TaskState == [pc : {"idle", "lock", "expiring", "await"},
              kind : {"page", "fetch", "load"}, force : BOOLEAN]
Answer == [result : Result, handle : Handle]

TypeOK ==
  /\ item \in Items
  /\ lock \in Seq(Task)
  /\ handle \in Handle
  /\ state \in ItemState
  /\ load \in [Load -> LoadState]
  /\ expiring \in Seq(Load)
  /\ task \in [Task -> TaskState]
  /\ server \in Version
  /\ file \in Version \cup {None}
  /\ requests \in Seq(BOOLEAN)
  /\ results \in Seq(Answer)
  /\ page \in [at : {"absent", "loading", "loaded"}, result : Result, handle : Handle]

\* Nothing is loaded.  A file may be left from an earlier run, and it may be
\* the version manifest, which is loaded as the launcher starts.
Init ==
  /\ item \in Items
  /\ lock \in {<<>>} \cup {<<t>> : t \in {t \in Task : Expires /\ Cached}}
  /\ task = [t \in Task |-> IF lock = <<t>> THEN [pc |-> "lock", kind |-> "load", force |-> FALSE]
                                            ELSE NoTask]
  /\ handle = None
  /\ state = Unloaded
  /\ load = [l \in Load |-> NoLoad]
  /\ expiring = <<>>
  /\ server = 1
  /\ file \in {None} \cup (IF Cached THEN {0, 1} ELSE {})
  /\ requests = <<>>
  /\ results = <<>>
  /\ page = Absent

-----------------------------------------------------------------------------
(* KeepAlives. *)

Held == {expiring[i] : i \in DOMAIN expiring} \cup {handle, page.handle}
           \cup {results[i].handle : i \in DOMAIN results}

\* A KeepAlive that nothing refers to and a JoinHandle that is not held.
Free(l) == load[l].pc = "none" /\ l \notin Held /\ state.load # l

\* What becomes of the handles as the KeepAlive of load l is dropped.
dropped(h, l) == IF h = l THEN Dead ELSE h
DropPageHandles(l) ==
  /\ page' = [page EXCEPT !.handle = dropped(@, l)]
  /\ results' = [i \in DOMAIN results |-> [results[i] EXCEPT !.handle = dropped(@, l)]]

\* expire: the oldest KeepAlive has been there for five minutes.
Expire ==
  /\ expiring # <<>>
  /\ expiring' = Tail(expiring)
  /\ handle' = dropped(handle, Head(expiring))
  /\ DropPageHandles(Head(expiring))
  /\ UNCHANGED <<lock, state, load, task, outside, requests>>

-----------------------------------------------------------------------------
(* load, fetch and fetch_with_keepalive. *)

\* A call starts and queues up for the lock.
Begin(t, kind, force) ==
  /\ task[t].pc = "idle"
  /\ task' = [task EXCEPT ![t] = [pc |-> "lock", kind |-> kind, force |-> force]]
  /\ lock' = Append(lock, t)

Holds(t, pc) == lock # <<>> /\ Head(lock) = t /\ task[t].pc = pc

\* (A bug: a handle that is gone counts for nothing.)
must_load_unloaded(t) == task[t].force \/ state.at = "unloaded"
must_load(t) == task[t].force \/ handle = Dead \/ state.at = "unloaded"

\* The call returns: the lock goes on to the next, and the page gets its answer.
Return(t, result) ==
  /\ lock' = Tail(lock)
  /\ task' = [task EXCEPT ![t] = NoTask]
  /\ results' = IF task[t].kind = "page"
                THEN Append(results, [result |-> result, handle |-> handle]) ELSE results

\* inner_start_loading(l): the load that was on its way, if any, is on its own
\* from now on, and its result is lost if it is there already.
StartLoading(l) ==
  /\ state' = [at |-> "pending", load |-> l, result |-> Error]
  /\ load' = [k \in Load |->
                IF k = l THEN [NoLoad EXCEPT !.pc = IF Cached THEN "file" ELSE "request"]
                ELSE IF k = state.load /\ load[k].pc = "done" THEN NoLoad ELSE load[k]]

\* Whoever has only started a load is done, others wait for it.
AfterStart(t) ==
  IF task[t].kind = "load"
  THEN lock' = Tail(lock) /\ task' = [task EXCEPT ![t] = NoTask]
  ELSE UNCHANGED lock /\ task' = [task EXCEPT ![t].pc = "await"]

\* The lock is there, and what it guards has to be loaded: the KeepAlive is
\* created, and its handle stored; then the list of KeepAlives is locked.
Renew(t) ==
  /\ Holds(t, "lock") /\ must_load(t) /\ Expires
  /\ \E l \in Load : Free(l) /\ handle' = l
  /\ task' = [task EXCEPT ![t].pc = "expiring"]
  /\ UNCHANGED <<lock, state, load, expiring, outside, frontend>>

StartExpiring(t) ==
  /\ Holds(t, "expiring")
  /\ expiring' = Append(expiring, handle)
  /\ StartLoading(handle)
  /\ AfterStart(t)
  /\ UNCHANGED <<handle, outside, frontend>>

StartForGood(t) ==
  /\ Holds(t, "lock") /\ must_load(t) /\ ~Expires
  /\ \E l \in Load : Free(l) /\ StartLoading(l)
  /\ AfterStart(t)
  /\ UNCHANGED <<handle, expiring, outside, frontend>>

\* There is a load on its way, or its result.
Join(t) ==
  /\ Holds(t, "lock") /\ ~must_load(t) /\ task[t].kind # "load" /\ state.at = "pending"
  /\ task' = [task EXCEPT ![t].pc = "await"]
  /\ UNCHANGED <<lock, handle, state, load, expiring, outside, frontend>>

UseLoaded(t) ==
  /\ Holds(t, "lock") /\ ~must_load(t)
  /\ task[t].kind = "load" \/ state.at = "done"
  /\ task[t].kind = "page" => Len(results) < MaxRequests
  /\ Return(t, state.result)
  /\ UNCHANGED <<handle, state, load, expiring, outside, requests, page>>

\* (A bug: only the answers of loads that succeed are kept.)
settled_if_ok(result) == IF result.ok THEN [at |-> "done", load |-> None, result |-> result] ELSE Unloaded
\* What is kept of the result of a load, whatever it is.
settled(result) == [at |-> "done", load |-> None, result |-> result]

\* The load that is awaited is over.
Take(t) ==
  /\ Holds(t, "await") /\ load[state.load].pc = "done"
  /\ task[t].kind = "page" => Len(results) < MaxRequests
  /\ LET result == load[state.load].result
     IN  /\ state' = settled(result)
         /\ Return(t, result)
  /\ load' = [load EXCEPT ![state.load] = NoLoad]
  /\ UNCHANGED <<handle, expiring, outside, requests, page>>

\* A part of the backend wants the data ...
Fetch(t) ==
  /\ Begin(t, "fetch", FALSE)
  /\ UNCHANGED <<handle, state, expiring, load, outside, frontend>>

\* (A bug: the guard of the lock outlives its call.)
handle_without(t) == IF task[t].pc = "expiring" THEN Dead ELSE handle
lock_kept(t) == lock
lock_without(t) ==
  [i \in 1 .. Len(lock) - 1 |-> IF \E j \in 1 .. i : lock[j] = t THEN lock[i + 1] ELSE lock[i]]

\* ... and is dropped where it waits, and with it a KeepAlive that is not in the
\* list yet and its place in the queue for the lock.
Cancel(t) ==
  /\ task[t].kind = "fetch" /\ task[t].pc # "idle"
  /\ task' = [task EXCEPT ![t] = NoTask]
  /\ lock' = lock_without(t)
  /\ handle' = handle_without(t)
  /\ UNCHANGED <<state, load, expiring, outside, frontend>>

-----------------------------------------------------------------------------
(* The task of a load, inner_start_loading. *)

\* The load has its result; nobody wants it if another has taken its place.
Over(result) == [pc |-> "done", fallback |-> None, got |-> None, result |-> result]
Finish(l, result) == load' = [load EXCEPT ![l] = IF state.load = l THEN Over(result) ELSE NoLoad]

correct_hash(v) == Hashed => v = 1

\* (A bug: any file that can be read spares the download.)
any_file_is_enough(v) == correct_hash(v)
file_is_enough(v) == Hashed /\ correct_hash(v)

\* The cache file is read.  A file with the right hash is all there is to it;
\* one without a hash is kept in case the download fails.
ReadFile(l) ==
  /\ load[l].pc = "file"
  /\ IF file # None /\ file_is_enough(file)
     THEN Finish(l, Good(file, FALSE))
     ELSE load' = [load EXCEPT ![l].pc = "request", ![l].fallback = IF Hashed THEN None ELSE file]
  /\ UNCHANGED <<cache, outside, frontend>>

\* The server answers, and the file is not needed any more.  Data with another hash than the
\* known one is refused.
Receive(l) ==
  /\ load[l].pc = "request"
  /\ \E v \in IF Hashed THEN {0, 1} ELSE {server} :
       IF ~correct_hash(v) THEN Finish(l, Error)
       ELSE IF Cached THEN load' = [load EXCEPT ![l].pc = "write", ![l].fallback = None, ![l].got = v]
       ELSE Finish(l, Good(v, FALSE))
  /\ UNCHANGED <<cache, outside, frontend>>

\* What there is instead of an answer.
instead(l) == IF load[l].fallback # None THEN Good(load[l].fallback, TRUE) ELSE Error

\* The download fails: the file has to do.
FailRequest(l) ==
  /\ load[l].pc = "request"
  /\ Finish(l, instead(l))
  /\ UNCHANGED <<cache, outside, frontend>>

\* The data is written to the file, or not, or to its beginning only: then it cannot be
\* parsed and is as good as none.
WriteFile(l) ==
  /\ load[l].pc = "write"
  /\ file' \in {file, load[l].got, None}
  /\ Finish(l, Good(load[l].got, FALSE))
  /\ UNCHANGED <<cache, item, server, frontend>>

ServerChanges ==
  /\ ~Hashed /\ server < MaxServer
  /\ server' = server + 1
  /\ UNCHANGED <<cache, load, item, file, frontend>>

-----------------------------------------------------------------------------
(* The page, and the messages. *)

Send(force) ==
  /\ Len(requests) < MaxRequests
  /\ requests' = Append(requests, force)

\* The page is drawn: it asks for what it has never asked for, and again for
\* what it has of an expired load.
Stale == page.at = "loaded" /\ page.handle = Dead
Draw ==
  /\ Expires
  /\ page.at = "absent" \/ Stale
  /\ Send(FALSE)
  /\ page' = IF page.at = "absent" THEN [page EXCEPT !.at = "loading"] ELSE page
  /\ UNCHANGED <<cache, load, outside, results>>

\* The user asks for the newest data.
ForceReload ==
  /\ Expires
  /\ Len(SelectSeq(requests, LAMBDA force : force)) + Cardinality({t \in Task : task[t].force})
       + Len(expiring) < MaxKeepAlives
  /\ Send(TRUE)
  /\ page' = IF page.at = "absent" THEN [page EXCEPT !.at = "loading"] ELSE page
  /\ UNCHANGED <<cache, load, outside, results>>

\* RequestMetadata is handled: a task is spawned.
HandleRequest ==
  /\ requests # <<>>
  /\ \E t \in Task : Begin(t, "page", Head(requests))
  /\ requests' = Tail(requests)
  /\ UNCHANGED <<handle, state, expiring, load, outside, results, page>>

\* MetadataResult arrives.
SetResult ==
  /\ results # <<>>
  /\ page' = [at |-> "loaded", result |-> Head(results).result, handle |-> Head(results).handle]
  /\ results' = Tail(results)
  /\ UNCHANGED <<cache, load, outside, requests>>

-----------------------------------------------------------------------------
Advance(t) ==
  Renew(t) \/ StartExpiring(t) \/ StartForGood(t) \/ Join(t) \/ UseLoaded(t) \/ Take(t)
LoadStep(l) == ReadFile(l) \/ Receive(l) \/ FailRequest(l) \/ WriteFile(l)

LauncherNext ==
  \/ Expire
  \/ \E t \in Task : Advance(t) \/ Fetch(t) \/ Cancel(t)
  \/ \E l \in Load : LoadStep(l)
  \/ Draw \/ ForceReload \/ HandleRequest \/ SetResult

Next == LauncherNext \/ ServerChanges

Spec == Init /\ [][Next]_vars

\* Tasks run; a request is answered or times out; the lock is fair; messages
\* are handled, also while other parts of the backend want the data; and the
\* page is on the screen and drawn again and again.
Fairness ==
  /\ \A t \in Task : WF_vars(Advance(t))
  /\ \A l \in Load : WF_vars(LoadStep(l))
  /\ SF_vars(HandleRequest)
  /\ WF_vars(SetResult)
  /\ SF_vars(Stale /\ Draw)

\* What the server's data are makes no difference to who waits for whom: here
\* they stay the same.
FairSpec == Init /\ [][LauncherNext]_vars /\ Fairness

-----------------------------------------------------------------------------
(* Properties. *)

\* A page and a cache that hold the same live handle hold the same result: as
\* long as its handle is alive a page shows what the cache would answer, and
\* not what a load before or a load on its way has to say (manager.rs,
\* fetch_with_keepalive: the handle is returned with the result).
SameHandleSameResult ==
  page.at = "loaded" /\ page.handle = handle /\ handle \in Load =>
    state.at = "done" /\ state.result = page.result

\* The page only goes back to older data when a download has failed and the
\* cache file, which may be older, had to do: no answer that was sent earlier
\* arrives later, whatever loads were replaced and go on by themselves.
BackwardsOnlyByFallback ==
  [][page.result.ok /\ page'.result.ok /\ ~page'.result.fallback
       => page.result.value <= page'.result.value]_page

\* A live handle is in the list of those that expire, or about to be: nothing
\* stays valid for ever because its call was dropped halfway.
LiveHandlesExpire ==
  handle \in Load => \/ \E i \in DOMAIN expiring : expiring[i] = handle
                     \/ \E t \in Task : Holds(t, "expiring")

\* Data with a known hash is never served with another, neither from the file
\* nor from the server.
Verified == Hashed /\ state.at = "done" /\ state.result.ok => state.result.value = 1

\* Handles, results and data belong together.
HandlesAreRight == SameHandleSameResult /\ LiveHandlesExpire /\ Verified

\* Every call returns, unless it is dropped, and none is kept waiting by a load
\* that nobody finishes or by a call that went away with the lock.
EveryCallReturns == \A t \in Task : task[t].pc # "idle" ~> task[t].pc = "idle"

\* A page that is drawn again and again gets new data for what has expired,
\* when expiry leaves it the time.
StaleIsRefreshed == <>[][~Expire]_vars => (Stale ~> ~Stale)
=============================================================================
