----------------------------- MODULE NotifySignal -----------------------------
(***************************************************************************)
(* NotifySignal (bridge/src/notify_signal.rs): a flag and a semaphore.     *)
(* The loads of an instance wait for one another with it, through          *)
(* KeepAliveNotifySignal, which notifies when it is dropped.  The          *)
(* semaphore is tokio's, modelled from what the code needs of it.          *)
(***************************************************************************)
EXTENDS Naturals, Sequences

CONSTANTS
  Notifier,   \* threads that call notify
  Waiter,     \* tasks that call await_notification
  MaxPermits  \* Semaphore::MAX_PERMITS: add_permits panics beyond it

ASSUME PermitsAssumption == MaxPermits \in Nat \ {0}
ASSUME DistinctAssumption == Notifier \cap Waiter = {}

VARIABLES
  value,      \* the flag
  pc,         \* where each thread is
  permits,    \* the semaphore's free permits
  waiters     \* the tasks that wait for one, in order

signal == <<value, pc, permits, waiters>>

SignalType ==
  /\ value \in BOOLEAN
  /\ pc \in [Notifier \cup Waiter ->
               {"start", "add", "acquire", "wait", "release", "done", "panic"}]
  /\ permits \in Nat
  /\ waiters \in Seq(Waiter)

SignalInit ==
  /\ value = FALSE
  /\ pc = [t \in Notifier \cup Waiter |-> "start"]
  /\ permits = 0
  /\ waiters = <<>>

-----------------------------------------------------------------------------
(* tokio::sync::Semaphore *)

\* Permits go to the tasks that wait first.
\* (A bug: permits are for the tasks that wait and no other.)
release_to_waiters(n, q, p) ==
  LET m == IF n < Len(q) THEN n ELSE Len(q)
  IN  /\ pc' = [t \in DOMAIN p |-> IF \E i \in 1 .. m : q[i] = t THEN "release" ELSE p[t]]
      /\ waiters' = SubSeq(q, m + 1, Len(q))
      /\ permits' = permits
release(n, q, p) ==
  LET m == IF n < Len(q) THEN n ELSE Len(q)
  IN  /\ pc' = [t \in DOMAIN p |-> IF \E i \in 1 .. m : q[i] = t THEN "release" ELSE p[t]]
      /\ waiters' = SubSeq(q, m + 1, Len(q))
      /\ permits' = permits + (n - m)

-----------------------------------------------------------------------------
\* notify: value.swap(true).
\* (A bug: permits are added by everyone that notifies.)
must_add_always == TRUE
must_add == ~value
Swap(n) ==
  /\ pc[n] = "start"
  /\ value' = TRUE
  /\ pc' = [pc EXCEPT ![n] = IF must_add THEN "add" ELSE "done"]
  /\ UNCHANGED <<permits, waiters>>

AddPermits(n) ==
  /\ pc[n] = "add"
  /\ IF permits + MaxPermits > MaxPermits
     THEN pc' = [pc EXCEPT ![n] = "panic"] /\ UNCHANGED <<permits, waiters>>
     ELSE release(MaxPermits, waiters, [pc EXCEPT ![n] = "done"])
  /\ UNCHANGED value

\* await_notification: is_notified ...
is_notified == value
Check(w) ==
  /\ pc[w] = "start"
  /\ pc' = [pc EXCEPT ![w] = IF is_notified THEN "done" ELSE "acquire"]
  /\ UNCHANGED <<value, permits, waiters>>

\* ... or acquire.
Acquire(w) ==
  /\ pc[w] = "acquire"
  /\ IF permits > 0
     THEN /\ permits' = permits - 1
          /\ pc' = [pc EXCEPT ![w] = "release"]
          /\ UNCHANGED waiters
     ELSE /\ waiters' = Append(waiters, w)
          /\ pc' = [pc EXCEPT ![w] = "wait"]
          /\ UNCHANGED permits
  /\ UNCHANGED value

\* The permit is dropped at once.
Release(w) ==
  /\ pc[w] = "release"
  /\ release(1, waiters, [pc EXCEPT ![w] = "done"])
  /\ UNCHANGED value

Step(t) ==
  \/ t \in Notifier /\ (Swap(t) \/ AddPermits(t))
  \/ t \in Waiter /\ (Check(t) \/ Acquire(t) \/ Release(t))

SignalNext == \E t \in Notifier \cup Waiter : Step(t)

\* A guard is dropped in the end, by its owner's unwinding if by nothing else.
SignalFairness == \A t \in Notifier \cup Waiter : WF_signal(Step(t))

SignalSpec == SignalInit /\ [][SignalNext]_signal /\ SignalFairness

-----------------------------------------------------------------------------
\* Nobody goes on before the signal is given.
NoEarlyReturn == \A w \in Waiter : pc[w] \in {"release", "done"} => value

\* add_permits never panics, whoever notifies again and whoever holds a permit.
NoOverflow ==
  /\ permits <= MaxPermits
  /\ \A n \in Notifier : pc[n] # "panic"

\* A signal is heard by nobody before it is given, and may be given again.
SignalIsSound == NoEarlyReturn /\ NoOverflow

\* Everyone that waits goes on, however the waiting and the notifying interleave:
\* a task that has read the flag and not yet queued up is not forgotten.
EveryoneGoesOn == \A w \in Waiter : <>(pc[w] = "done")
=============================================================================
