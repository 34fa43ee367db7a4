---------------------------- MODULE BridgeProofs ----------------------------
(***************************************************************************)
(* What the frontend and the backend say to one another: signals, requests *)
(* with serials, instances with the ids that messages name them by, and    *)
(* what the dialogs ask to be installed.                                   *)
(***************************************************************************)
EXTENDS SerialChannel, NotifySignal, InstanceRegistry, InstallDialog, FiniteSetTheorems, SequenceTheorems,
        WellFoundedInduction, TLAPS

-----------------------------------------------------------------------------
(* NotifySignal: nobody hears it too early, and add_permits never panics,    *)
(* for any number of threads and permits.                                    *)

Releasing == {w \in Waiter : pc[w] = "release"}
Adding == {n \in Notifier : pc[n] = "add"}

\* Whatever is past the flag has seen it or is about to give it.
Given ==
  /\ \A w \in Waiter : pc[w] \in {"release", "done"} => value
  /\ \A n \in Notifier : pc[n] \in {"add", "done"} => value

\* The one that set the flag adds the permits.
OneAdds == \A m, n \in Adding : m = n

\* Those in the queue wait, each in one place of it.
Queued ==
  /\ \A i \in 1 .. Len(waiters) : pc[waiters[i]] = "wait"
  /\ \A i, j \in 1 .. Len(waiters) : waiters[i] = waiters[j] => i = j

\* Every permit that was added is free or held; none is made or lost.
PermitsKept ==
  /\ IsFiniteSet(Releasing)
  /\ permits + Cardinality(Releasing) = IF value /\ Adding = {} THEN MaxPermits ELSE 0

NobodyPanics == \A n \in Notifier : pc[n] # "panic"

SignalInv == SignalType /\ Given /\ OneAdds /\ Queued /\ PermitsKept /\ NobodyPanics

\* n permits are given to those that wait first, and the rest of them are free.
LEMMA ReleaseGives ==
  ASSUME MaxPermits \in Nat, SignalType, NEW n \in Nat,
         NEW p \in [Notifier \cup Waiter ->
                      {"start", "add", "acquire", "wait", "release", "done", "panic"}],
         \A i \in 1 .. Len(waiters) : p[waiters[i]] = "wait",
         \A i, j \in 1 .. Len(waiters) : waiters[i] = waiters[j] => i = j,
         IsFiniteSet({w \in Waiter : p[w] = "release"}),
         release(n, waiters, p), UNCHANGED value
  PROVE  /\ SignalType' /\ Queued' /\ IsFiniteSet(Releasing')
         /\ permits' + Cardinality(Releasing') = permits + n + Cardinality({w \in Waiter : p[w] = "release"})
         /\ \A t \in Notifier \cup Waiter :
              pc'[t] # p[t] => t \in Waiter /\ p[t] = "wait" /\ pc'[t] = "release"
<1> DEFINE m == IF n < Len(waiters) THEN n ELSE Len(waiters)
           held == {w \in Waiter : p[w] = "release"}
           first == {waiters[i] : i \in 1 .. m}
<1>1. waiters \in Seq(Waiter) /\ Len(waiters) \in Nat /\ m \in Nat /\ m <= Len(waiters) /\ m <= n /\ permits \in Nat
  BY DEF SignalType
<1>2. /\ pc' = [t \in Notifier \cup Waiter |-> IF \E i \in 1 .. m : waiters[i] = t THEN "release" ELSE p[t]]
      /\ waiters' = SubSeq(waiters, m + 1, Len(waiters))
      /\ permits' = permits + (n - m)
  BY DEF release
<1>3. \A i \in 1 .. Len(waiters) : waiters[i] \in Waiter
  BY <1>1
<1>4. /\ waiters' \in Seq(Waiter) /\ Len(waiters') = Len(waiters) - m
      /\ \A i \in 1 .. Len(waiters') : waiters'[i] = waiters[m + i] /\ m + i \in 1 .. Len(waiters)
  <2>1. \A i \in m + 1 .. Len(waiters) : waiters[i] \in Waiter  BY <1>1, <1>3
  <2>2. m + 1 \in Int /\ Len(waiters) \in Int  BY <1>1
  <2> HIDE DEF m
  <2>3. /\ waiters' \in Seq(Waiter)
        /\ Len(waiters') = IF m + 1 <= Len(waiters) THEN Len(waiters) - (m + 1) + 1 ELSE 0
        /\ \A i \in 1 .. Len(waiters) - (m + 1) + 1 : waiters'[i] = waiters[m + 1 + i - 1]
    BY <1>2, <2>1, <2>2, SubSeqProperties
  <2>4. Len(waiters') = Len(waiters) - m  BY <1>1, <2>3
  <2>5. ASSUME NEW i \in 1 .. Len(waiters')
        PROVE  waiters'[i] = waiters[m + i] /\ m + i \in 1 .. Len(waiters)
    <3>1. m + 1 + i - 1 = m + i  BY <1>1
    <3> QED BY <1>1, <2>3, <2>4, <3>1
  <2> QED BY <2>3, <2>4, <2>5
<1>5. \A t \in Notifier \cup Waiter :
        pc'[t] # p[t] => t \in Waiter /\ p[t] = "wait" /\ pc'[t] = "release"
  BY <1>1, <1>2, <1>3
<1>6. SignalType'
  <2>1. value' \in BOOLEAN  BY Zenon DEF SignalType
  <2>2. pc' \in [Notifier \cup Waiter ->
               {"start", "add", "acquire", "wait", "release", "done", "panic"}]
    BY <1>2
  <2>3. permits' \in Nat  BY <1>1, <1>2
  <2> QED BY <1>4, <2>1, <2>2, <2>3 DEF SignalType
<1>7. Queued'
  <2>1. ASSUME NEW i \in 1 .. Len(waiters') PROVE pc'[waiters'[i]] = "wait"
    <3>1. waiters'[i] = waiters[m + i] /\ m + i \in 1 .. Len(waiters)  BY <1>4
    <3>2. ~ \E j \in 1 .. m : waiters[j] = waiters[m + i]
      BY <1>1, <3>1
    <3>3. waiters[m + i] \in Waiter /\ p[waiters[m + i]] = "wait"  BY <1>3, <3>1
    <3> QED BY <1>2, <3>1, <3>2, <3>3
  <2>2. ASSUME NEW i \in 1 .. Len(waiters'), NEW j \in 1 .. Len(waiters'), waiters'[i] = waiters'[j]
        PROVE  i = j
    BY <1>1, <1>4, <2>2
  <2> QED BY <2>1, <2>2 DEF Queued
<1>8. IsFiniteSet(first) /\ Cardinality(first) = m
  <2> DEFINE f == [i \in 1 .. m |-> waiters[i]]
  <2>1. f \in [1 .. m -> first] /\ \A t \in first : \E i \in 1 .. m : f[i] = t
    OBVIOUS
  <2>2. \A i, j \in 1 .. m : f[i] = f[j] => i = j
    BY <1>1
  <2>3. f \in Bijection(1 .. m, first)
    BY <2>1, <2>2 DEF Bijection, Injection, Surjection, IsInjective
  <2>4. IsFiniteSet(1 .. m) /\ Cardinality(1 .. m) = m
    <3>1. 1 \in Int /\ m \in Int /\ (IF 1 > m THEN 0 ELSE m - 1 + 1) = m  BY <1>1
    <3> HIDE DEF m
    <3> QED BY <3>1, FS_Interval
  <2>5. ExistsBijection(1 .. m, first)
    BY <2>3 DEF ExistsBijection
  <2> QED BY <2>4, <2>5, FS_Bijection
<1>9. Releasing' = held \cup first /\ held \cap first = {}
  <2>1. held \cap first = {}
    BY <1>1
  <2>2. ASSUME NEW w \in Waiter PROVE pc'[w] = "release" <=> w \in held \cup first
    BY <1>2
  <2>3. first \subseteq Waiter
    BY <1>1, <1>3
  <2> QED BY <2>1, <2>2, <2>3 DEF Releasing
<1>10. IsFiniteSet(Releasing') /\ Cardinality(Releasing') = Cardinality(held) + m
  <2>1. IsFiniteSet(held \cap first) /\ Cardinality(held \cap first) = 0
    BY <1>9, FS_EmptySet
  <2>2. Cardinality(held) \in Nat
    BY FS_CardinalityType
  <2>3. IsFiniteSet(held \cup first)
        /\ Cardinality(held \cup first) = Cardinality(held) + Cardinality(first) - Cardinality(held \cap first)
    BY <1>8, FS_Union
  <2> QED BY <1>1, <1>8, <1>9, <2>1, <2>2, <2>3
<1>11. Cardinality(held) \in Nat  BY FS_CardinalityType
<1>12. permits' + Cardinality(Releasing') = permits + n + Cardinality(held)
  <2> HIDE DEF m, held
  <2> QED BY <1>1, <1>2, <1>10, <1>11
<1> QED BY <1>5, <1>6, <1>7, <1>10, <1>12

\* Nobody has come yet.
LEMMA SignalInvInitially == SignalInit => SignalInv
<1> SUFFICES ASSUME SignalInit PROVE SignalInv  OBVIOUS
<1>1. SignalType
  <2>1. value \in BOOLEAN /\ permits \in Nat  BY DEF SignalInit
  <2>2. waiters \in Seq(Waiter)  BY DEF SignalInit
  <2> QED BY <2>1, <2>2 DEF SignalInit, SignalType
<1>2. Releasing = {} /\ Adding = {}  BY DEF SignalInit, Releasing, Adding
<1>3. PermitsKept  BY <1>2, FS_EmptySet DEF SignalInit, PermitsKept
<1>4. Given /\ OneAdds /\ Queued /\ NobodyPanics
  BY <1>2 DEF SignalInit, Given, OneAdds, Queued, NobodyPanics
<1> QED BY <1>1, <1>3, <1>4 DEF SignalInv

\* Every step of a notifier or of a waiter keeps it.
LEMMA SignalInvStays == SignalInv /\ [SignalNext]_signal => SignalInv'
<1> SUFFICES ASSUME SignalInv, [SignalNext]_signal PROVE SignalInv'  OBVIOUS
<1> USE DEF SignalInv
<1>1. MaxPermits \in Nat \ {0} /\ Notifier \cap Waiter = {}
  BY PermitsAssumption, DistinctAssumption
<1>2. ASSUME NEW n \in Notifier, Swap(n) PROVE SignalInv'
  <2>1. n \notin Waiter /\ pc[n] = "start" /\ UNCHANGED <<permits, waiters>>  BY <1>1, <1>2 DEF Swap
  <2>2. value' = TRUE  BY <1>2 DEF Swap
  <2>3. pc' = [pc EXCEPT ![n] = IF value THEN "done" ELSE "add"]
    <3>1. must_add <=> ~value  BY DEF must_add
    <3> QED BY <1>2, <3>1 DEF Swap
  <2>4. SignalType'
    <3>1. pc' \in [Notifier \cup Waiter ->
                {"start", "add", "acquire", "wait", "release", "done", "panic"}]
      BY <2>3 DEF SignalType
    <3> QED BY <2>1, <2>2, <3>1 DEF SignalType
  <2>5. \A t \in Notifier \cup Waiter : t # n => pc'[t] = pc[t]  BY <2>3 DEF SignalType
  <2>6. Releasing' = Releasing  BY <2>1, <2>5 DEF Releasing
  <2>7. Adding' = IF value THEN Adding ELSE {n}
    <3>1. CASE value
      BY <2>1, <2>3, <3>1 DEF Adding, SignalType
    <3>2. CASE ~value
      <4>1. \A k \in Notifier : pc[k] # "add"  BY <3>2 DEF Given
      <4> QED BY <2>3, <3>2, <4>1 DEF Adding, SignalType
    <3> QED BY <3>1, <3>2
  <2>8. Given'  BY <2>2 DEF Given
  <2>9. OneAdds'  BY <2>7 DEF OneAdds
  <2>10. Queued'
    <3>1. \A i \in 1 .. Len(waiters) : waiters[i] \in Waiter  BY DEF SignalType
    <3> QED BY <2>1, <2>5, <3>1 DEF Queued
  <2>11. PermitsKept'
    <3>1. CASE value  BY <2>1, <2>2, <2>6, <2>7, <3>1 DEF PermitsKept
    <3>2. CASE ~value  BY <2>1, <2>2, <2>6, <2>7, <3>2 DEF PermitsKept
    <3> QED BY <3>1, <3>2
  <2>12. NobodyPanics'  BY <2>3 DEF NobodyPanics, SignalType
  <2> QED BY <2>4, <2>8, <2>9, <2>10, <2>11, <2>12
<1>3. ASSUME NEW n \in Notifier, AddPermits(n) PROVE SignalInv'
  <2> DEFINE p == [pc EXCEPT ![n] = "done"]
  <2>1. n \notin Waiter /\ pc[n] = "add" /\ n \in Adding /\ value' = value  BY <1>1, <1>3 DEF AddPermits, Adding
  <2>2. value  BY <2>1 DEF Given
  <2>3. permits = 0 /\ Cardinality(Releasing) = 0
    <3>1. Cardinality(Releasing) \in Nat  BY FS_CardinalityType DEF PermitsKept
    <3> QED BY <2>1, <3>1 DEF PermitsKept, SignalType
  <2>4. release(MaxPermits, waiters, p)
    BY <1>1, <1>3, <2>3 DEF AddPermits
  <2>5. p \in [Notifier \cup Waiter ->
                {"start", "add", "acquire", "wait", "release", "done", "panic"}]
    BY DEF SignalType
  <2>6. /\ \A i \in 1 .. Len(waiters) : p[waiters[i]] = "wait"
        /\ \A i, j \in 1 .. Len(waiters) : waiters[i] = waiters[j] => i = j
    <3>1. \A i \in 1 .. Len(waiters) : waiters[i] \in Waiter  BY DEF SignalType
    <3> QED BY <2>1, <3>1 DEF Queued, SignalType
  <2>7. {w \in Waiter : p[w] = "release"} = Releasing
    BY <2>1 DEF Releasing, SignalType
  <2>8. MaxPermits \in Nat /\ IsFiniteSet(Releasing)  BY <1>1 DEF PermitsKept
  <2>9. /\ SignalType' /\ Queued' /\ IsFiniteSet(Releasing')
        /\ permits' + Cardinality(Releasing') = permits + MaxPermits + Cardinality(Releasing)
        /\ \A t \in Notifier \cup Waiter :
             pc'[t] # p[t] => t \in Waiter /\ p[t] = "wait" /\ pc'[t] = "release"
    <3> HIDE DEF p, SignalInv
    <3>1. SignalType  BY DEF SignalInv
    <3> QED BY <2>1, <2>4, <2>5, <2>6, <2>7, <2>8, <3>1, ReleaseGives
  <2>10. Adding' = {}
    <3>1. \A k \in Adding : k = n  BY <2>1 DEF OneAdds
    <3>2. \A k \in Notifier : p[k] # "add"  BY <3>1 DEF Adding, SignalType
    <3>3. \A k \in Notifier : pc'[k] = p[k]  BY <1>1, <2>9
    <3> QED BY <3>2, <3>3 DEF Adding
  <2>11. PermitsKept'  BY <1>1, <2>1, <2>2, <2>3, <2>9, <2>10 DEF PermitsKept
  <2>12. Given' /\ OneAdds'  BY <2>1, <2>2, <2>10 DEF Given, OneAdds
  <2>13. NobodyPanics'
    <3>1. \A k \in Notifier : pc'[k] = p[k]  BY <1>1, <2>9
    <3> QED BY <3>1 DEF NobodyPanics, SignalType
  <2> QED BY <2>9, <2>11, <2>12, <2>13
<1>4. ASSUME NEW w \in Waiter, Check(w) PROVE SignalInv'
  <2>1. w \notin Notifier /\ pc[w] = "start" /\ UNCHANGED <<value, permits, waiters>>  BY <1>1, <1>4 DEF Check
  <2>2. pc' = [pc EXCEPT ![w] = IF value THEN "done" ELSE "acquire"]
    <3>1. is_notified = value  BY DEF is_notified
    <3> QED BY <1>4, <3>1 DEF Check
  <2>3. SignalType'
    <3>1. pc' \in [Notifier \cup Waiter ->
                {"start", "add", "acquire", "wait", "release", "done", "panic"}]
      BY <2>2 DEF SignalType
    <3>2. value' \in BOOLEAN  BY <2>1, Zenon DEF SignalType
    <3> QED BY <2>1, <3>1, <3>2 DEF SignalType
  <2>4. \A t \in Notifier \cup Waiter : t # w => pc'[t] = pc[t]  BY <2>2 DEF SignalType
  <2>5. Releasing' = Releasing /\ Adding' = Adding
    <3>1. pc'[w] # "release"  BY <2>2 DEF SignalType
    <3> QED BY <2>1, <2>4, <3>1 DEF Releasing, Adding
  <2>6. PermitsKept' /\ OneAdds'  BY <2>1, <2>5 DEF PermitsKept, OneAdds
  <2>7. Given'
    <3>1. pc'[w] = "done" => value  BY <2>2 DEF SignalType
    <3>2. pc'[w] # "release"  BY <2>2 DEF SignalType
    <3> QED BY <2>1, <2>4, <3>1, <3>2 DEF Given
  <2>8. Queued' /\ NobodyPanics'
    <3>1. \A i \in 1 .. Len(waiters) : waiters[i] \in Waiter  BY DEF SignalType
    <3> QED BY <2>1, <2>4, <3>1 DEF Queued, NobodyPanics
  <2> QED BY <2>3, <2>6, <2>7, <2>8
<1>5. ASSUME NEW w \in Waiter, Acquire(w) PROVE SignalInv'
  <2>1. w \notin Notifier /\ pc[w] = "acquire" /\ value' = value /\ w \notin Releasing
    BY <1>1, <1>5 DEF Acquire, Releasing
  <2>2. value' \in BOOLEAN  BY <2>1, Zenon DEF SignalType
  <2>3. \A i \in 1 .. Len(waiters) : waiters[i] \in Waiter /\ waiters[i] # w
    BY <2>1 DEF SignalType, Queued
  <2>4. CASE permits > 0
    <3>1. permits' = permits - 1 /\ pc' = [pc EXCEPT ![w] = "release"] /\ waiters' = waiters
      BY <1>5, <2>4 DEF Acquire
    <3>2. \A t \in Notifier \cup Waiter : t # w => pc'[t] = pc[t]  BY <3>1 DEF SignalType
    <3>3. Releasing' = Releasing \cup {w} /\ Adding' = Adding
      BY <2>1, <3>1, <3>2 DEF Releasing, Adding, SignalType
    <3>4. /\ IsFiniteSet(Releasing) /\ IsFiniteSet(Releasing') /\ Cardinality(Releasing) \in Nat
          /\ Cardinality(Releasing') = Cardinality(Releasing) + 1
      BY <2>1, <3>3, FS_AddElement, FS_CardinalityType DEF PermitsKept
    <3>5. PermitsKept'
      BY <2>1, <2>4, <3>1, <3>3, <3>4 DEF PermitsKept, SignalType
    <3>6. value
      BY <1>1, <2>4, <3>4 DEF PermitsKept, SignalType
    <3>7. SignalType'
      <4>1. pc' \in [Notifier \cup Waiter ->
                {"start", "add", "acquire", "wait", "release", "done", "panic"}]
        BY <3>1 DEF SignalType
      <4>2. permits' \in Nat  BY <2>4, <3>1 DEF SignalType
      <4> QED BY <2>2, <3>1, <4>1, <4>2 DEF SignalType
    <3>8. Given' /\ OneAdds' /\ NobodyPanics'
      BY <2>1, <3>2, <3>3, <3>6 DEF Given, OneAdds, NobodyPanics
    <3>9. Queued'  BY <2>3, <3>1, <3>2 DEF Queued
    <3> QED BY <3>5, <3>7, <3>8, <3>9
  <2>5. CASE ~(permits > 0)
    <3>1. permits' = permits /\ pc' = [pc EXCEPT ![w] = "wait"] /\ waiters' = Append(waiters, w)
      BY <1>5, <2>5 DEF Acquire
    <3>2. \A t \in Notifier \cup Waiter : t # w => pc'[t] = pc[t]  BY <3>1 DEF SignalType
    <3>3. Releasing' = Releasing /\ Adding' = Adding
      BY <2>1, <3>1, <3>2 DEF Releasing, Adding, SignalType
    <3>4. /\ waiters' \in Seq(Waiter) /\ Len(waiters') = Len(waiters) + 1 /\ Len(waiters) \in Nat
          /\ waiters'[Len(waiters) + 1] = w
          /\ \A i \in 1 .. Len(waiters) : waiters'[i] = waiters[i]
      BY <3>1 DEF SignalType
    <3>5. SignalType'
      <4>1. pc' \in [Notifier \cup Waiter ->
                {"start", "add", "acquire", "wait", "release", "done", "panic"}]
        BY <3>1 DEF SignalType
      <4> QED BY <2>2, <3>1, <3>4, <4>1 DEF SignalType
    <3>6. PermitsKept' /\ OneAdds'  BY <2>1, <3>1, <3>3 DEF PermitsKept, OneAdds
    <3>7. Given' /\ NobodyPanics'
      <4>1. pc'[w] = "wait"  BY <3>1 DEF SignalType
      <4> QED BY <2>1, <3>2, <4>1 DEF Given, NobodyPanics
    <3>8. Queued'
      <4>1. pc'[w] = "wait"  BY <3>1 DEF SignalType
      <4>2. \A i \in 1 .. Len(waiters') : i \in 1 .. Len(waiters) \/ i = Len(waiters) + 1
        BY <3>4
      <4>3. \A i \in 1 .. Len(waiters') : pc'[waiters'[i]] = "wait"
        BY <2>3, <3>2, <3>4, <4>1, <4>2 DEF Queued
      <4>4. \A i, j \in 1 .. Len(waiters') : waiters'[i] = waiters'[j] => i = j
        BY <2>3, <3>4, <4>2 DEF Queued
      <4> QED BY <4>3, <4>4 DEF Queued
    <3> QED BY <3>5, <3>6, <3>7, <3>8
  <2> QED BY <2>4, <2>5
<1>6. ASSUME NEW w \in Waiter, Release(w) PROVE SignalInv'
  <2> DEFINE p == [pc EXCEPT ![w] = "done"]
  <2>1. /\ w \notin Notifier /\ pc[w] = "release" /\ value' = value /\ w \in Releasing
        /\ release(1, waiters, p)
    BY <1>1, <1>6 DEF Release, Releasing
  <2>2. value  BY <2>1 DEF Given
  <2>3. p \in [Notifier \cup Waiter ->
                {"start", "add", "acquire", "wait", "release", "done", "panic"}]
    BY DEF SignalType
  <2>4. /\ \A i \in 1 .. Len(waiters) : p[waiters[i]] = "wait"
        /\ \A i, j \in 1 .. Len(waiters) : waiters[i] = waiters[j] => i = j
    <3>1. \A i \in 1 .. Len(waiters) : waiters[i] \in Waiter  BY DEF SignalType
    <3> QED BY <2>1, <3>1 DEF Queued, SignalType
  <2>5. {v \in Waiter : p[v] = "release"} = Releasing \ {w}
    BY DEF Releasing, SignalType
  <2>6. /\ IsFiniteSet(Releasing) /\ IsFiniteSet(Releasing \ {w}) /\ Cardinality(Releasing) \in Nat
        /\ Cardinality(Releasing \ {w}) = Cardinality(Releasing) - 1
    BY <2>1, FS_RemoveElement, FS_CardinalityType DEF PermitsKept
  <2>7. /\ SignalType' /\ Queued' /\ IsFiniteSet(Releasing')
        /\ permits' + Cardinality(Releasing') = permits + 1 + Cardinality(Releasing \ {w})
        /\ \A t \in Notifier \cup Waiter :
             pc'[t] # p[t] => t \in Waiter /\ p[t] = "wait" /\ pc'[t] = "release"
    <3> HIDE DEF p, SignalInv
    <3>1. SignalType /\ MaxPermits \in Nat /\ 1 \in Nat  BY <1>1 DEF SignalInv
    <3> DEFINE held == {v \in Waiter : p[v] = "release"}
    <3>2. held = Releasing \ {w} /\ IsFiniteSet(held)  BY <2>5, <2>6
    <3>3. /\ SignalType' /\ Queued' /\ IsFiniteSet(Releasing')
          /\ permits' + Cardinality(Releasing') = permits + 1 + Cardinality(held)
          /\ \A t \in Notifier \cup Waiter :
               pc'[t] # p[t] => t \in Waiter /\ p[t] = "wait" /\ pc'[t] = "release"
      BY <2>1, <2>3, <2>4, <3>1, <3>2, ReleaseGives
    <3> QED BY <3>2, <3>3
  <2>8. \A k \in Notifier : pc'[k] = pc[k]
    BY <1>1, <2>1, <2>7 DEF SignalType
  <2>9. Adding' = Adding  BY <2>8 DEF Adding
  <2>10. PermitsKept'
    BY <2>1, <2>6, <2>7, <2>9 DEF PermitsKept, SignalType
  <2>11. Given' /\ OneAdds' /\ NobodyPanics'
    BY <2>1, <2>2, <2>8, <2>9 DEF Given, OneAdds, NobodyPanics
  <2> QED BY <2>7, <2>10, <2>11
<1>7. CASE UNCHANGED signal
  BY <1>7 DEF signal, SignalType, Given, OneAdds, Queued, PermitsKept, NobodyPanics, Releasing, Adding
<1> QED BY <1>2, <1>3, <1>4, <1>5, <1>6, <1>7 DEF SignalNext, Step

\* A task goes on only after the signal is given, and add_permits never goes beyond
\* what the semaphore holds: the flag lets one thread add them, once (notify_signal.rs).
THEOREM SignalsAreSound == SignalSpec => []SignalIsSound
<1>1. SignalInv => SignalIsSound
  <2> SUFFICES ASSUME SignalInv PROVE SignalIsSound  OBVIOUS
  <2>1. Cardinality(Releasing) \in Nat  BY FS_CardinalityType DEF SignalInv, PermitsKept
  <2>2. permits <= MaxPermits
    BY <2>1, PermitsAssumption DEF SignalInv, PermitsKept, SignalType
  <2> QED BY <2>2 DEF SignalInv, Given, NobodyPanics, SignalIsSound, NoEarlyReturn, NoOverflow
<1> QED BY <1>1, SignalInvInitially, SignalInvStays, PTL DEF SignalSpec

-----------------------------------------------------------------------------
(* SerialChannel: with one thread that draws, every request is on its way,   *)
(* and once, for any number of slots and messages, wherever serials wrap.    *)

\* How many serials ago, or to go, x is from base.
Offset(base, x) == IF x >= base THEN x - base ELSE x - base + Modulus

\* A serial is one more than the one before it, or zero again.
LEMMA AfterIs ==
  ASSUME NEW n \in Serial
  PROVE  after(n) = IF n + 1 < Modulus THEN n + 1 ELSE 0
<1>1. Modulus \in Nat /\ Modulus > 0 /\ n \in Nat /\ n < Modulus
  BY ModulusAssumption DEF Serial
<1>2. CASE n + 1 < Modulus
  BY <1>1, <1>2 DEF after
<1>3. CASE n + 1 = Modulus
  BY <1>1, <1>3 DEF after
<1> QED BY <1>1, <1>2, <1>3

\* The next serial is one further from base, wherever it wraps.
LEMMA NextOffset ==
  ASSUME NEW base \in Serial, NEW n \in Serial, Offset(base, n) < MaxSerials
  PROVE  after(n) \in Serial /\ Offset(base, after(n)) = Offset(base, n) + 1
BY AfterIs, ModulusAssumption DEF Offset, Serial, Half

\* partial_cmp tells which of two serials was given out first, wherever they wrap.
LEMMA BeforeIsOrder ==
  ASSUME NEW base \in Serial, NEW x \in Serial, NEW y \in Serial,
         Offset(base, x) <= MaxSerials, Offset(base, y) <= MaxSerials
  PROVE  before(x, y) <=> Offset(base, x) < Offset(base, y)
<1>1. Modulus \in Nat /\ MaxSerials \in Nat /\ MaxSerials < Half /\ Half = (Modulus - 1) \div 2
  BY ModulusAssumption DEF Half
<1>2. 2 * Half <= Modulus - 1 /\ Half \in Int
  BY <1>1
<1> QED BY <1>1, <1>2 DEF before, Offset, Serial

\* Serials go up from base to the one given out last.
Numbers(base) ==
  /\ Offset(base, next) = given
  /\ Offset(base, processed) <= given
  /\ \A s \in Slot : slot[s] # NoSerial => Offset(base, slot[s]) \in 1 .. given

\* What is on its way has not been processed, and comes in the order of its serials.
InLine(base) ==
  /\ \A m \in Messages : m.serial # NoSerial =>
       Offset(base, m.serial) \in Offset(base, processed) + 1 .. given
  /\ \A i, j \in 1 .. Len(queue) :
       i < j /\ queue[i].serial # NoSerial /\ queue[j].serial # NoSerial =>
         Offset(base, queue[i].serial) < Offset(base, queue[j].serial)
  /\ \A i \in 1 .. Len(queue) :
       hand # NoSerial /\ hand.serial # NoSerial /\ queue[i].serial # NoSerial =>
         Offset(base, hand.serial) < Offset(base, queue[i].serial)

\* The serial of a message that is not in the queue yet is the last.
Coming(base) ==
  \A a \in Sender : sender[a].at \in {"record", "push"} =>
    /\ Offset(base, sender[a].serial) = given
    /\ Offset(base, processed) < given
    /\ \A m \in Messages : m.serial # NoSerial => Offset(base, m.serial) < given

\* A slot keeps the serial of its last message, until that has been processed.
SlotsRemember(base) ==
  /\ \A a \in Sender :
       sender[a].at \in {"compare", "push"} => sender[a].serial = slot[sender[a].slot]
  /\ \A s \in Slot : \A m \in Waiting(s) : m.serial = slot[s]
  /\ \A s \in Slot : Sending(s) => Waiting(s) = {}
  /\ \A s \in Slot : slot[s] # NoSerial /\ Offset(base, processed) < Offset(base, slot[s]) =>
       Waiting(s) # {} \/ \E a \in Sender : sender[a].at = "push" /\ sender[a].slot = s

InvFrom(base) == Numbers(base) /\ InLine(base) /\ Coming(base) /\ SlotsRemember(base)
ChannelInv == ChannelType /\ AskedIsComing /\ \E base \in Serial : InvFrom(base)

\* Only the frontend's own thread draws pages.
OneSender == \A a, b \in Sender : a = b

Point == {"idle", "compare", "number", "record", "push"}
Posting == [at : Point, slot : Slot \cup {NoSerial}, serial : Serial \cup {NoSerial}]

\* A sender that is sending has a slot, and a serial once it has taken one.
LEMMA SenderState ==
  ASSUME ChannelType, NEW a \in Sender
  PROVE  /\ sender[a] \in Posting
         /\ sender[a].at \in Point
         /\ sender[a].at # "idle" => sender[a].slot \in Slot
         /\ sender[a].at \in {"compare", "record", "push"} => sender[a].serial \in Serial
         /\ sender[a] = [at |-> sender[a].at, slot |-> sender[a].slot, serial |-> sender[a].serial]
<1>1. sender[a] \in [at : {"compare", "record", "push"}, slot : Slot, serial : Serial]
         \cup [at : {"number"}, slot : Slot, serial : {NoSerial}] \cup {NotSending}
  BY DEF ChannelType
<1>2. CASE sender[a] \in [at : {"compare", "record", "push"}, slot : Slot, serial : Serial]
  BY <1>2 DEF Posting, Point
<1>3. CASE sender[a] \in [at : {"number"}, slot : Slot, serial : {NoSerial}]
  BY <1>3 DEF Posting, Point
<1>4. CASE sender[a] = NotSending
  BY <1>4 DEF Posting, Point, NotSending
<1> QED BY <1>1, <1>2, <1>3, <1>4

\* A message has a slot and a serial, or neither.
LEMMA MessageState ==
  ASSUME ChannelType
  PROVE  /\ \A i \in 1 .. Len(queue) : queue[i] \in Envelope /\ queue[i] \in Messages
         /\ Messages \subseteq Envelope
         /\ \A m \in Envelope : /\ m = [slot |-> m.slot, serial |-> m.serial]
                                /\ m.slot \in Slot \cup {NoSerial}
                                /\ m.serial \in Serial \cup {NoSerial}
                                /\ m.serial # NoSerial <=> m.slot \in Slot
<1>1. queue \in Seq(Envelope) /\ hand \in Envelope \cup {NoSerial}
  BY DEF ChannelType
<1>2. \A i \in 1 .. Len(queue) : queue[i] \in Envelope /\ queue[i] \in Messages
  BY <1>1 DEF Messages
<1>3. Messages \subseteq Envelope
  BY <1>1, <1>2 DEF Messages
<1>4. ASSUME NEW m \in Envelope
      PROVE  /\ m = [slot |-> m.slot, serial |-> m.serial]
             /\ m.slot \in Slot \cup {NoSerial}
             /\ m.serial \in Serial \cup {NoSerial}
             /\ m.serial # NoSerial <=> m.slot \in Slot
  <2>1. NoSerial \notin Slot /\ \A n \in Serial : n # NoSerial
    BY SlotAssumption DEF Serial
  <2>2. CASE m \in [slot : Slot, serial : Serial]  BY <2>1, <2>2
  <2>3. CASE m = Plain  BY <2>1, <2>3 DEF Plain
  <2> QED BY <1>4, <2>2, <2>3 DEF Envelope
<1> QED BY <1>2, <1>3, <1>4

\* Offsets are counts.
LEMMA OffsetIsNat ==
  ASSUME NEW base \in Serial, NEW x \in Serial
  PROVE  Offset(base, x) \in Nat
BY ModulusAssumption DEF Offset, Serial

\* The channel starts with nothing asked for.
LEMMA ChannelInvInitially == ChannelInit => ChannelInv
<1> SUFFICES ASSUME ChannelInit PROVE ChannelInv  OBVIOUS
<1>1. ChannelType
  <2>1. processed \in Serial /\ next \in Serial /\ given \in 0 .. MaxSerials
    BY ModulusAssumption DEF ChannelInit
  <2>2. slot \in [Slot -> Serial \cup {NoSerial}] /\ asked \in SUBSET Slot /\ hand \in Envelope \cup {NoSerial}
    BY DEF ChannelInit
  <2>3. queue \in Seq(Envelope)  BY DEF ChannelInit
  <2>4. sender \in [Sender ->
       [at : {"compare", "record", "push"}, slot : Slot, serial : Serial]
         \cup [at : {"number"}, slot : Slot, serial : {NoSerial}] \cup {NotSending}]
    BY DEF ChannelInit
  <2> QED BY <2>1, <2>2, <2>3, <2>4 DEF ChannelType
<1>2. Messages = {} /\ asked = {}
  BY DEF ChannelInit, Messages
<1>3. \A a \in Sender : sender[a].at = "idle"
  BY DEF ChannelInit, NotSending
<1>4. AskedIsComing  BY <1>2 DEF AskedIsComing
<1>5. Numbers(processed)
  BY <1>1, ModulusAssumption DEF Numbers, ChannelInit, Offset, Serial
<1>6. InLine(processed) /\ Coming(processed)
  BY <1>2, <1>3 DEF InLine, Coming, ChannelInit
<1>7. SlotsRemember(processed)
  <2>1. \A s \in Slot : Waiting(s) = {} /\ slot[s] = NoSerial  BY <1>2 DEF Waiting, ChannelInit
  <2> QED BY <1>3, <2>1 DEF SlotsRemember
<1>8. processed \in Serial  BY DEF ChannelInit
<1> QED BY <1>1, <1>4, <1>5, <1>6, <1>7, <1>8 DEF ChannelInv, InvFrom

\* A step of the one sender: where it is next, and what it leaves alone.
LEMMA SenderMoves ==
  ASSUME OneSender, ChannelType, NEW a \in Sender, NEW p,
         sender' = [sender EXCEPT ![a] = p]
  PROVE  /\ \A b \in Sender : sender'[b] = p
         /\ p \in [at : {"compare", "record", "push"}, slot : Slot, serial : Serial]
              \cup [at : {"number"}, slot : Slot, serial : {NoSerial}] \cup {NotSending}
            => sender' \in [Sender ->
                 [at : {"compare", "record", "push"}, slot : Slot, serial : Serial]
                   \cup [at : {"number"}, slot : Slot, serial : {NoSerial}] \cup {NotSending}]
<1> DEFINE S == [at : {"compare", "record", "push"}, slot : Slot, serial : Serial]
                  \cup [at : {"number"}, slot : Slot, serial : {NoSerial}] \cup {NotSending}
<1>1. sender \in [Sender -> S]  BY DEF ChannelType
<1> HIDE DEF S
<1>2. \A b \in Sender : b = a  BY DEF OneSender
<1>3. \A b \in Sender : sender'[b] = p  BY <1>1, <1>2
<1>4. p \in S => sender' \in [Sender -> S]  BY <1>1
<1> QED BY <1>3, <1>4 DEF S

\* A request with an empty slot, or a slot that may have been processed.
LEMMA AskKeeps ==
  ASSUME OneSender, ChannelInv, NEW a \in Sender, NEW s \in Slot, Ask(a, s)
  PROVE  ChannelInv'
<1> DEFINE p == [at |-> IF slot[s] = NoSerial THEN "number" ELSE "compare", slot |-> s, serial |-> slot[s]]
<1>1. ChannelType /\ AskedIsComing  BY DEF ChannelInv
<1>2. PICK base \in Serial : InvFrom(base)  BY DEF ChannelInv
<1>3. /\ sender' = [sender EXCEPT ![a] = p] /\ asked' = asked \cup {s}
      /\ UNCHANGED <<processed, next, given, slot, queue, hand>>
      /\ sender[a].at = "idle"
  BY DEF Ask, NotSending
<1>4. /\ p.at = IF slot[s] = NoSerial THEN "number" ELSE "compare"
      /\ p.slot = s /\ p.serial = slot[s]
  OBVIOUS
<1>5. p \in [at : {"compare", "record", "push"}, slot : Slot, serial : Serial]
         \cup [at : {"number"}, slot : Slot, serial : {NoSerial}] \cup {NotSending}
  BY <1>1 DEF ChannelType
<1> HIDE DEF p
<1>6. /\ \A b \in Sender : sender'[b] = p /\ b = a
      /\ sender' \in [Sender ->
           [at : {"compare", "record", "push"}, slot : Slot, serial : Serial]
             \cup [at : {"number"}, slot : Slot, serial : {NoSerial}] \cup {NotSending}]
  BY <1>1, <1>3, <1>5, SenderMoves DEF OneSender
<1>7. ChannelType'
  BY <1>1, <1>3, <1>6 DEF ChannelType
<1>8. Messages' = Messages /\ \A t : Waiting(t)' = Waiting(t)
  BY <1>3 DEF Messages, Waiting
<1>9. AskedIsComing'
  <2>1. \A t \in asked : t # s => Waiting(t) # {} 
    BY <1>1, <1>3, <1>6 DEF AskedIsComing, Sending
  <2>2. Sending(s)' \/ (sender'[a].at = "compare" /\ sender'[a].slot = s)
    BY <1>4, <1>6 DEF Sending
  <2> QED BY <1>3, <1>8, <2>1, <2>2 DEF AskedIsComing
<1>10. Numbers(base)' /\ InLine(base)'
  BY <1>2, <1>3, <1>8 DEF InvFrom, Numbers, InLine, Offset
<1>11. Coming(base)'
  BY <1>4, <1>6 DEF Coming
<1>12. SlotsRemember(base)'
  <2>1. \A b \in Sender : sender[b].at # "push"
    BY <1>3, <1>6
  <2>2. \A b \in Sender : sender'[b].at \in {"compare", "push"} => sender'[b].serial = slot[sender'[b].slot]
    BY <1>4, <1>6
  <2>3. \A t \in Slot : Sending(t)' => Waiting(t) = {}
    <3> SUFFICES ASSUME NEW t \in Slot, Sending(t)' PROVE Waiting(t) = {}  OBVIOUS
    <3>1. t = s /\ slot[s] = NoSerial  BY <1>4, <1>6 DEF Sending
    <3>2. ASSUME NEW m \in Waiting(t) PROVE FALSE
      <4>1. m.serial = NoSerial /\ m.slot \in Slot /\ m \in Messages
        BY <1>2, <3>1 DEF InvFrom, SlotsRemember, Waiting
      <4> QED BY <1>1, <4>1, MessageState
    <3> QED BY <3>2
  <2>4. \A t \in Slot : slot[t] # NoSerial /\ Offset(base, processed) < Offset(base, slot[t]) =>
          Waiting(t) # {}
    BY <1>2, <2>1 DEF InvFrom, SlotsRemember
  <2>5. \A t \in Slot : \A m \in Waiting(t) : m.serial = slot[t]
    BY <1>2 DEF InvFrom, SlotsRemember
  <2> QED BY <1>3, <1>8, <2>2, <2>3, <2>4, <2>5 DEF SlotsRemember, Offset
<1> QED BY <1>7, <1>9, <1>10, <1>11, <1>12 DEF ChannelInv, InvFrom

\* Nothing is sent only while the last message is still on its way.
LEMMA SuppressKeeps ==
  ASSUME OneSender, ChannelInv, NEW a \in Sender, Suppress(a)
  PROVE  ChannelInv'
<1> DEFINE s == sender[a].slot
<1>1. ChannelType /\ AskedIsComing  BY DEF ChannelInv
<1>2. PICK base \in Serial : InvFrom(base)  BY DEF ChannelInv
<1>3. /\ sender' = [sender EXCEPT ![a] = NotSending] /\ sender[a].at = "compare"
      /\ before(processed, sender[a].serial)
      /\ UNCHANGED <<processed, next, given, slot, queue, hand, asked>>
  BY DEF Suppress
<1>4. NotSending.at = "idle"  BY DEF NotSending
<1>5. /\ \A b \in Sender : sender'[b].at = "idle" /\ b = a
      /\ ChannelType'
  <2>1. /\ \A b \in Sender : sender'[b] = NotSending
        /\ sender' \in [Sender ->
           [at : {"compare", "record", "push"}, slot : Slot, serial : Serial]
             \cup [at : {"number"}, slot : Slot, serial : {NoSerial}] \cup {NotSending}]
    BY <1>1, <1>3, SenderMoves
  <2> QED BY <1>1, <1>3, <1>4, <2>1 DEF ChannelType, OneSender
<1>6. Messages' = Messages /\ \A t : Waiting(t)' = Waiting(t)
  BY <1>3 DEF Messages, Waiting
<1>7. s \in Slot /\ sender[a].serial \in Serial /\ sender[a].serial = slot[s] /\ slot[s] # NoSerial
  <2>1. s \in Slot /\ sender[a].serial \in Serial  BY <1>1, <1>3, SenderState
  <2> QED BY <1>2, <1>3, <2>1, SlotAssumption DEF InvFrom, SlotsRemember, Serial
<1>8. \A b \in Sender : sender[b].at = "compare" /\ sender[b].slot = s
  BY <1>3, <1>5
<1>9. \A t \in Slot : slot[t] # NoSerial /\ Offset(base, processed) < Offset(base, slot[t]) => Waiting(t) # {}
  BY <1>2, <1>8 DEF InvFrom, SlotsRemember
<1>10. Waiting(s) # {}
  <2>1. /\ Offset(base, processed) \in Nat /\ Offset(base, slot[s]) \in Nat /\ processed \in Serial
        /\ given \in Nat /\ given <= MaxSerials /\ MaxSerials \in Nat
    BY <1>1, <1>7, OffsetIsNat, ModulusAssumption DEF ChannelType
  <2>2. Offset(base, processed) <= given /\ Offset(base, slot[s]) <= given
    BY <1>2, <1>7 DEF InvFrom, Numbers
  <2>3. Offset(base, processed) <= MaxSerials /\ Offset(base, slot[s]) <= MaxSerials
    BY <2>1, <2>2
  <2>4. Offset(base, processed) < Offset(base, slot[s])
    BY <1>3, <1>7, <2>1, <2>3, BeforeIsOrder
  <2> QED BY <1>7, <1>9, <2>4
<1>11. AskedIsComing'
  BY <1>1, <1>3, <1>6, <1>8, <1>10 DEF AskedIsComing, Sending
<1>12. Numbers(base)' /\ InLine(base)'
  BY <1>2, <1>3, <1>6 DEF InvFrom, Numbers, InLine, Offset
<1>13. Coming(base)'
  BY <1>5 DEF Coming
<1>14. SlotsRemember(base)'
  <2>1. \A t \in Slot : \A m \in Waiting(t) : m.serial = slot[t]
    BY <1>2 DEF InvFrom, SlotsRemember
  <2> QED BY <1>3, <1>5, <1>6, <1>9, <2>1 DEF SlotsRemember, Offset, Sending
<1> QED BY <1>5, <1>11, <1>12, <1>13, <1>14 DEF ChannelInv, InvFrom

\* A message is sent again only when the last one has been returned.
LEMMA GoOnKeeps ==
  ASSUME OneSender, ChannelInv, NEW a \in Sender, GoOn(a)
  PROVE  ChannelInv'
<1>0. PICK s : s = sender[a].slot  OBVIOUS
<1> DEFINE p == [at |-> "number", slot |-> s, serial |-> NoSerial]
<1>1. ChannelType /\ AskedIsComing  BY DEF ChannelInv
<1>2. PICK base \in Serial : InvFrom(base)  BY DEF ChannelInv
<1>3. /\ sender[a].at = "compare" /\ ~before(processed, sender[a].serial)
      /\ UNCHANGED <<processed, next, given, slot, queue, hand, asked>>
  BY DEF GoOn
<1>4. s \in Slot /\ sender[a].serial \in Serial /\ sender[a].serial = slot[s] /\ slot[s] # NoSerial
  <2>1. s \in Slot /\ sender[a].serial \in Serial  BY <1>0, <1>1, <1>3, SenderState
  <2> QED BY <1>0, <1>2, <1>3, <2>1, SlotAssumption DEF InvFrom, SlotsRemember, Serial
<1>5. sender' = [sender EXCEPT ![a] = p]
  BY <1>0 DEF GoOn, moved
<1>6. p.at = "number" /\ p.slot = s /\ p.serial = NoSerial
  OBVIOUS
<1>7. /\ \A b \in Sender : sender'[b].at = "number" /\ sender'[b].slot = s /\ b = a
      /\ ChannelType'
  <2>1. p \in [at : {"number"}, slot : Slot, serial : {NoSerial}]  BY <1>4
  <2> HIDE DEF p
  <2>2. /\ \A b \in Sender : sender'[b] = p
        /\ sender' \in [Sender ->
           [at : {"compare", "record", "push"}, slot : Slot, serial : Serial]
             \cup [at : {"number"}, slot : Slot, serial : {NoSerial}] \cup {NotSending}]
    BY <1>1, <1>5, <2>1, SenderMoves
  <2> QED BY <1>1, <1>3, <1>6, <2>2 DEF ChannelType, OneSender
<1>8. Messages' = Messages /\ \A t : Waiting(t)' = Waiting(t)
  BY <1>3 DEF Messages, Waiting
<1>9. \A b \in Sender : sender[b].at = "compare" /\ sender[b].slot = s
  BY <1>0, <1>3, <1>7
<1>10. Waiting(s) = {}
  <2> SUFFICES ASSUME NEW m \in Waiting(s) PROVE FALSE  OBVIOUS
  <2>1. m \in Messages /\ m.serial = slot[s]
    BY <1>2, <1>4 DEF InvFrom, SlotsRemember, Waiting
  <2>2. Offset(base, slot[s]) \in Offset(base, processed) + 1 .. given
    BY <1>2, <1>4, <2>1 DEF InvFrom, InLine
  <2>3. /\ Offset(base, processed) \in Nat /\ Offset(base, slot[s]) \in Nat /\ processed \in Serial
        /\ given \in Nat /\ given <= MaxSerials /\ MaxSerials \in Nat
    BY <1>1, <1>4, OffsetIsNat, ModulusAssumption DEF ChannelType
  <2>4. /\ Offset(base, processed) <= MaxSerials /\ Offset(base, slot[s]) <= MaxSerials
        /\ Offset(base, processed) < Offset(base, slot[s])
    BY <2>2, <2>3
  <2> QED BY <1>3, <1>4, <2>3, <2>4, BeforeIsOrder
<1>11. AskedIsComing'
  <2>1. Sending(s)'  BY <1>7 DEF Sending
  <2>2. \A t \in asked : Waiting(t) # {} \/ t = s
    BY <1>1, <1>9 DEF AskedIsComing, Sending
  <2> QED BY <1>3, <1>8, <2>1, <2>2 DEF AskedIsComing
<1>12. Numbers(base)' /\ InLine(base)'
  BY <1>2, <1>3, <1>8 DEF InvFrom, Numbers, InLine, Offset
<1>13. Coming(base)'
  BY <1>7 DEF Coming
<1>14. SlotsRemember(base)'
  <2>1. \A t \in Slot : \A m \in Waiting(t) : m.serial = slot[t]
    BY <1>2 DEF InvFrom, SlotsRemember
  <2>2. \A t \in Slot : slot[t] # NoSerial /\ Offset(base, processed) < Offset(base, slot[t]) => Waiting(t) # {}
    BY <1>2, <1>9 DEF InvFrom, SlotsRemember
  <2>3. \A t \in Slot : Sending(t)' => Waiting(t) = {}
    BY <1>7, <1>10 DEF Sending
  <2> QED BY <1>3, <1>7, <1>8, <2>1, <2>2, <2>3 DEF SlotsRemember, Offset
<1> QED BY <1>7, <1>11, <1>12, <1>13, <1>14 DEF ChannelInv, InvFrom

\* The serial that is taken is later than all that are on their way.
LEMMA TakeNumberKeeps ==
  ASSUME OneSender, ChannelInv, NEW a \in Sender, TakeNumber(a)
  PROVE  ChannelInv'
<1>0. PICK s : s = sender[a].slot  OBVIOUS
<1> DEFINE p == [at |-> "record", slot |-> s, serial |-> after(next)]
<1>1. ChannelType /\ AskedIsComing  BY DEF ChannelInv
<1>2. PICK base \in Serial : InvFrom(base)  BY DEF ChannelInv
<1>3. /\ sender[a].at = "number" /\ given < MaxSerials /\ given' = given + 1 /\ next' = after(next)
      /\ sender' = [sender EXCEPT ![a] = p]
      /\ UNCHANGED <<processed, slot, queue, hand, asked>>
  BY <1>0 DEF TakeNumber, moved
<1>4. s \in Slot  BY <1>0, <1>1, <1>3, SenderState
<1>5. /\ next \in Serial /\ processed \in Serial /\ given \in Nat
      /\ Offset(base, next) = given /\ Offset(base, processed) <= given
  BY <1>1, <1>2, ModulusAssumption DEF ChannelType, InvFrom, Numbers
<1>6. after(next) \in Serial /\ Offset(base, after(next)) = given + 1
  BY <1>3, <1>5, NextOffset
<1>7. p.at = "record" /\ p.slot = s /\ p.serial = after(next)
  OBVIOUS
<1>8. /\ \A b \in Sender : /\ sender'[b].at = "record" /\ sender'[b].slot = s
                           /\ sender'[b].serial = after(next) /\ b = a
      /\ ChannelType'
  <2>1. p \in [at : {"compare", "record", "push"}, slot : Slot, serial : Serial]  BY <1>4, <1>6
  <2> HIDE DEF p
  <2>2. /\ \A b \in Sender : sender'[b] = p
        /\ sender' \in [Sender ->
           [at : {"compare", "record", "push"}, slot : Slot, serial : Serial]
             \cup [at : {"number"}, slot : Slot, serial : {NoSerial}] \cup {NotSending}]
    BY <1>1, <1>3, <2>1, SenderMoves
  <2>3. given' \in 0 .. MaxSerials  BY <1>1, <1>3, ModulusAssumption DEF ChannelType
  <2> QED BY <1>1, <1>3, <1>6, <1>7, <2>2, <2>3 DEF ChannelType, OneSender
<1>9. Messages' = Messages /\ \A t : Waiting(t)' = Waiting(t)
  BY <1>3 DEF Messages, Waiting
<1>10. \A b \in Sender : sender[b].at = "number" /\ sender[b].slot = s
  BY <1>0, <1>3, <1>8
<1>11. Sending(s) /\ Sending(s)' /\ Waiting(s) = {}
  <2>1. Sending(s) /\ Sending(s)'  BY <1>8, <1>10 DEF Sending
  <2> QED BY <1>2, <1>4, <2>1 DEF InvFrom, SlotsRemember
<1>12. AskedIsComing'
  <2>1. \A t \in asked : Waiting(t) # {} \/ t = s
    BY <1>1, <1>10 DEF AskedIsComing, Sending
  <2> QED BY <1>3, <1>9, <1>11, <2>1 DEF AskedIsComing
<1>13. Numbers(base)'
  <2>1. \A t \in Slot : slot[t] # NoSerial => Offset(base, slot[t]) \in 1 .. given + 1
    BY <1>2, <1>5 DEF InvFrom, Numbers
  <2>2. \A t \in Slot : slot'[t] # NoSerial => Offset(base, slot'[t]) \in 1 .. given'
    BY <1>3, <2>1
  <2>3. Offset(base, next') = given' /\ Offset(base, processed') <= given'
    BY <1>3, <1>5, <1>6, OffsetIsNat
  <2> QED BY <2>2, <2>3 DEF Numbers, Offset
<1>14. /\ Offset(base, processed) \in Nat
       /\ \A m \in Messages : m.serial # NoSerial =>
            Offset(base, m.serial) \in Offset(base, processed) + 1 .. given + 1
       /\ \A m \in Messages : m.serial # NoSerial => Offset(base, m.serial) < given + 1
  <2>1. Offset(base, processed) \in Nat  BY <1>5, OffsetIsNat
  <2>2. \A m \in Messages : m.serial # NoSerial =>
          Offset(base, m.serial) \in Offset(base, processed) + 1 .. given
    BY <1>2 DEF InvFrom, InLine
  <2> QED BY <1>5, <2>1, <2>2
<1>15. InLine(base)'
  BY <1>2, <1>3, <1>9, <1>14 DEF InvFrom, InLine, Offset
<1>16. Coming(base)'
  BY <1>3, <1>5, <1>6, <1>8, <1>9, <1>14 DEF Coming, Offset
<1>17. SlotsRemember(base)'
  <2>1. \A t \in Slot : \A m \in Waiting(t) : m.serial = slot[t]
    BY <1>2 DEF InvFrom, SlotsRemember
  <2>2. \A t \in Slot : slot[t] # NoSerial /\ Offset(base, processed) < Offset(base, slot[t]) => Waiting(t) # {}
    BY <1>2, <1>10 DEF InvFrom, SlotsRemember
  <2>3. \A t \in Slot : Sending(t)' => Waiting(t) = {}
    BY <1>8, <1>11 DEF Sending
  <2> QED BY <1>3, <1>8, <1>9, <2>1, <2>2, <2>3 DEF SlotsRemember, Offset
<1> QED BY <1>8, <1>12, <1>13, <1>15, <1>16, <1>17 DEF ChannelInv, InvFrom

\* The slot gets the serial before the message is in the queue.
LEMMA RecordKeeps ==
  ASSUME OneSender, ChannelInv, NEW a \in Sender, Record(a)
  PROVE  ChannelInv'
<1>0. PICK s, n : s = sender[a].slot /\ n = sender[a].serial  OBVIOUS
<1> DEFINE p == [at |-> "push", slot |-> s, serial |-> n]
<1>1. ChannelType /\ AskedIsComing  BY DEF ChannelInv
<1>2. PICK base \in Serial : InvFrom(base)  BY DEF ChannelInv
<1>3. /\ sender[a].at = "record"
      /\ slot' = [slot EXCEPT ![s] = n] /\ sender' = [sender EXCEPT ![a] = p]
      /\ UNCHANGED <<processed, next, given, queue, hand, asked>>
  BY <1>0 DEF Record, moved
<1>4. s \in Slot /\ n \in Serial  BY <1>0, <1>1, <1>3, SenderState
<1>5. /\ next \in Serial /\ processed \in Serial /\ given \in Nat
      /\ Offset(base, n) = given /\ Offset(base, processed) < given /\ Offset(base, processed) \in Nat
      /\ \A m \in Messages : m.serial # NoSerial => Offset(base, m.serial) < given
  <2>1. next \in Serial /\ processed \in Serial /\ given \in Nat
    BY <1>1, ModulusAssumption DEF ChannelType
  <2> QED BY <1>0, <1>2, <1>3, <2>1, OffsetIsNat DEF InvFrom, Coming
<1>6. p.at = "push" /\ p.slot = s /\ p.serial = n
  OBVIOUS
<1>7. slot' \in [Slot -> Serial \cup {NoSerial}] /\ \A t \in Slot : slot'[t] = IF t = s THEN n ELSE slot[t]
  BY <1>1, <1>3, <1>4 DEF ChannelType
<1>8. /\ \A b \in Sender : /\ sender'[b].at = "push" /\ sender'[b].slot = s
                           /\ sender'[b].serial = n /\ b = a
      /\ ChannelType'
  <2>1. p \in [at : {"compare", "record", "push"}, slot : Slot, serial : Serial]  BY <1>4
  <2> HIDE DEF p
  <2>2. /\ \A b \in Sender : sender'[b] = p
        /\ sender' \in [Sender ->
           [at : {"compare", "record", "push"}, slot : Slot, serial : Serial]
             \cup [at : {"number"}, slot : Slot, serial : {NoSerial}] \cup {NotSending}]
    BY <1>1, <1>3, <2>1, SenderMoves
  <2> QED BY <1>1, <1>3, <1>6, <1>7, <2>2 DEF ChannelType, OneSender
<1>9. Messages' = Messages /\ \A t : Waiting(t)' = Waiting(t)
  BY <1>3 DEF Messages, Waiting
<1>10. \A b \in Sender : sender[b].at = "record" /\ sender[b].slot = s
  BY <1>0, <1>3, <1>8
<1>11. Sending(s) /\ Sending(s)' /\ Waiting(s) = {}
  <2>1. Sending(s) /\ Sending(s)'  BY <1>8, <1>10 DEF Sending
  <2> QED BY <1>2, <1>4, <2>1 DEF InvFrom, SlotsRemember
<1>12. AskedIsComing'
  <2>1. \A t \in asked : Waiting(t) # {} \/ t = s
    BY <1>1, <1>10 DEF AskedIsComing, Sending
  <2> QED BY <1>3, <1>9, <1>11, <2>1 DEF AskedIsComing
<1>13. Numbers(base)'
  <2>1. \A t \in Slot : slot[t] # NoSerial => Offset(base, slot[t]) \in 1 .. given
    BY <1>2 DEF InvFrom, Numbers
  <2>2. Offset(base, n) \in 1 .. given  BY <1>5
  <2>3. Offset(base, next) = given /\ Offset(base, processed) <= given
    BY <1>2 DEF InvFrom, Numbers
  <2> QED BY <1>3, <1>7, <2>1, <2>2, <2>3 DEF Numbers, Offset
<1>14. InLine(base)'
  BY <1>2, <1>3, <1>9 DEF InvFrom, InLine, Offset
<1>15. Coming(base)'
  BY <1>3, <1>5, <1>8, <1>9 DEF Coming, Offset
<1>16. SlotsRemember(base)'
  <2>1. \A t \in Slot : \A m \in Waiting(t) : m.serial = slot[t]
    BY <1>2 DEF InvFrom, SlotsRemember
  <2>2. \A t \in Slot : t # s =>
          (slot[t] # NoSerial /\ Offset(base, processed) < Offset(base, slot[t]) => Waiting(t) # {})
    BY <1>2, <1>10 DEF InvFrom, SlotsRemember
  <2>3. \A t \in Slot : Sending(t)' => Waiting(t) = {}
    BY <1>8, <1>11 DEF Sending
  <2>4. \A b \in Sender : sender'[b].serial = slot'[sender'[b].slot]
    BY <1>4, <1>7, <1>8
  <2>5. \A t \in Slot : \A m \in Waiting(t)' : m.serial = slot'[t]
    BY <1>7, <1>9, <1>11, <2>1
  <2>6. \A t \in Slot : slot'[t] # NoSerial /\ Offset(base, processed) < Offset(base, slot'[t]) =>
          Waiting(t) # {} \/ \E b \in Sender : sender'[b].at = "push" /\ sender'[b].slot = t
    BY <1>7, <1>8, <2>2
  <2> QED BY <1>3, <1>9, <2>3, <2>4, <2>5, <2>6 DEF SlotsRemember, Offset
<1> QED BY <1>8, <1>12, <1>13, <1>14, <1>15, <1>16 DEF ChannelInv, InvFrom

\* What the queue holds with one message more.
LEMMA QueueGrows ==
  ASSUME ChannelType, NEW m \in Envelope, queue' = Append(queue, m), hand' = hand
  PROVE  /\ queue' \in Seq(Envelope) /\ Len(queue) \in Nat /\ Len(queue') = Len(queue) + 1
         /\ queue'[Len(queue) + 1] = m
         /\ \A i \in 1 .. Len(queue) : queue'[i] = queue[i]
         /\ Messages' = Messages \cup {m}
<1>1. queue \in Seq(Envelope)  BY DEF ChannelType
<1>2. /\ queue' \in Seq(Envelope) /\ Len(queue) \in Nat /\ Len(queue') = Len(queue) + 1
      /\ queue'[Len(queue) + 1] = m
      /\ \A i \in 1 .. Len(queue) : queue'[i] = queue[i]
  BY <1>1
<1>3. {queue'[i] : i \in 1 .. Len(queue')} = {queue[i] : i \in 1 .. Len(queue)} \cup {m}
  <2>1. \A i \in 1 .. Len(queue') : i \in 1 .. Len(queue) \/ i = Len(queue) + 1  BY <1>2
  <2>2. \A i \in 1 .. Len(queue) : i \in 1 .. Len(queue')  BY <1>2
  <2>3. Len(queue) + 1 \in 1 .. Len(queue')  BY <1>2
  <2> QED BY <1>2, <2>1, <2>2, <2>3
<1> QED BY <1>2, <1>3 DEF Messages

\* The message follows all that have serials.
LEMMA PushKeeps ==
  ASSUME OneSender, ChannelInv, NEW a \in Sender, Push(a)
  PROVE  ChannelInv'
<1>0. PICK s, n : s = sender[a].slot /\ n = sender[a].serial  OBVIOUS
<1> DEFINE new == [slot |-> s, serial |-> n]
<1>1. ChannelType /\ AskedIsComing  BY DEF ChannelInv
<1>2. PICK base \in Serial : InvFrom(base)  BY DEF ChannelInv
<1>3. /\ sender[a].at = "push" /\ queue' = Append(queue, new) /\ sender' = [sender EXCEPT ![a] = NotSending]
      /\ UNCHANGED <<processed, next, given, slot, hand, asked>>
  BY <1>0 DEF Push
<1>4. s \in Slot /\ n \in Serial  BY <1>0, <1>1, <1>3, SenderState
<1>5. new \in Envelope /\ new.slot = s /\ new.serial = n  BY <1>4 DEF Envelope
<1> HIDE DEF new
<1>6. /\ queue' \in Seq(Envelope) /\ Len(queue) \in Nat /\ Len(queue') = Len(queue) + 1
      /\ queue'[Len(queue) + 1] = new
      /\ \A i \in 1 .. Len(queue) : queue'[i] = queue[i]
      /\ Messages' = Messages \cup {new}
  BY <1>1, <1>3, <1>5, QueueGrows
<1>7. /\ processed \in Serial /\ given \in Nat
      /\ Offset(base, n) = given /\ Offset(base, processed) < given /\ Offset(base, processed) \in Nat
      /\ \A m \in Messages : m.serial # NoSerial => Offset(base, m.serial) < given
  <2>1. processed \in Serial /\ given \in Nat
    BY <1>1, ModulusAssumption DEF ChannelType
  <2> QED BY <1>0, <1>2, <1>3, <2>1, OffsetIsNat DEF InvFrom, Coming
<1>8. /\ \A b \in Sender : sender'[b].at = "idle" /\ b = a
      /\ ChannelType'
  <2>1. /\ \A b \in Sender : sender'[b] = NotSending
        /\ sender' \in [Sender ->
           [at : {"compare", "record", "push"}, slot : Slot, serial : Serial]
             \cup [at : {"number"}, slot : Slot, serial : {NoSerial}] \cup {NotSending}]
    BY <1>1, <1>3, SenderMoves
  <2>2. NotSending.at = "idle"  BY DEF NotSending
  <2> QED BY <1>1, <1>3, <1>6, <2>1, <2>2 DEF ChannelType, OneSender
<1>9. \A t : Waiting(t)' = IF t = s THEN Waiting(t) \cup {new} ELSE Waiting(t)
  BY <1>5, <1>6 DEF Waiting
<1>10. \A b \in Sender : sender[b].at = "push" /\ sender[b].slot = s
  BY <1>0, <1>3, <1>8
<1>11. AskedIsComing'
  <2>1. \A t \in asked : Waiting(t) # {} \/ t = s
    BY <1>1, <1>10 DEF AskedIsComing, Sending
  <2> QED BY <1>3, <1>9, <2>1 DEF AskedIsComing
<1>12. Numbers(base)'
  BY <1>2, <1>3 DEF InvFrom, Numbers, Offset
<1>13. InLine(base)'
  <2>1. \A m \in Messages' : m.serial # NoSerial =>
          Offset(base, m.serial) \in Offset(base, processed) + 1 .. given
    <3>1. Offset(base, new.serial) \in Offset(base, processed) + 1 .. given
      BY <1>5, <1>7
    <3> QED BY <1>2, <1>6, <3>1 DEF InvFrom, InLine
  <2>2. \A i \in 1 .. Len(queue') : i \in 1 .. Len(queue) \/ i = Len(queue) + 1
    BY <1>6
  <2>3. \A i \in 1 .. Len(queue) : queue[i] \in Messages
    BY <1>1, MessageState
  <2>4. ASSUME NEW i \in 1 .. Len(queue'), NEW j \in 1 .. Len(queue'),
               i < j, queue'[i].serial # NoSerial, queue'[j].serial # NoSerial
        PROVE  Offset(base, queue'[i].serial) < Offset(base, queue'[j].serial)
    <3>1. i \in 1 .. Len(queue)  BY <1>6, <2>2, <2>4
    <3>2. CASE j \in 1 .. Len(queue)
      BY <1>2, <1>6, <2>4, <3>1, <3>2 DEF InvFrom, InLine
    <3>3. CASE j = Len(queue) + 1
      BY <1>5, <1>6, <1>7, <2>3, <2>4, <3>1, <3>3
    <3> QED BY <2>2, <3>2, <3>3
  <2>5. ASSUME NEW i \in 1 .. Len(queue'), hand # NoSerial, hand.serial # NoSerial, queue'[i].serial # NoSerial
        PROVE  Offset(base, hand.serial) < Offset(base, queue'[i].serial)
    <3>1. CASE i \in 1 .. Len(queue)
      BY <1>2, <1>6, <2>5, <3>1 DEF InvFrom, InLine
    <3>2. CASE i = Len(queue) + 1
      <4>1. hand \in Messages  BY <2>5 DEF Messages
      <4> QED BY <1>5, <1>6, <1>7, <2>5, <3>2, <4>1
    <3> QED BY <2>2, <3>1, <3>2
  <2> QED BY <1>3, <2>1, <2>4, <2>5 DEF InLine, Offset
<1>14. Coming(base)'
  BY <1>8 DEF Coming
<1>15. SlotsRemember(base)'
  <2>1. slot[s] = n
    BY <1>0, <1>2, <1>3 DEF InvFrom, SlotsRemember
  <2>2. \A t \in Slot : \A m \in Waiting(t)' : m.serial = slot[t]
    BY <1>2, <1>5, <1>9, <2>1 DEF InvFrom, SlotsRemember
  <2>3. \A t \in Slot : slot[t] # NoSerial /\ Offset(base, processed) < Offset(base, slot[t]) => Waiting(t)' # {}
    BY <1>2, <1>9, <1>10 DEF InvFrom, SlotsRemember
  <2>4. \A t \in Slot : ~Sending(t)'  BY <1>8 DEF Sending
  <2> QED BY <1>3, <1>8, <2>2, <2>3, <2>4 DEF SlotsRemember, Offset
<1> QED BY <1>8, <1>11, <1>12, <1>13, <1>14, <1>15 DEF ChannelInv, InvFrom

\* A plain message joins the queue and concerns no slot.
LEMMA SendPlainKeeps ==
  ASSUME OneSender, ChannelInv, NEW a \in Sender, SendPlain(a)
  PROVE  ChannelInv'
<1>1. ChannelType /\ AskedIsComing  BY DEF ChannelInv
<1>2. PICK base \in Serial : InvFrom(base)  BY DEF ChannelInv
<1>3. /\ queue' = Append(queue, Plain) /\ sender[a].at = "idle"
      /\ UNCHANGED <<processed, next, given, slot, sender, hand, asked>>
  BY DEF SendPlain, NotSending
<1>4. Plain \in Envelope /\ Plain.slot = NoSerial /\ Plain.serial = NoSerial /\ NoSerial \notin Slot
  BY SlotAssumption DEF Envelope, Plain
<1>5. /\ queue' \in Seq(Envelope) /\ Len(queue) \in Nat /\ Len(queue') = Len(queue) + 1
      /\ queue'[Len(queue) + 1] = Plain
      /\ \A i \in 1 .. Len(queue) : queue'[i] = queue[i]
      /\ Messages' = Messages \cup {Plain}
  BY <1>1, <1>3, <1>4, QueueGrows
<1>6. \A t \in Slot : Waiting(t)' = Waiting(t)
  BY <1>4, <1>5 DEF Waiting
<1>7. ChannelType'
  BY <1>1, <1>3, <1>5 DEF ChannelType
<1>8. AskedIsComing'
  <2>1. asked \subseteq Slot  BY <1>1 DEF ChannelType
  <2> QED BY <1>1, <1>3, <1>6, <2>1 DEF AskedIsComing, Sending
<1>9. Numbers(base)'
  BY <1>2, <1>3 DEF InvFrom, Numbers, Offset
<1>10. InLine(base)'
  <2>1. \A i \in 1 .. Len(queue') : queue'[i].serial # NoSerial => i \in 1 .. Len(queue)
    BY <1>4, <1>5
  <2> QED BY <1>2, <1>3, <1>4, <1>5, <2>1 DEF InvFrom, InLine, Offset
<1>11. Coming(base)' /\ SlotsRemember(base)'
  BY <1>2, <1>3, <1>4, <1>5, <1>6 DEF InvFrom, Coming, SlotsRemember, Offset, Sending
<1> QED BY <1>7, <1>8, <1>9, <1>10, <1>11 DEF ChannelInv, InvFrom

\* The message in hand is still on its way.
LEMMA TakeKeeps ==
  ASSUME ChannelInv, Take
  PROVE  ChannelInv'
<1>1. ChannelType /\ AskedIsComing  BY DEF ChannelInv
<1>2. PICK base \in Serial : InvFrom(base)  BY DEF ChannelInv
<1>3. /\ hand = NoSerial /\ queue # <<>> /\ hand' = Head(queue) /\ queue' = Tail(queue)
      /\ UNCHANGED <<processed, next, given, slot, sender, asked>>
  BY DEF Take
<1>4. /\ queue \in Seq(Envelope) /\ Len(queue) \in Nat /\ Len(queue) > 0
      /\ queue' \in Seq(Envelope) /\ Len(queue') = Len(queue) - 1
      /\ \A i \in 1 .. Len(queue') : queue'[i] = queue[i + 1] /\ i + 1 \in 1 .. Len(queue)
      /\ hand' = queue[1] /\ hand' \in Envelope /\ hand' # NoSerial
  <2>1. queue \in Seq(Envelope)  BY <1>1 DEF ChannelType
  <2>2. Len(queue) \in Nat /\ Len(queue) > 0  BY <1>3, <2>1
  <2>3. /\ Head(queue) \in Envelope /\ Tail(queue) \in Seq(Envelope) /\ Len(Tail(queue)) = Len(queue) - 1
        /\ \A i \in 1 .. Len(Tail(queue)) : Tail(queue)[i] = queue[i + 1]
    BY <1>3, <2>1, HeadTailProperties
  <2>4. hand' = queue[1] /\ hand' # NoSerial  BY <1>3, <2>1, <2>2, <2>3, SlotAssumption
  <2> QED BY <1>3, <2>1, <2>2, <2>3, <2>4
<1>5. Messages' = Messages /\ \A t : Waiting(t)' = Waiting(t)
  <2>1. Messages = {queue[i] : i \in 1 .. Len(queue)}  BY <1>3 DEF Messages
  <2>2. Messages' = {queue'[i] : i \in 1 .. Len(queue')} \cup {queue[1]}
    BY <1>4 DEF Messages
  <2>3. \A i \in 1 .. Len(queue) : i # 1 => i - 1 \in 1 .. Len(queue') /\ queue'[i - 1] = queue[i]
    <3> SUFFICES ASSUME NEW i \in 1 .. Len(queue), i # 1
                 PROVE  i - 1 \in 1 .. Len(queue') /\ queue'[i - 1] = queue[i]
      OBVIOUS
    <3>1. i - 1 \in 1 .. Len(queue') /\ (i - 1) + 1 = i  BY <1>4
    <3>2. queue'[i - 1] = queue[(i - 1) + 1]  BY <1>4, <3>1
    <3> QED BY <3>1, <3>2
  <2>4. 1 \in 1 .. Len(queue)  BY <1>4
  <2>5. Messages' \subseteq Messages  BY <1>4, <2>1, <2>2, <2>4
  <2>6. Messages \subseteq Messages'
    <3> SUFFICES ASSUME NEW i \in 1 .. Len(queue) PROVE queue[i] \in Messages'  BY <2>1
    <3>1. CASE i = 1  BY <2>2, <3>1
    <3>2. CASE i # 1  BY <2>2, <2>3, <3>2
    <3> QED BY <3>1, <3>2
  <2>7. Messages' = Messages  BY <2>5, <2>6
  <2> QED BY <2>7 DEF Waiting
<1>6. ChannelType'
  BY <1>1, <1>3, <1>4 DEF ChannelType
<1>7. AskedIsComing'
  BY <1>1, <1>3, <1>5 DEF AskedIsComing, Sending
<1>8. Numbers(base)'
  BY <1>2, <1>3 DEF InvFrom, Numbers, Offset
<1>9. InLine(base)'
  <2>1. \A i, j \in 1 .. Len(queue) :
          i < j /\ queue[i].serial # NoSerial /\ queue[j].serial # NoSerial =>
            Offset(base, queue[i].serial) < Offset(base, queue[j].serial)
    BY <1>2 DEF InvFrom, InLine
  <2>2. ASSUME NEW i \in 1 .. Len(queue'), NEW j \in 1 .. Len(queue'),
               i < j, queue'[i].serial # NoSerial, queue'[j].serial # NoSerial
        PROVE  Offset(base, queue'[i].serial) < Offset(base, queue'[j].serial)
    <3>1. i + 1 < j + 1  BY <1>4, <2>2
    <3> QED BY <1>4, <2>1, <2>2, <3>1
  <2>3. ASSUME NEW i \in 1 .. Len(queue'), hand'.serial # NoSerial, queue'[i].serial # NoSerial
        PROVE  Offset(base, hand'.serial) < Offset(base, queue'[i].serial)
    <3>1. 1 < i + 1 /\ 1 \in 1 .. Len(queue)  BY <1>4
    <3> QED BY <1>4, <2>1, <2>3, <3>1
  <2>4. \A m \in Messages : m.serial # NoSerial =>
          Offset(base, m.serial) \in Offset(base, processed) + 1 .. given
    BY <1>2 DEF InvFrom, InLine
  <2> QED BY <1>3, <1>5, <2>2, <2>3, <2>4 DEF InLine, Offset
<1>10. Coming(base)' /\ SlotsRemember(base)'
  BY <1>2, <1>3, <1>5 DEF InvFrom, Coming, SlotsRemember, Offset, Sending
<1> QED BY <1>6, <1>7, <1>8, <1>9, <1>10 DEF ChannelInv, InvFrom

\* What is returned is processed, and nothing that is behind it.
LEMMA ReturnKeeps ==
  ASSUME ChannelInv, Return
  PROVE  ChannelInv'
<1>1. ChannelType /\ AskedIsComing  BY DEF ChannelInv
<1>2. PICK base \in Serial : InvFrom(base)  BY DEF ChannelInv
<1>3. /\ hand # NoSerial /\ processed' = reached(hand) /\ asked' = asked \ {hand.slot} /\ hand' = NoSerial
      /\ UNCHANGED <<next, given, slot, sender, queue>>
  BY DEF Return
<1>4. /\ hand \in Envelope /\ hand \in Messages
      /\ hand.slot \in Slot \cup {NoSerial} /\ hand.serial \in Serial \cup {NoSerial}
      /\ hand.serial # NoSerial <=> hand.slot \in Slot
  <2>1. hand \in Envelope /\ hand \in Messages  BY <1>1, <1>3 DEF ChannelType, Messages
  <2> QED BY <1>1, <2>1, MessageState
<1>5. Messages = Messages' \cup {hand} /\ Messages' = {queue[i] : i \in 1 .. Len(queue)}
  BY <1>3 DEF Messages
<1>6. processed' = IF hand.serial = NoSerial THEN processed ELSE hand.serial
  BY <1>3 DEF reached
<1>7. /\ processed \in Serial /\ processed' \in Serial /\ given \in Nat
      /\ Offset(base, processed) \in Nat /\ Offset(base, processed') \in Nat
      /\ Offset(base, processed) <= Offset(base, processed') /\ Offset(base, processed') <= given
  <2>1. processed \in Serial /\ given \in Nat /\ Offset(base, processed) <= given
    BY <1>1, <1>2, ModulusAssumption DEF ChannelType, InvFrom, Numbers
  <2>2. processed' \in Serial  BY <1>4, <1>6, <2>1
  <2>3. Offset(base, processed) \in Nat /\ Offset(base, processed') \in Nat
    BY <2>1, <2>2, OffsetIsNat
  <2>4. CASE hand.serial = NoSerial
    BY <1>6, <2>1, <2>2, <2>3, <2>4
  <2>5. CASE hand.serial # NoSerial
    <3>1. Offset(base, hand.serial) \in Offset(base, processed) + 1 .. given
      BY <1>2, <1>4, <2>5 DEF InvFrom, InLine
    <3> QED BY <1>6, <2>1, <2>2, <2>3, <2>5, <3>1
  <2> QED BY <2>4, <2>5
<1>8. ChannelType'
  <2>1. hand' \in Envelope \cup {NoSerial} /\ asked' \in SUBSET Slot  BY <1>1, <1>3 DEF ChannelType
  <2> QED BY <1>1, <1>3, <1>7, <2>1 DEF ChannelType
<1>9. \A t \in Slot : Waiting(t)' = Waiting(t) \ {hand} \/ Waiting(t)' = Waiting(t)
  BY <1>5 DEF Waiting
<1>10. \A t \in Slot : t # hand.slot => Waiting(t)' = Waiting(t)
  BY <1>5 DEF Waiting
<1>11. AskedIsComing'
  <2>1. asked \subseteq Slot  BY <1>1 DEF ChannelType
  <2>2. \A t \in asked' : t \in asked /\ Waiting(t)' = Waiting(t)
    BY <1>3, <1>10, <2>1
  <2> QED BY <1>1, <1>3, <2>2 DEF AskedIsComing, Sending
<1>12. Numbers(base)'
  <2>1. Offset(base, next) = given /\ \A s \in Slot : slot[s] # NoSerial => Offset(base, slot[s]) \in 1 .. given
    BY <1>2 DEF InvFrom, Numbers
  <2> QED BY <1>3, <1>7, <2>1 DEF Numbers, Offset
<1>13. InLine(base)'
  <2>1. ASSUME NEW i \in 1 .. Len(queue), queue[i].serial # NoSerial
        PROVE  Offset(base, queue[i].serial) \in Offset(base, processed') + 1 .. given
    <3>1. queue[i] \in Messages /\ queue[i] \in Envelope /\ queue[i].serial \in Serial
      BY <1>1, <2>1, MessageState
    <3>2. Offset(base, queue[i].serial) \in Offset(base, processed) + 1 .. given
      BY <1>2, <2>1, <3>1 DEF InvFrom, InLine
    <3>3. hand.serial # NoSerial => Offset(base, hand.serial) < Offset(base, queue[i].serial)
      BY <1>2, <1>3, <2>1 DEF InvFrom, InLine
    <3>4. Offset(base, queue[i].serial) \in Nat  BY <3>1, OffsetIsNat
    <3>5. Offset(base, processed') < Offset(base, queue[i].serial)
      BY <1>6, <1>7, <3>2, <3>3, <3>4
    <3> QED BY <1>7, <3>2, <3>4, <3>5
  <2>2. \A m \in Messages' : m.serial # NoSerial =>
          Offset(base, m.serial) \in Offset(base, processed') + 1 .. given
    BY <1>5, <2>1
  <2>3. \A i, j \in 1 .. Len(queue) :
          i < j /\ queue[i].serial # NoSerial /\ queue[j].serial # NoSerial =>
            Offset(base, queue[i].serial) < Offset(base, queue[j].serial)
    BY <1>2 DEF InvFrom, InLine
  <2> QED BY <1>3, <2>2, <2>3 DEF InLine, Offset
<1>14. Coming(base)'
  <2> SUFFICES ASSUME NEW a \in Sender, sender[a].at \in {"record", "push"}
               PROVE  /\ Offset(base, sender[a].serial) = given
                      /\ Offset(base, processed') < given
                      /\ \A m \in Messages' : m.serial # NoSerial => Offset(base, m.serial) < given
    BY <1>3 DEF Coming, Offset
  <2>1. /\ Offset(base, sender[a].serial) = given
        /\ Offset(base, processed) < given
        /\ \A m \in Messages : m.serial # NoSerial => Offset(base, m.serial) < given
    BY <1>2 DEF InvFrom, Coming
  <2> QED BY <1>4, <1>5, <1>6, <2>1
<1>15. SlotsRemember(base)'
  <2>1. \A a \in Sender : sender[a].at \in {"compare", "push"} => sender[a].serial = slot[sender[a].slot]
    BY <1>2 DEF InvFrom, SlotsRemember
  <2>2. \A t \in Slot : \A m \in Waiting(t)' : m.serial = slot[t]
    BY <1>2, <1>9 DEF InvFrom, SlotsRemember
  <2>3. \A t \in Slot : Sending(t) => Waiting(t)' = {}
    BY <1>2, <1>9 DEF InvFrom, SlotsRemember
  <2>4. ASSUME NEW t \in Slot, slot[t] # NoSerial, Offset(base, processed') < Offset(base, slot[t])
        PROVE  Waiting(t)' # {} \/ \E a \in Sender : sender[a].at = "push" /\ sender[a].slot = t
    <3>1. slot[t] \in Serial /\ Offset(base, slot[t]) \in Nat
      <4>1. slot[t] \in Serial  BY <1>1, <2>4 DEF ChannelType
      <4> QED BY <4>1, OffsetIsNat
    <3>2. Offset(base, processed) < Offset(base, slot[t])
      BY <1>7, <2>4, <3>1
    <3>3. Waiting(t) # {} \/ \E a \in Sender : sender[a].at = "push" /\ sender[a].slot = t
      BY <1>2, <2>4, <3>2 DEF InvFrom, SlotsRemember
    <3>4. t # hand.slot
      <4> SUFFICES ASSUME t = hand.slot PROVE FALSE  OBVIOUS
      <4>1. hand \in Waiting(t) /\ hand.serial # NoSerial  BY <1>4 DEF Waiting
      <4>2. hand.serial = slot[t]  BY <1>2, <4>1 DEF InvFrom, SlotsRemember
      <4>3. processed' = slot[t]  BY <1>6, <4>1, <4>2
      <4> QED BY <1>7, <2>4, <3>1, <4>3
    <3> QED BY <1>10, <3>3, <3>4
  <2> QED BY <1>3, <2>1, <2>2, <2>3, <2>4 DEF SlotsRemember, Offset, Sending
<1> QED BY <1>8, <1>11, <1>12, <1>13, <1>14, <1>15 DEF ChannelInv, InvFrom

\* Every step of the sender and of the receiver keeps the invariant.
LEMMA ChannelInvStays ==
  ASSUME OneSender
  PROVE  ChannelInv /\ [ChannelNext]_channel => ChannelInv'
<1> SUFFICES ASSUME ChannelInv, [ChannelNext]_channel PROVE ChannelInv'  OBVIOUS
<1>1. CASE UNCHANGED channel
  <2>1. UNCHANGED <<processed, next, given, slot, sender, queue, hand, asked>>  BY <1>1 DEF channel
  <2>2. Messages' = Messages /\ \A t : Waiting(t)' = Waiting(t)  BY <2>1 DEF Messages, Waiting
  <2>3. ChannelType' /\ AskedIsComing'
    BY <2>1, <2>2 DEF ChannelInv, ChannelType, AskedIsComing, Sending
  <2>4. PICK base \in Serial : InvFrom(base)  BY DEF ChannelInv
  <2>5. Numbers(base)'  BY <2>1, <2>4 DEF InvFrom, Numbers, Offset
  <2>6. InLine(base)'  BY <2>1, <2>2, <2>4 DEF InvFrom, InLine, Offset
  <2>7. Coming(base)'  BY <2>1, <2>2, <2>4 DEF InvFrom, Coming, Offset
  <2>8. SlotsRemember(base)'  BY <2>1, <2>2, <2>4 DEF InvFrom, SlotsRemember, Offset, Sending
  <2> QED BY <2>3, <2>5, <2>6, <2>7, <2>8 DEF ChannelInv, InvFrom
<1>2. CASE ChannelNext
  BY <1>2, AskKeeps, SuppressKeeps, GoOnKeeps, TakeNumberKeeps, RecordKeeps, PushKeeps,
     SendPlainKeeps, TakeKeeps, ReturnKeeps DEF ChannelNext, SendStep, Receive
<1> QED BY <1>1, <1>2

\* What a page has asked for is on its way once, and none of it is lost, though the
\* sender looks at processed_serial while recv sets it (handle.rs, serial.rs).
THEOREM RequestsAreAskedOnce ==
  ASSUME OneSender
  PROVE  ChannelSpec => []AskedOnce
<1>1. ChannelInv => AskedOnce
  <2> SUFFICES ASSUME ChannelInv PROVE AskedOnce  OBVIOUS
  <2>1. PICK base \in Serial : InvFrom(base)  BY DEF ChannelInv
  <2>2. ASSUME NEW s \in Slot, NEW m \in Waiting(s), NEW n \in Waiting(s) PROVE m = n
    <3>1. /\ m \in Messages /\ n \in Messages /\ m.slot = s /\ n.slot = s
          /\ m.serial = slot[s] /\ n.serial = slot[s]
      BY <2>1 DEF Waiting, InvFrom, SlotsRemember
    <3>2. m = [slot |-> m.slot, serial |-> m.serial] /\ n = [slot |-> n.slot, serial |-> n.serial]
      BY <3>1, MessageState DEF ChannelInv
    <3> QED BY <3>1, <3>2
  <2>3. \A s \in Slot : Sending(s) => Waiting(s) = {}
    BY <2>1 DEF InvFrom, SlotsRemember
  <2>4. NoFlood  BY <2>2, <2>3 DEF NoFlood
  <2> QED BY <2>4 DEF ChannelInv, AskedOnce
<1>2. ChannelInv /\ [ChannelNext]_channel => ChannelInv'  BY ChannelInvStays
<1> QED BY <1>1, <1>2, ChannelInvInitially, PTL DEF ChannelSpec

-----------------------------------------------------------------------------
(* IdSlab: a map whose ids are never used again, for any number of slots,    *)
(* values and ids.                                                           *)

\* What is in a slot knows the slot, and was put there before the next one.
OwnId == \A i \in Index : slots[i] # Vacant => slots[i].id[1] = i /\ slots[i].id[2] < generation

SlabInv == SlabType /\ OwnId

\* What the ids name.
Named == [id \in Id |-> get(id)]
Spent == {id \in Id : id[2] < generation}

\* The empty slab.
THEOREM InitSlab ==
  ASSUME SlabAssumption, SlabInit
  PROVE  SlabInv /\ Map!Init
<1>1. SlabInv  BY DEF SlabAssumption, SlabInit, SlabInv, SlabType, OwnId
<1>2. Map!Init  BY <1>1 DEF SlabAssumption, SlabInit, Map!Init, get, Id
<1> QED BY <1>1, <1>2

\* What is removed or changed in place leaves the ids to their slots.
LEMMA EntriesAreKept ==
  ASSUME SlabInv, generation' = generation, slots' \in [Index -> Entry \cup {Vacant}],
         \A i \in Index : slots'[i] # Vacant => slots[i] # Vacant /\ slots'[i].id = slots[i].id
  PROVE  SlabInv' /\ Spent' = Spent
BY DEF SlabInv, SlabType, OwnId, Spent

\* Everything that is done to a slab is done to the map.
THEOREM StepOfTheMap ==
  ASSUME SlabAssumption, SlabInv, [SlabNext]_slab
  PROVE  SlabInv' /\ [Map!Next]_<<Named, Spent>>
<1> USE DEF SlabInv
<1>1. ASSUME NEW v \in Value, insert(v) PROVE SlabInv' /\ Map!Next
  <2>1. PICK i \in Index : slots[i] = Vacant /\ slots' = [slots EXCEPT ![i] = [id |-> <<i, generation>>, value |-> v]]
    BY <1>1 DEF insert
  <2> DEFINE new == <<i, generation>>
  <2>2. generation \in 0 .. Generations - 1 /\ generation' = generation + 1 /\ new \in Id
    BY <1>1 DEF SlabAssumption, insert, SlabType, Id
  <2>3. SlabInv'
    <3>1. SlabType'  BY <2>1, <2>2 DEF SlabAssumption, SlabType, Entry
    <3>2. OwnId'  BY <2>1, <2>2 DEF SlabAssumption, OwnId, SlabType, Id, Entry
    <3> QED BY <3>1, <3>2
  <2>4. new \notin Spent /\ Spent \cup {new} \subseteq Spent'
    BY <2>2 DEF SlabAssumption, Spent, Id
  <2>5. Named' = [Named EXCEPT ![new] = v]
    <3>1. ASSUME NEW id \in Id PROVE get(id)' = IF id = new THEN v ELSE get(id)
      <4>1. CASE id[1] = i
        <5>1. get(id) = Vacant  BY <2>1, <4>1 DEF get
        <5>2. slots'[i] = [id |-> new, value |-> v] /\ slots'[i] # Vacant
          BY <2>1, <2>2 DEF SlabAssumption, SlabType, Entry
        <5> QED BY <4>1, <5>1, <5>2 DEF get
      <4>2. CASE id[1] # i  BY <2>1, <4>2 DEF get, SlabType, Id
      <4> QED BY <4>1, <4>2
    <3> QED BY <2>2, <3>1 DEF Named
  <2>6. Map!Insert(new, v)  BY <2>4, <2>5 DEF Map!Insert, Named, Spent
  <2> QED BY <2>2, <2>3, <2>6 DEF Map!Next
<1>2. ASSUME NEW v \in Value, NEW id \in Id, update(id, v) PROVE SlabInv' /\ Map!Next
  <2> DEFINE i == id[1]
             changed == [id |-> id, value |-> v]
  <2>1. get(id) # Vacant /\ slots[i] # Vacant /\ slots[i].id = id /\ generation' = generation
    BY <1>2 DEF update, get
  <2>0. i \in Index /\ slots[i] \in Entry /\ changed \in Entry /\ changed # Vacant
    BY <2>1 DEF SlabAssumption, SlabType, Id, Entry
  <2>6. slots' = [slots EXCEPT ![i] = changed]
    <3>1. slots' = [slots EXCEPT ![i].value = v]  BY <1>2 DEF update
    <3>2. [slots[i] EXCEPT !.value = v] = changed  BY <2>0, <2>1 DEF Entry
    <3> QED BY <3>1, <3>2 DEF SlabType
  <2>2. slots' \in [Index -> Entry \cup {Vacant}]  BY <2>0, <2>6 DEF SlabType
  <2>7. \A j \in Index : slots'[j] # Vacant => slots[j] # Vacant /\ slots'[j].id = slots[j].id
    BY <2>0, <2>1, <2>6 DEF SlabType
  <2>3. SlabInv' /\ Spent' = Spent  BY <2>1, <2>2, <2>7, EntriesAreKept
  <2>4. Named' = [Named EXCEPT ![id] = v]
    <3>1. ASSUME NEW other \in Id PROVE get(other)' = IF other = id THEN v ELSE get(other)
      <4>1. CASE other[1] = id[1]
        BY <2>0, <2>1, <2>6, <4>1 DEF get, SlabType, Id
      <4>2. CASE other[1] # id[1]  BY <2>6, <4>2 DEF get, SlabType, Id
      <4> QED BY <4>1, <4>2
    <3> QED BY <3>1 DEF Named
  <2>5. Map!Put(id, v)  BY <2>1, <2>3, <2>4 DEF Map!Put, Named, Spent
  <2> QED BY <2>3, <2>5 DEF Map!Next
<1>3. ASSUME generation' = generation,
             NEW gone \in SUBSET Index,
             slots' = [i \in Index |-> IF i \in gone THEN Vacant ELSE slots[i]]
      PROVE  SlabInv' /\ Map!Next
  <2>1. slots' \in [Index -> Entry \cup {Vacant}]  BY <1>3 DEF SlabType
  <2>2. SlabInv' /\ Spent' = Spent  BY <1>3, <2>1, EntriesAreKept DEF SlabType
  <2>3. ASSUME NEW id \in Id PROVE get(id)' \in {get(id), Vacant} /\ get(id)' \in Value \cup {Vacant}
    BY <1>3, <2>3 DEF get, Id, SlabType, Entry
  <2>4. Map!Remove  BY <2>2, <2>3 DEF Map!Remove, Named, Spent
  <2> QED BY <2>2, <2>4 DEF Map!Next
<1>4. ASSUME NEW id \in Id, remove(id) PROVE SlabInv' /\ Map!Next
  <2> DEFINE gone == IF get(id) = Vacant THEN {} ELSE {id[1]}
  <2>1. slots' = [i \in Index |-> IF i \in gone THEN Vacant ELSE slots[i]] /\ generation' = generation
    BY <1>4 DEF remove, SlabType, Id
  <2>2. gone \in SUBSET Index  BY DEF Id
  <2> QED BY <1>3, <2>1, <2>2
<1>5. ASSUME NEW kept \in SUBSET Value, retain(kept) PROVE SlabInv' /\ Map!Next
  <2> DEFINE gone == {i \in Index : ~(slots[i] # Vacant /\ slots[i].value \in kept)}
  <2>1. slots' = [i \in Index |-> IF i \in gone THEN Vacant ELSE slots[i]] /\ generation' = generation
    BY <1>5 DEF retain
  <2> QED BY <1>3, <2>1
<1>6. CASE UNCHANGED slab
  BY <1>6 DEF slab, SlabType, OwnId, Named, Spent, get
<1> QED BY <1>1, <1>2, <1>4, <1>5, <1>6 DEF SlabNext

\* IdSlab (id_slab.rs) implements the map whose ids are never used again: a message
\* that names an instance by an old id reaches no other instance.
THEOREM SlabImplementsIdMap ==
  ASSUME SlabAssumption
  PROVE  SlabSpec => ImplementsIdMap
<1>0. SlabInit => SlabInv /\ Map!Init  BY InitSlab
<1>1. SlabInv /\ [SlabNext]_slab => SlabInv'  BY StepOfTheMap
<1>2. SlabInv /\ [SlabNext]_slab => [Map!Next]_<<Named, Spent>>  BY StepOfTheMap
<1> QED BY <1>0, <1>1, <1>2, PTL DEF SlabSpec, ImplementsIdMap, Map!Spec, Named, Spent

-----------------------------------------------------------------------------
(* InstanceRegistry: a slab of instances, none of which is there twice, for  *)
(* any number of folders, events and changes.                                *)

\* The event that is handled.
LEMMA EventFacts ==
  ASSUME TypeOK, events # <<>>
  PROVE  /\ Head(events) \in Event /\ Tail(events) \in Seq(Event)
         /\ Subject \in Folder \cup {Dir}
         /\ Head(events).kind \in {"info", "noinfo"} => Subject \in Folder
         /\ Head(events).kind = "rename" => Subject \in Folder /\ Head(events).to \in Folder
<1>1. Head(events) \in Event /\ Tail(events) \in Seq(Event)
  BY HeadTailProperties DEF TypeOK
<1> QED BY <1>1 DEF Event, Subject

\* What a step does to the slab: a folder is inserted only if no instance has it, and an
\* instance gets the folder of another one only if that folder is noted.
SlabCases ==
  \/ UNCHANGED slab
  \/ \E kept \in SUBSET Folder : retain(kept)
  \/ \E t \in Id : remove(t)
  \/ \E f \in Folder \ Stored : insert(f)
  \/ \E t \in Id, f \in Folder : update(t, f) /\ (f \in Stored => f \in missed')

LEMMA LoadCases ==
  ASSUME NEW f \in Folder, NEW m, NEW watches, load_instance_from_path(f, m, watches)
  PROVE  SlabCases
<1>1. CASE retain(Folder \ {f})  BY <1>1 DEF SlabCases
<1> QED BY <1>1 DEF load_instance_from_path, SlabCases

LEMMA HandlerCases ==
  ASSUME TypeOK, HandleEvent \/ \E f \in Folder : LoadNext(f)
  PROVE  SlabCases /\ missed \subseteq missed'
<1>1. CASE Coalesce  BY <1>1 DEF Coalesce, SlabCases
<1>2. CASE ListInstances  BY <1>2 DEF ListInstances, SlabCases
<1>3. CASE DirRemoved
  <2>1. retain({}) \/ UNCHANGED slab  BY <1>3 DEF DirRemoved
  <2> QED BY <1>3, <2>1 DEF DirRemoved, SlabCases
<1>4. CASE FolderChanged
  <2>1. Subject \in Folder  BY <1>4, EventFacts DEF FolderChanged, Handle
  <2> QED BY <1>4, <2>1, LoadCases DEF FolderChanged, SlabCases
<1>5. CASE FolderRemoved  BY <1>5 DEF FolderRemoved, SlabCases
<1>6. CASE InfoChanged
  <2>1. Subject \in Folder  BY <1>6, EventFacts DEF InfoChanged, Handle
  <2> QED BY <1>6, <2>1, LoadCases DEF InfoChanged, SlabCases
<1>7. CASE InfoRemoved  BY <1>7 DEF InfoRemoved, SlabCases
<1>8. CASE FolderRenamed
  <2> DEFINE t == watching[Subject]
             to == Head(events).to
  <2>1. to \in Folder  BY <1>8, EventFacts DEF FolderRenamed, Handle
  <2>2. missed \subseteq missed'  BY <1>8 DEF FolderRenamed
  <2>3. CASE t \in Id /\ get(t) # Vacant
    <3>1. update(t, to) /\ (to \in Stored => to \in missed')  BY <1>8, <2>3 DEF FolderRenamed
    <3> QED BY <2>1, <2>2, <2>3, <3>1 DEF SlabCases
  <2>4. CASE ~(t \in Id /\ get(t) # Vacant)
    <3>1. UNCHANGED slab \/ \E m : load_instance_from_path(to, m, TRUE)
      BY <1>8, <2>4 DEF FolderRenamed
    <3> QED BY <2>1, <2>2, <3>1, LoadCases DEF SlabCases
  <2> QED BY <2>3, <2>4
<1>9. CASE \E f \in Folder : LoadNext(f)  BY <1>9, LoadCases DEF LoadNext
<1> QED BY <1>1, <1>2, <1>3, <1>4, <1>5, <1>6, <1>7, <1>8, <1>9 DEF HandleEvent

LEMMA StepCases ==
  ASSUME TypeOK, [Next]_vars
  PROVE  SlabCases /\ missed \subseteq missed'
<1>1. CASE Change
  <2>1. ASSUME NEW by, NEW folders, NEW es, Reported(by, folders, es)
        PROVE  UNCHANGED slab /\ missed \subseteq missed'
    BY <2>1 DEF Reported
  <2>2. CASE DirMoves  BY <2>2 DEF DirMoves, SlabCases
  <2>3. CASE ~DirMoves
    <3>1. \E by, folders, es : Reported(by, folders, es)
      BY <1>1, <2>3 DEF Change, Appears, WritesInfo, LosesInfo, Disappears, Moves, CreateInstance,
                       DeleteInstance, RenameInstance
    <3> QED BY <2>1, <3>1 DEF SlabCases
  <2> QED BY <2>2, <2>3
<1>2. CASE UNCHANGED vars  BY <1>2 DEF vars, SlabCases
<1> QED BY <1>1, <1>2, HandlerCases DEF Next

\* No two instances have the same folder, after a step.
LEMMA FoldersStayApart ==
  ASSUME SlabAssumption, Value = Folder, TypeOK, OnePerFolder, [Next]_vars
  PROVE  OnePerFolder'
<1> USE DEF SlabType
<1>0. SlabType /\ missed \subseteq missed' /\ SlabCases  BY StepCases DEF TypeOK
<1>1. CASE \A i \in Index : slots'[i] \in {slots[i], Vacant}
  BY <1>0, <1>1 DEF OnePerFolder
<1>2. CASE \E f \in Folder \ Stored : insert(f)
  <2>1. PICK f \in Folder \ Stored : insert(f)  BY <1>2
  <2>2. PICK i \in Index : slots[i] = Vacant /\ slots' = [slots EXCEPT ![i] = [id |-> <<i, generation>>, value |-> f]]
    BY <2>1 DEF insert
  <2>3. \A j \in Index : slots[j] # Vacant => slots[j].value # f  BY <2>1 DEF Stored
  <2>4. slots'[i].value = f /\ \A j \in Index : j # i => slots'[j] = slots[j]  BY <1>0, <2>2
  <2> QED BY <1>0, <2>3, <2>4 DEF OnePerFolder
<1>3. CASE \E t \in Id, f \in Folder : update(t, f) /\ (f \in Stored => f \in missed')
  <2>1. PICK t \in Id, f \in Folder : update(t, f) /\ (f \in Stored => f \in missed')  BY <1>3
  <2> DEFINE i == t[1]
  <2>2. i \in Index /\ slots[i] # Vacant /\ slots[i] \in Entry
    BY <1>0, <2>1 DEF update, get, Id
  <2>3. slots'[i].value = f /\ \A j \in Index : j # i => slots'[j] = slots[j]
    BY <1>0, <2>1, <2>2 DEF update, Entry
  <2>4. \A j \in Index : slots[j] # Vacant /\ slots[j].value = f => f \in missed'
    BY <2>1 DEF Stored
  <2> HIDE DEF i
  <2> QED BY <1>0, <2>2, <2>3, <2>4 DEF OnePerFolder
<1>4. CASE \E kept \in SUBSET Folder : retain(kept)
  <2>1. \A i \in Index : slots'[i] \in {slots[i], Vacant}  BY <1>4 DEF retain
  <2> QED BY <1>1, <2>1
<1>5. CASE \E t \in Id : remove(t)
  <2>1. \A i \in Index : slots'[i] \in {slots[i], Vacant}  BY <1>0, <1>5 DEF remove
  <2> QED BY <1>1, <2>1
<1>6. CASE UNCHANGED slab
  <2>1. \A i \in Index : slots'[i] \in {slots[i], Vacant}  BY <1>6 DEF slab
  <2> QED BY <1>1, <2>1
<1> QED BY <1>0, <1>2, <1>3, <1>4, <1>5, <1>6 DEF SlabCases

\* The slab of the launcher is one.
LEMMA RegistryIsSlab ==
  ASSUME Value = Folder, TypeOK, [Next]_vars
  PROVE  [SlabNext]_slab
BY StepCases DEF SlabCases, SlabNext

-----------------------------------------------------------------------------
(* The types of the registry. *)

Watches == [on : [Folder \cup {Dir} -> WatchTarget], invalid : Folder \cup {None}, heard : SUBSET (Folder \cup {Dir})]

LEMMA WatchedType == ASSUME TypeOK PROVE Watched \in Watches
BY DEF TypeOK, Watched, Watches

LEMMA Forgotten ==
  ASSUME NEW m \in Watches, NEW p \in Folder \cup {Dir}
  PROVE  forget(m, p) \in Watches /\ [forget(m, p) EXCEPT !.heard = @ \ {p}] \in Watches
<1>1. None \in WatchTarget  BY DEF WatchTarget
<1>2. [m.on EXCEPT ![p] = None] \in [Folder \cup {Dir} -> WatchTarget]  BY <1>1 DEF Watches
<1>3. forget(m, p) \in Watches  BY <1>2 DEF forget, Watches
<1>4. forget(m, p).heard \ {p} \subseteq Folder \cup {Dir}  BY <1>3 DEF Watches
<1> QED BY <1>3, <1>4 DEF Watches

LEMMA WatchType ==
  ASSUME InstancesDir # InvalidInstanceDir, NEW m \in Watches,
         NEW p \in Folder \cup {Dir}, NEW t \in WatchTarget, t = InvalidInstanceDir => p \in Folder
  PROVE  watch(m, p, t) \in Watches
<1> DEFINE shared == t = InvalidInstanceDir
           cleared == IF shared /\ m.invalid # None THEN forget(m, m.invalid) ELSE m
<1>1. cleared \in Watches  BY Forgotten DEF Watches
<1> HIDE DEF cleared
<1>2. [cleared.on EXCEPT ![p] = t] \in [Folder \cup {Dir} -> WatchTarget]  BY <1>1 DEF Watches
<1>3. (IF shared THEN p ELSE cleared.invalid) \in Folder \cup {None}  BY <1>1 DEF Watches
<1>4. m.heard \cup {p} \in SUBSET (Folder \cup {Dir})  BY DEF Watches
<1>5. [on |-> [cleared.on EXCEPT ![p] = t], invalid |-> IF shared THEN p ELSE cleared.invalid,
       heard |-> m.heard \cup {p}] \in Watches
  BY <1>2, <1>3, <1>4 DEF Watches
<1> QED BY <1>5 DEF watch, cleared

MapTypes ==
  /\ watching \in [Folder \cup {Dir} -> WatchTarget] /\ invalid \in Folder \cup {None}
  /\ heard \subseteq Folder \cup {Dir} /\ taken \subseteq Folder

LEMMA MapsStay ==
  ASSUME Value = Folder, TypeOK, SlabType', NEW m \in Watches, Watch(m)
  PROVE  MapTypes'
<1>1. Stored' \subseteq Folder  BY DEF SlabType, Stored, Entry
<1> QED BY <1>1 DEF Watch, Watches, TypeOK, MapTypes

LEMMA LoadTypes ==
  ASSUME RegistryAssumption, TypeOK, SlabType', NEW f \in Folder, NEW m \in Watches, NEW watches,
         load_instance_from_path(f, m, watches)
  PROVE  MapTypes'
<1> USE DEF RegistryAssumption
<1>1. InvalidInstanceDir \in WatchTarget  BY DEF WatchTarget
<1>2. watch(m, f, InvalidInstanceDir) \in Watches  BY <1>1, WatchType
<1>3. CASE disk[f] # "instance"
  <2>1. \E n \in Watches : Watch(n)  BY <1>2, <1>3 DEF load_instance_from_path
  <2> QED BY <2>1, MapsStay
<1>4. CASE disk[f] = "instance" /\ f \in Stored
  BY <1>4, MapsStay DEF load_instance_from_path
<1>5. CASE disk[f] = "instance" /\ f \notin Stored
  <2>1. insert(f)  BY <1>5 DEF load_instance_from_path
  <2>2. PICK i \in Index : slots'[i] # slots[i] /\ Watch(watch(m, f, slots'[i].id))
    BY <1>5 DEF load_instance_from_path
  <2>3. PICK j \in Index : slots[j] = Vacant /\ slots' = [slots EXCEPT ![j] = [id |-> <<j, generation>>, value |-> f]]
    BY <2>1 DEF insert
  <2>4. slots'[i] = [id |-> <<j, generation>>, value |-> f] /\ i = j
    BY <2>2, <2>3 DEF TypeOK, SlabType
  <2>5. slots'[i] # Vacant
    <3>1. slots'[i] # slots[i] /\ slots[i] = Vacant  BY <2>2, <2>3, <2>4
    <3> QED BY <3>1
  <2>6. slots'[i].id \in Id  BY <2>2, <2>5 DEF SlabType, Entry
  <2>7. watch(m, f, slots'[i].id) \in Watches
    BY <2>6, WatchType DEF WatchTarget
  <2> QED BY <2>2, <2>7, MapsStay
<1> QED BY <1>3, <1>4, <1>5

\* Types of what the handlers leave to the disk and the queue.
QueueTypes ==
  /\ disk \in [Folder -> {"absent", "instance", "invalid", "file"}] /\ exists \in BOOLEAN
  /\ loading \subseteq Folder /\ events \in Seq(Event)
  /\ changes \in 0 .. MaxChanges /\ missed \subseteq Folder

LEMMA HandlerTypes ==
  ASSUME RegistryAssumption, TypeOK, SlabType', HandleEvent
  PROVE  MapTypes' /\ QueueTypes'
<1> USE DEF RegistryAssumption
<1>0. TypeOK => MapTypes /\ QueueTypes  BY DEF TypeOK, MapTypes, QueueTypes
<1>1. ASSUME NEW kind, Handle(kind), loading' \subseteq Folder, missed' \subseteq Folder PROVE QueueTypes'
  <2>1. events' \in Seq(Event)  BY <1>1, EventFacts DEF Handle
  <2> QED BY <1>0, <1>1, <2>1 DEF Handle, QueueTypes
<1>2. CASE Coalesce
  <2>1. events' \in Seq(Event)
    <3>1. events # <<>>  BY <1>2 DEF Coalesce
    <3> QED BY <1>2, <3>1, EventFacts DEF Coalesce
  <2> QED BY <1>0, <1>2, <2>1 DEF Coalesce, files, maps, MapTypes, QueueTypes
<1>3. CASE ListInstances
  <2>1. Subject = Dir /\ Subject \in Folder \cup {Dir}
    BY <1>3, EventFacts DEF ListInstances, Handle
  <2>2. InstancesDir \in WatchTarget  BY DEF WatchTarget
  <2>3. watch(Watched, Dir, InstancesDir) \in Watches
    BY <2>2, WatchedType, WatchType
  <2>4. MapTypes'  BY <1>3, <2>3, MapsStay DEF ListInstances
  <2>5. loading' \subseteq Folder /\ missed' \subseteq Folder
    <3>1. Stored \subseteq Folder
      BY DEF Stored, SlabType, Entry, TypeOK
    <3> QED BY <1>3, <3>1 DEF ListInstances, Instances, TypeOK
  <2> QED BY <1>1, <1>3, <2>4, <2>5 DEF ListInstances
<1>4. CASE DirRemoved
  <2>1. [forget(Watched, Dir) EXCEPT !.heard = @ \ {Dir}] \in Watches
    BY WatchedType, Forgotten
  <2>2. MapTypes'  BY <1>4, <2>1, MapsStay DEF DirRemoved
  <2>3. loading' \subseteq Folder /\ missed' \subseteq Folder  BY <1>0, <1>4 DEF DirRemoved, QueueTypes
  <2> QED BY <1>1, <1>4, <2>2, <2>3 DEF DirRemoved
<1>5. CASE FolderChanged
  <2>1. Subject \in Folder  BY <1>5, EventFacts DEF FolderChanged, Handle
  <2>2. MapTypes'
    <3>1. CASE IsDir(Subject) /\ watching[Dir] # None
      <4>1. load_instance_from_path(Subject, Watched, TRUE)  BY <1>5, <3>1 DEF FolderChanged
      <4> QED BY <2>1, <4>1, WatchedType, LoadTypes
    <3>2. CASE ~(IsDir(Subject) /\ watching[Dir] # None)
      BY <1>0, <1>5, <3>2 DEF FolderChanged, maps, MapTypes
    <3> QED BY <3>1, <3>2
  <2>3. loading' \subseteq Folder /\ missed' \subseteq Folder
    BY <1>0, <1>5, <2>1 DEF FolderChanged, QueueTypes
  <2> QED BY <1>1, <1>5, <2>2, <2>3 DEF FolderChanged
<1>6. CASE FolderRemoved
  <2>1. Subject \in Folder  BY <1>6, EventFacts DEF FolderRemoved, Handle
  <2>2. [forget(Watched, Subject) EXCEPT !.heard = @ \ {Subject}] \in Watches
    BY <2>1, WatchedType, Forgotten
  <2>3. MapTypes'  BY <1>6, <2>2, MapsStay DEF FolderRemoved
  <2>4. loading' \subseteq Folder /\ missed' \subseteq Folder
    BY <1>0, <1>6, <2>1 DEF FolderRemoved, QueueTypes
  <2> QED BY <1>1, <1>6, <2>3, <2>4 DEF FolderRemoved
<1>7. CASE InfoChanged
  <2>1. Subject \in Folder  BY <1>7, EventFacts DEF InfoChanged, Handle
  <2>2. load_instance_from_path(Subject, Watched, FALSE) \/ UNCHANGED <<slab, maps, heard>>
    BY <1>7 DEF InfoChanged
  <2>3. ASSUME load_instance_from_path(Subject, Watched, FALSE) PROVE MapTypes'
    BY <2>1, <2>3, WatchedType, LoadTypes
  <2>4. ASSUME UNCHANGED <<slab, maps, heard>> PROVE MapTypes'  BY <1>0, <2>4 DEF maps, MapTypes
  <2>5. loading' \subseteq Folder /\ missed' \subseteq Folder
    BY <1>0, <1>7, <2>1 DEF InfoChanged, QueueTypes
  <2> QED BY <1>1, <1>7, <2>2, <2>3, <2>4, <2>5 DEF InfoChanged
<1>8. CASE InfoRemoved
  <2>1. Subject \in Folder  BY <1>8, EventFacts DEF InfoRemoved, Handle
  <2>2. Watch(watch(Watched, Subject, InvalidInstanceDir)) \/ UNCHANGED <<slab, maps, heard>>
    BY <1>8 DEF InfoRemoved
  <2>3. ASSUME Watch(watch(Watched, Subject, InvalidInstanceDir)) PROVE MapTypes'
    <3>1. watch(Watched, Subject, InvalidInstanceDir) \in Watches
      BY <2>1, WatchedType, WatchType DEF WatchTarget
    <3> QED BY <2>3, <3>1, MapsStay
  <2>4. ASSUME UNCHANGED <<slab, maps, heard>> PROVE MapTypes'  BY <1>0, <2>4 DEF maps, MapTypes
  <2>5. loading' \subseteq Folder /\ missed' \subseteq Folder
    BY <1>0, <1>8, <2>1 DEF InfoRemoved, QueueTypes
  <2> QED BY <1>1, <1>8, <2>2, <2>3, <2>4, <2>5 DEF InfoRemoved
<1>9. CASE FolderRenamed
  <2> DEFINE t == watching[Subject]
             to == Head(events).to
             m == [forget(Watched, Subject) EXCEPT !.heard = @ \ {Subject}]
  <2>1. Subject \in Folder /\ to \in Folder  BY <1>9, EventFacts DEF FolderRenamed, Handle
  <2>2. m \in Watches  BY <2>1, WatchedType, Forgotten
  <2>3. \/ t \in Id /\ Watch(watch(m, to, t))
        \/ load_instance_from_path(to, m, TRUE)
        \/ Watch(m)
    BY <1>9 DEF FolderRenamed
  <2>4. loading' \subseteq Folder /\ missed' \subseteq Folder
    BY <1>0, <1>9, <2>1 DEF FolderRenamed, QueueTypes
  <2> HIDE DEF m
  <2>5. ASSUME t \in Id /\ Watch(watch(m, to, t)) PROVE MapTypes'
    <3>1. watch(m, to, t) \in Watches  BY <2>1, <2>2, <2>5, WatchType DEF WatchTarget
    <3> QED BY <2>5, <3>1, MapsStay
  <2>6. ASSUME load_instance_from_path(to, m, TRUE) PROVE MapTypes'  BY <2>1, <2>2, <2>6, LoadTypes
  <2>7. ASSUME Watch(m) PROVE MapTypes'  BY <2>2, <2>7, MapsStay
  <2> QED BY <1>1, <1>9, <2>3, <2>4, <2>5, <2>6, <2>7 DEF FolderRenamed
<1> QED BY <1>2, <1>3, <1>4, <1>5, <1>6, <1>7, <1>8, <1>9 DEF HandleEvent

LEMMA ReportedTypes ==
  ASSUME TypeOK, SlabType', RegistryAssumption, NEW by, NEW folders, folders \subseteq Folder,
         NEW es \in Seq(Event), Reported(by, folders, es),
         disk' \in [Folder -> {"absent", "instance", "invalid", "file"}], heard' \subseteq heard
  PROVE  MapTypes' /\ QueueTypes'
<1> USE DEF RegistryAssumption, TypeOK
<1>1. events' \in Seq(Event)
  <2>1. events' = events \/ events' = events \o es  BY DEF Reported
  <2>2. events \in Seq(Event) /\ events \o es \in Seq(Event)  OBVIOUS
  <2> QED BY <2>1, <2>2
<1>2. changes' \in 0 .. MaxChanges  BY DEF Reported
<1>3. missed' \subseteq Folder  BY DEF Reported
<1> QED BY <1>1, <1>2, <1>3 DEF Reported, maps, MapTypes, QueueTypes

LEMMA ChangeTypes ==
  ASSUME RegistryAssumption, Vacant \notin Value \cup Entry, TypeOK, SlabType', Change
  PROVE  MapTypes' /\ QueueTypes'
<1>0. TypeOK => MapTypes /\ QueueTypes  BY DEF TypeOK, MapTypes, QueueTypes
<1> DEFINE Kinds == {"absent", "instance", "invalid", "file"}
<1>1. ASSUME NEW f \in Folder, NEW kind \in {"change", "remove", "info", "noinfo"}
      PROVE  <<E(kind, f)>> \in Seq(Event)
  <2>1. E(kind, f) \in Event  BY DEF E, Event
  <2> QED BY <2>1
<1>2. \A f \in Folder, k \in Kinds : [disk EXCEPT ![f] = k] \in [Folder -> Kinds]  BY DEF TypeOK
<1>3. ASSUME NEW f \in Folder, Appears(f) PROVE MapTypes' /\ QueueTypes'
  <2>1. Reported(Dir, {f}, <<E("change", f)>>) /\ heard' = heard  BY <1>3 DEF Appears
  <2>2. disk' \in [Folder -> Kinds]  BY <1>2, <1>3 DEF Appears
  <2>3. <<E("change", f)>> \in Seq(Event)  BY <1>1
  <2> QED BY <2>1, <2>2, <2>3, ReportedTypes
<1>4. ASSUME NEW f \in Folder, WritesInfo(f) PROVE MapTypes' /\ QueueTypes'
  BY <1>1, <1>2, <1>4, ReportedTypes DEF WritesInfo
<1>5. ASSUME NEW f \in Folder, LosesInfo(f) PROVE MapTypes' /\ QueueTypes'
  BY <1>1, <1>2, <1>5, ReportedTypes DEF LosesInfo
<1>6. ASSUME NEW f \in Folder, Disappears(f) PROVE MapTypes' /\ QueueTypes'
  BY <1>1, <1>2, <1>6, ReportedTypes DEF Disappears
<1>7. ASSUME NEW f \in Folder, NEW g \in Folder, Moves(f, g) PROVE MapTypes' /\ QueueTypes'
  <2> DEFINE e == [kind |-> "rename", path |-> f, to |-> g]
  <2>1. e \in Event  BY DEF Event
  <2>2. <<e>> \in Seq(Event)  BY <2>1
  <2>3. disk' \in [Folder -> Kinds]  BY <1>7 DEF Moves, TypeOK
  <2>4. Reported(Dir, {f, g}, <<e>>) /\ heard' \subseteq heard  BY <1>7 DEF Moves
  <2> HIDE DEF e
  <2> QED BY <2>2, <2>3, <2>4, ReportedTypes
<1>8. CASE DirMoves
  <2>1. E("remove", Dir) \in Event /\ E("change", Dir) \in Event  BY DEF E, Event
  <2>2. events' \in Seq(Event)  BY <1>8, <2>1 DEF DirMoves, TypeOK
  <2>3. changes' \in 0 .. MaxChanges  BY <1>8 DEF DirMoves, TypeOK, RegistryAssumption
  <2> QED BY <1>0, <1>8, <2>2, <2>3 DEF DirMoves, maps, MapTypes, QueueTypes
<1>9. ASSUME NEW id \in Id, get(id) # Vacant PROVE get(id) \in Folder
  BY <1>9 DEF get, Id, TypeOK, SlabType, Entry, RegistryAssumption
<1>10. CASE \E id \in Id : DeleteInstance(id) \/ \E name \in Folder : RenameInstance(id, name)
  BY <1>5, <1>6, <1>7, <1>9, <1>10 DEF DeleteInstance, RenameInstance
<1> QED BY <1>3, <1>4, <1>5, <1>6, <1>7, <1>8, <1>10 DEF Change, CreateInstance

LEMMA RegistryTypesStay ==
  ASSUME RegistryAssumption, SlabAssumption, TypeOK, SlabType', [Next]_vars
  PROVE  TypeOK'
<1>0. TypeOK => MapTypes /\ QueueTypes  BY DEF TypeOK, MapTypes, QueueTypes
<1>1. MapTypes' /\ QueueTypes' => TypeOK'  BY DEF TypeOK, MapTypes, QueueTypes
<1>2. CASE \E f \in Folder : LoadNext(f)
  <2>1. PICK f \in Folder : LoadNext(f)  BY <1>2
  <2>2. MapTypes'  BY <2>1, WatchedType, LoadTypes DEF LoadNext
  <2>3. QueueTypes'  BY <1>0, <2>1 DEF LoadNext, QueueTypes
  <2> QED BY <1>1, <2>2, <2>3
<1>3. CASE UNCHANGED vars
  BY <1>3 DEF vars, slab, files, maps, TypeOK, SlabType
<1> QED BY <1>1, <1>2, <1>3, HandlerTypes, ChangeTypes DEF Next, SlabAssumption

-----------------------------------------------------------------------------
(* Watches and instances.                                                  *)

\* The id a folder is watched under is none that is to come, and if it names an
\* instance, that of the folder.
OwnWatch ==
  \A p \in Folder : watching[p] \in Id =>
    watching[p][2] < generation /\ get(watching[p]) \in {p, Vacant}

\* An instance is watched under its id, or its watch has been taken.
WatchedAsIs ==
  \A f \in Stored \ missed :
    (watching[f] \in Id /\ get(watching[f]) = f) \/ (watching[f] = None /\ f \in taken)

WatchInv == OwnWatch /\ WatchedAsIs

LEMMA GetFacts ==
  ASSUME SlabAssumption, Value = Folder, SlabInv
  PROVE  /\ \A f \in Folder, id \in Id :
              get(id) = f <=> slots[id[1]] # Vacant /\ slots[id[1]].id = id /\ slots[id[1]].value = f
         /\ \A f : f \in Stored <=> \E i \in Index : slots[i] # Vacant /\ slots[i].value = f
         /\ \A i \in Index : slots[i] # Vacant =>
              slots[i] \in Entry /\ slots[i].id \in Id /\ slots[i].id[1] = i /\ slots[i].value \in Folder
         /\ \A id \in Id : id[1] \in Index
BY DEF SlabAssumption, SlabInv, SlabType, OwnId, Entry, Id, get, Stored

\* What a step may do to a watch without an id: leave it, take it, or put another one
\* where there is no instance that counts.
Rewatched(p) ==
  \/ watching'[p] = watching[p]
  \/ watching'[p] = None /\ (p \in Stored' /\ watching[p] \in Id => p \in taken')
  \/ watching'[p] \notin Id /\ (p \in Stored' => p \in missed')

LEMMA FewerKeepWatches ==
  ASSUME SlabAssumption, RegistryAssumption, SlabInv, OnePerFolder, WatchInv, SlabInv',
         missed \subseteq missed', taken \subseteq taken', generation' = generation,
         \A i \in Index : slots'[i] \in {slots[i], Vacant},
         \A p \in Folder : Rewatched(p)
  PROVE  WatchInv'
<1> USE DEF RegistryAssumption
<1>1. \A id \in Id : get(id)' \in {get(id), Vacant}
  BY GetFacts DEF get
<1>2. OwnWatch'
  <2> SUFFICES ASSUME NEW p \in Folder, watching'[p] \in Id
               PROVE  watching'[p][2] < generation' /\ get(watching[p])' \in {p, Vacant}
    BY DEF OwnWatch
  <2>1. watching'[p] = watching[p]  BY DEF Rewatched
  <2> QED BY <1>1, <2>1 DEF WatchInv, OwnWatch, get
<1>3. ASSUME NEW f \in Stored' \ missed'
      PROVE  \/ watching'[f] \in Id /\ get(watching[f])' = f
             \/ watching'[f] = None /\ f \in taken'
  <2>1. PICK i \in Index : slots'[i] # Vacant /\ slots'[i].value = f  BY DEF Stored
  <2>2. slots'[i] = slots[i] /\ f \in Folder /\ f \in Stored /\ f \notin missed  BY <2>1, GetFacts
  <2>3. CASE watching[f] \in Id /\ get(watching[f]) = f
    <3>1. slots[watching[f][1]] # Vacant /\ slots[watching[f][1]].id = watching[f]
          /\ slots[watching[f][1]].value = f /\ watching[f][1] \in Index
      BY <2>2, <2>3, GetFacts
    <3>2. watching[f][1] = i  BY <2>1, <2>2, <3>1 DEF OnePerFolder
    <3>3. CASE watching'[f] = watching[f]
      BY <2>1, <2>2, <2>3, <3>1, <3>2, <3>3 DEF get
    <3>4. CASE watching'[f] # watching[f]  BY <2>2, <2>3, <3>4 DEF Rewatched
    <3> QED BY <3>3, <3>4
  <2>4. CASE watching[f] = None /\ f \in taken
    BY <2>2, <2>4 DEF Rewatched
  <2> QED BY <2>2, <2>3, <2>4 DEF WatchInv, WatchedAsIs
<1> QED BY <1>2, <1>3 DEF WatchInv, WatchedAsIs

LEMMA InsertKeepsWatches ==
  ASSUME SlabAssumption, RegistryAssumption, SlabInv, WatchInv, SlabInv',
         missed \subseteq missed', taken \subseteq taken', generation \in Nat, generation' = generation + 1,
         NEW i \in Index, NEW f \in Folder \ Stored, slots[i] = Vacant,
         slots' = [slots EXCEPT ![i] = [id |-> <<i, generation>>, value |-> f]],
         watching'[f] = <<i, generation>>,
         \A p \in Folder \ {f} : watching'[p] = watching[p] \/ Rewatched(p)
  PROVE  WatchInv'
<1> USE DEF RegistryAssumption
<1>n. PICK new : new = <<i, generation>>  OBVIOUS
<1>0. slots'[i] = [id |-> new, value |-> f] /\ \A j \in Index : j # i => slots'[j] = slots[j]
  BY <1>n DEF SlabInv, SlabType
<1>1. slots'[i] # Vacant /\ new \in Id
  <2>4. generation \in 0 .. Generations - 1  BY DEF SlabInv, SlabType, SlabAssumption
  <2>5. new \in Id  BY <1>n, <2>4 DEF Id
  <2>6. [id |-> new, value |-> f] \in Entry  BY <2>5 DEF Entry
  <2> QED BY <1>0, <2>5, <2>6 DEF SlabAssumption
<1>2. ASSUME NEW id \in Id, id[2] < generation PROVE get(id)' = get(id)
  <2>1. id # new /\ id[1] \in Index  BY <1>n, <1>2 DEF Id
  <2>2. CASE id[1] = i  BY <1>0, <2>1, <2>2 DEF get
  <2>3. CASE id[1] # i  BY <1>0, <2>1, <2>3 DEF get
  <2> QED BY <2>2, <2>3
<1>3. get(new)' = f  BY <1>0, <1>1 DEF get
<1>4. \A p \in Folder \ {f} : Rewatched(p)  BY DEF Rewatched
<1>5. OwnWatch'
  <2> SUFFICES ASSUME NEW p \in Folder, watching'[p] \in Id
               PROVE  watching'[p][2] < generation' /\ get(watching[p])' \in {p, Vacant}
    BY DEF OwnWatch
  <2>1. CASE p = f
    <3>1. watching'[p] = new /\ new[2] = generation  BY <1>n, <2>1
    <3>2. get(watching[p])' = get(new)'  BY <3>1 DEF get
    <3> QED BY <1>3, <2>1, <3>1, <3>2
  <2>2. CASE p # f
    <3>1. watching'[p] = watching[p]  BY <1>4, <2>2 DEF Rewatched
    <3>2. watching[p][2] < generation /\ get(watching[p]) \in {p, Vacant}
      BY <3>1 DEF WatchInv, OwnWatch
    <3>3. get(watching[p])' = get(watching[p])
      <4>1. \A id : id = watching[p] => get(id)' = get(id)  BY <1>2, <3>1, <3>2
      <4>2. PICK id : id = watching[p]  OBVIOUS
      <4> QED BY <3>1, <4>1, <4>2 DEF get
    <3>4. watching[p][2] \in Nat  BY <3>1 DEF Id
    <3> QED BY <3>1, <3>2, <3>3, <3>4
  <2> QED BY <2>1, <2>2
<1>6. ASSUME NEW g \in Stored' \ missed'
      PROVE  \/ watching'[g] \in Id /\ get(watching[g])' = g
             \/ watching'[g] = None /\ g \in taken'
  <2>1. PICK j \in Index : slots'[j] # Vacant /\ slots'[j].value = g  BY DEF Stored
  <2>2. CASE g = f
    <3>1. watching'[g] = new  BY <1>n, <2>2
    <3>2. get(watching[g])' = get(new)'  BY <3>1 DEF get
    <3> QED BY <1>1, <1>3, <2>2, <3>1, <3>2
  <2>3. CASE g # f
    <3>1. j # i /\ g \in Stored /\ g \in Folder /\ g \notin missed  BY <1>0, <2>1, <2>3, GetFacts
    <3>2. \/ watching[g] \in Id /\ get(watching[g]) = g
          \/ watching[g] = None /\ g \in taken
      BY <3>1 DEF WatchInv, WatchedAsIs
    <3>3. CASE watching'[g] = watching[g] /\ watching[g] \in Id /\ get(watching[g]) = g
      <4>1. \A id : id = watching[g] => get(id)' = get(id)
        BY <1>2, <3>1, <3>3 DEF WatchInv, OwnWatch
      <4>2. PICK id : id = watching[g]  OBVIOUS
      <4>3. get(id)' = g  BY <3>3, <4>1, <4>2
      <4> QED BY <3>3, <4>2, <4>3 DEF get
    <3> QED BY <1>4, <2>3, <3>1, <3>2, <3>3 DEF Rewatched
  <2> QED BY <2>2, <2>3
<1> QED BY <1>5, <1>6 DEF WatchInv, WatchedAsIs

LEMMA UpdateKeepsWatches ==
  ASSUME SlabAssumption, RegistryAssumption, SlabInv, OnePerFolder, WatchInv, SlabInv',
         missed \subseteq missed', taken \subseteq taken',
         NEW t \in Id, NEW p \in Folder, NEW to \in Folder, watching[p] = t, update(t, to),
         to \in missed' \/ watching'[to] = t,
         watching'[to] \in {t, None} \/ (watching'[to] = watching[to] /\ to # p),
         p # to => watching'[p] = None,
         \A q \in Folder \ {p, to} : watching'[q] = watching[q]
  PROVE  WatchInv'
<1> USE DEF RegistryAssumption
<1>1. /\ get(t) # Vacant /\ get(t) = p /\ t[1] \in Index
      /\ slots[t[1]] # Vacant /\ slots[t[1]].id = t /\ slots[t[1]].value = p
      /\ slots[t[1]] \in Entry /\ generation' = generation
  BY GetFacts DEF update, WatchInv, OwnWatch
<1>2. slots'[t[1]] = [id |-> t, value |-> to] /\ \A j \in Index : j # t[1] => slots'[j] = slots[j]
  BY <1>1 DEF update, SlabInv, SlabType, Entry
<1>3. slots'[t[1]] # Vacant
  BY <1>1, <1>2 DEF SlabAssumption, Entry
<1>4. ASSUME NEW id \in Id, id # t PROVE get(id)' = get(id)
  <2>1. CASE id[1] = t[1]  BY <1>1, <1>2, <1>4, <2>1 DEF get
  <2>2. CASE id[1] # t[1]  BY <1>2, <1>4, <2>2 DEF get, Id
  <2> QED BY <2>1, <2>2
<1>5. get(t)' = to  BY <1>2, <1>3 DEF get
<1>6. \A q \in Folder \ {p} : watching[q] # t
  BY <1>1 DEF WatchInv, OwnWatch, SlabAssumption
<1>7. OwnWatch'
  <2> SUFFICES ASSUME NEW q \in Folder, watching'[q] \in Id
               PROVE  watching'[q][2] < generation' /\ get(watching[q])' \in {q, Vacant}
    BY DEF OwnWatch
  <2>1. PICK id \in Id : id = watching'[q]  OBVIOUS
  <2>2. CASE id = t
    <3>1. t[2] < generation  BY DEF WatchInv, OwnWatch
    <3>2. q = to  BY <1>6, <2>1, <2>2
    <3> QED BY <1>1, <1>5, <2>1, <2>2, <3>1, <3>2 DEF get
  <2>3. CASE id # t
    <3>1. watching[q] = id  BY <2>1, <2>3
    <3>2. id[2] < generation /\ get(id) \in {q, Vacant}  BY <3>1 DEF WatchInv, OwnWatch
    <3>3. get(id)' \in {q, Vacant}  BY <1>4, <2>3, <3>2
    <3> QED BY <1>1, <2>1, <3>2, <3>3 DEF get
  <2> QED BY <2>2, <2>3
<1>8. ASSUME NEW f \in Stored' \ missed'
      PROVE  \/ watching'[f] \in Id /\ get(watching[f])' = f
             \/ watching'[f] = None /\ f \in taken'
  <2>1. PICK i \in Index : slots'[i] # Vacant /\ slots'[i].value = f  BY DEF Stored
  <2>2. CASE f = to
    <3>1. watching'[f] = t  BY <2>2
    <3> QED BY <1>5, <2>2, <3>1 DEF get
  <2>3. CASE f # to
    <3>1. i # t[1] /\ slots[i] = slots'[i]  BY <1>2, <2>1, <2>3
    <3>2. f \in Stored /\ f \in Folder /\ f \notin missed  BY <2>1, <3>1, GetFacts
    <3>3. f # p  BY <1>1, <2>1, <3>1, <3>2 DEF OnePerFolder
    <3>4. watching'[f] = watching[f] /\ watching[f] # t  BY <1>6, <2>3, <3>2, <3>3
    <3>5. \/ watching[f] \in Id /\ get(watching[f]) = f
          \/ watching[f] = None /\ f \in taken
      BY <3>2 DEF WatchInv, WatchedAsIs
    <3>6. CASE watching[f] \in Id /\ get(watching[f]) = f
      <4>1. PICK id \in Id : id = watching[f]  BY <3>6
      <4>2. get(id)' = f  BY <1>4, <3>4, <3>6, <4>1
      <4> QED BY <3>4, <4>1, <4>2 DEF get
    <3> QED BY <3>4, <3>5, <3>6
  <2> QED BY <2>2, <2>3
<1> QED BY <1>7, <1>8 DEF WatchInv, WatchedAsIs

\* What the operations on the maps do to the watches.
LEMMA ForgetOn ==
  ASSUME NEW m \in Watches, NEW p
  PROVE  /\ forget(m, p).on = [m.on EXCEPT ![p] = None]
         /\ [forget(m, p) EXCEPT !.heard = @ \ {p}].on = [m.on EXCEPT ![p] = None]
BY DEF forget

LEMMA WatchOn ==
  ASSUME NEW m \in Watches, NEW p, NEW t, t # InvalidInstanceDir
  PROVE  watch(m, p, t).on = IF IsDir(p) THEN [m.on EXCEPT ![p] = t] ELSE m.on
BY DEF watch, Watches

LEMMA WatchInvalidOn ==
  ASSUME NEW m \in Watches, NEW p \in Folder, NEW q \in Folder
  PROVE  \/ watch(m, p, InvalidInstanceDir).on[q] \in {m.on[q], None}
         \/ q = p /\ watch(m, p, InvalidInstanceDir).on[q] = InvalidInstanceDir
<1>1. PICK cleared : cleared = IF m.invalid # None THEN forget(m, m.invalid) ELSE m  OBVIOUS
<1>2. cleared.on = m.on \/ \E g : cleared.on = [m.on EXCEPT ![g] = None]  BY <1>1, ForgetOn
<1>3. cleared.on[q] \in {m.on[q], None} /\ DOMAIN cleared.on = Folder \cup {Dir}
  BY <1>2 DEF Watches
<1>4. \/ watch(m, p, InvalidInstanceDir) = m
      \/ watch(m, p, InvalidInstanceDir).on = [cleared.on EXCEPT ![p] = InvalidInstanceDir]
  BY <1>1 DEF watch
<1> QED BY <1>3, <1>4

LEMMA MapStep ==
  ASSUME NEW m, Watch(m), NEW p \in Folder, m.on[p] = watching[p] \/ m.on[p] = None
  PROVE  Rewatched(p)
BY DEF Watch, Rewatched

LEMMA LoadKeepsWatches ==
  ASSUME SlabAssumption, RegistryAssumption, SlabInv, TypeOK, OnePerFolder, WatchInv, SlabInv',
         missed \subseteq missed', NEW f \in Folder, NEW m \in Watches, NEW watches,
         \A p \in Folder : m.on[p] \in {watching[p], None},
         load_instance_from_path(f, m, watches)
  PROVE  WatchInv'
<1> USE DEF RegistryAssumption
<1>1. CASE disk[f] # "instance"
  <2>1. retain(Folder \ {f}) /\ \E n \in {m, watch(m, f, InvalidInstanceDir)} : Watch(n)
    BY <1>1 DEF load_instance_from_path
  <2>2. PICK n \in {m, watch(m, f, InvalidInstanceDir)} : Watch(n)  BY <2>1
  <2>3. f \notin Stored'  BY <2>1 DEF retain, Stored
  <2>4. taken \subseteq taken' /\ watching' = n.on  BY <2>2 DEF Watch
  <2>5. ASSUME NEW p \in Folder PROVE Rewatched(p)
    <3>1. n.on[p] \in {m.on[p], None} \/ (p = f /\ n.on[p] = InvalidInstanceDir)
      BY <2>2, WatchInvalidOn
    <3>2. CASE n.on[p] = watching[p] \/ n.on[p] = None  BY <2>2, <3>2, MapStep
    <3>3. CASE p = f /\ n.on[p] = InvalidInstanceDir  BY <2>3, <2>4, <3>3 DEF Rewatched
    <3> QED BY <3>1, <3>2, <3>3
  <2>6. generation' = generation /\ \A i \in Index : slots'[i] \in {slots[i], Vacant}
    BY <2>1 DEF retain
  <2> QED BY <2>4, <2>5, <2>6, FewerKeepWatches
<1>2. CASE disk[f] = "instance" /\ f \in Stored
  <2>1. UNCHANGED slab /\ Watch(m)  BY <1>2 DEF load_instance_from_path
  <2>2. taken \subseteq taken'  BY <2>1 DEF Watch
  <2>3. \A p \in Folder : Rewatched(p)  BY <2>1, MapStep
  <2> QED BY <2>1, <2>2, <2>3, FewerKeepWatches DEF slab
<1>3. CASE disk[f] = "instance" /\ f \notin Stored
  <2>1. insert(f)  BY <1>3 DEF load_instance_from_path
  <2>2. PICK i \in Index : slots'[i] # slots[i] /\ Watch(watch(m, f, slots'[i].id))
    BY <1>3 DEF load_instance_from_path
  <2>3. PICK j \in Index : slots[j] = Vacant /\ slots' = [slots EXCEPT ![j] = [id |-> <<j, generation>>, value |-> f]]
    BY <2>1 DEF insert
  <2>4. slots'[i] = [id |-> <<i, generation>>, value |-> f] /\ i = j
    BY <2>2, <2>3 DEF TypeOK, SlabType
  <2>5. slots'[i] # Vacant /\ <<i, generation>> \in Id
    BY <2>2, <2>3, <2>4, GetFacts DEF SlabInv, SlabType, Entry
  <2>6. IsDir(f) /\ <<i, generation>> # InvalidInstanceDir  BY <1>3, <2>5 DEF IsDir
  <2>7. watching' = [m.on EXCEPT ![f] = <<i, generation>>] /\ taken \subseteq taken'
    <3>1. Watch(watch(m, f, <<i, generation>>))  BY <2>2, <2>4
    <3>2. watch(m, f, <<i, generation>>).on = [m.on EXCEPT ![f] = <<i, generation>>]
      BY <2>6, WatchOn
    <3> QED BY <3>1, <3>2 DEF Watch
  <2>8. watching'[f] = <<i, generation>> /\ \A p \in Folder \ {f} : watching'[p] = m.on[p]
    BY <2>7 DEF Watches
  <2>9. ASSUME NEW p \in Folder \ {f} PROVE watching'[p] = watching[p] \/ Rewatched(p)
    <3>1. PICK n : n = watch(m, f, slots'[i].id)  OBVIOUS
    <3>2. Watch(n) /\ n.on[p] = m.on[p]  BY <2>2, <2>8, <3>1 DEF Watch
    <3> QED BY <3>2, MapStep
  <2>10. generation \in Nat /\ generation' = generation + 1
    BY <2>1 DEF insert, SlabInv, SlabType
  <2>11. slots[i] = Vacant /\ slots' = [slots EXCEPT ![i] = [id |-> <<i, generation>>, value |-> f]]
    BY <2>3, <2>4
  <2>12. f \in Folder \ Stored  BY <1>3
  <2> HIDE DEF RegistryAssumption
  <2> QED BY <2>7, <2>8, <2>9, <2>10, <2>11, <2>12, InsertKeepsWatches
<1> QED BY <1>1, <1>2, <1>3

\* A step that leaves the instances alone or removes some, and takes a watch at most.
LEMMA WatchKeepsWatches ==
  ASSUME SlabAssumption, RegistryAssumption, SlabInv, OnePerFolder, WatchInv, SlabInv',
         missed \subseteq missed', generation' = generation,
         \A i \in Index : slots'[i] \in {slots[i], Vacant},
         NEW m, Watch(m), \A p \in Folder : m.on[p] \in {watching[p], None}
  PROVE  WatchInv'
<1>1. taken \subseteq taken'  BY DEF Watch
<1>2. \A p \in Folder : Rewatched(p)  BY MapStep
<1> QED BY <1>1, <1>2, FewerKeepWatches

LEMMA StillWatched ==
  ASSUME SlabAssumption, RegistryAssumption, SlabInv, OnePerFolder, WatchInv, SlabInv',
         missed \subseteq missed', UNCHANGED <<slab, maps>>
  PROVE  WatchInv'
<1>1. \A p \in Folder : Rewatched(p)  BY DEF maps, Rewatched
<1> QED BY <1>1, FewerKeepWatches DEF slab, maps

LEMMA RemovesOnly ==
  ASSUME SlabInv, remove(watching[Subject]) \/ UNCHANGED slab \/ retain({})
  PROVE  generation' = generation /\ \A i \in Index : slots'[i] \in {slots[i], Vacant}
BY DEF SlabInv, SlabType, remove, retain, slab

LEMMA HandlerKeepsWatches ==
  ASSUME SlabAssumption, RegistryAssumption, SlabInv, TypeOK, OnePerFolder, WatchInv, SlabInv', HandleEvent
  PROVE  WatchInv'
<1> USE DEF RegistryAssumption
<1>0. missed \subseteq missed'  BY HandlerCases
<1>w. /\ Watched \in Watches /\ Watched.on = watching
      /\ watching \in [Folder \cup {Dir} -> WatchTarget]
  BY WatchedType DEF Watched, TypeOK
<1>1. CASE Coalesce  BY <1>0, <1>1, StillWatched DEF Coalesce
<1>2. CASE ListInstances
  <2>1. PICK m : m = watch(Watched, Dir, InstancesDir)  OBVIOUS
  <2>2. m.on = IF IsDir(Dir) THEN [watching EXCEPT ![Dir] = InstancesDir] ELSE watching
    BY <1>w, <2>1, WatchOn
  <2>3. \A p \in Folder : m.on[p] = watching[p]  BY <1>w, <2>2
  <2>4. Watch(m) /\ UNCHANGED slab  BY <1>2, <2>1 DEF ListInstances
  <2> QED BY <1>0, <2>3, <2>4, RemovesOnly, WatchKeepsWatches
<1>3. CASE DirRemoved
  <2>1. PICK m : m = [forget(Watched, Dir) EXCEPT !.heard = @ \ {Dir}]  OBVIOUS
  <2>2. m.on = [watching EXCEPT ![Dir] = None]  BY <1>w, <2>1, ForgetOn
  <2>3. \A p \in Folder : m.on[p] = watching[p]  BY <1>w, <2>2
  <2>4. Watch(m) /\ (UNCHANGED slab \/ retain({}))  BY <1>3, <2>1 DEF DirRemoved
  <2> QED BY <1>0, <2>3, <2>4, RemovesOnly, WatchKeepsWatches
<1>4. CASE FolderChanged
  <2>1. Subject \in Folder  BY <1>4, EventFacts DEF FolderChanged, Handle
  <2>2. CASE UNCHANGED <<slab, maps>>  BY <1>0, <2>2, StillWatched
  <2>3. CASE load_instance_from_path(Subject, Watched, TRUE)
    BY <1>0, <1>w, <2>1, <2>3, LoadKeepsWatches
  <2> QED BY <1>4, <2>2, <2>3 DEF FolderChanged
<1>5. CASE FolderRemoved
  <2>1. Subject \in Folder  BY <1>5, EventFacts DEF FolderRemoved, Handle
  <2>2. PICK m : m = [forget(Watched, Subject) EXCEPT !.heard = @ \ {Subject}]  OBVIOUS
  <2>3. m.on = [watching EXCEPT ![Subject] = None]  BY <1>w, <2>1, <2>2, ForgetOn
  <2>4. \A p \in Folder : m.on[p] \in {watching[p], None}  BY <1>w, <2>3
  <2>5. Watch(m) /\ (UNCHANGED slab \/ remove(watching[Subject]))  BY <1>5, <2>2 DEF FolderRemoved
  <2> QED BY <1>0, <2>4, <2>5, RemovesOnly, WatchKeepsWatches
<1>6. CASE InfoChanged
  <2>1. Subject \in Folder  BY <1>6, EventFacts DEF InfoChanged, Handle
  <2>2. load_instance_from_path(Subject, Watched, FALSE) \/ UNCHANGED <<slab, maps>>
    BY <1>6 DEF InfoChanged
  <2>3. CASE UNCHANGED <<slab, maps>>  BY <1>0, <2>3, StillWatched
  <2>4. CASE load_instance_from_path(Subject, Watched, FALSE)
    BY <1>0, <1>w, <2>1, <2>4, LoadKeepsWatches
  <2> QED BY <2>2, <2>3, <2>4
<1>7. CASE InfoRemoved
  <2>1. Subject \in Folder  BY <1>7, EventFacts DEF InfoRemoved, Handle
  <2>2. CASE UNCHANGED <<slab, maps>>  BY <1>0, <2>2, StillWatched
  <2>3. CASE ~UNCHANGED <<slab, maps>>
    <3>1. /\ watching[Subject] \in Id /\ remove(watching[Subject])
          /\ Watch(watch(Watched, Subject, InvalidInstanceDir))
      BY <1>7, <2>3 DEF InfoRemoved
    <3>2. PICK m : m = watch(Watched, Subject, InvalidInstanceDir)  OBVIOUS
    <3>3. \A p \in Folder : m.on[p] \in {watching[p], None} \/ (p = Subject /\ m.on[p] = InvalidInstanceDir)
      BY <1>w, <2>1, <3>2, WatchInvalidOn
    <3>4. Watch(m) /\ taken \subseteq taken' /\ watching' = m.on  BY <3>1, <3>2 DEF Watch
    <3>5. Subject \in Stored' => Subject \in missed'
      <4> SUFFICES ASSUME Subject \in Stored', Subject \notin missed' PROVE FALSE  OBVIOUS
      <4>1. PICK i \in Index : slots'[i] # Vacant /\ slots'[i].value = Subject  BY DEF Stored
      <4>2. slots'[i] = slots[i]  BY <3>1, <4>1, RemovesOnly
      <4>3. Subject \in Stored \ missed  BY <1>0, <4>1, <4>2 DEF Stored
      <4>4. get(watching[Subject]) = Subject  BY <3>1, <4>3 DEF WatchInv, WatchedAsIs
      <4>5. PICK t \in Id : t = watching[Subject]  BY <3>1
      <4>6. /\ t[1] \in Index /\ slots[t[1]] # Vacant /\ slots[t[1]].value = Subject
            /\ get(t) # Vacant
        BY <2>1, <4>4, <4>5, GetFacts DEF get, SlabAssumption
      <4>7. i = t[1]  BY <4>1, <4>2, <4>3, <4>6 DEF OnePerFolder
      <4>8. slots'[t[1]] = Vacant  BY <3>1, <4>5, <4>6 DEF remove, SlabInv, SlabType
      <4> QED BY <4>1, <4>7, <4>8
    <3>6. ASSUME NEW p \in Folder PROVE Rewatched(p)
      <4>1. CASE m.on[p] \in {watching[p], None}  BY <3>4, <4>1, MapStep
      <4>2. CASE p = Subject /\ m.on[p] = InvalidInstanceDir  BY <3>4, <3>5, <4>2 DEF Rewatched
      <4> QED BY <3>3, <4>1, <4>2
    <3> QED BY <1>0, <3>1, <3>4, <3>6, RemovesOnly, FewerKeepWatches
  <2> QED BY <2>2, <2>3
<1>8. CASE FolderRenamed
  <2>1. Subject \in Folder /\ Head(events).to \in Folder  BY <1>8, EventFacts DEF FolderRenamed, Handle
  <2>2. PICK t : t = watching[Subject]  OBVIOUS
  <2>3. PICK to \in Folder : to = Head(events).to  BY <2>1
  <2>4. PICK m : m = [forget(Watched, Subject) EXCEPT !.heard = @ \ {Subject}]  OBVIOUS
  <2>5. m \in Watches /\ m.on = [watching EXCEPT ![Subject] = None]
    BY <1>w, <2>1, <2>4, Forgotten, ForgetOn
  <2>6. \A p \in Folder : m.on[p] \in {watching[p], None}  BY <1>w, <2>5
  <2>7. CASE t \in Id /\ get(t) # Vacant
    <3>1. update(t, to) /\ Watch(watch(m, to, t))  BY <1>8, <2>2, <2>3, <2>4, <2>7 DEF FolderRenamed
    <3>2. t # InvalidInstanceDir  BY <2>7
    <3>3. watching' = IF IsDir(to) THEN [m.on EXCEPT ![to] = t] ELSE m.on
      BY <2>5, <3>1, <3>2, WatchOn DEF Watch
    <3>4. taken \subseteq taken'  BY <3>1 DEF Watch
    <3>5. to \in missed' \/ IsDir(to)
      <4>1. disk[to] # "instance" => to \in missed'  BY <1>8, <2>2, <2>3, <2>7 DEF FolderRenamed
      <4>2. disk[to] = "instance" => IsDir(to)  BY DEF IsDir
      <4> QED BY <4>1, <4>2
    <3>6. to \in missed' \/ watching'[to] = t  BY <1>w, <2>5, <3>3, <3>5
    <3>7. watching'[to] \in {t, None} \/ (watching'[to] = watching[to] /\ to # Subject)
      BY <1>w, <2>1, <2>5, <3>3
    <3>8. Subject # to => watching'[Subject] = None  BY <1>w, <2>1, <2>5, <3>3
    <3>9. \A q \in Folder \ {Subject, to} : watching'[q] = watching[q]  BY <1>w, <2>5, <3>3
    <3> QED BY <1>0, <2>1, <2>2, <2>7, <3>1, <3>4, <3>6, <3>7, <3>8, <3>9, UpdateKeepsWatches
  <2>8. CASE ~(t \in Id /\ get(t) # Vacant) /\ IsDir(to)
    <3>1. load_instance_from_path(to, m, TRUE)  BY <1>8, <2>2, <2>3, <2>4, <2>8 DEF FolderRenamed
    <3> QED BY <1>0, <2>5, <2>6, <3>1, LoadKeepsWatches
  <2>9. CASE ~(t \in Id /\ get(t) # Vacant) /\ ~IsDir(to)
    <3>1. UNCHANGED slab /\ Watch(m)  BY <1>8, <2>2, <2>3, <2>4, <2>9 DEF FolderRenamed
    <3> QED BY <1>0, <2>6, <3>1, RemovesOnly, WatchKeepsWatches
  <2> QED BY <2>7, <2>8, <2>9
<1> QED BY <1>1, <1>2, <1>3, <1>4, <1>5, <1>6, <1>7, <1>8 DEF HandleEvent

LEMMA WatchesStay ==
  ASSUME SlabAssumption, RegistryAssumption, SlabInv, TypeOK, OnePerFolder, WatchInv, SlabInv', [Next]_vars
  PROVE  WatchInv'
<1>0. missed \subseteq missed'  BY StepCases
<1>1. CASE \E f \in Folder : LoadNext(f)
  <2>1. PICK f \in Folder : LoadNext(f)  BY <1>1
  <2>2. Watched \in Watches /\ \A p \in Folder : Watched.on[p] = watching[p]
    BY WatchedType DEF Watched
  <2> QED BY <1>0, <2>1, <2>2, LoadKeepsWatches DEF LoadNext
<1>2. CASE Change
  <2>1. UNCHANGED <<slab, maps>>
    BY <1>2 DEF Change, Appears, WritesInfo, LosesInfo, Disappears, Moves, DirMoves, CreateInstance,
                DeleteInstance, RenameInstance, Reported
  <2> QED BY <1>0, <2>1, StillWatched
<1>3. CASE UNCHANGED vars
  BY <1>0, <1>3, StillWatched DEF vars
<1> QED BY <1>1, <1>2, <1>3, HandlerKeepsWatches DEF Next

-----------------------------------------------------------------------------
(* The invariant of the registry.                                          *)

RegistryInv == SlabInv /\ TypeOK /\ OnePerFolder /\ WatchInv

LEMMA RegistryInvInitially == SlabAssumption /\ RegistryAssumption /\ Init => RegistryInv /\ Map!Init
<1> SUFFICES ASSUME SlabAssumption, RegistryAssumption, Init PROVE RegistryInv /\ Map!Init  OBVIOUS
<1>1. SlabInv /\ Map!Init  BY InitSlab DEF Init
<1>2. OnePerFolder  BY DEF Init, SlabInit, OnePerFolder
<1>3. TypeOK
  <2>1. [kind |-> "change", path |-> Dir] \in Event  BY DEF Event
  <2>2. events \in Seq(Event)  BY <2>1 DEF Init
  <2> QED BY <1>1, <2>2 DEF Init, TypeOK, SlabInv, WatchTarget, RegistryAssumption
<1>4. WatchInv
  BY <1>1, <1>3 DEF Init, SlabInit, Stored, WatchInv, OwnWatch, WatchedAsIs, RegistryAssumption
<1> QED BY <1>1, <1>2, <1>3, <1>4 DEF RegistryInv

LEMMA RegistryInvStays ==
  SlabAssumption /\ RegistryAssumption /\ RegistryInv /\ [Next]_vars => RegistryInv' /\ [Map!Next]_<<Named, Spent>>
<1> SUFFICES ASSUME SlabAssumption, RegistryAssumption, RegistryInv, [Next]_vars
             PROVE  RegistryInv' /\ [Map!Next]_<<Named, Spent>>
  OBVIOUS
<1> USE DEF RegistryInv
<1>1. [SlabNext]_slab  BY RegistryIsSlab DEF RegistryAssumption
<1>2. SlabInv' /\ [Map!Next]_<<Named, Spent>>  BY <1>1, StepOfTheMap
<1>3. TypeOK'  BY <1>2, RegistryTypesStay DEF SlabInv
<1>4. OnePerFolder'  BY FoldersStayApart DEF RegistryAssumption
<1>5. WatchInv'  BY <1>2, WatchesStay
<1> QED BY <1>2, <1>3, <1>4, <1>5

-----------------------------------------------------------------------------
(* What there is to tell: for any folders, events and changes, a folder that *)
(* is not as the instances have it is about to be loaded, or an event says so. *)

Lists(q) == \E i \in 1 .. Len(q) : q[i].kind = "change" /\ q[i].path = Dir

\* An event that takes an instance along, and is not dropped for the next one.
TellsGone(q, p) ==
  \E i \in 1 .. Len(q) :
    /\ q[i].path = p
    /\ \/ q[i].kind \in {"change", "remove", "rename"}
       \/ q[i].kind = "noinfo" /\ ~(i < Len(q) /\ SamePath(q[i], q[i + 1]))

TellsOf(q, p) == \E i \in 1 .. Len(q) : q[i].path = p \/ (q[i].kind = "rename" /\ q[i].to = p)

\* The last that is told of the instances directory is so.
LastOfDir(q, there) ==
  \/ \A i \in 1 .. Len(q) : q[i].path # Dir
  \/ \E i \in 1 .. Len(q) :
       /\ q[i].path = Dir /\ q[i].kind = (IF there THEN "change" ELSE "remove")
       /\ \A j \in i + 1 .. Len(q) : q[j].path # Dir

RenamesMove(q) == \A i \in 1 .. Len(q) : q[i].kind = "rename" => q[i].to # q[i].path

GoneIsTold(p) ==
  p \in Stored \ (Instances \cup missed) =>
    p \in loading \/ (Lists(events) /\ disk[p] # "absent") \/ TellsGone(events, p)
NewIsTold(p) ==
  p \in Instances \ (Stored \cup missed) => p \in loading \/ Lists(events) \/ TellsOf(events, p)

ToldInv ==
  /\ LastOfDir(events, exists) /\ RenamesMove(events)
  /\ ~exists => \A p \in Folder : disk[p] = "absent"
  /\ \A p \in Folder : GoneIsTold(p) /\ NewIsTold(p)

\* The first event is gone.
LEMMA RestIs ==
  ASSUME NEW S, NEW q \in Seq(S), q # <<>>
  PROVE  /\ Len(q) \in Nat \ {0} /\ Len(Tail(q)) = Len(q) - 1 /\ Head(q) = q[1]
         /\ \A i \in 1 .. Len(q) - 1 : Tail(q)[i] = q[i + 1]
<1>1. Len(q) \in Nat /\ Len(q) # 0  BY LenProperties, EmptySeq
<1> QED BY <1>1, HeadTailProperties

LEMMA RestTells ==
  ASSUME NEW S, NEW q \in Seq(S), q # <<>>
  PROVE  /\ \A p : TellsGone(q, p)
              /\ (\/ Head(q).path # p \/ Head(q).kind = "info"
                  \/ Head(q).kind = "noinfo" /\ 1 < Len(q) /\ SamePath(q[1], q[2])) => TellsGone(Tail(q), p)
         /\ \A p : TellsOf(q, p) /\ Head(q).path # p /\ ~(Head(q).kind = "rename" /\ Head(q).to = p)
              => TellsOf(Tail(q), p)
         /\ \A p : (\E i \in 2 .. Len(q) : q[i].path = p) => TellsOf(Tail(q), p)
         /\ Lists(q) /\ ~(Head(q).kind = "change" /\ Head(q).path = Dir) => Lists(Tail(q))
         /\ \A there : LastOfDir(q, there) => LastOfDir(Tail(q), there)
         /\ RenamesMove(q) => RenamesMove(Tail(q))
<1> DEFINE n == Len(q)
           t == Tail(q)
<1>1. /\ n \in Nat \ {0} /\ Len(t) = n - 1 /\ Head(q) = q[1]
      /\ \A i \in 1 .. n - 1 : t[i] = q[i + 1]
  BY RestIs
<1> HIDE DEF n, t
<1>2. \A i \in 2 .. n : i - 1 \in 1 .. n - 1 /\ t[i - 1] = q[i]
  <2> TAKE i \in 2 .. n
  <2>1. i - 1 \in 1 .. n - 1 /\ (i - 1) + 1 = i  BY <1>1
  <2> QED BY <1>1, <2>1
<1>3. ASSUME NEW p, TellsGone(q, p),
             \/ Head(q).path # p \/ Head(q).kind = "info"
             \/ Head(q).kind = "noinfo" /\ 1 < n /\ SamePath(q[1], q[2])
      PROVE  TellsGone(t, p)
  <2>1. PICK i \in 1 .. n :
          /\ q[i].path = p
          /\ \/ q[i].kind \in {"change", "remove", "rename"}
             \/ q[i].kind = "noinfo" /\ ~(i < n /\ SamePath(q[i], q[i + 1]))
    BY <1>3 DEF TellsGone, n
  <2>2. i \in 2 .. n  BY <1>1, <1>3, <2>1
  <2>3. i - 1 \in 1 .. n - 1 /\ t[i - 1] = q[i]  BY <1>2, <2>2
  <2>4. i - 1 < n - 1 => i < n /\ t[(i - 1) + 1] = q[i + 1]
    <3> SUFFICES ASSUME i - 1 < n - 1 PROVE i < n /\ t[(i - 1) + 1] = q[i + 1]  OBVIOUS
    <3>1. i < n /\ i \in 1 .. n - 1 /\ (i - 1) + 1 = i  BY <1>1, <2>2
    <3> QED BY <1>1, <3>1
  <2> QED BY <1>1, <2>1, <2>3, <2>4 DEF TellsGone
<1>4. ASSUME NEW p, TellsOf(q, p), Head(q).path # p, ~(Head(q).kind = "rename" /\ Head(q).to = p)
      PROVE  TellsOf(t, p)
  <2>1. PICK i \in 1 .. n : q[i].path = p \/ (q[i].kind = "rename" /\ q[i].to = p)
    BY <1>4 DEF TellsOf, n
  <2>2. i \in 2 .. n  BY <1>1, <1>4, <2>1
  <2> QED BY <1>1, <1>2, <2>1, <2>2 DEF TellsOf
<1>5. ASSUME NEW p, NEW i \in 2 .. n, q[i].path = p PROVE TellsOf(t, p)
  BY <1>1, <1>2, <1>5 DEF TellsOf
<1>6. ASSUME Lists(q), ~(Head(q).kind = "change" /\ Head(q).path = Dir) PROVE Lists(t)
  <2>1. PICK i \in 1 .. n : q[i].kind = "change" /\ q[i].path = Dir  BY <1>6 DEF Lists, n
  <2>2. i \in 2 .. n  BY <1>1, <1>6, <2>1
  <2> QED BY <1>1, <1>2, <2>1, <2>2 DEF Lists
<1>7. ASSUME NEW there, LastOfDir(q, there) PROVE LastOfDir(t, there)
  <2>1. CASE \A i \in 1 .. n : q[i].path # Dir
    <3>1. \A i \in 1 .. n - 1 : i + 1 \in 1 .. n  BY <1>1
    <3> QED BY <1>1, <2>1, <3>1 DEF LastOfDir
  <2>2. CASE ~\A i \in 1 .. n : q[i].path # Dir
    <3>1. PICK i \in 1 .. n :
            /\ q[i].path = Dir /\ q[i].kind = (IF there THEN "change" ELSE "remove")
            /\ \A j \in i + 1 .. n : q[j].path # Dir
      BY <1>7, <2>2 DEF LastOfDir, n
    <3>2. ASSUME NEW j \in i .. n - 1 PROVE t[j].path # Dir
      <4>1. j \in 1 .. n - 1 /\ j + 1 \in i + 1 .. n  BY <1>1
      <4> QED BY <1>1, <3>1, <4>1
    <3>3. CASE i = 1
      <4>1. \A j \in 1 .. n - 1 : t[j].path # Dir  BY <3>2, <3>3
      <4> QED BY <1>1, <4>1 DEF LastOfDir
    <3>4. CASE i # 1
      <4>1. i \in 2 .. n /\ (i - 1) + 1 = i  BY <1>1, <3>4
      <4>2. i - 1 \in 1 .. n - 1 /\ t[i - 1] = q[i]  BY <1>2, <4>1
      <4> QED BY <1>1, <3>1, <3>2, <4>1, <4>2 DEF LastOfDir
    <3> QED BY <3>3, <3>4
  <2> QED BY <2>1, <2>2
<1>8. ASSUME RenamesMove(q) PROVE RenamesMove(t)
  <2>1. \A i \in 1 .. n - 1 : i + 1 \in 1 .. n  BY <1>1
  <2> QED BY <1>1, <1>8, <2>1 DEF RenamesMove, n
<1> QED BY <1>3, <1>4, <1>5, <1>6, <1>7, <1>8 DEF n, t

\* An event is added.
LEMMA MoreTells ==
  ASSUME NEW S, NEW q \in Seq(S), NEW e \in S, e.kind \in {"change", "remove", "rename", "noinfo", "info"}
  PROVE  /\ \A p : TellsGone(q, p) /\ (e.path = p => e.kind # "info") => TellsGone(Append(q, e), p)
         /\ e.kind # "info" => TellsGone(Append(q, e), e.path)
         /\ \A p : TellsOf(q, p) \/ e.path = p \/ (e.kind = "rename" /\ e.to = p) => TellsOf(Append(q, e), p)
         /\ Lists(q) => Lists(Append(q, e))
         /\ \A there : LastOfDir(q, there) /\ e.path # Dir => LastOfDir(Append(q, e), there)
         /\ \A there : e.path = Dir /\ e.kind = (IF there THEN "change" ELSE "remove")
              => LastOfDir(Append(q, e), there)
         /\ RenamesMove(q) /\ (e.kind = "rename" => e.to # e.path) => RenamesMove(Append(q, e))
<1> DEFINE n == Len(q)
           t == Append(q, e)
<1>1. n \in Nat /\ Len(t) = n + 1 /\ t[n + 1] = e /\ \A i \in 1 .. n : t[i] = q[i]
  BY LenProperties, AppendProperties
<1> HIDE DEF n, t
<1>2. \A i \in 1 .. n : i \in 1 .. n + 1  BY <1>1
<1>n. n + 1 \in 1 .. n + 1 /\ ~(n + 1 < n + 1)  BY <1>1
<1>3. ASSUME e.kind # "info" PROVE TellsGone(t, e.path)
  BY <1>1, <1>n, <1>3 DEF TellsGone
<1>4. ASSUME NEW p, TellsGone(q, p), e.path = p => e.kind # "info" PROVE TellsGone(t, p)
  <2>1. CASE e.path = p  BY <1>3, <1>4, <2>1
  <2>2. CASE e.path # p
    <3>1. PICK i \in 1 .. n :
            /\ q[i].path = p
            /\ \/ q[i].kind \in {"change", "remove", "rename"}
               \/ q[i].kind = "noinfo" /\ ~(i < n /\ SamePath(q[i], q[i + 1]))
      BY <1>4 DEF TellsGone, n
    <3>2. ASSUME i < n + 1, SamePath(t[i], t[i + 1]) PROVE i < n /\ SamePath(q[i], q[i + 1])
      <4>1. i # n  BY <1>1, <2>2, <3>1, <3>2 DEF SamePath
      <4>2. i < n /\ i + 1 \in 1 .. n  BY <1>1, <4>1
      <4> QED BY <1>1, <3>2, <4>2
    <3> QED BY <1>1, <1>2, <3>1, <3>2 DEF TellsGone
  <2> QED BY <2>1, <2>2
<1>5. ASSUME NEW p, TellsOf(q, p) \/ e.path = p \/ (e.kind = "rename" /\ e.to = p) PROVE TellsOf(t, p)
  <2>1. CASE TellsOf(q, p)  BY <1>1, <1>2, <2>1 DEF TellsOf, n
  <2> QED BY <1>1, <1>n, <1>5, <2>1 DEF TellsOf
<1>6. Lists(q) => Lists(t)  BY <1>1, <1>2 DEF Lists, n
<1>7. ASSUME NEW there, LastOfDir(q, there), e.path # Dir PROVE LastOfDir(t, there)
  <2>1. CASE \A i \in 1 .. n : q[i].path # Dir
    <3>1. ASSUME NEW i \in 1 .. n + 1 PROVE t[i].path # Dir
      <4>1. i \in 1 .. n \/ i = n + 1  BY <1>1
      <4> QED BY <1>1, <1>7, <2>1, <4>1
    <3> QED BY <1>1, <3>1 DEF LastOfDir
  <2>2. CASE ~\A i \in 1 .. n : q[i].path # Dir
    <3>1. PICK i \in 1 .. n :
            /\ q[i].path = Dir /\ q[i].kind = (IF there THEN "change" ELSE "remove")
            /\ \A j \in i + 1 .. n : q[j].path # Dir
      BY <1>7, <2>2 DEF LastOfDir, n
    <3>2. ASSUME NEW j \in i + 1 .. n + 1 PROVE t[j].path # Dir
      <4>1. (j \in 1 .. n /\ j \in i + 1 .. n) \/ j = n + 1  BY <1>1
      <4> QED BY <1>1, <1>7, <3>1, <4>1
    <3> QED BY <1>1, <1>2, <3>1, <3>2 DEF LastOfDir
  <2> QED BY <2>1, <2>2
<1>8. ASSUME NEW there, e.path = Dir, e.kind = (IF there THEN "change" ELSE "remove") PROVE LastOfDir(t, there)
  <2>1. \A j \in (n + 1) + 1 .. n + 1 : FALSE  BY <1>1
  <2> QED BY <1>1, <1>n, <1>8, <2>1 DEF LastOfDir
<1>9. ASSUME RenamesMove(q), e.kind = "rename" => e.to # e.path PROVE RenamesMove(t)
  <2> SUFFICES ASSUME NEW i \in 1 .. n + 1, t[i].kind = "rename" PROVE t[i].to # t[i].path
    BY <1>1 DEF RenamesMove
  <2>1. i \in 1 .. n \/ i = n + 1  BY <1>1
  <2> QED BY <1>1, <1>9, <2>1 DEF RenamesMove, n
<1> QED BY <1>3, <1>4, <1>5, <1>6, <1>7, <1>8, <1>9 DEF n, t

\* What becomes of the folders that have an instance.
LEMMA LoadStores ==
  ASSUME SlabAssumption, RegistryAssumption, SlabInv, NEW f \in Folder, NEW m, NEW watches,
         load_instance_from_path(f, m, watches)
  PROVE  /\ f \in Stored' <=> f \in Instances
         /\ \A p \in Folder \ {f} : p \in Stored' <=> p \in Stored
<1> USE DEF RegistryAssumption
<1>0. slots \in [Index -> Entry \cup {Vacant}] /\ \A i \in Index : slots[i] # Vacant => slots[i].value \in Folder
  BY GetFacts DEF SlabInv, SlabType
<1>1. CASE disk[f] # "instance"
  <2>1. slots' = [i \in Index |-> IF slots[i] # Vacant /\ slots[i].value \in Folder \ {f} THEN slots[i] ELSE Vacant]
    BY <1>1 DEF load_instance_from_path, retain
  <2>2. f \notin Stored'  BY <2>1 DEF Stored
  <2>3. \A p \in Folder \ {f} : p \in Stored' <=> p \in Stored  BY <2>1 DEF Stored
  <2> QED BY <1>1, <2>2, <2>3 DEF Instances
<1>2. CASE disk[f] = "instance" /\ f \in Stored
  BY <1>2 DEF load_instance_from_path, slab, Stored, Instances
<1>3. CASE disk[f] = "instance" /\ f \notin Stored
  <2>1. insert(f)  BY <1>3 DEF load_instance_from_path
  <2>2. PICK i \in Index : slots[i] = Vacant /\ slots' = [slots EXCEPT ![i] = [id |-> <<i, generation>>, value |-> f]]
    BY <2>1 DEF insert
  <2>3. generation \in 0 .. Generations - 1
    BY <2>1 DEF insert, SlabInv, SlabType, SlabAssumption
  <2>4. [id |-> <<i, generation>>, value |-> f] \in Entry  BY <2>3 DEF Entry, Id
  <2>5. slots'[i] # Vacant /\ slots'[i].value = f /\ \A j \in Index \ {i} : slots'[j] = slots[j]
    BY <1>0, <2>2, <2>4 DEF SlabAssumption
  <2>6. f \in Stored'  BY <2>5 DEF Stored
  <2>7. \A p \in Folder \ {f} : p \in Stored' <=> p \in Stored  BY <2>2, <2>5 DEF Stored
  <2> QED BY <1>3, <2>6, <2>7 DEF Instances
<1> QED BY <1>1, <1>2, <1>3

LEMMA RemoveStores ==
  ASSUME SlabAssumption, RegistryAssumption, SlabInv, OnePerFolder, NEW t \in Id, NEW f \in Folder,
         get(t) \in {f, Vacant}, remove(t)
  PROVE  /\ \A p \in Folder \ {f} : p \in Stored' <=> p \in Stored
         /\ f \in Stored' => f \in Stored
         /\ get(t) = f /\ f \notin missed => f \notin Stored'
<1> USE DEF RegistryAssumption
<1>0. slots \in [Index -> Entry \cup {Vacant}] /\ f # Vacant /\ t[1] \in Index
  BY GetFacts DEF SlabInv, SlabType, SlabAssumption
<1>1. CASE get(t) = Vacant
  <2>1. slots' = slots  BY <1>1 DEF remove
  <2> QED BY <1>0, <1>1, <2>1 DEF Stored
<1>2. CASE get(t) = f
  <2>1. slots[t[1]] # Vacant /\ slots[t[1]].value = f  BY <1>2, GetFacts
  <2>2. slots'[t[1]] = Vacant /\ \A j \in Index \ {t[1]} : slots'[j] = slots[j]
    BY <1>0, <1>2 DEF remove
  <2>3. \A p \in Folder \ {f} : p \in Stored' <=> p \in Stored  BY <2>1, <2>2 DEF Stored
  <2>4. f \notin missed => f \notin Stored'  BY <1>0, <2>1, <2>2 DEF Stored, OnePerFolder
  <2>5. f \in Stored  BY <1>0, <2>1 DEF Stored
  <2> QED BY <2>3, <2>4, <2>5
<1> QED BY <1>1, <1>2

LEMMA UpdateStores ==
  ASSUME SlabAssumption, RegistryAssumption, SlabInv, OnePerFolder, NEW t \in Id, NEW f \in Folder,
         NEW to \in Folder \ {f}, get(t) = f, update(t, to)
  PROVE  /\ to \in Stored'
         /\ \A p \in Folder \ {f, to} : p \in Stored' <=> p \in Stored
         /\ f \notin missed => f \notin Stored'
<1> USE DEF RegistryAssumption
<1>1. slots[t[1]] # Vacant /\ slots[t[1]].value = f /\ t[1] \in Index /\ slots[t[1]] \in Entry
  BY GetFacts
<1>2. /\ slots'[t[1]] = [id |-> slots[t[1]].id, value |-> to]
      /\ \A j \in Index \ {t[1]} : slots'[j] = slots[j]
  BY <1>1 DEF update, SlabInv, SlabType, Entry
<1>3. slots'[t[1]] # Vacant /\ slots'[t[1]].value = to
  BY <1>1, <1>2 DEF SlabAssumption, Entry
<1>4. to \in Stored'  BY <1>1, <1>3 DEF Stored
<1>5. \A p \in Folder \ {f, to} : p \in Stored' <=> p \in Stored
  BY <1>1, <1>2, <1>3 DEF Stored
<1>6. f \notin missed => f \notin Stored'
  BY <1>1, <1>2, <1>3 DEF Stored, OnePerFolder
<1> QED BY <1>4, <1>5, <1>6

\* When an event has been handled, each folder is noted; or is as the instances have it; or
\* there is another event for it; or the event had nothing to tell of it.
Settled(p) ==
  \/ p \in missed'
  \/ p \in Stored' <=> p \in Instances
  \/ p \notin Stored' /\ (TellsOf(Tail(events), p) \/ Lists(Tail(events)))
  \/ /\ p \in Stored' <=> p \in Stored
     /\ Subject # p /\ ~(Head(events).kind = "rename" /\ Head(events).to = p)
  \/ /\ p \in Stored' => p \in Stored
     /\ p \in Instances => p \in Stored'
     /\ Subject # p \/ Head(events).kind = "info"

LEMMA SettledIsTold ==
  ASSUME TypeOK, ToldInv, events # <<>>, events' = Tail(events), loading = {}, UNCHANGED <<disk, exists>>,
         missed \subseteq missed', ~(Head(events).kind = "change" /\ Subject = Dir),
         \A p \in Folder : Settled(p)
  PROVE  ToldInv'
<1> PICK S : S = Event  OBVIOUS
<1>1. events \in Seq(S)  BY DEF TypeOK
<1>2. /\ LastOfDir(events, exists)' /\ RenamesMove(events)'
      /\ Lists(events) => Lists(events)'
  <2>1. /\ LastOfDir(Tail(events), exists) /\ RenamesMove(Tail(events))
        /\ Lists(events) => Lists(Tail(events))
    BY <1>1, RestTells DEF ToldInv, Subject
  <2>2. LastOfDir(events, exists)' <=> LastOfDir(Tail(events), exists)  BY DEF LastOfDir
  <2>3. RenamesMove(events)' <=> RenamesMove(Tail(events))  BY DEF RenamesMove
  <2>4. Lists(events)' <=> Lists(Tail(events))  BY DEF Lists
  <2> QED BY <2>1, <2>2, <2>3, <2>4
<1>3. Instances' = Instances  BY DEF Instances
<1>t. \A p : (TellsOf(events, p)' <=> TellsOf(Tail(events), p)) /\ (TellsGone(events, p)' <=> TellsGone(Tail(events), p))
  BY DEF TellsOf, TellsGone
<1>l. Lists(events)' <=> Lists(Tail(events))  BY DEF Lists
<1>4. ASSUME NEW p \in Folder PROVE GoneIsTold(p)' /\ NewIsTold(p)'
  <2>0. Settled(p) /\ GoneIsTold(p) /\ NewIsTold(p)  BY DEF ToldInv
  <2>1. TellsGone(events, p) /\ (Subject # p \/ Head(events).kind = "info") => TellsGone(events, p)'
    BY <1>1, <1>t, RestTells DEF Subject
  <2>2. TellsOf(events, p) /\ Subject # p /\ ~(Head(events).kind = "rename" /\ Head(events).to = p)
          => TellsOf(events, p)'
    BY <1>1, <1>t, RestTells DEF Subject
  <2>3. GoneIsTold(p)'
    BY <1>2, <1>3, <1>t, <1>l, <2>0, <2>1 DEF Settled, GoneIsTold
  <2>4. NewIsTold(p)'
    BY <1>2, <1>3, <1>t, <1>l, <2>0, <2>2 DEF Settled, NewIsTold
  <2> QED BY <2>3, <2>4
<1>5. ~exists' => \A p \in Folder : disk'[p] = "absent"  BY DEF ToldInv
<1> QED BY <1>2, <1>4, <1>5 DEF ToldInv

\* What the launcher has of a folder, and of what it is watched for.
LEMMA WatchFacts ==
  ASSUME RegistryInv, NEW p \in Folder
  PROVE  /\ watching[p] \in Id => get(watching[p]) \in {p, Vacant}
         /\ p \in Stored \ missed => watching[p] = None \/ (watching[p] \in Id /\ get(watching[p]) = p)
BY DEF RegistryInv, WatchInv, OwnWatch, WatchedAsIs

LEMMA HandledIs ==
  ASSUME RegistryInv, NEW kind, Handle(kind)
  PROVE  /\ TypeOK /\ loading = {} /\ events # <<>> /\ events' = Tail(events) /\ UNCHANGED <<disk, exists>>
         /\ Head(events).kind = kind /\ Len(events) \in Nat
         /\ \A otherwise \in BOOLEAN : otherwise /\ ~Outdated(otherwise) => TellsOf(Tail(events), Subject)
<1>1. TypeOK /\ loading = {} /\ events # <<>> /\ events' = Tail(events) /\ UNCHANGED <<disk, exists>>
      /\ Head(events).kind = kind
  BY DEF Handle, RegistryInv
<1>2. events \in Seq(Event) /\ Len(events) \in Nat  BY <1>1, LenProperties DEF TypeOK
<1>3. ASSUME NEW otherwise \in BOOLEAN, otherwise, ~Outdated(otherwise) PROVE TellsOf(Tail(events), Subject)
  <2>1. \E i \in 2 .. Len(events) : events[i].path = Subject  BY <1>3 DEF Outdated
  <2> QED BY <1>1, <1>2, <2>1, RestTells
<1> QED BY <1>1, <1>2, <1>3

LEMMA CoalesceTells ==
  ASSUME RegistryAssumption, RegistryInv, ToldInv, Coalesce
  PROVE  ToldInv'
<1> PICK S : S = Event  OBVIOUS
<1>1. /\ events \in Seq(S) /\ events # <<>> /\ Len(events) \in Nat /\ Len(events) > 1
      /\ events' = Tail(events) /\ loading = {} /\ SamePath(events[1], events[2])
      /\ UNCHANGED <<slots, disk, exists, loading, missed>>
  <2>1. events \in Seq(S) /\ Len(events) \in Nat  BY LenProperties DEF RegistryInv, TypeOK
  <2>2. events # <<>>  BY <2>1, EmptySeq DEF Coalesce
  <2> QED BY <2>1, <2>2 DEF Coalesce, files, slab
<1>2. /\ Head(events) = events[1] /\ Len(Tail(events)) = Len(events) - 1 /\ Tail(events)[1] = events[2]
      /\ 1 \in 1 .. Len(Tail(events)) /\ 2 \in 2 .. Len(events)
  BY <1>1, RestIs
<1> DEFINE t == Tail(events)
<1>3. /\ LastOfDir(t, exists) /\ RenamesMove(t)
      /\ \A p : TellsGone(events, p)
           /\ (\/ events[1].path # p \/ events[1].kind = "info"
               \/ events[1].kind = "noinfo" /\ 1 < Len(events) /\ SamePath(events[1], events[2])) => TellsGone(t, p)
      /\ \A p : TellsOf(events, p) /\ events[1].path # p /\ ~(events[1].kind = "rename" /\ events[1].to = p)
           => TellsOf(t, p)
      /\ \A p : events[2].path = p => TellsOf(t, p)
      /\ Lists(events) /\ ~(events[1].kind = "change" /\ events[1].path = Dir) => Lists(t)
  BY <1>1, <1>2, RestTells DEF ToldInv
<1>4. /\ events[2].path = events[1].path
      /\ \/ {events[1].kind, events[2].kind} \subseteq {"change", "remove"}
         \/ {events[1].kind, events[2].kind} \subseteq {"info", "noinfo"}
  BY <1>1 DEF SamePath
<1> HIDE DEF t
<1>5. exists /\ Lists(events) => Lists(t)
  <2> SUFFICES ASSUME exists, events[1].path = Dir PROVE Lists(t)  BY <1>3
  <2>1. t[1].path = Dir  BY <1>2, <1>4 DEF t
  <2>2. \E i \in 1 .. Len(t) : t[i].path = Dir /\ t[i].kind = "change"
    BY <1>2, <1>3, <2>1 DEF LastOfDir, t
  <2> QED BY <2>2 DEF Lists
<1>6. ASSUME NEW p, TellsGone(events, p) PROVE TellsGone(t, p)
  <2>1. CASE events[1].path = p /\ events[1].kind \in {"change", "remove"}
    <3>1. t[1].path = p /\ t[1].kind \in {"change", "remove", "rename"}  BY <1>2, <1>4, <2>1 DEF t
    <3> QED BY <1>2, <3>1 DEF TellsGone, t
  <2>2. CASE ~(events[1].path = p /\ events[1].kind \in {"change", "remove"})
    BY <1>1, <1>3, <1>4, <1>6, <2>2
  <2> QED BY <2>1, <2>2
<1>7. ASSUME NEW p, TellsOf(events, p) PROVE TellsOf(t, p)
  <2>1. events[1].kind # "rename"  BY <1>4
  <2>2. CASE events[1].path = p  BY <1>3, <1>4, <2>2
  <2>3. CASE events[1].path # p  BY <1>3, <1>7, <2>1, <2>3
  <2> QED BY <2>2, <2>3
<1>8. Stored' = Stored /\ Instances' = Instances  BY <1>1 DEF Stored, Instances
<1>9. events' = t  BY <1>1 DEF t
<1>10. /\ LastOfDir(events, exists)' <=> LastOfDir(t, exists)
       /\ RenamesMove(events)' <=> RenamesMove(t)
       /\ Lists(events)' <=> Lists(t)
       /\ \A p : (TellsOf(events, p)' <=> TellsOf(t, p)) /\ (TellsGone(events, p)' <=> TellsGone(t, p))
  BY <1>1, <1>9 DEF LastOfDir, RenamesMove, Lists, TellsOf, TellsGone
<1>11. ASSUME NEW p \in Folder PROVE GoneIsTold(p)' /\ NewIsTold(p)'
  <2>0. GoneIsTold(p) /\ NewIsTold(p) /\ (disk[p] # "absent" => exists)
    BY DEF ToldInv
  <2>1. GoneIsTold(p)'
    BY <1>1, <1>5, <1>6, <1>8, <1>10, <2>0 DEF GoneIsTold
  <2>2. p \in Instances => exists  BY <2>0 DEF Instances
  <2>3. NewIsTold(p)'
    BY <1>1, <1>5, <1>7, <1>8, <1>10, <2>0, <2>2 DEF NewIsTold
  <2> QED BY <2>1, <2>3
<1>12. ~exists' => \A p \in Folder : disk'[p] = "absent"  BY <1>1 DEF ToldInv
<1> QED BY <1>3, <1>10, <1>11, <1>12 DEF ToldInv

LEMMA ListTells ==
  ASSUME RegistryAssumption, RegistryInv, ToldInv, ListInstances
  PROVE  ToldInv'
<1> PICK S : S = Event  OBVIOUS
<1>1. /\ events \in Seq(S) /\ events # <<>> /\ Head(events).kind = "change" /\ Head(events).path = Dir /\ exists
      /\ events' = Tail(events) /\ loading = {} /\ UNCHANGED <<slots, disk, exists>>
      /\ \/ missed' = missed \cup Instances \cup Stored
         \/ missed' = missed /\ loading' = {f \in Folder : disk[f] # "absent"}
  BY HandledIs DEF ListInstances, Handle, Subject, slab, TypeOK
<1>2. /\ LastOfDir(Tail(events), exists) /\ RenamesMove(Tail(events))
      /\ \A p \in Folder : TellsGone(events, p) => TellsGone(Tail(events), p)
  BY <1>1, RestTells DEF ToldInv, RegistryAssumption
<1>3. Stored' = Stored /\ Instances' = Instances  BY <1>1 DEF Stored, Instances
<1>4. /\ LastOfDir(events, exists)' <=> LastOfDir(Tail(events), exists)
      /\ RenamesMove(events)' <=> RenamesMove(Tail(events))
      /\ \A p : TellsGone(events, p)' <=> TellsGone(Tail(events), p)
  BY <1>1 DEF LastOfDir, RenamesMove, TellsGone
<1>5. ASSUME NEW p \in Folder PROVE GoneIsTold(p)' /\ NewIsTold(p)'
  <2>1. GoneIsTold(p)  BY DEF ToldInv
  <2>2. GoneIsTold(p)'  BY <1>1, <1>2, <1>3, <1>4, <2>1 DEF GoneIsTold
  <2>3. NewIsTold(p)'  BY <1>1, <1>3 DEF NewIsTold, Instances
  <2> QED BY <2>2, <2>3
<1> QED BY <1>1, <1>2, <1>4, <1>5 DEF ToldInv

LEMMA HandlersTell ==
  ASSUME SlabAssumption, RegistryAssumption, RegistryInv, ToldInv, HandleEvent
  PROVE  ToldInv'
<1>0. TypeOK /\ SlabInv /\ OnePerFolder /\ missed \subseteq missed'  BY HandlerCases DEF RegistryInv
<1>1. CASE Coalesce  BY <1>1, CoalesceTells
<1>2. CASE ListInstances  BY <1>2, ListTells
<1>3. CASE DirRemoved
  <2>1. /\ events # <<>> /\ events' = Tail(events) /\ loading = {} /\ UNCHANGED <<disk, exists>>
        /\ Head(events).kind = "remove" /\ Subject = Dir
    BY <1>3, HandledIs DEF DirRemoved
  <2>2. ASSUME NEW p \in Folder PROVE Settled(p)
    <3>0. Subject # p  BY <2>1 DEF RegistryAssumption
    <3>1. CASE UNCHANGED slab
      <4>1. Stored' = Stored  BY <3>1 DEF slab, Stored
      <4> QED BY <2>1, <3>0, <4>1 DEF Settled
    <3>2. CASE retain({})
      <4>1. p \notin Stored'  BY <3>2 DEF retain, Stored
      <4>2. p \in Instances => exists  BY DEF ToldInv, Instances
      <4>3. ASSUME exists PROVE Lists(Tail(events))
        <5>1. PICK S : S = Event  OBVIOUS
        <5>2. events \in Seq(S)  BY <1>0, <5>1 DEF TypeOK
        <5>3. Lists(Tail(events)) \/ ~Lists(events)  BY <2>1, <5>2, RestTells
        <5>4. LastOfDir(events, TRUE)  BY <4>3 DEF ToldInv, LastOfDir
        <5>5. 1 \in 1 .. Len(events) /\ events[1].path = Dir
          BY <2>1, <5>2, RestIs DEF Subject
        <5>6. Lists(events)  BY <5>4, <5>5 DEF LastOfDir, Lists
        <5> QED BY <5>3, <5>6
      <4> QED BY <4>1, <4>2, <4>3 DEF Settled
    <3> QED BY <1>3, <3>1, <3>2 DEF DirRemoved
  <2> QED BY <1>0, <2>1, <2>2, SettledIsTold
<1>4. CASE FolderChanged
  <2>1. /\ events # <<>> /\ events' = Tail(events) /\ loading = {} /\ UNCHANGED <<disk, exists>>
        /\ Head(events).kind = "change" /\ Subject # Dir
    BY <1>4, HandledIs DEF FolderChanged
  <2>2. Subject \in Folder  BY <1>0, <2>1, EventFacts
  <2>3. ASSUME NEW p \in Folder PROVE Settled(p)
    <3>1. CASE load_instance_from_path(Subject, Watched, TRUE)
      BY <1>0, <2>1, <2>2, <3>1, LoadStores DEF Settled
    <3>2. CASE UNCHANGED slab /\ missed' = missed \cup {Subject}
      <4>1. Stored' = Stored  BY <3>2 DEF slab, Stored
      <4> QED BY <2>1, <3>2, <4>1 DEF Settled
    <3> QED BY <1>4, <3>1, <3>2 DEF FolderChanged, slab
  <2> QED BY <1>0, <2>1, <2>3, SettledIsTold
<1>5. CASE FolderRemoved
  <2>1. /\ events # <<>> /\ events' = Tail(events) /\ loading = {} /\ UNCHANGED <<disk, exists>>
        /\ Head(events).kind = "remove" /\ Subject # Dir
        /\ Outdated(disk[Subject] # "absent") \/ disk[Subject] = "absent" \/ TellsOf(Tail(events), Subject)
    BY <1>5, HandledIs DEF FolderRemoved
  <2>2. Subject \in Folder  BY <1>0, <2>1, EventFacts
  <2>3. \/ watching[Subject] \in Id /\ remove(watching[Subject])
        \/ watching[Subject] \notin Id /\ Stored' = Stored
    BY <1>5 DEF FolderRemoved, slab, Stored
  <2>4. watching[Subject] = None \/ Outdated(disk[Subject] # "absent") => Subject \in missed'
    BY <1>5 DEF FolderRemoved
  <2>5. PICK f \in Folder : f = Subject  BY <2>2
  <2>6. PICK t : t = watching[f]  OBVIOUS
  <2>7. /\ \A p \in Folder \ {f} : p \in Stored' <=> p \in Stored
        /\ f \notin missed' => f \notin Stored'
    <3>1. CASE t \in Id
      <4>1. get(t) \in {f, Vacant} /\ remove(t)  BY <2>3, <2>5, <2>6, <3>1, WatchFacts
      <4>2. f \in Stored \ missed => get(t) = f \/ f \in missed'
        BY <2>4, <2>5, <2>6, WatchFacts
      <4> QED BY <1>0, <3>1, <4>1, <4>2, RemoveStores
    <3>2. CASE t \notin Id
      <4>1. f \in Stored \ missed => f \in missed'  BY <2>4, <2>5, <2>6, <3>2, WatchFacts
      <4> QED BY <1>0, <2>3, <2>5, <2>6, <3>2, <4>1
    <3> QED BY <3>1, <3>2
  <2>8. ASSUME NEW p \in Folder PROVE Settled(p)
    <3>1. CASE p # f  BY <2>1, <2>5, <2>7, <3>1 DEF Settled
    <3>2. CASE p = f
      <4>1. p \in Instances => disk[Subject] # "absent"  BY <2>5, <3>2 DEF Instances
      <4> QED BY <2>1, <2>4, <2>5, <2>7, <3>2, <4>1 DEF Settled
    <3> QED BY <3>1, <3>2
  <2> QED BY <1>0, <2>1, <2>8, SettledIsTold
<1>6. CASE InfoChanged
  <2>1. /\ events # <<>> /\ events' = Tail(events) /\ loading = {} /\ UNCHANGED <<disk, exists>>
        /\ Head(events).kind = "info"
    BY <1>6, HandledIs DEF InfoChanged
  <2>2. PICK f \in Folder : f = Subject  BY <1>0, <2>1, EventFacts
  <2>3. PICK t : t = watching[f]  OBVIOUS
  <2>4. t = None => f \in missed'  BY <1>6, <2>2, <2>3 DEF InfoChanged
  <2>5. ASSUME NEW p \in Folder PROVE Settled(p)
    <3>1. CASE t = None \/ (t \in Id /\ get(t) # Vacant)
      <4>1. Stored' = Stored  BY <1>6, <2>2, <2>3, <3>1 DEF InfoChanged, slab, Stored
      <4>2. t \in Id /\ get(t) # Vacant => get(t) = f  BY <2>3, WatchFacts
      <4>3. t \in Id /\ get(t) # Vacant => f \in Stored
        BY <1>0, <4>2, GetFacts DEF RegistryAssumption
      <4> QED BY <2>1, <2>2, <2>4, <3>1, <4>1, <4>3 DEF Settled
    <3>2. CASE ~(t = None \/ (t \in Id /\ get(t) # Vacant))
      <4>1. load_instance_from_path(f, Watched, FALSE)  BY <1>6, <2>2, <2>3, <3>2 DEF InfoChanged
      <4> QED BY <1>0, <2>1, <2>2, <4>1, LoadStores DEF Settled
    <3> QED BY <3>1, <3>2
  <2> QED BY <1>0, <2>1, <2>5, SettledIsTold
<1>7. CASE InfoRemoved
  <2>1. /\ events # <<>> /\ events' = Tail(events) /\ loading = {} /\ UNCHANGED <<disk, exists>>
        /\ Head(events).kind = "noinfo"
        /\ Outdated(disk[Subject] = "instance") \/ disk[Subject] # "instance" \/ TellsOf(Tail(events), Subject)
    BY <1>7, HandledIs DEF InfoRemoved
  <2>2. PICK f \in Folder : f = Subject  BY <1>0, <2>1, EventFacts
  <2>3. PICK t : t = watching[f]  OBVIOUS
  <2>4. t = None \/ Outdated(disk[Subject] = "instance") => f \in missed'
    BY <1>7, <2>2, <2>3 DEF InfoRemoved
  <2>5. /\ \A p \in Folder \ {f} : p \in Stored' <=> p \in Stored
        /\ f \notin missed' => f \notin Stored'
    <3>1. CASE t \in Id
      <4>1. get(t) \in {f, Vacant} /\ remove(t)  BY <1>7, <2>2, <2>3, <3>1, WatchFacts DEF InfoRemoved
      <4>2. f \in Stored \ missed => get(t) = f \/ f \in missed'  BY <2>3, <2>4, WatchFacts
      <4> QED BY <1>0, <3>1, <4>1, <4>2, RemoveStores
    <3>2. CASE t \notin Id
      <4>1. f \in Stored \ missed => f \in missed'  BY <2>3, <2>4, <3>2, WatchFacts
      <4>2. Stored' = Stored  BY <1>7, <2>2, <2>3, <3>2 DEF InfoRemoved, slab, Stored
      <4> QED BY <1>0, <4>1, <4>2
    <3> QED BY <3>1, <3>2
  <2>6. ASSUME NEW p \in Folder PROVE Settled(p)
    <3>1. CASE p # f  BY <2>1, <2>2, <2>5, <3>1 DEF Settled
    <3>2. CASE p = f
      <4>1. p \in Instances <=> disk[Subject] = "instance"  BY <2>2, <3>2 DEF Instances
      <4> QED BY <2>1, <2>2, <2>4, <2>5, <3>2, <4>1 DEF Settled
    <3> QED BY <3>1, <3>2
  <2> QED BY <1>0, <2>1, <2>6, SettledIsTold
<1>8. CASE FolderRenamed
  <2>1. /\ events # <<>> /\ events' = Tail(events) /\ loading = {} /\ UNCHANGED <<disk, exists>>
        /\ Head(events).kind = "rename"
        /\ Outdated(disk[Subject] # "absent") \/ disk[Subject] = "absent" \/ TellsOf(Tail(events), Subject)
    BY <1>8, HandledIs DEF FolderRenamed
  <2>2. PICK f \in Folder : f = Subject  BY <1>0, <2>1, EventFacts
  <2>3. PICK to \in Folder : to = Head(events).to  BY <1>0, <2>1, EventFacts
  <2>4. to # f
    <3>1. PICK S : S = Event  OBVIOUS
    <3>2. events \in Seq(S)  BY <1>0, <3>1 DEF TypeOK
    <3>3. Head(events) = events[1] /\ 1 \in 1 .. Len(events)  BY <2>1, <3>2, RestIs
    <3> QED BY <2>1, <2>2, <2>3, <3>3 DEF ToldInv, RenamesMove, Subject
  <2>5. PICK t : t = watching[f]  OBVIOUS
  <2>6. t = None \/ Outdated(disk[Subject] # "absent") => f \in missed'
    BY <1>8, <2>2, <2>5 DEF FolderRenamed
  <2>7. CASE t \in Id /\ get(t) # Vacant
    <3>1. update(t, to) /\ (disk[to] # "instance" => to \in missed')
      BY <1>8, <2>2, <2>3, <2>5, <2>7 DEF FolderRenamed
    <3>2. get(t) = f  BY <2>5, <2>7, WatchFacts
    <3>3. /\ to \in Stored' /\ (f \notin missed => f \notin Stored')
          /\ \A p \in Folder \ {f, to} : p \in Stored' <=> p \in Stored
      BY <1>0, <2>4, <2>7, <3>1, <3>2, UpdateStores
    <3>4. ASSUME NEW p \in Folder PROVE Settled(p)
      <4>1. CASE p \notin {f, to}  BY <2>1, <2>2, <2>3, <3>3, <4>1 DEF Settled
      <4>2. CASE p = to  BY <3>1, <3>3, <4>2 DEF Settled, Instances
      <4>3. CASE p = f
        <5>1. p \in Instances => disk[Subject] # "absent"  BY <2>2, <4>3 DEF Instances
        <5> QED BY <1>0, <2>1, <2>2, <2>6, <3>3, <4>3, <5>1 DEF Settled
      <4> QED BY <4>1, <4>2, <4>3
    <3> QED BY <1>0, <2>1, <3>4, SettledIsTold
  <2>8. CASE ~(t \in Id /\ get(t) # Vacant)
    <3>1. f \in Stored => f \in missed'
      <4>1. get(t) # Vacant \/ get(t) # f  BY <2>2 DEF SlabAssumption, RegistryAssumption
      <4> QED BY <1>0, <2>5, <2>6, <2>8, <4>1, WatchFacts
    <3>2. /\ \A p \in Folder \ {to} : p \in Stored' <=> p \in Stored
          /\ (to \in Stored' <=> to \in Instances) \/ (~IsDir(to) /\ (to \in Stored' <=> to \in Stored))
      <4>1. CASE IsDir(to)
        <5>1. \E m : load_instance_from_path(to, m, TRUE)
          BY <1>8, <2>2, <2>3, <2>5, <2>8, <4>1 DEF FolderRenamed
        <5> QED BY <1>0, <5>1, LoadStores
      <4>2. CASE ~IsDir(to)
        <5>1. UNCHANGED slab  BY <1>8, <2>2, <2>3, <2>5, <2>8, <4>2 DEF FolderRenamed
        <5> QED BY <4>2, <5>1 DEF slab, Stored
      <4> QED BY <4>1, <4>2
    <3>3. to \in Instances => IsDir(to)  BY DEF Instances, IsDir, RegistryAssumption
    <3>4. ASSUME NEW p \in Folder PROVE Settled(p)
      <4>1. CASE p \notin {f, to}  BY <2>1, <2>2, <2>3, <3>2, <4>1 DEF Settled
      <4>2. CASE p = to  BY <2>2, <2>4, <3>2, <3>3, <4>2 DEF Settled
      <4>3. CASE p = f
        <5>1. p \in Instances => disk[Subject] # "absent"  BY <2>2, <4>3 DEF Instances
        <5> QED BY <2>1, <2>2, <2>4, <2>6, <3>1, <3>2, <4>3, <5>1 DEF Settled
      <4> QED BY <4>1, <4>2, <4>3
    <3> QED BY <1>0, <2>1, <3>4, SettledIsTold
  <2> QED BY <2>7, <2>8
<1> QED BY <1>1, <1>2, <1>3, <1>4, <1>5, <1>6, <1>7, <1>8 DEF HandleEvent

LEMMA LoadTells ==
  ASSUME SlabAssumption, RegistryAssumption, RegistryInv, ToldInv, NEW f \in Folder, LoadNext(f)
  PROVE  ToldInv'
<1>1. /\ load_instance_from_path(f, Watched, TRUE) /\ loading' = loading \ {f}
      /\ UNCHANGED <<disk, exists, events, missed>>
  BY DEF LoadNext
<1>2. /\ f \in Stored' <=> f \in Instances
      /\ \A p \in Folder \ {f} : p \in Stored' <=> p \in Stored
  BY <1>1, LoadStores DEF RegistryInv
<1>3. Instances' = Instances  BY <1>1 DEF Instances
<1>4. /\ LastOfDir(events, exists)' /\ RenamesMove(events)' /\ (Lists(events)' <=> Lists(events))
      /\ \A p : (TellsOf(events, p)' <=> TellsOf(events, p)) /\ (TellsGone(events, p)' <=> TellsGone(events, p))
  BY <1>1 DEF ToldInv, LastOfDir, RenamesMove, Lists, TellsOf, TellsGone
<1>5. ASSUME NEW p \in Folder PROVE GoneIsTold(p)' /\ NewIsTold(p)'
  <2>1. GoneIsTold(p) /\ NewIsTold(p)  BY DEF ToldInv
  <2>2. CASE p = f  BY <1>1, <1>2, <1>3, <2>2 DEF GoneIsTold, NewIsTold
  <2>3. CASE p # f
    <3>1. p \in loading' <=> p \in loading  BY <1>1, <2>3
    <3>2. p \in Stored' <=> p \in Stored  BY <1>2, <2>3
    <3>3. disk'[p] = disk[p] /\ missed' = missed  BY <1>1
    <3> QED BY <1>3, <1>4, <2>1, <3>1, <3>2, <3>3 DEF GoneIsTold, NewIsTold
  <2> QED BY <2>2, <2>3
<1>6. ~exists' => \A p \in Folder : disk'[p] = "absent"  BY <1>1 DEF ToldInv
<1> QED BY <1>4, <1>5, <1>6 DEF ToldInv

\* What a change of some folders tells: an event about each of them, which takes along an
\* instance that is gone with it.
LEMMA ChangeTells ==
  ASSUME RegistryAssumption, RegistryInv, ToldInv, NEW by, NEW folders \in SUBSET Folder, NEW e \in Event,
         Reported(by, folders, <<e>>), e.path \in folders, e.kind = "rename" => e.to # e.path,
         \A p \in Folder \ folders : disk'[p] = disk[p],
         \A p \in folders : e.path = p \/ (e.kind = "rename" /\ e.to = p),
         \A p \in folders : disk'[p] # "instance" =>
            (e.path = p /\ e.kind # "info") \/ (e.path # p /\ disk[p] = "absent")
  PROVE  ToldInv'
<1> PICK S : S = Event  OBVIOUS
<1>0. /\ events \in Seq(S) /\ e \in S /\ e.kind \in {"change", "remove", "rename", "noinfo", "info"}
      /\ e.path # Dir
  BY DEF RegistryInv, TypeOK, Event, RegistryAssumption
<1>1. exists /\ UNCHANGED <<slots, loading, exists>>  BY DEF Reported, slab
<1>2. Stored' = Stored /\ \A p \in Folder : p \in Instances' <=> disk'[p] = "instance"
  BY <1>1 DEF Stored, Instances
<1>3. ASSUME NEW p \in Folder PROVE GoneIsTold(p) /\ NewIsTold(p)
  BY DEF ToldInv
<1>4. CASE by \in heard
  <2>1. events' = Append(events, e) /\ missed' = missed  BY <1>0, <1>4, AppendIsConcat DEF Reported
  <2>2. /\ LastOfDir(Append(events, e), exists) /\ RenamesMove(Append(events, e))
        /\ Lists(events) => Lists(Append(events, e))
        /\ \A p \in folders : TellsOf(Append(events, e), p)
        /\ \A p : TellsOf(events, p) => TellsOf(Append(events, e), p)
        /\ e.kind # "info" => TellsGone(Append(events, e), e.path)
        /\ \A p : TellsGone(events, p) /\ e.path # p => TellsGone(Append(events, e), p)
    BY <1>0, MoreTells DEF ToldInv
  <2>3. /\ LastOfDir(events, exists)' <=> LastOfDir(Append(events, e), exists)
        /\ RenamesMove(events)' <=> RenamesMove(Append(events, e))
        /\ Lists(events)' <=> Lists(Append(events, e))
        /\ \A p : TellsOf(events, p)' <=> TellsOf(Append(events, e), p)
        /\ \A p : TellsGone(events, p)' <=> TellsGone(Append(events, e), p)
    BY <1>1, <2>1 DEF LastOfDir, RenamesMove, Lists, TellsOf, TellsGone
  <2>4. ASSUME NEW p \in Folder PROVE GoneIsTold(p)' /\ NewIsTold(p)'
    <3>1. CASE p \notin folders
      <4>1. e.path # p /\ disk'[p] = disk[p] /\ (p \in Instances' <=> p \in Instances)
        BY <1>2, <3>1 DEF Instances
      <4> QED BY <1>1, <1>2, <1>3, <2>1, <2>2, <2>3, <4>1 DEF GoneIsTold, NewIsTold
    <3>2. CASE p \in folders
      <4>1. NewIsTold(p)'  BY <2>2, <2>3, <3>2 DEF NewIsTold
      <4>2. CASE e.path = p /\ e.kind # "info"
        <5>1. TellsGone(Append(events, e), p)  BY <2>2, <4>2
        <5> QED BY <2>3, <4>1, <5>1 DEF GoneIsTold
      <4>3. CASE e.path # p /\ disk[p] = "absent"
        <5>1. p \in Stored \ missed => p \in loading \/ TellsGone(events, p)
          BY <1>3, <4>3 DEF GoneIsTold, Instances
        <5> QED BY <1>1, <1>2, <2>1, <2>2, <2>3, <4>1, <4>3, <5>1 DEF GoneIsTold
      <4>4. CASE disk'[p] = "instance"  BY <1>2, <4>4, <4>1 DEF GoneIsTold
      <4> QED BY <3>2, <4>1, <4>2, <4>3, <4>4
    <3> QED BY <3>1, <3>2
  <2> QED BY <1>1, <2>2, <2>3, <2>4 DEF ToldInv
<1>5. CASE by \notin heard
  <2> DEFINE waiting == {events[i].path : i \in {j \in 1 .. Len(events) : events[j].kind = "change"}}
  <2>1. /\ events' = events /\ missed \subseteq missed'
        /\ \A p \in folders \ missed' :
             \/ p \in loading \/ p \in waiting
             \/ Dir \in waiting /\ (disk'[p] # "absent" \/ p \notin Stored)
    BY <1>5 DEF Reported
  <2>2. Dir \in waiting => Lists(events)  BY DEF Lists
  <2>3. \A p \in waiting : TellsGone(events, p) /\ TellsOf(events, p)
    BY DEF TellsGone, TellsOf
  <2> HIDE DEF waiting
  <2>4. /\ LastOfDir(events, exists)' /\ RenamesMove(events)' /\ (Lists(events)' <=> Lists(events))
        /\ \A p : (TellsOf(events, p)' <=> TellsOf(events, p)) /\ (TellsGone(events, p)' <=> TellsGone(events, p))
    BY <1>1, <2>1 DEF ToldInv, LastOfDir, RenamesMove, Lists, TellsOf, TellsGone
  <2>5. ASSUME NEW p \in Folder PROVE GoneIsTold(p)' /\ NewIsTold(p)'
    <3>1. CASE p \notin folders
      <4>1. disk'[p] = disk[p] /\ (p \in Instances' <=> p \in Instances)  BY <1>2, <3>1 DEF Instances
      <4> QED BY <1>1, <1>2, <1>3, <2>1, <2>4, <4>1 DEF GoneIsTold, NewIsTold
    <3>2. CASE p \in folders
      BY <1>1, <1>2, <2>1, <2>2, <2>3, <2>4, <3>2 DEF GoneIsTold, NewIsTold
    <3> QED BY <3>1, <3>2
  <2> QED BY <1>1, <2>4, <2>5 DEF ToldInv
<1> QED BY <1>4, <1>5

LEMMA DirTells ==
  ASSUME RegistryAssumption, RegistryInv, ToldInv, DirMoves
  PROVE  ToldInv'
<1> PICK S : S = Event  OBVIOUS
<1>1. PICK e : e = E(IF exists THEN "remove" ELSE "change", Dir)  OBVIOUS
<1>2. /\ events \in Seq(S) /\ e \in S /\ e.kind \in {"change", "remove"} /\ e.path = Dir
      /\ e.kind = (IF ~exists THEN "change" ELSE "remove")
  BY <1>1 DEF RegistryInv, TypeOK, Event, E
<1>3. /\ \A f \in Folder : disk[f] = "absent"
      /\ exists' = ~exists /\ events' = Append(events, e) /\ UNCHANGED <<slots, disk, loading, missed>>
  BY <1>1 DEF DirMoves, slab
<1>4. /\ LastOfDir(Append(events, e), ~exists) /\ RenamesMove(Append(events, e))
      /\ \A p \in Folder : TellsGone(events, p) => TellsGone(Append(events, e), p)
  <2>1. LastOfDir(Append(events, e), ~exists)  BY <1>2, MoreTells
  <2>2. /\ RenamesMove(Append(events, e))
        /\ \A p \in Folder : TellsGone(events, p) => TellsGone(Append(events, e), p)
    BY <1>2, MoreTells DEF ToldInv
  <2> QED BY <2>1, <2>2
<1>5. /\ LastOfDir(events, exists)' <=> LastOfDir(Append(events, e), ~exists)
      /\ RenamesMove(events)' <=> RenamesMove(Append(events, e))
      /\ \A p : TellsGone(events, p)' <=> TellsGone(Append(events, e), p)
  BY <1>3 DEF LastOfDir, RenamesMove, TellsGone
<1>6. Stored' = Stored /\ Instances' = {} /\ Instances = {}  BY <1>3 DEF Stored, Instances
<1>7. ASSUME NEW p \in Folder PROVE GoneIsTold(p)' /\ NewIsTold(p)'
  <2>1. GoneIsTold(p)  BY DEF ToldInv
  <2>2. p \in Stored \ missed => p \in loading \/ TellsGone(events, p)
    BY <1>3, <1>6, <2>1 DEF GoneIsTold
  <2> QED BY <1>3, <1>4, <1>5, <1>6, <2>2 DEF GoneIsTold, NewIsTold
<1> QED BY <1>3, <1>4, <1>5, <1>7 DEF ToldInv

LEMMA ToldStays ==
  ASSUME SlabAssumption, RegistryAssumption, RegistryInv, ToldInv, [Next]_vars
  PROVE  ToldInv'
<1>0. disk \in [Folder -> {"absent", "instance", "invalid", "file"}]  BY DEF RegistryInv, TypeOK
<1>1. ASSUME NEW f \in Folder, Appears(f) PROVE ToldInv'
  <2>1. E("change", f) \in Event  BY DEF E, Event
  <2> QED BY <1>0, <1>1, <2>1, ChangeTells DEF Appears, E
<1>2. ASSUME NEW f \in Folder, WritesInfo(f) PROVE ToldInv'
  <2>1. E("info", f) \in Event  BY DEF E, Event
  <2> QED BY <1>0, <1>2, <2>1, ChangeTells DEF WritesInfo, E
<1>3. ASSUME NEW f \in Folder, LosesInfo(f) PROVE ToldInv'
  <2>1. E("noinfo", f) \in Event  BY DEF E, Event
  <2> QED BY <1>0, <1>3, <2>1, ChangeTells DEF LosesInfo, E
<1>4. ASSUME NEW f \in Folder, Disappears(f) PROVE ToldInv'
  <2>1. E("remove", f) \in Event  BY DEF E, Event
  <2> QED BY <1>0, <1>4, <2>1, ChangeTells DEF Disappears, E
<1>5. ASSUME NEW f \in Folder, NEW g \in Folder, Moves(f, g) PROVE ToldInv'
  <2>1. PICK e : e = [kind |-> "rename", path |-> f, to |-> g]  OBVIOUS
  <2>2. e \in Event /\ e.kind = "rename" /\ e.path = f /\ e.to = g  BY <2>1 DEF Event
  <2>3. f # g /\ disk[g] = "absent"  BY <1>5 DEF Moves, IsDir, RegistryAssumption
  <2>4. /\ Reported(Dir, {f, g}, <<e>>)
        /\ \A p \in Folder \ {f, g} : disk'[p] = disk[p]
    BY <1>0, <1>5, <2>1 DEF Moves
  <2> QED BY <2>2, <2>3, <2>4, ChangeTells
<1>6. CASE Change
  <2>1. ASSUME NEW f \in Folder, CreateInstance(f) PROVE ToldInv'
    BY <1>1, <1>2, <2>1 DEF CreateInstance
  <2>2. ASSUME NEW id \in Id, DeleteInstance(id) PROVE ToldInv'
    <3>1. get(id) \in Folder  BY <2>2, GetFacts DEF DeleteInstance, get, RegistryInv, RegistryAssumption
    <3> QED BY <1>3, <1>4, <2>2, <3>1 DEF DeleteInstance
  <2>3. ASSUME NEW id \in Id, NEW name \in Folder, RenameInstance(id, name) PROVE ToldInv'
    <3>1. get(id) \in Folder  BY <2>3, GetFacts DEF RenameInstance, get, RegistryInv, RegistryAssumption
    <3> QED BY <1>5, <2>3, <3>1 DEF RenameInstance
  <2> QED BY <1>1, <1>2, <1>3, <1>4, <1>5, <1>6, <2>1, <2>2, <2>3, DirTells DEF Change
<1>7. CASE UNCHANGED vars
  BY <1>7 DEF vars, slab, files, maps, ToldInv, GoneIsTold, NewIsTold, LastOfDir, RenamesMove, Lists, TellsOf,
              TellsGone, Stored, Instances
<1> QED BY <1>6, <1>7, HandlersTell, LoadTells DEF Next

LEMMA ToldInitially == RegistryAssumption /\ Init => ToldInv
<1> SUFFICES ASSUME RegistryAssumption, Init PROVE ToldInv  OBVIOUS
<1>1. Len(events) = 1 /\ events[1].kind = "change" /\ events[1].path = Dir /\ exists  BY DEF Init
<1>2. Lists(events) /\ RenamesMove(events) /\ LastOfDir(events, exists)
  BY <1>1 DEF Lists, RenamesMove, LastOfDir
<1>3. Stored = {}  BY DEF Init, SlabInit, Stored
<1> QED BY <1>1, <1>2, <1>3 DEF ToldInv, GoneIsTold, NewIsTold

\* Between steps, an instance is watched under its id.
LEMMA ApartAndWatched == RegistryAssumption /\ SlabAssumption /\ RegistryInv => InstancesAreWatched
<1> SUFFICES ASSUME RegistryAssumption, SlabAssumption, RegistryInv PROVE InstancesAreWatched  OBVIOUS
<1> USE DEF RegistryInv, WatchInv
<1>1. ASSUME NEW f \in Stored \ (missed \cup taken)
      PROVE  \E i \in Index : slots[i] = [id |-> watching[f], value |-> f]
  <2>1. f \in Folder  BY GetFacts DEF RegistryAssumption
  <2>2. PICK t \in Id : t = watching[f] /\ get(t) = f  BY DEF WatchedAsIs
  <2>3. t[1] \in Index /\ slots[t[1]] \in Entry /\ slots[t[1]].id = t /\ slots[t[1]].value = f
    BY <2>1, <2>2, GetFacts DEF RegistryAssumption
  <2>4. slots[t[1]] = [id |-> t, value |-> f]  BY <2>3 DEF Entry
  <2> QED BY <2>2, <2>3, <2>4
<1> QED BY <1>1 DEF InstancesAreWatched, OwnWatch

\* Whatever the launcher and other programs do to the folders, and however late it is told:
\* the instances are the folders that can be read as one as soon as there is nothing left to handle
\* or to load; no two have one folder; an event of a folder is only ever taken for one of its own
\* instance; and an id is never the id of another instance. Excepted are folders of which a
\* change was not reported, or came too late (backend.rs, backend_filesystem.rs, id_slab.rs).
THEOREM RegistryIsTheDisk ==
  ASSUME SlabAssumption, RegistryAssumption
  PROVE  Spec => RegistryIsDisk
<1>1. Init => RegistryInv /\ ToldInv /\ Map!Init  BY RegistryInvInitially, ToldInitially
<1>2. RegistryInv /\ ToldInv /\ [Next]_vars => (RegistryInv /\ ToldInv)' /\ [Map!Next]_<<Named, Spent>>
  BY RegistryInvStays, ToldStays
<1>3. RegistryInv /\ ToldInv => TypeOK /\ FoldersAreInstances /\ InstancesAreWatched /\ OnePerFolder
  <2> SUFFICES ASSUME RegistryInv, ToldInv PROVE FoldersAreInstances /\ InstancesAreWatched  BY DEF RegistryInv
  <2>1. ASSUME events = <<>>, loading = {}, NEW f \in Folder \ missed PROVE f \in Stored <=> f \in Instances
    <3>1. ~Lists(events) /\ ~TellsGone(events, f) /\ ~TellsOf(events, f)
      BY <2>1 DEF Lists, TellsGone, TellsOf
    <3> QED BY <2>1, <3>1 DEF ToldInv, GoneIsTold, NewIsTold
  <2> QED BY <2>1, ApartAndWatched DEF FoldersAreInstances
<1> QED BY <1>1, <1>2, <1>3, PTL DEF Spec, RegistryIsDisk, ImplementsIdMap, Map!Spec, Named, Spent

-----------------------------------------------------------------------------
(* InstallDialog: what is sent fits what it is for, whichever of the two     *)
(* dialogs it is, for any files, any instances and any number of clicks and  *)
(* of answers.                                                               *)

\* DialogType, with what the selections and the buttons are made of.
HasDialog ==
  /\ dialog \in {"closed", "loading", "open", "error"} /\ target \in Target \cup {Null}
  /\ versions \in {"none", "loading", "loaded", "error"}
  /\ \A key \in DOMAIN mod_files : mod_files[key] \in {"loading", "loaded", "error"}
  /\ fixed \in [game : Game \cup {Null}, loader : ModLoader \cup {Null}]
  /\ game \in [options : SUBSET Game, selected : Game \cup {Null}]
  /\ loader \in [options : SUBSET (SUBSET ModLoader), selected : (SUBSET ModLoader) \cup {Null}]
  /\ any_loader \in BOOLEAN
  /\ file_select \in [options : SUBSET Offered, selected : Offered \cup {Null}]
  /\ message \in {"loading", "error", Null} /\ content \subseteq Dependency
  /\ drawn \in Drawn \cup {Null} /\ installs \in ContentInstall \cup {Null}

\* Until a dialog shows its second page nothing of that is there.
Untouched == game = NoSelect /\ loader = NoSelect /\ file_select = NoSelect /\ drawn = Null

\* A dialog that has sent something is closed, and there is no other.
SentOnce ==
  /\ installs # Null => dialog = "closed"
  /\ installs = Null /\ (dialog # "open" \/ target = Null) => Untouched

\* What is fixed is the instance's.
FixedForTarget ==
  /\ dialog = "loading" => target # "new"
  /\ dialog = "open" =>
       /\ Game # {}
       /\ target \in DOMAIN InstanceEntry => supported(target) /\ fixed = fixed_for(target)
       /\ target \notin DOMAIN InstanceEntry => fixed = Nothing

\* The loader that files are looked for with.
wanted_loader == IF any_loader THEN Null ELSE CHOOSE l \in last_selected.loader : TRUE

\* What is on offer is what is fixed, or else for the version that was last drawn.
SelectionsFit ==
  dialog = "open" =>
    /\ game # NoSelect =>
         game.selected \in game.options /\ (fixed.game # Null => game.options = {fixed.game})
    /\ loader # NoSelect =>
         /\ last_selected.game \in Game
         /\ loader.selected \in loader.options
         /\ fixed.loader # Null => loader.options = {{fixed.loader}} /\ ~any_loader
         /\ ~any_loader => \A option \in loader.options : \E l \in ModLoader : option = {l}
         /\ any_loader => OneForAll(last_selected.game) /\ loader.options = {UNION matrix(last_selected.game)}

\* Once something was drawn it is what was selected last, and the files are for that
\* unless a message says that they are not there; for an instance they always are.
DrawnFits ==
  dialog = "open" =>
    /\ game = NoSelect \/ loader = NoSelect => drawn = Null
    /\ drawn # Null =>
         /\ loader # NoSelect /\ last_selected = [game |-> drawn.game, loader |-> drawn.loader]
         /\ last_selected.loader \in loader.options
         /\ drawn.file \in file_select.options \cup {Null}
         /\ drawn.file # Null =>
              /\ drawn.requires \subseteq drawn.file.requires
              /\ target = "new" => drawn.requires = drawn.file.requires
    /\ file_select.selected \in file_select.options \cup {Null}
    /\ file_select # NoSelect => drawn # Null
    /\ \A f \in file_select.options :
         /\ message = Null => IsFor(f, last_selected.game, wanted_loader)
         /\ fixed.game # Null => fixed.game \in f.games
         /\ fixed.loader # Null => fixed.loader \in f.loaders

\* What has been sent fits.
SentFits == FitsTarget /\ FitsSelection /\ NeedsAreSent

DialogInv == HasDialog /\ SentOnce /\ FixedForTarget /\ SelectionsFit /\ DrawnFits /\ SentFits

\* A set of numbers has a least one.
LEMMA LeastIsThere ==
  ASSUME NEW S \in SUBSET Nat, S # {}
  PROVE  \E n \in S : \A m \in S : n <= m
<1> DEFINE R == StrictSubsetOrdering(Nat)
           F == FiniteSubsetsOf(Nat)
           T == {0 .. n : n \in S}
<1>1. IsWellFoundedOn(R, F)  BY FS_StrictSubsetOrderingWellFounded
<1>2. T \subseteq F
  <2> SUFFICES ASSUME NEW n \in Nat PROVE 0 .. n \in F  OBVIOUS
  <2>1. IsFiniteSet(0 .. n)  BY FS_Interval
  <2> QED BY <2>1 DEF FiniteSubsetsOf
<1>3. T # {}  OBVIOUS
<1>4. \E x \in T : \A y \in T : ~ (<<y, x>> \in R)
  <2> HIDE DEF R, F, T
  <2> QED BY <1>1, <1>2, <1>3, WFMin
<1>5. PICK n \in S : \A y \in T : ~ (<<y, 0 .. n>> \in R)  BY <1>4
<1>6. ASSUME NEW m \in S, ~(n <= m) PROVE FALSE
  <2>1. 0 .. m \in T /\ 0 .. m \subseteq 0 .. n /\ n \in 0 .. n /\ n \notin 0 .. m  BY <1>6
  <2>2. <<0 .. m, 0 .. n>> \in R
    <3>1. 0 .. m # 0 .. n  BY <2>1
    <3>2. 0 .. m \in SUBSET Nat /\ 0 .. n \in SUBSET Nat  OBVIOUS
    <3> QED BY <2>1, <3>1, <3>2, <1>2 DEF StrictSubsetOrdering
  <2> QED BY <1>5, <2>1, <2>2
<1> QED BY <1>6

\* What a file is for.
LEMMA OfferedFact ==
  ASSUME FileAssumption, NEW f \in Offered
  PROVE  /\ f.games \subseteq Game /\ f.loaders \subseteq ModLoader /\ f.loaders # {}
         /\ f.type \in {"release", "beta", "alpha"} /\ f.requires \subseteq Dependency
BY DEF FileAssumption, Game

\* A file that is first is one of them.
LEMMA FirstFact ==
  ASSUME FileAssumption, NEW those \in SUBSET Offered, those # {}
  PROVE  first_of(those) \in those
<1> DEFINE S == {n \in DOMAIN Files : Files[n] \in those}
<1>1. S \subseteq Nat /\ S # {}
  <2>1. DOMAIN Files \subseteq Nat  BY DEF FileAssumption
  <2>2. PICK f \in those : TRUE  OBVIOUS
  <2>3. PICK n \in DOMAIN Files : f = Files[n]  BY <2>2 DEF Offered
  <2> QED BY <2>1, <2>2, <2>3
<1> HIDE DEF S
<1>2. PICK n \in S : \A m \in S : n <= m  BY <1>1, LeastIsThere
<1>3. n \in DOMAIN Files /\ Files[n] \in those /\ \A m \in DOMAIN Files : Files[m] \in those => n <= m
  BY <1>2 DEF S
<1> QED BY <1>3 DEF first_of

\* What is listed for a version and a loader is for them.
LEMMA ListingFact ==
  ASSUME FileAssumption, NEW g, NEW l
  PROVE  /\ listing(g, l) \in [options : SUBSET Offered, selected : Offered \cup {Null}]
         /\ listing(g, l).selected \in listing(g, l).options \cup {Null}
         /\ \A f \in listing(g, l).options : f \in Offered /\ IsFor(f, g, l)
<1>1. PICK those : those = {f \in Offered : IsFor(f, g, l)}  OBVIOUS
<1>2. listing(g, l) = [options |-> those, selected |-> highest(those)]  BY <1>1 DEF listing, Select
<1>3. highest(those) \in those \cup {Null}
  <2>1. CASE those = {}  BY <2>1 DEF highest
  <2>2. CASE those # {}
    <3> DEFINE of(type) == {f \in those : f.type = type}
    <3>1. of("release") # {} \/ of("beta") # {} \/ of("alpha") # {}
      <4>1. PICK f \in those : TRUE  BY <2>2
      <4>2. f.type \in {"release", "beta", "alpha"}  BY <1>1, <4>1, OfferedFact
      <4> QED BY <4>1, <4>2
    <3>2. PICK best : best = IF of("release") # {} THEN of("release")
                             ELSE IF of("beta") # {} THEN of("beta") ELSE of("alpha")
      OBVIOUS
    <3>3. best \in SUBSET those /\ best # {}  BY <3>1, <3>2
    <3>4. highest(those) = first_of(best)  BY <2>2, <3>2 DEF highest
    <3>5. best \in SUBSET Offered  BY <1>1, <3>3
    <3> QED BY <3>3, <3>4, <3>5, FirstFact
  <2> QED BY <2>1, <2>2
<1> QED BY <1>1, <1>2, <1>3

\* The sets of loaders that are listed for a version.
LEMMA MatrixFact ==
  ASSUME FileAssumption, NEW g \in Game
  PROVE  /\ matrix(g) \subseteq SUBSET ModLoader /\ matrix(g) # {}
         /\ UNION matrix(g) \subseteq ModLoader /\ UNION matrix(g) # {}
         /\ \A f \in Offered : g \in f.games => f.loaders \subseteq UNION matrix(g)
<1>1. PICK listed : listed = {f.loaders : f \in {f \in Offered : g \in f.games}}  OBVIOUS
<1>2. PICK f \in Offered : g \in f.games  BY DEF Game
<1>3. /\ f.loaders \in listed /\ f.loaders # {} /\ \A loaders \in listed : loaders \subseteq ModLoader
      /\ \A h \in Offered : g \in h.games => h.loaders \in listed
  BY <1>1, <1>2, OfferedFact
<1>4. CASE ~curseforge
  <2>1. matrix(g) = listed  BY <1>1, <1>4 DEF matrix
  <2> QED BY <1>3, <2>1
<1>5. CASE curseforge
  <2>1. matrix(g) = {{l} : l \in UNION listed}  BY <1>1, <1>5 DEF matrix
  <2>2. UNION matrix(g) = UNION listed  BY <2>1
  <2>3. PICK l : l \in f.loaders  BY <1>3
  <2>4. UNION listed \subseteq ModLoader /\ l \in UNION listed  BY <1>3, <2>3
  <2> QED BY <1>3, <2>1, <2>2, <2>4
<1> QED BY <1>4, <1>5

\* With one set of loaders for a version each of its files is for the loader that is
\* named, if one is.
LEMMA OneForAllFact ==
  ASSUME FileAssumption, NEW g \in Game, OneForAll(g), NEW f \in Offered, g \in f.games
  PROVE  /\ matrix(g) = {UNION matrix(g)}
         /\ \A l : UNION matrix(g) = {l} => l \in f.loaders
<1>1. PICK one \in matrix(g) : \A other \in matrix(g) : other = one
  BY MatrixFact DEF OneForAll
<1>2. matrix(g) = {one} /\ UNION matrix(g) = one  BY <1>1
<1>3. f.loaders \subseteq UNION matrix(g) /\ f.loaders # {}  BY MatrixFact, OfferedFact
<1> QED BY <1>2, <1>3

\* The loaders that are drawn for a version.
LEMMA LoaderFact ==
  ASSUME FileAssumption, DialogInv, NEW g \in Game, dialog = "open",
         fixed.loader # Null => {fixed.loader} \subseteq ModLoader
  PROVE  LET new == loader_for(g)
         IN  /\ new \in [options : SUBSET (SUBSET ModLoader), selected : (SUBSET ModLoader) \cup {Null}]
             /\ new.selected \in new.options
             /\ fixed.loader # Null => new.options = {{fixed.loader}} /\ ~OneForAll(g)
             /\ ~OneForAll(g) => \A option \in new.options : \E l \in ModLoader : option = {l}
             /\ OneForAll(g) => new.options = {UNION matrix(g)}
<1>1. CASE fixed.loader # Null
  <2>1. loader_for(g) = [options |-> {{fixed.loader}}, selected |-> {fixed.loader}]
    BY <1>1 DEF loader_for, Select
  <2>2. ~OneForAll(g) /\ fixed.loader \in ModLoader  BY <1>1 DEF OneForAll
  <2> QED BY <1>1, <2>1, <2>2
<1>2. CASE fixed.loader = Null /\ OneForAll(g)
  <2>1. loader_for(g) = [options |-> matrix(g), selected |-> UNION matrix(g)]
    BY <1>2 DEF loader_for, Select
  <2>2. matrix(g) = {UNION matrix(g)}
    <3>1. PICK f \in Offered : g \in f.games  BY DEF Game
    <3> QED BY <1>2, <3>1, OneForAllFact
  <2>3. UNION matrix(g) \subseteq ModLoader  BY MatrixFact
  <2> QED BY <1>2, <2>1, <2>2, <2>3
<1>3. CASE fixed.loader = Null /\ ~OneForAll(g)
  <2>1. PICK options : options = {{l} : l \in UNION matrix(g)}  OBVIOUS
  <2>2. loader_for(g) = [options |-> options,
                         selected |-> IF loader.selected \in options THEN loader.selected
                                      ELSE CHOOSE option \in options : TRUE]
    BY <1>3, <2>1 DEF loader_for, Select
  <2>3. UNION matrix(g) \subseteq ModLoader /\ UNION matrix(g) # {}  BY MatrixFact
  <2>4. options # {} /\ \A option \in options : \E l \in ModLoader : option = {l}  BY <2>1, <2>3
  <2>5. loader_for(g).selected \in options  BY <2>2, <2>4
  <2> QED BY <1>3, <2>2, <2>4, <2>5
<1> QED BY <1>1, <1>2, <1>3

\* What was sent stays as it is.
LEMMA SentStays ==
  ASSUME DialogInv, UNCHANGED installs, installs # Null => UNCHANGED <<message, with_deps>>
  PROVE  SentFits'
BY DEF DialogInv, SentFits, FitsTarget, FitsSelection, NeedsAreSent

LEMMA InitDialog ==
  ASSUME FileAssumption, DialogInit
  PROVE  DialogInv
<1>1. HasDialog
  <2>1. \A key \in DOMAIN mod_files : mod_files[key] \in {"loading", "loaded", "error"}  BY DEF DialogInit
  <2>2. fixed \in [game : Game \cup {Null}, loader : ModLoader \cup {Null}]  BY DEF DialogInit, Nothing
  <2>3. /\ game \in [options : SUBSET Game, selected : Game \cup {Null}]
        /\ loader \in [options : SUBSET (SUBSET ModLoader), selected : (SUBSET ModLoader) \cup {Null}]
        /\ file_select \in [options : SUBSET Offered, selected : Offered \cup {Null}]
    BY DEF DialogInit, NoSelect, Select
  <2> QED BY <2>1, <2>2, <2>3 DEF DialogInit, HasDialog
<1>2. SentOnce /\ SentFits
  BY DEF DialogInit, SentOnce, Untouched, SentFits, FitsTarget, FitsSelection, NeedsAreSent
<1> QED BY <1>1, <1>2 DEF DialogInit, FixedForTarget, SelectionsFit, DrawnFits, DialogInv

\* A dialog of which only the first page has been seen.
LEMMA UntouchedFits ==
  ASSUME FileAssumption, HasDialog, Untouched
  PROVE  SelectionsFit /\ DrawnFits
BY DEF HasDialog, Untouched, SelectionsFit, DrawnFits, NoSelect, Select

\* A dialog is opened, or not.
LEMMA ShowKeeps ==
  ASSUME FileAssumption, DialogInv, installs = Null, dialog # "open", NEW i \in DOMAIN InstanceEntry \cup {Null},
         \/ Show(i)
         \/ dialog' = "error" /\ UNCHANGED <<target, fixed>>
         \/ dialog' = "loading" /\ target' = i /\ UNCHANGED fixed,
         versions' \in {"none", "loading", "loaded", "error"},
         UNCHANGED <<curseforge, mod_files, game, loader, any_loader, file_select, last_selected, message,
                     with_deps, content, drawn, installs>>
  PROVE  DialogInv'
<1>1. Untouched /\ Untouched'  BY DEF DialogInv, SentOnce, Untouched
<1>2. i # "new" /\ target \in Target \cup {Null} /\ fixed \in [game : Game \cup {Null}, loader : ModLoader \cup {Null}]
  BY DEF DialogInv, HasDialog, FileAssumption, Target
<1>3. \/ /\ dialog' = "open" /\ target' = i /\ Game # {} /\ (i = Null \/ supported(i))
         /\ fixed' = IF i = Null THEN Nothing ELSE fixed_for(i)
      \/ dialog' = "error" /\ UNCHANGED <<target, fixed>>
      \/ dialog' = "loading" /\ target' = i /\ UNCHANGED fixed
  BY DEF Show
<1>4. ASSUME i # Null, supported(i)
      PROVE  fixed_for(i) \in [game : Game \cup {Null}, loader : ModLoader \cup {Null}]
  <2>1. InstanceEntry[i].game \in Game /\ (IsMod /\ InstanceEntry[i].loader # NoLoader => InstanceEntry[i].loader \in ModLoader)
    BY <1>4 DEF supported, FileAssumption
  <2> QED BY <2>1 DEF fixed_for
<1>5. HasDialog'
  <2>1. fixed' \in [game : Game \cup {Null}, loader : ModLoader \cup {Null}]
    BY <1>2, <1>3, <1>4 DEF Nothing
  <2>2. target' \in Target \cup {Null} /\ dialog' \in {"closed", "loading", "open", "error"}
    BY <1>2, <1>3 DEF Target
  <2> QED BY <2>1, <2>2 DEF DialogInv, HasDialog
<1>6. SentOnce'  BY <1>1 DEF SentOnce
<1>7. FixedForTarget'
  <2>1. CASE dialog' # "open"  BY <1>2, <1>3, <2>1 DEF FixedForTarget
  <2>2. CASE dialog' = "open"
    <3>1. target' = i /\ Game # {} /\ fixed' = IF i = Null THEN Nothing ELSE fixed_for(i)  BY <1>3, <2>2
    <3>2. i = Null \/ (i # Null /\ supported(i))  BY <1>3, <2>2
    <3>3. Null \notin DOMAIN InstanceEntry  BY DEF FileAssumption, Target
    <3> QED BY <2>2, <3>1, <3>2, <3>3 DEF FixedForTarget, supported, matrix, fixed_for
  <2> QED BY <2>1, <2>2
<1>8. SelectionsFit' /\ DrawnFits'
  BY <1>1, <1>5 DEF HasDialog, Untouched, SelectionsFit, DrawnFits, NoSelect, Select
<1> QED BY <1>5, <1>6, <1>7, <1>8, SentStays DEF DialogInv


\* What the dialog knows of the files and of the instance changes, and nothing it shows.
LEMMA KnownKeeps ==
  ASSUME DialogInv, versions' \in {"none", "loading", "loaded", "error"},
         \A key \in DOMAIN mod_files' : mod_files'[key] \in {"loading", "loaded", "error"},
         content' \in SUBSET Dependency,
         UNCHANGED <<curseforge, dialog, target, fixed, game, loader, any_loader, file_select, last_selected,
                     message, with_deps, drawn, installs>>
  PROVE  DialogInv'
<1>1. HasDialog'  BY DEF DialogInv, HasDialog
<1>2. SentOnce' /\ FixedForTarget'
  BY DEF DialogInv, SentOnce, Untouched, FixedForTarget, supported, matrix, fixed_for
<1>3. SelectionsFit'
  <2>1. /\ matrix(last_selected.game)' = matrix(last_selected.game)
        /\ OneForAll(last_selected.game)' <=> OneForAll(last_selected.game)
    BY DEF matrix, OneForAll
  <2> QED BY <2>1 DEF DialogInv, SelectionsFit
<1>4. DrawnFits'  BY DEF DialogInv, DrawnFits, wanted_loader
<1> QED BY <1>1, <1>2, <1>3, <1>4, SentStays DEF DialogInv

LEMMA OpenKeeps ==
  ASSUME FileAssumption, DialogInv, NEW i \in DOMAIN InstanceEntry \cup {Null}, OpenDialog(i)
  PROVE  DialogInv'
<1>1. dialog # "open" /\ installs = Null  BY DEF OpenDialog
<1>2. versions' \in {"none", "loading", "loaded", "error"}  BY DEF OpenDialog, DialogInv, HasDialog
<1>3. \/ Show(i)
      \/ dialog' = "error" /\ UNCHANGED <<target, fixed>>
      \/ dialog' = "loading" /\ target' = i /\ UNCHANGED fixed
  BY DEF OpenDialog
<1> QED BY <1>1, <1>2, <1>3, ShowKeeps DEF OpenDialog

LEMMA VersionsArriveKeeps ==
  ASSUME FileAssumption, DialogInv, VersionsArrive
  PROVE  DialogInv'
<1>1. versions' \in {"none", "loading", "loaded", "error"}  BY DEF VersionsArrive
<1>2. CASE dialog # "loading"  BY <1>1, <1>2, KnownKeeps DEF VersionsArrive, DialogInv, HasDialog
<1>3. CASE dialog = "loading"
  <2>1. dialog # "open" /\ installs = Null /\ target \in DOMAIN InstanceEntry \cup {Null}
    BY <1>3 DEF DialogInv, HasDialog, SentOnce, FixedForTarget, Target
  <2>2. Show(target) \/ (dialog' = "error" /\ UNCHANGED <<target, fixed>>)  BY <1>3 DEF VersionsArrive
  <2>3. UNCHANGED <<curseforge, mod_files, game, loader, any_loader, file_select, last_selected, message,
                    with_deps, content, drawn, installs>>
    BY DEF VersionsArrive
  <2> QED BY <1>1, <2>1, <2>2, <2>3, ShowKeeps
<1> QED BY <1>2, <1>3

LEMMA FilesArriveKeeps ==
  ASSUME DialogInv, NEW key \in DOMAIN mod_files, FilesArrive(key)
  PROVE  DialogInv'
<1>1. \A k \in DOMAIN mod_files' : mod_files'[k] \in {"loading", "loaded", "error"}
  BY DEF FilesArrive, DialogInv, HasDialog
<1> QED BY <1>1, KnownKeeps DEF FilesArrive, DialogInv, HasDialog

LEMMA ContentArrivesKeeps ==
  ASSUME DialogInv, ContentIsListed
  PROVE  DialogInv'
BY KnownKeeps DEF ContentIsListed, DialogInv, HasDialog

LEMMA ChooseKeeps ==
  ASSUME FileAssumption, DialogInv, NEW i \in Target, Choose(i)
  PROVE  DialogInv'
<1>1. dialog = "open" /\ dialog' = "open" /\ installs = Null /\ installs' = Null /\ Untouched /\ Untouched' /\ Game # {}
  BY DEF Choose, DialogInv, SentOnce, FixedForTarget, Untouched
<1>2. target' = i /\ (i # "new" => i \in DOMAIN InstanceEntry /\ supported(i))
  BY DEF Choose, entries
<1>3. fixed' = IF i = "new" THEN Nothing ELSE fixed_for(i)  BY DEF Choose
<1>4. fixed' \in [game : Game \cup {Null}, loader : ModLoader \cup {Null}]
  <2>1. CASE i = "new"  BY <1>3, <2>1 DEF Nothing
  <2>2. CASE i # "new"
    <3>1. InstanceEntry[i].game \in Game /\ (IsMod /\ InstanceEntry[i].loader # NoLoader => InstanceEntry[i].loader \in ModLoader)
      BY <1>2, <2>2 DEF supported, FileAssumption
    <3> QED BY <1>3, <2>2, <3>1 DEF fixed_for
  <2> QED BY <2>1, <2>2
<1>5. HasDialog'  BY <1>2, <1>4 DEF Choose, DialogInv, HasDialog
<1>6. SentOnce' /\ FixedForTarget'
  <2>1. FixedForTarget'  BY <1>1, <1>2, <1>3 DEF FixedForTarget, supported, matrix, fixed_for, FileAssumption
  <2> QED BY <1>1, <2>1 DEF SentOnce
<1>7. SelectionsFit' /\ DrawnFits'
  BY <1>1, <1>5 DEF HasDialog, Untouched, SelectionsFit, DrawnFits, NoSelect, Select
<1> QED BY <1>1, <1>5, <1>6, <1>7, SentStays DEF DialogInv

LEMMA CloseKeeps ==
  ASSUME FileAssumption, DialogInv, Close
  PROVE  DialogInv'
<1>1. installs = Null /\ installs' = Null /\ dialog' = "closed"  BY DEF Close, DialogInv, SentOnce
<1>2. Untouched'  BY DEF Close, Untouched, NoSelect, Select
<1>3. HasDialog'
  <2>1. fixed' \in [game : Game \cup {Null}, loader : ModLoader \cup {Null}]  BY DEF Close, Nothing
  <2>2. /\ game' \in [options : SUBSET Game, selected : Game \cup {Null}]
        /\ loader' \in [options : SUBSET (SUBSET ModLoader), selected : (SUBSET ModLoader) \cup {Null}]
        /\ file_select' \in [options : SUBSET Offered, selected : Offered \cup {Null}]
    BY DEF Close, NoSelect, Select
  <2> QED BY <2>1, <2>2 DEF Close, DialogInv, HasDialog
<1>4. SentOnce' /\ FixedForTarget' /\ SelectionsFit' /\ DrawnFits'
  BY <1>1, <1>2 DEF SentOnce, FixedForTarget, SelectionsFit, DrawnFits
<1> QED BY <1>1, <1>3, <1>4, SentStays DEF DialogInv

LEMMA ClickKeeps ==
  ASSUME FileAssumption, DialogInv, Selects
  PROVE  DialogInv'
<1>1. /\ dialog = "open" /\ dialog' = "open" /\ drawn # Null /\ installs = Null /\ installs' = Null
      /\ target # Null /\ game # NoSelect /\ loader # NoSelect
  BY DEF Selects, DialogInv, SentOnce, Untouched, DrawnFits
<1>2. UNCHANGED <<curseforge, target, fixed, versions, mod_files, any_loader, last_selected, message, content,
                  drawn, installs>>
  BY DEF Selects
<1>3. /\ game' \in [options : SUBSET Game, selected : Game \cup {Null}]
      /\ game'.options = game.options /\ game'.selected \in game.options
  BY <1>1 DEF Selects, DialogInv, HasDialog, SelectionsFit
<1>4. /\ loader' \in [options : SUBSET (SUBSET ModLoader), selected : (SUBSET ModLoader) \cup {Null}]
      /\ loader'.options = loader.options /\ loader'.selected \in loader.options
  BY <1>1 DEF Selects, DialogInv, HasDialog, SelectionsFit
<1>5. /\ file_select' \in [options : SUBSET Offered, selected : Offered \cup {Null}]
      /\ file_select'.options = file_select.options /\ file_select'.selected \in file_select.options \cup {Null}
  BY <1>1 DEF Selects, DialogInv, HasDialog, DrawnFits
<1>6. HasDialog'  BY <1>1, <1>2, <1>3, <1>4, <1>5 DEF DialogInv, HasDialog
<1>7. game' # NoSelect /\ loader' # NoSelect  BY <1>3, <1>4 DEF NoSelect, Select
<1>8. SentOnce' /\ FixedForTarget'
  BY <1>1, <1>2 DEF DialogInv, SentOnce, FixedForTarget, supported, matrix, fixed_for
<1>9. SelectionsFit'
  <2>1. /\ matrix(last_selected.game)' = matrix(last_selected.game)
        /\ OneForAll(last_selected.game)' <=> OneForAll(last_selected.game)
    BY <1>2 DEF matrix, OneForAll
  <2> QED BY <1>1, <1>2, <1>3, <1>4, <2>1 DEF DialogInv, SelectionsFit
<1>10. DrawnFits'
  BY <1>1, <1>2, <1>4, <1>5, <1>7 DEF DialogInv, DrawnFits, wanted_loader
<1> QED BY <1>1, <1>6, <1>8, <1>9, <1>10, SentStays DEF DialogInv

\* The version of the game that is drawn.
LEMMA GameDrawnFact ==
  ASSUME FileAssumption, DialogInv, dialog = "open"
  PROVE  /\ game_drawn \in [options : SUBSET Game, selected : Game]
         /\ game_drawn.selected \in game_drawn.options
         /\ fixed.game # Null => game_drawn.options = {fixed.game}
<1>1. fixed \in [game : Game \cup {Null}, loader : ModLoader \cup {Null}] /\ Game # {}
  BY DEF DialogInv, HasDialog, FixedForTarget
<1>2. CASE game # NoSelect
  <2>1. game_drawn = game /\ game \in [options : SUBSET Game, selected : Game \cup {Null}]
    BY <1>2 DEF game_drawn, DialogInv, HasDialog
  <2>2. game.selected \in game.options /\ (fixed.game # Null => game.options = {fixed.game})
    BY <1>2 DEF DialogInv, SelectionsFit
  <2> QED BY <2>1, <2>2
<1>3. CASE game = NoSelect /\ fixed.game # Null
  <2>1. game_drawn = [options |-> {fixed.game}, selected |-> fixed.game]
    BY <1>3 DEF game_drawn, Select
  <2> QED BY <1>1, <1>3, <2>1
<1>4. CASE game = NoSelect /\ fixed.game = Null
  <2>1. PICK newest : newest = CHOOSE g \in Game : \A h \in Game : h <= g  OBVIOUS
  <2>2. newest \in Game  BY <1>1, <2>1 DEF FileAssumption
  <2>3. game_drawn = [options |-> Game, selected |-> newest]
    BY <1>4, <2>1 DEF game_drawn, Select
  <2> QED BY <1>4, <2>2, <2>3
<1> QED BY <1>2, <1>3, <1>4

\* What a redraw makes of the selected loader.
LEMMA DrawLoader ==
  ASSUME FileAssumption, DialogInv, Redraw, NEW g \in Game, g = game'.selected
  PROVE  /\ loader' \in [options : SUBSET (SUBSET ModLoader), selected : (SUBSET ModLoader) \cup {Null}]
         /\ loader'.selected \in loader'.options /\ any_loader' \in BOOLEAN
         /\ fixed.loader # Null => loader'.options = {{fixed.loader}} /\ ~any_loader'
         /\ ~any_loader' => \A option \in loader'.options : \E l \in ModLoader : option = {l}
         /\ any_loader' => OneForAll(g) /\ loader'.options = {UNION matrix(g)}
         /\ loader # NoSelect /\ last_selected.game = g => UNCHANGED <<loader, any_loader>>
<1>1. dialog = "open" /\ (fixed.loader # Null => {fixed.loader} \subseteq ModLoader)
  BY DEF Redraw, DialogInv, HasDialog
<1>2. CASE loader = NoSelect \/ last_selected.game # g
  <2>1. loader' = loader_for(g) /\ any_loader' = OneForAll(g)  BY <1>2 DEF Redraw
  <2>2. OneForAll(g) \in BOOLEAN  BY DEF OneForAll
  <2>3. PICK new : new = loader_for(g)  OBVIOUS
  <2>4. /\ new \in [options : SUBSET (SUBSET ModLoader), selected : (SUBSET ModLoader) \cup {Null}]
        /\ new.selected \in new.options
        /\ fixed.loader # Null => new.options = {{fixed.loader}} /\ ~OneForAll(g)
        /\ ~OneForAll(g) => \A option \in new.options : \E l \in ModLoader : option = {l}
        /\ OneForAll(g) => new.options = {UNION matrix(g)}
    BY <1>1, <2>3, LoaderFact
  <2> QED BY <1>2, <2>1, <2>2, <2>3, <2>4
<1>3. CASE loader # NoSelect /\ last_selected.game = g
  <2>1. UNCHANGED <<loader, any_loader>>  BY <1>3 DEF Redraw
  <2>2. /\ loader \in [options : SUBSET (SUBSET ModLoader), selected : (SUBSET ModLoader) \cup {Null}]
        /\ any_loader \in BOOLEAN
    BY DEF DialogInv, HasDialog
  <2>3. /\ loader.selected \in loader.options
        /\ fixed.loader # Null => loader.options = {{fixed.loader}} /\ ~any_loader
        /\ ~any_loader => \A option \in loader.options : \E l \in ModLoader : option = {l}
        /\ any_loader => OneForAll(last_selected.game) /\ loader.options = {UNION matrix(last_selected.game)}
    BY <1>1, <1>3 DEF DialogInv, SelectionsFit
  <2> QED BY <1>3, <2>1, <2>2, <2>3
<1> QED BY <1>2, <1>3

\* What a redraw makes of the list of files and of the message.
LEMMA DrawFiles ==
  ASSUME FileAssumption, DialogInv, Redraw, NEW g \in Game, g = game'.selected
  PROVE  LET wanted == IF any_loader' THEN Null ELSE CHOOSE l \in loader'.selected : TRUE
         IN  \/ /\ file_select' = listing(g, wanted) /\ message' \in {message, Null}
                /\ mod_files' = mod_files
             \/ /\ file_select' = file_select /\ message' \in {"loading", "error"}
                /\ \A key \in DOMAIN mod_files' : mod_files'[key] \in {"loading", "loaded", "error"}
             \/ /\ UNCHANGED <<file_select, mod_files, message>> /\ file_select # NoSelect
                /\ last_selected = [game |-> g, loader |-> loader'.selected]
<1> DEFINE wanted == IF any_loader' THEN Null ELSE CHOOSE l \in loader'.selected : TRUE
<1>1. IF list_anew(last_selected.game # g, last_selected.loader # loader'.selected) THEN Listed(g, wanted)
      ELSE UNCHANGED <<file_select, mod_files, message>>
  BY DEF Redraw
<1>2. CASE list_anew(last_selected.game # g, last_selected.loader # loader'.selected)
  <2>1. Listed(g, wanted)  BY <1>1, <1>2
  <2>2. CASE ~curseforge  BY <2>1, <2>2 DEF Listed
  <2>3. CASE curseforge
    <3> DEFINE key == <<g, wanted>>
    <3>1. CASE key \notin DOMAIN mod_files
      <4>1. /\ mod_files' = [k \in DOMAIN mod_files \cup {key} |-> IF k = key THEN "loading" ELSE mod_files[k]]
            /\ message' = "loading" /\ file_select' = file_select
        BY <2>1, <2>3, <3>1 DEF Listed
      <4>2. \A k \in DOMAIN mod_files : mod_files[k] \in {"loading", "loaded", "error"}
        BY DEF DialogInv, HasDialog
      <4> HIDE DEF wanted
      <4>3. \A k \in DOMAIN mod_files' : mod_files'[k] \in {"loading", "loaded", "error"}
        BY <4>1, <4>2
      <4> QED BY <4>1, <4>3 DEF wanted
    <3>2. CASE key \in DOMAIN mod_files
      <4>1. /\ mod_files' = mod_files
            /\ message' = IF mod_files[key] = "loaded" THEN Null ELSE mod_files[key]
            /\ file_select' = IF mod_files[key] = "loaded" THEN listing(g, wanted) ELSE file_select
        BY <2>1, <2>3, <3>2 DEF Listed
      <4>2. \A k \in DOMAIN mod_files : mod_files[k] \in {"loading", "loaded", "error"}
        BY DEF DialogInv, HasDialog
      <4>3. mod_files[key] \in {"loading", "loaded", "error"}  BY <3>2, <4>2
      <4>4. PICK answer : answer = mod_files[key]  OBVIOUS
      <4>5. CASE answer = "loaded"  BY <4>1, <4>4, <4>5
      <4>6. CASE answer # "loaded"
        <5>1. file_select' = file_select /\ message' \in {"loading", "error"}  BY <4>1, <4>3, <4>4, <4>6
        <5> QED BY <4>1, <4>2, <5>1
      <4> QED BY <4>5, <4>6
    <3> QED BY <3>1, <3>2
  <2> QED BY <2>2, <2>3
<1>3. CASE ~list_anew(last_selected.game # g, last_selected.loader # loader'.selected)
  <2>1. UNCHANGED <<file_select, mod_files, message>>  BY <1>1, <1>3
  <2>2. file_select # NoSelect /\ last_selected.game = g /\ last_selected.loader = loader'.selected
    BY <1>3 DEF list_anew
  <2>3. last_selected = [game |-> last_selected.game, loader |-> last_selected.loader]
    <3>1. dialog = "open"  BY DEF Redraw
    <3>2. drawn # Null  BY <2>2, <3>1 DEF DialogInv, DrawnFits
    <3>3. last_selected = [game |-> drawn.game, loader |-> drawn.loader]  BY <3>1, <3>2 DEF DialogInv, DrawnFits
    <3> QED BY <3>3
  <2> QED BY <2>1, <2>2, <2>3
<1> QED BY <1>2, <1>3

LEMMA DrawKeeps ==
  ASSUME FileAssumption, DialogInv, Redraw
  PROVE  DialogInv'
<1>1. /\ dialog = "open" /\ dialog' = "open" /\ target # Null /\ installs = Null /\ installs' = Null
      /\ UNCHANGED <<curseforge, target, fixed, versions, with_deps, content>>
  BY DEF Redraw, DialogInv, SentOnce
<1>2. fixed \in [game : Game \cup {Null}, loader : ModLoader \cup {Null}]  BY DEF DialogInv, HasDialog
<1>3. /\ game' \in [options : SUBSET Game, selected : Game] /\ game'.selected \in game'.options
      /\ fixed.game # Null => game'.options = {fixed.game}
  BY <1>1, GameDrawnFact DEF Redraw
<1>4. PICK g \in Game : g = game'.selected  BY <1>3
<1>5. /\ loader' \in [options : SUBSET (SUBSET ModLoader), selected : (SUBSET ModLoader) \cup {Null}]
      /\ loader'.selected \in loader'.options /\ any_loader' \in BOOLEAN
      /\ fixed.loader # Null => loader'.options = {{fixed.loader}} /\ ~any_loader'
      /\ ~any_loader' => \A option \in loader'.options : \E l \in ModLoader : option = {l}
      /\ any_loader' => OneForAll(g) /\ loader'.options = {UNION matrix(g)}
      /\ loader # NoSelect /\ last_selected.game = g => UNCHANGED <<loader, any_loader>>
  BY <1>4, DrawLoader
<1>6. PICK wanted : wanted = IF any_loader' THEN Null ELSE CHOOSE l \in loader'.selected : TRUE
  OBVIOUS
<1>7. last_selected' = [game |-> g, loader |-> loader'.selected] /\ wanted_loader' = wanted
  <2>1. last_selected' = [game |-> g, loader |-> loader'.selected]  BY <1>4 DEF Redraw
  <2> QED BY <1>6, <2>1 DEF wanted_loader
<1>8. game' # NoSelect /\ loader' # NoSelect  BY <1>3, <1>5 DEF NoSelect, Select
\* The files are for what is fixed, and for what is drawn unless a message says otherwise.
<1>9. /\ fixed.game # Null => g = fixed.game
      /\ fixed.loader # Null => wanted = fixed.loader
  <2>1. ASSUME fixed.loader # Null PROVE wanted = fixed.loader
    <3>1. ~any_loader' /\ loader'.selected = {fixed.loader}  BY <1>5, <2>1
    <3> QED BY <1>6, <3>1
  <2> QED BY <1>3, <1>4, <2>1
<1>10. /\ file_select' \in [options : SUBSET Offered, selected : Offered \cup {Null}]
       /\ file_select'.selected \in file_select'.options \cup {Null} /\ message' \in {"loading", "error", Null}
       /\ \A key \in DOMAIN mod_files' : mod_files'[key] \in {"loading", "loaded", "error"}
       /\ \A f \in file_select'.options :
            /\ message' = Null => IsFor(f, g, wanted)
            /\ fixed.game # Null => fixed.game \in f.games
            /\ fixed.loader # Null => fixed.loader \in f.loaders
  <2>1. /\ file_select \in [options : SUBSET Offered, selected : Offered \cup {Null}]
        /\ message \in {"loading", "error", Null}
        /\ \A key \in DOMAIN mod_files : mod_files[key] \in {"loading", "loaded", "error"}
    BY DEF DialogInv, HasDialog
  <2>2. /\ file_select.selected \in file_select.options \cup {Null}
        /\ \A f \in file_select.options :
             /\ message = Null => IsFor(f, last_selected.game, wanted_loader)
             /\ fixed.game # Null => fixed.game \in f.games
             /\ fixed.loader # Null => fixed.loader \in f.loaders
    BY <1>1 DEF DialogInv, DrawnFits
  <2>3. CASE file_select' = listing(g, wanted) /\ message' \in {message, Null} /\ mod_files' = mod_files
    <3>1. PICK new : new = listing(g, wanted)  OBVIOUS
    <3>2. /\ new \in [options : SUBSET Offered, selected : Offered \cup {Null}]
          /\ new.selected \in new.options \cup {Null}
          /\ \A f \in new.options : f \in Offered /\ IsFor(f, g, wanted)
      BY <3>1, ListingFact
    <3>3. ASSUME NEW f \in new.options
          PROVE  /\ fixed.game # Null => fixed.game \in f.games
                 /\ fixed.loader # Null => fixed.loader \in f.loaders
      <4>1. g \in f.games /\ (wanted = Null \/ wanted \in f.loaders)  BY <3>2 DEF IsFor
      <4> QED BY <1>9, <4>1
    <3> QED BY <2>1, <2>3, <3>1, <3>2, <3>3
  <2>4. CASE /\ file_select' = file_select /\ message' \in {"loading", "error"}
             /\ \A key \in DOMAIN mod_files' : mod_files'[key] \in {"loading", "loaded", "error"}
    <3>1. message' # Null  BY <2>4 DEF FileAssumption
    <3> QED BY <2>1, <2>2, <2>4, <3>1
  <2>5. CASE /\ UNCHANGED <<file_select, mod_files, message>> /\ file_select # NoSelect
             /\ last_selected = [game |-> g, loader |-> loader'.selected]
    <3>1. loader # NoSelect  BY <1>1, <2>5 DEF DialogInv, DrawnFits
    <3>2. any_loader' = any_loader /\ last_selected' = last_selected  BY <1>5, <1>7, <2>5, <3>1
    <3>3. wanted_loader = wanted /\ last_selected.game = g  BY <1>6, <2>5, <3>2 DEF wanted_loader
    <3> QED BY <2>1, <2>2, <2>5, <3>3
  <2> QED BY <1>4, <1>6, <2>3, <2>4, <2>5, DrawFiles
<1>11. PICK f \in Offered \cup {Null} : f = file_select'.selected  BY <1>10
<1>12. drawn' = [game |-> g, loader |-> loader'.selected, file |-> f, requires |-> required(f)]
  BY <1>4, <1>11 DEF Redraw
<1>13. /\ required(f) \subseteq Dependency
       /\ f # Null => /\ required(f) \subseteq f.requires
                      /\ target = "new" => required(f) = f.requires
  <2>1. CASE f = Null  BY <2>1 DEF required
  <2>2. CASE f # Null
    <3>1. f \in Offered /\ f.requires \subseteq Dependency  BY <2>2, OfferedFact
    <3> QED BY <2>2, <3>1 DEF required
  <2> QED BY <2>1, <2>2
<1>14. loader'.selected \in SUBSET ModLoader  BY <1>5
<1>15. drawn' \in Drawn
  BY <1>12, <1>13, <1>14 DEF Drawn
<1>16. drawn' # Null  BY <1>15 DEF FileAssumption
<1>17. HasDialog'
  BY <1>1, <1>3, <1>5, <1>10, <1>15 DEF DialogInv, HasDialog
<1>18. SentOnce' /\ FixedForTarget'
  BY <1>1 DEF DialogInv, SentOnce, FixedForTarget, supported, matrix, fixed_for
<1>19. SelectionsFit'
  <2>1. matrix(g)' = matrix(g)  BY <1>1 DEF matrix
  <2>2. any_loader' => OneForAll(g)'  BY <1>1, <1>5, <2>1 DEF OneForAll
  <2> QED BY <1>1, <1>3, <1>5, <1>7, <2>1, <2>2 DEF SelectionsFit
<1>20. DrawnFits'
  <2>1. /\ last_selected'.game = g /\ last_selected'.loader \in loader'.options
        /\ last_selected' = [game |-> drawn'.game, loader |-> drawn'.loader]
    BY <1>5, <1>7, <1>12
  <2>2. drawn'.file = file_select'.selected /\ drawn'.requires = required(f)  BY <1>11, <1>12
  <2>3. drawn'.file # Null =>
              /\ drawn'.requires \subseteq drawn'.file.requires
              /\ target' = "new" => drawn'.requires = drawn'.file.requires
    BY <1>1, <1>11, <1>13, <2>2
  <2> HIDE DEF required
  <2> QED BY <1>1, <1>7, <1>8, <1>10, <1>16, <2>1, <2>2, <2>3 DEF DrawnFits
<1> QED BY <1>1, <1>17, <1>18, <1>19, <1>20, SentStays DEF DialogInv

LEMMA InstallKeeps ==
  ASSUME FileAssumption, DialogInv, Install
  PROVE  DialogInv'
<1>1. /\ dialog = "open" /\ dialog' = "closed" /\ drawn # Null /\ drawn.file # Null /\ target # Null
      /\ UNCHANGED <<curseforge, target, fixed, versions, mod_files, game, loader, any_loader, file_select,
                     last_selected, message, with_deps, content, drawn>>
  BY DEF Install, DialogInv, SentOnce, Untouched
<1>2. drawn \in Drawn /\ target \in Target  BY <1>1 DEF DialogInv, HasDialog
<1>3. /\ loader # NoSelect /\ last_selected = [game |-> drawn.game, loader |-> drawn.loader]
      /\ last_selected.loader \in loader.options /\ drawn.file \in file_select.options
      /\ drawn.requires \subseteq drawn.file.requires
      /\ target = "new" => drawn.requires = drawn.file.requires
  BY <1>1 DEF DialogInv, DrawnFits
<1>4. PICK f \in Offered : f = drawn.file  BY <1>1, <1>2 DEF Drawn
<1>5. PICK h : h = hint(drawn.loader)  OBVIOUS
<1>6. installs' = [target |-> target, version_hint |-> drawn.game, loader_hint |-> h, file |-> f,
               dependencies |-> IF with_deps THEN drawn.requires ELSE {}]
  BY <1>4, <1>5 DEF Install, content_install
<1>7. h \in ModLoader \cup {Null} /\ (h # Null => drawn.loader = {h})
  <2>1. CASE \E l \in ModLoader : drawn.loader = {l}
    <3>1. PICK l \in ModLoader : drawn.loader = {l}  BY <2>1
    <3>2. h = l  BY <1>5, <3>1 DEF hint
    <3> QED BY <3>1, <3>2
  <2>2. CASE ~\E l \in ModLoader : drawn.loader = {l}  BY <1>5, <2>2 DEF hint
  <2> QED BY <2>1, <2>2
<1>8. installs' \in ContentInstall
  <2>1. drawn.game \in Game /\ drawn.requires \subseteq Dependency  BY <1>2 DEF Drawn
  <2> QED BY <1>2, <1>6, <1>7, <2>1 DEF ContentInstall
<1>9. installs' # Null  BY <1>8 DEF FileAssumption
<1>10. HasDialog'  BY <1>1, <1>8 DEF DialogInv, HasDialog
<1>11. SentOnce' /\ FixedForTarget' /\ SelectionsFit' /\ DrawnFits'
  BY <1>1, <1>9 DEF SentOnce, FixedForTarget, SelectionsFit, DrawnFits
<1>12. FitsTarget'
  <2> SUFFICES ASSUME target \in DOMAIN InstanceEntry
               PROVE  LET i == InstanceEntry[target]
                      IN  IsFor(f, i.game, IF IsMod /\ i.loader # NoLoader THEN i.loader ELSE Null)
    BY <1>6 DEF FitsTarget
  <2>1. fixed = fixed_for(target)  BY <1>1 DEF DialogInv, FixedForTarget
  <2>2. PICK i : i = InstanceEntry[target]  OBVIOUS
  <2>3. i.game \in Nat /\ i.loader \in ModLoader \cup {NoLoader} /\ Null \notin Nat /\ Null \notin ModLoader
    BY <2>2 DEF FileAssumption
  <2>4. /\ fixed.game = i.game
        /\ fixed.loader = IF IsMod /\ i.loader # NoLoader THEN i.loader ELSE Null
    BY <2>1, <2>2 DEF fixed_for
  <2>5. /\ fixed.game # Null => fixed.game \in f.games
        /\ fixed.loader # Null => fixed.loader \in f.loaders
    BY <1>1, <1>3, <1>4 DEF DialogInv, DrawnFits
  <2> QED BY <2>2, <2>3, <2>4, <2>5 DEF IsFor
<1>13. FitsSelection'
  <2> SUFFICES ASSUME message = Null PROVE IsFor(f, drawn.game, h)
    BY <1>1, <1>6 DEF FitsSelection
  <2>1. IsFor(f, last_selected.game, wanted_loader)  BY <1>1, <1>3, <1>4 DEF DialogInv, DrawnFits
  <2>2. last_selected.game = drawn.game /\ last_selected.loader = drawn.loader  BY <1>3
  <2>3. drawn.game \in f.games  BY <2>1, <2>2 DEF IsFor
  <2>4. CASE any_loader
    <3>1. last_selected.game \in Game /\ OneForAll(last_selected.game) /\ last_selected.loader = UNION matrix(last_selected.game)
      BY <1>1, <1>3, <2>4 DEF DialogInv, SelectionsFit
    <3>2. h # Null => h \in f.loaders
      BY <1>7, <2>2, <2>3, <3>1, OneForAllFact
    <3> QED BY <2>3, <3>2 DEF IsFor
  <2>5. CASE ~any_loader
    <3>1. PICK l \in ModLoader : last_selected.loader = {l}
      BY <1>1, <1>3, <2>5 DEF DialogInv, SelectionsFit
    <3>2. wanted_loader = l /\ h = l
      <4>1. wanted_loader = l  BY <2>5, <3>1 DEF wanted_loader
      <4>2. h = l  BY <1>5, <2>2, <3>1 DEF hint
      <4> QED BY <4>1, <4>2
    <3> QED BY <2>1, <2>2, <3>2
  <2> QED BY <2>4, <2>5
<1>14. NeedsAreSent'
  <2>1. installs'.dependencies = (IF with_deps THEN drawn.requires ELSE {}) /\ installs'.file = f /\ installs'.target = target
    BY <1>6
  <2> QED BY <1>1, <1>3, <1>4, <2>1 DEF NeedsAreSent
<1> QED BY <1>10, <1>11, <1>12, <1>13, <1>14 DEF DialogInv, SentFits

\* Every step of a dialog keeps it.
LEMMA DialogStep ==
  ASSUME FileAssumption, DialogInv, [DialogNext]_dialog_vars
  PROVE  DialogInv'
<1>1. CASE UNCHANGED dialog_vars
  <2>1. UNCHANGED <<curseforge, dialog, target, fixed, versions, mod_files, game, loader, any_loader,
                    file_select, last_selected, message, with_deps, content, drawn, installs>>
    BY <1>1 DEF dialog_vars
  <2> QED BY <2>1, KnownKeeps DEF DialogInv, HasDialog
<1>2. CASE DialogNext
  <2>1. CASE \E i \in DOMAIN InstanceEntry \cup {Null} : OpenDialog(i)  BY <2>1, OpenKeeps
  <2>2. CASE VersionsArrive  BY <2>2, VersionsArriveKeeps
  <2>3. CASE \E i \in Target : Choose(i)  BY <2>3, ChooseKeeps
  <2>4. CASE Redraw  BY <2>4, DrawKeeps
  <2>5. CASE Selects  BY <2>5, ClickKeeps
  <2>6. CASE \E key \in DOMAIN mod_files : FilesArrive(key)  BY <2>6, FilesArriveKeeps
  <2>7. CASE ContentIsListed  BY <2>7, ContentArrivesKeeps
  <2>8. CASE Install  BY <2>8, InstallKeeps
  <2>9. CASE Close  BY <2>9, CloseKeeps
  <2> QED BY <1>2, <2>1, <2>2, <2>3, <2>4, <2>5, <2>6, <2>7, <2>8, <2>9 DEF DialogNext
<1> QED BY <1>1, <1>2

\* A dialog that installs a project sends the backend a file that fits the instance it
\* is for and, unless its list is out of date under a message, the version and the
\* loader that were selected, with just what the file requires (modrinth_install.rs and
\* curseforge_install.rs).
THEOREM DialogsFit ==
  ASSUME FileAssumption
  PROVE  DialogSpec => []InstallsFit
<1>1. DialogInit => DialogInv  BY InitDialog
<1>2. DialogInv /\ [DialogNext]_dialog_vars => DialogInv'  BY DialogStep
<1>3. DialogInv => InstallsFit
  BY DEF DialogInv, HasDialog, SentFits, DialogType, InstallsFit
<1> QED BY <1>1, <1>2, <1>3, PTL DEF DialogSpec
=============================================================================
