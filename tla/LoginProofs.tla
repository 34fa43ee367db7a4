---------------------------- MODULE LoginProofs ----------------------------
(***************************************************************************)
(* What holds of Login for any accounts, any number of profile tasks and   *)
(* any number of calls: the state has its types, a login works on the      *)
(* credentials the storage holds, and the loop never runs into the two     *)
(* errors the code calls a bug unless a token expired under it.            *)
(***************************************************************************)
EXTENDS Login, TLAPS

-----------------------------------------------------------------------------
(* The stage is the furthest one there is a token for. *)

LEMMA StageIsFurthest ==
  ASSUME NEW creds \in SUBSET Token
  PROVE  /\ stage(creds) \in AuthStage
         /\ stage(creds) = Initial \/ Uses[stage(creds)] \in creds
         /\ \A t \in 1 .. 5 : Uses[t] \in creds => t <= stage(creds)
<1> DEFINE Is(s) == /\ s = Initial \/ Uses[s] \in creds
                    /\ \A t \in 1 .. 5 : Uses[t] \in creds => t <= s
<1>1. \E s \in AuthStage : Is(s)
  <2>1. CASE Uses[5] \in creds  BY <2>1 DEF AuthStage
  <2>2. CASE Uses[5] \notin creds /\ Uses[4] \in creds  BY <2>2 DEF AuthStage
  <2>3. CASE Uses[5] \notin creds /\ Uses[4] \notin creds /\ Uses[3] \in creds  BY <2>3 DEF AuthStage
  <2>4. CASE Uses[5] \notin creds /\ Uses[4] \notin creds /\ Uses[3] \notin creds /\ Uses[2] \in creds
    BY <2>4 DEF AuthStage
  <2>5. CASE Uses[5] \notin creds /\ Uses[4] \notin creds /\ Uses[3] \notin creds /\ Uses[2] \notin creds
             /\ Uses[1] \in creds
    BY <2>5 DEF AuthStage
  <2>6. CASE \A t \in 1 .. 5 : Uses[t] \notin creds  BY <2>6 DEF AuthStage, Initial
  <2> QED BY <2>1, <2>2, <2>3, <2>4, <2>5, <2>6
<1>2. stage(creds) = CHOOSE s \in AuthStage : Is(s)  BY DEF stage
<1> HIDE DEF Is
<1>3. stage(creds) \in AuthStage /\ Is(stage(creds))  BY <1>1, <1>2
<1> QED BY <1>3 DEF Is

(* A token that is accepted leads forwards, one that is refused backwards. *)
LEMMA AcceptedGoesForwards ==
  ASSUME NEW creds \in SUBSET Token, NEW s \in 0 .. 4, NEW got \in Granted(creds, s)
  PROVE  got \in SUBSET Token /\ s < stage(got)
<1>1. Uses[1] = "msa_refresh" /\ Uses[2] = "msa_access" /\ Uses[1] \in Token /\ Uses[2] \in Token
  BY DEF Uses, Token
<1>2. \A i \in 1 .. 5 : Uses[i] \in Token  BY DEF Token
<1>3. got \in SUBSET Token /\ \E t \in 1 .. 5 : s < t /\ Uses[t] \in got
  <2>1. CASE s \in {0, 1}
    <3>1. got \in {(creds \ {"msa_refresh"}) \cup {"msa_access"} \cup r : r \in {{}, {"msa_refresh"}}}
      BY <2>1 DEF Granted
    <3>2. got \in SUBSET Token  BY <3>1, <1>1
    <3>3. Uses[2] \in got /\ s < 2  BY <3>1, <1>1, <2>1
    <3> QED BY <3>2, <3>3
  <2>2. CASE s \notin {0, 1}
    <3>1. got = creds \cup {Uses[s + 1]}  BY <2>2 DEF Granted
    <3>2. s + 1 \in 1 .. 5 /\ s < s + 1  OBVIOUS
    <3> QED BY <3>1, <3>2, <1>2
  <2> QED BY <2>1, <2>2
<1>4. PICK t \in 1 .. 5 : s < t /\ Uses[t] \in got  BY <1>3
<1>5. t <= stage(got) /\ stage(got) \in 0 .. 5  BY <1>3, <1>4, StageIsFurthest DEF AuthStage
<1> QED BY <1>3, <1>4, <1>5

LEMMA RefusedGoesBackwards ==
  ASSUME NEW creds \in SUBSET Token, stage(creds) # Initial
  PROVE  /\ refused(creds, stage(creds)) \in SUBSET Token
         /\ stage(refused(creds, stage(creds))) < stage(creds)
<1> DEFINE s == stage(creds)
           left == creds \ {Uses[s]}
<1>1. s \in 1 .. 5 /\ \A t \in 1 .. 5 : Uses[t] \in creds => t <= s
  BY StageIsFurthest DEF AuthStage, Initial
<1>2. left \in SUBSET Token  OBVIOUS
<1>3. stage(left) \in 0 .. 5 /\ (stage(left) = 0 \/ Uses[stage(left)] \in left)
  BY <1>2, StageIsFurthest DEF AuthStage, Initial
<1> HIDE DEF s
<1>4. stage(left) < s
  <2>1. CASE stage(left) = 0  BY <2>1, <1>1
  <2>2. CASE stage(left) # 0
    <3>1. stage(left) \in 1 .. 5 /\ Uses[stage(left)] \in creds /\ stage(left) # s  BY <2>2, <1>3
    <3> QED BY <3>1, <1>1
  <2> QED BY <2>1, <2>2
<1> QED BY <1>2, <1>4 DEF refused, s

-----------------------------------------------------------------------------
(* Type correctness. *)

USE DEF Caller, At

LEMMA IdleIsCall == Idle \in Call
BY DEF Idle, Call

LEMMA StoredIsTokens ==
  ASSUME TypeOK, NEW a \in Account \cup {None}
  PROVE  Stored(a) \in SUBSET Token
BY LoginAssumption DEF Stored, TypeOK

(* A call that returns, with a profile or without, leaves the types alone. *)
LEMMA ReturnTyped ==
  ASSUME TypeOK, NEW p \in Caller, login_semaphore # <<>>, Return(p) \/ ReturnProfile(p)
  PROVE  login_semaphore' \in Seq(Caller) /\ call' \in [Caller -> Call]
<1>1. login_semaphore' = Tail(login_semaphore)  BY DEF Return, ReturnProfile
<1>2. Tail(login_semaphore) \in Seq(Caller)  BY DEF TypeOK
<1>3. [Idle EXCEPT !.pc = "post", !.account = call[p].account] \in Call  BY DEF TypeOK, Idle, Call
<1>4. call' \in [Caller -> Call]
  <2>1. CASE Return(p)  BY <2>1, IdleIsCall DEF Return, TypeOK
  <2>2. CASE ReturnProfile(p) /\ call[p].kind = "silent"  BY <2>2, <1>3 DEF ReturnProfile, TypeOK
  <2>3. CASE ReturnProfile(p) /\ call[p].kind # "silent"  BY <2>3, IdleIsCall DEF ReturnProfile, Return, TypeOK
  <2> QED BY <2>1, <2>2, <2>3
<1> QED BY <1>1, <1>2, <1>4

-----------------------------------------------------------------------------
(* The inductive invariant.  Only the head of the semaphore's queue has the  *)
(* permit, and whoever is in a call that needs it is in the queue once.  Of  *)
(* the loop it says where the current stage is with regard to the last one,  *)
(* unless a token has expired since the login began.                         *)

Holding == {"read", "check", "send", "answer", "fail", "store", "write"}

PermitInv ==
  /\ \A p \in Caller : call[p].pc \in Holding => login_semaphore # <<>> /\ Head(login_semaphore) = p
  /\ \A p \in Caller : call[p].pc = "acquire" => login_semaphore # <<>>
  /\ \A i \in 1 .. Len(login_semaphore) : call[login_semaphore[i]].pc \notin {"idle", "post"}
  /\ \A i, j \in 1 .. Len(login_semaphore) : login_semaphore[i] = login_semaphore[j] => i = j
  /\ \A p \in Caller : call[p].pc \in Holding \cup {"acquire"} =>
       \E i \in 1 .. Len(login_semaphore) : login_semaphore[i] = p

Loop(c) ==
  /\ c.kind = "silent" \/ c.pc = "post" => c.account # None
  /\ c.pc \in {"store", "write"} => c.profile # None
  /\ c.pc \in {"acquire", "read"} => c.last = None
  /\ c.error = "auth_flow" => c.aged
  /\ c.pc = "check" /\ c.last # None /\ ~ c.aged =>
       stage(c.creds) # c.last /\ (stage(c.creds) < c.last => c.allow_backwards)
  /\ c.pc \in {"send", "answer"} => c.last # None
  /\ c.pc \in {"send", "answer"} /\ ~ c.aged => c.last = stage(c.creds)
  /\ c.pc = "answer" => c.using # None
  /\ c.pc = "answer" /\ ~ c.aged => c.using = stage(c.creds)

LoopInv == \A p \in Caller : Loop(call[p])

IInv == TypeOK /\ PermitInv /\ CredentialsAreCurrent /\ LoopInv

LEMMA IdleLoops == Loop(Idle)
<1>1. None # "auth_flow" /\ None # "silent"  BY LoginAssumption DEF Error
<1> QED BY <1>1 DEF Loop, Idle

(* A step of one call within the permit. *)
LEMMA StepHolding ==
  ASSUME IInv, NEW p \in Caller, NEW d \in Call, call' = [call EXCEPT ![p] = d],
         UNCHANGED login_semaphore, call[p].pc \in Holding \cup {"acquire"},
         Head(login_semaphore) = p, d.pc \in Holding, Loop(d)
  PROVE  /\ call' \in [Caller -> Call]
         /\ PermitInv' /\ LoopInv'
         /\ \A q \in Caller : q # p => q \notin LoggingIn'
<1>1. call' \in [Caller -> Call]  BY DEF IInv, TypeOK
<1>2. \A q \in Caller : q # p => call'[q] = call[q]  BY DEF IInv, TypeOK
<1>3. call'[p] = d  BY DEF IInv, TypeOK
<1>4. LoopInv'  BY <1>2, <1>3 DEF IInv, LoopInv, Loop
<1>5. login_semaphore # <<>>  BY DEF IInv, PermitInv
<1>6. PermitInv'  BY <1>2, <1>3, <1>5 DEF IInv, PermitInv, Holding, TypeOK
<1>7. \A q \in Caller : q # p => q \notin LoggingIn'
  BY <1>2 DEF IInv, PermitInv, Holding, LoggingIn
<1> QED BY <1>1, <1>4, <1>6, <1>7

(* A call that returns. *)
LEMMA ReturnHolding ==
  ASSUME IInv, NEW p \in Caller, Return(p) \/ ReturnProfile(p),
         call[p].pc \in Holding \cup {"acquire"}, Head(login_semaphore) = p
  PROVE  /\ login_semaphore' \in Seq(Caller) /\ call' \in [Caller -> Call]
         /\ PermitInv' /\ LoopInv' /\ CredentialsAreCurrent'
<1>1. login_semaphore # <<>>  BY DEF IInv, PermitInv
<1>2. login_semaphore' \in Seq(Caller) /\ call' \in [Caller -> Call]
  BY <1>1, ReturnTyped DEF IInv
<1>3. PICK d \in {Idle, [Idle EXCEPT !.pc = "post", !.account = call[p].account]} :
        call' = [call EXCEPT ![p] = d] /\ (d = Idle \/ call[p].kind = "silent")
  BY DEF Return, ReturnProfile
<1>4. login_semaphore' = Tail(login_semaphore)  BY DEF Return, ReturnProfile
<1>5. \A q \in Caller : q # p => call'[q] = call[q]  BY <1>3 DEF IInv, TypeOK
<1>6. call'[p] = d  BY <1>3 DEF IInv, TypeOK
<1>7. d.pc \in {"idle", "post"} /\ Loop(d)
  <2>1. CASE d = Idle  BY <2>1, IdleLoops DEF Idle
  <2>2. CASE d = [Idle EXCEPT !.pc = "post", !.account = call[p].account]
    <3>1. /\ d.pc = "post" /\ d.error = None /\ d.account = call[p].account
          /\ Idle.pc = "idle" /\ d # Idle
      BY <2>2 DEF Idle
    <3>2. call[p].account # None  BY <3>1, <1>3 DEF IInv, LoopInv, Loop
    <3> QED BY <3>1, <3>2, LoginAssumption DEF Loop, Error
  <2> QED BY <2>1, <2>2, <1>3
<1>8. LoopInv'  BY <1>5, <1>6, <1>7 DEF IInv, LoopInv, Loop
<1>9. /\ Len(login_semaphore) \in Nat /\ Len(login_semaphore) # 0
      /\ Len(login_semaphore') = Len(login_semaphore) - 1
      /\ \A i \in 1 .. Len(login_semaphore') : login_semaphore'[i] = login_semaphore[i + 1]
      /\ login_semaphore[1] = p
      /\ \A i \in 1 .. Len(login_semaphore) : login_semaphore[i] \in Caller
  BY <1>1, <1>4 DEF IInv, TypeOK
<1>10. \A q \in Caller : q # p => call[q].pc \notin Holding  BY DEF IInv, PermitInv
<1>11. PermitInv'
  <2>1. \A q \in Caller : call'[q].pc \notin Holding  BY <1>5, <1>6, <1>7, <1>10 DEF Holding
  <2>2. \A q \in Caller : call'[q].pc = "acquire" =>
          \E i \in 1 .. Len(login_semaphore') : login_semaphore'[i] = q
    <3> SUFFICES ASSUME NEW q \in Caller, call'[q].pc = "acquire"
                 PROVE  \E i \in 1 .. Len(login_semaphore') : login_semaphore'[i] = q
      OBVIOUS
    <3>1. q # p  BY <1>6, <1>7
    <3>2. call[q].pc = "acquire"  BY <3>1, <1>5
    <3>3. PICK j \in 1 .. Len(login_semaphore) : login_semaphore[j] = q  BY <3>2 DEF IInv, PermitInv
    <3>4. j # 1  BY <3>1, <3>3, <1>9
    <3>5. j - 1 \in 1 .. Len(login_semaphore') /\ login_semaphore'[j - 1] = q  BY <3>3, <3>4, <1>9
    <3> QED BY <3>5
  <2>3. \A q \in Caller : call'[q].pc = "acquire" => login_semaphore' # <<>>
    BY <2>2, <1>2
  <2>4. \A i \in 1 .. Len(login_semaphore') : i + 1 \in 1 .. Len(login_semaphore) /\ login_semaphore'[i] # p
    BY <1>9 DEF IInv, PermitInv
  <2>5. \A i \in 1 .. Len(login_semaphore') : call'[login_semaphore'[i]].pc \notin {"idle", "post"}
    BY <2>4, <1>5, <1>9 DEF IInv, PermitInv
  <2>6. \A i, j \in 1 .. Len(login_semaphore') : login_semaphore'[i] = login_semaphore'[j] => i = j
    BY <2>4, <1>9 DEF IInv, PermitInv
  <2> QED BY <2>1, <2>2, <2>3, <2>5, <2>6 DEF PermitInv
<1>12. CredentialsAreCurrent'
  BY <1>5, <1>6, <1>7, <1>10 DEF CredentialsAreCurrent, LoggingIn, Holding
<1> QED BY <1>2, <1>8, <1>11, <1>12

(* A call begins. *)
LEMMA BeginHolding ==
  ASSUME IInv, NEW p \in Caller, NEW kind \in {"login", "add", "silent", "profile"},
         NEW a \in Account \cup {None}, Begin(p, kind, a), kind = "silent" => a # None
  PROVE  IInv'
<1>1. CASE UNCHANGED <<call, login_semaphore>>
  <2>1. calls' \in 0 .. MaxCalls  BY LoginAssumption DEF IInv, TypeOK, Begin
  <2>2. UNCHANGED <<secret_storage, cached_profiles, accounts, selected_account, storage_opens>>  BY DEF Begin
  <2>3. TypeOK'  BY <1>1, <2>1, <2>2 DEF IInv, TypeOK
  <2>4. PermitInv'  BY <1>1 DEF IInv, PermitInv
  <2>5. LoopInv'  BY <1>1 DEF IInv, LoopInv
  <2>6. CredentialsAreCurrent'  BY <1>1, <2>2 DEF IInv, CredentialsAreCurrent, LoggingIn, Stored
  <2> QED BY <2>3, <2>4, <2>5, <2>6 DEF IInv
<1>2. CASE ~ UNCHANGED <<call, login_semaphore>>
  <2> DEFINE d == [Idle EXCEPT !.pc = IF permit(p) THEN "read" ELSE "acquire", !.kind = kind, !.account = a]
  <2>1. /\ call' = [call EXCEPT ![p] = d]
        /\ login_semaphore' = Append(login_semaphore, p)
        /\ UNCHANGED <<secret_storage, cached_profiles, accounts, selected_account, storage_opens>>
        /\ calls < MaxCalls /\ calls' = calls + 1
        /\ call[p].pc = "idle"
    BY <1>2 DEF Begin
  <2>2. d \in Call  BY DEF Idle, Call
  <2>3. /\ d.pc = IF login_semaphore = <<>> THEN "read" ELSE "acquire"
        /\ d.error = None /\ d.last = None /\ d.kind = kind /\ d.account = a
    BY DEF Idle, permit
  <2>4. Loop(d)  BY <2>3, LoginAssumption DEF Loop, Error
  <2> HIDE DEF d
  <2>5. call'[p] = d /\ \A q \in Caller : q # p => call'[q] = call[q]  BY <2>1 DEF IInv, TypeOK
  <2>6. TypeOK'
    <3>1. calls' \in 0 .. MaxCalls  BY <2>1, LoginAssumption DEF IInv, TypeOK
    <3>2. call' \in [Caller -> Call]  BY <2>1, <2>2 DEF IInv, TypeOK
    <3>3. login_semaphore' \in Seq(Caller)  BY <2>1 DEF IInv, TypeOK
    <3> QED BY <3>1, <3>2, <3>3, <2>1 DEF IInv, TypeOK
  <2>7. LoopInv'  BY <2>4, <2>5 DEF IInv, LoopInv, Loop
  <2>8. CredentialsAreCurrent'
    BY <2>1, <2>3, <2>5 DEF IInv, CredentialsAreCurrent, LoggingIn, Stored
  <2>9. PermitInv'
    <3>1. /\ Len(login_semaphore) \in Nat
          /\ Len(login_semaphore') = Len(login_semaphore) + 1
          /\ \A i \in 1 .. Len(login_semaphore) : login_semaphore'[i] = login_semaphore[i]
          /\ login_semaphore'[Len(login_semaphore) + 1] = p
          /\ login_semaphore' # <<>>
          /\ login_semaphore = <<>> <=> Len(login_semaphore) = 0
          /\ \A i \in 1 .. Len(login_semaphore) : login_semaphore[i] \in Caller
      BY <2>1 DEF IInv, TypeOK
    <3>2. \A i \in 1 .. Len(login_semaphore) : login_semaphore[i] # p
      BY <2>1 DEF IInv, PermitInv
    <3>3. Head(login_semaphore') = IF login_semaphore = <<>> THEN p ELSE Head(login_semaphore)
      BY <2>1, <3>1 DEF IInv, TypeOK
    <3>4. \A q \in Caller : call'[q].pc \in Holding => Head(login_semaphore') = q
      BY <3>3, <2>3, <2>5 DEF IInv, PermitInv, Holding
    <3>5. \A i \in 1 .. Len(login_semaphore') : call'[login_semaphore'[i]].pc \notin {"idle", "post"}
      <4> SUFFICES ASSUME NEW i \in 1 .. Len(login_semaphore')
                   PROVE  call'[login_semaphore'[i]].pc \notin {"idle", "post"}
        OBVIOUS
      <4>1. CASE i = Len(login_semaphore) + 1  BY <4>1, <3>1, <2>3, <2>5
      <4>2. CASE i # Len(login_semaphore) + 1
        <5>1. i \in 1 .. Len(login_semaphore)  BY <4>2, <3>1
        <5> QED BY <5>1, <3>1, <3>2, <2>5 DEF IInv, PermitInv
      <4> QED BY <4>1, <4>2
    <3>6. \A i, j \in 1 .. Len(login_semaphore') : login_semaphore'[i] = login_semaphore'[j] => i = j
      <4> SUFFICES ASSUME NEW i \in 1 .. Len(login_semaphore'), NEW j \in 1 .. Len(login_semaphore'),
                          login_semaphore'[i] = login_semaphore'[j]
                   PROVE  i = j
        OBVIOUS
      <4>1. i = Len(login_semaphore) + 1 \/ i \in 1 .. Len(login_semaphore)  BY <3>1
      <4>2. j = Len(login_semaphore) + 1 \/ j \in 1 .. Len(login_semaphore)  BY <3>1
      <4> QED BY <4>1, <4>2, <3>1, <3>2 DEF IInv, PermitInv
    <3>7. \A q \in Caller : call'[q].pc \in Holding \cup {"acquire"} =>
            \E i \in 1 .. Len(login_semaphore') : login_semaphore'[i] = q
      <4> SUFFICES ASSUME NEW q \in Caller, call'[q].pc \in Holding \cup {"acquire"}
                   PROVE  \E i \in 1 .. Len(login_semaphore') : login_semaphore'[i] = q
        OBVIOUS
      <4>1. CASE q = p  BY <4>1, <3>1
      <4>2. CASE q # p
        <5>1. PICK i \in 1 .. Len(login_semaphore) : login_semaphore[i] = q
          BY <4>2, <2>5 DEF IInv, PermitInv
        <5> QED BY <5>1, <3>1
      <4> QED BY <4>1, <4>2
    <3> QED BY <3>1, <3>4, <3>5, <3>6, <3>7 DEF PermitInv
  <2> QED BY <2>6, <2>7, <2>8, <2>9 DEF IInv
<1> QED BY <1>1, <1>2

(* A step within the permit that leaves the storage, the account and the     *)
(* credentials the call began with alone.                                    *)
LEMMA StepInside ==
  ASSUME IInv, NEW p \in Caller, NEW d \in Call, call' = [call EXCEPT ![p] = d],
         UNCHANGED <<login_semaphore, storage_opens, secret_storage, cached_profiles, accounts,
                     selected_account, calls>>,
         call[p].pc \in Holding \cup {"acquire"}, Head(login_semaphore) = p, d.pc \in Holding, Loop(d),
         d.pc \in {"check", "send", "answer", "fail", "store"} => d.base = Stored(d.account)
  PROVE  IInv'
<1>1. call' \in [Caller -> Call] /\ PermitInv' /\ LoopInv' /\ \A q \in Caller : q # p => q \notin LoggingIn'
  BY StepHolding
<1>2. call'[p] = d  BY DEF IInv, TypeOK
<1>4. CredentialsAreCurrent'
  <2> SUFFICES ASSUME NEW q \in LoggingIn'  PROVE  (call[q].base = Stored(call[q].account))'
    BY DEF CredentialsAreCurrent
  <2>1. q = p  BY <1>1 DEF LoggingIn
  <2>2. d.pc \in {"check", "send", "answer", "fail", "store"}  BY <2>1, <1>2 DEF LoggingIn
  <2> QED BY <2>1, <2>2, <1>2 DEF Stored
<1>5. TypeOK'  BY <1>1 DEF IInv, TypeOK
<1> QED BY <1>1, <1>4, <1>5 DEF IInv

LEMMA HolderIsHead ==
  ASSUME IInv, NEW p \in Caller, call[p].pc \in Holding
  PROVE  Head(login_semaphore) = p
BY DEF IInv, PermitInv

(* What the invariant says of one call in the loop. *)
LEMMA LoopOf ==
  ASSUME IInv, NEW p \in Caller, call[p].pc \in {"check", "send", "answer", "fail", "store"}
  PROVE  /\ call[p] \in Call /\ Loop(call[p]) /\ call[p].base = Stored(call[p].account)
         /\ call[p].pc \in Holding /\ Head(login_semaphore) = p
<1>1. call[p] \in Call /\ Loop(call[p])  BY DEF IInv, TypeOK, LoopInv
<1>2. p \in LoggingIn  BY DEF LoggingIn
<1>3. call[p].base = Stored(call[p].account)  BY <1>2 DEF IInv, CredentialsAreCurrent
<1>4. call[p].pc \in Holding  BY DEF Holding
<1> QED BY <1>1, <1>3, <1>4, HolderIsHead

(* A call that returns and leaves the rest alone. *)
LEMMA ReturnInside ==
  ASSUME IInv, NEW p \in Caller, Return(p) \/ ReturnProfile(p),
         call[p].pc \in Holding \cup {"acquire"}, Head(login_semaphore) = p,
         UNCHANGED <<storage_opens, secret_storage, cached_profiles, accounts, selected_account, calls>>
  PROVE  IInv'
<1>1. /\ login_semaphore' \in Seq(Caller) /\ call' \in [Caller -> Call]
      /\ PermitInv' /\ LoopInv' /\ CredentialsAreCurrent'
  BY ReturnHolding
<1>2. TypeOK'  BY <1>1 DEF IInv, TypeOK
<1> QED BY <1>1, <1>2 DEF IInv

LEMMA AcquiredKeeps == ASSUME IInv, NEW p \in Caller, Acquired(p) PROVE IInv'
<1>1. CASE Return(p)  BY <1>1, ReturnInside DEF Acquired
<1>2. CASE ~ Return(p)
  <2> DEFINE d == [call[p] EXCEPT !.pc = "read"]
  <2>1. call' = [call EXCEPT ![p] = d]  BY <1>2 DEF Acquired, GoTo
  <2>2. call[p] \in Call /\ Loop(call[p])  BY DEF IInv, TypeOK, LoopInv
  <2>3. /\ d \in Call /\ d.pc = "read" /\ d.kind = call[p].kind /\ d.account = call[p].account /\ d.error = call[p].error /\ d.aged = call[p].aged
        /\ d.last = call[p].last /\ call[p].pc = "acquire"
    BY <2>2 DEF Call, Acquired
  <2>4. Loop(d)  BY <2>2, <2>3 DEF Loop
  <2> HIDE DEF d
  <2> QED BY <1>2, <2>1, <2>3, <2>4, StepInside DEF Acquired, Holding
<1> QED BY <1>1, <1>2

LEMMA ReadCredentialsKeeps == ASSUME IInv, NEW p \in Caller, ReadCredentials(p) PROVE IInv'
<1>1. call[p] \in Call /\ Loop(call[p])  BY DEF IInv, TypeOK, LoopInv
<1>2. call[p].pc = "read" /\ call[p].pc \in Holding /\ Head(login_semaphore) = p
  BY HolderIsHead DEF ReadCredentials, Holding
<1>3. CASE ReturnProfile(p)  BY <1>2, <1>3, ReturnInside DEF ReadCredentials
<1>4. CASE ~ ReturnProfile(p)
  <2>1. PICK creds \in SUBSET Stored(call[p].account) :
          call' = [call EXCEPT ![p] = [call[p] EXCEPT !.pc = "check", !.creds = creds,
                                                     !.base = Stored(call[p].account)]]
    BY <1>4 DEF ReadCredentials
  <2> DEFINE d == [call[p] EXCEPT !.pc = "check", !.creds = creds, !.base = Stored(call[p].account)]
  <2>2. Stored(call[p].account) \in SUBSET Token  BY <1>1, StoredIsTokens DEF IInv, Call
  <2>3. /\ d \in Call /\ d.pc = "check" /\ d.kind = call[p].kind /\ d.account = call[p].account /\ d.error = call[p].error /\ d.aged = call[p].aged
        /\ d.last = call[p].last /\ d.base = Stored(d.account)
    BY <1>1, <2>2 DEF Call
  <2>4. call[p].last = None
    BY <1>2 DEF IInv, LoopInv, Loop
  <2>5. Loop(d)  BY <1>1, <2>3, <2>4 DEF Loop
  <2> HIDE DEF d
  <2> QED BY <1>2, <1>4, <2>1, <2>3, <2>5, StepInside DEF ReadCredentials, Holding, d
<1> QED BY <1>3, <1>4

LEMMA CheckStageKeeps == ASSUME IInv, NEW p \in Caller, CheckStage(p) PROVE IInv'
<1> DEFINE c == call[p]
           now == stage(c.creds)
<1>1. call[p].pc = "check"  BY DEF CheckStage
<1>2. /\ c \in Call /\ Loop(c) /\ c.base = Stored(c.account)
      /\ c.pc \in Holding /\ Head(login_semaphore) = p
  BY <1>1, LoopOf
<1>3. now \in AuthStage /\ now # None  BY <1>2, StageIsFurthest, LoginAssumption DEF Call
<1>4. CASE verdict(c, now) = "go"
  <2> DEFINE d == [c EXCEPT !.pc = "send", !.last = now, !.allow_backwards = backwards_allowed(c, now)]
  <2>1. call' = [call EXCEPT ![p] = d]  BY <1>4 DEF CheckStage
  <2>2. backwards_allowed(c, now) \in BOOLEAN  BY <1>2 DEF backwards_allowed, Call
  <2>3. d \in Call  BY <1>2, <1>3, <2>2 DEF Call
  <2>4. /\ d.pc = "send" /\ d.last = now /\ d.creds = c.creds /\ d.base = c.base
        /\ d.kind = c.kind /\ d.account = c.account /\ d.error = c.error /\ d.aged = c.aged
    BY <1>2 DEF Call
  <2>5. Loop(d)  BY <1>2, <1>3, <2>4 DEF Loop
  <2> HIDE DEF d
  <2> QED BY <1>2, <2>1, <2>3, <2>4, <2>5, StepInside DEF CheckStage, Holding
<1>5. CASE verdict(c, now) # "go"
  <2> DEFINE d == [c EXCEPT !.pc = "fail", !.error = "auth_flow"]
  <2>1. call' = [call EXCEPT ![p] = d]  BY <1>5 DEF CheckStage
  <2>2. d \in Call  BY <1>2 DEF Call, Error
  <2>3. d.pc = "fail" /\ d.base = c.base /\ d.kind = c.kind /\ d.account = c.account /\ d.aged = c.aged  BY <1>2 DEF Call
  <2>4. c.aged
    <3> SUFFICES ASSUME ~ c.aged  PROVE FALSE
      OBVIOUS
    <3>1. c.last # None  BY <1>5 DEF verdict
    <3>2. c.last \in 0 .. 5 /\ now \in 0 .. 5  BY <3>1, <1>2, <1>3 DEF Call, AuthStage
    <3>3. now # c.last /\ (now < c.last => c.allow_backwards)  BY <3>1, <1>1, <1>2 DEF Loop
    <3> QED BY <3>1, <3>2, <3>3, <1>5 DEF verdict
  <2>5. Loop(d)  BY <1>2, <2>3, <2>4 DEF Loop
  <2> HIDE DEF d
  <2> QED BY <1>2, <2>1, <2>2, <2>3, <2>5, StepInside DEF CheckStage, Holding
<1> QED BY <1>4, <1>5

LEMMA SendRequestKeeps == ASSUME IInv, NEW p \in Caller, SendRequest(p) PROVE IInv'
<1> DEFINE c == call[p]
           now == stage(c.creds)
<1>1. call[p].pc = "send"  BY DEF SendRequest
<1>2. /\ c \in Call /\ Loop(c) /\ c.base = Stored(c.account)
      /\ c.pc \in Holding /\ Head(login_semaphore) = p
  BY <1>1, LoopOf
<1>3. now \in AuthStage /\ now # None  BY <1>2, StageIsFurthest, LoginAssumption DEF Call
<1>4. CASE Return(p)  BY <1>2, <1>4, ReturnInside DEF SendRequest
<1>5. CASE ~ Return(p)
  <2> DEFINE d == [c EXCEPT !.pc = "answer", !.using = now]
  <2>1. call' = [call EXCEPT ![p] = d] /\ UNCHANGED login_semaphore  BY <1>5 DEF SendRequest
  <2>2. d \in Call  BY <1>2, <1>3 DEF Call
  <2>3. /\ d.pc = "answer" /\ d.using = now /\ d.last = c.last /\ d.creds = c.creds /\ d.base = c.base
        /\ d.kind = c.kind /\ d.account = c.account /\ d.error = c.error /\ d.aged = c.aged
    BY <1>2 DEF Call
  <2>4. Loop(d)  BY <1>1, <1>2, <1>3, <2>3 DEF Loop
  <2> HIDE DEF d
  <2> QED BY <1>2, <2>1, <2>2, <2>3, <2>4, StepInside DEF SendRequest, Holding
<1> QED BY <1>4, <1>5

LEMMA AcceptedKeeps == ASSUME IInv, NEW p \in Caller, Accepted(p) PROVE IInv'
<1> DEFINE c == call[p]
<1>1. call[p].pc = "answer"  BY DEF Accepted
<1>2. /\ c \in Call /\ Loop(c) /\ c.base = Stored(c.account)
      /\ c.pc \in Holding /\ Head(login_semaphore) = p
  BY <1>1, LoopOf
<1>3. c.using \in AuthStage /\ c.last \in AuthStage  BY <1>1, <1>2 DEF Loop, Call
<1>4. CASE c.using = AccessToken
  <2>1. PICK a \in Account : call' = [call EXCEPT ![p] = [c EXCEPT !.pc = "store", !.profile = a]]
    BY <1>4 DEF Accepted
  <2> DEFINE d == [c EXCEPT !.pc = "store", !.profile = a]
  <2>2. d \in Call  BY <1>2 DEF Call
  <2>3. /\ d.pc = "store" /\ d.profile = a /\ d.base = c.base /\ d.kind = c.kind /\ d.account = c.account /\ d.error = c.error /\ d.aged = c.aged
    BY <1>2 DEF Call
  <2>4. Loop(d)  BY <1>2, <2>3, LoginAssumption DEF Loop
  <2>5. call' = [call EXCEPT ![p] = d]  BY <2>1
  <2> HIDE DEF d
  <2> QED BY <1>2, <2>5, <2>2, <2>3, <2>4, StepInside DEF Accepted, Holding
<1>5. CASE c.using # AccessToken
  <2>1. PICK got \in Granted(c.creds, c.using) :
          call' = [call EXCEPT ![p] = [c EXCEPT !.pc = "check", !.creds = got]]
    BY <1>5 DEF Accepted
  <2> DEFINE d == [c EXCEPT !.pc = "check", !.creds = got]
  <2>2. c.using \in 0 .. 4 /\ c.creds \in SUBSET Token  BY <1>2, <1>3, <1>5 DEF AuthStage, AccessToken, Call
  <2>3. got \in SUBSET Token /\ c.using < stage(got) /\ stage(got) \in AuthStage
    BY <2>2, AcceptedGoesForwards, StageIsFurthest
  <2>4. d \in Call  BY <1>2, <2>3 DEF Call
  <2>5. /\ d.pc = "check" /\ d.creds = got /\ d.last = c.last /\ d.base = c.base /\ d.kind = c.kind /\ d.account = c.account
        /\ d.error = c.error /\ d.aged = c.aged
    BY <1>2 DEF Call
  <2>6. ~ c.aged => c.last = c.using  BY <1>1, <1>2 DEF Loop
  <2>7. ~ d.aged => stage(d.creds) # d.last /\ ~ (stage(d.creds) < d.last)
    BY <2>3, <2>5, <2>6, <1>3 DEF AuthStage
  <2>8. Loop(d)  BY <1>2, <2>5, <2>7 DEF Loop
  <2>9. call' = [call EXCEPT ![p] = d]  BY <2>1
  <2> HIDE DEF d
  <2> QED BY <1>2, <2>9, <2>4, <2>5, <2>8, StepInside DEF Accepted, Holding
<1> QED BY <1>4, <1>5

LEMMA RefusedKeeps == ASSUME IInv, NEW p \in Caller, Refused(p) PROVE IInv'
<1> DEFINE c == call[p]
<1>1. call[p].pc = "answer"  BY DEF Refused
<1>2. /\ c \in Call /\ Loop(c) /\ c.base = Stored(c.account)
      /\ c.pc \in Holding /\ Head(login_semaphore) = p
  BY <1>1, LoopOf
<1>3. c.using \in AuthStage /\ c.last \in AuthStage  BY <1>1, <1>2 DEF Loop, Call
<1>4. CASE c.allow_backwards /\ c.using # Initial
  <2> DEFINE left == refused(c.creds, c.using)
             d == [c EXCEPT !.pc = "check", !.creds = left]
  <2>1. call' = [call EXCEPT ![p] = d]  BY <1>4 DEF Refused
  <2>2. c.creds \in SUBSET Token /\ left \in SUBSET Token  BY <1>2 DEF refused, Call
  <2>3. ~ c.aged => c.using = stage(c.creds) /\ c.last = stage(c.creds)  BY <1>1, <1>2 DEF Loop
  <2>4. ~ c.aged => stage(left) < c.last  BY <1>4, <2>2, <2>3, RefusedGoesBackwards
  <2>5. stage(left) \in AuthStage  BY <2>2, StageIsFurthest
  <2>6. ~ c.aged => stage(left) # c.last  BY <2>4, <2>5, <1>3 DEF AuthStage
  <2> HIDE DEF left
  <2>7. d \in Call  BY <1>2, <2>2 DEF Call
  <2>8. /\ d.pc = "check" /\ d.creds = left /\ d.last = c.last /\ d.base = c.base /\ d.kind = c.kind /\ d.account = c.account
        /\ d.error = c.error /\ d.aged = c.aged /\ d.allow_backwards = c.allow_backwards
    BY <1>2 DEF Call
  <2>9. Loop(d)  BY <1>2, <1>4, <2>6, <2>8 DEF Loop
  <2> HIDE DEF d
  <2> QED BY <1>2, <2>1, <2>7, <2>8, <2>9, StepInside DEF Refused, Holding
<1>5. CASE ~ (c.allow_backwards /\ c.using # Initial)
  <2> DEFINE d == [c EXCEPT !.pc = "fail", !.error = "service"]
  <2>1. call' = [call EXCEPT ![p] = d]  BY <1>5 DEF Refused
  <2>2. d \in Call /\ d.pc = "fail" /\ d.base = c.base /\ d.kind = c.kind /\ d.account = c.account /\ d.error = "service"
    BY <1>2 DEF Call, Error
  <2>3. Loop(d)  BY <1>2, <2>2 DEF Loop
  <2> HIDE DEF d
  <2> QED BY <1>2, <2>1, <2>2, <2>3, StepInside DEF Refused, Holding
<1> QED BY <1>4, <1>5

LEMMA UnreachableKeeps == ASSUME IInv, NEW p \in Caller, Unreachable(p) PROVE IInv'
<1> DEFINE c == call[p]
           d == [c EXCEPT !.pc = "fail", !.error = "connection"]
<1>1. /\ c \in Call /\ Loop(c) /\ c.base = Stored(c.account)
      /\ c.pc \in Holding /\ Head(login_semaphore) = p
  BY LoopOf DEF Unreachable
<1>2. call' = [call EXCEPT ![p] = d]  BY DEF Unreachable
<1>3. d \in Call /\ d.pc = "fail" /\ d.base = c.base /\ d.kind = c.kind /\ d.account = c.account /\ d.error = "connection"
  BY <1>1 DEF Call, Error
<1>4. Loop(d)  BY <1>1, <1>3 DEF Loop
<1> HIDE DEF d
<1> QED BY <1>1, <1>2, <1>3, <1>4, StepInside DEF Unreachable, Holding

LEMMA CancelKeeps == ASSUME IInv, NEW p \in Caller, Cancel(p) PROVE IInv'
<1>1. call[p].pc \in {"check", "answer"}  BY DEF Cancel
<1>2. call[p].pc \in Holding /\ Head(login_semaphore) = p  BY <1>1, LoopOf
<1> QED BY <1>2, ReturnInside DEF Cancel

LEMMA NoStorageKeeps == ASSUME IInv, NEW p \in Caller, NoStorage(p) PROVE IInv'
<1>1. call[p].pc \in {"read", "fail", "store"}  BY DEF NoStorage
<1>2. call[p].pc \in Holding /\ Head(login_semaphore) = p  BY <1>1, HolderIsHead DEF Holding
<1> QED BY <1>2, ReturnInside DEF NoStorage

(* Emptying an entry of the storage, or not. *)
LEMMA EmptiedTyped ==
  ASSUME TypeOK, NEW S \in SUBSET Account,
         secret_storage' \in {secret_storage} \cup {[secret_storage EXCEPT ![a] = {}] : a \in S}
  PROVE  secret_storage' \in [Account -> SUBSET Token]
BY DEF TypeOK

LEMMA FailKeeps == ASSUME IInv, NEW p \in Caller, Fail(p) PROVE IInv'
<1>1. call[p].pc \in Holding /\ Head(login_semaphore) = p  BY HolderIsHead DEF Fail, Holding
<1>2. /\ login_semaphore' \in Seq(Caller) /\ call' \in [Caller -> Call]
      /\ PermitInv' /\ LoopInv' /\ CredentialsAreCurrent'
  BY <1>1, ReturnHolding DEF Fail
<1>3. {call[p].account} \ {None} \in SUBSET Account  BY DEF IInv, TypeOK, Call
<1>4. secret_storage' \in [Account -> SUBSET Token]  BY <1>3, EmptiedTyped DEF Fail, IInv
<1>5. TypeOK'  BY <1>2, <1>4 DEF IInv, TypeOK, Fail
<1> QED BY <1>2, <1>5 DEF IInv

LEMMA StoreKeeps == ASSUME IInv, NEW p \in Caller, Store(p) PROVE IInv'
<1> DEFINE c == call[p]
           d == [c EXCEPT !.pc = "write"]
<1>1. c \in Call /\ Loop(c) /\ c.pc \in Holding /\ Head(login_semaphore) = p
  BY LoopOf DEF Store
<1>2. call' = [call EXCEPT ![p] = d]  BY DEF Store
<1>3. d \in Call /\ d.pc = "write" /\ d.kind = c.kind /\ d.account = c.account
      /\ d.profile = c.profile /\ d.error = c.error /\ d.aged = c.aged
  BY <1>1 DEF Call
<1>4. Loop(d)  BY <1>1, <1>3 DEF Loop, Store
<1> HIDE DEF d
<1>5. /\ call' \in [Caller -> Call] /\ PermitInv' /\ LoopInv'
      /\ \A q \in Caller : q # p => q \notin LoggingIn'
  BY <1>1, <1>2, <1>3, <1>4, StepHolding DEF Store, Holding
<1>6. call'[p].pc = "write"  BY <1>2, <1>3 DEF IInv, TypeOK
<1>7. CredentialsAreCurrent'  BY <1>5, <1>6 DEF CredentialsAreCurrent, LoggingIn
<1>8. {c.account} \ {None, c.profile} \in SUBSET Account /\ c.profile \in Account
  BY <1>1 DEF Call, Loop, Store
<1>9. secret_storage' \in [Account -> SUBSET Token]  BY <1>8, EmptiedTyped DEF Store, IInv
<1>10. TypeOK'  BY <1>5, <1>8, <1>9 DEF IInv, TypeOK, Store
<1> QED BY <1>5, <1>7, <1>10 DEF IInv

LEMMA WriteCredentialsKeeps ==
  ASSUME IInv, NEW p \in Caller, WriteCredentials(p) PROVE IInv'
<1>1. call[p].pc \in Holding /\ Head(login_semaphore) = p  BY HolderIsHead DEF WriteCredentials, Holding
<1>2. /\ login_semaphore' \in Seq(Caller) /\ call' \in [Caller -> Call]
      /\ PermitInv' /\ LoopInv' /\ CredentialsAreCurrent'
  BY <1>1, ReturnHolding DEF WriteCredentials
<1>3. call[p] \in Call  BY DEF IInv, TypeOK
<1>4. call[p].profile \in Account /\ call[p].creds \in SUBSET Token
  BY <1>3 DEF Call, IInv, LoopInv, Loop, WriteCredentials
<1>5. secret_storage' \in [Account -> SUBSET Token]  BY <1>4 DEF WriteCredentials, IInv, TypeOK
<1>6. accounts' \subseteq Account /\ selected_account' \in Account \cup {None}
  BY <1>4 DEF WriteCredentials, update_account_info, IInv, TypeOK
<1>7. TypeOK'  BY <1>2, <1>5, <1>6 DEF IInv, TypeOK, WriteCredentials
<1> QED BY <1>2, <1>7 DEF IInv

LEMMA PostProfileKeeps == ASSUME IInv, NEW p \in Caller, PostProfile(p) PROVE IInv'
<1>1. call' = [call EXCEPT ![p] = Idle] /\ call[p].pc = "post" /\ UNCHANGED login_semaphore
  BY DEF PostProfile
<1>2. call'[p] = Idle /\ \A q \in Caller : q # p => call'[q] = call[q]  BY <1>1 DEF IInv, TypeOK
<1>3. call' \in [Caller -> Call]  BY <1>1, IdleIsCall DEF IInv, TypeOK
<1>4. Idle.pc = "idle"  BY DEF Idle
<1>5. LoopInv'  BY <1>2, IdleLoops DEF IInv, LoopInv, Loop
<1>6. CredentialsAreCurrent'
  BY <1>2, <1>4 DEF PostProfile, IInv, CredentialsAreCurrent, LoggingIn, Stored
<1>7. \A i \in 1 .. Len(login_semaphore) : login_semaphore[i] \in Caller /\ login_semaphore[i] # p
  BY <1>1 DEF IInv, PermitInv, TypeOK
<1>8. PermitInv'  BY <1>1, <1>2, <1>4, <1>7 DEF IInv, PermitInv, Holding
<1>9. call[p].account \in Account  BY <1>1 DEF IInv, TypeOK, Call, LoopInv, Loop
<1>10. TypeOK'  BY <1>1, <1>3, <1>9 DEF IInv, TypeOK, PostProfile
<1> QED BY <1>5, <1>6, <1>8, <1>10 DEF IInv

LEMMA ExpireKeeps == ASSUME IInv, NEW p \in Caller, NEW t \in Token, Expire(p, t) PROVE IInv'
<1> DEFINE c == call[p]
           d == [c EXCEPT !.creds = c.creds \ {t}, !.aged = TRUE]
<1>1. call[p].pc \in {"check", "send", "answer"}  BY DEF Expire
<1>2. /\ c \in Call /\ Loop(c) /\ c.base = Stored(c.account)
      /\ c.pc \in Holding /\ Head(login_semaphore) = p
  BY <1>1, LoopOf
<1>3. call' = [call EXCEPT ![p] = d]  BY DEF Expire
<1>4. c.creds \ {t} \in SUBSET Token  BY <1>2 DEF Call
<1>5. d \in Call  BY <1>2, <1>4 DEF Call
<1>6. /\ d.pc = c.pc /\ d.base = c.base /\ d.kind = c.kind /\ d.account = c.account /\ d.aged = TRUE /\ d.last = c.last
      /\ d.using = c.using
  BY <1>2 DEF Call
<1>7. Loop(d)  BY <1>1, <1>2, <1>6 DEF Loop
<1> HIDE DEF d
<1> QED BY <1>2, <1>3, <1>5, <1>6, <1>7, StepInside DEF Expire

(* The actions that touch no call. *)
LEMMA RestKeeps ==
  ASSUME IInv, UNCHANGED <<call, login_semaphore, storage_opens, secret_storage>>,
         cached_profiles' \subseteq Account, accounts' \subseteq Account,
         selected_account' \in Account \cup {None}, calls' \in 0 .. MaxCalls
  PROVE  IInv'
<1>1. TypeOK'  BY DEF IInv, TypeOK
<1>2. PermitInv' /\ LoopInv'  BY DEF IInv, PermitInv, LoopInv
<1>3. CredentialsAreCurrent'  BY DEF IInv, CredentialsAreCurrent, LoggingIn, Stored
<1> QED BY <1>1, <1>2, <1>3 DEF IInv

-----------------------------------------------------------------------------
(* The theorems. *)

LEMMA InvInit == Init => IInv
<1> SUFFICES ASSUME Init  PROVE IInv
  OBVIOUS
<1>1. TypeOK
  <2>1. secret_storage \in [Account -> SUBSET Token]  BY DEF Init
  <2>2. call \in [Caller -> Call]  BY IdleIsCall DEF Init
  <2>3. calls \in 0 .. MaxCalls  BY LoginAssumption DEF Init
  <2> QED BY <2>1, <2>2, <2>3 DEF Init, TypeOK
<1>2. \A p \in Caller : call[p] = Idle  BY DEF Init
<1>3. Idle.pc = "idle"  BY DEF Idle
<1>4. Len(login_semaphore) = 0  BY DEF Init
<1>5. PermitInv  BY <1>2, <1>3, <1>4 DEF PermitInv, Holding
<1>6. CredentialsAreCurrent  BY <1>2, <1>3 DEF CredentialsAreCurrent, LoggingIn
<1>7. LoopInv  BY <1>2, IdleLoops DEF LoopInv
<1> QED BY <1>1, <1>5, <1>6, <1>7 DEF IInv

LEMMA InvNext == IInv /\ [Next]_vars => IInv'
<1> SUFFICES ASSUME IInv, [Next]_vars  PROVE IInv'
  OBVIOUS
<1>1. ASSUME HandleLogin  PROVE IInv'
  BY <1>1, BeginHolding, LoginAssumption DEF HandleLogin
<1>2. ASSUME NEW p \in Profilers, WantProfile(p)  PROVE IInv'
  BY <1>2, BeginHolding DEF WantProfile
<1>3. ASSUME NEW p \in Caller, Advance(p)  PROVE IInv'
  BY <1>3, AcquiredKeeps, ReadCredentialsKeeps, CheckStageKeeps, SendRequestKeeps, CancelKeeps, AcceptedKeeps,
     RefusedKeeps, UnreachableKeeps, FailKeeps, StoreKeeps, WriteCredentialsKeeps, PostProfileKeeps,
     NoStorageKeeps
  DEF Advance
<1>4. ASSUME NEW p \in Caller, NEW t \in Token, Expire(p, t)  PROVE IInv'
  BY <1>4, ExpireKeeps
<1>5. ASSUME NEW a \in Account,
             DeleteAccount(a) \/ AddOfflineAccount(a) \/ SelectAccount(a) \/ ExpireProfile(a)
      PROVE  IInv'
  <2>1. calls' \in 0 .. MaxCalls
    <3>1. calls' = calls \/ (calls < MaxCalls /\ calls' = calls + 1)
      BY <1>5 DEF DeleteAccount, AddOfflineAccount, SelectAccount, ExpireProfile
    <3> QED BY <3>1, LoginAssumption DEF IInv, TypeOK
  <2>2. /\ cached_profiles' \subseteq Account /\ accounts' \subseteq Account
        /\ selected_account' \in Account \cup {None}
        /\ UNCHANGED <<call, login_semaphore, storage_opens, secret_storage>>
    BY <1>5 DEF DeleteAccount, AddOfflineAccount, update_account_info, SelectAccount, ExpireProfile, IInv, TypeOK,
       selected_without
  <2> QED BY <2>1, <2>2, RestKeeps
<1>6. CASE UNCHANGED vars  BY <1>6, RestKeeps DEF vars, IInv, TypeOK
<1> QED BY <1>1, <1>2, <1>3, <1>4, <1>5, <1>6 DEF Next

LEMMA Invariant == Spec => []IInv
BY InvInit, InvNext, PTL DEF Spec

\* The state of the logins has its types (BackendState::login, login_flow and
\* the other calls, whatever the services answer).
THEOREM TypeCorrect == Spec => []TypeOK
<1>1. IInv => TypeOK  BY DEF IInv
<1> QED BY <1>1, Invariant, PTL

\* One login at a time has the stored credentials in its hands: they are the
\* ones it read until it has stored or deleted them itself.
THEOREM LoginsDoNotOverlap == Spec => []CredentialsAreCurrent
<1>1. IInv => CredentialsAreCurrent  BY DEF IInv
<1> QED BY <1>1, Invariant, PTL

\* The loop of BackendState::login never repeats a stage and never goes back
\* after a step forwards, unless a token expired while it ran.
THEOREM AuthFlowHasNoBug == Spec => []NoAuthFlowBug
<1>1. IInv => NoAuthFlowBug  BY DEF IInv, LoopInv, Loop, NoAuthFlowBug
<1> QED BY <1>1, Invariant, PTL

-----------------------------------------------------------------------------
(* A task that waited looks at the cache again before it reads.  Whatever a  *)
(* call does but begin and get the permit leaves it where it is or past      *)
(* that.                                                                     *)

\* The tasks of Profilers do nothing but ask for profiles.
ProfilersAsk == \A p \in Profilers : call[p].pc = "acquire" => call[p].kind = "profile"

Further(p) == call'[p] = call[p] \/ call'[p].pc \notin {"acquire", "read"}

\* Who returns or is given another stage neither waits nor reads.
LEMMA ReturnsFurther ==
  ASSUME IInv, NEW p \in Caller, NEW q \in Caller, Return(p) \/ ReturnProfile(p)
  PROVE  Further(q)
<1>1. PICK d \in {Idle, [Idle EXCEPT !.pc = "post", !.account = call[p].account]} :
        call' = [call EXCEPT ![p] = d]
  BY DEF Return, ReturnProfile
<1>2. d.pc \in {"idle", "post"}
  <2>1. CASE d = Idle  BY <2>1 DEF Idle
  <2>2. CASE d = [Idle EXCEPT !.pc = "post", !.account = call[p].account]  BY <2>2 DEF Idle
  <2> QED BY <2>1, <2>2
<1>3. CASE q = p  BY <1>1, <1>2, <1>3 DEF Further, IInv, TypeOK
<1>4. CASE q # p  BY <1>1, <1>4 DEF Further, IInv, TypeOK
<1> QED BY <1>3, <1>4

\* A step of one call, to where it neither waits nor reads.
LEMMA GoesFurther ==
  ASSUME IInv, NEW p \in Caller, NEW q \in Caller, NEW d, call' = [call EXCEPT ![p] = d],
         d.pc \notin {"acquire", "read"}
  PROVE  Further(q)
<1>1. CASE q = p  BY <1>1 DEF Further, IInv, TypeOK
<1>2. CASE q # p  BY <1>2 DEF Further, IInv, TypeOK
<1> QED BY <1>1, <1>2

\* What a call does after it has read, or an expiry.
LEMMA LoopGoesFurther ==
  ASSUME IInv, NEW p \in Caller, NEW q \in Caller,
         \/ ReadCredentials(p) \/ CheckStage(p) \/ SendRequest(p) \/ Cancel(p)
         \/ Accepted(p) \/ Refused(p) \/ Unreachable(p)
         \/ Fail(p) \/ Store(p) \/ WriteCredentials(p) \/ PostProfile(p) \/ NoStorage(p)
         \/ \E t \in Token : Expire(p, t)
  PROVE  Further(q)
<1> DEFINE c == call[p]
<1>1. c \in Call  BY DEF IInv, TypeOK
<1>2. \A pc \in {"check", "send", "answer", "fail", "store", "write"} :
        [c EXCEPT !.pc = pc].pc = pc
  BY <1>1 DEF Call
<1>3. ASSUME NEW creds, NEW base PROVE [c EXCEPT !.pc = "check", !.creds = creds, !.base = base].pc = "check"
  BY <1>1 DEF Call
<1>4. ASSUME NEW creds PROVE [c EXCEPT !.pc = "check", !.creds = creds].pc = "check"
  BY <1>1 DEF Call
<1>5. ASSUME NEW last, NEW allow
      PROVE  [c EXCEPT !.pc = "send", !.last = last, !.allow_backwards = allow].pc = "send"
  BY <1>1 DEF Call
<1>6. ASSUME NEW using PROVE [c EXCEPT !.pc = "answer", !.using = using].pc = "answer"
  BY <1>1 DEF Call
<1>7. ASSUME NEW error PROVE [c EXCEPT !.pc = "fail", !.error = error].pc = "fail"
  BY <1>1 DEF Call
<1>8. ASSUME NEW a PROVE [c EXCEPT !.pc = "store", !.profile = a].pc = "store"
  BY <1>1 DEF Call
<1>9. ASSUME NEW t PROVE [c EXCEPT !.creds = @ \ {t}, !.aged = TRUE].pc = c.pc
  BY <1>1 DEF Call
<1>10. Idle.pc = "idle"  BY DEF Idle
<1>11. CASE Return(p) \/ ReturnProfile(p)  BY <1>11, ReturnsFurther
<1>12. CASE ~(Return(p) \/ ReturnProfile(p))
  <2>1. CASE ReadCredentials(p)
    <3>1. PICK creds \in SUBSET Stored(c.account) :
            call' = [call EXCEPT ![p] = [c EXCEPT !.pc = "check", !.creds = creds, !.base = Stored(c.account)]]
      BY <2>1, <1>12 DEF ReadCredentials
    <3> QED BY <3>1, <1>3, GoesFurther
  <2>2. CASE CheckStage(p)
    <3>1. \/ call' = [call EXCEPT ![p] = [c EXCEPT !.pc = "send", !.last = stage(c.creds),
                                         !.allow_backwards = backwards_allowed(c, stage(c.creds))]]
          \/ call' = [call EXCEPT ![p] = [c EXCEPT !.pc = "fail", !.error = "auth_flow"]]
      BY <2>2 DEF CheckStage
    <3> QED BY <3>1, <1>5, <1>7, GoesFurther
  <2>3. CASE SendRequest(p)
    <3>1. call' = [call EXCEPT ![p] = [c EXCEPT !.pc = "answer", !.using = stage(c.creds)]]
      BY <2>3, <1>12 DEF SendRequest
    <3> QED BY <3>1, <1>6, GoesFurther
  <2>4. CASE Accepted(p)
    <3>1. \/ \E a : call' = [call EXCEPT ![p] = [c EXCEPT !.pc = "store", !.profile = a]]
          \/ \E creds : call' = [call EXCEPT ![p] = [c EXCEPT !.pc = "check", !.creds = creds]]
      BY <2>4 DEF Accepted
    <3> QED BY <3>1, <1>4, <1>8, GoesFurther
  <2>5. CASE Refused(p) \/ Unreachable(p)
    <3>1. \/ \E creds : call' = [call EXCEPT ![p] = [c EXCEPT !.pc = "check", !.creds = creds]]
          \/ \E error : call' = [call EXCEPT ![p] = [c EXCEPT !.pc = "fail", !.error = error]]
      BY <2>5 DEF Refused, Unreachable
    <3> QED BY <3>1, <1>4, <1>7, GoesFurther
  <2>6. CASE Store(p)
    <3>1. call' = [call EXCEPT ![p] = [c EXCEPT !.pc = "write"]]  BY <2>6 DEF Store
    <3> QED BY <3>1, <1>2, GoesFurther
  <2>7. CASE PostProfile(p)
    <3>1. call' = [call EXCEPT ![p] = Idle]  BY <2>7 DEF PostProfile
    <3> QED BY <3>1, <1>10, GoesFurther
  <2>8. CASE \E t \in Token : Expire(p, t)
    <3>1. PICK t \in Token : call' = [call EXCEPT ![p] = [c EXCEPT !.creds = @ \ {t}, !.aged = TRUE]]
      BY <2>8 DEF Expire
    <3>2. c.pc \in {"check", "send", "answer"}  BY <2>8 DEF Expire
    <3> QED BY <3>1, <3>2, <1>9, GoesFurther
  <2> QED
    BY <1>12, <2>1, <2>2, <2>3, <2>4, <2>5, <2>6, <2>7, <2>8
    DEF Cancel, Fail, WriteCredentials, NoStorage
<1> QED BY <1>11, <1>12

\* The cache decides when a task of Profilers begins, and again when it gets the permit.
LEMMA ReadsWhenNeeded ==
  ASSUME IInv, ProfilersAsk, [Next]_vars
  PROVE  /\ ProfilersAsk'
         /\ \A p \in Profilers : ~ At(p, "read") /\ At(p, "read")' => call'[p].account \notin cached_profiles
<1> SUFFICES ASSUME NEW p \in Profilers
             PROVE  /\ call'[p].pc = "acquire" => call'[p].kind = "profile"
                    /\ call[p].pc # "read" /\ call'[p].pc = "read" => call'[p].account \notin cached_profiles
  BY DEF ProfilersAsk
<1>1. p \in Caller /\ p # Handler  BY LoginAssumption
<1>2. CASE Further(p)  BY <1>2 DEF Further, ProfilersAsk
<1>3. ASSUME NEW q \in Caller, NEW kind, NEW a, Begin(q, kind, a), q = Handler \/ kind = "profile",
             ~ Further(p)
      PROVE  /\ call'[p].kind = "profile"
             /\ call'[p].pc = "read" => call'[p].account \notin cached_profiles
  <2> DEFINE d == [Idle EXCEPT !.pc = IF permit(q) THEN "read" ELSE "acquire", !.kind = kind, !.account = a]
  <2>1. ~(kind = "profile" /\ a \in cached_profiles) /\ call' = [call EXCEPT ![q] = d]
    BY <1>1, <1>3 DEF Begin, Further
  <2>2. q = p  BY <1>1, <1>3, <2>1 DEF Further, IInv, TypeOK
  <2>3. call'[p] = d  BY <1>1, <2>1, <2>2 DEF IInv, TypeOK
  <2>4. d.kind = kind /\ d.account = a  BY DEF Idle
  <2> QED BY <1>1, <1>3, <2>1, <2>2, <2>3, <2>4
<1>4. CASE HandleLogin
  <2>1. \E kind, a : Begin(Handler, kind, a)  BY <1>4 DEF HandleLogin
  <2> QED BY <1>2, <1>3, <2>1
<1>5. CASE \E q \in Profilers : WantProfile(q)
  <2>1. PICK q \in Profilers, a \in Account : Begin(q, "profile", a)  BY <1>5 DEF WantProfile
  <2> QED BY <1>2, <1>3, <2>1
<1>6. ASSUME NEW q \in Caller, Acquired(q)
      PROVE  /\ call'[p].pc = "acquire" => call'[p].kind = "profile"
             /\ call[p].pc # "read" /\ call'[p].pc = "read" => call'[p].account \notin cached_profiles
  <2>1. CASE Return(q)  BY <1>1, <1>2, <1>6, <2>1, ReturnsFurther
  <2>2. CASE ~ Return(q)
    <3>1. still_needed(q) /\ call[q].pc = "acquire" /\ call' = [call EXCEPT ![q] = [call[q] EXCEPT !.pc = "read"]]
      BY <1>6, <2>2 DEF Acquired, GoTo
    <3>2. CASE q # p
      <4>1. call'[p] = call[p]  BY <1>1, <3>1, <3>2 DEF IInv, TypeOK
      <4> QED BY <4>1, <1>2 DEF Further
    <3>3. CASE q = p
      <4>1. call[p] \in Call /\ call[p].kind = "profile"  BY <1>1, <3>1, <3>3 DEF IInv, TypeOK, ProfilersAsk
      <4>2. call'[p] = [call[p] EXCEPT !.pc = "read"]  BY <1>1, <3>1, <3>3 DEF IInv, TypeOK
      <4>3. call'[p].pc = "read" /\ call'[p].account = call[p].account  BY <4>1, <4>2 DEF Call
      <4> QED BY <3>1, <3>3, <4>1, <4>3 DEF still_needed
    <3> QED BY <3>2, <3>3
  <2> QED BY <2>1, <2>2
<1>7. ASSUME NEW q \in Caller, Advance(q) \/ \E t \in Token : Expire(q, t), ~ Acquired(q)
      PROVE  Further(p)
  BY <1>1, <1>7, LoopGoesFurther DEF Advance
<1>8. CASE UNCHANGED vars \/ \E a \in Account :
             DeleteAccount(a) \/ AddOfflineAccount(a) \/ SelectAccount(a) \/ ExpireProfile(a)
  <2>1. UNCHANGED call
    BY <1>8 DEF vars, DeleteAccount, AddOfflineAccount, SelectAccount, ExpireProfile
  <2> QED BY <2>1, <1>2 DEF Further
<1> QED BY <1>2, <1>4, <1>5, <1>6, <1>7, <1>8 DEF Next

\* A task that waited for another login does not log in again for a profile that has
\* come meanwhile (get_minecraft_profile, backend_handler.rs:1743-1753).
THEOREM NobodyLogsInAgain == Spec => NoRepeatedLogin
<1>1. Init => ProfilersAsk
  <2>1. Idle.pc = "idle"  BY DEF Idle
  <2> QED BY <2>1 DEF Init, ProfilersAsk
<1>2. IInv /\ ProfilersAsk /\ [Next]_vars => ProfilersAsk'  BY ReadsWhenNeeded
<1>3. IInv /\ ProfilersAsk /\ [Next]_vars =>
        [\A p \in Profilers : ~ At(p, "read") /\ At(p, "read")' => call'[p].account \notin cached_profiles]_vars
  BY ReadsWhenNeeded
<1> QED BY <1>1, <1>2, <1>3, Invariant, PTL DEF Spec, NoRepeatedLogin
=============================================================================
