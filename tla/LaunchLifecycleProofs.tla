------------------------- MODULE LaunchLifecycleProofs -------------------------
(***************************************************************************)
(* Proofs about LaunchLifecycle: sessions and processes belong together,   *)
(* an instance counts as launching only while the handler launches it, no  *)
(* time is counted twice, games are known, and the playtime that is shown  *)
(* never goes back, for any number of instances, processes and launches    *)
(* and any bound of the clock.  And about LaunchDownloads: a game is       *)
(* started with all that it needs, for any files.                          *)
(***************************************************************************)
EXTENDS LaunchLifecycle, LaunchDownloads, FiniteSetTheorems, SequenceTheorems, WellFoundedInduction, TLAPS

Stats == [memory : Nat, file : Nat, dirty : BOOLEAN]
Launching == [at : {"login", "prelaunch", "launch", "spawn"}, id : Instance, modal : Modal \cup {None}]
Request == [kind : {"start", "kill"}, id : Instance, modal : Modal \cup {None}]

\* What the backend keeps has its types; what is on its way to the frontend plays
\* no part in the invariants.
BackendTypes ==
  /\ alive \subseteq Instance
  /\ processes \in [Instance -> SUBSET Process]
  /\ keepalive \in [Instance -> {"none", "alive", "dead"}]
  /\ session \in [Instance -> Nat \cup {None}]
  /\ stats \in [Instance -> Stats]
  /\ system \in [Process -> {"unused", "running", "exited"}]
  /\ now \in Nat
  /\ handler \in {Idle} \cup Launching
  /\ inbox \in Seq(Request)

\* The instance that is launched is there: it is removed between messages only.
LaunchedIsThere == handler # Idle => handler.id \in alive

\* The processes of an instance have been started.
HadBegun == \A i \in Instance : \A p \in processes[i] : system[p] # "unused"

\* A session has begun in the past; the file never says more than the memory, so
\* that reading it again adds no playtime.
Played(s, started) ==
  /\ started # None => started <= now
  /\ s.file <= s.memory
  /\ s.memory + current(started) <= now
PlayedInThePast == \A i \in Instance : Played(stats[i], session[i])

IInv ==
  /\ BackendTypes /\ LaunchedIsThere /\ HadBegun /\ PlayedInThePast
  /\ SessionIffProcesses /\ LaunchingIsInHandler

-----------------------------------------------------------------------------
(* The statistics and the session of one instance. *)

\* Reading the statistics again adds no playtime.
LEMMA LoadedAddsNothing ==
  ASSUME now \in Nat, NEW s \in Stats, NEW started \in Nat \cup {None}, Played(s, started)
  PROVE  Loaded(s) \in Stats /\ Played(Loaded(s), started)
<1>1. CASE s.dirty
  <2>1. Loaded(s) = [memory |-> s.file, file |-> s.file, dirty |-> FALSE]  BY <1>1 DEF Loaded, Stats
  <2>2. current(started) \in Nat  BY NoneAssumption DEF current, Played
  <2> QED BY <2>1, <2>2 DEF Played, Stats
<1>2. CASE ~s.dirty  BY <1>2 DEF Loaded
<1> QED BY <1>1, <1>2

\* What the statistics s come to when the session follows the processes.
Closed(s, started, procs, w) ==
  IF Updates(procs, started) THEN Modified(s, elapsed(procs, started), w) ELSE s

\* Playtime that is added is playtime of the session that ends.
LEMMA SessionCloses ==
  ASSUME now \in Nat, NEW s \in Stats, NEW started \in Nat \cup {None}, Played(s, started),
         NEW procs, NEW w \in BOOLEAN
  PROVE  /\ Closed(s, started, procs, w) \in Stats
         /\ update_session(procs, started) \in Nat \cup {None}
         /\ Played(Closed(s, started, procs, w), update_session(procs, started))
         /\ update_session(procs, started) # None <=> procs # {}
<1>1. now # None /\ None \notin Nat  BY NoneAssumption
<1>2. update_session(procs, started) \in Nat \cup {None}  BY DEF update_session
<1>3. update_session(procs, started) # None <=> procs # {}  BY <1>1 DEF update_session
<1> DEFINE new == Closed(s, started, procs, w)
           secs == elapsed(procs, started)
           sum == Loaded(s).memory + secs
<1>4. secs \in Nat /\ Loaded(s) \in Stats /\ Played(Loaded(s), started)
  BY LoadedAddsNothing, <1>1 DEF elapsed, Played
<1>5. sum \in Nat /\ Loaded(s).file <= sum /\ Loaded(s).file \in Nat /\ Loaded(s).dirty \in BOOLEAN
  BY <1>4 DEF Stats, Played
<1>6. Modified(s, secs, w) \in Stats /\ Modified(s, secs, w).memory = sum
        /\ Modified(s, secs, w).file <= sum
  BY <1>4, <1>5 DEF Modified, Stats
<1>7. CASE ~Updates(procs, started)
  <2>1. new = s  BY <1>7 DEF Closed
  <2>2. update_session(procs, started) = started  BY <1>7 DEF Updates, update_session
  <2> QED BY <2>1, <2>2, <1>2, <1>3
<1>8. CASE Updates(procs, started) /\ procs = {}
  <2>1. started \in Nat /\ started <= now /\ secs = now - started /\ current(started) = secs
    BY <1>8 DEF Updates, elapsed, current, Played
  <2>2. sum <= now  BY <1>4, <2>1 DEF Played
  <2>3. update_session(procs, started) = None /\ current(None) = 0  BY <1>8 DEF update_session, current
  <2>4. new = Modified(s, secs, w)  BY <1>8 DEF Closed
  <2>5. new.memory \in Nat  BY <1>6, <2>4 DEF Stats
  <2>6. Played(new, None)  BY <1>6, <2>2, <2>3, <2>4, <2>5, <1>5 DEF Played
  <2> QED BY <1>2, <1>3, <1>6, <2>3, <2>4, <2>6
<1>9. CASE Updates(procs, started) /\ procs # {}
  <2>1. started = None /\ secs = 0 /\ current(None) = 0  BY <1>9 DEF Updates, elapsed, current
  <2>2. update_session(procs, started) = now /\ current(now) = 0
    BY <1>9, <2>1, <1>1 DEF update_session, current
  <2>3. sum <= now  BY <1>4, <1>5, <2>1 DEF Played, Stats
  <2>4. new = Modified(s, secs, w)  BY <1>9 DEF Closed
  <2>5. Played(new, now)  BY <1>6, <2>2, <2>3, <2>4, <1>5 DEF Played
  <2> QED BY <1>2, <1>3, <1>6, <2>2, <2>4, <2>5
<1> QED BY <1>7, <1>8, <1>9
-----------------------------------------------------------------------------
\* Before the first launch.
THEOREM InitIInv == Init => IInv
<1> SUFFICES ASSUME Init PROVE IInv  OBVIOUS
<1> USE DEF Init
<1>1. BackendTypes  BY CountAssumption DEF BackendTypes, Instance, Stats, Idle
<1>2. LaunchedIsThere /\ HadBegun  BY DEF LaunchedIsThere, HadBegun
<1>3. PlayedInThePast  BY DEF PlayedInThePast, Played, current
<1>4. SessionIffProcesses  BY DEF SessionIffProcesses
<1>5. LaunchingIsInHandler
  <2>1. None \notin Instance  BY NoneAssumption, CountAssumption DEF Instance
  <2> QED BY <2>1 DEF LaunchingIsInHandler, Idle
<1> QED BY <1>1, <1>2, <1>3, <1>4, <1>5 DEF IInv

\* What the frontend, the user and the handler's own steps leave alone.
backend == <<alive, processes, keepalive, session, stats, system, now>>

\* The handler goes on with the launch of the same instance.
LEMMA SameLaunch ==
  ASSUME IInv, UNCHANGED backend, inbox' \in Seq(Request),
         handler' \in {Idle} \cup Launching, handler'.id = handler.id, handler' = Idle <=> handler = Idle
  PROVE  IInv'
<1> USE DEF IInv, backend
<1>1. BackendTypes'  BY DEF BackendTypes
<1>2. LaunchedIsThere'  BY DEF LaunchedIsThere
<1>3. HadBegun'  BY DEF HadBegun
<1>4. PlayedInThePast'  BY DEF PlayedInThePast, Played, current
<1>5. SessionIffProcesses' /\ LaunchingIsInHandler'  BY DEF SessionIffProcesses, LaunchingIsInHandler
<1> QED BY <1>1, <1>2, <1>3, <1>4, <1>5

\* The statistics of an instance are read again.
LEMMA Reread ==
  ASSUME IInv, UNCHANGED <<alive, processes, session, system, now>>, NEW i \in Instance,
         NEW s \in Stats, Played(s, session[i]), stats' = [stats EXCEPT ![i] = Loaded(s)]
  PROVE  stats' \in [Instance -> Stats] /\ HadBegun' /\ PlayedInThePast' /\ SessionIffProcesses'
<1> USE DEF IInv, BackendTypes
<1>1. Loaded(s) \in Stats /\ Played(Loaded(s), session[i])  BY LoadedAddsNothing
<1>2. HadBegun' /\ SessionIffProcesses'  BY DEF HadBegun, SessionIffProcesses
<1>3. PlayedInThePast'
  <2> SUFFICES ASSUME NEW k \in Instance PROVE Played(stats[k], session[k])'
    BY DEF PlayedInThePast
  <2>1. Played(stats'[k], session[k])
    <3>1. CASE k = i  BY <3>1, <1>1
    <3>2. CASE k # i  BY <3>2 DEF PlayedInThePast
    <3> QED BY <3>1, <3>2
  <2> QED BY <2>1 DEF Played, current
<1> QED BY <1>1, <1>2, <1>3

\* The launch of an instance that is there ends.
LEMMA LaunchEnds ==
  ASSUME IInv, handler # Idle, EndsWith(TRUE) \/ EndsWith(FALSE)
  PROVE  IInv'
<1> DEFINE i == handler.id
<1> USE DEF IInv
<1>1. i \in alive /\ i \in Instance /\ stats[i] \in Stats /\ Played(stats[i], session[i])
  BY DEF BackendTypes, LaunchedIsThere, PlayedInThePast
<1>2. /\ handler' = Idle
      /\ keepalive' = [keepalive EXCEPT ![i] = "none"]
      /\ stats' = [stats EXCEPT ![i] = Loaded(stats[i])]
      /\ UNCHANGED <<alive, processes, session, system, now, inbox>>
  BY <1>1 DEF EndsWith, Ends, user
<1>3. stats' \in [Instance -> Stats] /\ HadBegun' /\ PlayedInThePast' /\ SessionIffProcesses'
  BY <1>1, <1>2, Reread
<1>4. BackendTypes'  BY <1>1, <1>2, <1>3 DEF BackendTypes
<1>5. LaunchedIsThere'  BY <1>2 DEF LaunchedIsThere
<1>6. LaunchingIsInHandler'
  <2>1. None \notin Instance /\ handler'.id = None
    BY <1>2, NoneAssumption, CountAssumption DEF Instance, Idle
  <2> QED BY <1>1, <1>2, <2>1 DEF LaunchingIsInHandler, BackendTypes
<1> QED BY <1>3, <1>4, <1>5, <1>6
-----------------------------------------------------------------------------
(* The steps that change processes and sessions. *)

\* Instance i gets the processes procs, its session follows, and its statistics are
\* read again.
LEMMA GetsProcesses ==
  ASSUME IInv, UNCHANGED <<alive, now>>, NEW i \in Instance, NEW procs \in SUBSET Process,
         NEW w \in BOOLEAN, SetProcesses(i, procs),
         stats' = [stats EXCEPT ![i] = Loaded(Closed(stats[i], session[i], procs, w))]
  PROVE  /\ processes' \in [Instance -> SUBSET Process]
         /\ session' \in [Instance -> Nat \cup {None}]
         /\ stats' \in [Instance -> Stats]
         /\ PlayedInThePast' /\ SessionIffProcesses'
<1> DEFINE started == update_session(procs, session[i])
           s == Closed(stats[i], session[i], procs, w)
<1> USE DEF IInv, BackendTypes
<1>1. session[i] \in Nat \cup {None} /\ stats[i] \in Stats /\ Played(stats[i], session[i])
  BY DEF PlayedInThePast
<1>2. s \in Stats /\ started \in Nat \cup {None} /\ Played(s, started) /\ (started # None <=> procs # {})
  BY <1>1, SessionCloses
<1>3. /\ processes' = [processes EXCEPT ![i] = procs]
      /\ session' = [session EXCEPT ![i] = started]
      /\ stats' = [stats EXCEPT ![i] = Loaded(s)]
  BY DEF SetProcesses
<1> HIDE DEF started, s
<1>4. Loaded(s) \in Stats /\ Played(Loaded(s), started)  BY <1>2, LoadedAddsNothing
<1>5. SessionIffProcesses'  BY <1>2, <1>3 DEF SessionIffProcesses
<1>6. PlayedInThePast'
  <2> SUFFICES ASSUME NEW k \in Instance PROVE Played(stats[k], session[k])'
    BY DEF PlayedInThePast
  <2>1. Played(stats'[k], session'[k])
    <3>1. CASE k = i  BY <3>1, <1>4, <1>3
    <3>2. CASE k # i  BY <3>2, <1>3 DEF PlayedInThePast
    <3> QED BY <3>1, <3>2
  <2> QED BY <2>1 DEF Played, current
<1> QED BY <1>2, <1>4, <1>3, <1>5, <1>6

\* The process that was spawned joins its instance.
LEMMA GameStarts ==
  ASSUME IInv, NEW p \in Process, LaunchSucceeds(p)
  PROVE  IInv'
<1> DEFINE i == handler.id
           procs == processes[i] \cup {p}
<1> USE DEF IInv
<1>1. handler # Idle  BY DEF LaunchSucceeds, At, Idle
<1>2. i \in alive /\ i \in Instance /\ procs \in SUBSET Process /\ stats[i] \in Stats /\ procs # {}
  BY <1>1 DEF BackendTypes, LaunchedIsThere
<1>3. PICK w \in Written :
        LET s == IF Updates(procs, session[i]) THEN Modified(stats[i], 0, w) ELSE stats[i]
        IN  SetProcesses(i, procs) /\ Ends(procs, update_session(procs, session[i]), s, FALSE)
  BY <1>2 DEF LaunchSucceeds
<1> DEFINE s == IF Updates(procs, session[i]) THEN Modified(stats[i], 0, w) ELSE stats[i]
<1>4. w \in BOOLEAN  BY DEF Written
<1>5. elapsed(procs, session[i]) = 0  BY <1>2 DEF elapsed
<1>6. s = Closed(stats[i], session[i], procs, w)  BY <1>5 DEF Closed
<1>7. /\ handler' = Idle
      /\ keepalive' = [keepalive EXCEPT ![i] = "none"]
      /\ stats' = [stats EXCEPT ![i] = Loaded(Closed(stats[i], session[i], procs, w))]
      /\ SetProcesses(i, procs)
      /\ system' = [system EXCEPT ![p] = "running"]
      /\ UNCHANGED <<alive, now, inbox>>
  BY <1>2, <1>3, <1>6 DEF LaunchSucceeds, Ends, user
<1> HIDE DEF procs, s
<1>8. /\ processes' \in [Instance -> SUBSET Process]
      /\ session' \in [Instance -> Nat \cup {None}]
      /\ stats' \in [Instance -> Stats]
      /\ PlayedInThePast' /\ SessionIffProcesses'
  BY <1>2, <1>4, <1>7, GetsProcesses
<1>9. BackendTypes'  BY <1>2, <1>7, <1>8 DEF BackendTypes
<1>10. LaunchedIsThere'  BY <1>7 DEF LaunchedIsThere
<1>11. HadBegun'  BY <1>2, <1>7 DEF HadBegun, SetProcesses, BackendTypes, procs
<1>12. LaunchingIsInHandler'
  <2>1. None \notin Instance /\ handler'.id = None
    BY <1>7, NoneAssumption, CountAssumption DEF Instance, Idle
  <2> QED BY <1>2, <1>7, <2>1 DEF LaunchingIsInHandler, BackendTypes
<1> QED BY <1>8, <1>9, <1>10, <1>11, <1>12

\* A kill takes all processes and ends the session.
LEMMA GamesAreKilled == ASSUME IInv, KillInstance PROVE IInv'
<1> DEFINE i == Head(inbox).id
<1> USE DEF IInv
<1>1. inbox # <<>> /\ inbox' = Tail(inbox) /\ UNCHANGED <<alive, keepalive, now, handler>>
  BY DEF KillInstance, Receives
<1>2. i \in Instance /\ inbox' \in Seq(Request)
  <2>1. Head(inbox) \in Request /\ Tail(inbox) \in Seq(Request)  BY <1>1 DEF BackendTypes
  <2> QED BY <1>1, <2>1 DEF Request
<1>3. CASE ~(i \in alive /\ processes[i] # {})
  <2>1. UNCHANGED <<processes, session, stats, system>>  BY <1>3 DEF KillInstance
  <2> QED BY <1>1, <1>2, <2>1, SameLaunch DEF backend, BackendTypes
<1>4. CASE i \in alive /\ processes[i] # {}
  <2>1. PICK refusing \in SUBSET processes[i], w \in BOOLEAN :
          /\ system' = [p \in Process |-> IF p \in processes[i] \ refusing THEN "exited" ELSE system[p]]
          /\ SetProcesses(i, {})
          /\ stats' = [stats EXCEPT ![i] = Loaded(Closed(stats[i], session[i], {}, w))]
    <3>1. PICK refusing \in IF KillFails THEN SUBSET processes[i] ELSE {{}}, w \in Written :
            /\ system' = [p \in Process |-> IF p \in processes[i] \ refusing THEN "exited" ELSE system[p]]
            /\ SetProcesses(i, {})
            /\ stats' = [stats EXCEPT ![i] = Loaded(Closed(stats[i], session[i], {}, w))]
      BY <1>4 DEF KillInstance, Closed
    <3>2. refusing \in SUBSET processes[i] /\ w \in BOOLEAN  BY DEF Written
    <3> QED BY <3>1, <3>2
  <2>2. /\ processes' \in [Instance -> SUBSET Process]
        /\ session' \in [Instance -> Nat \cup {None}]
        /\ stats' \in [Instance -> Stats]
        /\ PlayedInThePast' /\ SessionIffProcesses'
    BY <1>1, <1>2, <2>1, GetsProcesses
  <2>3. system' \in [Process -> {"unused", "running", "exited"}]  BY <2>1 DEF BackendTypes
  <2>4. BackendTypes'  BY <1>1, <1>2, <2>2, <2>3 DEF BackendTypes
  <2>5. LaunchedIsThere' /\ LaunchingIsInHandler'  BY <1>1 DEF LaunchedIsThere, LaunchingIsInHandler
  <2>6. HadBegun'  BY <1>2, <2>1 DEF HadBegun, SetProcesses, BackendTypes
  <2> QED BY <2>2, <2>4, <2>5, <2>6
<1> QED BY <1>3, <1>4

\* The tick drops what has exited, instance by instance.
LEMMA TickKeeps == ASSUME IInv, Tick PROVE IInv'
<1> USE DEF IInv
<1>1. UNCHANGED <<alive, keepalive, system, now, handler, inbox>>  BY DEF Tick, user
<1>2. PICK w \in Written :
        LET closes(i) == i \in alive /\ ended(i) /\ Updates(still(i), session[i])
            s(i) == IF closes(i) THEN Modified(stats[i], elapsed(still(i), session[i]), w) ELSE stats[i]
        IN  /\ processes' = [i \in Instance |-> IF i \in alive THEN still(i) ELSE processes[i]]
            /\ session' = [i \in Instance |-> IF i \in alive /\ ended(i)
                                              THEN update_session(still(i), session[i]) ELSE session[i]]
            /\ DOMAIN stats' = Instance
            /\ \A i \in Instance : stats'[i] \in {s(i), Loaded(s(i))}
            /\ stats' = [i \in Instance |-> stats'[i]]
  BY DEF Tick
<1> DEFINE s(i) == IF i \in alive /\ ended(i) /\ Updates(still(i), session[i])
                   THEN Modified(stats[i], elapsed(still(i), session[i]), w) ELSE stats[i]
<1>3. w \in BOOLEAN  BY DEF Written
<1>4. ASSUME NEW i \in Instance
      PROVE  /\ processes'[i] \in SUBSET processes[i]
             /\ session'[i] \in Nat \cup {None}
             /\ stats'[i] \in Stats
             /\ Played(stats'[i], session'[i])
             /\ i \in alive => (session'[i] # None <=> processes'[i] # {})
  <2>1. session[i] \in Nat \cup {None} /\ stats[i] \in Stats /\ Played(stats[i], session[i])
    BY DEF BackendTypes, PlayedInThePast
  <2>2. s(i) \in Stats /\ session'[i] \in Nat \cup {None} /\ Played(s(i), session'[i])
          /\ (i \in alive /\ ended(i) => (session'[i] # None <=> still(i) # {}))
    <3>1. CASE i \in alive /\ ended(i)
      <4>1. session'[i] = update_session(still(i), session[i])  BY <3>1, <1>2
      <4>2. s(i) = Closed(stats[i], session[i], still(i), w)  BY <3>1 DEF Closed
      <4> HIDE DEF s
      <4>3. /\ Closed(stats[i], session[i], still(i), w) \in Stats
            /\ update_session(still(i), session[i]) \in Nat \cup {None}
            /\ Played(Closed(stats[i], session[i], still(i), w), update_session(still(i), session[i]))
            /\ update_session(still(i), session[i]) # None <=> still(i) # {}
        <5>1. now \in Nat  BY DEF BackendTypes
        <5> HIDE DEF IInv
        <5> QED BY ONLY <2>1, <1>3, <5>1, SessionCloses
      <4> QED BY <4>1, <4>2, <4>3
    <3>2. CASE ~(i \in alive /\ ended(i))  BY <3>2, <2>1, <1>2
    <3> QED BY <3>1, <3>2
  <2>3. stats'[i] \in {s(i), Loaded(s(i))}  BY <1>2
  <2>4. Loaded(s(i)) \in Stats /\ Played(Loaded(s(i)), session'[i])
    <3> HIDE DEF s
    <3> QED BY <2>2, LoadedAddsNothing DEF BackendTypes
  <2>5. still(i) \in SUBSET processes[i]  BY DEF still
  <2>6. processes'[i] \in SUBSET processes[i]  BY <1>2, <2>5
  <2>7. ASSUME i \in alive PROVE session'[i] # None <=> processes'[i] # {}
    <3>1. processes'[i] = still(i)  BY <2>7, <1>2
    <3>2. CASE ended(i)  BY <3>1, <3>2, <2>7, <2>2
    <3>3. CASE ~ended(i)
      <4>1. still(i) = processes[i]  BY <3>3 DEF still, ended, HadBegun, BackendTypes
      <4>2. session'[i] = session[i]  BY <3>3, <1>2
      <4> QED BY <3>1, <4>1, <4>2, <2>7 DEF SessionIffProcesses
    <3> QED BY <3>2, <3>3
  <2> HIDE DEF s
  <2> QED BY <2>2, <2>3, <2>4, <2>6, <2>7
<1>5. /\ processes' \in [Instance -> SUBSET Process]
      /\ session' \in [Instance -> Nat \cup {None}]
      /\ stats' \in [Instance -> Stats]
  <2>1. processes' = [i \in Instance |-> processes'[i]] /\ session' = [i \in Instance |-> session'[i]]
          /\ stats' = [i \in Instance |-> stats'[i]]
    BY <1>2
  <2>2. \A i \in Instance : processes[i] \in SUBSET Process  BY DEF BackendTypes
  <2> QED BY <2>1, <2>2, <1>4
<1>6. BackendTypes'  BY <1>1, <1>5 DEF BackendTypes
<1>7. LaunchedIsThere' /\ LaunchingIsInHandler'  BY <1>1 DEF LaunchedIsThere, LaunchingIsInHandler
<1>8. HadBegun'  BY <1>1, <1>4 DEF HadBegun
<1>9. PlayedInThePast'  BY <1>1, <1>4 DEF PlayedInThePast, Played, current
<1>10. SessionIffProcesses'  BY <1>1, <1>4 DEF SessionIffProcesses, BackendTypes
<1> QED BY <1>6, <1>7, <1>8, <1>9, <1>10
-----------------------------------------------------------------------------
(* All steps. *)

\* The next message is a request, and the others still are.
LEMMA RequestIsTaken ==
  ASSUME IInv, inbox # <<>>
  PROVE  Head(inbox) \in Request /\ Tail(inbox) \in Seq(Request) /\ Head(inbox).id \in Instance
<1>1. Head(inbox) \in Request /\ Tail(inbox) \in Seq(Request)  BY DEF IInv, BackendTypes
<1> QED BY <1>1 DEF Request

\* A launch begins.
LEMMA LaunchBegins == ASSUME IInv, StartInstance PROVE IInv'
<1> DEFINE i == Head(inbox).id
<1> USE DEF IInv
<1>1. inbox # <<>> /\ handler = Idle  BY DEF StartInstance, Receives
<1>2. /\ keepalive' = [keepalive EXCEPT ![i] = "alive"]
      /\ stats' = [stats EXCEPT ![i] = Loaded(stats[i])]
      /\ handler' = [at |-> "login", id |-> i, modal |-> Head(inbox).modal]
      /\ inbox' = Tail(inbox)
      /\ UNCHANGED <<alive, processes, session, system, now>>
  BY DEF StartInstance
<1>3. i \in Instance /\ i \in alive /\ handler' \in Launching /\ inbox' \in Seq(Request)
  <2>1. i \in alive  BY DEF StartInstance, refused
  <2>2. Head(inbox).modal \in Modal \cup {None}  BY <1>1, RequestIsTaken DEF Request
  <2> QED BY <1>1, <1>2, <2>1, <2>2, RequestIsTaken DEF Launching
<1>4. stats[i] \in Stats /\ Played(stats[i], session[i])
  BY <1>3 DEF BackendTypes, PlayedInThePast
<1>5. stats' \in [Instance -> Stats] /\ HadBegun' /\ PlayedInThePast' /\ SessionIffProcesses'
  BY <1>2, <1>3, <1>4, Reread
<1>6. BackendTypes'  BY <1>2, <1>3, <1>5 DEF BackendTypes
<1>7. LaunchedIsThere'  BY <1>2, <1>3 DEF LaunchedIsThere
<1>8. LaunchingIsInHandler'
  <2>1. None \notin Instance /\ handler.id = None
    BY <1>1, NoneAssumption, CountAssumption DEF Instance, Idle
  <2> QED BY <1>2, <1>3, <2>1 DEF LaunchingIsInHandler, BackendTypes
<1> QED BY <1>5, <1>6, <1>7, <1>8

\* What the user does.
LEMMA UserKeeps ==
  ASSUME IInv, (\E i \in Instance : ClickStart(i) \/ ClickKill(i)) \/ (\E m \in Modal : ClickCancel(m))
  PROVE  IInv'
<1>1. UNCHANGED backend /\ UNCHANGED handler
  BY DEF ClickStart, ClickKill, ClickCancel, backend, instances
<1>2. inbox' \in Seq(Request)
  <2>1. inbox \in Seq(Request)  BY DEF IInv, BackendTypes
  <2>2. ASSUME NEW i \in Instance, ClickStart(i) PROVE inbox' \in Seq(Request)
    <3>1. PICK m \in Modal : inbox' = Append(inbox, [kind |-> "start", id |-> i, modal |-> m])
      BY <2>2 DEF ClickStart
    <3>2. [kind |-> "start", id |-> i, modal |-> m] \in Request  BY DEF Request
    <3> QED BY <2>1, <3>1, <3>2
  <2>3. ASSUME NEW i \in Instance, ClickKill(i) PROVE inbox' \in Seq(Request)
    <3>1. [kind |-> "kill", id |-> i, modal |-> None] \in Request  BY DEF Request
    <3> QED BY <2>1, <2>3, <3>1 DEF ClickKill
  <2>4. ASSUME NEW m \in Modal, ClickCancel(m) PROVE inbox' \in Seq(Request)
    BY <2>1, <2>4 DEF ClickCancel, user
  <2> QED BY <2>2, <2>3, <2>4
<1> QED BY <1>1, <1>2, SameLaunch DEF IInv, BackendTypes

\* The stages of a launch, and the ways out of it.
LEMMA LaunchKeeps == ASSUME IInv, LaunchStep PROVE IInv'
<1>1. handler # Idle
  <2>1. At("login") \/ At("prelaunch") \/ At("launch") \/ At("spawn")
    <3>1. LaunchFails => At("launch") \/ At("spawn")  BY DEF LaunchFails, At
    <3>2. \A p \in Process : LaunchSucceeds(p) => At("spawn")  BY DEF LaunchSucceeds
    <3> QED
      BY <3>1, <3>2, Zenon
      DEF LaunchStep, LoginSucceeds, LoginFails, PrelaunchSucceeds, PrelaunchFails, PrelaunchCancelled,
          LaunchLoads, LaunchCancelled
  <2> QED BY <2>1 DEF At, Idle
<1>2. CASE \E pc \in {"prelaunch", "launch", "spawn"} :
             Goes(pc) /\ UNCHANGED <<instances, system, now, inbox>>
  <2>1. PICK pc \in {"prelaunch", "launch", "spawn"} :
          Goes(pc) /\ UNCHANGED <<instances, system, now, inbox>>
    BY <1>2
  <2>2. handler \in Launching  BY <1>1 DEF IInv, BackendTypes
  <2>3. handler' \in Launching /\ handler'.id = handler.id  BY <2>1, <2>2 DEF Goes, Launching
  <2>4. handler' # Idle  BY <2>3 DEF Launching, Idle
  <2> QED BY <1>1, <2>1, <2>3, <2>4, SameLaunch DEF IInv, BackendTypes, backend, instances
<1>3. CASE EndsWith(TRUE) \/ EndsWith(FALSE)  BY <1>1, <1>3, LaunchEnds
<1>4. CASE \E p \in Process : LaunchSucceeds(p)  BY <1>4, GameStarts
<1> QED
  BY <1>2, <1>3, <1>4
  DEF LaunchStep, LoginSucceeds, LoginFails, PrelaunchSucceeds, PrelaunchFails, PrelaunchCancelled,
      LaunchLoads, LaunchCancelled, LaunchFails, user

\* The two file events read the statistics again, the removal forgets the session.
LEMMA FileEventKeeps ==
  ASSUME IInv, NEW i \in Instance, StatsChange(i) \/ InfoChange(i) \/ RemoveInstance(i)
  PROVE  IInv'
<1> USE DEF IInv
<1>1. handler = Idle /\ UNCHANGED <<keepalive, system, now, handler, inbox>>
  BY DEF StatsChange, InfoChange, RemoveInstance, user
<1>2. LaunchedIsThere' /\ LaunchingIsInHandler'  BY <1>1 DEF LaunchedIsThere, LaunchingIsInHandler
<1>3. stats[i] \in Stats /\ Played(stats[i], session[i])  BY DEF BackendTypes, PlayedInThePast
<1>4. ASSUME NEW s \in Stats, Played(s, session[i]), stats' = [stats EXCEPT ![i] = Loaded(s)],
             UNCHANGED <<alive, processes, session>>
      PROVE  IInv'
  <2>1. stats' \in [Instance -> Stats] /\ HadBegun' /\ PlayedInThePast' /\ SessionIffProcesses'
    BY <1>1, <1>4, Reread
  <2>2. BackendTypes'  BY <1>1, <1>4, <2>1 DEF BackendTypes
  <2> QED BY <1>2, <2>1, <2>2
<1>5. CASE StatsChange(i) /\ i \in alive
  <2> DEFINE s == [stats[i] EXCEPT !.dirty = TRUE]
  <2>1. s \in Stats /\ s.memory = stats[i].memory /\ s.file = stats[i].file  BY <1>3 DEF Stats
  <2>2. Played(s, session[i])  BY <1>3, <2>1 DEF Played
  <2>3. stats' = [stats EXCEPT ![i] = Loaded(s)] /\ UNCHANGED <<alive, processes, session>>
    BY <1>5 DEF StatsChange
  <2> QED BY <1>4, <2>1, <2>2, <2>3
<1>6. CASE StatsChange(i) /\ i \notin alive
  <2>1. UNCHANGED backend  BY <1>6 DEF StatsChange, backend
  <2> QED BY <1>1, <2>1, SameLaunch DEF BackendTypes
<1>7. CASE InfoChange(i)
  <2>1. stats' = [stats EXCEPT ![i] = Loaded(stats[i])] /\ UNCHANGED <<alive, processes, session>>
    BY <1>7 DEF InfoChange
  <2> QED BY <1>3, <1>4, <2>1
<1>8. CASE RemoveInstance(i)
  <2>1. /\ alive' = alive \ {i}
        /\ processes' = [processes EXCEPT ![i] = {}]
        /\ session' = [session EXCEPT ![i] = None]
        /\ UNCHANGED stats
    BY <1>8 DEF RemoveInstance
  <2>2. BackendTypes'  BY <1>1, <2>1 DEF BackendTypes
  <2>3. HadBegun'  BY <1>1, <2>1 DEF HadBegun, BackendTypes
  <2>4. PlayedInThePast'  BY <1>1, <2>1 DEF PlayedInThePast, Played, current, BackendTypes, Stats
  <2>5. SessionIffProcesses'  BY <2>1 DEF SessionIffProcesses, BackendTypes
  <2> QED BY <1>2, <2>2, <2>3, <2>4, <2>5
<1> QED BY <1>5, <1>6, <1>7, <1>8

\* A game exits, time passes, the frontend reads a message, a start is refused.
LEMMA OthersKeep ==
  ASSUME IInv, (\E p \in Process : Exit(p)) \/ Pass \/ ProcessMessage \/ RefuseStart \/ UNCHANGED vars
  PROVE  IInv'
<1> USE DEF IInv
<1>1. ASSUME NEW p \in Process, Exit(p) PROVE IInv'
  <2>1. /\ system' = [system EXCEPT ![p] = "exited"]
        /\ UNCHANGED <<alive, processes, keepalive, session, stats, now, handler, inbox>>
    BY <1>1 DEF Exit, instances, user
  <2>2. BackendTypes'  BY <2>1 DEF BackendTypes
  <2>3. HadBegun'  BY <2>1 DEF HadBegun, BackendTypes
  <2>4. LaunchedIsThere' /\ LaunchingIsInHandler' /\ SessionIffProcesses'
    BY <2>1 DEF LaunchedIsThere, LaunchingIsInHandler, SessionIffProcesses
  <2>5. PlayedInThePast'  BY <2>1 DEF PlayedInThePast, Played, current
  <2> QED BY <2>2, <2>3, <2>4, <2>5
<1>2. CASE Pass
  <2>1. now' = now + 1 /\ UNCHANGED <<alive, processes, keepalive, session, stats, system, handler, inbox>>
    BY <1>2 DEF Pass, instances, user
  <2>2. BackendTypes'  BY <2>1 DEF BackendTypes
  <2>3. HadBegun' /\ LaunchedIsThere' /\ LaunchingIsInHandler' /\ SessionIffProcesses'
    BY <2>1 DEF HadBegun, LaunchedIsThere, LaunchingIsInHandler, SessionIffProcesses
  <2>4. PlayedInThePast'
    <3> SUFFICES ASSUME NEW i \in Instance PROVE Played(stats[i], session[i])'
      BY DEF PlayedInThePast
    <3>1. Played(stats[i], session[i]) /\ session[i] \in Nat \cup {None} /\ stats[i] \in Stats /\ now \in Nat
      BY DEF PlayedInThePast, BackendTypes
    <3> QED BY <2>1, <3>1 DEF Played, current, Stats
  <2> QED BY <2>2, <2>3, <2>4
<1>3. CASE ProcessMessage \/ UNCHANGED vars
  <2>1. UNCHANGED backend /\ UNCHANGED <<handler, inbox>>
    BY <1>3 DEF ProcessMessage, vars, backend, instances, user
  <2> QED BY <2>1, SameLaunch DEF BackendTypes
<1>4. CASE RefuseStart
  <2>1. inbox # <<>> /\ inbox' = Tail(inbox) /\ UNCHANGED backend /\ UNCHANGED handler
    BY <1>4 DEF RefuseStart, Receives, backend, instances
  <2> QED BY <2>1, RequestIsTaken, SameLaunch DEF BackendTypes
<1> QED BY <1>1, <1>2, <1>3, <1>4

\* Every step of the handler, the tick, the user and the system keeps the invariant.
THEOREM NextIInv == IInv /\ [Next]_vars => IInv'
<1> SUFFICES ASSUME IInv, [Next]_vars PROVE IInv'  OBVIOUS
<1> QED
  BY UserKeeps, FileEventKeeps, LaunchBegins, GamesAreKilled, LaunchKeeps, TickKeeps, OthersKeep
  DEF Next, HandleMessage

\* It holds throughout.
THEOREM Inductive == Spec => []IInv
<1> QED BY InitIInv, NextIInv, PTL DEF Spec

\* An instance has a session exactly while it has processes (update_session,
\* instance.rs:813-836), for any number of instances and processes.
THEOREM SessionsMatchProcesses == Spec => []SessionIffProcesses
<1>1. IInv => SessionIffProcesses  BY DEF IInv
<1> QED BY <1>1, Inductive, PTL

\* An instance counts as launching only while the handler is in its launch (the
\* deferred closure, backend_handler.rs:229-238).
THEOREM LaunchingIsTheHandlers == Spec => []LaunchingIsInHandler
<1>1. IInv => LaunchingIsInHandler  BY DEF IInv
<1> QED BY <1>1, Inductive, PTL

\* The playtime in memory and that of the session, together, never exceed the time
\* that has passed, even if writes fail, instances go and files are read again.
THEOREM NoTimeCountsTwice == Spec => []PlaytimeIsReal
<1>1. IInv => PlaytimeIsReal  BY DEF IInv, PlayedInThePast, Played, PlaytimeIsReal
<1> QED BY <1>1, Inductive, PTL

-----------------------------------------------------------------------------
(* Games are known while instances stay and kills succeed. *)

AllStay == alive = Instance

\* The game that starts, the tick that drops what has ended and the kill leave no
\* running process out (backend.rs:428-437, backend_handler.rs:177-199, 268-286).
LEMMA KnownStep ==
  ASSUME ~Removable, ~KillFails, IInv, AllStay, GamesAreKnown, [Next]_vars
  PROVE  AllStay' /\ GamesAreKnown'
<1>1. AllStay'
  <2>1. alive' = alive
    BY DEF Next, HandleMessage, LaunchStep, ClickStart, ClickKill, ClickCancel, StatsChange, InfoChange,
           RemoveInstance, RefuseStart, StartInstance, KillInstance, LoginSucceeds, LoginFails,
           PrelaunchSucceeds, PrelaunchFails, PrelaunchCancelled, LaunchLoads, LaunchCancelled,
           LaunchFails, LaunchSucceeds, EndsWith, Tick, Exit, Pass, ProcessMessage, instances, vars
  <2> QED BY <2>1 DEF AllStay
<1> SUFFICES ASSUME NEW p \in Process, system'[p] = "running"
             PROVE  \E i \in Instance : p \in processes'[i]
  BY <1>1 DEF GamesAreKnown, AllStay
<1>2. system[p] = "running" => \E i \in Instance : p \in processes[i]
  BY DEF GamesAreKnown, AllStay
<1>3. CASE UNCHANGED <<processes, system>>  BY <1>2, <1>3
<1>4. CASE KillInstance
  <2> DEFINE k == Head(inbox).id
  <2>1. CASE ~(k \in alive /\ processes[k] # {})
    BY <1>3, <2>1, <1>4 DEF KillInstance
  <2>2. CASE k \in alive /\ processes[k] # {}
    <3>1. /\ system' = [q \in Process |-> IF q \in processes[k] THEN "exited" ELSE system[q]]
          /\ processes' = [processes EXCEPT ![k] = {}]
      BY <1>4, <2>2 DEF KillInstance, SetProcesses
    <3>2. p \notin processes[k] /\ system[p] = "running"  BY <3>1
    <3>3. PICK i \in Instance : p \in processes[i]  BY <1>2, <3>2
    <3>4. i # k  BY <3>2, <3>3
    <3> QED BY <3>1, <3>3, <3>4 DEF IInv, BackendTypes
  <2> QED BY <2>1, <2>2
<1>5. CASE Tick
  <2>1. /\ processes' = [i \in Instance |-> IF i \in alive THEN still(i) ELSE processes[i]]
        /\ UNCHANGED system
    BY <1>5 DEF Tick
  <2>2. PICK i \in Instance : p \in processes[i]  BY <1>2, <2>1
  <2> QED BY <2>1, <2>2 DEF still
<1>6. ASSUME NEW q \in Process, LaunchSucceeds(q) PROVE \E i \in Instance : p \in processes'[i]
  <2> DEFINE k == handler.id
  <2>1. handler # Idle  BY <1>6 DEF LaunchSucceeds, At, Idle
  <2>2. k \in alive /\ k \in Instance  BY <2>1 DEF IInv, LaunchedIsThere, BackendTypes
  <2>3. /\ processes' = [processes EXCEPT ![k] = processes[k] \cup {q}]
        /\ system' = [system EXCEPT ![q] = "running"]
    BY <1>6, <2>2 DEF LaunchSucceeds, SetProcesses
  <2>4. CASE p = q  BY <2>2, <2>3, <2>4 DEF IInv, BackendTypes
  <2>5. CASE p # q  BY <1>2, <2>2, <2>3, <2>5 DEF IInv, BackendTypes
  <2> QED BY <2>4, <2>5
<1>7. ASSUME NEW q \in Process, Exit(q) PROVE \E i \in Instance : p \in processes'[i]
  BY <1>2, <1>7 DEF Exit, instances, IInv, BackendTypes
<1>8. CASE (\E i \in Instance : ClickStart(i) \/ ClickKill(i) \/ StatsChange(i) \/ InfoChange(i))
           \/ (\E m \in Modal : ClickCancel(m)) \/ RefuseStart \/ StartInstance \/ Pass \/ ProcessMessage
           \/ UNCHANGED vars
  <2>1. UNCHANGED <<processes, system>>
    BY <1>8 DEF ClickStart, ClickKill, StatsChange, InfoChange, ClickCancel, RefuseStart, StartInstance,
                Pass, ProcessMessage, instances, vars
  <2> QED BY <1>3, <2>1
<1>9. CASE LaunchStep /\ ~ \E q \in Process : LaunchSucceeds(q)
  <2>1. UNCHANGED <<processes, system>>
    BY <1>9 DEF LaunchStep, LoginSucceeds, LoginFails, PrelaunchSucceeds, PrelaunchFails,
                 PrelaunchCancelled, LaunchLoads, LaunchCancelled, LaunchFails, EndsWith, instances
  <2> QED BY <1>3, <2>1
<1>10. ~ \E i \in Instance : RemoveInstance(i)  BY DEF RemoveInstance
<1> QED BY <1>4, <1>5, <1>6, <1>7, <1>8, <1>9, <1>10 DEF Next, HandleMessage

\* A game that runs is one an instance knows of, as long as no instance is removed
\* and no process refuses to be killed.
THEOREM GamesStayKnown == ASSUME ~Removable, ~KillFails PROVE Spec => []GamesAreKnown
<1>1. Init => AllStay /\ GamesAreKnown  BY DEF Init, AllStay, GamesAreKnown
<1>2. IInv /\ AllStay /\ GamesAreKnown /\ [Next]_vars => AllStay' /\ GamesAreKnown'  BY KnownStep
<1> QED BY <1>1, <1>2, Inductive, PTL DEF Spec
-----------------------------------------------------------------------------
(* Sequences of sequences. *)

\* Induction over the numbers, for a set.
LEMMA NumbersAreReached ==
  ASSUME NEW Q, 0 \in Q, \A n \in Nat : n \in Q => n + 1 \in Q
  PROVE  Nat \subseteq Q
<1> SUFFICES ASSUME NEW k \in Nat \ Q PROVE FALSE  OBVIOUS
<1> DEFINE R == StrictSubsetOrdering(Nat)
           F == FiniteSubsetsOf(Nat)
           T == {0 .. n : n \in Nat \ Q}
<1>1. IsWellFoundedOn(R, F)  BY FS_StrictSubsetOrderingWellFounded
<1>2. T \subseteq F
  <2> SUFFICES ASSUME NEW n \in Nat PROVE 0 .. n \in F  OBVIOUS
  <2>1. IsFiniteSet(0 .. n)  BY FS_Interval
  <2> QED BY <2>1 DEF FiniteSubsetsOf
<1>3. T # {}  OBVIOUS
<1>4. \E x \in T : \A y \in T : ~ (<<y, x>> \in R)
  <2> HIDE DEF R, F, T
  <2> QED BY <1>1, <1>2, <1>3, WFMin
<1>5. PICK n \in Nat \ Q : \A y \in T : ~ (<<y, 0 .. n>> \in R)  BY <1>4
<1>6. n # 0 /\ n - 1 \in Nat /\ (n - 1) + 1 = n  OBVIOUS
<1>7. n - 1 \in Nat \ Q  BY <1>6
<1>8. 0 .. (n - 1) \in T  BY <1>7
<1>9. 0 .. (n - 1) \subseteq 0 .. n /\ 0 .. (n - 1) # 0 .. n
  <2>1. n \in 0 .. n /\ n \notin 0 .. (n - 1)  OBVIOUS
  <2> QED BY <2>1
<1>10. <<0 .. (n - 1), 0 .. n>> \in R
  BY <1>9, <1>2, <1>8 DEF StrictSubsetOrdering
<1> QED BY <1>5, <1>8, <1>10

\* What is put together of sequences of S is one of S.
LEMMA FlattenedIsSeq ==
  ASSUME NEW S, NEW seqs \in Seq(Seq(S))
  PROVE  FlattenSeq(seqs) \in Seq(S)
<1> DEFINE n == Len(seqs)
           Flat(f, m) == \A i \in 1 .. m : f[i] = IF i = 1 THEN seqs[i] ELSE f[i - 1] \o seqs[i]
           g == CHOOSE f : f = [i \in 1 .. n |-> IF i = 1 THEN seqs[i] ELSE f[i - 1] \o seqs[i]]
<1>1. n \in Nat /\ \A i \in 1 .. n : seqs[i] \in Seq(S)  OBVIOUS
<1>2. CASE n = 0
  BY <1>2 DEF FlattenSeq
<1>3. CASE n # 0
  <2>1. FlattenSeq(seqs) = g[n]  BY <1>3 DEF FlattenSeq
  <2> DEFINE Q == {m \in Nat : m <= n => \E f \in [1 .. m -> Seq(S)] : Flat(f, m)}
  <2>2. 0 \in Q
    <3>1. [i \in 1 .. 0 |-> <<>>] \in [1 .. 0 -> Seq(S)] /\ Flat([i \in 1 .. 0 |-> <<>>], 0)  OBVIOUS
    <3> QED BY <3>1
  <2>3. ASSUME NEW m \in Nat, m \in Q PROVE m + 1 \in Q
    <3>1. CASE ~ (m + 1 <= n)  BY <3>1
    <3>2. CASE m + 1 <= n
      <4>1. m <= n /\ m + 1 \in Nat /\ m + 1 \in 1 .. n  BY <3>2, <1>1
      <4>2. PICK f \in [1 .. m -> Seq(S)] : Flat(f, m)  BY <2>3, <4>1
      <4> DEFINE last == IF m = 0 THEN seqs[1] ELSE f[m] \o seqs[m + 1]
                 h == [i \in 1 .. (m + 1) |-> IF i = m + 1 THEN last ELSE f[i]]
      <4>3. last \in Seq(S)
        <5>1. CASE m = 0  BY <5>1, <1>1, <1>3
        <5>2. CASE m # 0
          <6>1. f[m] \in Seq(S) /\ seqs[m + 1] \in Seq(S)  BY <5>2, <1>1, <4>1
          <6> QED BY <6>1, <5>2, ConcatProperties
        <5> QED BY <5>1, <5>2
      <4>4. last = IF m + 1 = 1 THEN seqs[m + 1] ELSE f[(m + 1) - 1] \o seqs[m + 1]
        <5>1. (m + 1 = 1 <=> m = 0) /\ (m + 1) - 1 = m  OBVIOUS
        <5>2. CASE m = 0  BY <5>2
        <5>3. CASE m # 0  BY <5>1, <5>3
        <5> QED BY <5>2, <5>3
      <4> HIDE DEF last
      <4>5. h \in [1 .. (m + 1) -> Seq(S)]  BY <4>3
      <4>6. Flat(h, m + 1)
        <5> SUFFICES ASSUME NEW i \in 1 .. (m + 1)
                     PROVE  h[i] = IF i = 1 THEN seqs[i] ELSE h[i - 1] \o seqs[i]
          OBVIOUS
        <5>1. i \in Nat /\ (i # 1 => i - 1 \in 1 .. (m + 1) /\ i - 1 # m + 1 /\ h[i - 1] = f[i - 1])
          OBVIOUS
        <5>2. CASE i = m + 1
          <6>1. h[i] = last  BY <5>2
          <6>2. i # 1 => h[i - 1] = f[i - 1]  BY <5>1
          <6> QED BY <6>1, <6>2, <5>2, <4>4
        <5>3. CASE i # m + 1
          <6>1. i \in 1 .. m /\ h[i] = f[i]  BY <5>3
          <6>2. f[i] = IF i = 1 THEN seqs[i] ELSE f[i - 1] \o seqs[i]  BY <6>1, <4>2
          <6>3. CASE i = 1  BY <6>1, <6>2, <6>3
          <6>4. CASE i # 1
            <7>1. h[i - 1] = f[i - 1]  BY <5>1, <6>4
            <7> HIDE DEF h
            <7> QED BY <6>1, <6>2, <6>4, <7>1
          <6> QED BY <6>3, <6>4
        <5> QED BY <5>2, <5>3
      <4>7. \E f1 \in [1 .. (m + 1) -> Seq(S)] : Flat(f1, m + 1)
        <5> HIDE DEF h, Flat
        <5> QED BY <4>5, <4>6
      <4> QED BY <4>1, <4>7
    <3> QED BY <3>1, <3>2
  <2>4. n \in Q
    <3> HIDE DEF Q
    <3> QED BY <2>2, <2>3, <1>1, NumbersAreReached
  <2>5. PICK f \in [1 .. n -> Seq(S)] : Flat(f, n)  BY <2>4, <1>1
  <2>6. f = [i \in 1 .. n |-> IF i = 1 THEN seqs[i] ELSE f[i - 1] \o seqs[i]]  BY <2>5
  <2>7. g = [i \in 1 .. n |-> IF i = 1 THEN seqs[i] ELSE g[i - 1] \o seqs[i]]
    BY <2>6
  <2> DEFINE P == {m \in Nat : m + 1 <= n => g[m + 1] \in Seq(S)}
  <2> HIDE DEF g
  <2>8. 0 \in P  BY <1>1, <1>3, <2>7
  <2>9. ASSUME NEW m \in Nat, m \in P PROVE m + 1 \in P
    <3>1. CASE ~ ((m + 1) + 1 <= n)  BY <3>1
    <3>2. CASE (m + 1) + 1 <= n
      <4> DEFINE k == (m + 1) + 1
      <4>1. k \in 1 .. n /\ k # 1 /\ k - 1 = m + 1 /\ m + 1 <= n /\ m + 1 \in Nat  BY <3>2, <1>1
      <4>2. g[m + 1] \in Seq(S) /\ seqs[k] \in Seq(S)  BY <2>9, <1>1, <4>1
      <4> HIDE DEF k
      <4>3. g[k] = IF k = 1 THEN seqs[k] ELSE g[k - 1] \o seqs[k]  BY <2>7, <4>1
      <4>4. g[k] = g[m + 1] \o seqs[k]  BY <4>3, <4>1
      <4>5. g[k] \in Seq(S)  BY <4>2, <4>4, ConcatProperties
      <4> QED BY <4>5, <4>1 DEF k
    <3> QED BY <3>1, <3>2
  <2>10. n - 1 \in P
    <3> HIDE DEF P
    <3>1. n - 1 \in Nat  BY <1>1, <1>3
    <3> QED BY <2>8, <2>9, <3>1, NumbersAreReached
  <2> QED BY <2>1, <2>10, <1>1
<1> QED BY <1>2, <1>3
-----------------------------------------------------------------------------
(* Playtime that is shown. *)

\* What an instance has been played for.
Total == [i \in Instance |-> stats[i].memory + current(session[i])]

\* What is said of an instance as it is now, or that it has gone.
Shows(m) == m.kind # "removed"
Told == {m \in Message : Shows(m) => m.id \in alive /\ m.playtime = Total[m.id]}

\* Nothing is lost between the memory and the file; what is shown and what is on
\* its way has been true in this order.
FilesAreWritten == \A i \in Instance : stats[i].file = stats[i].memory
ShownWasTrue == \A i \in alive : playtime[i] <= Total[i]
NewerThanShown == \A k \in 1 .. Len(outbox) :
  Shows(outbox[k]) => playtime[outbox[k].id] <= outbox[k].playtime
WasTrue == \A k \in 1 .. Len(outbox) :
  Shows(outbox[k]) /\ outbox[k].id \in alive => outbox[k].playtime <= Total[outbox[k].id]
InOrder == \A k \in 1 .. Len(outbox) : \A j \in 1 .. Len(outbox) :
  j < k /\ Shows(outbox[j]) /\ Shows(outbox[k]) /\ outbox[j].id = outbox[k].id
    => outbox[j].playtime <= outbox[k].playtime
PlaytimeInv ==
  /\ outbox \in Seq(Message) /\ playtime \in [Instance -> Nat]
  /\ FilesAreWritten /\ ShownWasTrue /\ NewerThanShown /\ WasTrue /\ InOrder

LEMMA TotalIsNat == ASSUME IInv PROVE Total \in [Instance -> Nat]
<1> SUFFICES ASSUME NEW i \in Instance PROVE stats[i].memory + current(session[i]) \in Nat
  BY DEF Total
<1>1. stats[i] \in Stats /\ session[i] \in Nat \cup {None} /\ Played(stats[i], session[i]) /\ now \in Nat
  BY DEF IInv, BackendTypes, PlayedInThePast
<1>2. stats[i].memory \in Nat  BY <1>1 DEF Stats
<1>3. current(session[i]) \in Nat  BY <1>1, NoneAssumption DEF current, Played
<1> QED BY <1>2, <1>3

\* What is said now comes after all that has been said.
LEMMA ToldInOrder ==
  ASSUME IInv, IInv', PlaytimeInv, alive' \subseteq alive, FilesAreWritten', UNCHANGED playtime,
         \A i \in alive' : Total[i] <= Total'[i],
         NEW new, new \in Seq(Told'), outbox' = outbox \o new
  PROVE  PlaytimeInv'
<1>1. /\ outbox \in Seq(Message) /\ playtime \in [Instance -> Nat]
      /\ ShownWasTrue /\ NewerThanShown /\ WasTrue /\ InOrder
  BY DEF PlaytimeInv
<1>2. alive \subseteq Instance  BY DEF IInv, BackendTypes
<1>3. \A i \in alive' : Total[i] \in Nat /\ Total'[i] \in Nat
  <2>1. Total \in [Instance -> Nat]  BY TotalIsNat
  <2>2. Total' \in [Instance -> Nat]
    <3> SUFFICES ASSUME NEW i \in Instance PROVE stats'[i].memory + current(session[i])' \in Nat
      BY DEF Total
    <3>1. stats'[i] \in Stats /\ session'[i] \in Nat \cup {None} /\ Played(stats[i], session[i])' /\ now' \in Nat
      BY DEF IInv, BackendTypes, PlayedInThePast
    <3>2. stats'[i].memory \in Nat  BY <3>1 DEF Stats
    <3>3. current(session[i])' \in Nat  BY <3>1, NoneAssumption DEF current, Played
    <3> QED BY <3>2, <3>3
  <2> QED BY <1>2, <2>1, <2>2
<1> DEFINE n == Len(outbox)
<1>4. /\ n \in Nat /\ Len(new) \in Nat /\ Len(outbox') = n + Len(new)
      /\ \A k \in 1 .. n : outbox'[k] = outbox[k]
      /\ \A k \in 1 .. Len(outbox') : k > n => k - n \in 1 .. Len(new) /\ outbox'[k] = new[k - n]
  BY <1>1
<1>5. \A k \in 1 .. Len(new) :
        new[k] \in Message /\ (Shows(new[k]) => new[k].id \in alive' /\ new[k].playtime = Total'[new[k].id])
  <2>1. \A k \in 1 .. Len(new) : new[k] \in Told'  OBVIOUS
  <2>2. \A m \in Told' : m \in Message /\ (Shows(m) => m.id \in alive' /\ m.playtime = Total'[m.id])
    BY DEF Told
  <2> QED BY <2>1, <2>2
<1>6. \A k \in 1 .. n : outbox[k] \in Message /\ outbox[k].id \in Instance /\ outbox[k].playtime \in Nat
  <2>1. \A k \in 1 .. n : outbox[k] \in Message  BY <1>1
  <2> QED BY <2>1 DEF Message
<1>7. outbox' \in Seq(Message)
  <2>1. new \in Seq(Message)  BY <1>5
  <2> QED BY <1>1, <2>1, ConcatProperties
<1>8. ShownWasTrue'
  <2> SUFFICES ASSUME NEW i \in alive' PROVE playtime[i] <= Total'[i]  BY DEF ShownWasTrue
  <2>1. playtime[i] \in Nat /\ playtime[i] <= Total[i]  BY <1>1, <1>2 DEF ShownWasTrue
  <2> QED BY <2>1, <1>3
<1>9. NewerThanShown'
  <2> SUFFICES ASSUME NEW k \in 1 .. Len(outbox'), Shows(outbox'[k])
               PROVE  playtime[outbox'[k].id] <= outbox'[k].playtime
    BY DEF NewerThanShown
  <2>1. CASE k <= n  BY <2>1, <1>1, <1>4 DEF NewerThanShown
  <2>2. CASE k > n
    <3> DEFINE m == outbox'[k]
    <3>1. m.id \in alive' /\ m.playtime = Total'[m.id]  BY <1>4, <1>5, <2>2
    <3>2. playtime[m.id] <= Total'[m.id]  BY <3>1, <1>8 DEF ShownWasTrue
    <3> QED BY <3>1, <3>2
  <2> QED BY <1>4, <2>1, <2>2
<1>10. WasTrue'
  <2> SUFFICES ASSUME NEW k \in 1 .. Len(outbox'), Shows(outbox'[k]), outbox'[k].id \in alive'
               PROVE  outbox'[k].playtime <= Total'[outbox'[k].id]
    BY DEF WasTrue
  <2> DEFINE m == outbox'[k]
  <2>1. CASE k <= n
    <3>1. m = outbox[k] /\ k \in 1 .. n  BY <2>1, <1>4
    <3>2. m.playtime <= Total[m.id] /\ m.playtime \in Nat  BY <3>1, <1>1, <1>6 DEF WasTrue
    <3>3. Total[m.id] <= Total'[m.id] /\ Total[m.id] \in Nat /\ Total'[m.id] \in Nat  BY <1>3
    <3> HIDE DEF m
    <3> QED BY <3>2, <3>3 DEF m
  <2>2. CASE k > n
    <3>1. m.playtime = Total'[m.id] /\ Total'[m.id] \in Nat  BY <1>3, <1>4, <1>5, <2>2
    <3> QED BY <3>1
  <2> QED BY <1>4, <2>1, <2>2
<1>11. InOrder'
  <2> SUFFICES ASSUME NEW k \in 1 .. Len(outbox'), NEW j \in 1 .. Len(outbox'), j < k,
                      Shows(outbox'[j]), Shows(outbox'[k]), outbox'[j].id = outbox'[k].id
               PROVE  outbox'[j].playtime <= outbox'[k].playtime
    BY DEF InOrder
  <2>1. CASE k <= n
    <3>1. k \in 1 .. n /\ j \in 1 .. n /\ outbox'[k] = outbox[k] /\ outbox'[j] = outbox[j]
      BY <2>1, <1>4
    <3> QED BY <3>1, <1>1 DEF InOrder
  <2>2. CASE k > n
    <3>1. outbox'[k].id \in alive' /\ outbox'[k].playtime = Total'[outbox'[k].id]
      BY <1>4, <1>5, <2>2
    <3>2. outbox'[j].playtime <= Total'[outbox'[j].id]
      BY <1>10, <3>1 DEF WasTrue
    <3> QED BY <3>1, <3>2
  <2> QED BY <1>4, <2>1, <2>2
<1> QED BY <1>1, <1>7, <1>8, <1>9, <1>10, <1>11 DEF PlaytimeInv

\* Nothing is said.
LEMMA NothingIsTold ==
  ASSUME IInv, IInv', PlaytimeInv, UNCHANGED <<alive, stats, playtime, outbox>>,
         \A i \in alive : Total[i] <= Total'[i]
  PROVE  PlaytimeInv'
<1>1. FilesAreWritten'  BY DEF PlaytimeInv, FilesAreWritten
<1>2. <<>> \in Seq(Told') /\ outbox' = outbox \o <<>>  BY DEF PlaytimeInv
<1>3. alive' \subseteq alive /\ \A i \in alive' : Total[i] <= Total'[i]  OBVIOUS
<1> QED BY <1>1, <1>2, <1>3, ToldInOrder

LEMMA LoadedIsSame ==
  ASSUME NEW s \in Stats, s.file = s.memory
  PROVE  Loaded(s) \in Stats /\ Loaded(s).memory = s.memory /\ Loaded(s).file = s.memory
<1>1. CASE s.dirty
  <2>1. Loaded(s) = [memory |-> s.file, file |-> s.file, dirty |-> FALSE]  BY <1>1 DEF Loaded, Stats
  <2> QED BY <2>1 DEF Stats
<1>2. CASE ~s.dirty  BY <1>2 DEF Loaded
<1> QED BY <1>1, <1>2

\* An instance is played for as long when its session has ended, or begun.
LEMMA ClosingKeeps ==
  ASSUME now \in Nat, NEW s \in Stats, s.file = s.memory, NEW started \in Nat \cup {None},
         Played(s, started), NEW procs
  PROVE  /\ Closed(s, started, procs, TRUE).file = Closed(s, started, procs, TRUE).memory
         /\ Closed(s, started, procs, TRUE).memory + current(update_session(procs, started))
              = s.memory + current(started)
<1> DEFINE secs == elapsed(procs, started)
           sum == Loaded(s).memory + secs
           new == Closed(s, started, procs, TRUE)
<1>1. now # None /\ None \notin Nat  BY NoneAssumption
<1>2. s.memory \in Nat /\ Loaded(s).memory = s.memory  BY LoadedIsSame DEF Stats
<1>3. CASE ~Updates(procs, started)
  <2>1. new = s  BY <1>3 DEF Closed
  <2>2. update_session(procs, started) = started  BY <1>3 DEF Updates, update_session
  <2> QED BY <2>1, <2>2
<1>4. CASE Updates(procs, started)
  <2>1. new = [memory |-> sum, file |-> sum, dirty |-> TRUE]  BY <1>4 DEF Closed, Modified
  <2>2. new.file = sum /\ new.memory = sum
    <3> HIDE DEF new, sum
    <3> QED BY <2>1
  <2>3. secs + current(update_session(procs, started)) = current(started) /\ secs \in Nat
          /\ current(update_session(procs, started)) \in Nat
    <3>1. CASE procs = {}
      <4>1. started \in Nat /\ started <= now /\ secs = now - started /\ current(started) = secs
        BY <1>4, <3>1, <1>1 DEF Updates, elapsed, current, Played
      <4>2. update_session(procs, started) = None /\ current(None) = 0  BY <3>1 DEF update_session, current
      <4> QED BY <4>1, <4>2
    <3>2. CASE procs # {}
      <4>1. started = None /\ secs = 0 /\ current(started) = 0  BY <1>4, <3>2 DEF Updates, elapsed, current
      <4>2. update_session(procs, started) = now /\ current(now) = 0
        BY <3>2, <4>1, <1>1 DEF update_session, current
      <4> QED BY <4>1, <4>2
    <3> QED BY <3>1, <3>2
  <2>4. sum = s.memory + secs  BY <1>2
  <2> HIDE DEF secs, new, sum
  <2>5. new.memory + current(update_session(procs, started)) = s.memory + current(started)
    BY <1>2, <2>2, <2>3, <2>4
  <2> QED BY <2>2, <2>5 DEF new
<1> QED BY <1>3, <1>4

-----------------------------------------------------------------------------
(* What is told of one instance, and by the tick of all. *)

\* What a message says of an instance is what is kept of it.
LEMMA MessageIsTold ==
  ASSUME NEW i \in Instance, NEW procs, NEW launching, NEW started, NEW s,
         Loaded(s).memory + current(started) \in Nat
  PROVE  Modify(i, procs, launching, started, s) \in [kind : {"modified"}, id : {i}, status : Status,
           playtime : {Loaded(s).memory + current(started)}]
<1>1. status(procs, launching) \in Status  BY DEF status, Status
<1> QED BY <1>1 DEF Modify

\* Instance i, whose statistics have come to s, is told of.
LEMMA OneIsTold ==
  ASSUME IInv, IInv', PlaytimeInv, UNCHANGED <<alive, now, playtime>>, NEW i \in alive,
         NEW s \in Stats, s.file = s.memory, NEW started \in Nat \cup {None},
         s.memory + current(started) = Total[i],
         stats' = [stats EXCEPT ![i] = Loaded(s)], session' = [session EXCEPT ![i] = started],
         NEW procs, NEW launching,
         outbox' = Append(outbox, Modify(i, procs, launching, started, s))
  PROVE  PlaytimeInv'
<1>1. i \in Instance /\ stats \in [Instance -> Stats] /\ session \in [Instance -> Nat \cup {None}]
  BY DEF IInv, BackendTypes
<1>2. Loaded(s) \in Stats /\ Loaded(s).memory = s.memory /\ Loaded(s).file = s.memory  BY LoadedIsSame
<1>3. FilesAreWritten'
  <2> SUFFICES ASSUME NEW k \in Instance PROVE stats'[k].file = stats'[k].memory  BY DEF FilesAreWritten
  <2>1. CASE k = i  BY <1>1, <1>2, <2>1
  <2>2. CASE k # i  BY <1>1, <2>2 DEF PlaytimeInv, FilesAreWritten
  <2> QED BY <2>1, <2>2
<1>4. \A k \in Instance : Total'[k] = Total[k]
  <2> SUFFICES ASSUME NEW k \in Instance PROVE Total'[k] = Total[k]  OBVIOUS
  <2>1. Total'[k] = stats'[k].memory + (IF session'[k] = None THEN 0 ELSE now - session'[k])
    BY DEF Total, current
  <2>2. Total[k] = stats[k].memory + (IF session[k] = None THEN 0 ELSE now - session[k])
    BY DEF Total, current
  <2>3. CASE k = i
    <3>1. stats'[k] = Loaded(s) /\ session'[k] = started  BY <1>1, <2>3
    <3> QED BY <2>1, <2>3, <3>1, <1>2 DEF current
  <2>4. CASE k # i
    <3>1. stats'[k] = stats[k] /\ session'[k] = session[k]  BY <1>1, <2>4
    <3> QED BY <2>1, <2>2, <3>1
  <2> QED BY <2>3, <2>4
<1>5. Total \in [Instance -> Nat]  BY TotalIsNat
<1>6. \A k \in alive' : Total[k] <= Total'[k]
  <2>1. alive' \subseteq Instance  BY DEF IInv, BackendTypes
  <2> HIDE DEF Total
  <2> QED BY <1>4, <1>5, <2>1
<1> DEFINE m == Modify(i, procs, launching, started, s)
<1>7. m \in Told'
  <2>1. Loaded(s).memory + current(started) = Total[i] /\ Total[i] \in Nat  BY <1>1, <1>2, <1>5
  <2>2. m \in [kind : {"modified"}, id : {i}, status : Status, playtime : {Total[i]}]
    BY <1>1, <2>1, MessageIsTold
  <2> HIDE DEF m
  <2>3. m \in Message  BY <1>1, <2>1, <2>2 DEF Message
  <2>4. m.id = i /\ m.playtime = Total'[i]  BY <1>1, <1>4, <2>2
  <2> QED BY <2>3, <2>4 DEF Told
<1>8. <<m>> \in Seq(Told') /\ outbox' = outbox \o <<m>>
  <2> HIDE DEF m
  <2>1. outbox' = Append(outbox, m)  BY DEF m
  <2> QED BY <1>7, <2>1 DEF PlaytimeInv
<1> QED BY <1>3, <1>6, <1>8, ToldInOrder

\* What holds of one instance before a step.
LEMMA OfOne ==
  ASSUME IInv, PlaytimeInv, NEW i \in Instance
  PROVE  /\ stats[i] \in Stats /\ session[i] \in Nat \cup {None} /\ Played(stats[i], session[i])
         /\ stats[i].file = stats[i].memory
         /\ stats[i].memory + current(session[i]) = Total[i]
         /\ session = [session EXCEPT ![i] = session[i]]
  BY DEF IInv, BackendTypes, PlayedInThePast, PlaytimeInv, FilesAreWritten, Total

\* Instance i, whose session follows the processes procs, is told of.
LEMMA FollowedIsTold ==
  ASSUME IInv, IInv', PlaytimeInv, UNCHANGED <<alive, now, playtime>>, NEW i \in alive, NEW procs, NEW launching,
         LET s == Closed(stats[i], session[i], procs, TRUE)
             started == update_session(procs, session[i])
         IN  /\ stats' = [stats EXCEPT ![i] = Loaded(s)]
             /\ session' = [session EXCEPT ![i] = started]
             /\ outbox' = Append(outbox, Modify(i, procs, launching, started, s))
  PROVE  PlaytimeInv'
<1> DEFINE s == Closed(stats[i], session[i], procs, TRUE)
           started == update_session(procs, session[i])
<1>1. i \in Instance /\ now \in Nat  BY DEF IInv, BackendTypes
<1>2. s \in Stats /\ started \in Nat \cup {None}  BY <1>1, OfOne, SessionCloses
<1>3. s.file = s.memory /\ s.memory + current(started) = Total[i]
  <2>1. /\ stats[i] \in Stats /\ session[i] \in Nat \cup {None} /\ Played(stats[i], session[i])
        /\ stats[i].file = stats[i].memory
        /\ stats[i].memory + current(session[i]) = Total[i]
    BY <1>1, OfOne
  <2>2. s.file = s.memory /\ s.memory + current(started) = stats[i].memory + current(session[i])
    BY <1>1, <2>1, ClosingKeeps
  <2> QED BY <2>1, <2>2
<1> HIDE DEF s, started
<1> QED BY <1>2, <1>3, OneIsTold DEF s, started

\* The launch of an instance, the end of it, and a kill.
LEMMA HandlerTells ==
  ASSUME ~WriteFails, IInv, IInv', PlaytimeInv,
         StartInstance \/ KillInstance \/ (handler # Idle /\ (EndsWith(TRUE) \/ EndsWith(FALSE)))
           \/ (\E p \in Process : LaunchSucceeds(p))
  PROVE  PlaytimeInv'
<1>0. Written = {TRUE}  BY DEF Written
<1>1. CASE StartInstance
  <2> DEFINE i == Head(inbox).id
  <2>1. i \in alive  BY <1>1 DEF StartInstance, refused
  <2>2. /\ stats' = [stats EXCEPT ![i] = Loaded(stats[i])]
        /\ outbox' = Append(outbox, Modify(i, processes[i], "alive", session[i], stats[i]))
        /\ UNCHANGED <<alive, session, now, playtime>>
    BY <1>1 DEF StartInstance, frontend
  <2>3. i \in Instance  BY <2>1 DEF IInv, BackendTypes
  <2> HIDE DEF i
  <2> QED BY <2>1, <2>2, <2>3, OfOne, OneIsTold
<1>2. CASE handler # Idle /\ (EndsWith(TRUE) \/ EndsWith(FALSE))
  <2> DEFINE i == handler.id
  <2>1. i \in alive  BY <1>2 DEF IInv, LaunchedIsThere
  <2>2. /\ stats' = [stats EXCEPT ![i] = Loaded(stats[i])]
        /\ outbox' = Append(outbox, Modify(i, processes[i], keepalive_when_sent(i), session[i], stats[i]))
        /\ UNCHANGED <<alive, session, now, playtime>>
    BY <1>2, <2>1 DEF EndsWith, Ends, frontend
  <2>3. i \in Instance  BY <2>1 DEF IInv, BackendTypes
  <2> HIDE DEF i
  <2> QED BY <2>1, <2>2, <2>3, OfOne, OneIsTold
<1>3. ASSUME NEW p \in Process, LaunchSucceeds(p) PROVE PlaytimeInv'
  <2> DEFINE i == handler.id
             procs == processes[i] \cup {p}
             s == IF Updates(procs, session[i]) THEN Modified(stats[i], 0, TRUE) ELSE stats[i]
  <2>1. i \in alive  BY <1>3 DEF IInv, LaunchedIsThere, LaunchSucceeds, At, Idle
  <2>2. /\ SetProcesses(i, procs)
        /\ Ends(procs, update_session(procs, session[i]), s, FALSE)
        /\ UNCHANGED <<alive, now, playtime>>
    BY <1>0, <1>3, <2>1 DEF LaunchSucceeds, frontend
  <2>3. s = Closed(stats[i], session[i], procs, TRUE)
    <3>1. elapsed(procs, session[i]) = 0  BY DEF elapsed
    <3> QED BY <3>1 DEF Closed
  <2> HIDE DEF s, procs
  <2>4. /\ stats' = [stats EXCEPT ![i] = Loaded(Closed(stats[i], session[i], procs, TRUE))]
        /\ session' = [session EXCEPT ![i] = update_session(procs, session[i])]
        /\ outbox' = Append(outbox, Modify(i, procs, keepalive_when_sent(i),
                                           update_session(procs, session[i]),
                                           Closed(stats[i], session[i], procs, TRUE)))
    BY <2>1, <2>2, <2>3 DEF SetProcesses, Ends
  <2> HIDE DEF i
  <2> QED BY <2>1, <2>2, <2>4, FollowedIsTold
<1>4. CASE KillInstance
  <2> DEFINE i == Head(inbox).id
  <2>1. UNCHANGED <<alive, now, playtime>>  BY <1>4 DEF KillInstance, frontend
  <2>2. CASE ~ (i \in alive /\ processes[i] # {})
    <3>1. UNCHANGED <<stats, session, outbox>>  BY <1>4, <2>2 DEF KillInstance
    <3>2. \A k \in alive : Total[k] <= Total'[k]
      <4>1. Total' = Total  BY <2>1, <3>1 DEF Total, current
      <4> QED BY <4>1, TotalIsNat DEF IInv, BackendTypes
    <3> QED BY <2>1, <3>1, <3>2, NothingIsTold
  <2>3. CASE i \in alive /\ processes[i] # {}
    <3>1. /\ stats' = [stats EXCEPT ![i] = Loaded(Closed(stats[i], session[i], {}, TRUE))]
          /\ SetProcesses(i, {})
          /\ outbox' = Append(outbox, Modify(i, {}, keepalive[i], update_session({}, session[i]),
                                             Closed(stats[i], session[i], {}, TRUE)))
      BY <1>0, <1>4, <2>3 DEF KillInstance, Closed
    <3>2. session' = [session EXCEPT ![i] = update_session({}, session[i])]
      BY <3>1 DEF SetProcesses
    <3> HIDE DEF i
    <3> QED BY <2>1, <2>3, <3>1, <3>2, FollowedIsTold
  <2> QED BY <2>2, <2>3
<1> QED BY <1>1, <1>2, <1>3, <1>4

\* Filesystem events.
LEMMA EventTells ==
  ASSUME IInv, IInv', PlaytimeInv, NEW i \in Instance,
         StatsChange(i) \/ InfoChange(i) \/ RemoveInstance(i)
  PROVE  PlaytimeInv'
<1>1. UNCHANGED <<now, playtime>>  BY DEF StatsChange, InfoChange, RemoveInstance, frontend
<1>2. CASE StatsChange(i) /\ i \in alive
  <2> DEFINE s == [stats[i] EXCEPT !.dirty = TRUE]
  <2>1. s \in Stats /\ s.memory = stats[i].memory /\ s.file = stats[i].file  BY OfOne DEF Stats
  <2>2. /\ stats' = [stats EXCEPT ![i] = Loaded(s)] /\ UNCHANGED <<alive, session>>
        /\ outbox' = Append(outbox, Modify(i, processes[i], keepalive[i], session[i], s))
    BY <1>2 DEF StatsChange
  <2> HIDE DEF s
  <2> QED BY <1>1, <1>2, <2>1, <2>2, OfOne, OneIsTold
<1>3. CASE InfoChange(i)
  <2>1. /\ stats' = [stats EXCEPT ![i] = Loaded(stats[i])] /\ UNCHANGED <<alive, session>> /\ i \in alive
        /\ outbox' = Append(outbox, Modify(i, processes[i], keepalive[i], session[i], stats[i]))
    BY <1>3 DEF InfoChange
  <2> QED BY <1>1, <2>1, OfOne, OneIsTold
<1>4. CASE StatsChange(i) /\ i \notin alive
  <2>1. UNCHANGED <<alive, stats, session, outbox>>  BY <1>4 DEF StatsChange
  <2>2. \A k \in alive : Total[k] <= Total'[k]
    <3>1. Total' = Total  BY <1>1, <2>1 DEF Total, current
    <3> QED BY <3>1, TotalIsNat DEF IInv, BackendTypes
  <2> QED BY <1>1, <2>1, <2>2, NothingIsTold
<1>5. CASE RemoveInstance(i)
  <2> DEFINE m == [kind |-> "removed", id |-> i, status |-> "NotRunning", playtime |-> 0]
  <2>1. /\ alive' = alive \ {i} /\ session' = [session EXCEPT ![i] = None] /\ UNCHANGED stats
        /\ outbox' = Append(outbox, m)
    BY <1>5 DEF RemoveInstance
  <2>2. m \in Told' /\ <<m>> \in Seq(Told')
    <3>1. m \in Message  BY DEF Message, Status
    <3> QED BY <3>1 DEF Told, Shows
  <2>3. outbox' = outbox \o <<m>>
    <3> HIDE DEF m
    <3> QED BY <2>1, <2>2 DEF PlaytimeInv
  <2>4. FilesAreWritten'  BY <2>1 DEF PlaytimeInv, FilesAreWritten
  <2>5. \A k \in alive' : Total[k] <= Total'[k]
    <3> SUFFICES ASSUME NEW k \in alive' PROVE Total[k] <= Total'[k]  OBVIOUS
    <3>1. k \in Instance /\ k # i /\ session'[k] = session[k]  BY <2>1 DEF IInv, BackendTypes
    <3>2. Total'[k] = Total[k]  BY <1>1, <2>1, <3>1 DEF Total, current
    <3> QED BY <3>1, <3>2, TotalIsNat
  <2> HIDE DEF m
  <2> QED BY <1>1, <2>1, <2>2, <2>3, <2>4, <2>5, ToldInOrder
<1> QED BY <1>2, <1>3, <1>4, <1>5

\* The tick tells of what it has found ended, and of all that are played.
LEMMA TickTells == ASSUME ~WriteFails, IInv, IInv', PlaytimeInv, Tick PROVE PlaytimeInv'
<1> DEFINE closes(i) == i \in alive /\ ended(i) /\ Updates(still(i), session[i])
           s(i) == IF closes(i) THEN Modified(stats[i], elapsed(still(i), session[i]), TRUE) ELSE stats[i]
           started(i) == IF i \in alive /\ ended(i) THEN update_session(still(i), session[i]) ELSE session[i]
           tells(i) == i \in alive /\ (ended(i) \/ keepalive[i] = "dead")
           message(i) == IF tells(i) THEN <<Modify(i, still(i), keepalive[i], started(i), s(i))>>
                         ELSE IF i \in alive /\ session[i] # None
                         THEN <<[Modify(i, still(i), keepalive[i], started(i), s(i)) EXCEPT !.kind = "playtime"]>>
                         ELSE <<>>
           messages == [i \in Instance |-> message(i)]
<1>1. /\ session' = [i \in Instance |-> started(i)]
      /\ stats' = [i \in Instance |-> IF message(i) # <<>> THEN Loaded(s(i)) ELSE s(i)]
      /\ outbox' = outbox \o FlattenSeq(messages)
      /\ UNCHANGED <<alive, now, playtime>>
  <2>1. Written = {TRUE}  BY DEF Written
  <2> QED BY <2>1 DEF Tick, frontend
<1>2. ASSUME NEW i \in Instance
      PROVE  /\ s(i) \in Stats /\ s(i).file = s(i).memory
             /\ started(i) \in Nat \cup {None} /\ s(i).memory + current(started(i)) = Total[i]
  <2>1. /\ stats[i] \in Stats /\ session[i] \in Nat \cup {None} /\ Played(stats[i], session[i])
        /\ stats[i].file = stats[i].memory
        /\ stats[i].memory + current(session[i]) = Total[i] /\ now \in Nat
    BY OfOne DEF IInv, BackendTypes
  <2>2. CASE i \in alive /\ ended(i)
    <3>1. s(i) = Closed(stats[i], session[i], still(i), TRUE)  BY <2>2 DEF Closed
    <3>2. started(i) = update_session(still(i), session[i])  BY <2>2
    <3> HIDE DEF s, started
    <3>3. Closed(stats[i], session[i], still(i), TRUE) \in Stats /\ started(i) \in Nat \cup {None}
      BY <2>1, <3>2, SessionCloses
    <3>4. /\ Closed(stats[i], session[i], still(i), TRUE).file = Closed(stats[i], session[i], still(i), TRUE).memory
          /\ Closed(stats[i], session[i], still(i), TRUE).memory + current(update_session(still(i), session[i]))
               = stats[i].memory + current(session[i])
      BY <2>1, ClosingKeeps
    <3> QED BY <2>1, <3>1, <3>2, <3>3, <3>4
  <2>3. CASE ~ (i \in alive /\ ended(i))
    <3>1. s(i) = stats[i] /\ started(i) = session[i]  BY <2>3
    <3> QED BY <2>1, <3>1
  <2> QED BY <2>2, <2>3
<1>3. ASSUME NEW i \in Instance
      PROVE  /\ stats'[i].file = stats'[i].memory
             /\ stats'[i].memory = s(i).memory /\ session'[i] = started(i)
  <2>1. stats'[i] \in {s(i), Loaded(s(i))} /\ session'[i] = started(i)  BY <1>1
  <2>2. s(i) \in Stats /\ s(i).file = s(i).memory  BY <1>2
  <2> HIDE DEF s, started
  <2>3. Loaded(s(i)).memory = s(i).memory /\ Loaded(s(i)).file = s(i).memory  BY <2>2, LoadedIsSame
  <2> QED BY <2>1, <2>2, <2>3
<1>4. FilesAreWritten'  BY <1>3 DEF FilesAreWritten
<1>5. ASSUME NEW i \in Instance PROVE Total'[i] = Total[i] /\ Total[i] \in Nat
  <2>1. Total'[i] = stats'[i].memory + (IF session'[i] = None THEN 0 ELSE now - session'[i])
    BY <1>1 DEF Total, current
  <2>2. stats'[i].memory + current(session'[i]) = Total[i]  BY <1>2, <1>3
  <2>3. Total[i] \in Nat  BY TotalIsNat
  <2> QED BY <2>1, <2>2, <2>3 DEF current
<1>6. ASSUME NEW i \in Instance PROVE message(i) \in Seq(Told')
  <2> DEFINE m == Modify(i, still(i), keepalive[i], started(i), s(i))
             r == [m EXCEPT !.kind = "playtime"]
  <2>1. Loaded(s(i)).memory + current(started(i)) = Total[i] /\ Total[i] \in Nat
    <3>1. s(i) \in Stats /\ s(i).file = s(i).memory /\ s(i).memory + current(started(i)) = Total[i]
      BY <1>2
    <3> HIDE DEF s, started
    <3>2. Loaded(s(i)).memory = s(i).memory  BY <3>1, LoadedIsSame
    <3> QED BY <3>1, <3>2, <1>5
  <2>2. m \in [kind : {"modified"}, id : {i}, status : Status, playtime : {Total[i]}]
    <3> HIDE DEF s, started
    <3> QED BY <2>1, MessageIsTold
  <2>3. i \in alive => m \in Told'
    <3> HIDE DEF m
    <3>1. m \in Message /\ m.id = i /\ m.playtime = Total[i]  BY <2>1, <2>2 DEF Message
    <3> QED BY <3>1, <1>1, <1>5 DEF Told
  <2>4. i \in alive => r \in Told'
    <3> HIDE DEF m
    <3>1. r \in Message /\ r.id = i /\ r.playtime = Total[i]  BY <2>1, <2>2 DEF Message
    <3> HIDE DEF r
    <3> QED BY <3>1, <1>1, <1>5 DEF Told
  <2>5. message(i) \in {<<>>, <<m>>, <<r>>} /\ (message(i) # <<>> => i \in alive)
    <3> HIDE DEF m, s, started
    <3> QED BY DEF m
  <2>6. CASE message(i) = <<>>
    <3> HIDE DEF message
    <3> QED BY <2>6
  <2>7. CASE message(i) = <<m>> /\ i \in alive
    <3> HIDE DEF m
    <3>1. <<m>> \in Seq(Told')  BY <2>3, <2>7
    <3> HIDE DEF message
    <3> QED BY <2>7, <3>1
  <2>8. CASE message(i) = <<r>> /\ i \in alive
    <3> HIDE DEF r
    <3>1. <<r>> \in Seq(Told')  BY <2>4, <2>8
    <3> HIDE DEF message
    <3> QED BY <2>8, <3>1
  <2> HIDE DEF m, r, message
  <2> QED BY <2>5, <2>6, <2>7, <2>8
<1>7. FlattenSeq(messages) \in Seq(Told')
  <2> HIDE DEF message
  <2>1. messages \in Seq(Seq(Told'))  BY <1>6, CountAssumption DEF Instance
  <2> HIDE DEF messages
  <2> QED BY <2>1, FlattenedIsSeq
<1>8. \A i \in alive' : Total[i] <= Total'[i]
  <2>1. alive' \subseteq Instance  BY DEF IInv, BackendTypes
  <2> HIDE DEF Total
  <2> QED BY <1>5, <2>1
<1> HIDE DEF messages
<1> QED BY <1>1, <1>4, <1>7, <1>8, ToldInOrder

\* What is processed next is no older than what is shown.
LEMMA ProcessedInOrder ==
  ASSUME IInv, IInv', PlaytimeInv, ProcessMessage
  PROVE  PlaytimeInv' /\ \A i \in Instance : playtime[i] <= playtime'[i]
<1> DEFINE m == Head(outbox)
           n == Len(outbox)
<1>1. /\ outbox \in Seq(Message) /\ playtime \in [Instance -> Nat]
      /\ ShownWasTrue /\ NewerThanShown /\ WasTrue /\ InOrder
  BY DEF PlaytimeInv
<1>2. outbox # <<>> /\ outbox' = Tail(outbox) /\ UNCHANGED <<alive, stats, session, now>>
  BY DEF ProcessMessage, instances
<1>3. /\ n \in Nat /\ n # 0 /\ Len(outbox') = n - 1 /\ m = outbox[1] /\ 1 \in 1 .. n
      /\ outbox' \in Seq(Message)
      /\ \A k \in 1 .. Len(outbox') : k + 1 \in 1 .. n /\ outbox'[k] = outbox[k + 1]
  BY <1>1, <1>2
<1>4. m \in Message /\ m.id \in Instance /\ m.playtime \in Nat
  <2>1. m \in Message  BY <1>1, <1>3
  <2> QED BY <2>1 DEF Message
<1>5. \/ ~Shows(m) /\ playtime' = playtime
      \/ Shows(m) /\ playtime' = [playtime EXCEPT ![m.id] = m.playtime]
  <2>1. m.kind \in {"modified", "playtime", "removed"}
    <3>1. m \in Message  BY <1>4
    <3> QED BY <3>1 DEF Message
  <2> QED BY <2>1 DEF ProcessMessage, Shows
<1>6. Total' = Total  BY <1>2 DEF Total, current
<1> HIDE DEF m
<1>7. \A i \in Instance : playtime[i] <= playtime'[i]
  <2>1. Shows(m) => playtime[m.id] <= m.playtime  BY <1>1, <1>3 DEF NewerThanShown
  <2> QED BY <1>1, <1>4, <1>5, <2>1
<1>8. playtime' \in [Instance -> Nat]  BY <1>1, <1>4, <1>5
<1>9. ShownWasTrue'
  <2>1. Shows(m) /\ m.id \in alive => m.playtime <= Total[m.id]  BY <1>1, <1>3 DEF WasTrue
  <2>2. \A i \in alive : playtime'[i] <= Total[i]
    <3>1. alive \subseteq Instance  BY DEF IInv, BackendTypes
    <3> QED BY <1>1, <1>4, <1>5, <2>1, <3>1 DEF ShownWasTrue
  <2> QED BY <1>2, <1>6, <2>2 DEF ShownWasTrue
<1>10. NewerThanShown'
  <2> SUFFICES ASSUME NEW k \in 1 .. Len(outbox'), Shows(outbox'[k])
               PROVE  playtime'[outbox'[k].id] <= outbox'[k].playtime
    BY DEF NewerThanShown
  <2>1. k + 1 \in 1 .. n /\ outbox'[k] = outbox[k + 1] /\ 1 < k + 1  BY <1>3
  <2>2. outbox[k + 1].id \in Instance
    <3>1. outbox[k + 1] \in Message  BY <1>1, <2>1
    <3> QED BY <3>1 DEF Message
  <2>3. playtime[outbox[k + 1].id] <= outbox[k + 1].playtime  BY <1>1, <2>1 DEF NewerThanShown
  <2>4. Shows(m) /\ m.id = outbox[k + 1].id => m.playtime <= outbox[k + 1].playtime
    BY <1>1, <1>3, <2>1 DEF InOrder
  <2> QED BY <1>1, <1>4, <1>5, <2>1, <2>2, <2>3, <2>4
<1>11. WasTrue'  BY <1>1, <1>2, <1>3, <1>6 DEF WasTrue
<1>12. InOrder'
  <2> SUFFICES ASSUME NEW k \in 1 .. Len(outbox'), NEW j \in 1 .. Len(outbox'), j < k,
                      Shows(outbox'[j]), Shows(outbox'[k]), outbox'[j].id = outbox'[k].id
               PROVE  outbox'[j].playtime <= outbox'[k].playtime
    BY DEF InOrder
  <2>1. k + 1 \in 1 .. n /\ j + 1 \in 1 .. n /\ j + 1 < k + 1
          /\ outbox'[k] = outbox[k + 1] /\ outbox'[j] = outbox[j + 1]
    BY <1>3
  <2> QED BY <1>1, <2>1 DEF InOrder
<1>13. FilesAreWritten'  BY <1>2 DEF PlaytimeInv, FilesAreWritten
<1> QED BY <1>3, <1>7, <1>8, <1>9, <1>10, <1>11, <1>12, <1>13 DEF PlaytimeInv

\* Whatever else happens says nothing.
LEMMA OthersSayNothing ==
  ASSUME IInv, IInv', PlaytimeInv,
         \/ \E i \in Instance : ClickStart(i) \/ ClickKill(i)
         \/ \E k \in Modal : ClickCancel(k)
         \/ RefuseStart \/ LoginSucceeds \/ PrelaunchSucceeds \/ LaunchLoads
         \/ \E p \in Process : Exit(p)
         \/ Pass \/ UNCHANGED vars
  PROVE  PlaytimeInv'
<1>1. UNCHANGED <<alive, stats, session, playtime, outbox>> /\ now' \in {now, now + 1}
  BY DEF ClickStart, ClickKill, ClickCancel, RefuseStart, LoginSucceeds, PrelaunchSucceeds, LaunchLoads,
         Exit, Pass, vars, instances, frontend
<1>2. \A i \in alive : Total[i] <= Total'[i]
  <2> SUFFICES ASSUME NEW i \in alive PROVE Total[i] <= Total'[i]  OBVIOUS
  <2>1. /\ i \in Instance /\ stats[i] \in Stats /\ session[i] \in Nat \cup {None} /\ now \in Nat
        /\ Played(stats[i], session[i])
    BY DEF IInv, BackendTypes, PlayedInThePast
  <2>2. stats[i].memory \in Nat  BY <2>1 DEF Stats
  <2>3. Total[i] = stats[i].memory + (IF session[i] = None THEN 0 ELSE now - session[i])
    BY <2>1 DEF Total, current
  <2>4. Total'[i] = stats[i].memory + (IF session[i] = None THEN 0 ELSE now' - session[i])
    BY <1>1, <2>1 DEF Total, current
  <2>5. CASE session[i] = None  BY <2>2, <2>3, <2>4, <2>5
  <2>6. CASE session[i] # None
    <3>1. session[i] \in Nat  BY <2>1, <2>6
    <3> QED BY <1>1, <2>1, <2>2, <2>3, <2>4, <2>6, <3>1
  <2> QED BY <2>5, <2>6
<1> QED BY <1>1, <1>2, NothingIsTold

\* The playtime that is shown of an instance never goes back, for any number of
\* instances, games and launches: whatever is sent is what the instance has been played
\* for when it is sent, whether its session goes on, ends or its file is read again,
\* and messages stay in order.  The statistics are assumed to be written, as in the run:
\* a write that fails takes the session's time with it when the file is read again.
THEOREM PlaytimeOnlyGrows == ASSUME ~WriteFails PROVE Spec => PlaytimeNeverGoesBack
<1> DEFINE Grows == \A i \in Instance : playtime[i] <= playtime'[i]
<1>1. Init => PlaytimeInv
  <2> SUFFICES ASSUME Init PROVE PlaytimeInv  OBVIOUS
  <2>1. Total = [i \in Instance |-> 0]  BY DEF Init, Total, current
  <2>2. outbox \in Seq(Message) /\ Len(outbox) = 0 /\ playtime = [i \in Instance |-> 0] /\ alive = Instance
          /\ FilesAreWritten
    BY DEF Init, FilesAreWritten
  <2> QED BY <2>1, <2>2 DEF PlaytimeInv, ShownWasTrue, NewerThanShown, WasTrue, InOrder
<1>2. IInv /\ IInv' /\ PlaytimeInv /\ [Next]_vars => PlaytimeInv' /\ [Grows]_playtime
  <2> SUFFICES ASSUME IInv, IInv', PlaytimeInv, [Next]_vars PROVE PlaytimeInv' /\ [Grows]_playtime
    OBVIOUS
  <2>1. CASE ProcessMessage  BY <2>1, ProcessedInOrder
  <2>2. CASE ~ProcessMessage
    <3>1. UNCHANGED playtime
      BY <2>2
      DEF Next, HandleMessage, LaunchStep, ClickStart, ClickKill, StatsChange, InfoChange, RemoveInstance,
          ClickCancel, RefuseStart, StartInstance, KillInstance, LoginSucceeds, LoginFails, PrelaunchSucceeds,
          PrelaunchFails, PrelaunchCancelled, LaunchLoads, LaunchCancelled, LaunchFails, LaunchSucceeds,
          EndsWith, Tick, Exit, Pass, frontend, vars
    <3>2. PlaytimeInv'
      <4>1. LaunchFails \/ LoginFails \/ PrelaunchFails \/ PrelaunchCancelled \/ LaunchCancelled
              => handler # Idle /\ (EndsWith(TRUE) \/ EndsWith(FALSE))
        <5>1. \A pc \in {"login", "prelaunch", "launch", "spawn"} : At(pc) => handler # Idle
          BY DEF At, Idle
        <5>2. LaunchFails => At("launch") \/ At("spawn")  BY DEF LaunchFails, At
        <5> QED BY <5>1, <5>2, Zenon
                DEF LaunchFails, LoginFails, PrelaunchFails, PrelaunchCancelled, LaunchCancelled
      <4> QED BY <2>2, <4>1, HandlerTells, EventTells, TickTells, OthersSayNothing
              DEF Next, HandleMessage, LaunchStep
    <3> QED BY <3>1, <3>2
  <2> QED BY <2>1, <2>2
<1>3. PlaytimeNeverGoesBack <=> [][Grows]_playtime  BY DEF PlaytimeNeverGoesBack
<1> QED BY <1>1, <1>2, <1>3, Inductive, PTL DEF Spec

-----------------------------------------------------------------------------
(* LaunchDownloads: what a launch gets ready, whatever other programs do to  *)
(* the files, for any files and any number of launches.                      *)

\* What the progress is at, at each stage; Java counts unless it is the instance's own.
ByJava == IF own THEN 0 ELSE 1
Sum == 6 + (CASE mod_loader = "vanilla" -> 1 [] mod_loader = "fabric" -> 4 [] OTHER -> 7)
CountAt ==
  CASE stage \in {"idle", "version"} -> 0
    [] stage = "installer" -> 2
    [] stage = "profile" -> 3 + ByJava
    [] stage = "libraries" -> 3 + ByJava + counted_before
    [] stage = "process" -> 5 + ByJava
    [] stage = "join" -> IF IsForge THEN 7 + ByJava ELSE Sum - 5
    [] stage = "natives" -> IF IsForge THEN 10 + 2 * ByJava ELSE Sum - 2 + ByJava
    [] stage = "running" -> IF IsForge THEN 11 + 2 * ByJava ELSE Sum - 1 + ByJava

CountsUp ==
  /\ count = CountAt /\ total = IF stage = "idle" THEN 0 ELSE Sum
  /\ stage \in {"installer", "profile", "libraries", "process"} => IsForge
  /\ stage = "process" => mod_loader = "forge"

\* Only the files of the stage are worked on.
OnlyNeeded == \A f \in File : file_task[f] = "off" \/ f \in Needed(stage)

\* Whoever outlives an earlier launch is known to this one.
LateIsTouched == stage # "idle" => \A w \in late : w[1] \in rewritten

\* A part of a file is what somebody is about to finish, or what somebody has left.
PartIsLeft == \A f \in File : disk[f] = "part" => f \in torn \/ file_task[f] = "write" \/ <<f, "write">> \in late

\* What a launch starts with is there.
Fine(f) == f \in Logs \/ disk[f] = "whole" \/ f \in rewritten \/ f \in torn \ known

\* A task that is through has left the file so.
ThroughIsFine == \A f \in File : file_task[f] \in {"written", "done"} => Fine(f)

\* And it stays so, but while it is written anew.
StaysFine(f) == file_task[f] = "write" \/ Fine(f)
GotIsFine ==
  /\ IsForge /\ stage \in {"profile", "libraries", "process", "join", "natives"} => StaysFine(Installer)
  /\ mod_loader = "forge" /\ stage \in {"join", "natives"} => StaysFine(Output)
  /\ stage = "natives" => \A f \in Needed("join") : Fine(f)

\* A Java that cannot be executed is about to be made so, or was given up.
JavaRuns == executable \/ abandoned \/ file_task[Java] \in {"write", "written"}

DownloadsInv ==
  /\ DownloadsType /\ CountsUp /\ OnlyNeeded /\ LateIsTouched /\ PartIsLeft /\ ThroughIsFine
  /\ GotIsFine /\ JavaRuns

\* Where a task can be, and a file.
Task == {"off", "check", "get", "done"} \cup Pending
Disk == {"none", "part", "whole"}
Late == File \X {"open", "write"}

LEMMA SumFact ==
  ASSUME DownloadsType
  PROVE  /\ Sum \in {7, 10, 13} /\ ByJava \in {0, 1} /\ (IsForge => Sum = 13)
         /\ counted_before \in {1, 2} /\ (own => ByJava = 0) /\ (~own => ByJava = 1)
BY DEF DownloadsType, Sum, ByJava, IsForge, counted_before

\* No files are needed at most of the stages.
LEMMA NeededFact ==
  /\ \A s \in {"idle", "version", "profile", "process", "natives", "running"} : Needed(s) = {}
  /\ \A s \in Stage : Needed(s) \subseteq File
  /\ ~own => Java \in Needed("installer") /\ Java \in Needed("join")
BY DEF Needed, Stage, File

LEMMA AtRest ==
  ASSUME DownloadsInv, stage \in {"idle", "version", "profile", "process", "natives", "running"}
  PROVE  \A f \in File : file_task[f] = "off"
BY NeededFact DEF DownloadsInv, OnlyNeeded

LEMMA AtDone ==
  ASSUME DownloadsInv, NEW s, Done(s)
  PROVE  \A f \in File : file_task[f] \in {"off", "done"}
BY DEF DownloadsInv, OnlyNeeded, Done

\* A launch ends.
LEMMA EndKeeps ==
  ASSUME DownloadsAssumption, DownloadsInv, End, late' \in SUBSET Late, disk' \in [File -> Disk],
         torn' \in SUBSET File, executable' \in BOOLEAN, abandoned' \in BOOLEAN,
         \A f \in File : disk'[f] = "part" => f \in torn' \/ <<f, "write">> \in late',
         executable' \/ abandoned'
  PROVE  DownloadsInv'
<1>1. /\ stage' = "idle" /\ file_task' = Off /\ known' = Hashed /\ rewritten' = {}
      /\ count' = 0 /\ total' = 0 /\ cancelled' = FALSE
      /\ mod_loader' = mod_loader /\ own' = own /\ launches' = launches /\ file_edits' = file_edits
  BY DEF End, setting
<1>2. \A f \in File : file_task'[f] = "off"  BY <1>1 DEF Off
<1>3. DownloadsType'
  <2>1. file_task' \in [File -> {"off", "check", "get", "done"} \cup Pending]  BY <1>1 DEF Off
  <2> QED BY <1>1, <2>1 DEF DownloadsInv, DownloadsType, DownloadsAssumption, Stage, Late, Disk
<1>4. CountsUp'  BY <1>1 DEF CountsUp, CountAt
<1>5. OnlyNeeded' /\ ThroughIsFine'  BY <1>2 DEF OnlyNeeded, ThroughIsFine
<1>6. LateIsTouched' /\ GotIsFine'  BY <1>1 DEF LateIsTouched, GotIsFine
<1>7. PartIsLeft'  BY DEF PartIsLeft
<1>8. JavaRuns'  BY DEF JavaRuns
<1> QED BY <1>3, <1>4, <1>5, <1>6, <1>7, <1>8 DEF DownloadsInv

\* A launch goes from one stage to another.
LEMMA EnterKeeps ==
  ASSUME DownloadsAssumption, DownloadsInv, NEW s \in Stage \ {"idle"}, Enter(s), stage # "idle",
         \A f \in File : file_task[f] \in {"off", "done"},
         known' \in SUBSET File, disk' \in [File -> Disk], torn' \in SUBSET File,
         \A f \in File : disk'[f] = "part" => f \in torn' \/ <<f, "write">> \in late,
         count' \in Nat, CountsUp', GotIsFine',
         UNCHANGED <<setting, total, late, executable, cancelled, launches, file_edits, rewritten, abandoned>>
  PROVE  DownloadsInv'
<1>1. /\ stage' = s /\ file_task' = [f \in File |-> IF f \in Needed(s) THEN "check" ELSE "off"]
      /\ mod_loader' = mod_loader /\ own' = own
  BY DEF Enter, setting
<1>2. /\ file_task' \in [File -> Task]
      /\ \A f \in File : file_task'[f] \in {"check", "off"} /\ (file_task'[f] = "off" \/ f \in Needed(s))
  BY <1>1 DEF Task
<1>3. DownloadsType'
  BY <1>1, <1>2 DEF DownloadsInv, DownloadsType, Disk, Task
<1>4. Needed(s)' = Needed(s)  BY <1>1 DEF Needed
<1>5. OnlyNeeded' /\ ThroughIsFine'
  BY <1>1, <1>2, <1>4 DEF OnlyNeeded, ThroughIsFine, Needed
<1>6. LateIsTouched'  BY DEF DownloadsInv, LateIsTouched
<1>7. PartIsLeft'  BY DEF PartIsLeft
<1>8. JavaRuns'
  <2>1. Java \in File /\ file_task[Java] \notin {"write", "written"}  BY DEF File
  <2> QED BY <2>1 DEF DownloadsInv, JavaRuns
<1> QED BY <1>3, <1>5, <1>6, <1>7, <1>8 DEF DownloadsInv

\* A launch stays at its stage.
LEMMA CalmKeeps ==
  ASSUME DownloadsInv, mod_loader' = mod_loader, own' = own, UNCHANGED <<stage, known, count, total>>,
         cancelled' \in BOOLEAN, launches' \in 0 .. MaxLaunches, file_edits' \in 0 .. MaxFileEdits,
         file_task' \in [File -> Task], \A f \in File : file_task'[f] = "off" <=> file_task[f] = "off",
         late' \in SUBSET Late, disk' \in [File -> Disk], torn' \in SUBSET File, rewritten' \in SUBSET File,
         executable' \in BOOLEAN, abandoned' \in BOOLEAN,
         LateIsTouched', PartIsLeft', JavaRuns',
         stage # "idle" => \A f \in File : /\ StaysFine(f) => StaysFine(f)'
                                           /\ file_task'[f] \in {"written", "done"} => Fine(f)'
  PROVE  DownloadsInv'
<1>1. DownloadsType'  BY DEF DownloadsInv, DownloadsType, Late, Disk, Task
<1>2. CountsUp'
  BY DEF DownloadsInv, CountsUp, CountAt, Sum, ByJava, IsForge, counted_before
<1>3. \A s : Needed(s)' = Needed(s)  BY DEF Needed
<1>4. OnlyNeeded'  BY <1>3 DEF DownloadsInv, OnlyNeeded, Needed
<1>5. ThroughIsFine'
  <2>1. CASE stage = "idle"
    <3>1. \A f \in File : file_task[f] = "off"  BY <2>1, AtRest
    <3>2. \A f \in File : file_task'[f] = "off"  BY <3>1
    <3> QED BY <3>2 DEF ThroughIsFine
  <2>2. CASE stage # "idle"  BY <2>2 DEF ThroughIsFine
  <2> QED BY <2>1, <2>2
<1>6. GotIsFine'
  <2>1. CASE stage = "idle"  BY <2>1 DEF GotIsFine
  <2>2. CASE stage # "idle"
    <3>1. Installer \in File /\ Output \in File  BY DEF File
    <3>2. ASSUME IsForge', stage \in {"profile", "libraries", "process", "join", "natives"}
          PROVE  StaysFine(Installer)'
      BY <2>2, <3>1, <3>2 DEF DownloadsInv, GotIsFine, IsForge
    <3>3. ASSUME mod_loader = "forge", stage \in {"join", "natives"} PROVE StaysFine(Output)'
      BY <2>2, <3>1, <3>3 DEF DownloadsInv, GotIsFine
    <3>4. ASSUME stage = "natives", NEW f \in Needed("join") PROVE Fine(f)'
      <4>1. f \in File  BY NeededFact DEF Stage
      <4>2. Fine(f) /\ file_task'[f] = "off"  BY <3>4, <4>1, AtRest DEF DownloadsInv, GotIsFine
      <4>3. StaysFine(f)'  BY <2>2, <4>1, <4>2 DEF StaysFine
      <4> QED BY <4>2, <4>3 DEF StaysFine
    <3> QED BY <3>2, <3>3, <3>4, <1>3 DEF GotIsFine
  <2> QED BY <2>1, <2>2
<1> QED BY <1>1, <1>2, <1>4, <1>5, <1>6 DEF DownloadsInv

LEMMA StepFact ==
  ASSUME DownloadsType, NEW f \in File, NEW from \in Task, NEW to \in Task, Step(f, from, to)
  PROVE  /\ file_task[f] = from /\ file_task' \in [File -> Task] /\ file_task'[f] = to
         /\ \A g \in File : g # f => file_task'[g] = file_task[g]
BY DEF DownloadsType, Step, Task

\* Somebody works on a file only while it is needed.
LEMMA Busy ==
  ASSUME DownloadsInv, NEW f \in File, file_task[f] # "off"
  PROVE  stage # "idle" /\ f \in Needed(stage) /\ \A w \in late : w[1] \in rewritten
BY NeededFact DEF DownloadsInv, OnlyNeeded, LateIsTouched

LEMMA CheckKeeps ==
  ASSUME DownloadsInv, NEW f \in File, CheckFile(f)
  PROVE  DownloadsInv'
<1>1. /\ DownloadsType /\ UNCHANGED <<late, disk, executable, torn, rewritten, abandoned>>
      /\ UNCHANGED <<mod_loader, own, stage, known, count, total, cancelled, launches, file_edits>>
  BY DEF DownloadsInv, CheckFile, Calm, setting, progress, downloads_history
<1>2. PICK to \in {"done", "get"} : to = IF valid(f) THEN "done" ELSE "get"  OBVIOUS
<1>3. /\ file_task[f] = "check" /\ file_task' \in [File -> Task] /\ file_task'[f] = to
      /\ \A g \in File : g # f => file_task'[g] = file_task[g]
  <2>1. Step(f, "check", to)  BY <1>2 DEF CheckFile
  <2> QED BY <1>1, <2>1, StepFact DEF Task
<1>4. stage # "idle" /\ \A w \in late : w[1] \in rewritten  BY <1>3, Busy
<1>5. to = "done" => Fine(f)
  <2> SUFFICES ASSUME to = "done" PROVE Fine(f)  OBVIOUS
  <2>1. CASE f \in known  BY <1>2, <2>1 DEF valid, Fine
  <2>2. CASE f \notin known
    <3>1. disk[f] \in {"part", "whole"}  BY <1>1, <1>2, <2>2 DEF valid, DownloadsType
    <3>2. disk[f] = "part" => f \in torn \/ <<f, "write">> \in late  BY <1>3 DEF DownloadsInv, PartIsLeft
    <3>3. <<f, "write">> \in late => f \in rewritten  BY <1>4
    <3> QED BY <2>2, <3>1, <3>2, <3>3 DEF Fine
  <2> QED BY <2>1, <2>2
<1>6. /\ LateIsTouched' /\ PartIsLeft' /\ JavaRuns'
  <2>1. PartIsLeft'  BY <1>1, <1>3 DEF DownloadsInv, PartIsLeft
  <2>2. JavaRuns'  BY <1>1, <1>3 DEF DownloadsInv, JavaRuns, File
  <2> QED BY <1>1, <1>4, <2>1, <2>2 DEF LateIsTouched
<1>7. ASSUME NEW g \in File
      PROVE  /\ StaysFine(g) => StaysFine(g)'
             /\ file_task'[g] \in {"written", "done"} => Fine(g)'
  <2>1. Fine(g)' = Fine(g)  BY <1>1 DEF Fine
  <2>2. file_task'[g] \in {"written", "done"} => Fine(g)  BY <1>3, <1>5 DEF DownloadsInv, ThroughIsFine
  <2>3. StaysFine(g) => StaysFine(g)'  BY <1>1, <1>3, <2>1 DEF StaysFine
  <2> QED BY <2>1, <2>2, <2>3
<1>8. \A g \in File : file_task'[g] = "off" <=> file_task[g] = "off"  BY <1>3
<1> QED BY <1>1, <1>3, <1>6, <1>7, <1>8, CalmKeeps DEF DownloadsType, Late, Disk

LEMMA ReceiveKeeps ==
  ASSUME DownloadsInv, NEW f \in File, Receive(f)
  PROVE  DownloadsInv'
<1>1. /\ DownloadsType /\ UNCHANGED <<late, disk, executable, torn, rewritten, abandoned>>
      /\ UNCHANGED <<mod_loader, own, stage, known, count, total, cancelled, launches, file_edits>>
  BY DEF DownloadsInv, Receive, Calm, setting, progress, downloads_history
<1>2. PICK to \in {"open", "done"} : Step(f, "get", to) /\ (to = "done" => f \in Logs)
  BY DEF Receive
<1>3. /\ file_task[f] = "get" /\ file_task' \in [File -> Task] /\ file_task'[f] = to
      /\ \A g \in File : g # f => file_task'[g] = file_task[g]
  BY <1>1, <1>2, StepFact DEF Task, Pending
<1>4. stage # "idle" /\ \A w \in late : w[1] \in rewritten  BY <1>3, Busy
<1>5. to = "done" => Fine(f)  BY <1>2 DEF Fine
<1>6. /\ LateIsTouched' /\ PartIsLeft' /\ JavaRuns'
  <2>1. PartIsLeft'  BY <1>1, <1>3 DEF DownloadsInv, PartIsLeft
  <2>2. JavaRuns'  BY <1>1, <1>3 DEF DownloadsInv, JavaRuns, File
  <2> QED BY <1>1, <1>4, <2>1, <2>2 DEF LateIsTouched
<1>7. ASSUME NEW g \in File
      PROVE  /\ StaysFine(g) => StaysFine(g)'
             /\ file_task'[g] \in {"written", "done"} => Fine(g)'
  <2>1. Fine(g)' = Fine(g)  BY <1>1 DEF Fine
  <2>2. file_task'[g] \in {"written", "done"} => Fine(g)  BY <1>3, <1>5 DEF DownloadsInv, ThroughIsFine
  <2>3. StaysFine(g) => StaysFine(g)'  BY <1>1, <1>3, <2>1 DEF StaysFine
  <2> QED BY <2>1, <2>2, <2>3
<1>8. \A g \in File : file_task'[g] = "off" <=> file_task[g] = "off"  BY <1>3
<1> QED BY <1>1, <1>3, <1>6, <1>7, <1>8, CalmKeeps DEF DownloadsType, Late, Disk

\* What is left of a file that is opened.
LEMMA OpenedFact ==
  ASSUME DownloadsType, NEW f \in File, Opened(f)
  PROVE  /\ disk' \in [File -> Disk] /\ disk'[f] = "part"
         /\ \A g \in File : g # f => disk'[g] = disk[g]
         /\ executable' \in BOOLEAN /\ (executable /\ ~executable' => f = Java)
<1>1. disk' = [disk EXCEPT ![f] = "part"]  BY DEF Opened
<1>2. executable' = (executable /\ ~(f = Java /\ disk[f] = "none"))  BY DEF Opened
<1>3. executable' \in BOOLEAN /\ (executable /\ ~executable' => f = Java)
  BY <1>2, Zenon
<1>4. /\ disk' \in [File -> Disk] /\ disk'[f] = "part"
      /\ \A g \in File : g # f => disk'[g] = disk[g]
  BY <1>1 DEF DownloadsType, Disk
<1> QED BY <1>3, <1>4

LEMMA OpenKeepsReady ==
  ASSUME DownloadsInv, NEW f \in File, Open(f)
  PROVE  DownloadsInv'
<1>1. /\ DownloadsType /\ UNCHANGED <<late, torn, rewritten, abandoned>>
      /\ UNCHANGED <<mod_loader, own, stage, known, count, total, cancelled, launches, file_edits>>
  BY DEF DownloadsInv, Open, Calm, setting, progress, downloads_history
<1>2. /\ file_task[f] = "open" /\ file_task' \in [File -> Task] /\ file_task'[f] = "write"
      /\ \A g \in File : g # f => file_task'[g] = file_task[g]
  BY <1>1, StepFact DEF Open, Task, Pending
<1>3. /\ disk' \in [File -> Disk] /\ disk'[f] = "part"
      /\ \A g \in File : g # f => disk'[g] = disk[g]
      /\ executable' \in BOOLEAN /\ (executable /\ ~executable' => f = Java)
  BY <1>1, OpenedFact DEF Open
<1>4. stage # "idle" /\ \A w \in late : w[1] \in rewritten  BY <1>2, Busy
<1>5. PartIsLeft'  BY <1>1, <1>2, <1>3 DEF DownloadsInv, PartIsLeft
<1>6. JavaRuns'
  <2>1. CASE f = Java  BY <1>2, <2>1 DEF JavaRuns
  <2>2. CASE f # Java
    <3>1. Java \in File  BY DEF File
    <3>2. file_task'[Java] = file_task[Java]  BY <1>2, <2>2, <3>1
    <3>3. executable => executable'  BY <1>3, <2>2
    <3>4. executable \/ abandoned \/ file_task[Java] \in {"write", "written"}  BY DEF DownloadsInv, JavaRuns
    <3> QED BY <1>1, <3>2, <3>3, <3>4, Zenon DEF JavaRuns
  <2> QED BY <2>1, <2>2
<1>7. LateIsTouched'  BY <1>1, <1>4 DEF LateIsTouched
<1>8. ASSUME NEW g \in File
      PROVE  /\ StaysFine(g) => StaysFine(g)'
             /\ file_task'[g] \in {"written", "done"} => Fine(g)'
  <2>1. CASE g = f  BY <1>2, <2>1 DEF StaysFine
  <2>2. CASE g # f
    <3>1. Fine(g)' = Fine(g) /\ file_task'[g] = file_task[g]  BY <1>1, <1>2, <1>3, <2>2 DEF Fine
    <3>2. file_task[g] \in {"written", "done"} => Fine(g)  BY DEF DownloadsInv, ThroughIsFine
    <3>3. StaysFine(g) => StaysFine(g)'  BY <3>1 DEF StaysFine
    <3> QED BY <3>1, <3>2, <3>3
  <2> QED BY <2>1, <2>2
<1>9. \A g \in File : file_task'[g] = "off" <=> file_task[g] = "off"  BY <1>2
<1>10. abandoned' \in BOOLEAN  BY <1>1 DEF DownloadsType
<1> QED BY <1>1, <1>2, <1>3, <1>5, <1>6, <1>7, <1>8, <1>9, <1>10, CalmKeeps DEF DownloadsType, Late

LEMMA WriteKeeps ==
  ASSUME DownloadsInv, NEW f \in File, Write(f)
  PROVE  DownloadsInv'
<1>1. /\ DownloadsType /\ UNCHANGED <<late, executable, rewritten, abandoned>> /\ torn' = torn \ {f}
      /\ UNCHANGED <<mod_loader, own, stage, known, count, total, cancelled, launches, file_edits>>
  BY DEF DownloadsInv, Write, Calm, setting, progress
<1>2. PICK to \in {"written", "done"} : to = IF f = Java THEN "written" ELSE "done"  OBVIOUS
<1>3. /\ file_task[f] = "write" /\ file_task' \in [File -> Task] /\ file_task'[f] = to
      /\ \A g \in File : g # f => file_task'[g] = file_task[g]
  <2>1. Step(f, "write", to)  BY <1>2 DEF Write
  <2> QED BY <1>1, <2>1, StepFact DEF Task, Pending
<1>4. /\ disk' \in [File -> Disk] /\ (disk'[f] = "whole" \/ <<f, "write">> \in late)
      /\ \A g \in File : g # f => disk'[g] = disk[g]
  BY <1>1 DEF Write, Finished, DownloadsType, Disk
<1>5. stage # "idle" /\ \A w \in late : w[1] \in rewritten  BY <1>3, Busy
<1>6. disk'[f] = "whole" \/ f \in rewritten  BY <1>4, <1>5
<1>7. PartIsLeft'  BY <1>1, <1>3, <1>4 DEF DownloadsInv, PartIsLeft
<1>8. JavaRuns'
  <2>1. Java \in File  BY DEF File
  <2>2. file_task[Java] \in {"write", "written"} => file_task'[Java] \in {"write", "written"}
    BY <1>2, <1>3, <2>1
  <2>3. executable \/ abandoned \/ file_task[Java] \in {"write", "written"}  BY DEF DownloadsInv, JavaRuns
  <2> QED BY <1>1, <2>2, <2>3, Zenon DEF JavaRuns
<1>9. LateIsTouched'  BY <1>1, <1>5 DEF LateIsTouched
<1>10. ASSUME NEW g \in File
       PROVE  /\ StaysFine(g) => StaysFine(g)'
              /\ file_task'[g] \in {"written", "done"} => Fine(g)'
  <2>1. CASE g = f
    <3>1. Fine(g)'  BY <1>1, <1>6, <2>1 DEF Fine
    <3> QED BY <3>1 DEF StaysFine
  <2>2. CASE g # f
    <3>1. Fine(g)' = Fine(g) /\ file_task'[g] = file_task[g]  BY <1>1, <1>3, <1>4, <2>2 DEF Fine
    <3>2. file_task[g] \in {"written", "done"} => Fine(g)  BY DEF DownloadsInv, ThroughIsFine
    <3>3. StaysFine(g) => StaysFine(g)'  BY <3>1 DEF StaysFine
    <3> QED BY <3>1, <3>2, <3>3
  <2> QED BY <2>1, <2>2
<1>11. \A g \in File : file_task'[g] = "off" <=> file_task[g] = "off"  BY <1>3
<1>12. executable' \in BOOLEAN /\ abandoned' \in BOOLEAN /\ torn' \in SUBSET File
  BY <1>1 DEF DownloadsType
<1> QED BY <1>1, <1>3, <1>4, <1>7, <1>8, <1>9, <1>10, <1>11, <1>12, CalmKeeps DEF DownloadsType, Late

LEMMA SetPermissionsKeeps ==
  ASSUME DownloadsInv, SetPermissions
  PROVE  DownloadsInv'
<1>1. /\ DownloadsType /\ UNCHANGED <<late, disk, torn, rewritten>> /\ executable' = TRUE /\ abandoned' = FALSE
      /\ UNCHANGED <<mod_loader, own, stage, known, count, total, cancelled, launches, file_edits>>
      /\ Java \in File
  BY DEF DownloadsInv, SetPermissions, Calm, setting, progress, File
<1>2. /\ file_task[Java] = "written" /\ file_task' \in [File -> Task] /\ file_task'[Java] = "done"
      /\ \A g \in File : g # Java => file_task'[g] = file_task[g]
  BY <1>1, StepFact DEF SetPermissions, Task, Pending
<1>3. stage # "idle" /\ \A w \in late : w[1] \in rewritten  BY <1>1, <1>2, Busy
<1>4. PartIsLeft'  BY <1>1, <1>2 DEF DownloadsInv, PartIsLeft
<1>5. JavaRuns' /\ LateIsTouched'  BY <1>1, <1>3 DEF LateIsTouched, JavaRuns
<1>6. ASSUME NEW g \in File
      PROVE  /\ StaysFine(g) => StaysFine(g)'
             /\ file_task'[g] \in {"written", "done"} => Fine(g)'
  <2>1. Fine(g)' = Fine(g)  BY <1>1 DEF Fine
  <2>2. file_task'[g] \in {"written", "done"} => Fine(g)  BY <1>2 DEF DownloadsInv, ThroughIsFine
  <2>3. StaysFine(g) => StaysFine(g)'  BY <1>2, <2>1 DEF StaysFine
  <2> QED BY <2>1, <2>2, <2>3
<1>7. \A g \in File : file_task'[g] = "off" <=> file_task[g] = "off"  BY <1>2
<1> QED BY <1>1, <1>2, <1>4, <1>5, <1>6, <1>7, CalmKeeps DEF DownloadsType, Late, Disk

LEMMA LateOpenKeeps ==
  ASSUME DownloadsInv, NEW f \in File, LateOpen(f)
  PROVE  DownloadsInv'
<1>1. /\ DownloadsType /\ UNCHANGED <<file_task, torn>> /\ abandoned' = (abandoned \/ ~executable')
      /\ late' = (late \ {<<f, "open">>}) \cup {<<f, "write">>} /\ <<f, "open">> \in late
      /\ rewritten' = IF stage = "idle" THEN {} ELSE rewritten \cup {f}
      /\ UNCHANGED <<mod_loader, own, stage, known, count, total, cancelled, launches, file_edits>>
  BY DEF DownloadsInv, LateOpen, Touched, Calm, setting, progress
<1>2. /\ disk' \in [File -> Disk] /\ disk'[f] = "part"
      /\ \A g \in File : g # f => disk'[g] = disk[g]
      /\ executable' \in BOOLEAN
  BY <1>1, OpenedFact DEF LateOpen
<1>3. file_task' \in [File -> Task] /\ late' \in SUBSET Late /\ torn' \in SUBSET File /\ rewritten' \in SUBSET File
      /\ cancelled' \in BOOLEAN /\ launches' \in 0 .. MaxLaunches /\ file_edits' \in 0 .. MaxFileEdits
  BY <1>1 DEF DownloadsType, Task, Late
<1>4. abandoned' \in BOOLEAN /\ (executable' \/ abandoned')  BY <1>1, <1>2, Zenon
<1>5. LateIsTouched'
  <2>1. stage # "idle" => \A w \in late : w[1] \in rewritten  BY DEF DownloadsInv, LateIsTouched
  <2> QED BY <1>1, <2>1 DEF LateIsTouched
<1>6. PartIsLeft'
  <2> SUFFICES ASSUME NEW g \in File, disk'[g] = "part"
               PROVE  g \in torn' \/ file_task'[g] = "write" \/ <<g, "write">> \in late'
    BY DEF PartIsLeft
  <2>1. CASE g = f  BY <1>1, <2>1
  <2>2. CASE g # f
    <3>1. g \in torn \/ file_task[g] = "write" \/ <<g, "write">> \in late
      BY <1>2, <2>2 DEF DownloadsInv, PartIsLeft
    <3> QED BY <1>1, <3>1
  <2> QED BY <2>1, <2>2
<1>7. JavaRuns'  BY <1>4 DEF JavaRuns
<1>8. ASSUME stage # "idle", NEW g \in File
      PROVE  /\ StaysFine(g) => StaysFine(g)'
             /\ file_task'[g] \in {"written", "done"} => Fine(g)'
  <2>1. Fine(g) => Fine(g)'  BY <1>1, <1>2, <1>8 DEF Fine
  <2>2. file_task[g] \in {"written", "done"} => Fine(g)  BY DEF DownloadsInv, ThroughIsFine
  <2>3. StaysFine(g) => StaysFine(g)'  BY <1>1, <2>1 DEF StaysFine
  <2> QED BY <1>1, <2>1, <2>2, <2>3
<1> QED BY <1>1, <1>2, <1>3, <1>4, <1>5, <1>6, <1>7, <1>8, CalmKeeps

LEMMA LateWriteKeeps ==
  ASSUME DownloadsInv, NEW f \in File, LateWrite(f)
  PROVE  DownloadsInv'
<1>1. /\ DownloadsType /\ UNCHANGED <<file_task, executable, abandoned>>
      /\ late' = late \ {<<f, "write">>} /\ <<f, "write">> \in late
      /\ rewritten' = IF stage = "idle" THEN {} ELSE rewritten \cup {f}
      /\ torn' = IF file_task[f] = "write" THEN torn ELSE torn \ {f}
      /\ UNCHANGED <<mod_loader, own, stage, known, count, total, cancelled, launches, file_edits>>
  BY DEF DownloadsInv, LateWrite, Touched, Calm, setting, progress
<1>2. /\ disk' \in [File -> Disk] /\ (disk'[f] = "whole" \/ file_task[f] = "write")
      /\ \A g \in File : g # f => disk'[g] = disk[g]
  BY <1>1 DEF LateWrite, Finished, DownloadsType, Disk
<1>3. file_task' \in [File -> Task] /\ late' \in SUBSET Late /\ torn' \in SUBSET File /\ rewritten' \in SUBSET File
      /\ cancelled' \in BOOLEAN /\ launches' \in 0 .. MaxLaunches /\ file_edits' \in 0 .. MaxFileEdits
  BY <1>1 DEF DownloadsType, Task, Late
<1>4. executable' \in BOOLEAN /\ abandoned' \in BOOLEAN  BY <1>1 DEF DownloadsType
<1>5. LateIsTouched'
  <2>1. stage # "idle" => \A w \in late : w[1] \in rewritten  BY DEF DownloadsInv, LateIsTouched
  <2> QED BY <1>1, <2>1 DEF LateIsTouched
<1>6. PartIsLeft'
  <2> SUFFICES ASSUME NEW g \in File, disk'[g] = "part"
               PROVE  g \in torn' \/ file_task'[g] = "write" \/ <<g, "write">> \in late'
    BY DEF PartIsLeft
  <2>1. CASE g = f  BY <1>1, <1>2, <2>1
  <2>2. CASE g # f
    <3>1. g \in torn \/ file_task[g] = "write" \/ <<g, "write">> \in late
      BY <1>2, <2>2 DEF DownloadsInv, PartIsLeft
    <3> QED BY <1>1, <2>2, <3>1
  <2> QED BY <2>1, <2>2
<1>7. JavaRuns'
  <2>1. executable \/ abandoned \/ file_task[Java] \in {"write", "written"}  BY DEF DownloadsInv, JavaRuns
  <2> QED BY <1>1, <2>1, Zenon DEF JavaRuns
<1>8. ASSUME stage # "idle", NEW g \in File
      PROVE  /\ StaysFine(g) => StaysFine(g)'
             /\ file_task'[g] \in {"written", "done"} => Fine(g)'
  <2>1. Fine(g) => Fine(g)'  BY <1>1, <1>2, <1>8 DEF Fine
  <2>2. file_task[g] \in {"written", "done"} => Fine(g)  BY DEF DownloadsInv, ThroughIsFine
  <2>3. StaysFine(g) => StaysFine(g)'  BY <1>1, <2>1 DEF StaysFine
  <2> QED BY <1>1, <2>1, <2>2, <2>3
<1> QED BY <1>1, <1>2, <1>3, <1>4, <1>5, <1>6, <1>7, <1>8, CalmKeeps

LEMMA EditKeeps ==
  ASSUME DownloadsAssumption, DownloadsInv, NEW f \in File, FileEdited(f)
  PROVE  DownloadsInv'
<1>1. /\ DownloadsType /\ UNCHANGED <<file_task, late, executable, abandoned>> /\ torn' = torn \cup {f}
      /\ rewritten' = IF stage = "idle" THEN {} ELSE rewritten \cup {f}
      /\ UNCHANGED <<mod_loader, own, stage, known, count, total, cancelled, launches>>
  BY DEF DownloadsInv, FileEdited, Touched, setting, progress
<1>2. /\ disk' \in [File -> Disk] /\ \A g \in File : g # f => disk'[g] = disk[g]
  BY <1>1 DEF FileEdited, DownloadsType, Disk
<1>3. /\ file_task' \in [File -> Task] /\ late' \in SUBSET Late /\ torn' \in SUBSET File /\ rewritten' \in SUBSET File
      /\ cancelled' \in BOOLEAN /\ launches' \in 0 .. MaxLaunches
  BY <1>1 DEF DownloadsType, Task, Late
<1>4. file_edits' \in 0 .. MaxFileEdits  BY <1>1 DEF FileEdited, DownloadsType, DownloadsAssumption
<1>5. executable' \in BOOLEAN /\ abandoned' \in BOOLEAN  BY <1>1 DEF DownloadsType
<1>6. LateIsTouched'
  <2>1. stage # "idle" => \A w \in late : w[1] \in rewritten  BY DEF DownloadsInv, LateIsTouched
  <2> QED BY <1>1, <2>1 DEF LateIsTouched
<1>7. PartIsLeft'  BY <1>1, <1>2 DEF DownloadsInv, PartIsLeft
<1>8. JavaRuns'
  <2>1. executable \/ abandoned \/ file_task[Java] \in {"write", "written"}  BY DEF DownloadsInv, JavaRuns
  <2> QED BY <1>1, <2>1, Zenon DEF JavaRuns
<1>9. ASSUME stage # "idle", NEW g \in File
      PROVE  /\ StaysFine(g) => StaysFine(g)'
             /\ file_task'[g] \in {"written", "done"} => Fine(g)'
  <2>1. Fine(g) => Fine(g)'  BY <1>1, <1>2, <1>9 DEF Fine
  <2>2. file_task[g] \in {"written", "done"} => Fine(g)  BY DEF DownloadsInv, ThroughIsFine
  <2>3. StaysFine(g) => StaysFine(g)'  BY <1>1, <2>1 DEF StaysFine
  <2> QED BY <1>1, <2>1, <2>2, <2>3
<1> QED BY <1>1, <1>2, <1>3, <1>4, <1>5, <1>6, <1>7, <1>8, <1>9, CalmKeeps

\* Nothing that matters is done.
LEMMA StillKeeps ==
  ASSUME DownloadsInv, cancelled' \in BOOLEAN,
         UNCHANGED <<setting, stage, file_task, late, disk, executable, known, progress, launches, file_edits, downloads_history>>
  PROVE  DownloadsInv'
<1>1. UNCHANGED <<mod_loader, own, stage, file_task, late, disk, executable, known, count, total, launches, file_edits,
                  torn, rewritten, abandoned>>
  BY DEF setting, progress, downloads_history
<1>2. DownloadsType'  BY <1>1 DEF DownloadsInv, DownloadsType
<1>3. CountsUp'  BY <1>1 DEF DownloadsInv, CountsUp, CountAt, Sum, ByJava, IsForge, counted_before
<1>4. OnlyNeeded' /\ LateIsTouched' /\ PartIsLeft' /\ JavaRuns'
  BY <1>1 DEF DownloadsInv, OnlyNeeded, LateIsTouched, PartIsLeft, JavaRuns, Needed
<1>5. ThroughIsFine'  BY <1>1 DEF DownloadsInv, ThroughIsFine, Fine
<1>6. GotIsFine'
  <2>1. \A f : Fine(f)' = Fine(f) /\ StaysFine(f)' = StaysFine(f)  BY <1>1 DEF Fine, StaysFine
  <2>2. Needed("join")' = Needed("join") /\ IsForge' = IsForge  BY <1>1 DEF Needed, IsForge
  <2> QED BY <1>1, <2>1, <2>2 DEF DownloadsInv, GotIsFine
<1> QED BY <1>2, <1>3, <1>4, <1>5, <1>6 DEF DownloadsInv

\* What a launch drops, its writes excepted.
LEMMA JavaIsLeft ==
  ASSUME DownloadsInv, DroppedJava
  PROVE  executable' \in BOOLEAN /\ abandoned' \in BOOLEAN /\ (executable' \/ abandoned')
<1>1. executable \in BOOLEAN /\ abandoned \in BOOLEAN  BY DEF DownloadsInv, DownloadsType
<1>2. executable' = executable \/ executable' = (executable \/ file_task[Java] = "written")  BY DEF DroppedJava
<1>3. abandoned' = (abandoned \/ file_task[Java] \in Pending)  BY DEF DroppedJava
<1>4. executable \/ abandoned \/ file_task[Java] \in Pending  BY DEF DownloadsInv, JavaRuns, Pending
<1>5. executable' \in BOOLEAN /\ (executable => executable')
  <2>1. CASE executable' = executable  BY <1>1, <2>1
  <2>2. CASE executable' = (executable \/ file_task[Java] = "written")  BY <1>1, <2>2, Zenon
  <2> QED BY <1>2, <2>1, <2>2
<1>6. abandoned' \in BOOLEAN /\ (abandoned \/ file_task[Java] \in Pending => abandoned')
  BY <1>1, <1>3, Zenon
<1> QED BY <1>4, <1>5, <1>6, Zenon

LEMMA DroppedKeeps ==
  ASSUME DownloadsAssumption, DownloadsInv, DropTasks, DroppedJava
  PROVE  DownloadsInv'
<1>1. /\ DownloadsType /\ End /\ disk' = disk
      /\ late' = late \cup {<<f, file_task[f]>> : f \in {g \in File : file_task[g] \in {"open", "write"}}}
      /\ torn' = torn \cup {f \in File : file_task[f] \in {"open", "write"}}
  BY DEF DownloadsInv, DropTasks
<1>2. late' \in SUBSET Late /\ disk' \in [File -> Disk] /\ torn' \in SUBSET File
  BY <1>1 DEF DownloadsType, Late, Disk
<1>3. \A f \in File : disk'[f] = "part" => f \in torn' \/ <<f, "write">> \in late'
  BY <1>1 DEF DownloadsInv, PartIsLeft
<1> QED BY <1>1, <1>2, <1>3, JavaIsLeft, EndKeeps

LEMMA WriteFailedKeeps ==
  ASSUME DownloadsAssumption, DownloadsInv, NEW f \in File, WriteFailed(f)
  PROVE  DownloadsInv'
<1>1. /\ DownloadsType /\ End /\ disk' = disk /\ DroppedJava
      /\ late' = late \cup {<<g, file_task[g]>> : g \in {g \in File \ {f} : file_task[g] \in {"open", "write"}}}
      /\ torn' = torn \cup {g \in File : file_task[g] \in {"open", "write"}}
  BY DEF DownloadsInv, WriteFailed
<1>2. late' \in SUBSET Late /\ disk' \in [File -> Disk] /\ torn' \in SUBSET File
  BY <1>1 DEF DownloadsType, Late, Disk
<1>3. \A g \in File : disk'[g] = "part" => g \in torn' \/ <<g, "write">> \in late'
  BY <1>1 DEF DownloadsInv, PartIsLeft
<1> QED BY <1>1, <1>2, <1>3, JavaIsLeft, EndKeeps

\* Where nothing runs, nothing is dropped.
LEMMA RestEnds ==
  ASSUME DownloadsAssumption, DownloadsInv, End, UNCHANGED <<late, executable, abandoned>>,
         stage \in {"process", "natives", "running"},
         \/ UNCHANGED <<disk, torn>>
         \/ disk' = [disk EXCEPT ![Output] = "part"] /\ torn' = torn \cup {Output}
  PROVE  DownloadsInv'
<1>1. DownloadsType /\ (\A f \in File : file_task[f] = "off") /\ Java \in File /\ Output \in File
  BY AtRest DEF DownloadsInv, File
<1>2. late' \in SUBSET Late /\ disk' \in [File -> Disk] /\ torn' \in SUBSET File
      /\ executable' \in BOOLEAN /\ abandoned' \in BOOLEAN
  BY <1>1 DEF DownloadsType, Late, Disk
<1>3. \A f \in File : disk'[f] = "part" => f \in torn' \/ <<f, "write">> \in late'
  BY <1>1 DEF DownloadsInv, PartIsLeft, DownloadsType
<1>4. executable' \/ abandoned'
  <2>1. file_task[Java] \notin {"write", "written"}  BY <1>1
  <2> QED BY <2>1, Zenon DEF DownloadsInv, JavaRuns
<1> QED BY <1>2, <1>3, <1>4, EndKeeps

LEMMA CrashKeeps ==
  ASSUME DownloadsAssumption, DownloadsInv, LauncherCrashes
  PROVE  DownloadsInv'
<1>1. /\ DownloadsType /\ End /\ late' = {} /\ UNCHANGED executable /\ Output \in File
      /\ abandoned' = (abandoned \/ file_task[Java] \in Pending)
      /\ torn' = torn \cup {f \in File : file_task[f] = "write" \/ <<f, "write">> \in late}
               \cup (IF stage = "process" /\ ~valid(Output) THEN {Output} ELSE {})
      /\ disk' = IF stage = "process" /\ ~valid(Output) THEN [disk EXCEPT ![Output] = "part"] ELSE disk
  BY DEF DownloadsInv, LauncherCrashes, File
<1>2. late' \in SUBSET Late /\ torn' \in SUBSET File /\ executable' \in BOOLEAN
  BY <1>1 DEF DownloadsType, Late
<1>3. /\ disk' \in [File -> Disk]
      /\ \A f \in File : disk'[f] = "part" => f \in torn'
  <2>1. \A f \in File : disk[f] = "part" => f \in torn'
    BY <1>1 DEF DownloadsInv, PartIsLeft
  <2>2. CASE stage = "process" /\ ~valid(Output)
    <3>1. disk' = [disk EXCEPT ![Output] = "part"] /\ Output \in torn'  BY <1>1, <2>2
    <3> QED BY <1>1, <2>1, <3>1 DEF DownloadsType, Disk
  <2>3. CASE ~(stage = "process" /\ ~valid(Output))
    <3>1. disk' = disk  BY <1>1, <2>3
    <3> QED BY <1>1, <2>1, <3>1 DEF DownloadsType, Disk
  <2> QED BY <2>2, <2>3
<1>4. abandoned' \in BOOLEAN /\ (executable' \/ abandoned')
  <2>1. executable \/ abandoned \/ file_task[Java] \in Pending  BY DEF DownloadsInv, JavaRuns, Pending
  <2>2. abandoned' \in BOOLEAN /\ (abandoned \/ file_task[Java] \in Pending => abandoned')  BY <1>1, Zenon
  <2> QED BY <1>1, <2>1, <2>2, Zenon
<1> QED BY <1>1, <1>2, <1>3, <1>4, EndKeeps

LEMMA BeginKeeps ==
  ASSUME DownloadsAssumption, DownloadsInv, BeginLaunch
  PROVE  DownloadsInv'
<1>1. /\ DownloadsType /\ stage = "idle" /\ stage' = "version" /\ rewritten' = {w[1] : w \in late}
      /\ launches' = launches + 1 /\ launches < MaxLaunches
      /\ file_task' = [f \in File |-> IF f \in Needed("version") THEN "check" ELSE "off"]
      /\ UNCHANGED <<mod_loader, own, late, disk, executable, known, count, cancelled, file_edits, torn, abandoned>>
  BY DEF DownloadsInv, BeginLaunch, Enter, setting
<1>2. Needed("version") = {} /\ \A f \in File : file_task[f] = "off"  BY <1>1, NeededFact, AtRest
<1>3. file_task' \in [File -> Task] /\ \A f \in File : file_task'[f] = "off"  BY <1>1, <1>2 DEF Task
<1>4. total' = Sum /\ Sum \in {7, 10, 13}  BY <1>1, SumFact DEF BeginLaunch, Sum
<1>5. DownloadsType'
  <2>1. rewritten' \subseteq File  BY <1>1 DEF DownloadsType
  <2>2. launches' \in 0 .. MaxLaunches  BY <1>1 DEF DownloadsType, DownloadsAssumption
  <2>3. total' \in Nat  BY <1>4
  <2> QED BY <1>1, <1>3, <2>1, <2>2, <2>3 DEF DownloadsType, Stage, Task
<1>6. CountsUp'
  <2>1. count = 0  BY <1>1 DEF DownloadsInv, CountsUp, CountAt
  <2>2. Sum' = Sum  BY <1>1 DEF Sum
  <2> QED BY <1>1, <1>4, <2>1, <2>2 DEF CountsUp, CountAt
<1>7. OnlyNeeded' /\ ThroughIsFine' /\ LateIsTouched' /\ GotIsFine'
  BY <1>1, <1>3 DEF OnlyNeeded, ThroughIsFine, LateIsTouched, GotIsFine
<1>8. PartIsLeft'  BY <1>1, <1>2, <1>3 DEF DownloadsInv, PartIsLeft
<1>9. JavaRuns'
  <2>1. executable \/ abandoned  BY <1>2 DEF DownloadsInv, JavaRuns, File
  <2> QED BY <1>1, <2>1 DEF JavaRuns
<1> QED BY <1>5, <1>6, <1>7, <1>8, <1>9 DEF DownloadsInv

\* Where every task is through or off, what stays fine is fine.
LEMMA DoneIsFine ==
  ASSUME DownloadsInv, NEW f \in File, file_task[f] \in {"off", "done"}
  PROVE  /\ file_task[f] = "done" => Fine(f)
         /\ StaysFine(f) => Fine(f)
BY DEF DownloadsInv, ThroughIsFine, StaysFine

\* A launch goes on, and changes nothing but its progress.
LEMMA GoesOn ==
  ASSUME DownloadsAssumption, DownloadsInv, NEW s \in Stage \ {"idle"}, NEW n \in Nat, Enter(s), CountedOn(n),
         stage # "idle", \A f \in File : file_task[f] \in {"off", "done"}, known' \in SUBSET File,
         CountsUp', GotIsFine',
         UNCHANGED <<setting, late, disk, executable, cancelled, launches, file_edits, downloads_history>>
  PROVE  DownloadsInv'
<1>1. DownloadsType /\ UNCHANGED <<torn, rewritten, abandoned, total>> /\ count' = count + n
  BY DEF DownloadsInv, downloads_history, CountedOn
<1>2. disk' \in [File -> Disk] /\ torn' \in SUBSET File /\ count' \in Nat
  BY <1>1 DEF DownloadsType, Disk
<1>3. \A f \in File : disk'[f] = "part" => f \in torn' \/ <<f, "write">> \in late
  BY <1>1 DEF DownloadsInv, PartIsLeft
<1> QED BY <1>1, <1>2, <1>3, EnterKeeps

LEMMA MetadataKeeps ==
  ASSUME DownloadsAssumption, DownloadsInv, Metadata
  PROVE  DownloadsInv'
<1>1. /\ stage = "version" /\ \A f \in File : file_task[f] \in {"off", "done"}
  BY AtRest DEF Metadata
<1>2. /\ UNCHANGED <<setting, late, disk, executable, cancelled, launches, file_edits, downloads_history>>
      /\ mod_loader' = mod_loader /\ own' = own
  BY DEF Metadata, setting
<1>3. count = 0 /\ total = Sum /\ Sum \in {7, 10, 13} /\ Sum' = Sum /\ IsForge' = IsForge
  BY <1>1, <1>2, SumFact DEF DownloadsInv, CountsUp, CountAt, Sum, IsForge
<1>4. CASE IsForge
  <2>1. Enter("installer") /\ CountedOn(2) /\ known' \in {known, known \cup {Installer}}
    BY <1>4 DEF Metadata, download_sha1
  <2>2. known' \in SUBSET File  BY <2>1 DEF DownloadsInv, DownloadsType, File
  <2>3. stage' = "installer" /\ count' = 2 /\ total' = Sum  BY <1>3, <2>1 DEF Enter, CountedOn
  <2>4. CountsUp'  BY <1>3, <1>4, <2>3 DEF CountsUp, CountAt
  <2>5. GotIsFine'  BY <2>3 DEF GotIsFine
  <2> QED BY <1>1, <1>2, <2>1, <2>2, <2>4, <2>5, GoesOn DEF Stage
<1>5. CASE ~IsForge
  <2>1. Enter("join") /\ CountedOn(1 + (total - 6)) /\ known' = known
    BY <1>5 DEF Metadata
  <2>2. stage' = "join" /\ count' = Sum - 5 /\ total' = Sum  BY <1>3, <2>1 DEF Enter, CountedOn
  <2>3. CountsUp'  BY <1>3, <1>5, <2>2 DEF CountsUp, CountAt
  <2>4. GotIsFine'  BY <1>2, <1>3, <1>5, <2>2 DEF GotIsFine, IsForge
  <2>5. known' \in SUBSET File /\ 1 + (total - 6) \in Nat
    BY <1>3, <2>1 DEF DownloadsInv, DownloadsType
  <2> QED BY <1>1, <1>2, <2>1, <2>3, <2>4, <2>5, GoesOn DEF Stage
<1> QED BY <1>4, <1>5

\* The loader does not change, and what follows from it.
LEMMA Rigid ==
  ASSUME UNCHANGED setting
  PROVE  /\ mod_loader' = mod_loader /\ own' = own /\ Sum' = Sum /\ ByJava' = ByJava /\ IsForge' = IsForge
         /\ counted_before' = counted_before /\ Needed("join")' = Needed("join")
BY DEF setting, Sum, ByJava, IsForge, counted_before, Needed

LEMMA InstalledKeeps ==
  ASSUME DownloadsAssumption, DownloadsInv, Installed
  PROVE  DownloadsInv'
<1>1. /\ stage = "installer" /\ Done("installer") /\ stage' = "profile" /\ Enter("profile")
      /\ UNCHANGED <<setting, late, disk, executable, known, cancelled, launches, file_edits, downloads_history>>
  BY DEF Installed, Done, Enter
<1>2. \A f \in File : file_task[f] \in {"off", "done"}  BY <1>1, AtDone
<1>3. PICK n \in Nat : n = (IF own THEN 1 ELSE 2) /\ CountedOn(n)  BY DEF Installed
<1>4. IsForge /\ count = 2 /\ total = Sum  BY <1>1 DEF DownloadsInv, CountsUp, CountAt
<1>5. n = 1 + ByJava /\ ByJava \in {0, 1}  BY <1>3 DEF ByJava
<1>6. CountsUp'
  <2>1. count' = 3 + ByJava /\ total' = Sum  BY <1>3, <1>4, <1>5 DEF CountedOn
  <2> QED BY <1>1, <1>4, <2>1, Rigid DEF CountsUp, CountAt
<1>7. GotIsFine'
  <2>1. Installer \in Needed("installer") /\ Installer \in File  BY DEF Needed, File
  <2>2. Fine(Installer)  BY <1>1, <2>1, DoneIsFine DEF Done
  <2>3. Fine(Installer)'  BY <1>1, <2>2 DEF Fine, downloads_history
  <2> QED BY <1>1, <2>3 DEF GotIsFine, StaysFine
<1>8. known' \in SUBSET File  BY <1>1 DEF DownloadsInv, DownloadsType
<1> QED BY <1>1, <1>2, <1>3, <1>6, <1>7, <1>8, GoesOn DEF Stage

LEMMA ProfileKeeps ==
  ASSUME DownloadsAssumption, DownloadsInv, Profile
  PROVE  DownloadsInv'
<1>1. /\ stage = "profile" /\ stage' = "libraries" /\ Enter("libraries") /\ CountedOn(counted_before)
      /\ UNCHANGED <<setting, late, disk, executable, known, cancelled, launches, file_edits, downloads_history>>
  BY DEF Profile, Enter
<1>2. \A f \in File : file_task[f] \in {"off", "done"}  BY <1>1, AtRest
<1>3. IsForge /\ count = 3 + ByJava /\ total = Sum /\ counted_before \in Nat /\ ByJava \in {0, 1}
  BY <1>1, SumFact DEF DownloadsInv, CountsUp, CountAt
<1>4. CountsUp'
  <2>1. count' = 3 + ByJava + counted_before /\ total' = Sum  BY <1>1, <1>3 DEF CountedOn
  <2> QED BY <1>1, <1>3, <2>1, Rigid DEF CountsUp, CountAt
<1>5. GotIsFine'
  <2>1. Installer \in File  BY DEF File
  <2>2. Fine(Installer)  BY <1>1, <1>2, <1>3, <2>1, DoneIsFine DEF DownloadsInv, GotIsFine
  <2>3. Fine(Installer)'  BY <1>1, <2>2 DEF Fine, downloads_history
  <2> QED BY <1>1, <2>3 DEF GotIsFine, StaysFine
<1>6. known' \in SUBSET File  BY <1>1 DEF DownloadsInv, DownloadsType
<1> QED BY <1>1, <1>2, <1>3, <1>4, <1>5, <1>6, GoesOn DEF Stage

LEMMA LibrariesKeep ==
  ASSUME DownloadsAssumption, DownloadsInv, LibrariesThere
  PROVE  DownloadsInv'
<1>1. /\ stage = "libraries" /\ Done("libraries")
      /\ UNCHANGED <<setting, late, disk, executable, known, cancelled, launches, file_edits, downloads_history>>
  BY DEF LibrariesThere, Done
<1>2. \A f \in File : file_task[f] \in {"off", "done"}  BY <1>1, AtDone
<1>3. /\ IsForge /\ count = 3 + ByJava + counted_before /\ total = Sum /\ ByJava \in {0, 1}
      /\ counted_before = IF mod_loader = "legacy" THEN 2 ELSE 1
  BY <1>1, SumFact DEF DownloadsInv, CountsUp, CountAt, counted_before
<1>4. Fine(Installer)'
  <2>1. Installer \in File  BY DEF File
  <2>2. Fine(Installer)  BY <1>1, <1>2, <1>3, <2>1, DoneIsFine DEF DownloadsInv, GotIsFine
  <2> QED BY <1>1, <2>2 DEF Fine, downloads_history
<1>5. known' \in SUBSET File  BY <1>1 DEF DownloadsInv, DownloadsType
<1>6. CASE mod_loader = "forge"
  <2>1. Enter("process") /\ CountedOn(1)  BY <1>6 DEF LibrariesThere
  <2>2. stage' = "process" /\ count' = 5 + ByJava /\ total' = Sum  BY <1>3, <1>6, <2>1 DEF Enter, CountedOn
  <2>3. CountsUp'  BY <1>1, <1>3, <1>6, <2>2, Rigid DEF CountsUp, CountAt
  <2>4. GotIsFine'  BY <1>4, <2>2 DEF GotIsFine, StaysFine
  <2> QED BY <1>1, <1>2, <1>5, <2>1, <2>3, <2>4, GoesOn DEF Stage
<1>7. CASE mod_loader # "forge"
  <2>1. Enter("join") /\ CountedOn(2) /\ mod_loader = "legacy"  BY <1>3, <1>7 DEF LibrariesThere, IsForge
  <2>2. stage' = "join" /\ count' = 7 + ByJava /\ total' = Sum  BY <1>3, <2>1 DEF Enter, CountedOn
  <2>3. CountsUp'  BY <1>1, <1>3, <2>2, Rigid DEF CountsUp, CountAt
  <2>4. GotIsFine'  BY <1>1, <1>4, <1>7, <2>2, Rigid DEF GotIsFine, StaysFine
  <2> QED BY <1>1, <1>2, <1>5, <2>1, <2>3, <2>4, GoesOn DEF Stage
<1> QED BY <1>6, <1>7

LEMMA SkipKeeps ==
  ASSUME DownloadsAssumption, DownloadsInv, SkipProcessor
  PROVE  DownloadsInv'
<1>1. /\ stage = "process" /\ stage' = "join" /\ Enter("join") /\ CountedOn(2) /\ valid(Output)
      /\ UNCHANGED <<setting, late, disk, executable, known, cancelled, launches, file_edits, downloads_history>>
  BY DEF SkipProcessor, Enter
<1>2. /\ \A f \in File : file_task[f] = "off"
      /\ Installer \in File /\ Output \in File
  BY <1>1, AtRest DEF File
<1>3. /\ mod_loader = "forge" /\ IsForge /\ count = 5 + ByJava /\ total = Sum /\ ByJava \in {0, 1}
  BY <1>1, SumFact DEF DownloadsInv, CountsUp, CountAt
<1>4. CountsUp'
  <2>1. count' = 7 + ByJava /\ total' = Sum  BY <1>1, <1>3 DEF CountedOn
  <2> QED BY <1>1, <1>3, <2>1, Rigid DEF CountsUp, CountAt
<1>5. Fine(Installer)  BY <1>1, <1>2, <1>3, DoneIsFine DEF DownloadsInv, GotIsFine
<1>6. Fine(Output)
  <2>1. CASE Output \in known  BY <1>1, <2>1 DEF valid, Fine
  <2>2. CASE Output \notin known
    <3>1. disk[Output] \in {"part", "whole"}  BY <1>1, <1>2, <2>2 DEF valid, DownloadsInv, DownloadsType
    <3>2. disk[Output] = "part" => Output \in torn \/ <<Output, "write">> \in late
      BY <1>2 DEF DownloadsInv, PartIsLeft
    <3>3. <<Output, "write">> \in late => Output \in rewritten  BY <1>1 DEF DownloadsInv, LateIsTouched
    <3> QED BY <2>2, <3>1, <3>2, <3>3 DEF Fine
  <2> QED BY <2>1, <2>2
<1>7. Fine(Installer)' /\ Fine(Output)'  BY <1>1, <1>5, <1>6 DEF Fine, downloads_history
<1>8. GotIsFine'  BY <1>1, <1>7 DEF GotIsFine, StaysFine
<1>9. known' \in SUBSET File  BY <1>1 DEF DownloadsInv, DownloadsType
<1> QED BY <1>1, <1>2, <1>4, <1>8, <1>9, GoesOn DEF Stage

LEMMA ProcessorKeeps ==
  ASSUME DownloadsAssumption, DownloadsInv, RunProcessor
  PROVE  DownloadsInv'
<1>1. /\ stage = "process" /\ stage' = "join" /\ Enter("join") /\ CountedOn(2)
      /\ disk' = [disk EXCEPT ![Output] = "whole"] /\ torn' = torn \ {Output}
      /\ UNCHANGED <<setting, late, executable, known, cancelled, launches, file_edits, rewritten, abandoned>>
  BY DEF RunProcessor, Enter
<1>2. /\ DownloadsType /\ \A f \in File : file_task[f] = "off"
      /\ Installer \in File /\ Output \in File
  BY <1>1, AtRest DEF DownloadsInv, File
<1>3. /\ mod_loader = "forge" /\ IsForge /\ count = 5 + ByJava /\ total = Sum /\ ByJava \in {0, 1}
  BY <1>1, SumFact DEF DownloadsInv, CountsUp, CountAt
<1>4. count' = 7 + ByJava /\ total' = total /\ count' \in Nat  BY <1>1, <1>3 DEF CountedOn
<1>5. CountsUp'  BY <1>1, <1>3, <1>4, Rigid DEF CountsUp, CountAt
<1>6. /\ disk' \in [File -> Disk] /\ disk'[Output] = "whole"
      /\ \A f \in File : f # Output => disk'[f] = disk[f]
  BY <1>1, <1>2 DEF DownloadsType, Disk
<1>7. Fine(Installer)  BY <1>1, <1>2, <1>3, DoneIsFine DEF DownloadsInv, GotIsFine
<1>8. Fine(Installer)' /\ Fine(Output)'  BY <1>1, <1>2, <1>6, <1>7 DEF Fine
<1>9. GotIsFine'  BY <1>1, <1>8 DEF GotIsFine, StaysFine
<1>10. known' \in SUBSET File /\ torn' \in SUBSET File  BY <1>1, <1>2 DEF DownloadsType
<1>11. \A f \in File : disk'[f] = "part" => f \in torn' \/ <<f, "write">> \in late
  BY <1>1, <1>2, <1>6 DEF DownloadsInv, PartIsLeft
<1> QED BY <1>1, <1>2, <1>4, <1>5, <1>6, <1>9, <1>10, <1>11, EnterKeeps DEF Stage

LEMMA JoinedKeeps ==
  ASSUME DownloadsAssumption, DownloadsInv, Joined
  PROVE  DownloadsInv'
<1>1. /\ stage = "join" /\ Done("join") /\ stage' = "natives" /\ Enter("natives")
      /\ UNCHANGED <<setting, late, disk, executable, known, cancelled, launches, file_edits, downloads_history>>
  BY DEF Joined, Done, Enter
<1>2. PICK n \in Nat : n = (IF own THEN 3 ELSE 4) /\ CountedOn(n)  BY DEF Joined
<1>3. \A f \in File : file_task[f] \in {"off", "done"}  BY <1>1, AtDone
<1>4. /\ n = 3 + ByJava /\ ByJava \in {0, 1} /\ Sum \in {7, 10, 13} /\ total = Sum
      /\ count = IF IsForge THEN 7 + ByJava ELSE Sum - 5
  BY <1>1, <1>2, SumFact DEF ByJava, DownloadsInv, CountsUp, CountAt
<1>5. CountsUp'
  <2>1. count' = (IF IsForge THEN 10 + 2 * ByJava ELSE Sum - 2 + ByJava) /\ total' = Sum
    BY <1>2, <1>4 DEF CountedOn
  <2> QED BY <1>1, <2>1, Rigid DEF CountsUp, CountAt
<1>6. \A f \in File : Fine(f) => Fine(f)'  BY <1>1 DEF Fine, downloads_history
<1>7. GotIsFine'
  <2>1. Installer \in File /\ Output \in File /\ Needed("join") \subseteq File
    BY NeededFact DEF File, Stage
  <2>2. IsForge' => Fine(Installer)'
    BY <1>1, <1>3, <1>6, <2>1, DoneIsFine, Rigid DEF DownloadsInv, GotIsFine
  <2>3. mod_loader' = "forge" => Fine(Output)'
    BY <1>1, <1>3, <1>6, <2>1, DoneIsFine, Rigid DEF DownloadsInv, GotIsFine
  <2>4. ASSUME NEW f \in Needed("join") PROVE Fine(f)'
    <3>1. f \in File /\ file_task[f] = "done"  BY <1>1, <2>1 DEF Done
    <3>2. Fine(f)  BY <3>1, DoneIsFine
    <3> QED BY <1>6, <3>1, <3>2
  <2>5. Needed("join")' = Needed("join")  BY <1>1, Rigid
  <2> QED BY <2>2, <2>3, <2>4, <2>5 DEF GotIsFine, StaysFine
<1>8. known' \in SUBSET File  BY <1>1 DEF DownloadsInv, DownloadsType
<1> QED BY <1>1, <1>2, <1>3, <1>5, <1>7, <1>8, GoesOn DEF Stage

LEMMA StartKeeps ==
  ASSUME DownloadsAssumption, DownloadsInv, Start
  PROVE  DownloadsInv'
<1>1. /\ stage = "natives" /\ stage' = "running" /\ file_task' = Off /\ CountedOn(1)
      /\ UNCHANGED <<setting, late, disk, executable, known, cancelled, launches, file_edits, downloads_history>>
  BY DEF Start
<1>2. Needed("running") = {} /\ \A f \in File : file_task[f] \in {"off", "done"}
  BY <1>1, NeededFact, AtRest
<1>3. Enter("running")  BY <1>1, <1>2 DEF Enter, Off
<1>4. /\ count = (IF IsForge THEN 10 + 2 * ByJava ELSE Sum - 2 + ByJava) /\ total = Sum
      /\ ByJava \in {0, 1} /\ Sum \in {7, 10, 13}
  BY <1>1, SumFact DEF DownloadsInv, CountsUp, CountAt
<1>5. CountsUp'
  <2>1. count' = (IF IsForge THEN 11 + 2 * ByJava ELSE Sum - 1 + ByJava) /\ total' = Sum
    BY <1>1, <1>4 DEF CountedOn
  <2> QED BY <1>1, <2>1, Rigid DEF CountsUp, CountAt
<1>6. GotIsFine'  BY <1>1 DEF GotIsFine
<1>7. known' \in SUBSET File  BY <1>1 DEF DownloadsInv, DownloadsType
<1> QED BY <1>1, <1>2, <1>3, <1>5, <1>6, <1>7, GoesOn DEF Stage

\* Every step of the launches keeps it.
LEMMA DownloadsStep ==
  ASSUME DownloadsAssumption, DownloadsInv, [DownloadsNext]_downloads_vars
  PROVE  DownloadsInv'
<1>1. CASE UNCHANGED downloads_vars
  <2>1. cancelled' \in BOOLEAN  BY <1>1 DEF downloads_vars, DownloadsInv, DownloadsType
  <2> QED BY <1>1, <2>1, StillKeeps DEF downloads_vars
<1>2. CASE DownloadsNext
  <2>1. CASE Rest
    <3>1. cancelled' \in BOOLEAN  BY <2>1 DEF Rest, downloads_vars, DownloadsInv, DownloadsType
    <3> QED BY <2>1, <3>1, StillKeeps DEF Rest, downloads_vars
  <2>2. CASE BeginLaunch  BY <2>2, BeginKeeps
  <2>3. CASE Metadata  BY <2>3, MetadataKeeps
  <2>4. CASE Installed  BY <2>4, InstalledKeeps
  <2>5. CASE Profile  BY <2>5, ProfileKeeps
  <2>6. CASE LibrariesThere  BY <2>6, LibrariesKeep
  <2>7. CASE SkipProcessor  BY <2>7, SkipKeeps
  <2>8. CASE RunProcessor  BY <2>8, ProcessorKeeps
  <2>9. CASE ProcessorFails  BY <2>9, RestEnds DEF ProcessorFails
  <2>10. CASE Joined  BY <2>10, JoinedKeeps
  <2>11. CASE Start  BY <2>11, StartKeeps
  <2>12. CASE NotStarted  BY <2>12, RestEnds DEF NotStarted
  <2>13. CASE Return  BY <2>13, RestEnds DEF Return
  <2>14. CASE LaunchInterrupted  BY <2>14, DroppedKeeps DEF LaunchInterrupted
  <2>15. CASE CannotBeHad  BY <2>15, DroppedKeeps DEF CannotBeHad
  <2>16. CASE Cancel  BY <2>16, StillKeeps DEF Cancel
  <2>17. CASE LauncherCrashes  BY <2>17, CrashKeeps
  <2>18. CASE SetPermissions  BY <2>18, SetPermissionsKeeps
  <2>19. CASE \E f \in File :
                \/ CheckFile(f) \/ Receive(f) \/ Open(f) \/ Write(f) \/ WriteFailed(f)
                \/ LateOpen(f) \/ LateWrite(f) \/ FileEdited(f)
    BY <2>19, CheckKeeps, ReceiveKeeps, OpenKeepsReady, WriteKeeps, WriteFailedKeeps, LateOpenKeeps,
       LateWriteKeeps, EditKeeps
  <2> QED BY <1>2, <2>1, <2>2, <2>3, <2>4, <2>5, <2>6, <2>7, <2>8, <2>9, <2>10, <2>11, <2>12, <2>13,
             <2>14, <2>15, <2>16, <2>17, <2>18, <2>19 DEF DownloadsNext
<1> QED BY <1>1, <1>2

LEMMA InitDownloads ==
  ASSUME DownloadsAssumption, DownloadsInit
  PROVE  DownloadsInv
<1>1. \A f \in File : file_task[f] = "off" /\ disk[f] # "part"  BY DEF DownloadsInit, Off
<1>2. DownloadsType
  <2>1. file_task \in [File -> {"off", "check", "get", "done"} \cup Pending]  BY DEF DownloadsInit, Off
  <2>2. disk \in [File -> {"none", "part", "whole"}]  BY DEF DownloadsInit
  <2>3. mod_loader \in {"vanilla", "fabric", "forge", "legacy"} /\ own \in BOOLEAN  BY DEF DownloadsInit
  <2>4. stage \in Stage /\ late \subseteq File \X {"open", "write"} /\ known \subseteq File
    BY DEF DownloadsInit, DownloadsAssumption, Stage
  <2>5. launches \in 0 .. MaxLaunches /\ file_edits \in 0 .. MaxFileEdits  BY DEF DownloadsInit, DownloadsAssumption
  <2> QED BY <2>1, <2>2, <2>3, <2>4, <2>5 DEF DownloadsInit, DownloadsType
<1>3. CountsUp /\ LateIsTouched /\ GotIsFine /\ JavaRuns
  BY DEF DownloadsInit, CountsUp, CountAt, LateIsTouched, GotIsFine, JavaRuns
<1>4. OnlyNeeded /\ PartIsLeft /\ ThroughIsFine
  BY <1>1 DEF OnlyNeeded, PartIsLeft, ThroughIsFine
<1> QED BY <1>2, <1>3, <1>4 DEF DownloadsInv

\* A game that is started has what it needs.
LEMMA StartIsReady ==
  ASSUME DownloadsInv, [DownloadsNext]_downloads_vars, stage # "running", stage' = "running"
  PROVE  /\ \A f \in Required : disk[f] = "whole" \/ f \in rewritten \/ f \in torn \ known
         /\ own \/ executable \/ abandoned
         /\ ~cancelled
<1>1. Start
  <2>1. DownloadsNext  BY DEF downloads_vars
  <2> QED BY <2>1 DEF DownloadsNext, Rest, BeginLaunch, Metadata, Installed, Profile, LibrariesThere, SkipProcessor,
             RunProcessor, ProcessorFails, Joined, NotStarted, Return, LaunchInterrupted, CannotBeHad, Cancel, LauncherCrashes,
             SetPermissions, CheckFile, Receive, Open, Write, WriteFailed, LateOpen, LateWrite, FileEdited,
             End, Enter, DropTasks, Calm, downloads_vars
<1>2. stage = "natives" /\ ~cancelled  BY <1>1 DEF Start, may_start
<1>3. \A f \in File : file_task[f] = "off"  BY <1>2, AtRest
<1>4. executable \/ abandoned  BY <1>3 DEF DownloadsInv, JavaRuns, File
<1>5. ASSUME NEW f \in Required PROVE Fine(f)
  <2>1. Installer \in File /\ Output \in File  BY DEF File
  <2>2. CASE f \in Needed("join")  BY <1>2, <2>2 DEF DownloadsInv, GotIsFine
  <2>3. CASE IsForge /\ f = Installer
    BY <1>2, <1>3, <2>1, <2>3, DoneIsFine DEF DownloadsInv, GotIsFine
  <2>4. CASE mod_loader = "forge" /\ f = Output
    BY <1>2, <1>3, <2>1, <2>4, DoneIsFine DEF DownloadsInv, GotIsFine, IsForge
  <2> QED BY <2>2, <2>3, <2>4 DEF Required, Needed
<1>6. \A f \in Required : disk[f] = "whole" \/ f \in rewritten \/ f \in torn \ known
  BY <1>5 DEF Fine, Required
<1> QED BY <1>2, <1>4, <1>6

\* A game is started with all that it needs, by a launch that was not cancelled, and
\* progress is then at its end and never was beyond it (Launcher::launch in launch.rs).
THEOREM LaunchesAreReady ==
  ASSUME DownloadsAssumption
  PROVE  DownloadsSpec => DownloadsAreReady
<1>1. DownloadsInit => DownloadsInv  BY InitDownloads
<1>2. DownloadsInv /\ [DownloadsNext]_downloads_vars => DownloadsInv'  BY DownloadsStep
<1>3. DownloadsInv => DownloadsType /\ ProgressAddsUp
  <2> SUFFICES ASSUME DownloadsInv PROVE ProgressAddsUp  BY DEF DownloadsInv
  <2>1. /\ Sum \in {7, 10, 13} /\ ByJava \in {0, 1} /\ (IsForge => Sum = 13)
        /\ counted_before \in {1, 2} /\ (own => ByJava = 0) /\ (~own => ByJava = 1) /\ stage \in Stage
    BY SumFact DEF DownloadsInv, DownloadsType
  <2>2. count = CountAt /\ total = IF stage = "idle" THEN 0 ELSE Sum
    BY DEF DownloadsInv, CountsUp
  <2>3. stage \in {"installer", "profile", "libraries", "process"} => IsForge  BY DEF DownloadsInv, CountsUp
  <2>4. CASE stage = "running"  BY <2>1, <2>2, <2>4 DEF ProgressAddsUp, CountAt
  <2>5. CASE stage # "running"  BY <2>1, <2>2, <2>3, <2>5 DEF ProgressAddsUp, CountAt, Stage
  <2> QED BY <2>4, <2>5
<1>4. DownloadsInv /\ [DownloadsNext]_downloads_vars =>
        [stage # "running" /\ stage' = "running" =>
           /\ \A f \in Required : disk[f] = "whole" \/ f \in rewritten \/ f \in torn \ known
           /\ own \/ executable \/ abandoned
           /\ ~cancelled]_downloads_vars
  BY StartIsReady
<1> QED BY <1>1, <1>2, <1>3, <1>4, PTL DEF DownloadsSpec, DownloadsAreReady, StartsReady
=============================================================================
