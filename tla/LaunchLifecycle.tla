--------------------------- MODULE LaunchLifecycle ---------------------------
(***************************************************************************)
(* Starting games, watching them and stopping them: the StartInstance and  *)
(* KillInstance messages (backend/src/backend_handler.rs), the tick        *)
(* (backend.rs), the session of an instance and its playtime (instance.rs, *)
(* persistent.rs), and what the frontend makes of the messages about it:   *)
(* the status it shows and the main window, which it may hide while a game *)
(* runs (frontend/src/processor.rs).                                       *)
(*                                                                         *)
(* The handler takes one message, tick or filesystem event after the other *)
(* and awaits a whole launch; games end, users click and cancel meanwhile. *)
(* Time is counted in steps of the clock, playtime in the same.            *)
(***************************************************************************)
EXTENDS Naturals, Sequences, FiniteSets, SequencesExt

CONSTANTS
  Count,        \* instances, 1 .. Count in the order of their slots
  Process,      \* processes of games
  Modal,        \* the ModalActions of the launches the user asks for
  None,
  HidesWindow,  \* the setting hide_main_window_on_launch
  Removable,    \* folders of instances may go away
  KillFails,    \* a process may refuse to be killed
  WriteFails,   \* stats_v1.json may fail to be written
  MaxTime,      \* bound: steps of the clock
  MaxKills,     \* bound: KillInstance messages
  MaxOutbox     \* bound: ticks and events wait while so many messages are on their way

ASSUME CountAssumption == Count \in Nat \ {0}
ASSUME NoneAssumption == None \notin Modal /\ None \notin Nat
ASSUME BoundAssumption == MaxTime \in Nat /\ MaxKills \in Nat /\ MaxOutbox \in Nat \ {0}

Instance == 1 .. Count

VARIABLES
  alive,      \* instances of the registry
  processes,  \* Instance::processes
  keepalive,  \* Instance::launch_keepalive
  session,    \* Instance::session_started_at
  stats,      \* Instance::stats, its total_playtime_secs, with the file
  changed,    \* files of statistics that have changed and whose event is to come
  system,     \* what has become of each process
  now,        \* the clock
  handler,    \* where the handler is in a launch
  modal,      \* the ModalActions
  inbox,      \* messages to the backend
  kills,      \* how many KillInstance messages there were
  outbox,     \* messages to the frontend
  shown,      \* the status the frontend shows, per instance
  playtime,   \* the playtime it shows
  hidden      \* main_window_hidden

instances == <<alive, processes, keepalive, session, stats, changed>>
frontend == <<shown, playtime, hidden>>
user == <<inbox, kills>>
vars == <<instances, system, now, handler, modal, user, outbox, frontend>>

Time == 0 .. MaxTime
Status == {"NotRunning", "Launching", "Running"}
Idle == [at |-> "idle", id |-> None, modal |-> None]
Message == [kind : {"modified", "playtime", "removed"}, id : Instance,
            status : Status, playtime : Nat]

TypeOK ==
  /\ alive \subseteq Instance
  /\ processes \in [Instance -> SUBSET Process]
  /\ keepalive \in [Instance -> {"none", "alive", "dead"}]
  /\ session \in [Instance -> Time \cup {None}]
  /\ stats \in [Instance -> [memory : Nat, file : Nat, dirty : BOOLEAN]]
  /\ changed \subseteq Instance
  /\ system \in [Process -> {"unused", "running", "exited"}]
  /\ now \in Time
  /\ handler \in {Idle} \cup [at : {"login", "prelaunch", "launch", "spawn"}, id : Instance, modal : Modal]
  /\ modal \in [Modal -> [sent : BOOLEAN, cancelled : BOOLEAN, error : BOOLEAN, finished : BOOLEAN]]
  /\ inbox \in Seq([kind : {"start", "kill"}, id : Instance, modal : Modal \cup {None}])
  /\ kills \in 0 .. MaxKills
  /\ outbox \in Seq(Message)
  /\ shown \in [Instance -> Status \cup {"absent"}]
  /\ playtime \in [Instance -> Nat]
  /\ hidden \in BOOLEAN

Init ==
  /\ alive = Instance
  /\ processes = [i \in Instance |-> {}]
  /\ keepalive = [i \in Instance |-> "none"]
  /\ session = [i \in Instance |-> None]
  /\ stats = [i \in Instance |-> [memory |-> 0, file |-> 0, dirty |-> FALSE]]
  /\ changed = {}
  /\ system = [p \in Process |-> "unused"]
  /\ now = 0
  /\ handler = Idle
  /\ modal = [m \in Modal |-> [sent |-> FALSE, cancelled |-> FALSE, error |-> FALSE, finished |-> FALSE]]
  /\ inbox = <<>> /\ kills = 0
  /\ outbox = <<>>
  /\ shown = [i \in Instance |-> "NotRunning"]
  /\ playtime = [i \in Instance |-> 0]
  /\ hidden = FALSE

-----------------------------------------------------------------------------
(* The statistics, a Persistent: after a write they are read again. *)

Loaded(s) == IF s.dirty THEN [s EXCEPT !.memory = s.file, !.dirty = FALSE] ELSE s

\* Persistent::modify: nothing more is said of a write that fails.
Modified(s, secs, written) ==
  LET sum == Loaded(s).memory + secs
  IN  IF written THEN [memory |-> sum, file |-> sum, dirty |-> TRUE]
                 ELSE [Loaded(s) EXCEPT !.memory = sum]

Written == IF WriteFails THEN BOOLEAN ELSE {TRUE}

(* The session: it begins with the first process and ends with the last. *)

\* (Bugs: only a session that begins is looked after; each game begins anew.)
session_only_begins(procs, started) == IF procs # {} /\ started = None THEN now ELSE started
session_begins_anew(procs, started) == IF procs # {} THEN now ELSE None
update_session(procs, started) ==
  IF procs = {} THEN None ELSE IF started = None THEN now ELSE started

\* (Bugs: the session counts from when the launcher was started; backwards.)
elapsed_in_all(procs, started) == IF procs = {} /\ started # None THEN now ELSE 0
elapsed_swapped(procs, started) == IF procs = {} /\ started # None THEN started - now ELSE 0
\* What update_session adds to the playtime.
elapsed(procs, started) == IF procs = {} /\ started # None THEN now - started ELSE 0
Updates(procs, started) == (procs = {}) # (started = None)

\* Instance i has the processes procs now, and its session follows.
SetProcesses(i, procs) ==
  /\ processes' = [processes EXCEPT ![i] = procs]
  /\ session' = [session EXCEPT ![i] = update_session(procs, @)]

\* status, and create_modify_message, which reads the statistics.
status(procs, launching) ==
  IF procs # {} THEN "Running" ELSE IF launching = "alive" THEN "Launching" ELSE "NotRunning"
current(started) == IF started = None THEN 0 ELSE now - started
Modify(i, procs, launching, started, s) ==
  [kind |-> "modified", id |-> i, status |-> status(procs, launching),
   playtime |-> Loaded(s).memory + current(started)]

-----------------------------------------------------------------------------
(* The user. *)

\* A button of the instance, or of one of its worlds, is clicked.
ClickStart(i) ==
  /\ ~hidden /\ shown[i] # "absent"
  /\ \E m \in Modal : /\ ~modal[m].sent
                      /\ modal' = [modal EXCEPT ![m].sent = TRUE]
                      /\ inbox' = Append(inbox, [kind |-> "start", id |-> i, modal |-> m])
  /\ UNCHANGED <<instances, system, now, handler, kills, outbox, frontend>>

ClickKill(i) ==
  /\ ~hidden /\ shown[i] = "Running" /\ kills < MaxKills
  /\ inbox' = Append(inbox, [kind |-> "kill", id |-> i, modal |-> None])
  /\ kills' = kills + 1
  /\ UNCHANGED <<instances, system, now, handler, modal, outbox, frontend>>

ClickCancel(m) ==
  /\ modal[m].sent /\ ~modal[m].finished /\ ~modal[m].cancelled
  /\ modal' = [modal EXCEPT ![m].cancelled = TRUE]
  /\ UNCHANGED <<instances, system, now, handler, user, outbox, frontend>>

-----------------------------------------------------------------------------
(* StartInstance. *)

Receives(kind) == handler = Idle /\ inbox # <<>> /\ Head(inbox).kind = kind

\* Why the launch is refused, if it is.
refused(i) == IF i \notin alive THEN "unknown id"
              ELSE IF keepalive[i] = "alive" THEN "already launching" ELSE "no"

RefuseStart ==
  /\ Receives("start") /\ refused(Head(inbox).id) # "no"
  /\ modal' = [modal EXCEPT ![Head(inbox).modal].error = TRUE, ![Head(inbox).modal].finished = TRUE]
  /\ inbox' = Tail(inbox)
  /\ UNCHANGED <<instances, system, now, handler, kills, outbox, frontend>>

StartInstance ==
  /\ Receives("start") /\ refused(Head(inbox).id) = "no"
  /\ LET i == Head(inbox).id
     IN  /\ keepalive' = [keepalive EXCEPT ![i] = "alive"]
         /\ stats' = [stats EXCEPT ![i] = Loaded(@)]
         /\ outbox' = Append(outbox, Modify(i, processes[i], "alive", session[i], stats[i]))
         /\ handler' = [at |-> "login", id |-> i, modal |-> Head(inbox).modal]
  /\ inbox' = Tail(inbox)
  /\ UNCHANGED <<alive, processes, session, changed, system, now, modal, kills, frontend>>

At(pc) == handler.at = pc
Goes(pc) == handler' = [handler EXCEPT !.at = pc]

\* (A bug: the status is sent while the launch still counts as one.)
keepalive_when_sent_early(i) == keepalive[i]
keepalive_when_sent(i) == "dead"
finished_at_end(error) == TRUE

\* The deferred closure: however the launch ends its modal is finished, the
\* KeepAlive is dropped, and the frontend told.  s is what the statistics have
\* come to, procs the processes.
Ends(procs, started, s, error) ==
  LET i == handler.id IN
  /\ modal' = [modal EXCEPT ![handler.modal].error = @ \/ error,
                            ![handler.modal].finished = finished_at_end(error)]
  /\ handler' = Idle
  /\ IF i \in alive
     THEN /\ keepalive' = [keepalive EXCEPT ![i] = "none"]
          /\ stats' = [stats EXCEPT ![i] = Loaded(s)]
          /\ outbox' = Append(outbox, Modify(i, procs, keepalive_when_sent(i), started, s))
     ELSE UNCHANGED <<keepalive, stats, outbox>>
\* (A bug: an early return.)
early_return(error) ==
  /\ handler' = Idle
  /\ UNCHANGED <<instances, system, now, modal, user, outbox, frontend>>
EndsWith(error) ==
  /\ Ends(processes[handler.id], session[handler.id], stats[handler.id], error)
  /\ UNCHANGED <<alive, processes, session, changed, system, now, user, frontend>>

LoginSucceeds ==
  /\ At("login") /\ Goes("prelaunch")
  /\ UNCHANGED <<instances, system, now, modal, user, outbox, frontend>>
LoginFails == At("login") /\ EndsWith(TRUE)

\* Syncing and modpacks: they may leave an error in the modal.
PrelaunchSucceeds ==
  /\ At("prelaunch") /\ Goes("launch")
  /\ UNCHANGED <<instances, system, now, modal, user, outbox, frontend>>
PrelaunchFails == At("prelaunch") /\ EndsWith(TRUE)
PrelaunchCancelled == At("prelaunch") /\ modal[handler.modal].cancelled /\ EndsWith(FALSE)

\* Launcher::launch: the last look at request_cancel is before the spawn.
LaunchLoads ==
  /\ At("launch") /\ ~modal[handler.modal].cancelled /\ Goes("spawn")
  /\ UNCHANGED <<instances, system, now, modal, user, outbox, frontend>>
LaunchCancelled == At("launch") /\ modal[handler.modal].cancelled /\ EndsWith(FALSE)
LaunchFails == handler.at \in {"launch", "spawn"} /\ EndsWith(TRUE)

\* The game is there: the instance has it, and its session begins.
LaunchSucceeds(p) ==
  LET i == handler.id
      procs == processes[i] \cup {p}
  IN
  /\ At("spawn") /\ system[p] = "unused"
  /\ system' = [system EXCEPT ![p] = "running"]
  /\ \E w \in Written :
       LET begins == Updates(procs, session[i])
           s == IF begins THEN Modified(stats[i], 0, w) ELSE stats[i]
       IN  IF i \in alive
           THEN /\ SetProcesses(i, procs)
                /\ Ends(procs, update_session(procs, session[i]), s, FALSE)
                /\ changed' = changed \cup {k \in {i} : begins /\ w}
           ELSE Ends({}, None, stats[i], FALSE) /\ UNCHANGED <<processes, session, changed>>
  /\ UNCHANGED <<alive, now, user, frontend>>

-----------------------------------------------------------------------------
(* KillInstance. *)

\* All processes are killed, or not, and all are forgotten.
KillInstance ==
  /\ Receives("kill")
  /\ inbox' = Tail(inbox)
  /\ LET i == Head(inbox).id IN
     IF i \in alive /\ processes[i] # {}
     THEN \E refusing \in IF KillFails THEN SUBSET processes[i] ELSE {{}}, w \in Written :
            LET closes == Updates({}, session[i])
                s == IF closes THEN Modified(stats[i], elapsed({}, session[i]), w) ELSE stats[i]
            IN
            /\ system' = [p \in Process |-> IF p \in processes[i] \ refusing THEN "exited" ELSE system[p]]
            /\ SetProcesses(i, {})
            /\ stats' = [stats EXCEPT ![i] = Loaded(s)]
            /\ changed' = changed \cup {k \in {i} : closes /\ w}
            /\ outbox' = Append(outbox, Modify(i, {}, keepalive[i], update_session({}, session[i]), s))
     ELSE UNCHANGED <<processes, session, stats, changed, system, outbox>>
  /\ UNCHANGED <<alive, keepalive, now, handler, modal, kills, frontend>>

-----------------------------------------------------------------------------
(* The tick, and filesystem events. *)

\* Children of instance i have ended since the tick before.
ended(i) == \E p \in processes[i] : system[p] = "exited"
\* (A bug: the others are retained.)
ended_ones(i) == {p \in processes[i] : system[p] = "exited"}
still(i) == {p \in processes[i] : system[p] = "running"}

Tick ==
  /\ handler = Idle /\ Len(outbox) < MaxOutbox
  /\ \E w \in Written :
       LET closes(i) == i \in alive /\ ended(i) /\ Updates(still(i), session[i])
           s(i) == IF closes(i) THEN Modified(stats[i], elapsed(still(i), session[i]), w) ELSE stats[i]
           procs(i) == IF i \in alive THEN still(i) ELSE processes[i]
           started(i) == IF i \in alive /\ ended(i) THEN update_session(still(i), session[i]) ELSE session[i]
           tells(i) == i \in alive /\ (ended(i) \/ keepalive[i] = "dead")
           message(i) == IF tells(i) THEN <<Modify(i, still(i), keepalive[i], started(i), s(i))>>
                         ELSE IF i \in alive /\ session[i] # None
                         THEN <<[Modify(i, still(i), keepalive[i], started(i), s(i)) EXCEPT !.kind = "playtime"]>>
                         ELSE <<>>
       IN
       /\ processes' = [i \in Instance |-> procs(i)]
       /\ session' = [i \in Instance |-> started(i)]
       /\ stats' = [i \in Instance |-> IF message(i) # <<>> THEN Loaded(s(i)) ELSE s(i)]
       /\ changed' = changed \cup {i \in Instance : closes(i) /\ w}
       /\ outbox' = outbox \o FlattenSeq([i \in Instance |-> message(i)])
  /\ UNCHANGED <<alive, keepalive, system, now, handler, modal, user, frontend>>

\* stats_v1.json has changed: it is read again.
StatsChange(i) ==
  /\ handler = Idle /\ i \in changed /\ Len(outbox) < MaxOutbox
  /\ changed' = changed \ {i}
  /\ IF i \in alive
     THEN LET s == [stats[i] EXCEPT !.dirty = TRUE]
          IN  /\ stats' = [stats EXCEPT ![i] = Loaded(s)]
              /\ outbox' = Append(outbox, Modify(i, processes[i], keepalive[i], session[i], s))
     ELSE UNCHANGED <<stats, outbox>>
  /\ UNCHANGED <<alive, processes, keepalive, session, system, now, handler, modal, user, frontend>>

\* info_v1.json has changed.
InfoChange(i) ==
  /\ handler = Idle /\ i \in alive /\ Len(outbox) < MaxOutbox
  /\ stats' = [stats EXCEPT ![i] = Loaded(@)]
  /\ outbox' = Append(outbox, Modify(i, processes[i], keepalive[i], session[i], stats[i]))
  /\ UNCHANGED <<alive, processes, keepalive, session, changed, system, now, handler, modal, user, frontend>>

\* The folder of the instance has gone, or cannot be read as one: the instance
\* goes with its processes, which run on, and its session, which is not closed.
RemoveInstance(i) ==
  /\ Removable /\ handler = Idle /\ i \in alive
  /\ alive' = alive \ {i}
  /\ processes' = [processes EXCEPT ![i] = {}]
  /\ session' = [session EXCEPT ![i] = None]
  /\ outbox' = Append(outbox, [kind |-> "removed", id |-> i, status |-> "NotRunning", playtime |-> 0])
  /\ UNCHANGED <<keepalive, stats, changed, system, now, handler, modal, user, frontend>>

-----------------------------------------------------------------------------
(* The games, the clock and the frontend. *)

Exit(p) ==
  /\ system[p] = "running"
  /\ system' = [system EXCEPT ![p] = "exited"]
  /\ UNCHANGED <<instances, now, handler, modal, user, outbox, frontend>>

Pass ==
  /\ now < MaxTime
  /\ now' = now + 1
  /\ UNCHANGED <<instances, system, handler, modal, user, outbox, frontend>>

\* Whether the window is hidden after an instance is said to be in status st.
window(st) == IF st = "Running" THEN hidden \/ HidesWindow
              ELSE IF st = "NotRunning" THEN FALSE ELSE hidden

\* The next message is processed.
ProcessMessage ==
  /\ outbox # <<>>
  /\ outbox' = Tail(outbox)
  /\ LET m == Head(outbox) IN
     CASE m.kind = "removed" ->
            shown' = [shown EXCEPT ![m.id] = "absent"] /\ UNCHANGED <<playtime, hidden>>
       [] m.kind = "playtime" ->
            playtime' = [playtime EXCEPT ![m.id] = m.playtime] /\ UNCHANGED <<shown, hidden>>
       [] m.kind = "modified" ->
            /\ hidden' = window(m.status)
            /\ shown' = [shown EXCEPT ![m.id] = IF @ = "absent" THEN @ ELSE m.status]
            /\ playtime' = [playtime EXCEPT ![m.id] = m.playtime]
  /\ UNCHANGED <<instances, system, now, handler, modal, user>>

-----------------------------------------------------------------------------
LaunchStep ==
  \/ LoginSucceeds \/ LoginFails
  \/ PrelaunchSucceeds \/ PrelaunchFails \/ PrelaunchCancelled
  \/ LaunchLoads \/ LaunchCancelled \/ LaunchFails
  \/ \E p \in Process : LaunchSucceeds(p)
HandleMessage == RefuseStart \/ StartInstance \/ KillInstance

Next ==
  \/ \E i \in Instance : ClickStart(i) \/ ClickKill(i) \/ StatsChange(i) \/ InfoChange(i) \/ RemoveInstance(i)
  \/ \E m \in Modal : ClickCancel(m)
  \/ HandleMessage \/ LaunchStep \/ Tick
  \/ \E p \in Process : Exit(p)
  \/ Pass \/ ProcessMessage

Spec == Init /\ [][Next]_vars

\* The handler goes on with a launch, and takes messages, ticks and events in
\* turn; the frontend processes what it is sent.
Fairness ==
  /\ WF_vars(LaunchStep) /\ SF_vars(HandleMessage) /\ SF_vars(Tick)
  /\ \A i \in Instance : SF_vars(StatsChange(i))
  /\ WF_vars(ProcessMessage)

FairSpec == Spec /\ Fairness

-----------------------------------------------------------------------------
(* Properties. *)

\* An instance has a session exactly while it has processes: whatever starts a
\* game, kills it or finds it gone keeps the two together (update_session), so
\* that playtime is neither lost nor counted without a game.
SessionIffProcesses == \A i \in alive : session[i] # None <=> processes[i] # {}

\* An instance counts as launching only while the handler is in its launch: no
\* early return leaves it so (the deferred closure), and no StartInstance is ever
\* refused with "already launching".
LaunchingIsInHandler ==
  \A i \in Instance : keepalive[i] # "none" <=> handler.id = i

\* The playtime that is shown of an instance never goes back: the end of a
\* session, the reading of the file again and messages on their way agree.
PlaytimeNeverGoesBack == [][\A i \in Instance : playtime[i] <= playtime'[i]]_playtime

\* No time is counted twice: an instance has been played for no longer than the
\* launcher has been there, however its games overlap.
PlaytimeIsReal == \A i \in Instance : stats[i].memory + current(session[i]) <= now

\* A game that runs and was started for an instance is one the instance knows
\* of, so that it is shown as running and can be killed.
GamesAreKnown == \A p \in Process : system[p] = "running" => \E i \in alive : p \in processes[i]

\* Every launch the user asks for ends by finishing its modal, be it refused,
\* failed, cancelled or done.
EveryModalFinishes == \A m \in Modal : modal[m].sent ~> modal[m].finished

\* What is shown of each instance becomes, and stays, its status, once the user
\* and the games have come to rest, as the bounds see to.
StatusIsShown == <>[](\A i \in alive : shown[i] = status(processes[i], keepalive[i]))

\* The main window is not left hidden with no game running.
Deserted == hidden /\ \A p \in Process : system[p] # "running"
WindowComesBack == Deserted ~> ~Deserted
=============================================================================
