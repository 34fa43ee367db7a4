------------------------------- MODULE MCBridge -------------------------------
(* What goes over the bridge, one behaviour for each: a frontend thread draws  *)
(* two pages; tasks wait for a signal that is given twice; or the user starts  *)
(* games of two instances.                                                     *)
EXTENDS SerialChannel, NotifySignal, LaunchLifecycle

CONSTANTS ui, mods, worlds, n1, n2, w1, w2, w3, p1, p2, m1, m2

VARIABLE part

games == vars

MCSenders == {ui}
MCSlots == {mods, worlds}
MCNotifiers == {n1, n2}
MCWaiters == {w1, w2, w3}
MCProcess == {p1, p2}
MCModal == {m1, m2}

BridgeInit ==
  /\ part \in {"channel", "signal", "games"}
  /\ ChannelInit /\ SignalInit /\ Init
  /\ part # "channel" => processed = 0

OfSignal(A) == part = "signal" /\ A /\ UNCHANGED <<part, channel, games>>
OfGames(A) == part = "games" /\ A /\ UNCHANGED <<part, channel, signal>>

BridgeNext ==
  \/ part = "channel" /\ ChannelNext /\ UNCHANGED <<part, signal, games>>
  \/ OfSignal(SignalNext)
  \/ OfGames(Next)

all == <<part, channel, signal, games>>

\* What the three assume: nothing of the others is ever enabled.
BridgeFairness ==
  /\ ChannelFairness
  /\ \A t \in Notifier \cup Waiter : WF_all(OfSignal(Step(t)))
  /\ WF_all(OfGames(LaunchStep))
  /\ SF_all(OfGames(HandleMessage)) /\ SF_all(OfGames(Tick))
  /\ \A i \in Instance : SF_all(OfGames(StatsChange(i)))
  /\ WF_all(OfGames(ProcessMessage))

BridgeSpec == BridgeInit /\ [][BridgeNext]_all /\ BridgeFairness

\* The properties of SerialChannel, NotifySignal and LaunchLifecycle, of their
\* behaviours: whoever asks, waits or starts a game is served ...
EveryoneIsServed == (part = "channel" => AskedIsServed) /\ (part = "signal" => EveryoneGoesOn)

\* ... and the frontend is told of the games.
FrontendIsTold == part = "games" => EveryModalFinishes /\ StatusIsShown /\ WindowComesBack
=============================================================================
