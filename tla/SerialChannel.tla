---------------------------- MODULE SerialChannel ----------------------------
(***************************************************************************)
(* send_with_serial and recv (bridge/src/handle.rs, bridge/src/serial.rs). *)
(* A page asks for the same thing every time it is drawn; its slot keeps   *)
(* the serial of its last message, and it does not ask again until the     *)
(* receiver has got that far.  Serials wrap around.                        *)
(*                                                                         *)
(* Senders run in parallel with the receiver; every load and store of an   *)
(* atomic is a step.  The channel is the release build's, unbounded.       *)
(***************************************************************************)
EXTENDS Naturals, Sequences

CONSTANTS
  Sender,     \* threads that send
  Slot,       \* AtomicOptionSerials, one for each thing that can be asked for
  NoSerial,   \* no serial, no slot
  Modulus,    \* serials are 0 .. Modulus - 1; usize::MAX is Modulus - 1
  MaxSerials, \* bound: serials given out, fewer than half of them
  MaxPlain    \* bound: messages without a serial in the queue

Serial == 0 .. Modulus - 1
Half == (Modulus - 1) \div 2

\* What goes through the channel: the slot and the serial of a message, or neither.
Plain == [slot |-> NoSerial, serial |-> NoSerial]
Envelope == [slot : Slot, serial : Serial] \cup {Plain}

ASSUME SlotAssumption == NoSerial \notin Slot \cup Nat \cup Envelope
ASSUME ModulusAssumption == Modulus \in Nat /\ MaxSerials \in Nat /\ MaxSerials < Half
ASSUME PlainAssumption == MaxPlain \in Nat

VARIABLES
  processed,  \* processed_serial
  next,       \* next_serial: the last serial given out
  given,      \* how many have been
  slot,       \* the serial each slot holds
  sender,     \* where each sender is in send_with_serial
  queue,      \* the channel
  hand,       \* what recv has taken from it and not yet returned
  asked       \* slots asked for and not returned by recv since

channel == <<processed, next, given, slot, sender, queue, hand, asked>>

NotSending == [at |-> "idle", slot |-> NoSerial, serial |-> NoSerial]

-----------------------------------------------------------------------------
ChannelType ==
  /\ processed \in Serial
  /\ next \in Serial
  /\ given \in 0 .. MaxSerials
  /\ slot \in [Slot -> Serial \cup {NoSerial}]
  /\ sender \in [Sender ->
       [at : {"compare", "record", "push"}, slot : Slot, serial : Serial]
         \cup [at : {"number"}, slot : Slot, serial : {NoSerial}] \cup {NotSending}]
  /\ queue \in Seq(Envelope)
  /\ hand \in Envelope \cup {NoSerial}
  /\ asked \in SUBSET Slot

\* The channel with nothing in it, wherever the serials have got to.
ChannelInit ==
  /\ processed \in Serial
  /\ next = processed
  /\ given = 0
  /\ slot = [s \in Slot |-> NoSerial]
  /\ sender = [a \in Sender |-> NotSending]
  /\ queue = <<>>
  /\ hand = NoSerial
  /\ asked = {}

-----------------------------------------------------------------------------
\* Serial::partial_cmp: a < b.
\* (A bug: the serials are compared as numbers.)
before_unwrapped(a, b) == a < b
before(a, b) ==
  LET distance == IF a < b THEN b - a ELSE a - b
  IN  IF distance < Half THEN a < b ELSE b < a

\* AtomicSerialProvider::next.
after(n) == (n + 1) % Modulus

\* A sender further on in send_with_serial.
moved(a, point, serial) ==
  [sender EXCEPT ![a] = [at |-> point, slot |-> sender[a].slot, serial |-> serial]]

\* send_with_serial(_, s): the slot is read.
Ask(a, s) ==
  /\ sender[a] = NotSending
  /\ given < MaxSerials
  /\ asked' = asked \cup {s}
  /\ sender' = [sender EXCEPT ![a] =
       [at |-> IF slot[s] = NoSerial THEN "number" ELSE "compare", slot |-> s, serial |-> slot[s]]]
  /\ UNCHANGED <<processed, next, given, slot, queue, hand>>

\* The last message has not been received: nothing is sent.
Suppress(a) ==
  /\ sender[a].at = "compare"
  /\ before(processed, sender[a].serial)
  /\ sender' = [sender EXCEPT ![a] = NotSending]
  /\ UNCHANGED <<processed, next, given, slot, queue, hand, asked>>

GoOn(a) ==
  /\ sender[a].at = "compare"
  /\ ~before(processed, sender[a].serial)
  /\ sender' = moved(a, "number", NoSerial)
  /\ UNCHANGED <<processed, next, given, slot, queue, hand, asked>>

TakeNumber(a) ==
  /\ sender[a].at = "number"
  /\ given < MaxSerials
  /\ given' = given + 1
  /\ next' = after(next)
  /\ sender' = moved(a, "record", after(next))
  /\ UNCHANGED <<processed, slot, queue, hand, asked>>

Record(a) ==
  /\ sender[a].at = "record"
  /\ slot' = [slot EXCEPT ![sender[a].slot] = sender[a].serial]
  /\ sender' = moved(a, "push", sender[a].serial)
  /\ UNCHANGED <<processed, next, given, queue, hand, asked>>

Push(a) ==
  /\ sender[a].at = "push"
  /\ queue' = Append(queue, [slot |-> sender[a].slot, serial |-> sender[a].serial])
  /\ sender' = [sender EXCEPT ![a] = NotSending]
  /\ UNCHANGED <<processed, next, given, slot, hand, asked>>

\* send: a message without a serial.
SendPlain(a) ==
  /\ sender[a] = NotSending
  /\ Len(SelectSeq(queue, LAMBDA m : m = Plain)) < MaxPlain
  /\ queue' = Append(queue, Plain)
  /\ UNCHANGED <<processed, next, given, slot, sender, hand, asked>>

\* recv takes a message ...
Take ==
  /\ hand = NoSerial /\ queue # <<>>
  /\ hand' = Head(queue)
  /\ queue' = Tail(queue)
  /\ UNCHANGED <<processed, next, given, slot, sender, asked>>

\* How far the serials have been processed once m is returned.
reached(m) == IF m.serial = NoSerial THEN processed ELSE m.serial

\* ... and returns it; it is acted on after that.
Return ==
  /\ hand # NoSerial
  /\ processed' = reached(hand)
  /\ asked' = asked \ {hand.slot}
  /\ hand' = NoSerial
  /\ UNCHANGED <<next, given, slot, sender, queue>>

SendStep(a) == Suppress(a) \/ GoOn(a) \/ TakeNumber(a) \/ Record(a) \/ Push(a)
Receive == Take \/ Return

ChannelNext ==
  \/ \E a \in Sender : SendStep(a) \/ SendPlain(a) \/ \E s \in Slot : Ask(a, s)
  \/ Receive

\* A thread goes through send_with_serial, and the receiver keeps receiving.
ChannelFairness == WF_channel(Receive) /\ \A a \in Sender : WF_channel(SendStep(a))

ChannelSpec == ChannelInit /\ [][ChannelNext]_channel /\ ChannelFairness

-----------------------------------------------------------------------------
\* The messages that recv has not returned, and those of slot s.
Messages == {queue[i] : i \in 1 .. Len(queue)} \cup ({hand} \ {NoSerial})
Waiting(s) == {m \in Messages : m.slot = s}

\* A sender is about to send one.
Sending(s) == \E a \in Sender : sender[a].slot = s /\ sender[a].at \in {"number", "record", "push"}

\* What a page has asked for is on its way, or it is still making up its mind:
\* no request is dropped for the sake of a message that was received before it.
AskedIsComing ==
  \A s \in asked :
    \/ Waiting(s) # {} \/ Sending(s)
    \/ \E a \in Sender : sender[a].at = "compare" /\ sender[a].slot = s

\* However often a page asks, the channel holds one message of its slot at most
\* (two would have different serials), and none when another is being sent.
NoFlood ==
  \A s \in Slot :
    /\ \A m, n \in Waiting(s) : m = n
    /\ Waiting(s) # {} => ~Sending(s)

\* Every request is on its way, and once.
AskedOnce == AskedIsComing /\ NoFlood

\* The receiver acts on everything that is asked for.
AskedIsServed == \A s \in Slot : (s \in asked) ~> (s \notin asked)
=============================================================================
