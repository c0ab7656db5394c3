---------------------------- MODULE QueueConsumer ----------------------------
(***************************************************************************)
(* The queue-based ingest path: processes (app/consumer.py) that share a   *)
(* NATS queue group and read its frames off a socket with a parser of      *)
(* their own (app/queue_publisher.py), reconnect when the connection       *)
(* fails, and stop on a signal.                                            *)
(*                                                                         *)
(* The byte stream is a sequence of units: a line's text and its CRLF are  *)
(* one each, a payload has as many as its header announces, and recv()     *)
(* returns any number of them.  A payload's units may look like lines.     *)
(* The broker is external: it gives a message to one connection of the     *)
(* group, once, and may close a connection or fall silent on it.           *)
(***************************************************************************)
EXTENDS Naturals, Sequences, SequencesExt

CONSTANTS
  Consumer,      \* processes of the queue group
  Message,       \* messages published on the subject
  Body,          \* the units of each message's payload
  Harmful,       \* messages whose handler raises
  MaxChunk,      \* bound on the units one recv returns
  MaxPings, MaxDrops   \* bounds on the broker's PINGs and lost connections

Unit(text) == [text |-> text, size |-> 0]
CRLF       == Unit("CRLF")
PING       == Unit("PING")
MSG(size)  == [text |-> "MSG", size |-> size]   \* MSG <subject> <sid> <#bytes>

ASSUME QueueAssumption ==
  /\ \A m \in Message : Body[m] \in Seq(Range(Body[m]))
  /\ Harmful \subseteq Message
  /\ {MaxPings, MaxDrops} \subseteq Nat /\ MaxChunk \in Nat \ {0}

VARIABLES
  queued,        \* messages the broker has yet to give out
  wire,          \* what is on its way to each consumer
  linked,        \* the connection is open, as the consumer sees it
  silent,        \* consumers to which nothing gets through although it is
  stage,         \* what each consumer does next
  buffer,        \* what it has read and not yet parsed
  stopEvent,     \* its process got SIGTERM or SIGINT
  pings, drops,  \* PINGs sent and connections lost, for the bounds
  \* history, of each consumer's last connection
  sentOn,        \* the payloads of the messages given out on it
  handled,       \* the payloads its handler was called with
  unanswered     \* PINGs without their PONG

QueueVars == <<queued, wire, linked, silent, stage, buffer, stopEvent, pings, drops, sentOn, handled, unanswered>>

QueueTypeOK ==
  /\ queued \subseteq Message /\ silent \subseteq Consumer
  /\ linked \in [Consumer -> BOOLEAN] /\ stopEvent \in [Consumer -> BOOLEAN]
  /\ stage \in [Consumer -> {"connect", "check", "recv", "parse", "more", "stopped", "dead"}]
  /\ unanswered \in [Consumer -> Nat]

QueueInit ==
  /\ queued = Message /\ silent = {}
  /\ wire = [c \in Consumer |-> <<>>] /\ buffer = wire
  /\ linked = [c \in Consumer |-> FALSE] /\ stopEvent = linked
  /\ stage = [c \in Consumer |-> "connect"]
  /\ pings = 0 /\ drops = 0
  /\ sentOn = wire /\ handled = wire
  /\ unanswered = [c \in Consumer |-> 0]

Enter(c, s) == stage' = [stage EXCEPT ![c] = s]

-----------------------------------------------------------------------------
(* The broker. *)

Deliver(c, m) ==
  /\ linked[c] /\ c \notin silent /\ m \in queued
  /\ queued' = queued \ {m}
  /\ wire' = [wire EXCEPT ![c] = @ \o <<MSG(Len(Body[m])), CRLF>> \o Body[m] \o <<CRLF>>]
  /\ sentOn' = [sentOn EXCEPT ![c] = Append(@, Body[m])]
  /\ UNCHANGED <<silent, linked, stage, buffer, stopEvent, pings, drops, handled, unanswered>>

SendPing(c) ==
  /\ linked[c] /\ c \notin silent /\ pings < MaxPings
  /\ wire' = [wire EXCEPT ![c] = @ \o <<PING, CRLF>>]
  /\ pings' = pings + 1
  /\ unanswered' = [unanswered EXCEPT ![c] = @ + 1]
  /\ UNCHANGED <<silent, queued, linked, stage, buffer, stopEvent, drops, sentOn, handled>>

\* The connection ends, or the broker's host does and nothing tells the
\* consumer.  What was sent before may still arrive, or be lost.
LoseConnection(c) ==
  /\ linked[c] /\ c \notin silent /\ drops < MaxDrops
  /\ \/ linked' = [linked EXCEPT ![c] = FALSE] /\ UNCHANGED silent
     \/ silent' = silent \cup {c} /\ UNCHANGED linked
  /\ \E n \in 0..Len(wire[c]) : wire' = [wire EXCEPT ![c] = SubSeq(@, 1, n)]
  /\ drops' = drops + 1
  /\ UNCHANGED <<queued, stage, buffer, stopEvent, pings, sentOn, handled, unanswered>>

-----------------------------------------------------------------------------
(* A consumer. *)

\* A bug: what one connection left half read is kept for the next.
LeftOver(c) == buffer[c]

\* The buffer a connection starts with.
Cleared(c) == <<>>

\* consume: SUB in the queue group, unless the stop event ends the loop.
SubscribeTo(c) ==
  /\ stage[c] = "connect"
  /\ IF stopEvent[c]
       THEN Enter(c, "stopped") /\ UNCHANGED <<linked, silent, wire, buffer, sentOn, handled, unanswered>>
       ELSE /\ Enter(c, "check")
            /\ linked' = [linked EXCEPT ![c] = TRUE]
            /\ silent' = silent \ {c}
            /\ buffer' = [buffer EXCEPT ![c] = Cleared(c)]
            /\ wire' = [wire EXCEPT ![c] = <<>>]
            /\ sentOn' = [sentOn EXCEPT ![c] = <<>>]
            /\ handled' = [handled EXCEPT ![c] = <<>>]
            /\ unanswered' = [unanswered EXCEPT ![c] = 0]
  /\ UNCHANGED <<queued, stopEvent, pings, drops>>

\* However _subscribe_once ends, its socket is closed.
Leave(c, s) == Enter(c, s) /\ linked' = [linked EXCEPT ![c] = FALSE]

\* while not stop_event.is_set(), the outer loop of _subscribe_once.
CheckStop(c) ==
  /\ stage[c] = "check"
  /\ IF stopEvent[c] THEN Leave(c, "stopped") ELSE Enter(c, "recv") /\ UNCHANGED linked
  /\ UNCHANGED <<silent, queued, wire, buffer, stopEvent, pings, drops, sentOn, handled, unanswered>>

\* recv, of either loop: some units.
RecvChunk(c) ==
  /\ stage[c] \in {"recv", "more"}
  /\ \E n \in 1..MaxChunk :
       /\ n <= Len(wire[c])
       /\ buffer' = [buffer EXCEPT ![c] = @ \o SubSeq(wire[c], 1, n)]
       /\ wire' = [wire EXCEPT ![c] = SubSeq(@, n + 1, Len(@))]
  /\ Enter(c, "parse")
  /\ UNCHANGED <<silent, queued, linked, stopEvent, pings, drops, sentOn, handled, unanswered>>

\* A bug: a message half read is waited for whatever the stop event says.
PatientAfterTimeout(c) == IF stage[c] = "more" THEN "more" ELSE "check"

\* Where a time-out of recv leads: the loop in the middle of a message looks at
\* the stop event itself.
AfterTimeout(c) ==
  IF stage[c] = "recv" THEN "check" ELSE IF stopEvent[c] THEN "stopped" ELSE "more"

RecvTimeout(c) ==
  /\ stage[c] \in {"recv", "more"} /\ wire[c] = <<>> /\ linked[c]
  /\ Enter(c, AfterTimeout(c))
  /\ linked' = [linked EXCEPT ![c] = AfterTimeout(c) # "stopped"]
  /\ UNCHANGED <<silent, queued, wire, buffer, stopEvent, pings, drops, sentOn, handled, unanswered>>

\* recv returns nothing: ConnectionError, and consume connects again.
RecvClosed(c) ==
  /\ stage[c] \in {"recv", "more"} /\ wire[c] = <<>> /\ ~linked[c]
  /\ Enter(c, "connect")
  /\ UNCHANGED <<silent, queued, wire, linked, buffer, stopEvent, pings, drops, sentOn, handled, unanswered>>

\* buffer.find(CRLF): 0 when there is none.
NewlineAt(b) == SelectInSeq(b, LAMBDA u : u = CRLF)
IsLine(b, first) == NewlineAt(b) > 1 /\ b[1].text = first
Rest(b) == SubSeq(b, NewlineAt(b) + 1, Len(b))

\* len(rest) < n_bytes + 2 no longer holds.
Whole(b) == Len(Rest(b)) >= b[1].size + 1

\* The handler drops what is no valid detection, comes from another time or
\* exceeds a rate, and processes the rest.  What it raises outside its try
\* statements is none of what consume catches.
Handle(c, payload) ==
  /\ handled' = [handled EXCEPT ![c] = Append(@, payload)]
  /\ IF \E m \in Harmful : Body[m] = payload THEN Leave(c, "dead") ELSE UNCHANGED <<stage, linked>>

ParseMessage(c) ==
  LET b == buffer[c] IN
  /\ stage[c] = "parse" /\ IsLine(b, "MSG") /\ Whole(b)
  /\ buffer' = [buffer EXCEPT ![c] = SubSeq(Rest(b), b[1].size + 2, Len(Rest(b)))]
  /\ Handle(c, SubSeq(Rest(b), 1, b[1].size))
  /\ UNCHANGED <<silent, queued, wire, stopEvent, pings, drops, sentOn, unanswered>>

\* PING is answered; any other line is passed over.
ParseLine(c) ==
  LET b == buffer[c] IN
  /\ stage[c] = "parse" /\ NewlineAt(b) > 0 /\ ~IsLine(b, "MSG")
  /\ buffer' = [buffer EXCEPT ![c] = Rest(b)]
  /\ unanswered' = [unanswered EXCEPT ![c] = IF IsLine(b, "PING") THEN @ - 1 ELSE @]
  /\ UNCHANGED <<silent, queued, wire, linked, stage, stopEvent, pings, drops, sentOn, handled>>

\* No whole payload, or no whole line: back to the inner or the outer recv.
ParseMore(c) ==
  LET b == buffer[c] IN
  /\ stage[c] = "parse"
  /\ \/ NewlineAt(b) = 0 /\ Enter(c, "check")
     \/ IsLine(b, "MSG") /\ ~Whole(b) /\ Enter(c, "more")
  /\ UNCHANGED <<silent, queued, wire, linked, buffer, stopEvent, pings, drops, sentOn, handled, unanswered>>

\* main's _handle_signal
Signal(c) ==
  /\ ~stopEvent[c] /\ stage[c] \notin {"stopped", "dead"}
  /\ stopEvent' = [stopEvent EXCEPT ![c] = TRUE]
  /\ UNCHANGED <<silent, queued, wire, linked, stage, buffer, pings, drops, sentOn, handled, unanswered>>

ConsumerStep(c) ==
  \/ SubscribeTo(c) \/ CheckStop(c) \/ RecvChunk(c) \/ RecvTimeout(c) \/ RecvClosed(c)
  \/ ParseMessage(c) \/ ParseLine(c) \/ ParseMore(c)

QueueNext ==
  \E c \in Consumer :
    ConsumerStep(c) \/ SendPing(c) \/ LoseConnection(c) \/ Signal(c) \/ \E m \in Message : Deliver(c, m)

\* A process keeps running; the broker and the operator need not do anything.
QueueFairness == \A c \in Consumer : WF_QueueVars(ConsumerStep(c))

QueueSpec == QueueInit /\ [][QueueNext]_QueueVars /\ QueueFairness

-----------------------------------------------------------------------------
\* However the stream is cut into chunks, whatever its payloads look like and
\* however the connection before ended, the handler sees the payloads that were
\* sent on this connection, whole and in order.
FramesAreWhole == \A c \in Consumer : IsPrefix(handled[c], sentOn[c])

\* A consumer whose connection stays up catches up: every message given to it
\* is handled and every PING answered.  A signal ends it all the same, even in the
\* middle of a message or while it connects.
CatchesUp ==
  \A c \in Consumer :
    /\ []<>(\/ handled[c] = sentOn[c] /\ unanswered[c] = 0
            \/ ~linked[c] \/ c \in silent \/ stopEvent[c] \/ stage[c] = "dead")
    /\ stopEvent[c] ~> stage[c] \in {"stopped", "dead"}
=============================================================================
