-------------------------------- MODULE Alerts --------------------------------
(***************************************************************************)
(* What happens when an incident opens (app/incidents.py _open_incident    *)
(* and _open_behavioral_incident): its severity is worked out, the row is  *)
(* written, and then every channel is tried in turn, on the thread that    *)
(* opened it: webhooks (app/notifications.py), Slack, PagerDuty, SMS and   *)
(* the mesh (app/alerting.py), the mitigation system (app/mitigation.py),  *)
(* the broker (app/queue_publisher.py) and the live feed (app/live.py).    *)
(*                                                                         *)
(* What a peer does with a message is external.  A peer that refuses, is   *)
(* not there or is too slow raises URLError, TimeoutError or OSError, all  *)
(* of which are caught; one that answers something that is not HTTP raises *)
(* http.client.HTTPException, which only the mesh's handler catches.  An   *)
(* exception that nobody catches ends the request that opened the          *)
(* incident, and the incident stays: the same alarm finds it open.         *)
(***************************************************************************)
EXTENDS Naturals, Sequences, FiniteSets

CONSTANTS
  Sender,        \* threads that open incidents, each for tracks of its own
  Recipient,     \* [channel -> the URLs or numbers configured for it, a sequence]
  Minimum,       \* [channel -> its minimum severity, possibly not a severity]
  TrackLabel,    \* classifications met in this instance
  MaxOpened      \* bound on the incidents opened

Channels == {"webhook", "slack", "pagerduty", "sms", "mesh", "mitigation", "broker", "live"}
Severities == <<"low", "medium", "high", "critical">>   \* _SEVERITY_RANK
Rank == [s \in {"low", "medium", "high", "critical"} |-> CHOOSE n \in 1..4 : Severities[n] = s]

ASSUME AlertsAssumption ==
  /\ DOMAIN Recipient = Channels /\ DOMAIN Minimum = Channels
  /\ \A c \in Channels : Len(Recipient[c]) \in Nat /\ DOMAIN Recipient[c] = 1..Len(Recipient[c])
  /\ Recipient["live"] # <<>>
  /\ MaxOpened \in Nat

VARIABLES
  sender,        \* what each thread does: the incident it opened, and what is left to send
  open,          \* the senders whose alarm has an open incident
  opened,        \* the incidents ever opened: [severity, located]
  sent,          \* of each of them, the messages handed over: [channel, to]
  broken         \* history: incidents whose thread was ended in the middle

AlertsVars == <<sender, open, opened, sent, broken>>

Outbound == [channel : Channels, to : Nat]   \* to a recipient, by its number

AlertsTypeOK ==
  /\ sender \in [Sender -> [incident : 0..Len(opened), left : Seq(Outbound)]]
  /\ open \subseteq Sender
  /\ opened \in Seq([severity : DOMAIN Rank, located : BOOLEAN])
  /\ sent \in Seq(Seq(Outbound)) /\ Len(sent) = Len(opened)
  /\ broken \subseteq DOMAIN opened

Waiting == [incident |-> 0, left |-> <<>>]

AlertsInit ==
  /\ sender = [s \in Sender |-> Waiting]
  /\ open = {} /\ opened = <<>> /\ sent = <<>> /\ broken = {}

-----------------------------------------------------------------------------
\* _SEVERITY_BY_CLASSIFICATION, _BEHAVIORAL_SEVERITY
BaseSeverity(kind, label) ==
  CASE kind \in {"formation", "shadowing"} -> "high"
    [] kind = "loitering" -> "medium"
    [] label = "drone" -> "high"
    [] label \in {"aircraft", "bird"} -> "low"
    [] OTHER -> "medium"

\* _SEVERITY_ESCALATION
Escalated(s) == Severities[IF Rank[s] < 4 THEN Rank[s] + 1 ELSE 4]

\* meets_severity_threshold: a minimum that is no severity disables the channel.
Meets(severity, minimum) == minimum \in DOMAIN Rank /\ Rank[severity] >= Rank[minimum]

\* notify_incident and the two publishes have no minimum.
Unrouted(channel) == channel \in {"webhook", "broker", "live"}

\* notify_escalations
Routed(channel, severity) == ~Unrouted(channel) /\ Meets(severity, Minimum[channel])

\* notify_mitigation_system: nothing to act on without a position.
Actionable(channel, located) == channel = "mitigation" => located

Wanted(channel, severity, located) ==
  (Unrouted(channel) \/ Routed(channel, severity)) /\ Actionable(channel, located)

\* One call for each recipient of a channel.
CallsOf(channel, severity, located) ==
  IF ~Wanted(channel, severity, located) THEN <<>>
  ELSE [i \in DOMAIN Recipient[channel] |-> [channel |-> channel, to |-> i]]

\* What is to be sent, in this order.
Outgoing(severity, located) ==
  LET Calls(channel) == CallsOf(channel, severity, located) IN
  Calls("webhook") \o Calls("slack") \o Calls("pagerduty") \o Calls("sms") \o Calls("mesh")
    \o Calls("mitigation") \o Calls("broker") \o Calls("live")

\* An alarm is met, again if its incident is open already: _open_incident.
Alarmed(s) ==
  /\ sender[s] = Waiting
  /\ IF s \in open THEN UNCHANGED <<sender, open, opened, sent>>
     ELSE \E kind \in {"zone", "loitering", "shadowing"}, label \in TrackLabel,
             located, corroborated \in BOOLEAN :
          LET base == BaseSeverity(kind, label)
              severity == IF corroborated THEN Escalated(base) ELSE base IN
          /\ kind = "zone" => located
          /\ Len(opened) < MaxOpened
          /\ open' = open \cup {s}
          /\ opened' = Append(opened, [severity |-> severity, located |-> located])
          /\ sent' = Append(sent, <<>>)
          /\ sender' = [sender EXCEPT ![s] =
               [incident |-> Len(opened) + 1, left |-> Outgoing(severity, located)]]
  /\ UNCHANGED broken

\* A bug: a refused message ends the whole round.
Nothing(s) == <<>>

\* What is left when a message has failed, the exception caught.
AfterError(s) == Tail(sender[s].left)

Sending(s) == sender[s].left # <<>>
Give(s) == sent' = [sent EXCEPT ![sender[s].incident] = Append(@, Head(sender[s].left))]
Left(s, rest) == sender' = [sender EXCEPT ![s] = IF rest = <<>> THEN Waiting ELSE [@ EXCEPT !.left = rest]]

\* urlopen returns, or sendText, or sendall; publish on the live feed always does.
Answered(s) ==
  /\ Sending(s) /\ Give(s) /\ Left(s, Tail(sender[s].left))
  /\ UNCHANGED <<open, opened, broken>>

Refused(s) ==
  /\ Sending(s) /\ Head(sender[s].left).channel # "live"
  /\ Give(s) /\ Left(s, AfterError(s))
  /\ UNCHANGED <<open, opened, broken>>

\* An answer that is not HTTP, or the process dies.
Ended(s) ==
  /\ Sending(s)
  /\ broken' = broken \cup {sender[s].incident}
  /\ Left(s, <<>>)
  /\ UNCHANGED <<open, opened, sent>>

\* An operator, or check_zone_incident_resolutions, resolves the incident.
Resolved(s) ==
  /\ s \in open /\ open' = open \ {s}
  /\ UNCHANGED <<sender, opened, sent, broken>>

AlertsNext == \E s \in Sender : Alarmed(s) \/ Answered(s) \/ Refused(s) \/ Ended(s) \/ Resolved(s)

-----------------------------------------------------------------------------
\* Every channel configured hears of every incident it should, once, whichever
\* peers before it in the row refuse ("a slow or dead integration shouldn't be
\* able to stall detection ingestion", and must not silence the next); only the
\* end of the thread cuts the row short, and an alarm that is still met does not
\* start it again.
EveryChannelHearsOnce ==
  \A i \in DOMAIN opened : \A c \in Channels : \A n \in DOMAIN Recipient[c] :
    LET times == Cardinality({k \in DOMAIN sent[i] : sent[i][k] = [channel |-> c, to |-> n]})
        owed == Wanted(c, opened[i].severity, opened[i].located) IN
    IF i \in broken \/ \E s \in Sender : sender[s].incident = i
      THEN times <= 1
      ELSE times = IF owed THEN 1 ELSE 0
=============================================================================
