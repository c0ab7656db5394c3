----------------------------- MODULE MCDelivery -----------------------------
(* One instance for TLC of the modules that bring something into the API or *)
(* out of it, and start it.  They share no state: an initial state chooses   *)
(* one of them, which runs from its own initial states with the others       *)
(* parked where none of their fair actions is enabled.                       *)
EXTENDS LiveFeed, QueueConsumer, Bridges, Startup, Alerts

CONSTANTS m1, m3

VARIABLE focus

DeliveryVars == <<focus, FeedVars, QueueVars, BridgeVars, StartupVars, AlertsVars>>

\* Events of another site than a dashboard's are published too.
SiteOfClient == [c \in Client |-> "north"]

\* A payload that looks like a header, a PING and the end of a line, a
\* plain one, and one whose handling raises.
BodyOf == [m \in Message |-> IF m = m1 THEN <<MSG(1), CRLF, PING>> ELSE <<Unit(IF m = m3 THEN "harm" ELSE "detection")>>]

RecipientOf == [c \in Channels |->
  CASE c = "sms" -> <<"number1", "number2">> [] c = "mesh" -> <<>> [] OTHER -> <<"peer">>]

\* "nonsense" is a minimum that no severity meets.
MinimumOf == [c \in Channels |->
  CASE c = "sms" -> "critical" [] c = "slack" -> "low" [] c \in {"pagerduty", "mitigation"} -> "high"
    [] OTHER -> "nonsense"]

-----------------------------------------------------------------------------
QueueParked ==
  /\ queued = {} /\ silent = {}
  /\ wire = [c \in Consumer |-> <<>>] /\ buffer = wire /\ sentOn = wire /\ handled = wire
  /\ linked = [c \in Consumer |-> FALSE] /\ stopEvent = linked
  /\ stage = [c \in Consumer |-> "stopped"]
  /\ pings = 0 /\ drops = 0 /\ unanswered = [c \in Consumer |-> 0]

BridgeParked ==
  /\ kind = "ble" /\ uptime = MaxUptime
  /\ phase = "dead" /\ reading = Idling
  /\ known = [d \in Device |-> {}]
  /\ lastPost = [d \in Device |-> 0]
  /\ attempt = 0 /\ wake = 0
  /\ lastRefresh = Never
  /\ acked = [d \in Device |-> Never]

StartupParked ==
  /\ tables = AllTables /\ columns = Added(AllTables) /\ filterShape = "new" /\ uniqueZone = TRUE
  /\ defaultSite = TRUE /\ sited = [n \in ZoneName |-> 1] /\ siteless = NoRows
  /\ boot = [p \in Process |-> "serving"] /\ saw = [p \in Process |-> {}]
  /\ todo = [p \in Process |-> {}] /\ kills = 0

DeliveryInit ==
  /\ focus \in {"feed", "queue", "bridges", "startup", "alerts"}
  /\ FeedInit /\ AlertsInit
  /\ IF focus = "queue" THEN QueueInit ELSE QueueParked
  /\ IF focus = "bridges" THEN BridgeInit ELSE BridgeParked
  /\ IF focus = "startup" THEN StartupInit ELSE StartupParked

DeliveryNext ==
  /\ UNCHANGED focus
  /\ \/ focus = "feed" /\ FeedNext /\ UNCHANGED <<QueueVars, BridgeVars, StartupVars, AlertsVars>>
     \/ focus = "queue" /\ QueueNext /\ UNCHANGED <<FeedVars, BridgeVars, StartupVars, AlertsVars>>
     \/ focus = "bridges" /\ BridgeNext /\ UNCHANGED <<FeedVars, QueueVars, StartupVars, AlertsVars>>
     \/ focus = "startup" /\ StartupNext /\ UNCHANGED <<FeedVars, QueueVars, BridgeVars, AlertsVars>>
     \/ focus = "alerts" /\ AlertsNext /\ UNCHANGED <<FeedVars, QueueVars, BridgeVars, StartupVars>>

DeliverySpec ==
  /\ DeliveryInit /\ [][DeliveryNext]_DeliveryVars
  /\ FeedFairness /\ QueueFairness /\ BridgeFairness /\ StartupFairness

\* Types and bounds of all five; a feed's queue never exceeds its cap.
DeliveryTypeOK == FeedTypeOK /\ QueueTypeOK /\ BridgeTypeOK /\ StartupTypeOK /\ AlertsTypeOK
=============================================================================
