------------------------------ MODULE MCAccess ------------------------------
(* One instance for TLC of the modules behind the API's other endpoints and  *)
(* of its pure algorithms.  They share no state: an initial state chooses    *)
(* one of them, which runs from its own initial states with the others       *)
(* parked in one state.                                                      *)
EXTENDS Keys, Registry, Paging, Assignment, Rules, Fusion, TLC

CONSTANTS a1

VARIABLE focus

AccessVars == <<focus, KeysVars, RegistryVars, PagingVars, AssignmentVars, question, history>>

\* A viewer's key, and one that expires, of a site nobody made.
EntryOf == {[role |-> "viewer", site |-> "north", revoked |-> FALSE, expires |-> 9],
            [role |-> "admin", site |-> "unknown", revoked |-> FALSE, expires |-> 1]}

NeedOf == {{"viewer", "operator", "admin"}}

AgeOf == {-50, 0, 200, 300, 400}

SiteOfCaller == [c \in Caller |-> IF c = a1 THEN "north" ELSE "south"]

LabeledOf == {[id |-> 1, site |-> "north"]}

\* The threads are alike, and so are the callers of one site; nothing here is
\* about one of them in time.
Threads == Permutations(Request) \cup Permutations(Caller \ {a1})

\* An operator's entry for one link, less sure than the built-in one.
OperatorOf == <<[bands |-> {<<5725, 5850>>}, bandwidth |-> <<16, 18>>, hopping |-> "none", confidence |-> 60]>>

\* Sensors with sure, doubtful and poor reports; RF with links of several
\* kinds; radars, one that knows only azimuths, whose reports an operator
\* signed, or somebody else, or were signed for another report.
EvidenceOf ==
  LET report(type, confidence, signal) ==
        [type |-> type, confidence |-> confidence, signal |-> signal, sensor |-> "own", time |-> 1,
         place |-> {"here"}, bearing |-> FALSE, georeferenced |-> FALSE, claim |-> {}]
      claims == [operator : {"op"}, key : {"k"},
                 message : {<<"op", s, 1, place>> : s \in {"own", "finder"}, place \in {{"here"}, {}}}]
                  \cup [operator : {"op"}, key : {"other"}, message : {<<"op", "own", 1, {"here"}>>}]
      claimed(d) == {[d EXCEPT !.claim = {c}] : c \in claims} IN
  {report("adsb", 60, NoSignal)} \cup {report("acoustic", c, NoSignal) : c \in {0, 80}}
    \cup {report("camera", c, NoSignal) : c \in {30, 60, 80}} \cup {report("radar", 80, NoSignal)}
    \cup {report("rf", 40, [frequency |-> 5800, bandwidth |-> b, hopping |-> None]) : b \in {9, 16}}
    \cup {report("rf", 40, [frequency |-> 5800, bandwidth |-> 16, hopping |-> "yes"])}
    \cup {report("rf", 40, [frequency |-> 5700, bandwidth |-> 20, hopping |-> None])}
    \cup claimed(report("radar", 30, NoSignal))
    \cup claimed([report("other", 30, NoSignal) EXCEPT !.sensor = "finder", !.place = {}, !.bearing = TRUE])

OperatorsOf == [o \in {"op"} |-> "k"]

-----------------------------------------------------------------------------
\* The expiring key comes into the file while the API runs, or never.
KeysBegin == KeysInit /\ \A k \in DOMAIN versions[1] \cap Key : versions[1][k].expires > MaxTime

KeysParked == versions = <<NoFile>> /\ KeysInit

RegistryParked == zones = {} /\ RegistryInit

PagingParked == listing = "log" /\ window = [start |-> 0, end |-> 1] /\ PagingInit

AssignmentParked == distance = [i \in Plot |-> [t \in 1..Tracks |-> Far]] /\ AssignmentInit

RulesParked == question = [about |-> "pair", a |-> <<>>, b |-> <<>>]

AccessInit ==
  /\ focus \in {"keys", "registry", "paging", "assignment", "rules", "fusion"}
  /\ IF focus = "keys" THEN KeysBegin ELSE KeysParked
  /\ IF focus = "registry" THEN RegistryInit ELSE RegistryParked
  /\ IF focus = "paging" THEN PagingInit ELSE PagingParked
  /\ IF focus = "assignment" THEN AssignmentInit ELSE AssignmentParked
  /\ IF focus = "rules" THEN question \in ZoneQuestions \cup MoveQuestions ELSE RulesParked
  /\ FusionInit

AccessNext ==
  /\ UNCHANGED <<focus, question>>
  /\ \/ focus = "keys" /\ KeysNext /\ UNCHANGED <<RegistryVars, PagingVars, AssignmentVars, history>>
     \/ focus = "registry" /\ RegistryNext /\ UNCHANGED <<KeysVars, PagingVars, AssignmentVars, history>>
     \/ focus = "paging" /\ PagingNext /\ UNCHANGED <<KeysVars, RegistryVars, AssignmentVars, history>>
     \/ focus = "assignment" /\ AssignmentNext /\ UNCHANGED <<KeysVars, RegistryVars, PagingVars, history>>
     \/ focus = "fusion" /\ FusionNext /\ UNCHANGED <<KeysVars, RegistryVars, PagingVars, AssignmentVars>>

AccessSpec == AccessInit /\ [][AccessNext]_AccessVars

\* Types and bounds of the four that have state.
AccessTypeOK == KeysTypeOK /\ RegistryTypeOK /\ PagingTypeOK /\ AssignmentTypeOK
=============================================================================
