------------------------------ MODULE Registry ------------------------------
(***************************************************************************)
(* What administrators and operators change over the API (app/api/zones.py *)
(* sites.py, sensor_registry.py, authorized_operators.py, detections.py)   *)
(* and the audit log of it (app/db.py, app/api/audit_log.py).              *)
(*                                                                         *)
(* Each request is two or three transactions: a check, the change, and the *)
(* entry in the audit log.  Others run in between, and a process may die   *)
(* there.  A change is told by who made it, what it was, and the site its  *)
(* row belonged to; the columns it set are left out.                       *)
(***************************************************************************)
EXTENDS Integers, FiniteSets

CONSTANTS
  Caller,        \* requests, each acting for the site of its key
  SiteOf,        \* [Caller -> sites]
  Name,          \* names of zones and of sites
  Shared,        \* ids chosen by callers: sensors and authorized operators
  Labeled,       \* detections, each with its site: records [id, site]
  MaxZones, MaxCalls, MaxDeaths  \* bounds on the zones, the requests and the crashes

RegSite == {SiteOf[c] : c \in Caller}

ASSUME RegistryAssumption ==
  /\ Labeled \subseteq [id : Nat, site : RegSite]
  /\ {MaxCalls, MaxDeaths} \subseteq Nat /\ MaxZones \in Nat \ {0}

VARIABLES
  zones,         \* table zone: [id, site, name], ids counting up
  siteNames,     \* table site: the names
  homes,         \* tables sensor_registry, authorized_operator: the site of each row
  auditLog,      \* table audit_log
  changes,       \* history: what the tables went through
  unaudited,     \* history: changes whose process died before the entry
  call,          \* the request of each caller
  calls, deaths  \* counters, for the bounds

RegistryVars == <<zones, siteNames, homes, auditLog, changes, unaudited, call, calls, deaths>>

NoCall == [step |-> "idle"]
Unset == "unregistered"

RegistryTypeOK ==
  /\ zones \subseteq [id : 1..MaxZones, site : RegSite, name : Name]
  /\ siteNames \subseteq Name
  /\ homes \in [Shared -> RegSite \cup {Unset}]
  /\ unaudited \subseteq changes
  /\ \A c \in Caller : call[c].step \in {"idle", "insert", "update", "insert_site", "audit"}

RegistryInit ==
  /\ zones \in {{}} \cup {{[id |-> 1, site |-> s, name |-> n]} : s \in RegSite, n \in Name}
  /\ siteNames = {}
  /\ homes = [x \in Shared |-> Unset]
  /\ auditLog = {} /\ changes = {} /\ unaudited = {}
  /\ call = [c \in Caller |-> NoCall]
  /\ calls = 0 /\ deaths = 0

-----------------------------------------------------------------------------
Do(c, rec) == call' = [call EXCEPT ![c] = rec]
Refuse(c) == call' = [call EXCEPT ![c] = NoCall]   \* 404, 409 or a 500

\* The nth request: its number tells its change from another's.
Called(c) == call[c].step = "idle" /\ calls < MaxCalls /\ calls' = calls + 1

\* A change of a row that belongs to the site, to be audited next.
Change(c, n, action, target, site) ==
  LET change == [call |-> n, by |-> c, action |-> action, target |-> target, site |-> site] IN
  /\ changes' = changes \cup {change}
  /\ Do(c, [step |-> "audit", call |-> n, action |-> action, target |-> target, made |-> {change}])

\* create_zone's callers look the name up first.
CreateZone(c) ==
  /\ Called(c)
  /\ \E n \in Name :
       IF \E z \in zones : z.name = n /\ z.site = SiteOf[c] THEN Refuse(c)
       ELSE Do(c, [step |-> "insert", call |-> calls, name |-> n])
  /\ UNCHANGED <<zones, siteNames, homes, auditLog, changes, unaudited, deaths>>

\* A bug: there is no such index.
NameIsFree(site, n, id) == TRUE

\* The unique index over the site and the name.
NameFree(site, n, id) == \A z \in zones : z.site = site /\ z.name = n => z.id = id

InsertZone(c) ==
  LET id == Cardinality(zones) + 1 IN
  /\ call[c].step = "insert" /\ id <= MaxZones
  /\ IF NameFree(SiteOf[c], call[c].name, id)
       THEN /\ zones' = zones \cup {[id |-> id, site |-> SiteOf[c], name |-> call[c].name]}
            /\ Change(c, call[c].call, "zone.create", call[c].name, SiteOf[c])
       ELSE Refuse(c) /\ UNCHANGED <<zones, changes>>
  /\ UNCHANGED <<siteNames, homes, auditLog, unaudited, calls, deaths>>

\* A bug: a zone is looked up by its id alone.
ZoneOfAnySite(id, site) == {z \in zones : z.id = id}

\* get_zone
ZoneOf(id, site) == {z \in zones : z.id = id /\ z.site = site}

EditZone(c) ==
  /\ Called(c)
  /\ \E id \in 1..MaxZones, n \in Name :
       IF ZoneOf(id, SiteOf[c]) = {} THEN Refuse(c)
       ELSE Do(c, [step |-> "update", call |-> calls, id |-> id, name |-> n])
  /\ UNCHANGED <<zones, siteNames, homes, auditLog, changes, unaudited, deaths>>

\* update_zone: the rows of this id and site, if any.
UpdateZone(c) ==
  LET hit == {z \in zones : z.id = call[c].id /\ z.site = SiteOf[c]} IN
  /\ call[c].step = "update"
  /\ IF hit # {} /\ ~NameFree(SiteOf[c], call[c].name, call[c].id)
       THEN Refuse(c) /\ UNCHANGED <<zones, changes>>
     ELSE IF hit = {}
       THEN /\ Do(c, [step |-> "audit", call |-> call[c].call, action |-> "zone.update",
                      target |-> call[c].id, made |-> {}])
            /\ UNCHANGED <<zones, changes>>
     ELSE /\ zones' = {IF z \in hit THEN [z EXCEPT !.name = call[c].name] ELSE z : z \in zones}
          /\ Change(c, call[c].call, "zone.update", call[c].id, SiteOf[c])
  /\ UNCHANGED <<siteNames, homes, auditLog, unaudited, calls, deaths>>

\* create_new_site: the check, then the insert, which the table's own unique
\* constraint refuses with an error nobody catches.
CreateSite(c) ==
  /\ Called(c)
  /\ \E n \in Name :
       IF n \in siteNames THEN Refuse(c) ELSE Do(c, [step |-> "insert_site", call |-> calls, name |-> n])
  /\ UNCHANGED <<zones, siteNames, homes, auditLog, changes, unaudited, deaths>>

InsertSite(c) ==
  /\ call[c].step = "insert_site"
  /\ IF call[c].name \in siteNames THEN Refuse(c) /\ UNCHANGED <<siteNames, changes>>
     ELSE /\ siteNames' = siteNames \cup {call[c].name}
          /\ Change(c, call[c].call, "site.create", call[c].name, SiteOf[c])
  /\ UNCHANGED <<zones, homes, auditLog, unaudited, calls, deaths>>

\* upsert_sensor_registration and upsert_authorized_operator: keyed by the id
\* alone, so a row another site had moves (a limitation app/schema.py names).
Register(c) ==
  /\ Called(c)
  /\ \E x \in Shared :
       /\ homes' = [homes EXCEPT ![x] = SiteOf[c]]
       /\ Change(c, calls, "register", x, SiteOf[c])
  /\ UNCHANGED <<zones, siteNames, auditLog, unaudited, deaths>>

\* set_detection_human_label: UPDATE ... RETURNING.
DetectionOf(id, site) == {d \in Labeled : d.id = id /\ d.site = site}

LabelDetection(c) ==
  /\ Called(c)
  /\ \E id \in {d.id : d \in Labeled} :
       IF DetectionOf(id, SiteOf[c]) = {} THEN Refuse(c) /\ UNCHANGED changes
       ELSE \E d \in DetectionOf(id, SiteOf[c]) : Change(c, calls, "detection.label", id, d.site)
  /\ UNCHANGED <<zones, siteNames, homes, auditLog, unaudited, deaths>>

\* record_audit
RecordAudit(c) ==
  /\ call[c].step = "audit"
  /\ auditLog' = auditLog \cup {[call |-> call[c].call, by |-> c, action |-> call[c].action,
                                 target |-> call[c].target, site |-> SiteOf[c]]}
  /\ Refuse(c)
  /\ UNCHANGED <<zones, siteNames, homes, changes, unaudited, calls, deaths>>

\* The process dies, or the database fails, with the request half done.
Die(c) ==
  /\ call[c].step # "idle" /\ deaths < MaxDeaths
  /\ deaths' = deaths + 1
  /\ unaudited' = unaudited \cup IF call[c].step = "audit" THEN call[c].made ELSE {}
  /\ Refuse(c)
  /\ UNCHANGED <<zones, siteNames, homes, auditLog, changes, calls>>

RegistryNext ==
  \E c \in Caller :
    \/ CreateZone(c) \/ InsertZone(c) \/ EditZone(c) \/ UpdateZone(c)
    \/ CreateSite(c) \/ InsertSite(c) \/ Register(c) \/ LabelDetection(c)
    \/ RecordAudit(c) \/ Die(c)

-----------------------------------------------------------------------------
\* Two zones of a site never share a name, though the name is looked up in one
\* transaction and used in another, by a creation or by a renaming (the comment
\* in create_new_zone: the check alone cannot close the race).
ZoneNamesAreUnique ==
  \A y, z \in zones : y.site = z.site /\ y.name = z.name => y = z

\* The audit log says of every change who made it, and nothing that did not
\* happen: an entry is of a change of a row of the entry's own site, and a
\* change that has no entry is still to get it, or its process died.
AuditTellsWhatHappened ==
  /\ auditLog \subseteq changes
  /\ \A change \in changes \ (auditLog \cup unaudited) :
       \E c \in Caller : call[c].step = "audit" /\ change \in call[c].made
=============================================================================
