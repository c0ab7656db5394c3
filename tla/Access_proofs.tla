---------------------------- MODULE Access_proofs ----------------------------
(***************************************************************************)
(* What is proved of the registry with its audit log, of the keys and      *)
(* sessions, and of the listings that are read page by page, for every set *)
(* of callers, threads, zones, keys and versions, and whatever the sizes   *)
(* of pages and tables.                                                    *)
(***************************************************************************)
EXTENDS Keys, Registry, Paging, FiniteSetTheorems, SequenceTheorems, TLAPS

-----------------------------------------------------------------------------
(* The registry.  Zones are numbered in the order they are made and are     *)
(* never removed, so that the zone a request looked up is still there when  *)
(* it is changed; a request about to write its entry has made its change.   *)

ZonesAreNumbered ==
  /\ IsFiniteSet(zones)
  /\ \A z \in zones : z.id <= Cardinality(zones)
  /\ \A y, z \in zones : y.id = z.id => y = z

EntryDue(c) ==
  [call |-> call[c].call, by |-> c, action |-> call[c].action, target |-> call[c].target, site |-> SiteOf[c]]

CallMakesSense(c) ==
  /\ call[c].step \in {"insert", "insert_site", "update"} => call[c].name \in Name
  /\ call[c].step = "update" => \E z \in zones : z.id = call[c].id /\ z.site = SiteOf[c]
  /\ call[c].step = "audit" => call[c].made = {EntryDue(c)} /\ EntryDue(c) \in changes

RegistryInv ==
  /\ RegistryTypeOK
  /\ ZonesAreNumbered
  /\ ZoneNamesAreUnique
  /\ AuditTellsWhatHappened
  /\ call = [c \in Caller |-> call[c]] /\ \A c \in Caller : CallMakesSense(c)

LEMMA RegistryStarts == RegistryInit => RegistryInv
<1>. SUFFICES ASSUME RegistryInit PROVE RegistryInv
  OBVIOUS
<1>1. RegistryTypeOK
  BY RegistryAssumption DEF RegistryInit, RegistryTypeOK, NoCall
<1>2. ZonesAreNumbered /\ ZoneNamesAreUnique
  <2>1. CASE zones = {}
    BY <2>1, FS_EmptySet DEF ZonesAreNumbered, ZoneNamesAreUnique
  <2>2. ASSUME NEW z, z.id = 1, zones = {z}
        PROVE  ZonesAreNumbered /\ ZoneNamesAreUnique
    BY <2>2, FS_Singleton DEF ZonesAreNumbered, ZoneNamesAreUnique
  <2>3. ASSUME NEW s \in RegSite, NEW n \in Name, zones = {[id |-> 1, site |-> s, name |-> n]}
        PROVE  ZonesAreNumbered /\ ZoneNamesAreUnique
    BY <2>2, <2>3
  <2>. QED
    BY <2>1, <2>3 DEF RegistryInit
<1>3. AuditTellsWhatHappened
  BY DEF RegistryInit, AuditTellsWhatHappened
<1>4. call = [c \in Caller |-> call[c]] /\ \A c \in Caller : CallMakesSense(c)
  BY DEF RegistryInit, CallMakesSense, NoCall
<1>. QED
  BY <1>1, <1>2, <1>3, <1>4 DEF RegistryInv

\* A step of one request leaves the others' as they were.
LEMMA CallerMovesOn ==
  ASSUME RegistryInv, NEW c \in Caller, NEW rec, Do(c, rec), changes \subseteq changes',
         \A z \in zones : \E y \in zones' : y.id = z.id /\ y.site = z.site
  PROVE  /\ call' = [x \in Caller |-> call'[x]]
         /\ call'[c] = rec
         /\ \A x \in Caller \ {c} : call'[x] = call[x] /\ CallMakesSense(x)'
<1>1. /\ call' = [x \in Caller |-> call'[x]]
      /\ call'[c] = rec
      /\ \A x \in Caller \ {c} : call'[x] = call[x]
  BY DEF RegistryInv, Do
<1>2. ASSUME NEW x \in Caller \ {c}
      PROVE  CallMakesSense(x)'
  BY <1>1, <1>2 DEF RegistryInv, CallMakesSense, EntryDue
<1>. QED
  BY <1>1, <1>2

\* A request that looks something up, or is refused, changes nothing.
LEMMA NoChangeKeeps ==
  ASSUME RegistryInv, NEW c \in Caller, NEW rec, Do(c, rec), call[c].step # "audit",
         UNCHANGED <<zones, siteNames, homes, auditLog, changes, unaudited>>,
         rec.step \in {"idle", "insert", "update", "insert_site"},
         rec.step # "idle" => rec.name \in Name,
         rec.step = "update" => \E z \in zones : z.id = rec.id /\ z.site = SiteOf[c]
  PROVE  RegistryInv'
<1>1. /\ call' = [x \in Caller |-> call'[x]] /\ call'[c] = rec
      /\ \A x \in Caller \ {c} : call'[x] = call[x] /\ CallMakesSense(x)'
  BY CallerMovesOn
<1>2. CallMakesSense(c)'
  BY <1>1 DEF CallMakesSense
<1>3. RegistryTypeOK' /\ ZonesAreNumbered' /\ ZoneNamesAreUnique'
  BY <1>1 DEF RegistryInv, RegistryTypeOK, ZonesAreNumbered, ZoneNamesAreUnique
<1>4. AuditTellsWhatHappened'
  BY <1>1 DEF RegistryInv, AuditTellsWhatHappened
<1>. QED
  BY <1>1, <1>2, <1>3, <1>4 DEF RegistryInv

\* A change is one that its entry, due next, will tell of.
LEMMA ChangeKeeps ==
  ASSUME RegistryInv, NEW c \in Caller, call[c].step # "audit",
         NEW n, NEW action, NEW target, Change(c, n, action, target, SiteOf[c]),
         UNCHANGED <<auditLog, unaudited>>,
         RegistryTypeOK', ZonesAreNumbered', ZoneNamesAreUnique',
         \A z \in zones : \E y \in zones' : y.id = z.id /\ y.site = z.site
  PROVE  RegistryInv'
<1> DEFINE change == [call |-> n, by |-> c, action |-> action, target |-> target, site |-> SiteOf[c]]
           due == [step |-> "audit", call |-> n, action |-> action, target |-> target, made |-> {change}]
<1>1. changes' = changes \cup {change} /\ Do(c, due)
  BY DEF Change
<1>2. /\ call' = [x \in Caller |-> call'[x]] /\ call'[c] = due
      /\ \A x \in Caller \ {c} : call'[x] = call[x] /\ CallMakesSense(x)'
  BY <1>1, CallerMovesOn
<1>3. CallMakesSense(c)'
  BY <1>1, <1>2 DEF CallMakesSense, EntryDue
<1>4. AuditTellsWhatHappened'
  BY <1>1, <1>2 DEF RegistryInv, AuditTellsWhatHappened
<1>. QED
  BY <1>2, <1>3, <1>4 DEF RegistryInv

LEMMA CallTypeKeeps ==
  ASSUME RegistryInv, NEW c \in Caller, NEW n, NEW action, NEW target, NEW site, Change(c, n, action, target, site)
  PROVE  \A x \in Caller : call'[x].step \in {"idle", "insert", "update", "insert_site", "audit"}
  BY DEF RegistryInv, RegistryTypeOK, Change, Do

LEMMA InsertZoneKeeps ==
  ASSUME RegistryInv, NEW c \in Caller, InsertZone(c)
  PROVE  RegistryInv'
<1> DEFINE id == Cardinality(zones) + 1
           zone == [id |-> id, site |-> SiteOf[c], name |-> call[c].name]
<1>1. /\ RegistryTypeOK /\ ZonesAreNumbered /\ ZoneNamesAreUnique
      /\ call[c].step = "insert" /\ call[c].name \in Name /\ SiteOf[c] \in RegSite
  BY DEF RegistryInv, InsertZone, CallMakesSense, RegSite
<1>2. id \in Nat \ {0} /\ id - 1 = Cardinality(zones)
  BY <1>1, FS_CardinalityType DEF ZonesAreNumbered
<1>3. CASE ~NameFree(SiteOf[c], call[c].name, id)
  BY <1>1, <1>3, NoChangeKeeps DEF InsertZone, Refuse, Do, NoCall
<1>4. CASE NameFree(SiteOf[c], call[c].name, id)
  <2>1. /\ zones' = zones \cup {zone} /\ id <= MaxZones
        /\ Change(c, call[c].call, "zone.create", call[c].name, SiteOf[c])
        /\ UNCHANGED <<siteNames, homes, auditLog, unaudited>>
    BY <1>4 DEF InsertZone
  <2>2. \A z \in zones : z.id \in Nat /\ z.id < id
    BY <1>1, <1>2 DEF RegistryTypeOK, ZonesAreNumbered
  <2>3. zone \notin zones
    BY <2>2
  <2>4. IsFiniteSet(zones') /\ Cardinality(zones') = id
    BY <1>1, <2>1, <2>3, FS_AddElement DEF ZonesAreNumbered
  <2>5. ZonesAreNumbered'
    <3>1. zone.id = id
      OBVIOUS
    <3>2. \A z \in zones' : z = zone \/ z \in zones
      BY <2>1
    <3> HIDE DEF zone, id
    <3>3. \A z \in zones' : z.id <= id
      BY <1>2, <2>2, <3>1, <3>2
    <3>4. \A y, z \in zones' : y.id = z.id => y = z
      BY <1>1, <1>2, <2>2, <3>1, <3>2 DEF ZonesAreNumbered
    <3>. QED
      BY <2>4, <3>3, <3>4 DEF ZonesAreNumbered
  <2>6. ZoneNamesAreUnique'
    BY <1>1, <1>4, <2>1, <2>2 DEF ZoneNamesAreUnique, NameFree
  <2>7. RegistryTypeOK'
    <3>1. zone \in [id : 1..MaxZones, site : RegSite, name : Name]
      BY <1>1, <1>2, <2>1, RegistryAssumption
    <3>2. unaudited' \subseteq changes'
      BY <1>1, <2>1 DEF RegistryTypeOK, Change
    <3>. QED
      BY <1>1, <2>1, <3>1, <3>2, CallTypeKeeps DEF RegistryTypeOK
  <2>. QED
    BY <1>1, <2>1, <2>5, <2>6, <2>7, ChangeKeeps
<1>. QED
  BY <1>3, <1>4

\* The one zone a renaming hits keeps its number and its site.
LEMMA UpdateZoneKeeps ==
  ASSUME RegistryInv, NEW c \in Caller, UpdateZone(c)
  PROVE  RegistryInv'
<1> DEFINE name == call[c].name
           hit == {z \in zones : z.id = call[c].id /\ z.site = SiteOf[c]}
           renamed(z) == IF z \in hit THEN [z EXCEPT !.name = name] ELSE z
<1>1. /\ RegistryTypeOK /\ ZonesAreNumbered /\ ZoneNamesAreUnique
      /\ call[c].step = "update" /\ name \in Name /\ SiteOf[c] \in RegSite
  BY DEF RegistryInv, UpdateZone, CallMakesSense, RegSite
<1>2. PICK h \in zones : h.id = call[c].id /\ h.site = SiteOf[c]
  BY <1>1 DEF RegistryInv, CallMakesSense
<1>3. hit = {h}
  BY <1>1, <1>2 DEF ZonesAreNumbered
<1>4. CASE ~NameFree(SiteOf[c], name, call[c].id)
  BY <1>1, <1>3, <1>4, NoChangeKeeps DEF UpdateZone, Refuse, Do, NoCall
<1>5. CASE NameFree(SiteOf[c], name, call[c].id)
  <2>1. /\ zones' = {renamed(z) : z \in zones}
        /\ Change(c, call[c].call, "zone.update", call[c].id, SiteOf[c])
        /\ UNCHANGED <<siteNames, homes, auditLog, unaudited>>
    BY <1>3, <1>5 DEF UpdateZone
  <2> DEFINE new == [id |-> h.id, site |-> h.site, name |-> name]
  <2>2. renamed(h) = new
    BY <1>1, <1>3 DEF RegistryTypeOK
  <2>3. \A z \in zones \ {h} : renamed(z) = z /\ z.id # h.id
    BY <1>1, <1>3 DEF ZonesAreNumbered
  <2> HIDE DEF renamed
  <2>4. zones' = (zones \ {h}) \cup {new}
    BY <2>1, <2>2, <2>3
  <2>5. new \notin zones \ {h} /\ new.id = h.id /\ new.site = h.site /\ new.name = name
    BY <2>3
  <2>6. IsFiniteSet(zones') /\ Cardinality(zones') = Cardinality(zones)
    <3>1. /\ IsFiniteSet(zones \ {h}) /\ Cardinality(zones \ {h}) = Cardinality(zones) - 1
      BY <1>1, FS_RemoveElement DEF ZonesAreNumbered
    <3>2. Cardinality(zones) \in Nat
      BY <1>1, FS_CardinalityType DEF ZonesAreNumbered
    <3>. QED
      BY <2>4, <2>5, <3>1, <3>2, FS_AddElement
  <2>7. \A z \in zones' : z = new \/ z \in zones \ {h}
    BY <2>4
  <2>8. new \in [id : 1..MaxZones, site : RegSite, name : Name]
    BY <1>1 DEF RegistryTypeOK
  <2> HIDE DEF new
  <2>9. ZonesAreNumbered'
    BY <1>1, <2>3, <2>5, <2>6, <2>7 DEF ZonesAreNumbered
  <2>10. ZoneNamesAreUnique'
    <3>1. \A z \in zones \ {h} : ~(z.site = new.site /\ z.name = new.name)
      BY <1>2, <1>5, <2>3, <2>5 DEF NameFree
    <3>. QED
      BY <1>1, <2>7, <3>1 DEF ZoneNamesAreUnique
  <2>11. RegistryTypeOK'
    <3>1. unaudited' \subseteq changes'
      BY <1>1, <2>1 DEF RegistryTypeOK, Change
    <3>. QED
      BY <1>1, <2>1, <2>4, <2>8, <3>1, CallTypeKeeps DEF RegistryTypeOK
  <2>12. \A z \in zones : \E y \in zones' : y.id = z.id /\ y.site = z.site
    BY <2>4, <2>5
  <2>. QED
    BY <1>1, <2>1, <2>9, <2>10, <2>11, <2>12, ChangeKeeps
<1>. QED
  BY <1>4, <1>5

\* The changes that leave the zones alone.
LEMMA OtherChangeKeeps ==
  ASSUME RegistryInv, NEW c \in Caller, call[c].step # "audit",
         NEW n, NEW action, NEW target, Change(c, n, action, target, SiteOf[c]),
         UNCHANGED <<zones, auditLog, unaudited>>, siteNames' \subseteq Name,
         homes' \in [Shared -> RegSite \cup {Unset}]
  PROVE  RegistryInv'
<1>1. ZonesAreNumbered' /\ ZoneNamesAreUnique'
  BY DEF RegistryInv, ZonesAreNumbered, ZoneNamesAreUnique
<1>2. unaudited' \subseteq changes'
  BY DEF RegistryInv, RegistryTypeOK, Change
<1>3. RegistryTypeOK'
  BY <1>2, CallTypeKeeps DEF RegistryInv, RegistryTypeOK
<1>. QED
  BY <1>1, <1>3, ChangeKeeps

\* With its entry written, or its process dead, a request owes nothing.
LEMMA EndKeeps ==
  ASSUME RegistryInv, NEW c \in Caller, RecordAudit(c) \/ Die(c)
  PROVE  RegistryInv'
<1>1. UNCHANGED <<zones, siteNames, homes, changes>> /\ Do(c, NoCall)
  BY DEF RecordAudit, Die, Refuse, Do
<1>2. /\ call' = [x \in Caller |-> call'[x]] /\ call'[c] = NoCall
      /\ \A x \in Caller \ {c} : call'[x] = call[x] /\ CallMakesSense(x)'
  BY <1>1, CallerMovesOn
<1>3. CallMakesSense(c)'
  BY <1>2 DEF CallMakesSense, NoCall
<1>4. call[c].step = "audit" => call[c].made = {EntryDue(c)} /\ EntryDue(c) \in changes
  BY DEF RegistryInv, CallMakesSense
<1>5. /\ auditLog \subseteq auditLog' /\ unaudited \subseteq unaudited'
      /\ auditLog' \subseteq changes /\ unaudited' \subseteq changes
      /\ call[c].step = "audit" => EntryDue(c) \in auditLog' \cup unaudited'
  BY <1>4 DEF RegistryInv, RegistryTypeOK, AuditTellsWhatHappened, RecordAudit, Die, EntryDue
<1>6. RegistryTypeOK' /\ ZonesAreNumbered' /\ ZoneNamesAreUnique'
  BY <1>1, <1>2, <1>5 DEF RegistryInv, RegistryTypeOK, ZonesAreNumbered, ZoneNamesAreUnique, NoCall
<1>7. AuditTellsWhatHappened'
  BY <1>1, <1>2, <1>4, <1>5 DEF RegistryInv, AuditTellsWhatHappened
<1>. QED
  BY <1>2, <1>3, <1>6, <1>7 DEF RegistryInv

LEMMA RegistryStepKeeps == RegistryInv /\ [RegistryNext]_RegistryVars => RegistryInv'
<1>. SUFFICES ASSUME RegistryInv, [RegistryNext]_RegistryVars PROVE RegistryInv'
  OBVIOUS
<1>1. CASE UNCHANGED RegistryVars
  BY <1>1 DEF RegistryVars, RegistryInv, RegistryTypeOK, ZonesAreNumbered, ZoneNamesAreUnique,
              AuditTellsWhatHappened, CallMakesSense, EntryDue
<1>2. ASSUME NEW c \in Caller, RegistryNext!(c)
      PROVE  RegistryInv'
  <2>1. SiteOf[c] \in RegSite
    BY DEF RegSite
  <2>2. CASE CreateZone(c)
    BY <2>2, NoChangeKeeps DEF CreateZone, Called, Refuse, Do, NoCall
  <2>3. CASE InsertZone(c)
    BY <2>3, InsertZoneKeeps
  <2>4. CASE EditZone(c)
    <3>1. PICK id \in 1..MaxZones, n \in Name :
            IF ZoneOf(id, SiteOf[c]) = {} THEN Refuse(c)
            ELSE Do(c, [step |-> "update", call |-> calls, id |-> id, name |-> n])
      BY <2>4 DEF EditZone
    <3>2. CASE ZoneOf(id, SiteOf[c]) = {}
      BY <2>4, <3>1, <3>2, NoChangeKeeps DEF EditZone, Called, Refuse, Do, NoCall
    <3>3. CASE ZoneOf(id, SiteOf[c]) # {}
      BY <2>4, <3>1, <3>3, NoChangeKeeps DEF EditZone, Called, Do, ZoneOf
    <3>. QED
      BY <3>2, <3>3
  <2>5. CASE UpdateZone(c)
    BY <2>5, UpdateZoneKeeps
  <2>6. CASE CreateSite(c)
    BY <2>6, NoChangeKeeps DEF CreateSite, Called, Refuse, Do, NoCall
  <2>7. CASE InsertSite(c)
    <3>1. call[c].name \in Name
      BY <2>7 DEF InsertSite, RegistryInv, CallMakesSense
    <3>2. CASE call[c].name \in siteNames
      BY <2>7, <3>2, NoChangeKeeps DEF InsertSite, Refuse, Do, NoCall
    <3>3. CASE call[c].name \notin siteNames
      BY <2>7, <3>1, <3>3, OtherChangeKeeps DEF InsertSite, RegistryInv, RegistryTypeOK
    <3>. QED
      BY <3>2, <3>3
  <2>8. CASE Register(c)
    BY <2>1, <2>8, OtherChangeKeeps DEF Register, Called, RegistryInv, RegistryTypeOK
  <2>9. CASE LabelDetection(c)
    <3>1. PICK id \in {d.id : d \in Labeled} :
            IF DetectionOf(id, SiteOf[c]) = {} THEN Refuse(c) /\ UNCHANGED changes
            ELSE \E d \in DetectionOf(id, SiteOf[c]) : Change(c, calls, "detection.label", id, d.site)
      BY <2>9 DEF LabelDetection
    <3>2. CASE DetectionOf(id, SiteOf[c]) = {}
      BY <2>9, <3>1, <3>2, NoChangeKeeps DEF LabelDetection, Called, Refuse, Do, NoCall
    <3>3. CASE DetectionOf(id, SiteOf[c]) # {}
      <4>1. Change(c, calls, "detection.label", id, SiteOf[c])
        BY <3>1, <3>3 DEF DetectionOf
      <4>. QED
        BY <2>9, <4>1, OtherChangeKeeps DEF LabelDetection, Called, RegistryInv, RegistryTypeOK
    <3>. QED
      BY <3>2, <3>3
  <2>10. CASE RecordAudit(c) \/ Die(c)
    BY <2>10, EndKeeps
  <2>. QED
    BY <1>2, <2>2, <2>3, <2>4, <2>5, <2>6, <2>7, <2>8, <2>9, <2>10
<1>. QED
  BY <1>1, <1>2 DEF RegistryNext

LEMMA RegistrySafe == RegistryInit /\ [][RegistryNext]_RegistryVars => []RegistryInv
  BY RegistryStarts, RegistryStepKeeps, PTL

\* Whatever requests of a site interleave between their look at a name and its
\* use (app/api/zones.py), no two of its zones get one name.
THEOREM ZoneNamesStayUnique == RegistryInit /\ [][RegistryNext]_RegistryVars => []ZoneNamesAreUnique
<1>1. RegistryInv => ZoneNamesAreUnique
  BY DEF RegistryInv
<1>. QED
  BY <1>1, RegistrySafe, PTL

\* Every change has its entry in the audit log, is to get it, or lost it to a
\* crash, and an entry is of a change that was made, of a row of its own site
\* (db.record_audit and its callers).
THEOREM AuditIsTold == RegistryInit /\ [][RegistryNext]_RegistryVars => []AuditTellsWhatHappened
<1>1. RegistryInv => AuditTellsWhatHappened
  BY DEF RegistryInv
<1>. QED
  BY <1>1, RegistrySafe, PTL

-----------------------------------------------------------------------------
(* Keys and sessions. *)

KeyEntry == [role : Role, site : SiteName \cup {"unknown", "none"}, revoked : BOOLEAN, expires : Nat]
FileContents == UNION {[keys -> KeyEntry] : keys \in SUBSET Key}
Contents == FileContents \cup {NoFile}
Cookie == [role : Role, site : SiteName \cup {"none"}, issued : Nat]
Principal == [role : Role, site : SiteName \cup {"unknown", "none"}]

Asked == [step : {"stat", "read", "store", "judge", "flush", "site"}, need : Need, key : Key \cup {"none"},
          cookie : Cookie \cup {NoCookie}, at : Nat, since : Nat, stamp : Nat, keys : Contents,
          used : BOOLEAN, as : Principal \cup {NoCookie}]

Requests == request \in [Request -> Asked \cup {Idle}]

KeysShape ==
  /\ clock \in Nat /\ dbFailures \in Nat
  /\ versions \in Seq(Contents) /\ Len(versions) \in Nat \ {0}
  /\ \A i \in 2..Len(versions) : versions[i] \in FileContents
  /\ secretCache \in [stamp : Nat, keys : Contents]
  /\ rotation = [a \in Admin |-> rotation[a]]
  /\ \A a \in Admin : rotation[a].step = "write" => rotation[a].keys \in FileContents
  /\ lastFlushed \in [Key -> Int] /\ keyUsage \in [Key -> UsageRow] /\ lastUsed \in [Key -> Int]
  /\ Requests
  /\ \A r \in Request : request[r].step \in {"flush", "site"} => request[r].as \in Principal

LEMMA FileIsNotMissing == NoFile \notin FileContents
<1>1. ASSUME NEW K \in SUBSET Key, NoFile \in [K -> KeyEntry]
      PROVE  FALSE
  <2>1. DOMAIN NoFile = K /\ DOMAIN NoFile = {"missing"}
    BY <1>1 DEF NoFile
  <2>. QED
    BY <2>1, KeysAssumption
<1>. QED
  BY <1>1 DEF FileContents

LEMMA ChangedIsContents ==
  ASSUME NEW keys \in FileContents, NEW new \in Changed(keys)
  PROVE  new \in FileContents
<1>1. PICK K \in SUBSET Key : keys \in [K -> KeyEntry]
  BY DEF FileContents
<1>2. Entry \subseteq KeyEntry
  BY KeysAssumption DEF KeyEntry
<1>3. ASSUME NEW k \in Fresh, NEW e \in Entry, new = [x \in DOMAIN keys \cup {k} |-> IF x = k THEN e ELSE keys[x]]
      PROVE  new \in [K \cup {k} -> KeyEntry] /\ K \cup {k} \in SUBSET Key
  BY <1>1, <1>2, <1>3 DEF Fresh
<1>4. ASSUME NEW k \in DOMAIN keys, new = [x \in DOMAIN keys \ {k} |-> keys[x]]
      PROVE  new \in [K \ {k} -> KeyEntry] /\ K \ {k} \in SUBSET Key
  BY <1>1, <1>4
<1>5. ASSUME NEW k \in DOMAIN keys, new = [keys EXCEPT ![k].revoked = TRUE]
      PROVE  new \in [K -> KeyEntry]
  BY <1>1, <1>5 DEF KeyEntry
<1>6. ASSUME NEW L \in SUBSET Key, new \in [L -> KeyEntry]
      PROVE  new \in FileContents
  BY <1>6 DEF FileContents
<1>7. \/ \E k \in Fresh, e \in Entry : new = [x \in DOMAIN keys \cup {k} |-> IF x = k THEN e ELSE keys[x]]
      \/ \E k \in DOMAIN keys : new = [x \in DOMAIN keys \ {k} |-> keys[x]]
      \/ \E k \in DOMAIN keys : new = [keys EXCEPT ![k].revoked = TRUE]
  BY DEF Changed
<1>. QED
  BY <1>3, <1>4, <1>5, <1>6, <1>7

\* A function over no keys.
LEMMA NoKeys == <<>> \in FileContents
<1>1. <<>> \in [{} -> KeyEntry]
  OBVIOUS
<1>. QED
  BY <1>1 DEF FileContents

LEMMA ShapeStarts == KeysInit => KeysShape
<1>. SUFFICES ASSUME KeysInit PROVE KeysShape
  OBVIOUS
<1>1. PICK e \in Entry, k \in Key : versions \in {<<NoFile>>, <<[x \in {k} |-> e]>>}
  BY DEF KeysInit
<1>2. [x \in {k} |-> e] \in FileContents
  <2>1. [x \in {k} |-> e] \in [{k} -> KeyEntry]
    BY KeysAssumption DEF KeyEntry
  <2>. QED
    BY <2>1 DEF FileContents
<1>3. versions \in Seq(Contents) /\ Len(versions) = 1
  <2>1. ASSUME NEW contents \in Contents
        PROVE  <<contents>> \in Seq(Contents) /\ Len(<<contents>>) = 1
    OBVIOUS
  <2>2. versions = <<NoFile>> \/ versions = <<[x \in {k} |-> e]>>
    BY <1>1
  <2>. QED
    BY <1>2, <2>1, <2>2 DEF Contents
<1>. QED
  BY <1>3 DEF KeysInit, KeysShape, Contents, Idle, Requests, UsageRow

\* What a step of a thread does to its request, and to no other's.
Alone(r) == \A x \in Request \ {r} : request'[x] = request[x]
SameQuestion(r) ==
  /\ request'[r].need = request[r].need /\ request'[r].key = request[r].key
  /\ request'[r].cookie = request[r].cookie
  /\ request'[r].at = request[r].at /\ request'[r].since = request[r].since

LEMMA OverIsIdle ==
  ASSUME Requests, NEW r \in Request, Over(r)
  PROVE  Requests' /\ Alone(r) /\ request'[r] = Idle
  BY DEF Requests, Over, Alone

LEMMA AskedMoves ==
  ASSUME Requests, NEW r \in Request, NEW q \in Asked, request' = [request EXCEPT ![r] = q]
  PROVE  Requests' /\ Alone(r) /\ request'[r] = q
  BY DEF Requests, Alone

AskedOn(r) == Requests' /\ Alone(r) /\ SameQuestion(r) /\ request[r] \in Asked /\ request'[r] \in Asked

LEMMA StampIsNumber == KeysShape => Stamp \in Nat
<1>1. ASSUME KeysShape
      PROVE  Len(versions) \in Nat /\ Granularity \in Nat \ {0}
  BY <1>1, KeysAssumption DEF KeysShape
<1>2. ASSUME NEW n \in Nat, NEW g \in Nat \ {0}
      PROVE  n \div g \in Int /\ n \div g >= 0
  OBVIOUS
<1>. QED
  BY <1>1, <1>2 DEF Stamp

LEMMA StatMoves ==
  ASSUME KeysShape, NEW r \in Request, StatFile(r), File # NoFile
  PROVE  /\ AskedOn(r)
         /\ request'[r].step = "read" /\ request'[r].stamp = Stamp /\ request'[r].used = request[r].used
<1>1. request[r] \in Asked /\ Requests
  BY DEF KeysShape, Requests, StatFile, Idle
<1>2. Stamp \in Nat
  BY StampIsNumber
<1> DEFINE q == [request[r] EXCEPT !.step = "read", !.stamp = Stamp]
<1>3. request' = [request EXCEPT ![r] = q]
  BY <1>1 DEF StatFile, Requests
<1>4. q \in Asked
  BY <1>1, <1>2 DEF Asked
<1>5. /\ q.step = "read" /\ q.stamp = Stamp /\ q.used = request[r].used
      /\ q.need = request[r].need /\ q.key = request[r].key /\ q.cookie = request[r].cookie
      /\ q.at = request[r].at /\ q.since = request[r].since
  BY <1>1 DEF Asked
<1>6. Requests' /\ Alone(r) /\ request'[r] = q
  BY <1>1, <1>3, <1>4, AskedMoves
<1>. QED
  BY <1>1, <1>4, <1>5, <1>6 DEF SameQuestion, AskedOn

LEMMA ReadMoves ==
  ASSUME KeysShape, NEW r \in Request, ReadFile(r)
  PROVE  /\ AskedOn(r)
         /\ request'[r].stamp = request[r].stamp /\ request'[r].used = request[r].used
         /\ request'[r].step = (IF secretCache.stamp = request[r].stamp THEN "judge" ELSE "store")
         /\ request'[r].keys = (IF secretCache.stamp = request[r].stamp THEN secretCache.keys ELSE File)
<1>1. request[r] \in Asked /\ Requests
  BY DEF KeysShape, Requests, ReadFile, Idle
<1>2. File \in Contents /\ secretCache.keys \in Contents
  BY DEF KeysShape, File
<1> DEFINE q == [request[r] EXCEPT !.step = IF secretCache.stamp = request[r].stamp THEN "judge" ELSE "store",
                              !.keys = IF secretCache.stamp = request[r].stamp THEN secretCache.keys ELSE File]
<1>3. request' = [request EXCEPT ![r] = q]
  BY <1>1 DEF ReadFile, Requests
<1>4. q \in Asked
  BY <1>1, <1>2 DEF Asked
<1>5. /\ q.stamp = request[r].stamp /\ q.used = request[r].used
      /\ q.step = (IF secretCache.stamp = request[r].stamp THEN "judge" ELSE "store")
      /\ q.keys = (IF secretCache.stamp = request[r].stamp THEN secretCache.keys ELSE File)
      /\ q.need = request[r].need /\ q.key = request[r].key /\ q.cookie = request[r].cookie
      /\ q.at = request[r].at /\ q.since = request[r].since
  BY <1>1 DEF Asked
<1>6. Requests' /\ Alone(r) /\ request'[r] = q
  BY <1>1, <1>3, <1>4, AskedMoves
<1>. QED
  BY <1>1, <1>4, <1>5, <1>6 DEF SameQuestion, AskedOn

LEMMA StoreMoves ==
  ASSUME KeysShape, NEW r \in Request, StoreFile(r)
  PROVE  /\ AskedOn(r)
         /\ request'[r].step = "judge" /\ request'[r].keys = request[r].keys /\ request'[r].used = request[r].used
<1>1. request[r] \in Asked /\ Requests
  BY DEF KeysShape, Requests, StoreFile, Go, Idle
<1> DEFINE q == [request[r] EXCEPT !.step = "judge"]
<1>3. request' = [request EXCEPT ![r] = q]
  BY <1>1 DEF StoreFile, Go, Requests
<1>4. q \in Asked
  BY <1>1 DEF Asked
<1>5. /\ q.step = "judge" /\ q.keys = request[r].keys /\ q.used = request[r].used
      /\ q.need = request[r].need /\ q.key = request[r].key /\ q.cookie = request[r].cookie
      /\ q.at = request[r].at /\ q.since = request[r].since
  BY <1>1 DEF Asked
<1>6. Requests' /\ Alone(r) /\ request'[r] = q
  BY <1>1, <1>3, <1>4, AskedMoves
<1>. QED
  BY <1>1, <1>4, <1>5, <1>6 DEF SameQuestion, AskedOn

LEMMA WriteMoves ==
  ASSUME KeysShape, NEW r \in Request, request[r].step = "flush", Go(r, "site")
  PROVE  /\ AskedOn(r)
         /\ request'[r].step = "site" /\ request'[r].as = request[r].as /\ request'[r].used = request[r].used
<1>1. request[r] \in Asked /\ Requests
  BY DEF KeysShape, Requests, Go, Idle
<1> DEFINE q == [request[r] EXCEPT !.step = "site"]
<1>3. request' = [request EXCEPT ![r] = q]
  BY <1>1 DEF Go, Requests
<1>4. q \in Asked
  BY <1>1 DEF Asked
<1>5. /\ q.step = "site" /\ q.as = request[r].as /\ q.used = request[r].used
      /\ q.need = request[r].need /\ q.key = request[r].key /\ q.cookie = request[r].cookie
      /\ q.at = request[r].at /\ q.since = request[r].since
  BY <1>1 DEF Asked
<1>6. Requests' /\ Alone(r) /\ request'[r] = q
  BY <1>1, <1>3, <1>4, AskedMoves
<1>. QED
  BY <1>1, <1>4, <1>5, <1>6 DEF SameQuestion, AskedOn

LEMMA JudgeMoves ==
  ASSUME KeysShape, NEW r \in Request, request[r].step = "judge", NEW as \in Principal, Judge(r, as)
  PROVE  /\ AskedOn(r)
         /\ request'[r].step = "site" /\ request'[r].as = as /\ request'[r].used = request[r].used
<1>1. request[r] \in Asked /\ Requests
  BY DEF KeysShape, Requests, Judge, Idle
<1>2. NoFile \in Contents
  BY DEF Contents
<1> DEFINE q == [request[r] EXCEPT !.step = "site", !.as = as, !.stamp = 0, !.keys = NoFile]
<1>3. request' = [request EXCEPT ![r] = q]
  BY <1>1 DEF Judge, Requests
<1>4. q \in Asked
  BY <1>1, <1>2 DEF Asked
<1>5. /\ q.step = "site" /\ q.as = as /\ q.used = request[r].used
      /\ q.need = request[r].need /\ q.key = request[r].key /\ q.cookie = request[r].cookie
      /\ q.at = request[r].at /\ q.since = request[r].since
  BY <1>1 DEF Asked
<1>6. Requests' /\ Alone(r) /\ request'[r] = q
  BY <1>1, <1>3, <1>4, AskedMoves
<1>. QED
  BY <1>1, <1>4, <1>5, <1>6 DEF SameQuestion, AskedOn

\* The request of a key that was found good.
Found(r, as) ==
  request' = [request EXCEPT ![r].step = IF Due(request[r].key) THEN "flush" ELSE "site", ![r].used = TRUE,
                             ![r].as = as, ![r].stamp = 0, ![r].keys = NoFile]

LEMMA FoundMoves ==
  ASSUME KeysShape, NEW r \in Request, request[r].step = "judge", NEW as \in Principal, Found(r, as)
  PROVE  /\ AskedOn(r)
         /\ request'[r].step = (IF Due(request[r].key) THEN "flush" ELSE "site") /\ request'[r].as = as /\ request'[r].used = TRUE
<1>1. request[r] \in Asked /\ Requests
  BY DEF KeysShape, Requests, Found, Idle
<1>2. NoFile \in Contents
  BY DEF Contents
<1> DEFINE q == [request[r] EXCEPT !.step = IF Due(request[r].key) THEN "flush" ELSE "site", !.used = TRUE,
                              !.as = as, !.stamp = 0, !.keys = NoFile]
<1>3. request' = [request EXCEPT ![r] = q]
  BY <1>1 DEF Found, Requests
<1>4. q \in Asked
  BY <1>1, <1>2 DEF Asked
<1>5. /\ q.step = (IF Due(request[r].key) THEN "flush" ELSE "site") /\ q.as = as /\ q.used = TRUE
      /\ q.need = request[r].need /\ q.key = request[r].key /\ q.cookie = request[r].cookie
      /\ q.at = request[r].at /\ q.since = request[r].since
  BY <1>1 DEF Asked
<1>6. Requests' /\ Alone(r) /\ request'[r] = q
  BY <1>1, <1>3, <1>4, AskedMoves
<1>. QED
  BY <1>1, <1>4, <1>5, <1>6 DEF SameQuestion, AskedOn

LEMMA StartMoves ==
  ASSUME KeysShape, NEW r \in Request, NEW need \in Need, NEW k \in Key \cup {"none"},
         NEW c \in Cookie \cup {NoCookie}
  PROVE  LET q == Asking(need, k, c) IN
         /\ q \in Asked
         /\ q.step = "stat" /\ q.need = need /\ q.key = k /\ q.cookie = c
         /\ q.at = clock /\ q.since = Len(versions) /\ ~q.used
  BY DEF KeysShape, Asking, Asked, Contents

\* authenticate_key: refused, nothing is configured, or the key is good.
LEMMA JudgeCases ==
  ASSUME KeysShape, NEW r \in Request, JudgeKey(r)
  PROVE  LET k == request[r].key  all == Configured(request[r].keys) IN
         \/ Over(r) /\ UNCHANGED lastFlushed
         \/ DOMAIN all = {} /\ Judge(r, As("admin", "none")) /\ UNCHANGED lastFlushed
         \/ /\ k \in Key /\ Valid(request[r].keys, k, clock)
            /\ Allowed(all[k].role, request[r].need)
            /\ As(all[k].role, all[k].site) \in Principal
            /\ Found(r, As(all[k].role, all[k].site))
            /\ lastFlushed' = IF Due(k) THEN [lastFlushed EXCEPT ![k] = clock] ELSE lastFlushed
<1> DEFINE k == request[r].key
           keys == request[r].keys
           all == Configured(keys)
<1>1. request[r] \in Asked
  BY DEF KeysShape, Requests, JudgeKey, Idle
<1>2. ASSUME k # "none", Valid(keys, k, clock)
      PROVE  k \in Key /\ As(all[k].role, all[k].site) \in Principal
  <2>1. k \in Key /\ keys \in FileContents \cup {NoFile} /\ k \in AdminKey \cup DOMAIN keys
    BY <1>1, <1>2 DEF Asked, Contents, Valid, Configured
  <2>2. k \in DOMAIN keys => keys[k] \in KeyEntry
    BY <2>1, KeysAssumption DEF FileContents, NoFile
  <2>3. /\ k \in DOMAIN keys => all[k] = keys[k]
        /\ k \notin DOMAIN keys => all[k].role = "admin" /\ all[k].site = "none"
    BY <2>1 DEF Configured
  <2>4. all[k].role \in Role /\ all[k].site \in SiteName \cup {"unknown", "none"}
    BY <2>2, <2>3 DEF KeyEntry, Role
  <2>. QED
    BY <2>1, <2>4 DEF As, Principal
<1>. QED
  BY <1>2 DEF JudgeKey, Found

LEMMA NobodyIsPrincipal == As("admin", "none") \in Principal
  BY DEF As, Principal, Role

LEMMA ThreadKeepsShape ==
  ASSUME KeysShape, NEW r \in Request, Requests', Alone(r),
         request'[r].step \in {"flush", "site"} => request'[r].as \in Principal,
         UNCHANGED <<clock, versions, rotation>>,
         secretCache' \in [stamp : Nat, keys : Contents], dbFailures' \in Nat,
         lastFlushed' \in [Key -> Int], keyUsage' \in [Key -> UsageRow], lastUsed' \in [Key -> Int]
  PROVE  KeysShape'
  BY DEF KeysShape, Alone

LEMMA StartsKeepShape ==
  ASSUME KeysShape, NEW r \in Request, StartWithKey(r) \/ StartWithCookie(r)
  PROVE  KeysShape'
<1>1. CASE StartWithKey(r)
  <2>1. PICK need \in Need, k \in Key \cup {"none"} : request' = [request EXCEPT ![r] = Asking(need, k, NoCookie)]
    BY <1>1 DEF StartWithKey
  <2>2. Requests' /\ Alone(r) /\ request'[r].step = "stat"
    <3>1. Asking(need, k, NoCookie) \in Asked /\ Asking(need, k, NoCookie).step = "stat"
      BY StartMoves
    <3>. QED
      BY <2>1, <3>1, AskedMoves DEF KeysShape
  <2>. QED
    BY <1>1, <2>2, ThreadKeepsShape DEF StartWithKey, KeysShape
<1>2. CASE StartWithCookie(r)
  <2>1. PICK need \in Need, c \in Cookies :
          request' = [request EXCEPT ![r] =
            [Asking(need, "none", c) EXCEPT !.step = "site", !.as = As(c.role, c.site)]]
    BY <1>2 DEF StartWithCookie
  <2>2. c \in Cookie /\ As(c.role, c.site) \in Principal
    BY DEF Cookies, Cookie, RoleOf, Role, As, Principal, KeysShape
  <2> DEFINE q == [Asking(need, "none", c) EXCEPT !.step = "site", !.as = As(c.role, c.site)]
  <2>3. q \in Asked /\ q.as = As(c.role, c.site)
    <3>1. Asking(need, "none", c) \in Asked
      BY <2>2, StartMoves
    <3>. QED
      BY <2>2, <3>1 DEF Asked
  <2>4. Requests' /\ Alone(r) /\ request'[r] = q
    BY <2>1, <2>3, AskedMoves DEF KeysShape
  <2>. QED
    BY <1>2, <2>2, <2>3, <2>4, ThreadKeepsShape DEF StartWithCookie, KeysShape
<1>. QED
  BY <1>1, <1>2

LEMMA FileStepsKeepShape ==
  ASSUME KeysShape, NEW a \in Admin, RotateRead(a) \/ RotateWrite(a)
  PROVE  KeysShape'
<1>1. CASE RotateRead(a)
  <2>1. File = NoFile \/ File \in FileContents
    BY DEF KeysShape, File, Contents
  <2>2. (IF File = NoFile THEN <<>> ELSE File) \in FileContents
    BY <2>1, NoKeys
  <2>3. /\ rotation' = [b \in Admin |-> rotation'[b]]
        /\ \A b \in Admin : rotation'[b].step = "write" => rotation'[b].keys \in FileContents
    BY <1>1, <2>2 DEF RotateRead, KeysShape
  <2>. QED
    BY <1>1, <2>3 DEF RotateRead, KeysShape, Requests
<1>2. CASE RotateWrite(a)
  <2>1. PICK keys \in Changed(rotation[a].keys) : versions' = Append(versions, keys)
    BY <1>2 DEF RotateWrite
  <2>2. keys \in FileContents
    BY <1>2, ChangedIsContents DEF RotateWrite, KeysShape
  <2>3. /\ versions' \in Seq(Contents) /\ Len(versions') = Len(versions) + 1
        /\ \A i \in 1..Len(versions) : versions'[i] = versions[i]
        /\ versions'[Len(versions')] = keys
    BY <2>1, <2>2 DEF KeysShape, Contents
  <2>4. /\ rotation' = [b \in Admin |-> rotation'[b]]
        /\ \A b \in Admin : rotation'[b].step = "write" => rotation'[b].keys \in FileContents
    BY <1>2 DEF RotateWrite, KeysShape
  <2>5. Len(versions') \in Nat \ {0} /\ \A i \in 2..Len(versions') : versions'[i] \in FileContents
    BY <2>2, <2>3 DEF KeysShape
  <2>. QED
    BY <1>2, <2>3, <2>4, <2>5 DEF RotateWrite, KeysShape, Requests
<1>. QED
  BY <1>1, <1>2

LEMMA ThreadStepsKeepShape ==
  ASSUME KeysShape, NEW r \in Request,
         StatFile(r) \/ ReadFile(r) \/ StoreFile(r) \/ JudgeKey(r) \/ WriteUsage(r) \/ ResolveSite(r)
  PROVE  KeysShape'
<1>1. /\ Requests /\ clock \in Int /\ dbFailures \in Nat
      /\ secretCache \in [stamp : Nat, keys : Contents] /\ lastFlushed \in [Key -> Int]
      /\ keyUsage \in [Key -> UsageRow] /\ lastUsed \in [Key -> Int]
      /\ request[r].step \in {"flush", "site"} => request[r].as \in Principal
  BY DEF KeysShape
<1>2. CASE StatFile(r)
  <2>1. Requests' /\ Alone(r) /\ request'[r].step \notin {"flush", "site"}
    BY <1>1, <1>2, OverIsIdle, StatMoves DEF StatFile, AskedOn, Idle
  <2>. QED
    BY <1>1, <1>2, <2>1, ThreadKeepsShape DEF StatFile
<1>3. CASE ReadFile(r)
  <2>1. Requests' /\ Alone(r) /\ request'[r].step \notin {"flush", "site"}
    BY <1>3, ReadMoves DEF AskedOn
  <2>. QED
    BY <1>1, <1>3, <2>1, ThreadKeepsShape DEF ReadFile
<1>4. CASE StoreFile(r)
  <2>1. Requests' /\ Alone(r) /\ request'[r].step \notin {"flush", "site"}
    BY <1>4, StoreMoves DEF AskedOn
  <2>2. request[r].stamp \in Nat /\ request[r].keys \in Contents
    BY <1>1, <1>4 DEF StoreFile, Requests, Asked, Idle
  <2>. QED
    BY <1>1, <1>4, <2>1, <2>2, ThreadKeepsShape DEF StoreFile, StampBefore
<1>5. CASE JudgeKey(r)
  <2>1. /\ Requests' /\ Alone(r) /\ lastFlushed' \in [Key -> Int]
        /\ request'[r].step \in {"flush", "site"} => request'[r].as \in Principal
    <3> DEFINE k == request[r].key
               all == Configured(request[r].keys)
    <3>0. request[r].step = "judge"
      BY <1>5 DEF JudgeKey
    <3>1. CASE Over(r) /\ UNCHANGED lastFlushed
      BY <1>1, <3>1, OverIsIdle DEF Idle
    <3>2. CASE Judge(r, As("admin", "none")) /\ UNCHANGED lastFlushed
      BY <1>1, <3>0, <3>2, JudgeMoves, NobodyIsPrincipal DEF AskedOn
    <3>3. CASE /\ k \in Key /\ As(all[k].role, all[k].site) \in Principal
               /\ Found(r, As(all[k].role, all[k].site))
               /\ lastFlushed' = IF Due(k) THEN [lastFlushed EXCEPT ![k] = clock] ELSE lastFlushed
      BY <1>1, <3>0, <3>3, FoundMoves DEF AskedOn
    <3>. QED
      BY <1>5, <3>1, <3>2, <3>3, JudgeCases
  <2>. QED
    BY <1>1, <1>5, <2>1, ThreadKeepsShape DEF JudgeKey
<1>6. CASE WriteUsage(r)
  <2>1. request[r].step = "flush" /\ request[r].key \in Key \cup {"none"}
    BY <1>1, <1>6 DEF WriteUsage, Requests, Asked, Idle
  <2>2. Over(r) => Requests' /\ Alone(r) /\ request'[r].step \notin {"flush", "site"}
    BY <1>1, OverIsIdle DEF Idle
  <2>3. Go(r, "site") => Requests' /\ Alone(r) /\ request'[r].as = request[r].as
    BY <2>1, WriteMoves DEF AskedOn
  <2>4. keyUsage' \in [Key -> UsageRow]
    <3>1. ASSUME NEW k \in Key, keyUsage' = [keyUsage EXCEPT ![k] = [last |-> clock, count |-> @.count + 1]]
          PROVE  keyUsage' \in [Key -> UsageRow]
      BY <1>1, <3>1 DEF UsageRow
    <3>2. ASSUME NEW k, k \notin Key, keyUsage' = [keyUsage EXCEPT ![k] = [last |-> clock, count |-> @.count + 1]]
          PROVE  keyUsage' = keyUsage
      BY <1>1, <3>2
    <3>. QED
      BY <1>1, <1>6, <3>1, <3>2 DEF WriteUsage
  <2>5. dbFailures' \in Nat
    BY <1>1, <1>6 DEF WriteUsage
  <2>6. Requests' /\ Alone(r) /\ (request'[r].step \in {"flush", "site"} => request'[r].as \in Principal)
    BY <1>1, <1>6, <2>1, <2>2, <2>3 DEF WriteUsage
  <2>. QED
    BY <1>1, <1>6, <2>4, <2>5, <2>6, ThreadKeepsShape DEF WriteUsage
<1>7. CASE ResolveSite(r)
  <2>1. Requests' /\ Alone(r) /\ request'[r].step \notin {"flush", "site"}
    BY <1>1, <1>7, OverIsIdle DEF ResolveSite, Idle
  <2>2. lastUsed' \in [Key -> Int]
    BY <1>1, <1>7 DEF ResolveSite
  <2>. QED
    BY <1>1, <1>7, <2>1, <2>2, ThreadKeepsShape DEF ResolveSite
<1>. QED
  BY <1>2, <1>3, <1>4, <1>5, <1>6, <1>7

LEMMA ShapeStepKeeps == KeysShape /\ [KeysNext]_KeysVars => KeysShape'
<1>. SUFFICES ASSUME KeysShape, [KeysNext]_KeysVars PROVE KeysShape'
  OBVIOUS
<1>1. CASE UNCHANGED KeysVars \/ KeysTick
  BY <1>1 DEF KeysVars, KeysTick, KeysShape, Requests
<1>2. CASE \E a \in Admin : RotateRead(a) \/ RotateWrite(a)
  BY <1>2, FileStepsKeepShape
<1>3. CASE \E r \in Request : StartWithKey(r) \/ StartWithCookie(r)
  BY <1>3, StartsKeepShape
<1>4. CASE \E r \in Request : \/ StatFile(r) \/ ReadFile(r) \/ StoreFile(r)
                              \/ JudgeKey(r) \/ WriteUsage(r) \/ ResolveSite(r)
  BY <1>4, ThreadStepsKeepShape
<1>. QED
  BY <1>1, <1>2, <1>3, <1>4 DEF KeysNext

\* The record of a key's use.  A request that was found good took the slot, or
\* found it taken less than an interval ago; who took the slot writes the row.
OnTime(q) == q.step # "idle" => q.at <= clock /\ clock <= q.at + MaxLatency

SlotTaken(q) ==
  /\ q.step = "flush" => q.used
  /\ q.step # "idle" /\ q.used =>
       /\ q.step \in {"flush", "site"} /\ q.key \in Key
       /\ lastFlushed[q.key] # -1 /\ q.at - lastFlushed[q.key] < FlushInterval

FlushPending(k) == \E r \in Request : request[r].step = "flush" /\ request[r].key = k

UseRecorded(k) ==
  /\ -1 <= lastFlushed[k] /\ lastFlushed[k] <= clock
  /\ lastUsed[k] = -1 \/ lastUsed[k] - lastFlushed[k] < FlushInterval + MaxLatency
  /\ dbFailures = 0 => keyUsage[k].last >= lastFlushed[k] \/ FlushPending(k)

UsageInv ==
  /\ KeysShape
  /\ \A r \in Request : OnTime(request[r]) /\ SlotTaken(request[r])
  /\ \A k \in Key : UseRecorded(k)

LEMMA UsageStarts == KeysInit => UsageInv
<1>. SUFFICES ASSUME KeysInit PROVE UsageInv
  OBVIOUS
<1>1. KeysShape
  BY ShapeStarts
<1>2. \A r \in Request : OnTime(request[r]) /\ SlotTaken(request[r])
  BY DEF KeysInit, OnTime, SlotTaken, Idle
<1>3. \A k \in Key : UseRecorded(k)
  BY DEF KeysInit, UseRecorded
<1>. QED
  BY <1>1, <1>2, <1>3 DEF UsageInv

\* Until a key is found good there is nothing to record.
LEMMA ThreadKeepsUsage ==
  ASSUME UsageInv, KeysShape', NEW r \in Request, Alone(r), request[r].step # "flush",
         OnTime(request[r])', SlotTaken(request[r])',
         UNCHANGED <<clock, lastFlushed, keyUsage, lastUsed, dbFailures>>
  PROVE  UsageInv'
<1>1. \A x \in Request : OnTime(request[x])' /\ SlotTaken(request[x])'
  BY DEF UsageInv, Alone, OnTime, SlotTaken
<1>2. \A k \in Key : FlushPending(k) => FlushPending(k)'
  BY DEF FlushPending, Alone
<1>3. \A k \in Key : UseRecorded(k)'
  BY <1>2 DEF UsageInv, UseRecorded
<1>. QED
  BY <1>1, <1>3 DEF UsageInv

LEMMA EarlyStepsKeepUsage ==
  ASSUME UsageInv, KeysShape', NEW r \in Request,
         StartWithKey(r) \/ StartWithCookie(r) \/ StatFile(r) \/ ReadFile(r) \/ StoreFile(r)
  PROVE  UsageInv'
<1>1. KeysShape /\ OnTime(request[r]) /\ SlotTaken(request[r]) /\ Requests /\ clock \in Nat /\ MaxLatency \in Nat
  BY KeysAssumption DEF UsageInv, KeysShape
<1>2. UNCHANGED <<clock, lastFlushed, keyUsage, lastUsed, dbFailures>> /\ request[r].step # "flush"
  BY DEF StartWithKey, StartWithCookie, StatFile, ReadFile, StoreFile
<1>3. /\ Alone(r)
      /\ \/ request'[r] = Idle
         \/ ~request'[r].used /\ request'[r].at = clock /\ request'[r].step # "flush"
         \/ /\ request[r].step \notin {"idle", "flush", "site"} /\ request'[r].step # "flush"
            /\ request'[r].used = request[r].used /\ request'[r].at = request[r].at
  <2>1. CASE StartWithKey(r)
    <3>1. PICK need \in Need, k \in Key \cup {"none"} : request' = [request EXCEPT ![r] = Asking(need, k, NoCookie)]
      BY <2>1 DEF StartWithKey
    <3>2. LET q == Asking(need, k, NoCookie) IN q \in Asked /\ q.step = "stat" /\ ~q.used /\ q.at = clock
      BY <1>1, StartMoves
    <3>. QED
      BY <1>1, <3>1, <3>2, AskedMoves
  <2>2. CASE StartWithCookie(r)
    <3>1. PICK need \in Need, c \in Cookies :
            request' = [request EXCEPT ![r] =
              [Asking(need, "none", c) EXCEPT !.step = "site", !.as = As(c.role, c.site)]]
      BY <2>2 DEF StartWithCookie
    <3> DEFINE q == [Asking(need, "none", c) EXCEPT !.step = "site", !.as = As(c.role, c.site)]
    <3>2. q.step = "site" /\ ~q.used /\ q.at = clock
      BY DEF Asking
    <3>3. Alone(r) /\ request'[r] = q
      BY <1>1, <3>1 DEF Alone, Requests
    <3>. QED
      BY <3>2, <3>3
  <2>3. CASE StatFile(r)
    BY <1>1, <2>3, OverIsIdle, StatMoves DEF StatFile, AskedOn, SameQuestion
  <2>4. CASE ReadFile(r)
    <3>1. /\ AskedOn(r) /\ request'[r].used = request[r].used
          /\ request'[r].step = (IF secretCache.stamp = request[r].stamp THEN "judge" ELSE "store")
      BY <1>1, <2>4, ReadMoves
    <3>. QED
      BY <2>4, <3>1 DEF ReadFile, AskedOn, SameQuestion
  <2>5. CASE StoreFile(r)
    BY <1>1, <2>5, StoreMoves DEF StoreFile, AskedOn, SameQuestion
  <2>. QED
    BY <2>1, <2>2, <2>3, <2>4, <2>5
<1>4. OnTime(request[r])' /\ SlotTaken(request[r])'
  BY <1>1, <1>2, <1>3 DEF OnTime, SlotTaken, Idle
<1>. QED
  BY <1>2, <1>3, <1>4, ThreadKeepsUsage

LEMMA JudgeKeepsUsage ==
  ASSUME UsageInv, KeysShape', NEW r \in Request, JudgeKey(r)
  PROVE  UsageInv'
<1> DEFINE k == request[r].key
           all == Configured(request[r].keys)
<1>1. /\ KeysShape /\ OnTime(request[r]) /\ SlotTaken(request[r]) /\ Requests
      /\ clock \in Nat /\ MaxLatency \in Nat /\ FlushInterval \in Nat \ {0}
      /\ request[r].step = "judge" /\ request[r] \in Asked /\ ~request[r].used
      /\ UNCHANGED <<clock, keyUsage, lastUsed, dbFailures>>
  <2>1. /\ KeysShape /\ OnTime(request[r]) /\ SlotTaken(request[r]) /\ Requests
        /\ clock \in Nat /\ MaxLatency \in Nat /\ FlushInterval \in Nat \ {0}
    BY KeysAssumption DEF UsageInv, KeysShape
  <2>2. request[r].step = "judge" /\ UNCHANGED <<clock, keyUsage, lastUsed, dbFailures>>
    BY DEF JudgeKey
  <2>. QED
    BY <2>1, <2>2 DEF Requests, SlotTaken, Idle
<1>2. CASE UNCHANGED lastFlushed /\ (Over(r) \/ Judge(r, As("admin", "none")))
  <2>1. /\ Alone(r)
        /\ \/ request'[r] = Idle
           \/ /\ request'[r].step = "site" /\ ~request'[r].used /\ request'[r].at = request[r].at
    BY <1>1, <1>2, OverIsIdle, JudgeMoves, NobodyIsPrincipal DEF AskedOn, SameQuestion
  <2>2. OnTime(request[r])' /\ SlotTaken(request[r])'
    BY <1>1, <2>1 DEF OnTime, SlotTaken, Idle
  <2>. QED
    BY <1>1, <1>2, <2>1, <2>2, ThreadKeepsUsage
<1>3. ASSUME k \in Key, NEW as \in Principal, Found(r, as),
             lastFlushed' = IF Due(k) THEN [lastFlushed EXCEPT ![k] = clock] ELSE lastFlushed
      PROVE  UsageInv'
  <2>1. /\ AskedOn(r) /\ request'[r].used = TRUE
        /\ request'[r].step = (IF Due(k) THEN "flush" ELSE "site")
    BY <1>1, <1>3, FoundMoves
  <2>2. /\ Alone(r) /\ request'[r].at = request[r].at /\ request'[r].key = k
        /\ request[r].at <= clock /\ request[r].at \in Nat
    BY <1>1, <2>1 DEF AskedOn, SameQuestion, OnTime, Asked
  <2>3. lastFlushed \in [Key -> Int] /\ \A x \in Key : -1 <= lastFlushed[x] /\ lastFlushed[x] <= clock
    BY DEF UsageInv, KeysShape, UseRecorded
  <2>4. /\ \A x \in Key : lastFlushed'[x] = lastFlushed[x] \/ (lastFlushed'[x] = clock /\ x = k /\ Due(k))
        /\ lastFlushed'[k] # -1 /\ clock - lastFlushed'[k] < FlushInterval /\ lastFlushed' \in [Key -> Int]
    BY <1>1, <1>3, <2>3 DEF Due
  <2>5. OnTime(request[r])' /\ SlotTaken(request[r])'
    BY <1>1, <1>3, <2>1, <2>2, <2>4 DEF OnTime, SlotTaken
  <2>6. ASSUME NEW x \in Request \ {r}
        PROVE  OnTime(request[x])' /\ SlotTaken(request[x])'
    <3>1. request'[x] = request[x] /\ OnTime(request[x]) /\ SlotTaken(request[x]) /\ request[x] \in Asked \cup {Idle}
      BY <1>1, <2>2 DEF Alone, UsageInv, Requests
    <3>2. CASE request[x].step = "idle" \/ ~request[x].used
      BY <1>1, <3>1, <3>2 DEF OnTime, SlotTaken
    <3>3. CASE request[x].step # "idle" /\ request[x].used
      <4>1. /\ request[x].key \in Key /\ request[x].at \in Nat
            /\ request[x].step \in {"flush", "site"}
            /\ request[x].at - lastFlushed[request[x].key] < FlushInterval
            /\ lastFlushed[request[x].key] # -1
        BY <3>1, <3>3 DEF SlotTaken, Asked, Idle
      <4>2. /\ lastFlushed'[request[x].key] # -1
            /\ lastFlushed'[request[x].key] >= lastFlushed[request[x].key] /\ lastFlushed'[request[x].key] \in Int
        BY <1>1, <2>3, <2>4, <4>1
      <4>3. request[x].at - lastFlushed'[request[x].key] < FlushInterval
        BY <1>1, <2>3, <4>1, <4>2
      <4>. QED
        BY <1>1, <3>1, <3>3, <4>1, <4>2, <4>3 DEF OnTime, SlotTaken
    <3>. QED
      BY <3>2, <3>3
  <2>7. ASSUME NEW x \in Key
        PROVE  UseRecorded(x)'
    <3>1. UseRecorded(x) /\ lastUsed \in [Key -> Int] /\ keyUsage \in [Key -> UsageRow]
      BY DEF UsageInv, KeysShape
    <3>2. FlushPending(x) => FlushPending(x)'
      BY <1>1, <2>2 DEF FlushPending, Alone
    <3>3. CASE lastFlushed'[x] = lastFlushed[x]
      BY <1>1, <3>1, <3>2, <3>3 DEF UseRecorded
    <3>4. CASE lastFlushed'[x] = clock /\ x = k /\ Due(k)
      <4>1. FlushPending(x)'
        BY <1>1, <2>1, <2>2, <3>4 DEF FlushPending
      <4>2. lastUsed[x] - clock < FlushInterval + MaxLatency \/ lastUsed[x] = -1
        BY <1>1, <2>3, <3>1 DEF UseRecorded
      <4>. QED
        BY <1>1, <3>4, <4>1, <4>2 DEF UseRecorded
    <3>. QED
      BY <2>4, <3>3, <3>4
  <2>. QED
    BY <2>5, <2>6, <2>7 DEF UsageInv
<1>4. CASE /\ k \in Key /\ As(all[k].role, all[k].site) \in Principal
           /\ Found(r, As(all[k].role, all[k].site))
           /\ lastFlushed' = IF Due(k) THEN [lastFlushed EXCEPT ![k] = clock] ELSE lastFlushed
  BY <1>3, <1>4
<1>. QED
  BY <1>1, <1>2, <1>4, JudgeCases

LEMMA WriteKeepsUsage ==
  ASSUME UsageInv, KeysShape', NEW r \in Request, WriteUsage(r)
  PROVE  UsageInv'
<1> DEFINE k == request[r].key
<1>1. /\ KeysShape /\ OnTime(request[r]) /\ SlotTaken(request[r]) /\ Requests
      /\ clock \in Nat /\ request[r].step = "flush" /\ k \in Key /\ keyUsage \in [Key -> UsageRow]
      /\ UNCHANGED <<clock, lastFlushed, lastUsed>> /\ dbFailures \in Nat
  BY DEF UsageInv, KeysShape, WriteUsage, SlotTaken
<1>2. /\ Alone(r)
      /\ \/ request'[r] = Idle
         \/ /\ request'[r].step = "site" /\ request'[r].used = request[r].used
            /\ request'[r].key = k /\ request'[r].at = request[r].at
  BY <1>1, OverIsIdle, WriteMoves DEF WriteUsage, AskedOn, SameQuestion
<1>3. \A x \in Request : OnTime(request[x])' /\ SlotTaken(request[x])'
  BY <1>1, <1>2 DEF UsageInv, Alone, OnTime, SlotTaken, Idle
<1>4. ASSUME NEW x \in Key
      PROVE  UseRecorded(x)'
  <2>1. UseRecorded(x)
    BY DEF UsageInv
  <2>2. x # k => (FlushPending(x) => FlushPending(x)')
    BY <1>2 DEF FlushPending, Alone
  <2>3. \/ dbFailures' = dbFailures + 1
        \/ /\ dbFailures' = dbFailures /\ keyUsage'[k].last = clock
           /\ \A y \in Key \ {k} : keyUsage'[y] = keyUsage[y]
    BY <1>1 DEF WriteUsage
  <2>4. dbFailures' = 0 => keyUsage'[x].last >= lastFlushed[x] \/ FlushPending(x)'
    BY <1>1, <2>1, <2>2, <2>3 DEF UseRecorded
  <2>. QED
    BY <1>1, <2>1, <2>4 DEF UseRecorded
<1>. QED
  BY <1>3, <1>4 DEF UsageInv

LEMMA ResolveKeepsUsage ==
  ASSUME UsageInv, KeysShape', NEW r \in Request, ResolveSite(r)
  PROVE  UsageInv'
<1> DEFINE k == request[r].key
<1>1. /\ KeysShape /\ OnTime(request[r]) /\ SlotTaken(request[r]) /\ Requests
      /\ clock \in Nat /\ request[r].step = "site" /\ lastFlushed \in [Key -> Int] /\ lastUsed \in [Key -> Int]
      /\ UNCHANGED <<clock, lastFlushed, keyUsage, dbFailures>>
      /\ MaxLatency \in Nat /\ FlushInterval \in Nat /\ request[r].at \in Nat
  <2>1. /\ KeysShape /\ OnTime(request[r]) /\ SlotTaken(request[r]) /\ Requests
        /\ clock \in Nat /\ MaxLatency \in Nat /\ FlushInterval \in Nat
        /\ lastFlushed \in [Key -> Int] /\ lastUsed \in [Key -> Int]
    BY KeysAssumption DEF UsageInv, KeysShape
  <2>2. request[r].step = "site" /\ UNCHANGED <<clock, lastFlushed, keyUsage, dbFailures>>
    BY DEF ResolveSite
  <2>. QED
    BY <2>1, <2>2 DEF Requests, Asked, Idle
<1>2. Alone(r) /\ request'[r] = Idle
  BY <1>1, OverIsIdle DEF ResolveSite
<1>3. \A x \in Request : OnTime(request[x])' /\ SlotTaken(request[x])'
  BY <1>1, <1>2 DEF UsageInv, Alone, OnTime, SlotTaken, Idle
<1>4. \A x \in Key : \/ lastUsed'[x] = lastUsed[x]
                     \/ x = k /\ lastUsed'[x] = clock /\ request[r].used
  BY <1>1 DEF ResolveSite
<1>5. request[r].used => k \in Key /\ clock - lastFlushed[k] < FlushInterval + MaxLatency
  BY <1>1 DEF OnTime, SlotTaken
<1>6. ASSUME NEW x \in Key
      PROVE  UseRecorded(x)'
  <2>1. FlushPending(x) => FlushPending(x)'
    BY <1>1, <1>2 DEF FlushPending, Alone
  <2>. QED
    BY <1>1, <1>4, <1>5, <2>1 DEF UsageInv, UseRecorded
<1>. QED
  BY <1>3, <1>6 DEF UsageInv

LEMMA UsageStepKeeps == UsageInv /\ [KeysNext]_KeysVars => UsageInv'
<1>. SUFFICES ASSUME UsageInv, [KeysNext]_KeysVars PROVE UsageInv'
  OBVIOUS
<1>0. KeysShape'
  BY ShapeStepKeeps DEF UsageInv
<1>1. CASE UNCHANGED KeysVars \/ \E a \in Admin : RotateRead(a) \/ RotateWrite(a)
  BY <1>0, <1>1 DEF KeysVars, RotateRead, RotateWrite, UsageInv, OnTime, SlotTaken, UseRecorded, FlushPending
<1>2. CASE KeysTick
  <2>1. clock' = clock + 1 /\ clock \in Nat /\ UNCHANGED <<lastFlushed, keyUsage, request, lastUsed, dbFailures>>
    BY <1>2 DEF KeysTick, UsageInv, KeysShape
  <2>2. ASSUME NEW x \in Request
        PROVE  OnTime(request[x])' /\ SlotTaken(request[x])'
    <3>1. request[x].step # "idle" => request[x].at \in Nat
      BY DEF UsageInv, KeysShape, Requests, Asked, Idle
    <3>2. request[x].step # "idle" => request[x].at <= clock /\ clock < request[x].at + MaxLatency
      BY <1>2 DEF KeysTick, UsageInv, OnTime
    <3>. QED
      BY <2>1, <3>1, <3>2, KeysAssumption DEF UsageInv, OnTime, SlotTaken
  <2>3. ASSUME NEW x \in Key
        PROVE  UseRecorded(x)'
    <3>1. lastFlushed[x] \in Int
      BY DEF UsageInv, KeysShape
    <3>. QED
      BY <2>1, <3>1 DEF UsageInv, UseRecorded, FlushPending
  <2>. QED
    BY <1>0, <2>2, <2>3 DEF UsageInv
<1>3. ASSUME NEW r \in Request,
             \/ StartWithKey(r) \/ StartWithCookie(r) \/ StatFile(r) \/ ReadFile(r) \/ StoreFile(r)
             \/ JudgeKey(r) \/ WriteUsage(r) \/ ResolveSite(r)
      PROVE  UsageInv'
  BY <1>0, <1>3, EarlyStepsKeepUsage, JudgeKeepsUsage, WriteKeepsUsage, ResolveKeepsUsage
<1>. QED
  BY <1>1, <1>2, <1>3 DEF KeysNext

LEMMA UsageSafe == KeysInit /\ [][KeysNext]_KeysVars => []UsageInv
  BY UsageStarts, UsageStepKeeps, PTL

\* The last use that GET /api/admin/keys shows (app/api/keys.py) is behind the
\* key's real one by less than the throttle's interval and a request's time.
THEOREM LastUseIsRecent == KeysInit /\ [][KeysNext]_KeysVars => []UsageIsRecent
<1>1. ASSUME UsageInv, NEW k \in Key
      PROVE  \/ lastUsed[k] - LastUsedAt(k) < FlushInterval + MaxLatency
             \/ dbFailures > 0 \/ lastUsed[k] = -1
             \/ \E r \in Request : request[r].step = "flush" /\ request[r].key = k
  <2>1. UseRecorded(k) /\ dbFailures \in Nat /\ lastFlushed[k] \in Int /\ lastUsed[k] \in Int
        /\ keyUsage[k].last \in Int /\ FlushInterval \in Nat /\ MaxLatency \in Nat
    BY <1>1, KeysAssumption DEF UsageInv, KeysShape, UsageRow
  <2>. QED
    BY <2>1 DEF UseRecorded, FlushPending, LastUsedAt
<1>2. UsageInv => UsageIsRecent
  BY <1>1 DEF UsageIsRecent
<1>. QED
  BY <1>2, UsageSafe, PTL

\* What a key is judged by, when no two versions of the file share their
\* modification time: the file as it was at some moment of the request.  The
\* cache holds for a modification time what was read at it or later.
FileRead(keys, from) == \E i \in from .. Len(versions) : keys = versions[i] /\ versions[i] \in FileContents

CacheIsRead ==
  secretCache.stamp # 0 => secretCache.stamp - 1 \in 1..Len(versions) /\ FileRead(secretCache.keys, secretCache.stamp - 1)

Current(q) ==
  q.step # "idle" =>
    /\ q.since \in 1..Len(versions)
    /\ q.step \in {"read", "store"} => q.stamp - 1 \in q.since .. Len(versions) /\ versions[q.stamp - 1] \in FileContents
    /\ q.step = "store" => FileRead(q.keys, q.stamp - 1)
    /\ q.step = "judge" => FileRead(q.keys, q.since)
    /\ q.step \in {"flush", "site"} => Entitled(q)

JudgedInv == UsageInv /\ CacheIsRead /\ \A r \in Request : Current(request[r])

LEMMA JudgedStarts == KeysInit => JudgedInv
<1>1. KeysInit => CacheIsRead
  BY DEF KeysInit, CacheIsRead
<1>2. KeysInit => \A r \in Request : Current(request[r])
  BY DEF KeysInit, Current, Idle
<1>. QED
  BY <1>1, <1>2, UsageStarts DEF JudgedInv

\* What was true of the file's past stays true.
LEMMA VersionsGrow ==
  ASSUME KeysShape, versions' = versions \/ \E keys \in Contents : versions' = Append(versions, keys)
  PROVE  Len(versions') >= Len(versions) /\ Len(versions') \in Nat
         /\ \A i \in 1..Len(versions) : versions'[i] = versions[i]
  BY DEF KeysShape

LEMMA PastStays ==
  ASSUME KeysShape, versions' = versions \/ \E keys \in Contents : versions' = Append(versions, keys)
  PROVE  /\ \A keys, from \in Nat \ {0} : FileRead(keys, from) => FileRead(keys, from)'
         /\ CacheIsRead /\ UNCHANGED secretCache => CacheIsRead'
         /\ \A q : (q.step = "idle" \/ q \in Asked) /\ Current(q) => Current(q)'
<1>1. /\ Len(versions) \in Nat /\ Len(versions') \in Nat /\ Len(versions') >= Len(versions)
      /\ \A i \in 1..Len(versions) : versions'[i] = versions[i]
  BY VersionsGrow DEF KeysShape
<1>2. ASSUME NEW keys, NEW from \in Nat \ {0}, FileRead(keys, from)
      PROVE  FileRead(keys, from)'
  <2>1. PICK i \in from .. Len(versions) : keys = versions[i] /\ versions[i] \in FileContents
    BY <1>2 DEF FileRead
  <2>. QED
    BY <1>1, <2>1 DEF FileRead
<1>3. CacheIsRead /\ UNCHANGED secretCache => CacheIsRead'
  <2>1. secretCache.stamp \in Nat
    BY DEF KeysShape
  <2>. QED
    BY <1>1, <1>2, <2>1 DEF CacheIsRead
<1>4. ASSUME NEW q, Entitled(q), q.since \in 1..Len(versions)
      PROVE  Entitled(q)'
  <2>1. CASE q.cookie # NoCookie /\ q.at - q.cookie.issued <= MaxAge
             /\ q.as.role = q.cookie.role /\ Allowed(q.as.role, q.need)
    BY <2>1 DEF Entitled
  <2>2. ASSUME NEW i \in q.since .. Len(versions), versions[i] # NoFile,
               LET all == Configured(versions[i]) IN
               \/ DOMAIN all = {} /\ q.as = As("admin", "none")
               \/ /\ q.key \in Key /\ Valid(versions[i], q.key, q.at)
                  /\ q.as.role = all[q.key].role /\ Allowed(q.as.role, q.need)
                  /\ q.as.site = all[q.key].site
        PROVE  Entitled(q)'
    <3>1. i \in q.since .. Len(versions') /\ versions'[i] = versions[i]
      BY <1>1, <1>4, <2>2
    <3>. QED
      BY <2>2, <3>1 DEF Entitled
  <2>. QED
    BY <1>4, <2>1, <2>2 DEF Entitled
<1>5. ASSUME NEW q \in Asked, Current(q), q.step # "idle"
      PROVE  Current(q)'
  <2>1. q.stamp \in Nat /\ q.since \in Nat \ {0}
    BY <1>1, <1>5 DEF Asked, Current
  <2>. QED
    BY <1>1, <1>2, <1>4, <1>5, <2>1 DEF Current
<1>. QED
  BY <1>2, <1>3, <1>5 DEF Current

LEMMA ThreadIsCurrent ==
  ASSUME JudgedInv, UsageInv', NEW r \in Request, Alone(r), UNCHANGED versions, CacheIsRead', Current(request[r])'
  PROVE  JudgedInv'
<1>1. \A x \in Request : Current(request[x])'
  BY DEF JudgedInv, Current, FileRead, Entitled, Alone
<1>. QED
  BY <1>1 DEF JudgedInv

LEMMA StartsAreCurrent ==
  ASSUME JudgedInv, UsageInv', NEW r \in Request, StartWithKey(r) \/ StartWithCookie(r)
  PROVE  JudgedInv'
<1>1. KeysShape /\ Requests /\ Len(versions) \in Nat \ {0} /\ CacheIsRead
  BY DEF JudgedInv, UsageInv, KeysShape
<1>2. UNCHANGED <<versions, secretCache>> /\ CacheIsRead'
  BY <1>1 DEF StartWithKey, StartWithCookie, CacheIsRead, FileRead
<1>3. CASE StartWithKey(r)
  <2>1. PICK need \in Need, k \in Key \cup {"none"} : request' = [request EXCEPT ![r] = Asking(need, k, NoCookie)]
    BY <1>3 DEF StartWithKey
  <2>2. LET q == Asking(need, k, NoCookie) IN q \in Asked /\ q.step = "stat" /\ q.since = Len(versions)
    BY <1>1, StartMoves
  <2>3. Alone(r) /\ request'[r].step = "stat" /\ request'[r].since = Len(versions)
    BY <1>1, <2>1, <2>2, AskedMoves
  <2>4. Current(request[r])'
    BY <1>1, <1>2, <2>3 DEF Current
  <2>. QED
    BY <1>2, <2>3, <2>4, ThreadIsCurrent
<1>4. CASE StartWithCookie(r)
  <2>1. PICK need \in Need, c \in Cookies :
          /\ Young(c) /\ Allowed(c.role, need)
          /\ request' = [request EXCEPT ![r] =
               [Asking(need, "none", c) EXCEPT !.step = "site", !.as = As(c.role, c.site)]]
    BY <1>4 DEF StartWithCookie
  <2> DEFINE q == [Asking(need, "none", c) EXCEPT !.step = "site", !.as = As(c.role, c.site)]
  <2>2. /\ q.step = "site" /\ q.since = Len(versions) /\ q.at = clock
        /\ q.cookie = c /\ q.need = need /\ q.as.role = c.role
    BY DEF Asking, As
  <2>3. Alone(r) /\ request'[r] = q
    BY <1>1, <2>1 DEF Alone, Requests
  <2>4. c # NoCookie
    <3>1. DOMAIN c = {"role", "site", "issued"} /\ DOMAIN NoCookie = {"role"}
      BY DEF Cookies, NoCookie
    <3>. QED
      BY <3>1
  <2> HIDE DEF q
  <2>5. Entitled(request[r])'
    BY <2>1, <2>2, <2>3, <2>4 DEF Entitled, Young
  <2>6. Current(request[r])'
    BY <1>1, <1>2, <2>2, <2>3, <2>5 DEF Current
  <2>. QED
    BY <1>2, <2>3, <2>6, ThreadIsCurrent
<1>. QED
  BY <1>3, <1>4

LEMMA StampIsVersion == KeysShape /\ Granularity = 1 => Stamp = Len(versions) + 1
<1>1. ASSUME NEW n \in Nat
      PROVE  n \div 1 = n
  OBVIOUS
<1>. QED
  BY <1>1 DEF KeysShape, Stamp

LEMMA ReadingIsCurrent ==
  ASSUME JudgedInv, UsageInv', Granularity = 1, NEW r \in Request, StatFile(r) \/ ReadFile(r) \/ StoreFile(r)
  PROVE  JudgedInv'
<1> DEFINE q == request[r]
<1>1. /\ KeysShape /\ Requests /\ Len(versions) \in Nat \ {0} /\ CacheIsRead /\ Current(q)
      /\ q \in Asked /\ q.since \in 1..Len(versions) /\ q.stamp \in Nat
  <2>1. /\ KeysShape /\ Requests /\ Len(versions) \in Nat \ {0} /\ CacheIsRead /\ Current(q)
    BY DEF JudgedInv, UsageInv, KeysShape
  <2>2. q.step # "idle"
    BY DEF StatFile, ReadFile, StoreFile
  <2>. QED
    BY <2>1, <2>2 DEF Requests, Asked, Idle, Current
<1>2. UNCHANGED versions
  BY DEF StatFile, ReadFile, StoreFile
<1>3. CASE StatFile(r)
  <2>1. CacheIsRead'
    BY <1>1, <1>2, <1>3 DEF StatFile, CacheIsRead, FileRead
  <2>2. CASE File = NoFile
    <3>1. Alone(r) /\ request'[r] = Idle
      BY <1>1, <1>3, <2>2, OverIsIdle DEF StatFile
    <3>2. Current(request[r])'
      BY <3>1 DEF Current, Idle
    <3>. QED
      BY <1>2, <2>1, <3>1, <3>2, ThreadIsCurrent
  <2>3. CASE File # NoFile
    <3>1. AskedOn(r) /\ request'[r].step = "read" /\ request'[r].stamp = Len(versions) + 1
      BY <1>1, <1>3, <2>3, StatMoves, StampIsVersion
    <3>2. versions[Len(versions)] \in FileContents
      BY <1>1, <2>3 DEF File, KeysShape, Contents
    <3>3. Current(request[r])'
      BY <1>1, <1>2, <3>1, <3>2 DEF Current, AskedOn, SameQuestion
    <3>. QED
      BY <1>2, <2>1, <3>1, <3>3, ThreadIsCurrent DEF AskedOn
  <2>. QED
    BY <2>2, <2>3
<1>4. CASE ReadFile(r)
  <2>1. CacheIsRead'
    BY <1>1, <1>2, <1>4 DEF ReadFile, CacheIsRead, FileRead
  <2>2. q.stamp - 1 \in q.since .. Len(versions) /\ versions[q.stamp - 1] \in FileContents
    BY <1>1, <1>4 DEF ReadFile, Current
  <2>3. /\ AskedOn(r) /\ request'[r].stamp = q.stamp
        /\ request'[r].step = (IF secretCache.stamp = q.stamp THEN "judge" ELSE "store")
        /\ request'[r].keys = (IF secretCache.stamp = q.stamp THEN secretCache.keys ELSE File)
    BY <1>1, <1>4, ReadMoves
  <2>4. CASE secretCache.stamp = q.stamp
    <3>1. FileRead(secretCache.keys, q.stamp - 1)
      BY <1>1, <2>2, <2>4 DEF CacheIsRead
    <3>2. FileRead(secretCache.keys, q.since)
      BY <1>1, <2>2, <3>1 DEF FileRead
    <3>3. Current(request[r])'
      BY <1>1, <1>2, <2>3, <2>4, <3>2 DEF Current, FileRead, AskedOn, SameQuestion
    <3>. QED
      BY <1>2, <2>1, <2>3, <3>3, ThreadIsCurrent DEF AskedOn
  <2>5. CASE secretCache.stamp # q.stamp
    <3>1. versions[Len(versions)] \in FileContents
      <4>1. CASE Len(versions) >= 2
        BY <1>1, <4>1 DEF KeysShape
      <4>2. CASE Len(versions) = 1
        <5>1. q.stamp - 1 = 1
          BY <1>1, <2>2, <4>2
        <5>. QED
          BY <2>2, <4>2, <5>1
      <4>3. Len(versions) = 1 \/ Len(versions) >= 2
        <5>1. ASSUME NEW n \in Nat \ {0}
              PROVE  n = 1 \/ n >= 2
          OBVIOUS
        <5>2. Len(versions) \in Nat \ {0}
          BY <1>1
        <5>. QED
          BY <5>1, <5>2
      <4>. QED
        BY <4>1, <4>2, <4>3
    <3>2. FileRead(File, q.stamp - 1)
      BY <1>1, <2>2, <3>1 DEF FileRead, File
    <3>3. Current(request[r])'
      BY <1>1, <1>2, <2>2, <2>3, <2>5, <3>2 DEF Current, FileRead, AskedOn, SameQuestion
    <3>. QED
      BY <1>2, <2>1, <2>3, <3>3, ThreadIsCurrent DEF AskedOn
  <2>. QED
    BY <2>4, <2>5
<1>5. CASE StoreFile(r)
  <2>1. /\ q.stamp - 1 \in q.since .. Len(versions) /\ FileRead(q.keys, q.stamp - 1)
    BY <1>1, <1>5 DEF StoreFile, Current
  <2>2. secretCache'.stamp = q.stamp /\ secretCache'.keys = q.keys
    BY <1>5 DEF StoreFile, StampBefore
  <2>3. CacheIsRead'
    BY <1>1, <1>2, <2>1, <2>2 DEF CacheIsRead, FileRead
  <2>4. AskedOn(r) /\ request'[r].step = "judge" /\ request'[r].keys = q.keys
    BY <1>1, <1>5, StoreMoves
  <2>5. FileRead(q.keys, q.since)
    BY <1>1, <2>1 DEF FileRead
  <2>6. Current(request[r])'
    BY <1>1, <1>2, <2>4, <2>5 DEF Current, FileRead, AskedOn, SameQuestion
  <2>. QED
    BY <1>2, <2>3, <2>4, <2>6, ThreadIsCurrent DEF AskedOn
<1>. QED
  BY <1>3, <1>4, <1>5

LEMMA JudgingIsCurrent ==
  ASSUME JudgedInv, UsageInv', NEW r \in Request, JudgeKey(r)
  PROVE  JudgedInv'
<1> DEFINE q == request[r]
           all == Configured(q.keys)
<1>1. /\ KeysShape /\ Requests /\ CacheIsRead /\ Current(q) /\ OnTime(q) /\ clock \in Nat
      /\ q.step = "judge" /\ UNCHANGED <<versions, secretCache, clock>>
  BY DEF JudgedInv, UsageInv, KeysShape, JudgeKey
<1>2. CacheIsRead' /\ q \in Asked /\ q.since \in 1..Len(versions) /\ FileRead(q.keys, q.since)
      /\ q.at \in Nat /\ q.at <= clock
  BY <1>1 DEF CacheIsRead, FileRead, Requests, Asked, Idle, Current, OnTime
<1>3. PICK i \in q.since .. Len(versions) : q.keys = versions[i] /\ versions[i] # NoFile
  BY <1>2, FileIsNotMissing DEF FileRead
<1>4. CASE Over(r)
  <2>1. Alone(r) /\ request'[r] = Idle
    BY <1>1, <1>4, OverIsIdle
  <2>2. Current(request[r])'
    BY <2>1 DEF Current, Idle
  <2>. QED
    BY <1>1, <1>2, <2>1, <2>2, ThreadIsCurrent
<1>5. CASE DOMAIN all = {} /\ Judge(r, As("admin", "none"))
  <2>1. AskedOn(r) /\ request'[r].step = "site" /\ request'[r].as = As("admin", "none")
    BY <1>1, <1>5, JudgeMoves, NobodyIsPrincipal
  <2>2. Entitled(request[r])'
    BY <1>1, <1>3, <1>5, <2>1 DEF Entitled, AskedOn, SameQuestion
  <2>3. Current(request[r])'
    BY <1>1, <1>2, <2>1, <2>2 DEF Current, AskedOn, SameQuestion
  <2>. QED
    BY <1>1, <1>2, <2>1, <2>3, ThreadIsCurrent DEF AskedOn
<1>6. ASSUME q.key \in Key, Valid(q.keys, q.key, clock), Allowed(all[q.key].role, q.need),
             NEW as \in Principal, as = As(all[q.key].role, all[q.key].site), Found(r, as)
      PROVE  JudgedInv'
  <2>1. /\ AskedOn(r) /\ request'[r].step \in {"flush", "site"} /\ request'[r].as = as
    BY <1>1, <1>6, FoundMoves
  <2>2. as.role = all[q.key].role /\ as.site = all[q.key].site
    BY <1>6 DEF As
  <2>3. Valid(q.keys, q.key, q.at)
    <3>1. q.key \in DOMAIN all /\ ~all[q.key].revoked /\ clock < all[q.key].expires
      BY <1>6 DEF Valid
    <3>2. all[q.key].expires \in Nat
      <4>1. q.keys \in FileContents
        BY <1>2 DEF FileRead
      <4>2. q.key \in DOMAIN q.keys => q.keys[q.key].expires \in Nat
        BY <4>1 DEF FileContents, KeyEntry
      <4>3. \/ q.key \in DOMAIN q.keys /\ all[q.key] = q.keys[q.key]
            \/ all[q.key].expires = MaxTime + 1
        BY <3>1 DEF Configured
      <4>. QED
        BY <4>2, <4>3, KeysAssumption
    <3>. QED
      BY <1>1, <1>2, <3>1, <3>2 DEF Valid
  <2>4. Entitled(request[r])'
    <3>1. i \in request'[r].since .. Len(versions') /\ versions'[i] # NoFile /\ q.keys = versions'[i]
      BY <1>1, <1>3, <2>1 DEF AskedOn, SameQuestion
    <3>2. /\ request'[r].key = q.key /\ request'[r].at = q.at /\ request'[r].need = q.need
          /\ request'[r].as = as
      BY <2>1 DEF AskedOn, SameQuestion
    <3>. QED
      BY <1>6, <2>2, <2>3, <3>1, <3>2 DEF Entitled
  <2>5. Current(request[r])'
    BY <1>1, <1>2, <2>1, <2>4 DEF Current, AskedOn, SameQuestion
  <2>. QED
    BY <1>1, <1>2, <2>1, <2>5, ThreadIsCurrent DEF AskedOn
<1>7. CASE /\ q.key \in Key /\ Valid(q.keys, q.key, clock) /\ Allowed(all[q.key].role, q.need)
           /\ As(all[q.key].role, all[q.key].site) \in Principal
           /\ Found(r, As(all[q.key].role, all[q.key].site))
  BY <1>6, <1>7
<1>. QED
  BY <1>1, <1>4, <1>5, <1>7, JudgeCases

LEMMA AfterwardsIsCurrent ==
  ASSUME JudgedInv, UsageInv', NEW r \in Request, WriteUsage(r) \/ ResolveSite(r)
  PROVE  JudgedInv'
<1>1. /\ KeysShape /\ Requests /\ CacheIsRead /\ Current(request[r])
      /\ request[r].step \in {"flush", "site"} /\ UNCHANGED <<versions, secretCache>>
  BY DEF JudgedInv, UsageInv, KeysShape, WriteUsage, ResolveSite
<1>2. CacheIsRead'
  BY <1>1 DEF CacheIsRead, FileRead
<1>3. CASE Over(r)
  <2>1. Alone(r) /\ request'[r] = Idle
    BY <1>1, <1>3, OverIsIdle
  <2>2. Current(request[r])'
    BY <2>1 DEF Current, Idle
  <2>. QED
    BY <1>1, <1>2, <2>1, <2>2, ThreadIsCurrent
<1>4. CASE request[r].step = "flush" /\ Go(r, "site")
  <2>1. AskedOn(r) /\ request'[r].step = "site" /\ request'[r].as = request[r].as
    BY <1>1, <1>4, WriteMoves
  <2>2. Entitled(request[r])'
    BY <1>1, <2>1 DEF Current, Entitled, AskedOn, SameQuestion
  <2>3. Current(request[r])'
    BY <1>1, <2>1, <2>2 DEF Current, AskedOn, SameQuestion
  <2>. QED
    BY <1>1, <1>2, <2>1, <2>3, ThreadIsCurrent DEF AskedOn
<1>. QED
  BY <1>3, <1>4 DEF WriteUsage, ResolveSite

LEMMA JudgedStepKeeps == Granularity = 1 /\ JudgedInv /\ [KeysNext]_KeysVars => JudgedInv'
<1>. SUFFICES ASSUME Granularity = 1, JudgedInv, [KeysNext]_KeysVars PROVE JudgedInv'
  OBVIOUS
<1>1. UsageInv' /\ KeysShape /\ KeysShape'
  BY UsageStepKeeps DEF JudgedInv, UsageInv
<1>2. CASE \/ UNCHANGED KeysVars \/ KeysTick
           \/ \E a \in Admin : RotateRead(a) \/ RotateWrite(a)
  <2>1. UNCHANGED <<secretCache, request>>
    BY <1>2 DEF KeysVars, KeysTick, RotateRead, RotateWrite
  <2>2. versions' = versions \/ \E keys \in Contents : versions' = Append(versions, keys)
    BY <1>1, <1>2, ChangedIsContents DEF KeysVars, KeysTick, RotateRead, RotateWrite, KeysShape, Contents
  <2>3. CacheIsRead'
    BY <1>1, <2>1, <2>2, PastStays DEF JudgedInv
  <2>4. ASSUME NEW x \in Request
        PROVE  Current(request[x])'
    <3>1. /\ request[x].step = "idle" \/ request[x] \in Asked
          /\ Current(request[x]) /\ request'[x] = request[x]
      BY <1>1, <2>1 DEF KeysShape, Requests, Idle, JudgedInv
    <3>2. ASSUME NEW q, q = request[x]
          PROVE  Current(q)'
      BY <1>1, <2>2, <3>1, <3>2, PastStays
    <3>. QED
      BY <3>1, <3>2 DEF Current, FileRead, Entitled
  <2>. QED
    BY <1>1, <2>3, <2>4 DEF JudgedInv
<1>3. ASSUME NEW r \in Request,
             \/ StartWithKey(r) \/ StartWithCookie(r) \/ StatFile(r) \/ ReadFile(r) \/ StoreFile(r)
             \/ JudgeKey(r) \/ WriteUsage(r) \/ ResolveSite(r)
      PROVE  JudgedInv'
  BY <1>1, <1>3, StartsAreCurrent, ReadingIsCurrent, JudgingIsCurrent, AfterwardsIsCurrent
<1>. QED
  BY <1>2, <1>3 DEF KeysNext

\* Where every version of the key file gets a modification time of its own, a
\* request is judged by what the file said while it ran, whatever the cache of
\* config._read_secret held and the other threads put into it.
THEOREM KeysAreCurrent ==
  Granularity = 1 => (KeysInit /\ [][KeysNext]_KeysVars => []JudgedByCurrentKeys)
<1>. SUFFICES ASSUME Granularity = 1
     PROVE  KeysInit /\ [][KeysNext]_KeysVars => []JudgedByCurrentKeys
  OBVIOUS
<1>1. JudgedInv => JudgedByCurrentKeys
  BY DEF JudgedInv, Current, JudgedByCurrentKeys
<1>2. JudgedInv /\ [KeysNext]_KeysVars => JudgedInv'
  BY JudgedStepKeeps
<1>. QED
  BY <1>1, <1>2, JudgedStarts, PTL

-----------------------------------------------------------------------------
(* Listings.  A page brings rows to the next places of the listing; only     *)
(* rows of one time share places, and share all of them.  So the reader of a *)
(* log who has been at every place of a time has got as many rows of it as   *)
(* the table has: all of them, unless one came twice.                        *)

Table(S) == S \subseteq PagedRow /\ IsFiniteSet(S)

Ties(S, r) == {q \in S : q.time = r.time}

LEMMA PlacesOf ==
  ASSUME NEW S, Table(S), NEW r \in PagedRow
  PROVE  /\ RowsAhead(S, r) \in Nat /\ RowsUpTo(S, r) \in Nat /\ Cardinality(S) \in Nat
         /\ IsFiniteSet(Ties(S, r)) /\ Cardinality(Ties(S, r)) \in Nat
         /\ RowsUpTo(S, r) = RowsAhead(S, r) + Cardinality(Ties(S, r))
         /\ RowsUpTo(S, r) <= Cardinality(S)
<1> DEFINE A == {q \in S : Ahead(q, r)}
           B == {q \in S : ~Ahead(r, q)}
           G == Ties(S, r)
<1>1. A \in SUBSET S /\ B \in SUBSET S /\ G \in SUBSET S
  BY DEF Ties
<1>2. B = A \cup G /\ A \cap G = {}
  <2>1. \A q \in S : q.time \in Int /\ r.time \in Int
    BY DEF Table, PagedRow
  <2>. QED
    BY <2>1 DEF Ahead, Ties
<1> HIDE DEF A, B, G
<1>3. IsFiniteSet(S)
  BY DEF Table
<1>4. IsFiniteSet(A) /\ IsFiniteSet(B) /\ IsFiniteSet(G) /\ Cardinality(B) <= Cardinality(S)
  BY <1>1, <1>3, FS_Subset
<1>5. /\ Cardinality(A) \in Nat /\ Cardinality(B) \in Nat /\ Cardinality(G) \in Nat
      /\ Cardinality(S) \in Nat
  BY <1>3, <1>4, FS_CardinalityType
<1>6. Cardinality(B) = Cardinality(A) + Cardinality(G) - Cardinality({})
  BY <1>2, <1>4, FS_Union
<1>7. Cardinality(B) = Cardinality(A) + Cardinality(G)
  BY <1>5, <1>6, FS_EmptySet
<1>. QED
  BY <1>4, <1>5, <1>7 DEF A, B, G, RowsAhead, RowsUpTo

LEMMA PlacesGrow ==
  ASSUME NEW S, NEW T, Table(T), S \subseteq T, NEW r \in PagedRow
  PROVE  /\ RowsAhead(S, r) \in Nat /\ RowsAhead(T, r) \in Nat
         /\ RowsUpTo(S, r) \in Nat /\ RowsUpTo(T, r) \in Nat
         /\ RowsAhead(S, r) <= RowsAhead(T, r) /\ RowsUpTo(S, r) <= RowsUpTo(T, r)
<1> DEFINE A(U) == {q \in U : Ahead(q, r)}
           B(U) == {q \in U : ~Ahead(r, q)}
<1>1. A(S) \in SUBSET A(T) /\ B(S) \in SUBSET B(T)
  OBVIOUS
<1>2. IsFiniteSet(T) /\ A(T) \in SUBSET T /\ B(T) \in SUBSET T
  BY DEF Table
<1>3. IsFiniteSet(A(T)) /\ IsFiniteSet(B(T))
  BY <1>2, FS_Subset
<1> HIDE DEF A, B
<1>4. Cardinality(A(S)) <= Cardinality(A(T)) /\ Cardinality(B(S)) <= Cardinality(B(T))
  BY <1>1, <1>3, FS_Subset
<1>5. Table(S)
  BY FS_Subset DEF Table
<1>6. /\ RowsAhead(S, r) \in Nat /\ RowsAhead(T, r) \in Nat
      /\ RowsUpTo(S, r) \in Nat /\ RowsUpTo(T, r) \in Nat
  BY <1>5, PlacesOf
<1>. QED
  BY <1>4, <1>6 DEF A, B, RowsAhead, RowsUpTo

LEMMA OnePlace ==
  ASSUME NEW S, Table(S), NEW q \in S, NEW r \in S, NEW i \in Nat, InPlace(S, i, q), InPlace(S, i, r)
  PROVE  q.time = r.time
<1>1. \A x \in S : x.time \in Int /\ x \in PagedRow
  BY DEF Table, PagedRow
<1>2. ASSUME NEW x \in S, NEW y \in S, InPlace(S, i, x), InPlace(S, i, y)
      PROVE  ~Ahead(x, y)
  <2> SUFFICES ASSUME Ahead(x, y) PROVE FALSE
    OBVIOUS
  <2> DEFINE B == {p \in S : ~Ahead(x, p)}
             A == {p \in S : Ahead(p, y)}
  <2>1. B \in SUBSET A
    BY <1>1 DEF Ahead
  <2>2. IsFiniteSet(A)
    BY FS_Subset DEF Table
  <2> HIDE DEF A, B
  <2>3. Cardinality(B) <= Cardinality(A)
    BY <2>1, <2>2, FS_Subset
  <2>4. RowsUpTo(S, x) <= RowsAhead(S, y)
    BY <2>3 DEF A, B, RowsUpTo, RowsAhead
  <2>5. RowsUpTo(S, x) \in Nat /\ RowsAhead(S, y) \in Nat
    BY <1>1, PlacesOf
  <2>. QED
    BY <1>2, <2>4, <2>5 DEF InPlace
<1>. QED
  BY <1>1, <1>2 DEF Ahead

Reads(t) == {i \in DOMAIN pages : pages[i].time = t}

\* Of a row that the reader of a log lacks, none of whose ties came twice: a
\* place is still ahead, and every place of its time that is not brought a row.
StillAhead(r) ==
  /\ reading # "done" /\ offset < RowsUpTo(rows, r)
  /\ offset <= RowsAhead(rows, r) + Cardinality(Reads(r.time))

NothingSkipped ==
  listing = "log" =>
    \A r \in initially \cap rows : r \in ToSet(pages) \/ TwiceAt(r.time) \/ StillAhead(r)

\* A log's purge takes all of one time, and none is inserted of it again.
PurgedTogether ==
  listing = "log" =>
    \A i \in DOMAIN pages :
      pages[i] \in rows \/ (pages[i].time < at /\ \A q \in rows : q.time # pages[i].time)

\* A recording of a window that nothing new falls in, and that no purge reaches,
\* is in the places of the listing as far as it has got.
RecordedSoFar ==
  (/\ listing = "detections" /\ reading # "no" /\ window.start >= at - Retained
   /\ \A r \in rows \ initially : ~InWindow(r))
    => /\ offset <= Cardinality(Listed)
       /\ \A i \in DOMAIN pages : pages[i] \in Listed /\ InPlace(Listed, i, pages[i])
       /\ reading = "done" => offset = Cardinality(Listed)

PagingInv ==
  /\ PagingTypeOK
  /\ IsFiniteSet(rows)
  /\ pages \in Seq(PagedRow) /\ offset = Len(pages)
  /\ \A r \in rows \cup initially : r.id < inserted
  /\ reading = "no" => initially = {} /\ pages = <<>>
  /\ NothingSkipped
  /\ PurgedTogether
  /\ RecordedSoFar

LEMMA PageFacts ==
  ASSUME PagingInv, NEW page \in NextPages
  PROVE  /\ page \in Seq(PagedRow) /\ Len(page) \in 0..PageSize
         /\ Table(rows) /\ Table(Listed)
         /\ Len(page) = PageSize \/ offset + Len(page) >= Cardinality(Listed)
         /\ \A i \in 1..Len(page) : page[i] \in Listed /\ InPlace(Listed, offset + i, page[i])
<1>1. page \in BoundedSeq(Listed, PageSize)
  BY DEF NextPages
<1>2. PICK m \in 0..PageSize : page \in [1..m -> Listed]
  BY <1>1 DEF BoundedSeq, SeqOf
<1>3. m \in Nat
  BY <1>2, PagingAssumption
<1>4. page \in Seq(Listed)
  BY <1>2, <1>3, SeqDef
<1>5. Len(page) = m
  BY <1>2, <1>3, <1>4, LenProperties
<1>6. Table(rows) /\ Table(Listed)
  BY FS_Subset DEF Table, Listed, PagingInv, PagingTypeOK
<1>7. page \in Seq(PagedRow)
  BY <1>4, <1>6, SeqMonotonic DEF Table
<1>8. \A i \in 1..m : page[i] \in Listed /\ InPlace(Listed, offset + i, page[i])
  BY <1>2 DEF NextPages
<1>. QED
  BY <1>2, <1>5, <1>6, <1>7, <1>8 DEF NextPages

\* What a page adds: o is the offset, n the page's size, a and b the places
\* before and up to which a time's rows stand; N are the new ones of those.
NewOf(N, o, n, a, b) ==
  /\ {o, n, a, b} \subseteq Nat /\ a < b /\ o < b
  /\ N = {i \in o + 1 .. o + n : a < i /\ i <= b}

NewCount(N, o, n, a, b) ==
  /\ IsFiniteSet(N) /\ Cardinality(N) \in Nat
  /\ o + n < b => o + n <= a \/ Cardinality(N) >= (IF o < a THEN o + n - a ELSE n)
  /\ o + n >= b => Cardinality(N) = IF o < a THEN b - a ELSE b - o

LEMMA NewPlaces ==
  ASSUME NEW N, NEW o, NEW n, NEW a, NEW b, NewOf(N, o, n, a, b)
  PROVE  NewCount(N, o, n, a, b)
<1> DEFINE lo == IF o < a THEN a ELSE o
           hi == IF o + n < b THEN o + n ELSE b
<1>1. N = lo + 1 .. hi
  BY DEF NewOf
<1>2. /\ lo + 1 \in Int /\ hi \in Int
      /\ o \in Nat /\ n \in Nat /\ a \in Nat /\ b \in Nat /\ a < b /\ o < b
  BY DEF NewOf
<1> HIDE DEF lo, hi
<1>3. IsFiniteSet(lo + 1 .. hi) /\ Cardinality(lo + 1 .. hi) = IF lo + 1 > hi THEN 0 ELSE hi - (lo + 1) + 1
  BY <1>2, FS_Interval
<1>4. IsFiniteSet(N) /\ Cardinality(N) = IF lo + 1 > hi THEN 0 ELSE hi - (lo + 1) + 1
  BY <1>1, <1>3
<1>. QED
  BY <1>2, <1>4 DEF NewCount, lo, hi

LEMMA ReadPageKeeps ==
  ASSUME PagingInv, ReadPage
  PROVE  PagingInv'
<1>1. PICK page \in NextPages :
        /\ pages' = pages \o page /\ offset' = offset + Len(page)
        /\ reading' = IF Len(page) < PageSize THEN "done" ELSE "yes"
  BY DEF ReadPage, Advance
<1>2. /\ reading # "done"
      /\ initially' = (IF reading = "no" THEN rows ELSE initially)
      /\ at' = at /\ rows' = rows /\ inserted' = inserted /\ listing' = listing /\ window' = window
  BY DEF ReadPage
<1>3. /\ page \in Seq(PagedRow) /\ Len(page) \in 0..PageSize
      /\ Table(rows) /\ Table(Listed)
      /\ Len(page) = PageSize \/ offset + Len(page) >= Cardinality(Listed)
      /\ \A i \in 1..Len(page) : page[i] \in Listed /\ InPlace(Listed, offset + i, page[i])
  BY PageFacts
<1> USE DEF PagingInv, PagingTypeOK
<1>4. PageSize \in Nat /\ offset \in Nat /\ Cardinality(Listed) \in Nat /\ Len(page) \in Nat
  BY <1>3, PagingAssumption, FS_CardinalityType DEF Table
<1>5. /\ pages' \in Seq(PagedRow) /\ offset' = Len(pages') /\ offset' \in Nat
      /\ \A i \in 1 .. offset + Len(page) :
           pages'[i] = IF i <= offset THEN pages[i] ELSE page[i - offset]
  <2>1. pages \in Seq(PagedRow) /\ offset = Len(pages)
    OBVIOUS
  <2>. QED
    BY <1>1, <1>3, <1>4, <2>1, ConcatProperties
<1>6. DOMAIN pages' = 1 .. offset + Len(page) /\ DOMAIN pages = 1..offset /\ pages' \in [1..offset' -> PagedRow]
  BY <1>1, <1>5, LenProperties
<1>7. \A i \in 1..offset : i \in DOMAIN pages' /\ pages'[i] = pages[i]
  BY <1>4, <1>5, <1>6
<1>8. ASSUME NEW i \in offset + 1 .. offset + Len(page)
      PROVE  i \in DOMAIN pages' /\ pages'[i] \in Listed /\ InPlace(Listed, i, pages'[i])
  <2>1. i \in 1 .. offset + Len(page) /\ ~(i <= offset) /\ i - offset \in 1..Len(page)
    BY <1>4
  <2>2. pages'[i] = page[i - offset]
    BY <1>5, <2>1
  <2>3. page[i - offset] \in Listed /\ InPlace(Listed, offset + (i - offset), page[i - offset])
    BY <1>3, <2>1
  <2>4. offset + (i - offset) = i
    BY <1>4, <2>1
  <2>. QED
    BY <1>6, <2>1, <2>2, <2>3, <2>4
<1>9. PagingTypeOK'
  BY <1>1, <1>2, <1>5, <1>6
<1>10. NothingSkipped'
  <2> SUFFICES ASSUME listing = "log", NEW r \in initially' \cap rows, r \notin ToSet(pages'),
                      ~TwiceAt(r.time)'
               PROVE  StillAhead(r)'
    BY <1>2 DEF NothingSkipped
  <2> DEFINE t == r.time
             A == RowsAhead(rows, r)
             B == RowsUpTo(rows, r)
             G == Ties(rows, r)
             E == Reads(t)
             F == {i \in DOMAIN pages' : pages'[i].time = t}
             n == Len(page)
             N == {i \in offset + 1 .. offset + n : A < i /\ i <= B}
  <2>1. Listed = rows
    BY DEF Listed, InWindow
  <2>2. /\ A \in Nat /\ B \in Nat /\ IsFiniteSet(G) /\ Cardinality(G) \in Nat
        /\ B = A + Cardinality(G) /\ B <= Cardinality(rows)
    <3>1. r \in PagedRow
      OBVIOUS
    <3>. QED
      BY <1>3, <3>1, PlacesOf
  <2>3. A < B
    <3>1. r \in G
      BY DEF Ties
    <3>2. Cardinality(G) # 0
      BY <2>2, <3>1, FS_EmptySet
    <3>. QED
      BY <2>2, <3>2
  <2>4. r \notin ToSet(pages) /\ ~TwiceAt(t)
    BY <1>6, <1>7 DEF ToSet, TwiceAt
  <2>5. IsFiniteSet(E) /\ Cardinality(E) \in Nat
    <3>1. E \in SUBSET (1..offset) /\ IsFiniteSet(1..offset)
      BY <1>4, <1>6, FS_Interval DEF Reads
    <3>. QED
      BY <3>1, FS_Subset, FS_CardinalityType
  <2>6. offset < B /\ offset <= A + Cardinality(E)
    <3>1. CASE reading = "no"
      <4>1. offset = 0
        BY <3>1, EmptySeq
      <4>. QED
        BY <2>2, <2>3, <2>5, <4>1
    <3>2. CASE reading # "no"
      BY <1>2, <2>4, <3>2 DEF NothingSkipped, StillAhead
    <3>. QED
      BY <3>1, <3>2
  <2>7. /\ IsFiniteSet(N) /\ Cardinality(N) \in Nat
        /\ offset + n < B => offset + n <= A \/ Cardinality(N) >= (IF offset < A THEN offset + n - A ELSE n)
        /\ offset + n >= B => Cardinality(N) = IF offset < A THEN B - A ELSE B - offset
    <3>1. NewOf(N, offset, n, A, B)
      BY <1>4, <2>2, <2>3, <2>6 DEF NewOf
    <3> HIDE DEF A, B, n, N
    <3>2. NewCount(N, offset, n, A, B)
      BY <3>1, NewPlaces
    <3>. QED
      BY <3>2 DEF NewCount
  <2>8. E \subseteq F /\ N \subseteq F /\ E \cap N = {}
    <3>1. ASSUME NEW i \in N PROVE i \in F
      <4>1. pages'[i] \in rows /\ InPlace(rows, i, pages'[i]) /\ i \in DOMAIN pages'
        BY <1>8, <2>1
      <4>2. InPlace(rows, i, r) /\ i \in Nat
        BY <1>4 DEF InPlace
      <4>3. pages'[i].time = t
        BY <1>3, <4>1, <4>2, OnePlace
      <4>. QED
        BY <4>1, <4>3
    <3>2. E \subseteq F
      BY <1>6, <1>7 DEF Reads
    <3>3. E \cap N = {}
      BY <1>4, <1>6 DEF Reads
    <3>. QED
      BY <3>1, <3>2, <3>3
  <2>9. IsFiniteSet(F) /\ Cardinality(F) \in Nat /\ Cardinality(F) >= Cardinality(E) + Cardinality(N)
    <3>1. F \in SUBSET (1 .. offset + n) /\ IsFiniteSet(1 .. offset + n)
      BY <1>4, <1>6, FS_Interval
    <3>2. IsFiniteSet(F)
      BY <3>1, FS_Subset
    <3>3. E \cup N \in SUBSET F
      BY <2>8
    <3> HIDE DEF E, N, F
    <3>4. Cardinality(E \cup N) <= Cardinality(F) /\ Cardinality(F) \in Nat
      BY <3>2, <3>3, FS_Subset, FS_CardinalityType
    <3>5. Cardinality(E \cup N) = Cardinality(E) + Cardinality(N) - Cardinality(E \cap N)
      BY <2>5, <2>7, FS_Union
    <3>6. Cardinality(E \cap N) = 0
      BY <2>8, FS_EmptySet
    <3>. QED
      BY <2>5, <2>7, <3>2, <3>4, <3>5, <3>6
  <2>10. offset + n < B
    <3> SUFFICES ASSUME ~(offset + n < B) PROVE FALSE
      OBVIOUS
    <3>1. Cardinality(F) >= Cardinality(G)
      <4> HIDE DEF A, B, E, F, G, N, n
      <4>1. Cardinality(N) = IF offset < A THEN B - A ELSE B - offset
        BY <1>4, <2>2, <2>7 DEF n
      <4>2. Cardinality(E) + Cardinality(N) >= B - A
        BY <1>4, <2>2, <2>5, <2>6, <2>7, <4>1
      <4>. QED
        BY <2>2, <2>5, <2>7, <2>9, <4>2
    <3> DEFINE H == G \ {r}
               got == [i \in F |-> pages'[i]]
    <3>2. \A i \in F : pages'[i] \in H
      <4> SUFFICES ASSUME NEW i \in F PROVE pages'[i] \in H
        OBVIOUS
      <4>1. pages'[i] # r
        BY DEF ToSet
      <4>2. pages'[i] \in rows
        <5>1. CASE i \in 1..offset
          <6>1. pages'[i] = pages[i] /\ i \in DOMAIN pages
            BY <1>6, <1>7, <5>1
          <6>2. pages[i] \in rows \/ (\A q \in rows : q.time # pages[i].time)
            BY <6>1 DEF PurgedTogether
          <6>. QED
            BY <6>1, <6>2
        <5>2. CASE i \in offset + 1 .. offset + Len(page)
          BY <1>8, <2>1, <5>2
        <5>. QED
          BY <1>4, <1>6, <5>1, <5>2
      <4>. QED
        BY <4>1, <4>2 DEF Ties
    <3>3. \A i, j \in F : pages'[i] = pages'[j] => i = j
      BY DEF TwiceAt
    <3> HIDE DEF F, H
    <3>4. got \in Injection(F, H)
      BY <3>2, <3>3 DEF Injection, IsInjective
    <3>5. IsFiniteSet(H) /\ Cardinality(H) = Cardinality(G) - 1
      <4>1. r \in G
        BY DEF Ties
      <4>. QED
        BY <2>2, <4>1, FS_RemoveElement DEF H
    <3> HIDE DEF got
    <3>6. Cardinality(F) <= Cardinality(H)
      BY <3>4, <3>5, FS_Injection
    <3>. QED
      BY <2>2, <2>9, <3>1, <3>5, <3>6
  <2>11. reading' # "done"
    BY <1>1, <1>3, <1>4, <2>1, <2>2, <2>10
  <2>12. offset + n <= A + Cardinality(F)
    <3> HIDE DEF A, B, E, F, G, N, n
    <3>. QED
      BY <1>4, <2>2, <2>5, <2>6, <2>7, <2>9, <2>10 DEF n
  <2>13. RowsAhead(rows, r)' = A /\ RowsUpTo(rows, r)' = B /\ Reads(r.time)' = F
    BY <1>2 DEF RowsAhead, RowsUpTo, Ahead, Reads
  <2>. QED
    BY <1>1, <2>10, <2>11, <2>12, <2>13 DEF StillAhead
<1>11. PurgedTogether'
  <2> SUFFICES ASSUME listing = "log", NEW i \in DOMAIN pages'
               PROVE  pages'[i] \in rows \/ (pages'[i].time < at /\ \A q \in rows : q.time # pages'[i].time)
    BY <1>2 DEF PurgedTogether
  <2>1. CASE i \in 1..offset
    BY <1>6, <1>7, <2>1 DEF PurgedTogether
  <2>2. CASE i \in offset + 1 .. offset + Len(page)
    BY <1>8, <2>2 DEF Listed
  <2>. QED
    BY <1>4, <1>6, <2>1, <2>2
<1>12. RecordedSoFar'
  <2>1. Listed' = Listed
    BY <1>2 DEF Listed, InWindow
  <2>2. \A i, r : InPlace(Listed, i, r)' = InPlace(Listed, i, r)
    BY <1>2, <2>1 DEF InPlace, RowsAhead, RowsUpTo, Ahead
  <2> SUFFICES ASSUME listing = "detections", window.start >= at - Retained,
                      \A r \in rows \ initially' : ~InWindow(r)
               PROVE  /\ offset' <= Cardinality(Listed)
                      /\ \A i \in DOMAIN pages' : pages'[i] \in Listed /\ InPlace(Listed, i, pages'[i])
                      /\ reading' = "done" => offset' = Cardinality(Listed)
    BY <1>2, <2>1 DEF RecordedSoFar, InWindow, InPlace, RowsAhead, RowsUpTo, Ahead
  <2>3. /\ offset <= Cardinality(Listed)
        /\ \A i \in 1..offset : pages[i] \in Listed /\ InPlace(Listed, i, pages[i])
    <3>1. CASE reading = "no"
      <4>1. offset = 0
        BY <3>1, EmptySeq
      <4>. QED
        BY <1>4, <4>1
    <3>2. CASE reading # "no"
      BY <1>2, <1>6, <3>2 DEF RecordedSoFar
    <3>. QED
      BY <3>1, <3>2
  <2>4. \A i \in DOMAIN pages' : pages'[i] \in Listed /\ InPlace(Listed, i, pages'[i])
    <3> SUFFICES ASSUME NEW i \in DOMAIN pages'
                 PROVE  pages'[i] \in Listed /\ InPlace(Listed, i, pages'[i])
      OBVIOUS
    <3>1. CASE i \in 1..offset
      BY <1>7, <2>3, <3>1
    <3>2. CASE i \in offset + 1 .. offset + Len(page)
      BY <1>8, <3>2
    <3>. QED
      BY <1>4, <1>6, <3>1, <3>2
  <2>5. offset + Len(page) <= Cardinality(Listed)
    <3>1. CASE Len(page) = 0
      BY <1>4, <2>3, <3>1
    <3>2. CASE Len(page) # 0
      <4> DEFINE i == offset + Len(page)
      <4>1. i \in offset + 1 .. offset + Len(page)
        BY <1>4, <3>2
      <4>2. pages'[i] \in Listed /\ InPlace(Listed, i, pages'[i])
        BY <1>8, <4>1
      <4>3. /\ RowsUpTo(Listed, pages'[i]) <= Cardinality(Listed)
            /\ RowsUpTo(Listed, pages'[i]) \in Nat
        BY <1>3, <4>2, PlacesOf DEF Table
      <4>. QED
        BY <1>4, <4>2, <4>3 DEF InPlace
    <3>. QED
      BY <3>1, <3>2
  <2>6. reading' = "done" => offset' = Cardinality(Listed)
    <3>1. reading' = "done" => Len(page) # PageSize
      BY <1>1, <1>4
    <3>2. offset + Len(page) >= Cardinality(Listed) => offset' = Cardinality(Listed)
      BY <1>1, <1>4, <2>5
    <3>. QED
      BY <1>3, <3>1, <3>2
  <2>. QED
    BY <1>1, <2>4, <2>5, <2>6
<1>13. reading' # "no"
  BY <1>1
<1>14. \A r \in (rows \cup initially)' : r.id < inserted'
  BY <1>2
<1>. QED
  BY <1>2, <1>5, <1>9, <1>10, <1>11, <1>12, <1>13, <1>14

InsertedRow(t) == [time |-> t, id |-> inserted]

LEMMA InsertKeeps ==
  ASSUME PagingInv, Insert
  PROVE  PagingInv'
<1>1. PICK t \in IF listing = "log" THEN {at} ELSE at - Lateness .. at + Lateness :
        t >= 0 /\ rows' = rows \cup {InsertedRow(t)}
  BY DEF Insert, InsertedRow
<1>2. /\ inserted < MaxRows /\ inserted' = inserted + 1
      /\ at' = at /\ listing' = listing /\ window' = window /\ pages' = pages
      /\ offset' = offset /\ reading' = reading /\ initially' = initially
  BY DEF Insert
<1> USE DEF PagingInv, PagingTypeOK
<1>3. /\ inserted \in Nat /\ inserted' \in 0..MaxRows
      /\ t \in Int
  BY <1>1, <1>2, PagingAssumption
<1>4. InsertedRow(t) \in PagedRow /\ InsertedRow(t).time = t /\ InsertedRow(t).id = inserted
  BY <1>3 DEF InsertedRow, PagedRow
<1>5. IsFiniteSet(rows')
  BY <1>1, FS_AddElement
<1>6. PagingTypeOK'
  BY <1>1, <1>2, <1>3, <1>4
<1>7. \A r \in (rows \cup initially)' : r.id < inserted'
  <2>1. \A r \in rows \cup initially : r.id \in Nat
    BY DEF PagedRow
  <2>. QED
    BY <1>1, <1>2, <1>3, <1>4, <2>1
<1>8. InsertedRow(t) \notin initially
  BY <1>3, <1>4
<1>9. NothingSkipped'
  <2> SUFFICES ASSUME listing = "log", NEW r \in initially \cap rows', r \notin ToSet(pages), ~TwiceAt(r.time)
               PROVE  StillAhead(r)'
    BY <1>2 DEF NothingSkipped, TwiceAt
  <2>1. r \in initially \cap rows
    BY <1>1, <1>8
  <2>2. StillAhead(r)
    BY <2>1 DEF NothingSkipped
  <2>3. /\ RowsAhead(rows, r) \in Nat /\ RowsAhead(rows', r) \in Nat
        /\ RowsUpTo(rows, r) \in Nat /\ RowsUpTo(rows', r) \in Nat
        /\ RowsAhead(rows, r) <= RowsAhead(rows', r) /\ RowsUpTo(rows, r) <= RowsUpTo(rows', r)
    <3>1. Table(rows') /\ rows \subseteq rows' /\ r \in PagedRow
      BY <1>1, <1>4, <1>5 DEF Table
    <3>. QED
      BY <3>1, PlacesGrow
  <2>4. Cardinality(Reads(r.time)) \in Nat
    <3>1. DOMAIN pages = 1..offset /\ offset \in Int
      BY LenProperties
    <3>2. Reads(r.time) \in SUBSET (1..offset) /\ IsFiniteSet(1..offset)
      BY <3>1, FS_Interval DEF Reads
    <3>. QED
      BY <3>2, FS_Subset, FS_CardinalityType
  <2>5. /\ RowsAhead(rows, r)' = RowsAhead(rows', r) /\ RowsUpTo(rows, r)' = RowsUpTo(rows', r)
        /\ Reads(r.time)' = Reads(r.time)
    BY <1>2 DEF RowsAhead, RowsUpTo, Ahead, Reads
  <2>6. /\ reading # "done" /\ offset < RowsUpTo(rows, r)
        /\ offset <= RowsAhead(rows, r) + Cardinality(Reads(r.time))
    BY <2>2 DEF StillAhead
  <2>7. /\ offset < RowsUpTo(rows', r)
        /\ offset <= RowsAhead(rows', r) + Cardinality(Reads(r.time))
    BY <2>3, <2>4, <2>6
  <2>. QED
    BY <1>2, <2>5, <2>6, <2>7 DEF StillAhead
<1>10. PurgedTogether'
  <2> SUFFICES ASSUME listing = "log", NEW i \in DOMAIN pages
               PROVE  pages[i] \in rows' \/ (pages[i].time < at /\ \A q \in rows' : q.time # pages[i].time)
    BY <1>2 DEF PurgedTogether
  <2>1. CASE pages[i] \in rows
    BY <1>1, <2>1
  <2>2. CASE pages[i] \notin rows
    <3>1. pages[i].time < at /\ \A q \in rows : q.time # pages[i].time
      BY <2>2 DEF PurgedTogether
    <3>2. t = at /\ pages[i].time \in Int /\ at \in Int
      BY <1>1, LenProperties, ElementOfSeq DEF PagedRow
    <3>. QED
      BY <1>1, <1>4, <3>1, <3>2
  <2>. QED
    BY <2>1, <2>2
<1>11. RecordedSoFar'
  <2> SUFFICES ASSUME listing = "detections", reading # "no", window.start >= at - Retained,
                      \A r \in rows' \ initially : ~InWindow(r)
               PROVE  Listed' = Listed /\ \A r \in rows \ initially : ~InWindow(r)
    BY <1>2 DEF RecordedSoFar, InWindow, InPlace, RowsAhead, RowsUpTo, Ahead
  <2>1. ~InWindow(InsertedRow(t))
    BY <1>1, <1>8
  <2>2. {q \in rows' : InWindow(q)} = {q \in rows : InWindow(q)}
    BY <1>1, <2>1
  <2>3. Listed' = {q \in rows' : InWindow(q)}
    BY <1>2 DEF Listed, InWindow
  <2>. QED
    BY <1>1, <2>2, <2>3 DEF Listed
<1>. QED
  BY <1>2, <1>5, <1>6, <1>7, <1>9, <1>10, <1>11

LEMMA PurgeKeeps ==
  ASSUME PagingInv, Purge
  PROVE  PagingInv'
<1>1. /\ rows' = {r \in rows : r.time >= at - Retained}
      /\ at' = at /\ inserted' = inserted /\ listing' = listing /\ window' = window /\ pages' = pages
      /\ offset' = offset /\ reading' = reading /\ initially' = initially
  BY DEF Purge
<1> USE DEF PagingInv, PagingTypeOK
<1>2. rows' \subseteq rows /\ IsFiniteSet(rows')
  BY <1>1, FS_Subset
<1>3. \A r \in rows : r.time \in Int
  BY DEF PagedRow
<1>4. at \in Int /\ Retained \in Nat
  BY PagingAssumption
<1>5. NothingSkipped'
  <2> SUFFICES ASSUME listing = "log", NEW r \in initially \cap rows', r \notin ToSet(pages), ~TwiceAt(r.time)
               PROVE  StillAhead(r)'
    BY <1>1 DEF NothingSkipped, TwiceAt
  <2>1. StillAhead(r)
    BY <1>2 DEF NothingSkipped
  <2>2. ASSUME NEW q \in rows, q.time >= r.time
        PROVE  q \in rows'
    BY <1>1, <1>3, <1>4, <2>2
  <2>3. \A q \in rows : Ahead(q, r) \/ ~Ahead(r, q) => q.time >= r.time
    BY <1>2, <1>3 DEF Ahead
  <2>4. {q \in rows : Ahead(q, r)} = {q \in rows' : Ahead(q, r)}
    BY <1>2, <2>2, <2>3
  <2>5. {q \in rows : ~Ahead(r, q)} = {q \in rows' : ~Ahead(r, q)}
    BY <1>2, <2>2, <2>3
  <2>6. RowsAhead(rows, r)' = RowsAhead(rows, r)
    BY <1>1, <2>4 DEF RowsAhead, Ahead
  <2>7. RowsUpTo(rows, r)' = RowsUpTo(rows, r)
    BY <1>1, <2>5 DEF RowsUpTo, Ahead
  <2>. QED
    BY <1>1, <2>1, <2>6, <2>7 DEF StillAhead, Reads
<1>6. PurgedTogether'
  <2> SUFFICES ASSUME listing = "log", NEW i \in DOMAIN pages
               PROVE  pages[i] \in rows' \/ (pages[i].time < at /\ \A q \in rows' : q.time # pages[i].time)
    BY <1>1 DEF PurgedTogether
  <2>1. CASE pages[i] \in rows
    BY <1>1, <1>3, <1>4, <2>1
  <2>2. CASE pages[i] \notin rows
    BY <1>2, <2>2 DEF PurgedTogether
  <2>. QED
    BY <2>1, <2>2
<1>7. RecordedSoFar'
  <2> SUFFICES ASSUME listing = "detections", reading # "no", window.start >= at - Retained,
                      \A r \in rows' \ initially : ~InWindow(r)
               PROVE  Listed' = Listed /\ \A r \in rows \ initially : ~InWindow(r)
    BY <1>1 DEF RecordedSoFar, InWindow, InPlace, RowsAhead, RowsUpTo, Ahead
  <2>1. ASSUME NEW q \in rows, q \notin rows'
        PROVE  ~InWindow(q)
    <3>1. q.time < window.start
      BY <1>1, <1>3, <1>4, <2>1
    <3>. QED
      BY <1>3, <3>1 DEF InWindow
  <2>2. {q \in rows' : InWindow(q)} = {q \in rows : InWindow(q)}
    BY <1>2, <2>1
  <2>3. Listed' = {q \in rows' : InWindow(q)}
    BY <1>1 DEF Listed, InWindow
  <2>. QED
    BY <2>1, <2>2, <2>3 DEF Listed
<1>8. PagingTypeOK'
  BY <1>1
<1>. QED
  BY <1>1, <1>2, <1>5, <1>6, <1>7, <1>8

LEMMA PagingTickKeeps ==
  ASSUME PagingInv, PagingTick
  PROVE  PagingInv'
<1>1. /\ at < MaxAt /\ at' = at + 1
      /\ rows' = rows /\ inserted' = inserted /\ listing' = listing /\ window' = window /\ pages' = pages
      /\ offset' = offset /\ reading' = reading /\ initially' = initially
  BY DEF PagingTick
<1> USE DEF PagingInv, PagingTypeOK
<1>2. at' \in 0..MaxAt /\ at \in Int /\ Retained \in Int /\ window.start \in Int
  BY <1>1, PagingAssumption
<1>3. NothingSkipped'
  BY <1>1 DEF NothingSkipped, StillAhead, TwiceAt, Reads, RowsAhead, RowsUpTo, Ahead
<1>4. PurgedTogether'
  <2>1. \A i \in DOMAIN pages : pages[i].time \in Int
    BY DEF PagedRow
  <2>. QED
    BY <1>1, <1>2, <2>1 DEF PurgedTogether
<1>5. RecordedSoFar'
  <2>1. Listed' = Listed
    BY <1>1 DEF Listed, InWindow
  <2>2. window.start >= at' - Retained => window.start >= at - Retained
    BY <1>1, <1>2
  <2>. QED
    BY <1>1, <2>1, <2>2 DEF RecordedSoFar, InWindow, InPlace, RowsAhead, RowsUpTo, Ahead
<1>. QED
  BY <1>1, <1>2, <1>3, <1>4, <1>5

LEMMA PagingStarts ==
  ASSUME PagingInit
  PROVE  PagingInv
<1> USE DEF PagingInit
<1>1. PagingTypeOK
  BY PagingAssumption DEF PagingTypeOK
<1>2. IsFiniteSet(rows) /\ pages \in Seq(PagedRow) /\ offset = Len(pages)
  BY FS_EmptySet, EmptySeq
<1>3. NothingSkipped /\ PurgedTogether /\ RecordedSoFar
  BY DEF NothingSkipped, PurgedTogether, RecordedSoFar
<1>. QED
  BY <1>1, <1>2, <1>3 DEF PagingInv

LEMMA PagingStepKeeps ==
  PagingInv /\ [PagingNext]_PagingVars => PagingInv'
<1> SUFFICES ASSUME PagingInv, [PagingNext]_PagingVars
             PROVE  PagingInv'
  OBVIOUS
<1>1. CASE UNCHANGED PagingVars
  <2>1. /\ at' = at /\ rows' = rows /\ inserted' = inserted /\ listing' = listing /\ window' = window
        /\ pages' = pages /\ offset' = offset /\ reading' = reading /\ initially' = initially
    BY <1>1 DEF PagingVars
  <2>2. NothingSkipped' /\ PurgedTogether'
    BY <2>1 DEF PagingInv, NothingSkipped, PurgedTogether, StillAhead, TwiceAt, Reads, RowsAhead, RowsUpTo, Ahead
  <2>3. Listed' = Listed
    BY <2>1 DEF Listed, InWindow
  <2>4. RecordedSoFar'
    BY <2>1, <2>3 DEF PagingInv, RecordedSoFar, InWindow, InPlace, RowsAhead, RowsUpTo, Ahead
  <2>. QED
    BY <2>1, <2>2, <2>4 DEF PagingInv, PagingTypeOK
<1>. QED
  BY <1>1, ReadPageKeeps, InsertKeeps, PurgeKeeps, PagingTickKeeps DEF PagingNext

LEMMA PagesComeComplete ==
  PagingInv => PagesAreComplete
<1> SUFFICES ASSUME PagingInv PROVE PagesAreComplete
  OBVIOUS
<1> USE DEF PagingInv
<1>1. NothingMissed
  BY DEF NothingMissed, NothingSkipped, StillAhead
<1>2. RecordedInPlace
  <2> DEFINE W == {r \in rows : InRecording(r)}
  <2> SUFFICES ASSUME RecordedInPeace
               PROVE  /\ Len(pages) = Cardinality(W)
                      /\ \A i \in DOMAIN pages : pages[i] \in W /\ InPlace(W, i, pages[i])
    BY DEF RecordedInPlace
  <2>1. \A r \in rows : r.time \in Int /\ window.end \in Int
    BY DEF PagingTypeOK, PagedRow
  <2>2. \A r \in rows \ initially : ~InWindow(r)
    BY <2>1 DEF InWindow, RecordedInPeace
  <2>3. Listed = W
    BY DEF Listed, InWindow, InRecording, RecordedInPeace
  <2>4. /\ offset = Cardinality(Listed)
        /\ \A i \in DOMAIN pages : pages[i] \in Listed /\ InPlace(Listed, i, pages[i])
    BY <2>2 DEF RecordedSoFar, RecordedInPeace
  <2>. QED
    BY <2>3, <2>4
<1>. QED
  BY <1>1, <1>2 DEF PagesAreComplete

\* However long the listing, the pages and the time between them, and whatever
\* order rows of one time come in from page to page: a reader of a log misses a
\* row that was there throughout only where it gets another of the same time
\* twice; the recording of a window that is over, and kept, has as many rows as
\* the window, in the order of their times.  That no row comes twice is not
\* so: ties that a page ends among (EveryDetectionRecorded).
THEOREM ListingsAreComplete ==
  PagingSpec => []PagesAreComplete
<1>1. PagingInit => PagingInv
  BY PagingStarts
<1>2. PagingInv /\ [PagingNext]_PagingVars => PagingInv'
  BY PagingStepKeeps
<1>3. PagingInv => PagesAreComplete
  BY PagesComeComplete
<1>. QED
  BY <1>1, <1>2, <1>3, PTL DEF PagingSpec
=============================================================================
