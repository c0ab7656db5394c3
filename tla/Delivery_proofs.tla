--------------------------- MODULE Delivery_proofs ---------------------------
(***************************************************************************)
(* Proofs about the modules that bring something into the API or out of    *)
(* it, and start it: Startup, Alerts, Bridges, QueueConsumer.              *)
(***************************************************************************)
EXTENDS Startup, Alerts, Bridges, QueueConsumer, FiniteSetTheorems, SequenceTheorems, TLAPS

-----------------------------------------------------------------------------
(* Startup: what a replica that has come so far can rely on, whatever the  *)
(* others do and whoever is killed.                                        *)

\* The old filter table is dropped in the step that makes the shape new.
OldFilterIsThere == filterShape \in {"old", "new"} /\ (filterShape = "old" => FilterTable \subseteq tables)

SeedsLoaded(p) == \A n \in Seeds \ todo[p] : sited[n] > 0

\* Apart from the filter table nothing is dropped, so what was there when a process
\* looked is there still, and what was not it makes itself or finds made.
Relies(p) ==
  /\ boot[p] = "filter" => saw[p] \subseteq FilterTable
  /\ boot[p] = "create" /\ saw[p] # {} => AllTables \ FilterTable \subseteq tables \cup saw[p]
  /\ boot[p] = "columns" /\ saw[p] # {} => Added(AllTables) \subseteq columns \cup saw[p]
  /\ boot[p] \notin {"filter", "create", "columns"} => saw[p] = {}
  /\ boot[p] \notin {"filter", "crashed"} => filterShape = "new"
  /\ boot[p] \notin {"filter", "crashed", "create"} => AllTables \ FilterTable \subseteq tables
  /\ boot[p] \notin {"filter", "crashed", "create", "columns"} => columns = Added(AllTables)
  /\ boot[p] \in {"backfill", "seed", "make_seed", "serving"} => defaultSite
  /\ boot[p] \in {"seed", "make_seed", "serving"} => siteless = NoRows
  /\ boot[p] = "make_seed" => todo[p] # {}
  /\ boot[p] = "serving" => todo[p] = {}

\* The filter table is there, or somebody is going to make it.
FilterIsComing ==
  Process # {} => FilterTable \subseteq tables \/ \E p \in Process : WillMakeFilterTable(p)

StartupInv ==
  StartupTypeOK /\ OldFilterIsThere /\ FilterIsComing /\ \A p \in Process : Relies(p) /\ SeedsLoaded(p)

LEMMA TablesOfSite ==
  /\ FilterTable \subseteq AllTables /\ "zone" \in AllTables
  /\ \A ts : ts \subseteq AllTables => Added(ts) \subseteq Added(AllTables)
  /\ \A ts : AllTables \ FilterTable \subseteq ts => Added(AllTables) \subseteq Added(ts)
<1>1. FilterTable \subseteq AllTables /\ "zone" \in AllTables
  BY DEF AllTables, FilterTable
<1>2. DOMAIN AddedTo \cap AllTables \subseteq AllTables \ FilterTable
  BY DEF AddedTo, FilterTable
<1>3. \A ts : AllTables \ FilterTable \subseteq ts => AllTables \cap DOMAIN AddedTo \subseteq ts \cap DOMAIN AddedTo
  BY <1>2
<1>. QED
  BY <1>1, <1>3 DEF Added

LEMMA StartupStarts == StartupInit => StartupInv
<1>. SUFFICES ASSUME StartupInit PROVE StartupInv
  OBVIOUS
<1>1. PICK d \in Databases \cup {AfterHead}, f \in Found : \E rows \in RowsOf(f) :
        /\ tables = d.tables /\ columns = d.columns /\ filterShape = d.shape
        /\ sited = rows.sited /\ siteless = rows.siteless
  BY DEF StartupInit
<1>2. PICK rows \in RowsOf(f) : sited = rows.sited /\ siteless = rows.siteless
  BY <1>1
<1>3. DOMAIN AddedTo \subseteq AllTables
  BY DEF AddedTo, AllTables
<1>4. d.tables \subseteq AllTables /\ d.columns \subseteq Added(AllTables)
  BY <1>3, TablesOfSite DEF Databases, AfterHead, FilterTable
<1>5. d.shape \in {"old", "new"} /\ (d.shape = "old" => FilterTable \subseteq d.tables)
  BY DEF Databases, AfterHead, FilterTable
<1>6. NoRows \in [ZoneName -> Nat]
  BY DEF NoRows
<1>7. rows.sited \in [ZoneName -> Nat] /\ rows.siteless \in [ZoneName -> Nat]
  <2>1. /\ f = "no_sites" => rows \in [sited : {NoRows}, siteless : [ZoneName -> 0..1], site : {FALSE}]
        /\ f = "no_sites_repeated" => rows \in [sited : {NoRows}, siteless : [ZoneName -> 0..2], site : {FALSE}]
        /\ f = "sites" => rows \in [sited : [ZoneName -> 0..2], siteless : {NoRows}, site : {TRUE}]
        /\ f \notin {"no_sites", "no_sites_repeated", "sites"} =>
             rows \in [sited : {NoRows}, siteless : {NoRows}, site : {FALSE}]
    BY DEF RowsOf
  <2>2. rows.sited \in {NoRows} \cup [ZoneName -> 0..2]
    BY <2>1
  <2>3. rows.siteless \in {NoRows} \cup [ZoneName -> 0..1] \cup [ZoneName -> 0..2]
    BY <2>1
  <2>. QED
    BY <1>6, <2>2, <2>3
<1>8. /\ boot = [p \in Process |-> "filter"] /\ saw = [p \in Process |-> {}]
      /\ todo = [p \in Process |-> Seeds]
  BY DEF StartupInit
<1>9. StartupTypeOK
  BY <1>1, <1>2, <1>4, <1>7, <1>8 DEF StartupTypeOK, Stages
<1>10. OldFilterIsThere /\ FilterIsComing /\ \A p \in Process : Relies(p) /\ SeedsLoaded(p)
  BY <1>1, <1>5, <1>8 DEF OldFilterIsThere, FilterIsComing, WillMakeFilterTable, Relies, SeedsLoaded
<1>. QED
  BY <1>9, <1>10 DEF StartupInv

\* What a step of p leaves the others: but for the filter table the schema only
\* grows, and a site or a zone once made stays.
Forward(p) ==
  /\ filterShape = "new" => filterShape' = "new"
  /\ tables \ FilterTable \subseteq tables'
  /\ columns \subseteq columns'
  /\ defaultSite => defaultSite'
  /\ siteless = NoRows => siteless' = NoRows
  /\ \A n \in ZoneName : sited[n] > 0 => sited'[n] > 0
  /\ \A q \in Process \ {p} : boot'[q] = boot[q] /\ todo'[q] = todo[q] /\ saw'[q] = saw[q]

\* If it leaves others without the filter table, it is p that is going to make it.
FilterKept(p) ==
  FilterTable \subseteq tables \/ WillMakeFilterTable(p) => FilterTable \subseteq tables' \/ WillMakeFilterTable(p)'

LEMMA FilterStillComing ==
  ASSUME StartupInv, NEW p \in Process, Forward(p), FilterKept(p)
  PROVE  FilterIsComing'
<1>1. FilterTable \subseteq tables \/ \E q \in Process : WillMakeFilterTable(q)
  BY DEF StartupInv, FilterIsComing
<1>2. \A q \in Process \ {p} : WillMakeFilterTable(q) => WillMakeFilterTable(q)'
  BY DEF Forward, WillMakeFilterTable
<1>3. CASE FilterTable \subseteq tables \/ WillMakeFilterTable(p)
  BY <1>3 DEF FilterKept, FilterIsComing
<1>4. CASE \E q \in Process \ {p} : WillMakeFilterTable(q)
  BY <1>2, <1>4 DEF FilterIsComing
<1>. QED
  BY <1>1, <1>3, <1>4

\* What p itself has to show for the invariant.
LEMMA StepKeeps ==
  ASSUME StartupInv, NEW p \in Process, Forward(p), FilterKept(p),
         StartupTypeOK', OldFilterIsThere', Relies(p)', SeedsLoaded(p)' \/ UNCHANGED todo
  PROVE  StartupInv'
<1>1. StartupTypeOK /\ Seeds \subseteq ZoneName /\ \A q \in Process : Relies(q) /\ SeedsLoaded(q)
  BY StartupAssumption DEF StartupInv
<1>2. \A q \in Process \ {p} : Relies(q)'
  <2>. SUFFICES ASSUME NEW q \in Process \ {p} PROVE Relies(q)'
    OBVIOUS
  <2>1. boot'[q] = boot[q] /\ todo'[q] = todo[q] /\ saw'[q] = saw[q] /\ Relies(q)
    BY <1>1 DEF Forward
  <2>2. columns' \subseteq Added(AllTables)
    BY DEF StartupTypeOK
  <2>. QED
    BY <2>1, <2>2 DEF Forward, Relies
<1>3. \A q \in Process : q # p \/ UNCHANGED todo => SeedsLoaded(q)'
  BY <1>1 DEF Forward, SeedsLoaded
<1>4. FilterIsComing'
  BY FilterStillComing
<1>. QED
  BY <1>2, <1>3, <1>4 DEF StartupInv

\* A process that crashes starts over and relies on nothing.
LEMMA CrashKeeps ==
  ASSUME StartupInv, NEW p \in Process, Crash(p), UNCHANGED todo,
         DOMAIN saw' = Process, saw'[p] = {}, \A q \in Process \ {p} : saw'[q] = saw[q]
  PROVE  StartupInv'
<1>0. boot' = [boot EXCEPT ![p] = "crashed"] /\ UNCHANGED <<tables, columns, filterShape, defaultSite, sited, siteless>>
  BY DEF Crash, To, Schema
<1>1. StartupTypeOK' /\ OldFilterIsThere'
  BY <1>0 DEF StartupInv, StartupTypeOK, OldFilterIsThere, Stages
<1>2. Forward(p)
  BY <1>0 DEF StartupInv, StartupTypeOK, Forward
<1>3. Relies(p)' /\ FilterKept(p)
  BY <1>0 DEF StartupInv, StartupTypeOK, Relies, FilterKept, WillMakeFilterTable
<1>. QED
  BY <1>1, <1>2, <1>3, StepKeeps

LEMMA AlterKeeps ==
  ASSUME StartupInv, NEW p \in Process, Alter(p)
  PROVE  StartupInv'
<1>1. StartupTypeOK /\ OldFilterIsThere /\ Relies(p)
  BY DEF StartupInv
<1>2. /\ UNCHANGED todo /\ saw'[p] = {} /\ DOMAIN saw' = Process
      /\ \A q \in Process \ {p} : saw'[q] = saw[q]
  BY <1>1 DEF Alter, StartupTypeOK
<1>3. CASE ~Possible(boot[p], saw[p])
  BY <1>2, <1>3, CrashKeeps DEF Alter
<1>4. CASE Possible(boot[p], saw[p])
  <2>1. /\ boot[p] \in {"filter", "create", "columns"} /\ saw[p] # {}
        /\ Altered(boot[p], saw[p]) /\ To(p, After(boot[p])) /\ UNCHANGED <<defaultSite, sited, siteless>>
    BY <1>4 DEF Alter
  <2>2. After(boot[p]) \in {"create", "columns", "unique"} /\ boot' = [boot EXCEPT ![p] = After(boot[p])]
    BY <2>1 DEF After, To
  <2>3. boot'[p] = After(boot[p])
    BY <1>1, <2>2 DEF StartupTypeOK
  <2>4. /\ tables' \subseteq AllTables /\ columns' \subseteq Added(AllTables)
        /\ tables \ FilterTable \subseteq tables' /\ columns \subseteq columns'
        /\ OldFilterIsThere' /\ (filterShape = "new" => filterShape' = "new")
        /\ Relies(p)' /\ FilterKept(p)
    <3>1. CASE boot[p] = "filter"
      <4>1. tables' = tables \ saw[p] /\ filterShape' = "new" /\ columns' = columns /\ boot'[p] = "create"
        BY <2>1, <2>3, <3>1 DEF Altered, After
      <4>2. saw[p] \subseteq FilterTable
        BY <1>1, <3>1 DEF Relies
      <4>. QED
        BY <1>1, <1>2, <4>1, <4>2 DEF StartupTypeOK, OldFilterIsThere, Relies, FilterKept, WillMakeFilterTable
    <3>2. CASE boot[p] = "create"
      <4>1. /\ tables' = tables \cup saw[p] /\ filterShape' = filterShape /\ boot'[p] = "columns"
            /\ columns' = columns \cup Added(saw[p])
        BY <2>1, <2>3, <3>2 DEF Altered, After
      <4>2. saw[p] \subseteq AllTables
        BY <1>1, <3>2 DEF StartupTypeOK
      <4>3. Added(saw[p]) \subseteq Added(AllTables)
        BY <4>2, TablesOfSite
      <4>4. AllTables \ FilterTable \subseteq tables \cup saw[p] /\ filterShape = "new"
        BY <1>1, <2>1, <3>2 DEF Relies
      <4>5. tables' \subseteq AllTables /\ columns' \subseteq Added(AllTables) /\ tables \subseteq tables' /\ columns \subseteq columns'
        BY <1>1, <4>1, <4>2, <4>3 DEF StartupTypeOK
      <4>6. OldFilterIsThere' /\ FilterKept(p)
        BY <1>1, <2>1, <3>2, <4>1 DEF OldFilterIsThere, FilterKept, WillMakeFilterTable
      <4>7. Relies(p)'
        BY <1>2, <4>1, <4>4 DEF Relies
      <4>. QED
        BY <4>1, <4>5, <4>6, <4>7
    <3>3. CASE boot[p] = "columns"
      <4>1. columns' = columns \cup saw[p] /\ tables' = tables /\ filterShape' = filterShape /\ boot'[p] = "unique"
        BY <2>1, <2>3, <3>3 DEF Altered, After
      <4>2. saw[p] \subseteq Added(AllTables)
        BY <1>1, <3>3 DEF StartupTypeOK
      <4>3. /\ Added(AllTables) \subseteq columns \cup saw[p] /\ filterShape = "new"
            /\ AllTables \ FilterTable \subseteq tables
        BY <1>1, <2>1, <3>3 DEF Relies
      <4>4. columns' = Added(AllTables)
        BY <1>1, <4>1, <4>2, <4>3 DEF StartupTypeOK
      <4>5. OldFilterIsThere' /\ FilterKept(p)
        BY <1>1, <3>3, <4>1 DEF OldFilterIsThere, FilterKept, WillMakeFilterTable
      <4>6. Relies(p)'
        BY <1>2, <4>1, <4>3, <4>4 DEF Relies
      <4>. QED
        BY <1>1, <4>1, <4>4, <4>5, <4>6 DEF StartupTypeOK
    <3>. QED
      BY <2>1, <3>1, <3>2, <3>3
  <2>5. StartupTypeOK'
    BY <1>1, <1>2, <2>1, <2>2, <2>4 DEF StartupTypeOK, Stages
  <2>6. Forward(p)
    BY <1>1, <1>2, <2>1, <2>2, <2>4 DEF Forward, StartupTypeOK
  <2>. QED
    BY <1>2, <2>4, <2>5, <2>6, StepKeeps
<1>. QED
  BY <1>3, <1>4

\* What is not needed is there already; what is is kept in mind.
LEMMA InspectKeeps ==
  ASSUME StartupInv, NEW p \in Process, Inspect(p)
  PROVE  StartupInv'
<1>1. StartupTypeOK /\ OldFilterIsThere /\ Relies(p)
  BY DEF StartupInv
<1>2. /\ UNCHANGED <<tables, columns, filterShape, defaultSite, sited, siteless, todo>>
      /\ boot[p] \in {"filter", "create", "columns"} /\ saw[p] = {}
  BY DEF Inspect, Schema
<1>3. CASE Needed(boot[p]) # {}
  <2>1. boot' = boot /\ saw' = [saw EXCEPT ![p] = Needed(boot[p])] /\ saw'[p] = Needed(boot[p])
    BY <1>1, <1>3 DEF Inspect, StartupTypeOK
  <2>2. /\ Needed(boot[p]) \subseteq IF boot[p] = "columns" THEN Added(AllTables) ELSE AllTables
        /\ Relies(p)' /\ FilterKept(p)
    <3>1. CASE boot[p] = "filter"
      <4>1. Needed(boot[p]) \subseteq FilterTable
        BY <3>1 DEF Needed
      <4>. QED
        BY <1>1, <1>2, <2>1, <3>1, <4>1, TablesOfSite DEF Relies, FilterKept, WillMakeFilterTable
    <3>2. CASE boot[p] = "create"
      <4>1. Needed(boot[p]) = AllTables \ tables
        BY <3>2 DEF Needed
      <4>2. Relies(p)'
        BY <1>1, <1>2, <2>1, <3>2, <4>1 DEF Relies
      <4>3. FilterTable \subseteq tables \/ FilterTable \subseteq saw'[p]
        BY <2>1, <4>1, TablesOfSite DEF FilterTable
      <4>4. FilterKept(p)
        BY <1>2, <2>1, <3>2, <4>3 DEF FilterKept, WillMakeFilterTable
      <4>. QED
        BY <3>2, <4>1, <4>2, <4>4
    <3>3. CASE boot[p] = "columns"
      <4>1. Needed(boot[p]) = Added(tables) \ columns
        BY <3>3 DEF Needed
      <4>2. AllTables \ FilterTable \subseteq tables /\ tables \subseteq AllTables
        BY <1>1, <3>3 DEF Relies, StartupTypeOK
      <4>3. Added(tables) \subseteq Added(AllTables) /\ Added(AllTables) \subseteq Added(tables)
        BY <4>2, TablesOfSite
      <4>. QED
        BY <1>1, <1>2, <2>1, <3>3, <4>1, <4>3 DEF Relies, FilterKept, WillMakeFilterTable
    <3>. QED
      BY <1>2, <3>1, <3>2, <3>3
  <2>3. StartupTypeOK' /\ OldFilterIsThere'
    BY <1>1, <1>2, <2>1, <2>2 DEF StartupTypeOK, OldFilterIsThere
  <2>4. Forward(p)
    BY <1>1, <1>2, <2>1 DEF Forward, StartupTypeOK
  <2>. QED
    BY <1>2, <2>2, <2>3, <2>4, StepKeeps
<1>4. CASE Needed(boot[p]) = {}
  <2>1. /\ saw' = saw /\ After(boot[p]) \in {"create", "columns", "unique"}
        /\ boot' = [boot EXCEPT ![p] = After(boot[p])]
    BY <1>2, <1>4 DEF Inspect, After, To
  <2>2. boot'[p] = After(boot[p]) /\ saw'[p] = {}
    BY <1>1, <1>2, <2>1 DEF StartupTypeOK
  <2>3. StartupTypeOK' /\ OldFilterIsThere'
    BY <1>1, <1>2, <2>1 DEF StartupTypeOK, OldFilterIsThere, Stages
  <2>4. Forward(p)
    BY <1>1, <1>2, <2>1 DEF Forward, StartupTypeOK
  <2>5. Relies(p)' /\ FilterKept(p)
    <3>1. CASE boot[p] = "filter"
      <4>1. filterShape = "new"
        BY <1>1, <1>4, <3>1 DEF Needed, OldFilterIsThere, FilterTable
      <4>. QED
        BY <1>2, <2>2, <3>1, <4>1 DEF After, Relies, FilterKept, WillMakeFilterTable
    <3>2. CASE boot[p] = "create"
      <4>1. AllTables \subseteq tables /\ filterShape = "new"
        BY <1>1, <1>4, <3>2 DEF Needed, Relies
      <4>. QED
        BY <1>2, <2>2, <3>2, <4>1, TablesOfSite DEF After, Relies, FilterKept
    <3>3. CASE boot[p] = "columns"
      <4>1. Added(tables) \subseteq columns /\ filterShape = "new" /\ AllTables \ FilterTable \subseteq tables
        BY <1>1, <1>4, <3>3 DEF Needed, Relies
      <4>2. columns = Added(AllTables)
        BY <1>1, <4>1, TablesOfSite DEF StartupTypeOK
      <4>. QED
        BY <1>2, <2>2, <3>3, <4>1, <4>2 DEF After, Relies, FilterKept, WillMakeFilterTable
    <3>. QED
      BY <1>2, <3>1, <3>2, <3>3
  <2>. QED
    BY <1>2, <2>3, <2>4, <2>5, StepKeeps
<1>. QED
  BY <1>3, <1>4

\* After create_all a process never touches the filter table, and after adding
\* columns it has nothing in mind.
LEMMA PastColumns ==
  ASSUME StartupInv, NEW p \in Process, UNCHANGED <<tables, saw>>,
         boot[p] \notin {"filter", "create", "columns", "crashed"}
  PROVE  /\ FilterKept(p) /\ saw[p] = {}
         /\ DOMAIN saw' = Process /\ saw'[p] = {} /\ \A q \in Process \ {p} : saw'[q] = saw[q]
<1>1. saw[p] = {} /\ DOMAIN saw = Process
  BY DEF StartupInv, Relies, StartupTypeOK
<1>2. FilterKept(p)
  BY DEF FilterKept, WillMakeFilterTable
<1>. QED
  BY <1>1, <1>2

LEMMA IndexAndSiteKeep ==
  ASSUME StartupInv, NEW p \in Process, MakeUniqueIndex(p) \/ GetDefaultSite(p) \/ MakeDefaultSite(p)
  PROVE  StartupInv'
<1>1. StartupTypeOK /\ OldFilterIsThere /\ Relies(p)
  BY DEF StartupInv
<1>2. UNCHANGED <<tables, columns, filterShape, sited, siteless, saw, todo>>
  BY DEF MakeUniqueIndex, GetDefaultSite, MakeDefaultSite, Crash, Schema
<1>5. boot[p] \in {"unique", "get_site", "make_site"}
  BY DEF MakeUniqueIndex, GetDefaultSite, MakeDefaultSite
<1>6. /\ FilterKept(p) /\ saw[p] = {}
      /\ DOMAIN saw' = Process /\ saw'[p] = {} /\ \A q \in Process \ {p} : saw'[q] = saw[q]
  BY <1>2, <1>5, PastColumns
<1>3. CASE Crash(p)
  BY <1>2, <1>3, <1>6, CrashKeeps
<1>4. CASE ~Crash(p)
  <2>1. /\ boot[p] \in {"unique", "get_site", "make_site"}
        /\ defaultSite => defaultSite'
        /\ \E s \in {"get_site", "make_site", "backfill"} :
             boot' = [boot EXCEPT ![p] = s] /\ (s = "backfill" => defaultSite')
    BY <1>4 DEF MakeUniqueIndex, GoOnWithoutIndex, GetDefaultSite, MakeDefaultSite, To
  <2>2. StartupTypeOK' /\ OldFilterIsThere'
    BY <1>1, <1>2, <2>1 DEF StartupTypeOK, OldFilterIsThere, Stages
  <2>3. Forward(p)
    BY <1>1, <1>2, <2>1 DEF Forward, StartupTypeOK
  <2>4. Relies(p)'
    BY <1>1, <1>2, <1>6, <2>1 DEF Relies, StartupTypeOK
  <2>. QED
    BY <1>2, <1>6, <2>2, <2>3, <2>4, StepKeeps
<1>. QED
  BY <1>3, <1>4

LEMMA BackfillKeeps ==
  ASSUME StartupInv, NEW p \in Process, Backfill(p)
  PROVE  StartupInv'
<1>1. StartupTypeOK /\ OldFilterIsThere /\ Relies(p)
  BY DEF StartupInv
<1>4. UNCHANGED <<tables, saw, todo>> /\ boot[p] = "backfill"
  BY DEF Backfill, Crash, Schema
<1>5. /\ FilterKept(p) /\ saw[p] = {}
      /\ DOMAIN saw' = Process /\ saw'[p] = {} /\ \A q \in Process \ {p} : saw'[q] = saw[q]
  BY <1>4, PastColumns
<1>2. CASE Crash(p)
  BY <1>2, <1>4, <1>5, CrashKeeps
<1>3. CASE ~Crash(p)
  <2>1. /\ boot[p] = "backfill"
        /\ sited' = [n \in ZoneName |-> sited[n] + siteless[n]]
        /\ siteless' = [n \in ZoneName |-> siteless[n] - siteless[n]]
        /\ boot' = [boot EXCEPT ![p] = "seed"]
        /\ UNCHANGED <<tables, columns, filterShape, defaultSite, saw, todo>>
    BY <1>3 DEF Backfill, RowsToAdopt, To, Schema
  <2>2. siteless' = NoRows /\ sited' \in [ZoneName -> Nat] /\ NoRows \in [ZoneName -> Nat]
    BY <1>1, <2>1 DEF StartupTypeOK, NoRows
  <2>3. \A n \in ZoneName : sited[n] > 0 => sited'[n] > 0
    BY <1>1, <2>1 DEF StartupTypeOK
  <2>4. StartupTypeOK' /\ OldFilterIsThere'
    BY <1>1, <2>1, <2>2 DEF StartupTypeOK, OldFilterIsThere, Stages
  <2>5. Forward(p)
    BY <1>1, <2>1, <2>2, <2>3 DEF Forward, StartupTypeOK
  <2>6. Relies(p)'
    BY <1>1, <1>5, <2>1, <2>2, <2>3 DEF Relies, StartupTypeOK
  <2>. QED
    BY <1>5, <2>1, <2>4, <2>5, <2>6, StepKeeps
<1>. QED
  BY <1>2, <1>3

LEMMA SeedKeeps ==
  ASSUME StartupInv, NEW p \in Process, GetSeed(p) \/ MakeSeed(p)
  PROVE  StartupInv'
<1>1. StartupTypeOK /\ OldFilterIsThere /\ Relies(p) /\ Seeds \subseteq ZoneName
  BY StartupAssumption DEF StartupInv
<1>4. SeedsLoaded(p)
  BY DEF StartupInv
<1> DEFINE n == CHOOSE m \in todo[p] : TRUE
<1>5. UNCHANGED <<tables, saw>> /\ boot[p] \in {"seed", "make_seed"}
  BY DEF GetSeed, MakeSeed, Crash, Schema
<1>6. /\ FilterKept(p) /\ saw[p] = {}
      /\ DOMAIN saw' = Process /\ saw'[p] = {} /\ \A q \in Process \ {p} : saw'[q] = saw[q]
  BY <1>5, PastColumns
<1>2. CASE MakeSeed(p) /\ uniqueZone /\ sited[n] > 0
  BY <1>2, <1>6, CrashKeeps DEF MakeSeed
<1>3. CASE ~(MakeSeed(p) /\ uniqueZone /\ sited[n] > 0)
  <2>1. /\ UNCHANGED <<tables, columns, filterShape, defaultSite, siteless, saw>>
        /\ boot[p] \in {"seed", "make_seed"}
    BY <1>3 DEF GetSeed, MakeSeed, Schema
  <2>2. todo[p] # {} => n \in todo[p]
    OBVIOUS
  <2>3. /\ sited' \in [ZoneName -> Nat] /\ \A m \in ZoneName : sited[m] > 0 => sited'[m] > 0
        /\ boot' = boot \/ \E s \in {"seed", "make_seed", "serving"} : boot' = [boot EXCEPT ![p] = s]
        /\ todo' = todo \/ todo' = [todo EXCEPT ![p] = todo[p] \ {n}]
        /\ boot'[p] \in {"seed", "make_seed", "serving"}
        /\ boot'[p] = "make_seed" => todo'[p] # {}
        /\ boot'[p] = "serving" => todo'[p] = {}
        /\ \A m \in todo[p] \ todo'[p] : sited'[m] > 0
    <3>1. CASE GetSeed(p)
      BY <1>1, <2>2, <3>1 DEF GetSeed, To, StartupTypeOK
    <3>2. CASE MakeSeed(p)
      <4>1. n \in ZoneName /\ boot[p] = "make_seed"
        BY <1>1, <2>2, <3>2 DEF MakeSeed, Relies, StartupTypeOK
      <4>2. /\ sited' = [sited EXCEPT ![n] = sited[n] + 1]
            /\ todo' = [todo EXCEPT ![p] = todo[p] \ {n}]
            /\ boot' = [boot EXCEPT ![p] = "seed"]
        BY <1>3, <3>2 DEF MakeSeed, To
      <4>3. sited' \in [ZoneName -> Nat] /\ \A m \in ZoneName : sited[m] > 0 => sited'[m] > 0
        <5>1. PICK m \in ZoneName : m = n
          BY <4>1
        <5>2. sited' = [sited EXCEPT ![m] = sited[m] + 1]
          BY <4>2, <5>1
        <5>. QED
          BY <1>1, <5>2 DEF StartupTypeOK
      <4>4. boot'[p] = "seed" /\ todo'[p] = todo[p] \ {n} /\ sited'[n] > 0
        BY <1>1, <4>1, <4>2 DEF StartupTypeOK
      <4>5. \A m \in todo[p] \ todo'[p] : sited'[m] > 0
        BY <4>4
      <4>. QED
        BY <4>2, <4>3, <4>4, <4>5
    <3>. QED
      BY <3>1, <3>2
  <2>4. StartupTypeOK' /\ OldFilterIsThere'
    BY <1>1, <2>1, <2>3 DEF StartupTypeOK, OldFilterIsThere, Stages
  <2>5. Forward(p)
    BY <1>1, <2>1, <2>3 DEF Forward, StartupTypeOK
  <2>6. Relies(p)'
    BY <1>1, <1>6, <2>1, <2>3 DEF Relies
  <2>7. SeedsLoaded(p)'
    BY <1>1, <1>4, <2>3 DEF SeedsLoaded
  <2>. QED
    BY <1>6, <2>4, <2>5, <2>6, <2>7, StepKeeps
<1>. QED
  BY <1>2, <1>3

LEMMA RestartKeeps ==
  ASSUME StartupInv, NEW p \in Process, Restart(p)
  PROVE  StartupInv'
<1>1. StartupTypeOK' /\ OldFilterIsThere'
  BY DEF StartupInv, StartupTypeOK, OldFilterIsThere, Restart, To, Schema, Stages
<1>2. Forward(p) /\ Relies(p)' /\ FilterKept(p)
  BY DEF StartupInv, StartupTypeOK, Forward, Relies, FilterKept, WillMakeFilterTable, Restart, To, Schema
<1>3. SeedsLoaded(p)'
  BY DEF StartupInv, StartupTypeOK, SeedsLoaded, Restart
<1>. QED
  BY <1>1, <1>2, <1>3, StepKeeps

LEMMA StartupStepKeeps == StartupInv /\ [StartupNext]_StartupVars => StartupInv'
<1>. SUFFICES ASSUME StartupInv, [StartupNext]_StartupVars PROVE StartupInv'
  OBVIOUS
<1>1. CASE UNCHANGED StartupVars
  BY <1>1 DEF StartupInv, StartupVars, StartupTypeOK, OldFilterIsThere, FilterIsComing, WillMakeFilterTable,
     Relies, SeedsLoaded
<1>2. ASSUME NEW p \in Process, Kill(p)
      PROVE  StartupInv'
  <2>1. UNCHANGED todo /\ DOMAIN saw' = Process /\ saw'[p] = {} /\ \A q \in Process \ {p} : saw'[q] = saw[q]
    BY <1>2 DEF Kill, StartupInv, StartupTypeOK
  <2>. QED
    BY <1>2, <2>1, CrashKeeps DEF Kill
<1>. QED
  BY <1>1, <1>2, AlterKeeps, InspectKeeps, IndexAndSiteKeep, BackfillKeeps, SeedKeeps, RestartKeeps
  DEF StartupNext, StartupStep

\* However many replicas start together on whichever database, and whoever is
\* killed or restarted in the middle, a replica serves only on a complete one
\* (init_db, load_zones_from_file, then the lifespan's yield), but for the filter
\* table: a drop decided on an old inspection may take the new one, and then a
\* replica that has yet to come through create_all makes it again.
THEOREM StartupServesMigrated == StartupInit /\ [][StartupNext]_StartupVars => []ServesMigrated
<1>1. StartupInv => ServesMigrated
  BY DEF StartupInv, FilterIsComing, Relies, SeedsLoaded, ServesMigrated
<1>. QED
  BY <1>1, StartupStarts, StartupStepKeeps, PTL

-----------------------------------------------------------------------------
(* Alerts: what is to be sent for an incident is what was sent and what is *)
(* left, until its thread ends.                                            *)

DueFor(i) == Outgoing(opened[i].severity, opened[i].located)

Accounted ==
  \A i \in 1..Len(opened) :
    /\ \E rest \in Seq(Outbound) : DueFor(i) = sent[i] \o rest
    /\ \A s \in Sender : sender[s].incident = i => DueFor(i) = sent[i] \o sender[s].left
    /\ i \in broken \/ (\E s \in Sender : sender[s].incident = i) \/ sent[i] = DueFor(i)

\* Each thread has an incident of its own, if any.
OwnIncident ==
  /\ \A s \in Sender : sender[s].incident = 0 => sender[s].left = <<>>
  /\ \A s, r \in Sender : sender[s].incident = sender[r].incident /\ sender[s].incident # 0 => s = r

AlertsInv == AlertsTypeOK /\ Accounted /\ OwnIncident

LEMMA Sequenced ==
  ASSUME NEW S, NEW s \in Seq(S)
  PROVE  /\ \A e \in S : /\ Append(s, e) \in Seq(S) /\ Len(Append(s, e)) = Len(s) + 1
                         /\ Append(s, e)[Len(s) + 1] = e
                         /\ \A i \in 1..Len(s) : Append(s, e)[i] = s[i]
         /\ Len(s) \in Nat
         /\ s # <<>> => /\ Len(s) \in Nat \ {0} /\ Head(s) = s[1] /\ s[1] \in S
                        /\ Tail(s) \in Seq(S) /\ Len(Tail(s)) = Len(s) - 1
                        /\ \A i \in 1..Len(s) - 1 : Tail(s)[i] = s[i + 1]
  OBVIOUS

\* Handing over the head of what is left changes nothing of the whole.
LEMMA HandedOver ==
  ASSUME NEW S, NEW s \in Seq(S), NEW t \in Seq(S), t # <<>>
  PROVE  /\ Append(s, Head(t)) \in Seq(S) /\ Tail(t) \in Seq(S)
         /\ s \o t = Append(s, Head(t)) \o Tail(t)
<1>1. /\ Len(t) \in Nat \ {0} /\ Head(t) = t[1] /\ t[1] \in S
      /\ Tail(t) \in Seq(S) /\ Len(Tail(t)) = Len(t) - 1
      /\ \A i \in 1..Len(t) - 1 : Tail(t)[i] = t[i + 1]
  BY Sequenced
<1> DEFINE a == Append(s, Head(t))
<1>2. /\ a \in Seq(S) /\ Len(s) \in Nat /\ Len(a) = Len(s) + 1 /\ a[Len(s) + 1] = t[1]
      /\ \A i \in 1..Len(s) : a[i] = s[i]
  BY <1>1, Sequenced
<1> HIDE DEF a
<1>3. /\ s \o t \in Seq(S) /\ Len(s \o t) = Len(s) + Len(t)
      /\ \A i \in 1..Len(s) + Len(t) : (s \o t)[i] = IF i <= Len(s) THEN s[i] ELSE t[i - Len(s)]
  BY ConcatProperties
<1>4. /\ a \o Tail(t) \in Seq(S) /\ Len(a \o Tail(t)) = Len(s) + Len(t)
      /\ \A i \in 1..Len(s) + Len(t) : (a \o Tail(t))[i] = IF i <= Len(s) + 1 THEN a[i] ELSE Tail(t)[i - (Len(s) + 1)]
  <2>1. /\ a \o Tail(t) \in Seq(S) /\ Len(a \o Tail(t)) = Len(a) + Len(Tail(t))
        /\ \A i \in 1..Len(a) + Len(Tail(t)) : (a \o Tail(t))[i] = IF i <= Len(a) THEN a[i] ELSE Tail(t)[i - Len(a)]
    BY <1>1, <1>2, ConcatProperties
  <2>2. Len(a) + Len(Tail(t)) = Len(s) + Len(t)
    BY <1>1, <1>2
  <2>. QED
    BY <1>2, <2>1, <2>2
<1>5. ASSUME NEW i \in 1..Len(s) + Len(t)
      PROVE  (s \o t)[i] = (a \o Tail(t))[i]
  <2>1. CASE i <= Len(s)
    BY <1>2, <1>3, <1>4, <2>1
  <2>2. CASE i = Len(s) + 1
    BY <1>1, <1>2, <1>3, <1>4, <2>2
  <2>3. CASE i > Len(s) + 1
    <3>1. i - (Len(s) + 1) \in 1..Len(t) - 1 /\ (i - (Len(s) + 1)) + 1 = i - Len(s)
      BY <1>1, <1>2, <2>3
    <3>2. Tail(t)[i - (Len(s) + 1)] = t[i - Len(s)]
      BY <1>1, <3>1
    <3>. QED
      BY <1>2, <1>3, <1>4, <2>3, <3>2
  <2>. QED
    BY <1>2, <2>1, <2>2, <2>3
<1>6. s \o t = a \o Tail(t)
  BY <1>3, <1>4, <1>5, SeqEqual
<1>. QED
  BY <1>1, <1>2, <1>6 DEF a

\* s lists the recipients of the channels C that are to hear, each once.
Lists(s, C, severity, located) ==
  /\ s \in Seq(Outbound)
  /\ \A k, l \in 1..Len(s) : s[k] = s[l] => k = l
  /\ \A k \in 1..Len(s) : s[k].channel \in C
  /\ \A c \in C : \A n \in DOMAIN Recipient[c] :
       (\E k \in 1..Len(s) : s[k] = [channel |-> c, to |-> n]) <=> Wanted(c, severity, located)

LEMMA CallsAreListed ==
  ASSUME NEW severity, NEW located, NEW c \in Channels
  PROVE  Lists(CallsOf(c, severity, located), {c}, severity, located)
<1>1. Len(Recipient[c]) \in Nat /\ DOMAIN Recipient[c] = 1..Len(Recipient[c])
  BY AlertsAssumption
<1>2. CASE ~Wanted(c, severity, located)
  BY <1>2 DEF CallsOf, Lists
<1>3. CASE Wanted(c, severity, located)
  <2> DEFINE s == [i \in 1..Len(Recipient[c]) |-> [channel |-> c, to |-> i]]
  <2>1. CallsOf(c, severity, located) = s
    BY <1>1, <1>3 DEF CallsOf
  <2>2. s \in [1..Len(Recipient[c]) -> Outbound]
    BY <1>1 DEF Outbound
  <2>3. s \in Seq(Outbound) /\ Len(s) = Len(Recipient[c])
    BY <1>1, <2>2, SeqDef
  <2>4. \A k \in 1..Len(Recipient[c]) : s[k] = [channel |-> c, to |-> k]
    OBVIOUS
  <2>8. \A k \in 1..Len(Recipient[c]) : s[k].to = k /\ s[k].channel = c
    OBVIOUS
  <2> HIDE DEF s
  <2>5. \A k, l \in 1..Len(s) : s[k] = s[l] => k = l
    BY <2>3, <2>8
  <2>6. \A k \in 1..Len(s) : s[k].channel \in {c}
    BY <2>3, <2>8
  <2>7. \A n \in DOMAIN Recipient[c] : s[n] = [channel |-> c, to |-> n] /\ n \in 1..Len(s)
    BY <1>1, <2>3, <2>4
  <2>. QED
    BY <1>3, <2>1, <2>3, <2>5, <2>6, <2>7 DEF Lists
<1>. QED
  BY <1>2, <1>3

LEMMA ListsJoin ==
  ASSUME NEW severity, NEW located, NEW C, NEW D, C \cap D = {}, NEW s, NEW t,
         Lists(s, C, severity, located), Lists(t, D, severity, located)
  PROVE  Lists(s \o t, C \cup D, severity, located)
<1>1. s \in Seq(Outbound) /\ t \in Seq(Outbound) /\ Len(s) \in Nat /\ Len(t) \in Nat
  BY DEF Lists
<1>2. /\ s \o t \in Seq(Outbound) /\ Len(s \o t) = Len(s) + Len(t)
      /\ \A i \in 1..Len(s) + Len(t) : (s \o t)[i] = IF i <= Len(s) THEN s[i] ELSE t[i - Len(s)]
  BY <1>1, ConcatProperties
<1>3. \A i \in 1..Len(s) : (s \o t)[i] = s[i] /\ s[i].channel \in C
  BY <1>1, <1>2 DEF Lists
<1>4. \A i \in 1..Len(t) : (s \o t)[Len(s) + i] = t[i] /\ t[i].channel \in D
  BY <1>1, <1>2 DEF Lists
<1>5. \A i \in 1..Len(s \o t) : i \in 1..Len(s) \/ \E j \in 1..Len(t) : i = Len(s) + j
  <2>1. \A i \in 1..Len(s) + Len(t) : i \notin 1..Len(s) => i - Len(s) \in 1..Len(t) /\ i = Len(s) + (i - Len(s))
    BY <1>1
  <2>. QED
    BY <1>2, <2>1
<1> DEFINE u == s \o t
<1> HIDE DEF u
<1>u. /\ \A i \in 1..Len(s) : i \in 1..Len(u) /\ u[i] = s[i] /\ u[i].channel \in C
      /\ \A i \in 1..Len(t) : Len(s) + i \in 1..Len(u) /\ u[Len(s) + i] = t[i]
      /\ \A i \in 1..Len(u) : i \notin 1..Len(s) => u[i].channel \in D /\ \E j \in 1..Len(t) : u[i] = t[j]
      /\ \A i \in 1..Len(t) : t[i].channel \in D
  <2>1. \A i \in 1..Len(s) : i \in 1..Len(u) /\ u[i] = s[i] /\ u[i].channel \in C
    BY <1>1, <1>2, <1>3 DEF u
  <2>2. \A i \in 1..Len(t) : Len(s) + i \in 1..Len(u) /\ u[Len(s) + i] = t[i]
    BY <1>1, <1>2, <1>4 DEF u
  <2>3. ASSUME NEW i \in 1..Len(u), i \notin 1..Len(s)
        PROVE  u[i].channel \in D /\ \E j \in 1..Len(t) : u[i] = t[j]
    <3>1. PICK j \in 1..Len(t) : i = Len(s) + j
      BY <1>5, <2>3 DEF u
    <3>. QED
      BY <1>4, <2>2, <3>1
  <2>. QED
    BY <1>4, <2>1, <2>2, <2>3
<1>6. ASSUME NEW k \in 1..Len(u), NEW l \in 1..Len(u), u[k] = u[l]
      PROVE  k = l
  <2>1. CASE k \in 1..Len(s) /\ l \in 1..Len(s)
    BY <1>3, <1>6, <2>1 DEF Lists, u
  <2>2. CASE k \in 1..Len(s) /\ l \notin 1..Len(s)
    BY <1>u, <1>6, <2>2
  <2>3. CASE k \notin 1..Len(s) /\ l \in 1..Len(s)
    BY <1>u, <1>6, <2>3
  <2>4. CASE k \notin 1..Len(s) /\ l \notin 1..Len(s)
    <3>1. PICK i \in 1..Len(t), j \in 1..Len(t) : k = Len(s) + i /\ l = Len(s) + j
      BY <1>5, <2>4 DEF u
    <3>2. t[i] = t[j]
      BY <1>4, <1>6, <3>1 DEF u
    <3>. QED
      BY <3>1, <3>2 DEF Lists
  <2>. QED
    BY <2>1, <2>2, <2>3, <2>4
<1>7. \A k \in 1..Len(u) : u[k].channel \in C \cup D
  BY <1>3, <1>4, <1>5 DEF u
<1>8. ASSUME NEW c \in C \cup D, NEW n \in DOMAIN Recipient[c]
      PROVE  (\E k \in 1..Len(u) : u[k] = [channel |-> c, to |-> n]) <=> Wanted(c, severity, located)
  <2> DEFINE e == [channel |-> c, to |-> n]
  <2>1. e.channel = c
    OBVIOUS
  <2> HIDE DEF e
  <2>2. CASE c \in C
    <3>1. (\E k \in 1..Len(u) : u[k] = e) <=> (\E k \in 1..Len(s) : s[k] = e)
      <4>1. c \notin D
        BY <2>2
      <4>2. ASSUME NEW k \in 1..Len(u), u[k] = e PROVE \E j \in 1..Len(s) : s[j] = e
        <5>1. k \in 1..Len(s)
          BY <1>u, <2>1, <4>1, <4>2
        <5>. QED
          BY <1>u, <4>2, <5>1
      <4>3. ASSUME NEW k \in 1..Len(s), s[k] = e PROVE \E j \in 1..Len(u) : u[j] = e
        BY <1>u, <4>3
      <4>. QED
        BY <4>2, <4>3
    <3>. QED
      BY <2>2, <3>1 DEF Lists, e
  <2>3. CASE c \in D
    <3>1. (\E k \in 1..Len(u) : u[k] = e) <=> (\E k \in 1..Len(t) : t[k] = e)
      <4>1. c \notin C
        BY <2>3
      <4>2. ASSUME NEW k \in 1..Len(u), u[k] = e PROVE \E j \in 1..Len(t) : t[j] = e
        <5>1. k \notin 1..Len(s)
          BY <1>u, <2>1, <4>1, <4>2
        <5>. QED
          BY <1>u, <4>2, <5>1
      <4>3. ASSUME NEW k \in 1..Len(t), t[k] = e PROVE \E j \in 1..Len(u) : u[j] = e
        BY <1>u, <4>3
      <4>. QED
        BY <4>2, <4>3
    <3>. QED
      BY <2>3, <3>1 DEF Lists, e
  <2>. QED
    BY <2>2, <2>3
<1>. QED
  BY <1>2, <1>6, <1>7, <1>8 DEF Lists, u

LEMMA OutgoingIsListed ==
  ASSUME NEW severity, NEW located
  PROVE  Lists(Outgoing(severity, located), Channels, severity, located)
<1> DEFINE Calls(c) == CallsOf(c, severity, located)
           Listed(s, C) == Lists(s, C, severity, located)
<1>0. \A c \in Channels : Listed(Calls(c), {c})
  BY CallsAreListed
<1>00. \A C, D, s, t : C \cap D = {} /\ Listed(s, C) /\ Listed(t, D) => Listed(s \o t, C \cup D)
  BY ListsJoin
<1> HIDE DEF Calls, Listed
<1>a. Listed(Calls("webhook"), {"webhook"}) /\ Listed(Calls("slack"), {"slack"})
      /\ Listed(Calls("pagerduty"), {"pagerduty"}) /\ Listed(Calls("sms"), {"sms"})
      /\ Listed(Calls("mesh"), {"mesh"}) /\ Listed(Calls("mitigation"), {"mitigation"})
      /\ Listed(Calls("broker"), {"broker"}) /\ Listed(Calls("live"), {"live"})
  BY <1>0 DEF Channels
<1>1. Listed(Calls("webhook") \o Calls("slack"), {"webhook"} \cup {"slack"})
  BY <1>a, <1>00
<1>2. Listed(Calls("webhook") \o Calls("slack") \o Calls("pagerduty"), {"webhook"} \cup {"slack"} \cup {"pagerduty"})
  BY <1>a, <1>1, <1>00
<1>3. Listed(Calls("webhook") \o Calls("slack") \o Calls("pagerduty") \o Calls("sms"),
             {"webhook"} \cup {"slack"} \cup {"pagerduty"} \cup {"sms"})
  BY <1>a, <1>2, <1>00
<1>4. Listed(Calls("webhook") \o Calls("slack") \o Calls("pagerduty") \o Calls("sms") \o Calls("mesh"),
             {"webhook"} \cup {"slack"} \cup {"pagerduty"} \cup {"sms"} \cup {"mesh"})
  BY <1>a, <1>3, <1>00
<1>5. Listed(Calls("webhook") \o Calls("slack") \o Calls("pagerduty") \o Calls("sms") \o Calls("mesh")
               \o Calls("mitigation"),
             {"webhook"} \cup {"slack"} \cup {"pagerduty"} \cup {"sms"} \cup {"mesh"} \cup {"mitigation"})
  BY <1>a, <1>4, <1>00
<1>6. Listed(Calls("webhook") \o Calls("slack") \o Calls("pagerduty") \o Calls("sms") \o Calls("mesh")
               \o Calls("mitigation") \o Calls("broker"),
             {"webhook"} \cup {"slack"} \cup {"pagerduty"} \cup {"sms"} \cup {"mesh"} \cup {"mitigation"}
               \cup {"broker"})
  BY <1>a, <1>5, <1>00
<1>7. Listed(Calls("webhook") \o Calls("slack") \o Calls("pagerduty") \o Calls("sms") \o Calls("mesh")
               \o Calls("mitigation") \o Calls("broker") \o Calls("live"),
             {"webhook"} \cup {"slack"} \cup {"pagerduty"} \cup {"sms"} \cup {"mesh"} \cup {"mitigation"}
               \cup {"broker"} \cup {"live"})
  BY <1>a, <1>6, <1>00
<1>8. Channels = {"webhook"} \cup {"slack"} \cup {"pagerduty"} \cup {"sms"} \cup {"mesh"} \cup {"mitigation"}
                   \cup {"broker"} \cup {"live"}
  BY DEF Channels
<1>. QED
  BY <1>7, <1>8 DEF Outgoing, Calls, Listed

LEMMA SeveritiesStay ==
  /\ \A alarm, label : BaseSeverity(alarm, label) \in DOMAIN Rank
  /\ \A s \in DOMAIN Rank : Escalated(s) \in DOMAIN Rank
<1>1. DOMAIN Rank = {"low", "medium", "high", "critical"}
  BY DEF Rank
<1>2. \A alarm, label : BaseSeverity(alarm, label) \in {"low", "medium", "high"}
  BY DEF BaseSeverity
<1>3. /\ Severities[1] = "low" /\ Severities[2] = "medium"
      /\ Severities[3] = "high" /\ Severities[4] = "critical"
  BY DEF Severities
<1>4. ASSUME NEW s \in DOMAIN Rank
      PROVE  Rank[s] \in 1..4
  <2>1. \E n \in 1..4 : Severities[n] = s
    BY <1>1, <1>3
  <2>2. Rank[s] = CHOOSE n \in 1..4 : Severities[n] = s
    BY <1>1 DEF Rank
  <2>. QED
    BY <2>1, <2>2
<1>5. ASSUME NEW s \in DOMAIN Rank
      PROVE  Escalated(s) \in {"low", "medium", "high", "critical"}
  <2>1. Rank[s] \in 1..4
    BY <1>4
  <2>2. (IF Rank[s] < 4 THEN Rank[s] + 1 ELSE 4) \in {2, 3, 4}
    BY <2>1
  <2>. QED
    BY <1>3, <2>2 DEF Escalated
<1>. QED
  BY <1>1, <1>2, <1>5

LEMMA AlertsStart == AlertsInit => AlertsInv
<1>. SUFFICES ASSUME AlertsInit PROVE AlertsInv
  OBVIOUS
<1>1. /\ sender = [s \in Sender |-> Waiting] /\ open = {} /\ opened = <<>> /\ sent = <<>> /\ broken = {}
  BY DEF AlertsInit
<1>2. Waiting \in [incident : 0..0, left : Seq(Outbound)] /\ Waiting.incident = 0 /\ Waiting.left = <<>>
  BY DEF Waiting
<1>3. Len(opened) = 0 /\ Len(sent) = 0
  BY <1>1
<1>4. AlertsTypeOK
  BY <1>1, <1>2, <1>3 DEF AlertsTypeOK
<1>5. Accounted /\ OwnIncident
  BY <1>1, <1>2, <1>3 DEF Accounted, OwnIncident
<1>. QED
  BY <1>4, <1>5 DEF AlertsInv

LEMMA AlarmedKeeps ==
  ASSUME AlertsInv, NEW s \in Sender, Alarmed(s)
  PROVE  AlertsInv'
<1>1. AlertsTypeOK /\ Accounted /\ OwnIncident
  BY DEF AlertsInv
<1>2. CASE s \in open
  <2>1. UNCHANGED AlertsVars
    BY <1>2 DEF Alarmed, AlertsVars
  <2>. QED
    BY <1>1, <2>1 DEF AlertsInv, AlertsVars, AlertsTypeOK, Accounted, OwnIncident, DueFor
<1>3. CASE s \notin open
  <2>1. PICK severity \in DOMAIN Rank, located \in BOOLEAN :
          /\ opened' = Append(opened, [severity |-> severity, located |-> located])
          /\ sender' = [sender EXCEPT ![s] =
               [incident |-> Len(opened) + 1, left |-> Outgoing(severity, located)]]
    BY <1>3, SeveritiesStay DEF Alarmed
  <2>2. sender[s] = Waiting /\ open' = open \cup {s} /\ sent' = Append(sent, <<>>) /\ broken' = broken
    BY <1>3 DEF Alarmed
  <2> DEFINE new == Len(opened) + 1
  <2>3. /\ opened' \in Seq([severity : DOMAIN Rank, located : BOOLEAN])
        /\ Len(opened) \in Nat /\ Len(opened') = new
        /\ opened'[new].severity = severity /\ opened'[new].located = located
        /\ \A i \in 1..Len(opened) : opened'[i] = opened[i]
    <3>1. [severity |-> severity, located |-> located] \in [severity : DOMAIN Rank, located : BOOLEAN]
      OBVIOUS
    <3>2. opened \in Seq([severity : DOMAIN Rank, located : BOOLEAN])
      BY <1>1 DEF AlertsTypeOK
    <3>3. /\ opened' \in Seq([severity : DOMAIN Rank, located : BOOLEAN])
          /\ Len(opened) \in Nat /\ Len(opened') = new
          /\ opened'[new] = [severity |-> severity, located |-> located]
          /\ \A i \in 1..Len(opened) : opened'[i] = opened[i]
      BY <2>1, <3>1, <3>2, Sequenced
    <3>. QED
      BY <3>3
  <2>4. /\ sent' \in Seq(Seq(Outbound)) /\ Len(sent') = new /\ sent'[new] = <<>>
        /\ \A i \in 1..Len(opened) : sent'[i] = sent[i]
    BY <1>1, <2>2, Sequenced DEF AlertsTypeOK
  <2>5. Outgoing(severity, located) \in Seq(Outbound)
    BY OutgoingIsListed DEF Lists
  <2>6. /\ sender'[s] = [incident |-> new, left |-> Outgoing(severity, located)]
        /\ sender[s].incident = 0
        /\ \A r \in Sender \ {s} : sender'[r] = sender[r]
    BY <1>1, <2>1, <2>2 DEF AlertsTypeOK, Waiting
  <2>7. AlertsTypeOK'
    <3>1. sender' \in [Sender -> [incident : 0..Len(opened'), left : Seq(Outbound)]]
      <4>1. sender \in [Sender -> [incident : 0..Len(opened'), left : Seq(Outbound)]]
        BY <1>1, <2>3 DEF AlertsTypeOK
      <4>2. [incident |-> new, left |-> Outgoing(severity, located)] \in [incident : 0..Len(opened'), left : Seq(Outbound)]
        BY <2>3, <2>5
      <4>. QED
        BY <2>1, <4>1, <4>2
    <3>2. broken' \subseteq DOMAIN opened' /\ open' \subseteq Sender
      BY <1>1, <2>2, <2>3 DEF AlertsTypeOK
    <3>. QED
      BY <2>3, <2>4, <3>1, <3>2 DEF AlertsTypeOK
  <2>8. OwnIncident'
    <3>1. \A r \in Sender : sender[r].incident \in 0..Len(opened)
      BY <1>1 DEF AlertsTypeOK
    <3>. QED
      BY <1>1, <2>3, <2>6, <3>1 DEF OwnIncident
  <2>9. Accounted'
    <3> SUFFICES ASSUME NEW i \in 1..new
                 PROVE  /\ \E rest \in Seq(Outbound) : DueFor(i)' = sent'[i] \o rest
                        /\ \A r \in Sender : sender'[r].incident = i => DueFor(i)' = sent'[i] \o sender'[r].left
                        /\ i \in broken \/ (\E r \in Sender : sender'[r].incident = i) \/ sent'[i] = DueFor(i)'
      BY <2>2, <2>3 DEF Accounted
    <3>1. CASE i = new
      <4>1. DueFor(i)' = Outgoing(severity, located)
        BY <2>3, <3>1 DEF DueFor
      <4>2. DueFor(i)' = sent'[i] \o Outgoing(severity, located)
        BY <2>4, <2>5, <3>1, <4>1, ConcatEmptySeq
      <4>3. \A r \in Sender : sender'[r].incident = i => r = s
        BY <1>1, <2>3, <2>6, <3>1 DEF AlertsTypeOK
      <4>4. sender'[s].incident = i /\ sender'[s].left = Outgoing(severity, located)
        BY <2>6, <3>1
      <4>. QED
        BY <2>5, <4>2, <4>3, <4>4
    <3>2. CASE i \in 1..Len(opened)
      <4>1. DueFor(i)' = DueFor(i) /\ sent'[i] = sent[i]
        BY <2>3, <2>4, <3>2 DEF DueFor
      <4>2. i # 0 /\ i # new
        BY <2>3, <3>2
      <4>3. \A r \in Sender : sender'[r].incident = i <=> sender[r].incident = i
        BY <2>6, <4>2
      <4>4. \A r \in Sender : sender'[r].incident = i => sender'[r].left = sender[r].left
        BY <2>6, <4>2
      <4>. QED
        BY <1>1, <3>2, <4>1, <4>3, <4>4 DEF Accounted
    <3>3. i = new \/ i \in 1..Len(opened)
      BY <2>3
    <3>. QED
      BY <3>1, <3>2, <3>3
  <2>. QED
    BY <2>7, <2>8, <2>9 DEF AlertsInv
<1>. QED
  BY <1>2, <1>3

LEMMA SenderAtWork ==
  ASSUME AlertsInv, NEW s \in Sender, Sending(s)
  PROVE  /\ sender[s].incident \in 1..Len(opened) /\ Len(opened) \in Nat /\ Len(sent) = Len(opened)
         /\ sender[s] = [incident |-> sender[s].incident, left |-> sender[s].left]
         /\ sender[s].left \in Seq(Outbound) /\ sender[s].left # <<>>
         /\ sent[sender[s].incident] \in Seq(Outbound)
         /\ DueFor(sender[s].incident) = sent[sender[s].incident] \o sender[s].left
         /\ \A r \in Sender \ {s} : sender[r].incident # sender[s].incident
<1>1. AlertsTypeOK /\ Accounted /\ OwnIncident /\ sender[s].left # <<>>
  BY DEF AlertsInv, Sending
<1>2. /\ sender[s] \in [incident : 0..Len(opened), left : Seq(Outbound)]
      /\ Len(opened) \in Nat /\ Len(sent) = Len(opened)
  BY <1>1 DEF AlertsTypeOK
<1>3. sender[s].incident # 0
  BY <1>1 DEF OwnIncident
<1>4. sender[s].incident \in 1..Len(opened)
  BY <1>2, <1>3
<1>5. sent[sender[s].incident] \in Seq(Outbound)
  BY <1>1, <1>2, <1>4, ElementOfSeq DEF AlertsTypeOK
<1>6. DueFor(sender[s].incident) = sent[sender[s].incident] \o sender[s].left
  BY <1>1, <1>4 DEF Accounted
<1>7. \A r \in Sender \ {s} : sender[r].incident # sender[s].incident
  BY <1>1, <1>3 DEF OwnIncident
<1>. QED
  BY <1>1, <1>2, <1>4, <1>5, <1>6, <1>7

\* A thread that hands a message over, or ends, touches its own incident only.
LEMMA SenderMovesOn ==
  ASSUME AlertsInv, NEW s \in Sender, Sending(s), NEW rest \in Seq(Outbound), Left(s, rest),
         UNCHANGED <<open, opened>>, NEW told \in Seq(Outbound),
         sent' = [sent EXCEPT ![sender[s].incident] = told],
         \E more \in Seq(Outbound) : DueFor(sender[s].incident) = told \o more,
         \/ broken' = broken /\ DueFor(sender[s].incident) = told \o rest
         \/ broken' = broken \cup {sender[s].incident} /\ rest = <<>>
  PROVE  AlertsInv'
<1> DEFINE mine == sender[s].incident
<1>1. AlertsTypeOK /\ Accounted /\ OwnIncident
  BY DEF AlertsInv
<1>2. /\ mine \in 1..Len(opened) /\ Len(opened) \in Nat /\ Len(sent) = Len(opened)
      /\ \A r \in Sender \ {s} : sender[r].incident # mine
  BY SenderAtWork
<1>3. /\ sender' = [sender EXCEPT ![s] = IF rest = <<>> THEN Waiting ELSE [incident |-> mine, left |-> rest]]
  <2>1. sender[s] = [incident |-> mine, left |-> sender[s].left]
    BY SenderAtWork
  <2>2. [sender[s] EXCEPT !.left = rest] = [incident |-> mine, left |-> rest]
    BY <2>1
  <2>. QED
    BY <2>2 DEF Left
<1>4. /\ rest = <<>> => sender'[s].incident = 0 /\ sender'[s].left = <<>>
      /\ rest # <<>> => sender'[s].incident = mine /\ sender'[s].left = rest
      /\ \A r \in Sender \ {s} : sender'[r] = sender[r]
      /\ sender' \in [Sender -> [incident : 0..Len(opened), left : Seq(Outbound)]]
  BY <1>1, <1>2, <1>3 DEF AlertsTypeOK, Waiting
<1>9. /\ mine # 0 /\ sender'[s].incident \in {0, mine}
      /\ \A r \in Sender : r # s => sender'[r] = sender[r] /\ sender[r].incident # mine
  BY <1>2, <1>4
<1>5. /\ sent' \in Seq(Seq(Outbound)) /\ Len(sent') = Len(opened)
      /\ sent'[mine] = told
      /\ \A i \in 1..Len(opened) : i # mine => sent'[i] = sent[i]
  BY <1>1, <1>2, ExceptSeq DEF AlertsTypeOK
<1>6. AlertsTypeOK'
  <2>1. broken' \subseteq DOMAIN opened
    BY <1>1, <1>2 DEF AlertsTypeOK
  <2>. QED
    BY <1>1, <1>4, <1>5, <2>1 DEF AlertsTypeOK
<1>7. OwnIncident'
  <2>1. ASSUME NEW r \in Sender, sender'[r].incident = 0
        PROVE  sender'[r].left = <<>>
    <3>1. CASE r = s
      BY <1>4, <1>9, <2>1, <3>1
    <3>2. CASE r # s
      BY <1>1, <1>9, <2>1, <3>2 DEF OwnIncident
    <3>. QED
      BY <3>1, <3>2
  <2>2. ASSUME NEW r \in Sender, NEW q \in Sender, r # q,
               sender'[r].incident = sender'[q].incident, sender'[r].incident # 0
        PROVE  FALSE
    <3>1. CASE r = s
      BY <1>9, <2>2, <3>1
    <3>2. CASE q = s
      BY <1>9, <2>2, <3>2
    <3>3. CASE r # s /\ q # s
      BY <1>1, <1>9, <2>2, <3>3 DEF OwnIncident
    <3>. QED
      BY <3>1, <3>2, <3>3
  <2>. QED
    BY <2>1, <2>2 DEF OwnIncident
<1>8. Accounted'
  <2> SUFFICES ASSUME NEW i \in 1..Len(opened)
               PROVE  /\ \E more \in Seq(Outbound) : DueFor(i) = sent'[i] \o more
                      /\ \A r \in Sender : sender'[r].incident = i => DueFor(i) = sent'[i] \o sender'[r].left
                      /\ i \in broken' \/ (\E r \in Sender : sender'[r].incident = i) \/ sent'[i] = DueFor(i)
    BY DEF Accounted, DueFor
  <2>1. CASE i # mine
    <3>1. sent'[i] = sent[i] /\ (i \in broken => i \in broken')
      BY <1>5, <2>1
    <3>2. ASSUME NEW r \in Sender
          PROVE  /\ sender'[r].incident = i => sender[r].incident = i /\ sender'[r].left = sender[r].left
                 /\ sender[r].incident = i => sender'[r].incident = i
      <4>1. CASE r = s
        <5>1. i # 0 /\ sender[s].incident # i
          BY <2>1
        <5>. QED
          BY <1>9, <2>1, <4>1, <5>1
      <4>2. CASE r # s
        BY <1>9, <4>2
      <4>. QED
        BY <4>1, <4>2
    <3>. QED
      BY <1>1, <3>1, <3>2 DEF Accounted
  <2>2. CASE i = mine
    <3>1. \A r \in Sender : sender'[r].incident = i => r = s /\ rest # <<>>
      BY <1>4, <1>9, <2>2
    <3>2. CASE rest = <<>>
      <4>1. told \o <<>> = told
        BY ConcatEmptySeq
      <4>. QED
        BY <1>5, <2>2, <3>1, <3>2, <4>1
    <3>3. CASE rest # <<>>
      BY <1>4, <1>5, <2>2, <3>1, <3>3
    <3>. QED
      BY <3>2, <3>3
  <2>. QED
    BY <2>1, <2>2
<1>. QED
  BY <1>6, <1>7, <1>8 DEF AlertsInv

LEMMA AlertsStepKeeps == AlertsInv /\ [AlertsNext]_AlertsVars => AlertsInv'
<1>. SUFFICES ASSUME AlertsInv, [AlertsNext]_AlertsVars PROVE AlertsInv'
  OBVIOUS
<1>1. CASE UNCHANGED AlertsVars
  BY <1>1 DEF AlertsInv, AlertsVars, AlertsTypeOK, Accounted, OwnIncident, DueFor
<1>2. ASSUME NEW s \in Sender, Answered(s) \/ Refused(s)
      PROVE  AlertsInv'
  <2> DEFINE told == Append(sent[sender[s].incident], Head(sender[s].left))
             rest == Tail(sender[s].left)
  <2>1. Sending(s) /\ Left(s, rest) /\ UNCHANGED <<open, opened, broken>>
    BY <1>2 DEF Answered, Refused, AfterError
  <2>2. sent' = [sent EXCEPT ![sender[s].incident] = told]
    BY <1>2 DEF Answered, Refused, Give
  <2>3. /\ told \in Seq(Outbound) /\ rest \in Seq(Outbound)
        /\ DueFor(sender[s].incident) = told \o rest
    <3>1. /\ sent[sender[s].incident] \in Seq(Outbound) /\ sender[s].left \in Seq(Outbound)
          /\ sender[s].left # <<>>
          /\ DueFor(sender[s].incident) = sent[sender[s].incident] \o sender[s].left
      BY <2>1, SenderAtWork
    <3>. QED
      BY <3>1, HandedOver
  <2> HIDE DEF told, rest
  <2>. QED
    BY <2>1, <2>2, <2>3, SenderMovesOn
<1>3. ASSUME NEW s \in Sender, Ended(s)
      PROVE  AlertsInv'
  <2> DEFINE mine == sender[s].incident
  <2>1. /\ Sending(s) /\ Left(s, <<>>) /\ broken' = broken \cup {mine}
        /\ UNCHANGED <<open, opened>> /\ sent' = sent
    BY <1>3 DEF Ended
  <2>2. /\ sent[mine] \in Seq(Outbound) /\ sender[s].left \in Seq(Outbound)
        /\ DueFor(mine) = sent[mine] \o sender[s].left
    BY <2>1, SenderAtWork
  <2>3. sent' = [sent EXCEPT ![mine] = sent[mine]]
    BY <2>1 DEF AlertsInv, AlertsTypeOK
  <2>4. <<>> \in Seq(Outbound)
    OBVIOUS
  <2>. QED
    BY <2>1, <2>2, <2>3, <2>4, SenderMovesOn
<1>4. ASSUME NEW s \in Sender, Resolved(s)
      PROVE  AlertsInv'
  BY <1>4 DEF Resolved, AlertsInv, AlertsTypeOK, Accounted, OwnIncident, DueFor
<1>. QED
  BY <1>1, <1>2, <1>3, <1>4, AlarmedKeeps DEF AlertsNext

\* How often a message occurs in a sequence that has none twice.
LEMMA OccursOnce ==
  ASSUME NEW s \in Seq(Outbound), NEW m, \A k, l \in 1..Len(s) : s[k] = s[l] => k = l
  PROVE  /\ Cardinality({k \in DOMAIN s : s[k] = m}) <= 1
         /\ Cardinality({k \in DOMAIN s : s[k] = m}) = IF \E k \in 1..Len(s) : s[k] = m THEN 1 ELSE 0
<1> DEFINE at == {k \in DOMAIN s : s[k] = m}
<1>0. DOMAIN s = 1..Len(s)
  BY LenProperties
<1>1. CASE \E k \in 1..Len(s) : s[k] = m
  <2>1. PICK k \in 1..Len(s) : s[k] = m
    BY <1>1
  <2>2. at = {k}
    BY <1>0, <2>1
  <2>3. Cardinality(at) = 1
    BY <2>2, FS_Singleton
  <2>. QED
    BY <1>1, <2>3
<1>2. CASE ~ \E k \in 1..Len(s) : s[k] = m
  <2>1. at = {}
    BY <1>0, <1>2
  <2>2. Cardinality(at) = 0
    BY <2>1, FS_EmptySet
  <2>. QED
    BY <1>2, <2>2
<1>. QED
  BY <1>1, <1>2

LEMMA AccountedMeansOnce == AlertsInv => EveryChannelHearsOnce
<1> SUFFICES ASSUME AlertsInv, NEW i \in 1..Len(opened), NEW c \in Channels, NEW n \in DOMAIN Recipient[c]
             PROVE  LET times == Cardinality({k \in DOMAIN sent[i] : sent[i][k] = [channel |-> c, to |-> n]})
                        owed == Wanted(c, opened[i].severity, opened[i].located) IN
                    IF i \in broken \/ \E s \in Sender : sender[s].incident = i
                      THEN times <= 1
                      ELSE times = IF owed THEN 1 ELSE 0
  <2>1. AlertsInv => DOMAIN opened = 1..Len(opened)
    BY DEF AlertsInv, AlertsTypeOK
  <2>. QED
    BY <2>1 DEF EveryChannelHearsOnce
<1> DEFINE m == [channel |-> c, to |-> n]
           times == Cardinality({k \in DOMAIN sent[i] : sent[i][k] = m})
<1>1. AlertsTypeOK /\ Accounted
  BY DEF AlertsInv
<1>2. sent[i] \in Seq(Outbound)
  <2>1. i \in 1..Len(sent) /\ sent \in Seq(Seq(Outbound))
    BY <1>1 DEF AlertsTypeOK
  <2>. QED
    BY <2>1, ElementOfSeq
<1>3. Lists(DueFor(i), Channels, opened[i].severity, opened[i].located)
  BY OutgoingIsListed DEF DueFor
<1>4. PICK rest \in Seq(Outbound) : DueFor(i) = sent[i] \o rest
  BY <1>1 DEF Accounted
<1>5. \A k, l \in 1..Len(sent[i]) : sent[i][k] = sent[i][l] => k = l
  <2>1. /\ Len(DueFor(i)) = Len(sent[i]) + Len(rest) /\ Len(sent[i]) \in Nat /\ Len(rest) \in Nat
        /\ \A k \in 1..Len(sent[i]) : DueFor(i)[k] = sent[i][k]
    BY <1>2, <1>4, ConcatProperties
  <2>2. \A k \in 1..Len(sent[i]) : k \in 1..Len(DueFor(i))
    BY <2>1
  <2>. QED
    BY <1>3, <2>1, <2>2 DEF Lists
<1>6. times <= 1 /\ times = IF \E k \in 1..Len(sent[i]) : sent[i][k] = m THEN 1 ELSE 0
  BY <1>2, <1>5, OccursOnce
<1>7. sent[i] = DueFor(i) =>
        ((\E k \in 1..Len(sent[i]) : sent[i][k] = m) <=> Wanted(c, opened[i].severity, opened[i].located))
  BY <1>3 DEF Lists
<1>8. i \in broken \/ (\E s \in Sender : sender[s].incident = i) \/ sent[i] = DueFor(i)
  BY <1>1 DEF Accounted
<1>. QED
  BY <1>6, <1>7, <1>8

\* Whichever peers refuse, answer or hang, and however many threads open
\* incidents at once, every recipient of every channel is told once of each
\* incident it should hear of, and never twice (_open_incident and the notify_
\* functions it calls).
THEOREM ChannelsHearOnce == AlertsInit /\ [][AlertsNext]_AlertsVars => []EveryChannelHearsOnce
<1>. QED
  BY AlertsStart, AlertsStepKeeps, AccountedMeansOnce, PTL

-----------------------------------------------------------------------------
(* Bridges: a post on its way is due, and the stamps keep to the past.      *)

AtWork == phase \in {"lookup", "reports", "post", "backoff"}

StampsArePast ==
  /\ uptime \in Nat /\ lastPost \in [Device -> Nat] /\ acked \in [Device -> Int]
  /\ reading = [now |-> reading.now, left |-> reading.left] /\ reading.now \in Nat
  /\ \A d \in Device : acked[d] <= lastPost[d] /\ lastPost[d] <= uptime
  /\ AtWork => reading.now <= uptime /\ \A d \in Device : lastPost[d] <= reading.now

\* Nothing is posted between the look at the interval and the post.
PostIsDue ==
  phase \in {"post", "backoff"} /\ kind \in Spaced => Due(Head(reading.left), reading.now)

\* The boxes of a frame are of one camera, that was due when it was read.
FrameIsDue ==
  kind = "yolo" /\ AtWork =>
    /\ reading.left \in Seq(Device) /\ reading.left # <<>>
    /\ \A i \in 1..Len(reading.left) : LET d == reading.left[i] IN
         /\ d = Head(reading.left)
         /\ acked[d] = reading.now \/ reading.now - acked[d] >= MinInterval

BridgeInv == StampsArePast /\ PostIsDue /\ FrameIsDue

LEMMA BridgeNumbers ==
  /\ MinInterval \in Nat /\ RefreshInterval \in Nat /\ Never \in Int /\ Never <= -MinInterval
  BY BridgeAssumption DEF Never

LEMMA BridgeStarts == BridgeInit => BridgeInv
  BY BridgeNumbers DEF BridgeInit, BridgeInv, StampsArePast, PostIsDue, FrameIsDue, Idling, AtWork

\* A reading is of now, later than all stamps.
LEMMA ReadKeeps ==
  ASSUME BridgeInv, NEW k, NEW devices, Read(k, devices), k # "yolo"
  PROVE  BridgeInv'
<1>1. UNCHANGED <<kind, uptime, lastPost, acked>> /\ kind # "yolo" /\ phase = "read"
  BY DEF Read
<1>2. \/ UNCHANGED <<reading, phase>>
      \/ phase' = "reports" /\ reading' = [now |-> uptime, left |-> devices]
  BY DEF Read
<1>3. StampsArePast'
  BY <1>1, <1>2 DEF BridgeInv, StampsArePast, AtWork
<1>4. PostIsDue' /\ FrameIsDue'
  BY <1>1, <1>2 DEF PostIsDue, FrameIsDue, AtWork
<1>. QED
  BY <1>3, <1>4 DEF BridgeInv

LEMMA YoloFrameKeeps ==
  ASSUME BridgeInv, YoloFrame
  PROVE  BridgeInv'
<1>1. PICK d \in Device, n \in 0..MaxReports : \E boxes \in [1..n -> SUBSET Said] :
        Read("yolo", IF Due(d, uptime)
                       THEN [i \in 1..Cardinality({j \in 1..n : YoloPayload(boxes[j])}) |-> d] ELSE <<>>)
  BY DEF YoloFrame
<1>10. PICK boxes \in [1..n -> SUBSET Said] :
        Read("yolo", IF Due(d, uptime)
                       THEN [i \in 1..Cardinality({j \in 1..n : YoloPayload(boxes[j])}) |-> d] ELSE <<>>)
  BY <1>1
<1> DEFINE count == Cardinality({j \in 1..n : YoloPayload(boxes[j])})
           devices == [i \in 1..count |-> d]
<1>2. count \in Nat
  <2>1. IsFiniteSet(1..n)
    BY FS_Interval, BridgeAssumption
  <2>2. IsFiniteSet({j \in 1..n : YoloPayload(boxes[j])})
    BY <2>1, FS_Subset
  <2>. QED
    BY <2>2, FS_CardinalityType
<1> HIDE DEF count
<1>3. /\ devices \in Seq(Device) /\ Len(devices) = count
      /\ \A i \in 1..count : devices[i] = d
  <2>1. devices \in [1..count -> Device]
    OBVIOUS
  <2>. QED
    BY <1>2, <2>1, SeqDef
<1>4. UNCHANGED <<kind, uptime, lastPost, acked>> /\ kind = "yolo" /\ phase = "read"
  BY <1>10 DEF Read
<1>5. \/ UNCHANGED <<reading, phase>>
      \/ /\ Due(d, uptime) /\ devices # <<>>
         /\ phase' = "reports" /\ reading' = [now |-> uptime, left |-> devices]
  BY <1>10 DEF Read, count
<1> HIDE DEF devices
<1>6. StampsArePast'
  BY <1>4, <1>5 DEF BridgeInv, StampsArePast, AtWork
<1>7. PostIsDue'
  BY <1>4, <1>5 DEF PostIsDue
<1>8. CASE UNCHANGED <<reading, phase>>
  <2>1. FrameIsDue'
    BY <1>4, <1>8 DEF FrameIsDue, AtWork
  <2>. QED
    BY <1>6, <1>7, <2>1 DEF BridgeInv
<1>9. CASE /\ Due(d, uptime) /\ devices # <<>>
           /\ phase' = "reports" /\ reading' = [now |-> uptime, left |-> devices]
  <2>1. uptime - acked[d] >= MinInterval
    BY <1>9, BridgeNumbers DEF BridgeInv, StampsArePast, Due
  <2>2. Head(devices) = d
    BY <1>3, <1>9, Sequenced
  <2>3. FrameIsDue'
    BY <1>3, <1>4, <1>9, <2>1, <2>2 DEF FrameIsDue
  <2>. QED
    BY <1>6, <1>7, <2>3 DEF BridgeInv
<1>. QED
  BY <1>5, <1>8, <1>9

\* The next report of a reading is of the same moment, and of the same frame.
LEMMA NextReportKeeps ==
  ASSUME BridgeInv, NextReport, AtWork, UNCHANGED <<kind, uptime>>,
         \/ UNCHANGED <<lastPost, acked>>
         \/ lastPost' = Stamped /\ (acked' = acked \/ acked' = [acked EXCEPT ![Head(reading.left)] = reading.now])
  PROVE  BridgeInv'
<1> DEFINE h == Head(reading.left)
<1>1. StampsArePast /\ FrameIsDue
  BY DEF BridgeInv
<1>2. /\ reading' = IF Len(reading.left) = 1 THEN Idling ELSE [now |-> reading.now, left |-> Tail(reading.left)]
      /\ phase' = IF Len(reading.left) = 1 THEN "read" ELSE "reports"
  <2>1. reading = [now |-> reading.now, left |-> reading.left]
    BY <1>1 DEF StampsArePast
  <2>2. ASSUME NEW rest
        PROVE  [reading EXCEPT !.left = rest] = [now |-> reading.now, left |-> rest]
    BY <2>1
  <2>3. [reading EXCEPT !.left = Tail(reading.left)] = [now |-> reading.now, left |-> Tail(reading.left)]
    BY <2>2
  <2>. QED
    BY <2>3 DEF NextReport
<1>3. /\ lastPost' \in [Device -> Nat] /\ acked' \in [Device -> Int]
      /\ \A d \in Device : lastPost'[d] = lastPost[d] \/ (d = h /\ lastPost'[d] = reading.now)
      /\ \A d \in Device : acked'[d] = acked[d] \/ (d = h /\ acked'[d] = reading.now /\ lastPost'[d] = reading.now)
  BY <1>1 DEF StampsArePast, Stamped
<1>4. StampsArePast'
  <2>1. /\ uptime' \in Nat /\ lastPost' \in [Device -> Nat] /\ acked' \in [Device -> Int]
        /\ uptime' = uptime /\ reading.now \in Nat /\ reading.now <= uptime
    BY <1>1, <1>3 DEF StampsArePast
  <2>2. \A d \in Device : /\ acked'[d] <= lastPost'[d] /\ lastPost'[d] <= uptime
                          /\ lastPost'[d] <= reading.now
    BY <1>1, <1>3, <2>1 DEF StampsArePast
  <2>3. /\ reading' = [now |-> reading'.now, left |-> reading'.left] /\ reading'.now \in Nat
        /\ AtWork' => reading'.now = reading.now
    BY <1>2, <2>1 DEF Idling, AtWork
  <2>. QED
    BY <2>1, <2>2, <2>3 DEF StampsArePast
<1>5. PostIsDue'
  BY <1>2 DEF PostIsDue
<1>6. FrameIsDue'
  <2> SUFFICES ASSUME kind = "yolo", Len(reading.left) # 1
               PROVE  /\ Tail(reading.left) \in Seq(Device) /\ Tail(reading.left) # <<>>
                      /\ \A i \in 1..Len(Tail(reading.left)) : LET d == Tail(reading.left)[i] IN
                           /\ d = Head(Tail(reading.left))
                           /\ acked'[d] = reading.now \/ reading.now - acked'[d] >= MinInterval
    BY <1>2 DEF FrameIsDue, AtWork
  <2>1. /\ reading.left \in Seq(Device) /\ reading.left # <<>>
        /\ \A i \in 1..Len(reading.left) : LET d == reading.left[i] IN
             /\ d = h /\ d \in Device
             /\ acked[d] = reading.now \/ reading.now - acked[d] >= MinInterval
    BY <1>1, ElementOfSeq DEF FrameIsDue
  <2>2. /\ Len(reading.left) \in Nat \ {0} /\ Tail(reading.left) \in Seq(Device)
        /\ Len(Tail(reading.left)) = Len(reading.left) - 1
        /\ \A i \in 1..Len(reading.left) - 1 : Tail(reading.left)[i] = reading.left[i + 1]
    BY <2>1, Sequenced
  <2>3. Len(Tail(reading.left)) # 0 /\ Tail(reading.left) # <<>>
    <3>1. Len(Tail(reading.left)) # 0
      BY <2>2
    <3>2. Len(<<>>) = 0
      OBVIOUS
    <3>. QED
      BY <3>1, <3>2
  <2>4. \A i \in 1..Len(Tail(reading.left)) : Tail(reading.left)[i] = h /\ h \in Device
    BY <2>1, <2>2
  <2>5. Head(Tail(reading.left)) = h /\ h \in Device
    BY <2>2, <2>3, <2>4, Sequenced
  <2>6. acked'[h] = reading.now \/ reading.now - acked'[h] >= MinInterval
    BY <1>3, <2>1, <2>2, <2>5
  <2>. QED
    BY <2>2, <2>3, <2>4, <2>5, <2>6
<1>. QED
  BY <1>4, <1>5, <1>6 DEF BridgeInv

LEMMA PostingKeeps ==
  ASSUME BridgeInv, Consider \/ Accepted \/ Failed \/ AnswerLate \/ Wake
  PROVE  BridgeInv'
<1>1. ASSUME NextReport, AtWork, Consider \/ Accepted \/ Failed
      PROVE  BridgeInv'
  BY <1>1, NextReportKeeps DEF Consider, Accepted, Failed
<1>2. ASSUME Consider, phase' = "post", UNCHANGED reading,
             kind \notin Spaced \/ Due(Head(reading.left), reading.now)
      PROVE  BridgeInv'
  BY <1>2 DEF Consider, BridgeInv, StampsArePast, PostIsDue, FrameIsDue, AtWork, Due
<1>3. ASSUME Failed, phase' = "backoff", UNCHANGED <<reading, lastPost>>
      PROVE  BridgeInv'
  BY <1>3 DEF Failed, BridgeInv, StampsArePast, PostIsDue, FrameIsDue, AtWork, Due
<1>4. ASSUME Wake
      PROVE  BridgeInv'
  BY <1>4 DEF Wake, BridgeInv, StampsArePast, PostIsDue, FrameIsDue, AtWork, Due
<1>5. ASSUME AnswerLate
      PROVE  BridgeInv'
  BY <1>5 DEF AnswerLate, BridgeInv, StampsArePast, PostIsDue, FrameIsDue, AtWork, Idling
<1>. QED
  BY <1>1, <1>2, <1>3, <1>4, <1>5 DEF Consider, Accepted, Failed, AtWork

LEMMA BridgeStepKeeps == BridgeInv /\ [BridgeNext]_BridgeVars => BridgeInv'
<1>. SUFFICES ASSUME BridgeInv, [BridgeNext]_BridgeVars PROVE BridgeInv'
  OBVIOUS
<1>1. CASE UNCHANGED BridgeVars \/ Refresh \/ InputEnds
  BY <1>1 DEF BridgeVars, Refresh, InputEnds, BridgeInv, StampsArePast, PostIsDue, FrameIsDue, AtWork, Due
<1>2. CASE BridgeTick
  <2>1. uptime \in Nat /\ uptime' = uptime + 1 /\ UNCHANGED <<kind, phase, lastPost, reading, acked>>
    BY <1>2 DEF BridgeTick, BridgeInv, StampsArePast
  <2>2. StampsArePast'
    BY <2>1 DEF BridgeInv, StampsArePast, AtWork
  <2>. QED
    BY <2>1, <2>2 DEF BridgeInv, PostIsDue, FrameIsDue, AtWork, Due
<1>3. CASE HeardAdvertisement \/ HeardBeacon
  BY <1>3, ReadKeeps DEF HeardAdvertisement, HeardBeacon, Gather
<1>4. CASE Swept \/ Recorded \/ Datagram \/ PositionMessage \/ PacketLine \/ MotionFrame
  BY <1>4, ReadKeeps DEF Swept, Recorded, Datagram, PositionMessage, PacketLine, MotionFrame
<1>5. CASE SbsLine
  <2>1. PICK usable : \/ Read("dump1090", usable)
                      \/ /\ kind = "dump1090" /\ reading' = [now |-> uptime, left |-> usable] /\ phase' = "lookup"
                         /\ UNCHANGED <<kind, uptime, lastPost, acked>>
    BY <1>5 DEF SbsLine
  <2>2. CASE Read("dump1090", usable)
    BY <2>2, ReadKeeps
  <2>3. CASE /\ kind = "dump1090" /\ reading' = [now |-> uptime, left |-> usable] /\ phase' = "lookup"
             /\ UNCHANGED <<kind, uptime, lastPost, acked>>
    BY <2>3 DEF BridgeInv, StampsArePast, PostIsDue, FrameIsDue, AtWork, Spaced
  <2>. QED
    BY <2>1, <2>2, <2>3
<1>. QED
  BY <1>1, <1>2, <1>3, <1>4, <1>5, PostingKeeps, YoloFrameKeeps DEF BridgeNext, Answer

\* A bridge that spaces its posts has no reading of a device acknowledged sooner
\* than --min-interval after the one before, whatever failed or was retried in
\* between (post_detection, the loops of the adapters).
THEOREM PostsAreSpaced == BridgeInit /\ [][BridgeNext]_BridgeVars => AckedPostsAreSpaced
<1>1. ASSUME BridgeInv, [BridgeNext]_BridgeVars
      PROVE  [\A d \in Device :
                kind \in Spaced \cup Cameras /\ acked'[d] # acked[d] => acked'[d] - acked[d] >= MinInterval]_BridgeVars
  <2>1. acked' = acked \/ Accepted
    BY <1>1 DEF BridgeNext, BridgeVars, BridgeTick, Consider, Answer, Failed, AnswerLate, Wake, Refresh,
                InputEnds, HeardAdvertisement, HeardBeacon, Gather, Swept, Recorded, Datagram, PositionMessage,
                PacketLine, SbsLine, MotionFrame, YoloFrame, Read
  <2>2. ASSUME Accepted, NEW d \in Device, kind \in Spaced \cup Cameras, acked'[d] # acked[d]
        PROVE  acked'[d] - acked[d] >= MinInterval
    <3>1. d = Head(reading.left) /\ acked'[d] = reading.now /\ phase = "post"
      BY <1>1, <2>2 DEF Accepted, BridgeInv, StampsArePast
    <3>2. CASE kind \in Spaced
      BY <1>1, <3>1, <3>2, BridgeNumbers DEF BridgeInv, StampsArePast, PostIsDue, Due
    <3>3. CASE kind = "yolo"
      <4>1. /\ reading.left \in Seq(Device) /\ reading.left # <<>>
            /\ \A i \in 1..Len(reading.left) : LET e == reading.left[i] IN
                 acked[e] = reading.now \/ reading.now - acked[e] >= MinInterval
        BY <1>1, <3>1, <3>3 DEF BridgeInv, FrameIsDue, AtWork
      <4>2. reading.left[1] = d /\ 1 \in 1..Len(reading.left)
        BY <3>1, <4>1, Sequenced
      <4>. QED
        BY <2>2, <3>1, <4>1, <4>2
    <3>. QED
      BY <2>2, <3>2, <3>3 DEF Spaced, Cameras
  <2>. QED
    BY <2>1, <2>2
<1>. QED
  BY <1>1, BridgeStarts, BridgeStepKeeps, PTL DEF AckedPostsAreSpaced

-----------------------------------------------------------------------------
(* QueueConsumer: what the broker sent on a connection is a stream cut into  *)
(* frames, and a consumer stands at one of the cuts.                         *)

Units == {PING, CRLF} \cup {MSG(k) : k \in Nat} \cup UNION {Range(Body[m]) : m \in Message}

\* The units after `at` up to `to` are a PING, or the next payload of `pays`
\* after the first k.
Frame(S, at, to, pays, k, k1) ==
  \/ /\ S[at + 1] = PING /\ S[at + 2] = CRLF
     /\ to = at + 2 /\ k1 = k
  \/ /\ k < Len(pays) /\ k1 = k + 1 /\ to = at + Len(pays[k1]) + 3
     /\ S[at + 1] = MSG(Len(pays[k1])) /\ S[at + 2] = CRLF
     /\ \A u \in 1..Len(pays[k1]) : S[at + 2 + u] = pays[k1][u]

\* The stream S holds n frames, the first i of them of at[i] units and with
\* the first nth[i] payloads; n = 0 where nothing was sent.
Stream(S, n, at, nth, pays) ==
  /\ at[n] \in Nat /\ nth[n] = Len(pays)
  /\ \A i \in 0..n : at[i] <= at[n]
  /\ \A i \in 0..(n - 1) : Frame(S, at[i], at[i + 1], pays, nth[i], nth[i + 1])

\* A buffer and a wire hold what follows a cut, all of it while nothing is lost.
Holds(S, from, to, b, w, all) ==
  /\ from + Len(b) + Len(w) <= to
  /\ all => from + Len(b) + Len(w) = to
  /\ \A i \in 1..Len(b) : b[i] = S[from + i]
  /\ \A i \in 1..Len(w) : w[i] = S[from + Len(b) + i]

InStep(b, w, done, pays, all) ==
  \E n \in Nat : \E S \in [Nat -> Units], at, nth \in [0..n -> Nat], j \in 0..n :
    /\ Stream(S, n, at, nth, pays)
    /\ Holds(S, at[j], at[n], b, w, all)
    /\ nth[j] = done

LEMMA UnitsDiffer ==
  /\ PING \in Units /\ CRLF \in Units /\ PING # CRLF
  /\ PING.text = "PING" /\ CRLF.text = "CRLF"
  /\ \A k \in Nat : MSG(k) \in Units /\ MSG(k) # CRLF /\ MSG(k).text = "MSG" /\ MSG(k).size = k
<1>1. PING \in Units /\ CRLF \in Units /\ \A k \in Nat : MSG(k) \in Units
  BY DEF Units
<1>2. PING.text = "PING" /\ CRLF.text = "CRLF"
  BY DEF PING, CRLF, Unit
<1>3. \A k \in Nat : MSG(k).text = "MSG" /\ MSG(k).size = k
  BY DEF MSG
<1>4. PING # CRLF /\ \A k \in Nat : MSG(k) # CRLF
  BY <1>2, <1>3
<1>. QED
  BY <1>1, <1>2, <1>3, <1>4

\* What lies where after an end.
LEMMA Beyond ==
  ASSUME NEW end \in Nat, NEW l \in Nat, NEW k \in 1..l
  PROVE  end + k \in Nat /\ end < end + k /\ end + k <= end + l /\ (end + k) - end = k
OBVIOUS

LEMMA PayloadWithin ==
  ASSUME NEW at \in Nat, NEW l \in Nat, NEW end \in Nat, at + l + 3 <= end, NEW u \in 1..l
  PROVE  at + 2 + u \in Nat /\ at + 2 + u <= end
OBVIOUS

LEMMA FrameLength ==
  \A a, k, l \in Nat : (k + 3) + 1 = k + 4 /\ a + (k + 3) = a + k + 3 /\ (k + 3 <= l => k + 3 \in 0..l)
OBVIOUS

LEMMA Longer ==
  ASSUME NEW a \in Nat, NEW end \in Nat, NEW l \in Nat, a <= end
  PROVE  a <= end + l /\ end + l <= end + l
OBVIOUS

LEMMA NothingSent == \A all \in BOOLEAN : InStep(<<>>, <<>>, 0, <<>>, all)
<1>. SUFFICES ASSUME NEW all \in BOOLEAN PROVE InStep(<<>>, <<>>, 0, <<>>, all)
  OBVIOUS
<1> DEFINE S == [k \in Nat |-> CRLF]  z == [i \in 0..0 |-> 0]
<1>1. S \in [Nat -> Units] /\ z \in [0..0 -> Nat] /\ z[0] = 0
  BY UnitsDiffer
<1> HIDE DEF S, z
<1>2. Stream(S, 0, z, z, <<>>) /\ Holds(S, z[0], z[0], <<>>, <<>>, all)
  BY <1>1 DEF Stream, Holds
<1>3. \E j \in 0..0 : Stream(S, 0, z, z, <<>>) /\ Holds(S, z[j], z[0], <<>>, <<>>, all) /\ z[j] = 0
  BY <1>1, <1>2
<1>. QED
  BY <1>1, <1>3 DEF InStep

\* What is lost is the end of what is on its way.
LEMMA LossKeepsStep ==
  ASSUME NEW b \in Seq(Units), NEW w \in Seq(Units), NEW done \in Nat, NEW pays \in Seq(Seq(Units)),
         NEW all \in BOOLEAN, InStep(b, w, done, pays, all), NEW n \in 0..Len(w)
  PROVE  InStep(b, SubSeq(w, 1, n), done, pays, FALSE)
<1>1. PICK m \in Nat : \E S \in [Nat -> Units], at, nth \in [0..m -> Nat], j \in 0..m :
             Stream(S, m, at, nth, pays) /\ Holds(S, at[j], at[m], b, w, all) /\ nth[j] = done
  BY DEF InStep
<1>2. PICK S \in [Nat -> Units], at \in [0..m -> Nat], nth \in [0..m -> Nat], j \in 0..m :
             Stream(S, m, at, nth, pays) /\ Holds(S, at[j], at[m], b, w, all) /\ nth[j] = done
  BY <1>1
<1>3. Len(SubSeq(w, 1, n)) = n /\ \A i \in 1..n : SubSeq(w, 1, n)[i] = w[i]
  OBVIOUS
<1>4. at[j] \in Nat /\ at[m] \in Nat
  OBVIOUS
<1>5. Holds(S, at[j], at[m], b, SubSeq(w, 1, n), FALSE)
  <2> DEFINE x == SubSeq(w, 1, n)
  <2>1. Len(x) = n /\ \A i \in 1..n : i \in 1..Len(w) /\ x[i] = w[i]
    BY <1>3
  <2> HIDE DEF x
  <2>2. at[j] + Len(b) + Len(x) <= at[m]
    <3>1. at[j] + Len(b) + Len(w) <= at[m]
      BY <1>2 DEF Holds
    <3>. QED
      BY <1>4, <2>1, <3>1
  <2>. QED
    BY <1>2, <2>1, <2>2 DEF Holds, x
<1>. QED
  BY <1>2, <1>5 DEF InStep

\* recv moves the beginning of what is on its way to the buffer.
LEMMA RecvKeepsStep ==
  ASSUME NEW b \in Seq(Units), NEW w \in Seq(Units), NEW done \in Nat, NEW pays \in Seq(Seq(Units)),
         NEW all \in BOOLEAN, InStep(b, w, done, pays, all), NEW n \in 0..Len(w)
  PROVE  InStep(b \o SubSeq(w, 1, n), SubSeq(w, n + 1, Len(w)), done, pays, all)
<1>1. PICK m \in Nat : \E S \in [Nat -> Units], at, nth \in [0..m -> Nat], j \in 0..m :
             Stream(S, m, at, nth, pays) /\ Holds(S, at[j], at[m], b, w, all) /\ nth[j] = done
  BY DEF InStep
<1>2. PICK S \in [Nat -> Units], at \in [0..m -> Nat], nth \in [0..m -> Nat], j \in 0..m :
             Stream(S, m, at, nth, pays) /\ Holds(S, at[j], at[m], b, w, all) /\ nth[j] = done
  BY <1>1
<1> DEFINE got == SubSeq(w, 1, n)  left == SubSeq(w, n + 1, Len(w))
<1>3. got \in Seq(Units) /\ Len(got) = n /\ \A i \in 1..n : got[i] = w[i]
  OBVIOUS
<1>4. left \in Seq(Units) /\ Len(left) = Len(w) - n /\ \A i \in 1..Len(left) : left[i] = w[n + i]
  OBVIOUS
<1> HIDE DEF got, left
<1>5. /\ Len(b \o got) = Len(b) + n
      /\ \A i \in 1..Len(b \o got) : (b \o got)[i] = IF i <= Len(b) THEN b[i] ELSE w[i - Len(b)]
  <2>1. \A i \in 1..(Len(b) + Len(got)) : (b \o got)[i] = IF i <= Len(b) THEN b[i] ELSE got[i - Len(b)]
    BY <1>3
  <2>2. Len(b \o got) = Len(b) + Len(got)
    BY <1>3, ConcatProperties
  <2>. QED
    BY <1>3, <2>1, <2>2
<1>6. at[j] \in Nat /\ at[m] \in Nat /\ n \in Nat /\ Len(b) \in Nat /\ Len(w) \in Nat
  OBVIOUS
<1>7. Holds(S, at[j], at[m], b \o got, left, all)
  <2>1. \A i \in 1..Len(b \o got) : (b \o got)[i] = S[at[j] + i]
    <3>. TAKE i \in 1..Len(b \o got)
    <3>. i \in Nat /\ i >= 1 /\ i <= Len(b) + n
      BY <1>5, <1>6
    <3>1. CASE i <= Len(b)
      BY <1>2, <1>5, <1>6, <3>1 DEF Holds
    <3>2. CASE i > Len(b)
      <4>1. i - Len(b) \in 1..Len(w)
        BY <1>5, <1>6, <3>2
      <4>2. w[i - Len(b)] = S[at[j] + Len(b) + (i - Len(b))]
        BY <1>2, <4>1 DEF Holds
      <4>3. at[j] + Len(b) + (i - Len(b)) = at[j] + i
        BY <1>6, <1>5
      <4>. QED
        <5>1. (b \o got)[i] = w[i - Len(b)]
          BY <1>5, <3>2, <1>6
        <5>. QED
          BY <5>1, <4>2, <4>3
    <3>. QED
      BY <3>1, <3>2, <1>6
  <2>2. \A i \in 1..Len(left) : left[i] = S[at[j] + Len(b \o got) + i]
    <3>. TAKE i \in 1..Len(left)
    <3>1. left[i] = w[n + i] /\ n + i \in 1..Len(w)
      BY <1>4, <1>6
    <3>2. w[n + i] = S[at[j] + Len(b) + (n + i)]
      BY <1>2, <3>1 DEF Holds
    <3>3. at[j] + Len(b) + (n + i) = at[j] + Len(b \o got) + i
      BY <1>5, <1>6, <1>4
    <3>. QED
      BY <3>1, <3>2, <3>3
  <2>3. Len(b \o got) + Len(left) = Len(b) + Len(w)
    BY <1>4, <1>5, <1>6
  <2>4. at[j] + Len(b \o got) + Len(left) = at[j] + Len(b) + Len(w)
    BY <1>4, <1>5, <1>6
  <2>. QED
    BY <1>2, <2>1, <2>2, <2>4 DEF Holds
<1>. QED
  BY <1>2, <1>7 DEF InStep, got, left

\* A PING, or a message and its payload, goes on the wire as one frame.
Framed(f, pays, pays1) ==
  \/ Len(f) = 2 /\ f[1] = PING /\ f[2] = CRLF /\ pays1 = pays
  \/ \E p \in Seq(Units) :
       /\ Len(f) = Len(p) + 3 /\ f[1] = MSG(Len(p)) /\ f[2] = CRLF
       /\ \A u \in 1..Len(p) : f[2 + u] = p[u]
       /\ pays1 = Append(pays, p)

\* What is sent later leaves the frames before it as they are.
LEMMA FrameStays ==
  ASSUME NEW at \in Nat, NEW to \in Nat, NEW k \in Nat, NEW k1 \in Nat, NEW end \in Nat, to <= end,
         NEW S, NEW S1, \A x \in Nat : x <= end => S1[x] = S[x],
         NEW pays, NEW pays1, Len(pays) \in Nat, Len(pays1) \in Nat, Len(pays) <= Len(pays1),
         \A x \in 1..Len(pays) : Len(pays[x]) \in Nat,
         \A x \in 1..Len(pays) : pays1[x] = pays[x],
         Frame(S, at, to, pays, k, k1)
  PROVE  Frame(S1, at, to, pays1, k, k1)
<1>1. CASE S[at + 1] = PING /\ S[at + 2] = CRLF /\ to = at + 2 /\ k1 = k
  <2>1. S1[at + 1] = S[at + 1] /\ S1[at + 2] = S[at + 2]
    BY <1>1
  <2>. QED
    BY <1>1, <2>1 DEF Frame
<1>2. CASE /\ k < Len(pays) /\ k1 = k + 1 /\ to = at + Len(pays[k1]) + 3
           /\ S[at + 1] = MSG(Len(pays[k1])) /\ S[at + 2] = CRLF
           /\ \A u \in 1..Len(pays[k1]) : S[at + 2 + u] = pays[k1][u]
  <2> DEFINE p == pays[k1]
  <2>1. k1 \in 1..Len(pays) /\ k < Len(pays1)
    BY <1>2
  <2>2. pays1[k1] = p /\ Len(p) \in Nat
    BY <2>1
  <2>3. /\ k < Len(pays) /\ k1 = k + 1 /\ to = at + Len(p) + 3
        /\ S[at + 1] = MSG(Len(p)) /\ S[at + 2] = CRLF
        /\ \A u \in 1..Len(p) : S[at + 2 + u] = p[u]
    BY <1>2
  <2> HIDE DEF p
  <2>4. S1[at + 1] = S[at + 1] /\ S1[at + 2] = S[at + 2]
    BY <2>2, <2>3
  <2>5. \A u \in 1..Len(p) : S1[at + 2 + u] = p[u]
    <3>. TAKE u \in 1..Len(p)
    <3>1. at + 2 + u \in Nat /\ at + 2 + u <= end
      BY <2>2, <2>3, PayloadWithin, Zenon
    <3>. QED
      BY <2>3, <3>1
  <2>. QED
    BY <2>1, <2>2, <2>3, <2>4, <2>5 DEF Frame
<1>. QED
  BY <1>1, <1>2 DEF Frame

\* The cuts of a longer stream.
Extended(h, m, e) == [i \in 0..(m + 1) |-> IF i <= m THEN h[i] ELSE e]

CutAfter(h1, h, m, e) ==
  /\ h1 \in [0..(m + 1) -> Nat] /\ h1[m + 1] = e
  /\ \A i \in 0..m : h1[i] = h[i]

LEMMA OneMoreCut ==
  ASSUME NEW m \in Nat, NEW h \in [0..m -> Nat], NEW e \in Nat
  PROVE  CutAfter(Extended(h, m, e), h, m, e)
BY DEF CutAfter, Extended

LEMMA OneMoreSent ==
  ASSUME NEW pays \in Seq(Seq(Units)), NEW pays1, pays1 = pays \/ \E p \in Seq(Units) : pays1 = Append(pays, p)
  PROVE  /\ pays1 \in Seq(Seq(Units)) /\ Len(pays) \in Nat /\ Len(pays1) \in Nat /\ Len(pays) <= Len(pays1)
         /\ \A k \in 1..Len(pays) : pays1[k] = pays[k] /\ Len(pays[k]) \in Nat
<1>1. CASE pays1 = pays
  BY <1>1
<1>2. ASSUME NEW p \in Seq(Units), pays1 = Append(pays, p)
      PROVE  /\ pays1 \in Seq(Seq(Units)) /\ Len(pays) \in Nat /\ Len(pays1) \in Nat /\ Len(pays) <= Len(pays1)
             /\ \A k \in 1..Len(pays) : pays1[k] = pays[k] /\ Len(pays[k]) \in Nat
  BY <1>2, AppendProperties
<1>. QED
  BY <1>1, <1>2

LEMMA PayloadPlaces ==
  /\ \A e, u \in Nat : e + 2 + u = e + (2 + u)
  /\ \A l \in Nat : 1 \in 1..(l + 3) /\ 2 \in 1..(l + 3) /\ \A u \in 1..l : u \in Nat /\ 2 + u \in 1..(l + 3)
OBVIOUS

LEMMA SendingKeepsStep ==
  ASSUME NEW b \in Seq(Units), NEW w \in Seq(Units), NEW done \in Nat, NEW pays \in Seq(Seq(Units)),
         InStep(b, w, done, pays, TRUE), NEW f \in Seq(Units), NEW pays1, Framed(f, pays, pays1)
  PROVE  InStep(b, w \o f, done, pays1, TRUE)
<1>1. PICK m \in Nat : \E S \in [Nat -> Units], at, nth \in [0..m -> Nat], j \in 0..m :
             Stream(S, m, at, nth, pays) /\ Holds(S, at[j], at[m], b, w, TRUE) /\ nth[j] = done
  BY DEF InStep
<1>2. PICK S \in [Nat -> Units], at \in [0..m -> Nat], nth \in [0..m -> Nat], j \in 0..m :
             Stream(S, m, at, nth, pays) /\ Holds(S, at[j], at[m], b, w, TRUE) /\ nth[j] = done
  BY <1>1
<1> DEFINE end == at[m]
           S1 == [k \in Nat |-> IF end < k /\ k <= end + Len(f) THEN f[k - end] ELSE S[k]]
           at1 == Extended(at, m, end + Len(f))
           nth1 == Extended(nth, m, Len(pays1))
<1>3. end \in Nat /\ Len(f) \in Nat /\ Len(w) \in Nat /\ Len(b) \in Nat /\ at[j] \in Nat
  OBVIOUS
<1>4. /\ pays1 \in Seq(Seq(Units)) /\ Len(pays) \in Nat /\ Len(pays1) \in Nat /\ Len(pays) <= Len(pays1)
      /\ \A k \in 1..Len(pays) : pays1[k] = pays[k] /\ Len(pays[k]) \in Nat
  <2>1. pays1 = pays \/ \E p \in Seq(Units) : pays1 = Append(pays, p)
    BY DEF Framed
  <2>. QED
    BY <2>1, OneMoreSent, Zenon
<1>5. /\ \A k \in Nat : k <= end => S1[k] = S[k]
      /\ \A k \in 1..Len(f) : S1[end + k] = f[k]
  <2>1. \A k \in Nat : k <= end => S1[k] = S[k]
    BY <1>3
  <2>2. ASSUME NEW k \in 1..Len(f) PROVE S1[end + k] = f[k]
    <3>1. end + k \in Nat /\ end < end + k /\ end + k <= end + Len(f) /\ (end + k) - end = k
      BY <1>3, Beyond, Zenon
    <3>. QED
      BY <3>1
  <2>. QED
    BY <2>1, <2>2
<1>6. S1 \in [Nat -> Units]
  BY <1>3
<1>7. /\ at1 \in [0..(m + 1) -> Nat] /\ nth1 \in [0..(m + 1) -> Nat]
      /\ \A i \in 0..m : at1[i] = at[i] /\ nth1[i] = nth[i]
      /\ at1[m + 1] = end + Len(f) /\ nth1[m + 1] = Len(pays1)
  <2>1. end + Len(f) \in Nat
    BY <1>3
  <2> HIDE DEF end
  <2>2. Len(pays1) \in Nat
    BY <1>4
  <2>3. CutAfter(at1, at, m, end + Len(f))
    BY <2>1, OneMoreCut, Zenon
  <2>4. CutAfter(nth1, nth, m, Len(pays1))
    BY <2>2, OneMoreCut, Zenon
  <2> HIDE DEF at1, nth1
  <2>. QED
    BY <2>3, <2>4, Zenon DEF CutAfter
<1> HIDE DEF S1, at1, nth1
<1>8. \A i \in 0..(m - 1) : Frame(S1, at[i], at[i + 1], pays1, nth[i], nth[i + 1])
  <2>. TAKE i \in 0..(m - 1)
  <2>1. i \in 0..m /\ i + 1 \in 0..m
    OBVIOUS
  <2>2. Frame(S, at[i], at[i + 1], pays, nth[i], nth[i + 1]) /\ at[i + 1] <= end
    BY <1>2, <2>1 DEF Stream
  <2>3. at[i] \in Nat /\ at[i + 1] \in Nat /\ nth[i] \in Nat
    BY <2>1
  <2>4. nth[i + 1] \in Nat
    BY <2>1
  <2>. QED
    BY <1>3, <1>4, <1>5, <2>2, <2>3, <2>4, FrameStays
<1>9. Frame(S1, end, end + Len(f), pays1, Len(pays), Len(pays1))
  <2>1. CASE Len(f) = 2 /\ f[1] = PING /\ f[2] = CRLF /\ pays1 = pays
    BY <1>3, <1>5, <2>1 DEF Frame
  <2>2. ASSUME NEW p \in Seq(Units),
               Len(f) = Len(p) + 3, f[1] = MSG(Len(p)), f[2] = CRLF,
               \A u \in 1..Len(p) : f[2 + u] = p[u], pays1 = Append(pays, p)
        PROVE  Frame(S1, end, end + Len(f), pays1, Len(pays), Len(pays1))
    <3>1. Len(pays1) = Len(pays) + 1 /\ pays1[Len(pays) + 1] = p /\ Len(p) \in Nat
      BY <2>2
    <3> HIDE DEF end
    <3>2. \A u \in 1..Len(p) : S1[end + 2 + u] = p[u]
      <4>. TAKE u \in 1..Len(p)
      <4>1. 2 + u \in 1..Len(f) /\ end + 2 + u = end + (2 + u)
        BY <1>3, <2>2, <3>1, PayloadPlaces, Zenon
      <4>2. S1[end + (2 + u)] = f[2 + u]
        BY <1>5, <4>1, Zenon
      <4>. QED
        BY <2>2, <4>1, <4>2, Zenon
    <3>3. S1[end + 1] = MSG(Len(p)) /\ S1[end + 2] = CRLF
      <4>1. 1 \in 1..Len(f) /\ 2 \in 1..Len(f)
        BY <2>2, <3>1, PayloadPlaces, Zenon
      <4>. QED
        BY <1>5, <2>2, <4>1, Zenon
    <3>. QED
      BY <1>3, <1>4, <2>2, <3>1, <3>2, <3>3 DEF Frame
  <2>. QED
    BY <2>1, <2>2 DEF Framed
<1>10. Stream(S1, m + 1, at1, nth1, pays1)
  <2>1. \A i \in 0..(m + 1) : at1[i] <= at1[m + 1]
    <3>1. \A i \in 0..m : at[i] <= end /\ at[i] \in Nat
      BY <1>2 DEF Stream
    <3>. TAKE i \in 0..(m + 1)
    <3>2. CASE i \in 0..m
      <4>1. at1[i] = at[i] /\ at[i] <= end /\ at[i] \in Nat
        BY <1>7, <3>1, <3>2
      <4>2. at1[i] <= end + Len(f)
        BY <1>3, <4>1, Longer, Zenon
      <4>. QED
        BY <1>7, <4>2, Zenon
    <3>3. CASE i = m + 1
      BY <1>3, <1>7, <3>3
    <3>. QED
      BY <3>2, <3>3
  <2>2. \A i \in 0..m : Frame(S1, at1[i], at1[i + 1], pays1, nth1[i], nth1[i + 1])
    <3>. TAKE i \in 0..m
    <3>1. CASE i = m
      <4>1. nth[m] = Len(pays)
        BY <1>2 DEF Stream
      <4>. QED
        BY <1>7, <1>9, <3>1, <4>1
    <3>2. CASE i # m
      <4>1. i \in 0..(m - 1) /\ i + 1 \in 0..m
        BY <3>2
      <4>. QED
        BY <1>7, <1>8, <4>1
    <3>. QED
      BY <3>1, <3>2
  <2>3. (m + 1) - 1 = m
    OBVIOUS
  <2>. QED
    BY <1>3, <1>7, <2>1, <2>2, <2>3 DEF Stream
<1>11. Holds(S1, at[j], end + Len(f), b, w \o f, TRUE)
  <2>1. Len(w \o f) = Len(w) + Len(f)
    BY ConcatProperties
  <2>2. at[j] + Len(b) + Len(w) = end
    BY <1>2 DEF Holds
  <2>3. \A i \in 1..Len(b) : b[i] = S1[at[j] + i]
    <3>. TAKE i \in 1..Len(b)
    <3>1. at[j] + i \in Nat /\ at[j] + i <= end
      BY <1>3, <2>2
    <3>. QED
      BY <1>2, <1>5, <3>1 DEF Holds
  <2>4. \A i \in 1..Len(w \o f) : (w \o f)[i] = S1[at[j] + Len(b) + i]
    <3>. TAKE i \in 1..Len(w \o f)
    <3>0. i \in Nat /\ 1 <= i /\ i <= Len(w) + Len(f)
      BY <1>3, <2>1
    <3>1. CASE i <= Len(w)
      <4>1. (w \o f)[i] = w[i]
        BY <3>0, <3>1, ConcatProperties
      <4>2. at[j] + Len(b) + i \in Nat /\ at[j] + Len(b) + i <= end /\ i \in 1..Len(w)
        BY <1>3, <2>2, <3>0, <3>1
      <4>. QED
        BY <1>2, <1>5, <4>1, <4>2 DEF Holds
    <3>2. CASE i > Len(w)
      <4>1. (w \o f)[i] = f[i - Len(w)]
        BY <1>3, <3>0, <3>2, ConcatProperties
      <4>2. i - Len(w) \in 1..Len(f) /\ at[j] + Len(b) + i = end + (i - Len(w))
        BY <1>3, <2>2, <3>0, <3>2
      <4>. QED
        BY <1>5, <4>1, <4>2
    <3>. QED
      BY <1>3, <3>0, <3>1, <3>2
  <2>5. at[j] + Len(b) + Len(w \o f) = end + Len(f)
    BY <1>3, <2>1, <2>2
  <2>6. at[j] + Len(b) + Len(w \o f) <= end + Len(f)
    BY <1>3, <2>5
  <2>. QED
    BY <2>3, <2>4, <2>5, <2>6 DEF Holds
<1>. QED
  <2>1. j \in 0..(m + 1) /\ m + 1 \in Nat
    OBVIOUS
  <2>2. Holds(S1, at1[j], at1[m + 1], b, w \o f, TRUE) /\ nth1[j] = done
    BY <1>2, <1>7, <1>11
  <2>. QED
    BY <1>6, <1>7, <1>10, <2>1, <2>2 DEF InStep

\* Dropping a whole frame from the buffer moves on to the next cut.
LEMMA DroppingMovesOn ==
  ASSUME NEW b \in Seq(Units), NEW w \in Seq(Units), NEW all \in BOOLEAN,
         NEW S, NEW from \in Nat, NEW to \in Nat, NEW n \in 0..Len(b), Holds(S, from, to, b, w, all)
  PROVE  /\ SubSeq(b, n + 1, Len(b)) \in Seq(Units)
         /\ Holds(S, from + n, to, SubSeq(b, n + 1, Len(b)), w, all)
<1> DEFINE rest == SubSeq(b, n + 1, Len(b))
<1>1. rest \in Seq(Units) /\ Len(rest) = Len(b) - n /\ \A i \in 1..Len(rest) : rest[i] = b[n + i]
  <2>1. rest \in Seq(Units) /\ Len(rest) = Len(b) - n
    OBVIOUS
  <2>2. \A i \in 1..(Len(b) - n) : rest[i] = b[n + i]
    OBVIOUS
  <2>. QED
    BY <2>1, <2>2
<1> HIDE DEF rest
<1>2. n \in Nat /\ Len(b) \in Nat /\ Len(w) \in Nat /\ n <= Len(b)
  OBVIOUS
<1>3. from + n + Len(rest) = from + Len(b)
  BY <1>1, <1>2
<1>4. \A i \in 1..Len(rest) : rest[i] = S[from + n + i]
  <2>. TAKE i \in 1..Len(rest)
  <2>1. n + i \in 1..Len(b) /\ from + n + i = from + (n + i)
    BY <1>1, <1>2
  <2>. QED
    BY <1>1, <2>1 DEF Holds
<1>5. Holds(S, from + n, to, rest, w, all)
  BY <1>3, <1>4 DEF Holds
<1>. QED
  BY <1>1, <1>5 DEF rest

\* What a consumer finds at the head of its buffer is a frame, and once it has
\* the whole of it the payload is the next one that was sent.
Ahead(b, w, done, pays, all) ==
  \/ b[1] = PING /\ InStep(SubSeq(b, 3, Len(b)), w, done, pays, all)
  \/ LET p == pays[done + 1] IN
     /\ done < Len(pays) /\ b[1] = MSG(Len(p)) /\ Len(p) \in Nat
     /\ Len(b) >= Len(p) + 3 =>
          /\ \A u \in 1..Len(p) : b[2 + u] = p[u]
          /\ InStep(SubSeq(b, Len(p) + 4, Len(b)), w, done + 1, pays, all)

LEMMA HeadIsFrame ==
  ASSUME NEW b \in Seq(Units), NEW w \in Seq(Units), NEW done \in Nat, NEW pays \in Seq(Seq(Units)),
         NEW all \in BOOLEAN, InStep(b, w, done, pays, all), Len(b) > 0
  PROVE  /\ b[1] # CRLF
         /\ Len(b) > 1 => b[2] = CRLF /\ Ahead(b, w, done, pays, all)
<1>1. PICK m \in Nat : \E S \in [Nat -> Units], at, nth \in [0..m -> Nat], j \in 0..m :
             Stream(S, m, at, nth, pays) /\ Holds(S, at[j], at[m], b, w, all) /\ nth[j] = done
  BY DEF InStep
<1>2. PICK S \in [Nat -> Units], at \in [0..m -> Nat], nth \in [0..m -> Nat], j \in 0..m :
             Stream(S, m, at, nth, pays) /\ Holds(S, at[j], at[m], b, w, all) /\ nth[j] = done
  BY <1>1
<1>3. Len(b) \in Nat /\ Len(w) \in Nat /\ at[j] \in Nat /\ at[m] \in Nat
  OBVIOUS
<1>4. at[j] < at[m]
  <2>1. at[j] + Len(b) + Len(w) <= at[m]
    BY <1>2 DEF Holds
  <2>. QED
    BY <1>3, <2>1
<1>5. j \in 0..(m - 1) /\ j + 1 \in 0..m
  BY <1>3, <1>4
<1>6. Frame(S, at[j], at[j + 1], pays, nth[j], nth[j + 1])
  BY <1>2, <1>5 DEF Stream
<1>7. at[j + 1] \in Nat /\ nth[j + 1] \in Nat
  BY <1>5
<1>8. b[1] = S[at[j] + 1] /\ (Len(b) > 1 => b[2] = S[at[j] + 2])
  <2>1. 1 \in 1..Len(b) /\ (Len(b) > 1 => 2 \in 1..Len(b))
    BY <1>3
  <2>. QED
    BY <1>2, <2>1 DEF Holds
<1>9. S[at[j] + 1] # CRLF
  <2>1. \A k \in 1..Len(pays) : Len(pays[k]) \in Nat
    OBVIOUS
  <2>2. CASE S[at[j] + 1] = PING
    BY <2>2, UnitsDiffer
  <2>3. CASE done < Len(pays) /\ S[at[j] + 1] = MSG(Len(pays[done + 1]))
    <3>1. done + 1 \in 1..Len(pays)
      BY <2>3
    <3>. QED
      BY <2>1, <2>3, <3>1, UnitsDiffer
  <2>. QED
    BY <1>2, <1>6, <2>2, <2>3 DEF Frame
<1>10. ASSUME Len(b) > 1 PROVE b[2] = CRLF /\ Ahead(b, w, done, pays, all)
  <2>1. S[at[j] + 2] = CRLF
    BY <1>6 DEF Frame
  <2>2. CASE S[at[j] + 1] = PING /\ at[j + 1] = at[j] + 2 /\ nth[j + 1] = nth[j]
    <3>1. 2 \in 0..Len(b)
      BY <1>3, <1>10
    <3>2. /\ SubSeq(b, 2 + 1, Len(b)) \in Seq(Units)
          /\ Holds(S, at[j] + 2, at[m], SubSeq(b, 2 + 1, Len(b)), w, all)
      BY <1>2, <1>3, <3>1, DroppingMovesOn
    <3>3. Holds(S, at[j + 1], at[m], SubSeq(b, 3, Len(b)), w, all) /\ nth[j + 1] = done
      BY <1>2, <2>2, <3>2
    <3>4. InStep(SubSeq(b, 3, Len(b)), w, done, pays, all)
      BY <1>2, <1>5, <3>3 DEF InStep
    <3>. QED
      BY <1>8, <1>10, <2>1, <2>2, <3>4 DEF Ahead
  <2>3. CASE /\ nth[j] < Len(pays) /\ nth[j + 1] = nth[j] + 1
             /\ at[j + 1] = at[j] + Len(pays[nth[j + 1]]) + 3
             /\ S[at[j] + 1] = MSG(Len(pays[nth[j + 1]]))
             /\ \A u \in 1..Len(pays[nth[j + 1]]) : S[at[j] + 2 + u] = pays[nth[j + 1]][u]
    <3> DEFINE p == pays[done + 1]
    <3>0. done < Len(pays) /\ nth[j + 1] = done + 1 /\ Len(pays) \in Nat
      BY <1>2, <2>3
    <3>1. done + 1 \in 1..Len(pays) /\ done < Len(pays) /\ p \in Seq(Units) /\ nth[j + 1] = done + 1
      BY <3>0
    <3>2. Len(p) \in Nat
      BY <3>1
    <3>3. /\ at[j + 1] = at[j] + Len(p) + 3 /\ S[at[j] + 1] = MSG(Len(p))
          /\ \A u \in 1..Len(p) : S[at[j] + 2 + u] = p[u]
      BY <2>3, <3>1
    <3>4. ASSUME Len(b) >= Len(p) + 3
          PROVE  /\ \A u \in 1..Len(p) : b[2 + u] = p[u]
                 /\ InStep(SubSeq(b, Len(p) + 4, Len(b)), w, done + 1, pays, all)
      <4> HIDE DEF p
      <4>1. \A u \in 1..Len(p) : b[2 + u] = p[u]
        <5>. TAKE u \in 1..Len(p)
        <5>1. 2 + u \in 1..Len(b) /\ at[j] + 2 + u = at[j] + (2 + u)
          BY <1>3, <3>2, <3>4
        <5>2. b[2 + u] = S[at[j] + (2 + u)]
          BY <1>2, <5>1 DEF Holds
        <5>. QED
          BY <3>3, <5>1, <5>2
      <4>2. Len(p) + 3 \in 0..Len(b) /\ (Len(p) + 3) + 1 = Len(p) + 4 /\ at[j] + (Len(p) + 3) = at[j + 1]
        <5>1. Len(b) >= Len(p) + 3 /\ at[j + 1] = at[j] + Len(p) + 3
          BY <3>3, <3>4, Zenon
        <5>2. Len(b) \in Nat /\ at[j] \in Nat /\ at[j + 1] \in Nat /\ Len(p) \in Nat
          BY <1>3, <1>7, <3>2, Zenon
        <5>3. (Len(p) + 3) + 1 = Len(p) + 4 /\ at[j] + (Len(p) + 3) = at[j] + Len(p) + 3
          BY <5>2, FrameLength, Zenon
        <5>4. Len(p) + 3 \in 0..Len(b)
          BY <5>1, <5>2, FrameLength, Zenon
        <5>. QED
          BY <5>1, <5>3, <5>4, Zenon
      <4>3. Holds(S, at[j] + (Len(p) + 3), at[m], SubSeq(b, (Len(p) + 3) + 1, Len(b)), w, all)
        BY <1>2, <1>3, <4>2, DroppingMovesOn
      <4>4. Holds(S, at[j + 1], at[m], SubSeq(b, Len(p) + 4, Len(b)), w, all)
        BY <4>2, <4>3
      <4>5. InStep(SubSeq(b, Len(p) + 4, Len(b)), w, done + 1, pays, all)
        BY <1>2, <1>5, <3>1, <4>4 DEF InStep
      <4>. QED
        BY <4>1, <4>5
    <3>. QED
      BY <1>8, <1>10, <2>1, <3>1, <3>2, <3>3, <3>4 DEF Ahead
  <2>. QED
    BY <1>6, <2>2, <2>3 DEF Frame
<1>. QED
  BY <1>8, <1>9, <1>10

\* Where find(CRLF) points: to the end of the first line, or nowhere.
LEMMA NewlineOfFrame ==
  ASSUME NEW b \in Seq(Units), Len(b) > 0 => b[1] # CRLF
  PROVE  /\ Len(b) <= 1 => NewlineAt(b) = 0
         /\ Len(b) > 1 /\ b[2] = CRLF => NewlineAt(b) = 2
<1> DEFINE I == {i \in 1..Len(b) : b[i] = CRLF}
<1>1. NewlineAt(b) = IF I # {} THEN Min(I) ELSE 0
  BY DEF NewlineAt, SelectInSeq
<1>2. CASE Len(b) <= 1
  BY <1>1, <1>2
<1>3. CASE Len(b) > 1 /\ b[2] = CRLF
  <2>1. 2 \in I /\ \A i \in I : i >= 2 /\ i \in Nat
    BY <1>3
  <2>2. Min(I) \in I /\ \A i \in I : Min(I) <= i
    BY <2>1 DEF Min
  <2>. QED
    BY <1>1, <2>1, <2>2
<1>. QED
  BY <1>2, <1>3

\* Less may be required of what is on its way.
LEMMA LessIsRequired ==
  ASSUME NEW b, NEW w, NEW done, NEW pays, NEW all \in BOOLEAN, InStep(b, w, done, pays, all),
         NEW all1 \in BOOLEAN, all1 => all
  PROVE  InStep(b, w, done, pays, all1)
<1>1. \A S, from, to : Holds(S, from, to, b, w, all) => Holds(S, from, to, b, w, all1)
  BY DEF Holds
<1>. QED
  BY <1>1 DEF InStep

\* A buffer with a line in it begins with a frame of which Rest is the end.
LEMMA LineIsHead ==
  ASSUME NEW b \in Seq(Units), NEW w \in Seq(Units), NEW done \in Nat, NEW pays \in Seq(Seq(Units)),
         NEW all \in BOOLEAN, InStep(b, w, done, pays, all), NewlineAt(b) > 0
  PROVE  /\ Len(b) > 1 /\ NewlineAt(b) = 2 /\ Rest(b) = SubSeq(b, 3, Len(b))
         /\ Ahead(b, w, done, pays, all)
<1>1. Len(b) \in Nat
  OBVIOUS
<1>2. Len(b) > 0 => b[1] # CRLF
  BY HeadIsFrame
<1>3. Len(b) > 1
  <2>1. CASE Len(b) <= 1
    <3>1. NewlineAt(b) = 0
      BY <1>2, <2>1, NewlineOfFrame
    <3>. QED
      BY <3>1
  <2>. QED
    BY <1>1, <2>1
<1>4. b[2] = CRLF /\ Ahead(b, w, done, pays, all)
  BY <1>1, <1>3, HeadIsFrame
<1>5. NewlineAt(b) = 2
  BY <1>2, <1>3, <1>4, NewlineOfFrame
<1>6. Rest(b) = SubSeq(b, 3, Len(b))
  BY <1>5 DEF Rest
<1>. QED
  BY <1>3, <1>4, <1>5, <1>6

\* What the parser cuts out of a buffer that holds a whole message.
LEMMA CutsOfMessage ==
  ASSUME NEW b \in Seq(Units), NEW p \in Seq(Units), NEW r, r = SubSeq(b, 3, Len(b)), Len(b) > 1,
         Len(r) >= Len(p) + 1
  PROVE  /\ Len(b) >= Len(p) + 3
         /\ (\A u \in 1..Len(p) : b[2 + u] = p[u]) => SubSeq(r, 1, Len(p)) = p
         /\ SubSeq(r, Len(p) + 2, Len(r)) = SubSeq(b, Len(p) + 4, Len(b))
<1> DEFINE l == Len(p)
<1>1. Len(b) \in Nat /\ l \in Nat
  OBVIOUS
<1>2. r \in Seq(Units) /\ Len(r) = Len(b) - 2
  OBVIOUS
<1>3. \A i \in 1..(Len(b) - 2) : r[i] = b[2 + i]
  OBVIOUS
<1>4. Len(b) >= l + 3
  BY <1>1, <1>2
<1>5. ASSUME \A u \in 1..Len(p) : b[2 + u] = p[u] PROVE SubSeq(r, 1, Len(p)) = p
  <2> DEFINE q == SubSeq(r, 1, l)
  <2>1. l <= Len(r) /\ Len(r) \in Nat
    BY <1>1, <1>2, <1>4
  <2>2. q \in Seq(Units) /\ Len(q) = l /\ \A i \in 1..l : q[i] = r[i]
    BY <1>1, <1>2, <2>1
  <2>3. \A i \in 1..l : q[i] = p[i]
    BY <1>1, <1>3, <1>4, <1>5, <2>2
  <2>. QED
    BY <2>2, <2>3, SeqEqual
<1>6. SubSeq(r, l + 2, Len(r)) = SubSeq(b, l + 4, Len(b))
  <2> DEFINE x == SubSeq(r, l + 2, Len(r))  y == SubSeq(b, l + 4, Len(b))
  <2>1. x \in Seq(Units) /\ Len(x) = Len(b) - (l + 3) /\ \A i \in 1..(Len(b) - (l + 3)) : x[i] = r[l + 1 + i]
    BY <1>1, <1>2, <1>4
  <2>2. y \in Seq(Units) /\ Len(y) = Len(b) - (l + 3) /\ \A i \in 1..(Len(b) - (l + 3)) : y[i] = b[l + 3 + i]
    BY <1>1, <1>4
  <2>3. \A i \in 1..(Len(b) - (l + 3)) : r[l + 1 + i] = b[l + 3 + i]
    <3>. TAKE i \in 1..(Len(b) - (l + 3))
    <3>1. l + 1 + i \in 1..(Len(b) - 2) /\ 2 + (l + 1 + i) = l + 3 + i
      BY <1>1, <1>4
    <3>. QED
      BY <1>3, <3>1
  <2> HIDE DEF x, y
  <2>4. Len(x) = Len(y) /\ \A i \in 1..Len(x) : x[i] = y[i]
    BY <2>1, <2>2, <2>3
  <2>5. x = y
    BY <2>1, <2>2, <2>4, SeqEqual
  <2>. QED
    BY <2>5 DEF x, y
<1>. QED
  BY <1>4, <1>5, <1>6

-----------------------------------------------------------------------------
(* The invariant: every consumer is in step with its stream, and was handed  *)
(* the first payloads of it.                                                 *)

QueueShape ==
  /\ wire \in [Consumer -> Seq(Units)] /\ buffer \in [Consumer -> Seq(Units)]
  /\ sentOn \in [Consumer -> Seq(Seq(Units))] /\ handled \in [Consumer -> Seq(Seq(Units))]
  /\ linked \in [Consumer -> BOOLEAN]

Up(c) == linked[c] /\ c \notin silent

Stands(c) == InStep(buffer[c], wire[c], Len(handled[c]), sentOn[c], Up(c))

HandedInOrder(c) ==
  /\ Len(handled[c]) <= Len(sentOn[c])
  /\ \A k \in 1..Len(handled[c]) : handled[c][k] = sentOn[c][k]

QueueInv == QueueShape /\ \A c \in Consumer : Stands(c) /\ HandedInOrder(c)

\* A step of one consumer, or about it, is no step of the others.
LEMMA OthersStayInStep ==
  ASSUME QueueInv, NEW c \in Consumer, QueueShape', Stands(c)', HandedInOrder(c)',
         \A d \in Consumer \ {c} : /\ wire'[d] = wire[d] /\ buffer'[d] = buffer[d]
                                   /\ sentOn'[d] = sentOn[d] /\ handled'[d] = handled[d]
                                   /\ linked'[d] = linked[d] /\ (d \in silent' <=> d \in silent)
  PROVE  QueueInv'
<1>1. ASSUME NEW d \in Consumer \ {c} PROVE Stands(d)' /\ HandedInOrder(d)'
  <2>1. Up(d)' = Up(d)
    BY <1>1 DEF Up, QueueInv, QueueShape
  <2>. QED
    BY <1>1, <2>1 DEF QueueInv, Stands, HandedInOrder
<1>. QED
  BY <1>1 DEF QueueInv

LEMMA BodiesAreUnits == \A m \in Message : Body[m] \in Seq(Units)
<1>. TAKE m \in Message
<1>1. Range(Body[m]) \subseteq Units
  BY DEF Units
<1>. QED
  BY <1>1, QueueAssumption

LEMMA QueueStarts == QueueInit => QueueInv
<1>. SUFFICES ASSUME QueueInit PROVE QueueInv
  OBVIOUS
<1>1. QueueShape
  BY DEF QueueInit, QueueShape
<1>2. ASSUME NEW c \in Consumer PROVE Stands(c) /\ HandedInOrder(c)
  <2>1. /\ buffer[c] = <<>> /\ wire[c] = <<>> /\ sentOn[c] = <<>> /\ handled[c] = <<>>
        /\ Len(handled[c]) = 0 /\ Up(c) \in BOOLEAN
    BY DEF QueueInit, Up
  <2>. QED
    BY <2>1, NothingSent DEF Stands, HandedInOrder
<1>. QED
  BY <1>1, <1>2 DEF QueueInv

\* Where nothing but the flags moves, and no connection comes up.
LEMMA FlagsKeepStep ==
  ASSUME QueueInv, UNCHANGED <<wire, buffer, sentOn, handled>>,
         linked' \in [Consumer -> BOOLEAN], \A d \in Consumer : Up(d)' => Up(d)
  PROVE  QueueInv'
<1>1. QueueShape'
  BY DEF QueueInv, QueueShape
<1>2. ASSUME NEW d \in Consumer PROVE Stands(d)' /\ HandedInOrder(d)'
  <2>1. Up(d) \in BOOLEAN /\ Up(d)' \in BOOLEAN
    BY DEF Up, QueueInv, QueueShape
  <2>2. InStep(buffer[d], wire[d], Len(handled[d]), sentOn[d], Up(d)')
    BY <2>1, LessIsRequired DEF QueueInv, Stands
  <2>. QED
    BY <2>2 DEF QueueInv, Stands, HandedInOrder
<1>. QED
  BY <1>1, <1>2 DEF QueueInv

\* What a consumer holds and was sent, named.
LEMMA OfConsumer ==
  ASSUME QueueInv, NEW c \in Consumer
  PROVE  /\ buffer[c] \in Seq(Units) /\ wire[c] \in Seq(Units)
         /\ sentOn[c] \in Seq(Seq(Units)) /\ handled[c] \in Seq(Seq(Units))
         /\ Len(handled[c]) \in Nat /\ Up(c) \in BOOLEAN
         /\ InStep(buffer[c], wire[c], Len(handled[c]), sentOn[c], Up(c))
BY DEF QueueInv, QueueShape, Stands, Up

LEMMA DeliverKeeps ==
  ASSUME QueueInv, NEW c \in Consumer, NEW m \in Message, Deliver(c, m)
  PROVE  QueueInv'
<1> DEFINE p == Body[m]  f == (<<MSG(Len(p)), CRLF>> \o p) \o <<CRLF>>
<1>1. p \in Seq(Units) /\ Len(p) \in Nat
  BY BodiesAreUnits
<1>2. <<MSG(Len(p)), CRLF>> \in Seq(Units) /\ <<CRLF>> \in Seq(Units)
  BY <1>1, UnitsDiffer
<1> HIDE DEF p
<1>3. <<MSG(Len(p)), CRLF>> \o p \in Seq(Units)
  BY <1>1, <1>2, ConcatProperties
<1>4. Len(<<MSG(Len(p)), CRLF>> \o p) = Len(p) + 2
  BY <1>1, <1>2, ConcatProperties
<1>5. f \in Seq(Units) /\ Len(f) = Len(p) + 3
  BY <1>1, <1>2, <1>3, <1>4, ConcatProperties
<1>6. \A i \in 1..(Len(p) + 2) : f[i] = (<<MSG(Len(p)), CRLF>> \o p)[i]
  BY <1>1, <1>2, <1>3, <1>4, ConcatProperties
<1>7. f[1] = MSG(Len(p)) /\ f[2] = CRLF /\ \A u \in 1..Len(p) : f[2 + u] = p[u]
  <2> DEFINE g == <<MSG(Len(p)), CRLF>> \o p
  <2>1. \A i \in 1..(Len(p) + 2) : g[i] = IF i <= 2 THEN <<MSG(Len(p)), CRLF>>[i] ELSE p[i - 2]
    BY <1>1, <1>2, ConcatProperties
  <2> HIDE DEF g
  <2>2. g[1] = MSG(Len(p)) /\ g[2] = CRLF
    BY <1>1, <2>1
  <2>3. \A u \in 1..Len(p) : g[2 + u] = p[u]
    BY <1>1, <2>1
  <2>4. \A i \in 1..(Len(p) + 2) : f[i] = g[i]
    BY <1>6 DEF g
  <2> HIDE DEF f
  <2>. QED
    BY <1>1, <2>2, <2>3, <2>4
<1>8. Framed(f, sentOn[c], Append(sentOn[c], p))
  BY <1>1, <1>5, <1>7 DEF Framed
<1>9. ((wire[c] \o <<MSG(Len(p)), CRLF>>) \o p) \o <<CRLF>> = wire[c] \o f
  <2>1. wire[c] \in Seq(Units)
    BY OfConsumer
  <2>2. \A x, y, z \in Seq(Units) : (x \o y) \o z = x \o (y \o z)
    BY ConcatAssociative
  <2>3. (wire[c] \o <<MSG(Len(p)), CRLF>>) \o p = wire[c] \o (<<MSG(Len(p)), CRLF>> \o p)
    BY <1>1, <1>2, <2>1, <2>2, Zenon
  <2>4. (wire[c] \o (<<MSG(Len(p)), CRLF>> \o p)) \o <<CRLF>> = wire[c] \o f
    BY <1>2, <1>3, <2>1, <2>2, Zenon
  <2>. QED
    BY <2>3, <2>4
<1> HIDE DEF f
<1>10. Up(c) = TRUE /\ Up(c)' = TRUE
  BY DEF Deliver, Up, QueueInv, QueueShape
<1>11. wire'[c] = wire[c] \o f /\ sentOn'[c] = Append(sentOn[c], p)
  BY <1>9 DEF Deliver, QueueInv, QueueShape, p
<1>12. InStep(buffer[c], wire[c] \o f, Len(handled[c]), Append(sentOn[c], p), TRUE)
  BY <1>5, <1>8, <1>10, OfConsumer, SendingKeepsStep
<1>13. Stands(c)'
  BY <1>10, <1>11, <1>12 DEF Deliver, Stands
<1>14. wire[c] \o f \in Seq(Units) /\ Append(sentOn[c], p) \in Seq(Seq(Units))
  BY <1>1, <1>5, OfConsumer, ConcatProperties, AppendProperties
<1>15. QueueShape'
  BY <1>11, <1>14 DEF Deliver, QueueInv, QueueShape
<1>16. HandedInOrder(c)'
  <2>1. Len(sentOn'[c]) = Len(sentOn[c]) + 1 /\ \A k \in 1..Len(sentOn[c]) : sentOn'[c][k] = sentOn[c][k]
    BY <1>1, <1>11, OfConsumer, AppendProperties
  <2>2. handled'[c] = handled[c] /\ Len(sentOn[c]) \in Nat /\ Len(handled[c]) \in Nat
    BY OfConsumer DEF Deliver
  <2>. QED
    BY <2>1, <2>2 DEF QueueInv, HandedInOrder
<1>. QED
  BY <1>13, <1>15, <1>16, OthersStayInStep DEF Deliver, QueueInv, QueueShape

LEMMA SendPingKeeps ==
  ASSUME QueueInv, NEW c \in Consumer, SendPing(c)
  PROVE  QueueInv'
<1> DEFINE f == <<PING, CRLF>>
<1>1. f \in Seq(Units) /\ Framed(f, sentOn[c], sentOn[c])
  BY UnitsDiffer DEF Framed
<1>2. Up(c) = TRUE /\ Up(c)' = TRUE
  BY DEF SendPing, Up, QueueInv, QueueShape
<1>3. wire'[c] = wire[c] \o f
  BY DEF SendPing, QueueInv, QueueShape
<1> HIDE DEF f
<1>4. InStep(buffer[c], wire[c] \o f, Len(handled[c]), sentOn[c], TRUE)
  BY <1>1, <1>2, OfConsumer, SendingKeepsStep
<1>5. Stands(c)'
  BY <1>2, <1>3, <1>4 DEF SendPing, Stands
<1>6. wire[c] \o f \in Seq(Units)
  BY <1>1, OfConsumer, ConcatProperties
<1>7. QueueShape'
  BY <1>3, <1>6 DEF SendPing, QueueInv, QueueShape
<1>8. HandedInOrder(c)'
  BY DEF SendPing, QueueInv, HandedInOrder
<1>. QED
  BY <1>5, <1>7, <1>8, OthersStayInStep DEF SendPing, QueueInv, QueueShape

LEMMA LoseConnectionKeeps ==
  ASSUME QueueInv, NEW c \in Consumer, LoseConnection(c)
  PROVE  QueueInv'
<1>1. PICK n \in 0..Len(wire[c]) : wire' = [wire EXCEPT ![c] = SubSeq(@, 1, n)]
  BY DEF LoseConnection
<1>2. wire'[c] = SubSeq(wire[c], 1, n)
  BY <1>1 DEF QueueInv, QueueShape
<1>3. Up(c)' = FALSE
  BY DEF LoseConnection, Up, QueueInv, QueueShape
<1>4. InStep(buffer[c], SubSeq(wire[c], 1, n), Len(handled[c]), sentOn[c], FALSE)
  BY OfConsumer, LossKeepsStep
<1>5. Stands(c)'
  BY <1>2, <1>3, <1>4 DEF LoseConnection, Stands
<1>6. SubSeq(wire[c], 1, n) \in Seq(Units)
  BY OfConsumer
<1>7. QueueShape'
  BY <1>1, <1>6 DEF LoseConnection, QueueInv, QueueShape
<1>8. HandedInOrder(c)'
  BY DEF LoseConnection, QueueInv, HandedInOrder
<1>. QED
  BY <1>1, <1>5, <1>7, <1>8, OthersStayInStep DEF LoseConnection, QueueInv, QueueShape

LEMMA SubscribeKeeps ==
  ASSUME QueueInv, NEW c \in Consumer, SubscribeTo(c)
  PROVE  QueueInv'
<1>1. CASE stopEvent[c]
  BY <1>1 DEF SubscribeTo, QueueInv, QueueShape, Stands, HandedInOrder, Up
<1>2. CASE ~stopEvent[c]
  <2>1. /\ linked' = [linked EXCEPT ![c] = TRUE] /\ silent' = silent \ {c}
        /\ buffer' = [buffer EXCEPT ![c] = <<>>] /\ wire' = [wire EXCEPT ![c] = <<>>]
        /\ sentOn' = [sentOn EXCEPT ![c] = <<>>] /\ handled' = [handled EXCEPT ![c] = <<>>]
    BY <1>2 DEF SubscribeTo, Cleared
  <2>2. buffer'[c] = <<>> /\ wire'[c] = <<>> /\ sentOn'[c] = <<>> /\ handled'[c] = <<>>
    BY <2>1 DEF QueueInv, QueueShape
  <2>3. QueueShape'
    BY <2>1 DEF QueueInv, QueueShape
  <2>4. Up(c)' \in BOOLEAN
    BY DEF Up, QueueInv, QueueShape
  <2>5. InStep(<<>>, <<>>, 0, <<>>, Up(c)')
    BY <2>4, NothingSent
  <2>6. Stands(c)' /\ HandedInOrder(c)'
    BY <2>2, <2>5 DEF Stands, HandedInOrder
  <2>. QED
    BY <2>1, <2>3, <2>6, OthersStayInStep DEF QueueInv, QueueShape
<1>. QED
  BY <1>1, <1>2

LEMMA RecvKeeps ==
  ASSUME QueueInv, NEW c \in Consumer, RecvChunk(c)
  PROVE  QueueInv'
<1>1. PICK n \in 1..MaxChunk :
        /\ n <= Len(wire[c])
        /\ buffer' = [buffer EXCEPT ![c] = @ \o SubSeq(wire[c], 1, n)]
        /\ wire' = [wire EXCEPT ![c] = SubSeq(@, n + 1, Len(@))]
  BY DEF RecvChunk
<1>2. n \in 0..Len(wire[c])
  BY <1>1, OfConsumer, QueueAssumption
<1>3. buffer'[c] = buffer[c] \o SubSeq(wire[c], 1, n) /\ wire'[c] = SubSeq(wire[c], n + 1, Len(wire[c]))
  BY <1>1 DEF QueueInv, QueueShape
<1>4. InStep(buffer[c] \o SubSeq(wire[c], 1, n), SubSeq(wire[c], n + 1, Len(wire[c])), Len(handled[c]), sentOn[c], Up(c))
  BY <1>2, OfConsumer, RecvKeepsStep
<1>5. Stands(c)'
  BY <1>3, <1>4 DEF RecvChunk, Stands, Up
<1>6. SubSeq(wire[c], 1, n) \in Seq(Units) /\ SubSeq(wire[c], n + 1, Len(wire[c])) \in Seq(Units)
  BY <1>2, OfConsumer
<1>7. buffer[c] \o SubSeq(wire[c], 1, n) \in Seq(Units)
  BY <1>6, OfConsumer, ConcatProperties
<1>8. QueueShape'
  BY <1>1, <1>6, <1>7 DEF RecvChunk, QueueInv, QueueShape
<1>9. HandedInOrder(c)'
  BY DEF RecvChunk, QueueInv, HandedInOrder
<1>. QED
  BY <1>1, <1>5, <1>8, <1>9, OthersStayInStep DEF RecvChunk, QueueInv, QueueShape

LEMMA ParseMessageKeeps ==
  ASSUME QueueInv, NEW c \in Consumer, ParseMessage(c)
  PROVE  QueueInv'
<1> DEFINE b == buffer[c]  done == Len(handled[c])  p == sentOn[c][done + 1]  r == Rest(b)
           cut == SubSeq(r, b[1].size + 2, Len(r))  payload == SubSeq(r, 1, b[1].size)
<1>1. /\ NewlineAt(b) > 1 /\ b[1].text = "MSG" /\ Len(r) >= b[1].size + 1
      /\ buffer' = [buffer EXCEPT ![c] = cut] /\ Handle(c, payload)
      /\ UNCHANGED <<silent, wire, sentOn>>
  BY DEF ParseMessage, IsLine, Whole
<1>2. NewlineAt(b) > 0
  <2>1. b \in Seq(Units)
    BY OfConsumer
  <2>2. NewlineAt(b) \in Nat
    <3>1. Len(b) > 0 => b[1] # CRLF
      BY OfConsumer, HeadIsFrame
    <3>2. CASE Len(b) <= 1
      BY <2>1, <3>1, <3>2, NewlineOfFrame
    <3>3. CASE Len(b) > 1
      <4>1. b[2] = CRLF
        BY OfConsumer, HeadIsFrame, <2>1, <3>3
      <4>. QED
        BY <2>1, <3>1, <3>3, <4>1, NewlineOfFrame
    <3>. QED
      BY <2>1, <3>2, <3>3
  <2>. QED
    BY <1>1, <2>2
<1>3. Len(b) > 1 /\ r = SubSeq(b, 3, Len(b)) /\ Ahead(b, wire[c], done, sentOn[c], Up(c))
  BY <1>2, OfConsumer, LineIsHead
<1>4. /\ done < Len(sentOn[c]) /\ b[1] = MSG(Len(p)) /\ Len(p) \in Nat
      /\ Len(b) >= Len(p) + 3 =>
           /\ \A u \in 1..Len(p) : b[2 + u] = p[u]
           /\ InStep(SubSeq(b, Len(p) + 4, Len(b)), wire[c], done + 1, sentOn[c], Up(c))
  <2>1. b[1] # PING
    BY <1>1, UnitsDiffer
  <2>. QED
    BY <1>3, <2>1 DEF Ahead
<1>5. p \in Seq(Units)
  <2>1. done + 1 \in 1..Len(sentOn[c])
    BY <1>4, OfConsumer
  <2>. QED
    BY <2>1, OfConsumer
<1>6. b[1].size = Len(p)
  BY <1>4, UnitsDiffer
<1>7. /\ Len(b) >= Len(p) + 3
      /\ (\A u \in 1..Len(p) : b[2 + u] = p[u]) => SubSeq(r, 1, Len(p)) = p
      /\ SubSeq(r, Len(p) + 2, Len(r)) = SubSeq(b, Len(p) + 4, Len(b))
  <2>1. b \in Seq(Units) /\ Len(r) >= Len(p) + 1
    BY <1>1, <1>6, OfConsumer
  <2> HIDE DEF b, r, p
  <2>. QED
    BY <1>3, <1>5, <2>1, CutsOfMessage
<1>8. payload = p /\ cut = SubSeq(b, Len(p) + 4, Len(b))
  BY <1>4, <1>6, <1>7
<1>9. InStep(cut, wire[c], done + 1, sentOn[c], Up(c))
  BY <1>4, <1>7, <1>8
<1>10. cut \in Seq(Units)
  <2>1. Len(b) \in Nat /\ Len(p) + 3 \in 0..Len(b) /\ (Len(p) + 3) + 1 = Len(p) + 4
    BY <1>4, <1>7, OfConsumer
  <2>2. \A q \in Seq(Units) : \A n \in 0..Len(q) : SubSeq(q, n + 1, Len(q)) \in Seq(Units)
    OBVIOUS
  <2>3. b \in Seq(Units)
    BY OfConsumer
  <2> HIDE DEF b, p, cut
  <2>. QED
    BY <1>8, <2>1, <2>2, <2>3, Zenon
<1> HIDE DEF b, done, p, r, cut, payload
<1>11. /\ handled' = [handled EXCEPT ![c] = Append(@, p)] /\ linked' \in [Consumer -> BOOLEAN]
       /\ Up(c)' => Up(c)
       /\ \A d \in Consumer \ {c} : linked'[d] = linked[d]
  BY <1>1, <1>8 DEF Handle, Leave, Up, QueueInv, QueueShape
<1>12. buffer'[c] = cut /\ handled'[c] = Append(handled[c], p) /\ wire'[c] = wire[c] /\ sentOn'[c] = sentOn[c]
  BY <1>1, <1>11 DEF QueueInv, QueueShape
<1>13. /\ Append(handled[c], p) \in Seq(Seq(Units)) /\ Len(Append(handled[c], p)) = done + 1
       /\ Append(handled[c], p)[done + 1] = p
       /\ \A k \in 1..done : Append(handled[c], p)[k] = handled[c][k]
  BY <1>5, OfConsumer, AppendProperties DEF done
<1>14. InStep(cut, wire[c], done + 1, sentOn[c], Up(c)')
  <2>1. Up(c)' \in BOOLEAN
    BY <1>11 DEF Up
  <2>. QED
    BY <1>9, <1>11, <2>1, OfConsumer, LessIsRequired
<1>15. Stands(c)'
  BY <1>12, <1>13, <1>14 DEF Stands
<1>16. QueueShape'
  BY <1>1, <1>10, <1>11, <1>13 DEF QueueInv, QueueShape
<1>17. HandedInOrder(c)'
  <2>1. done \in Nat /\ Len(sentOn[c]) \in Nat
    BY OfConsumer DEF done
  <2>2. \A k \in 1..done : handled[c][k] = sentOn[c][k]
    BY DEF QueueInv, HandedInOrder, done
  <2>3. \A k \in 1..(done + 1) : Append(handled[c], p)[k] = sentOn[c][k]
    <3>. TAKE k \in 1..(done + 1)
    <3>1. CASE k = done + 1
      BY <1>13, <3>1 DEF p
    <3>2. CASE k # done + 1
      <4>1. k \in 1..done
        BY <2>1, <3>2
      <4>. QED
        BY <1>13, <2>2, <4>1
    <3>. QED
      BY <3>1, <3>2
  <2>4. done + 1 <= Len(sentOn[c])
    BY <1>4, <2>1 DEF done
  <2>. QED
    BY <1>12, <1>13, <2>3, <2>4 DEF HandedInOrder
<1>. QED
  BY <1>1, <1>11, <1>15, <1>16, <1>17, OthersStayInStep DEF QueueInv, QueueShape

LEMMA ParseLineKeeps ==
  ASSUME QueueInv, NEW c \in Consumer, ParseLine(c)
  PROVE  QueueInv'
<1> DEFINE b == buffer[c]  done == Len(handled[c])
<1>1. /\ NewlineAt(b) > 0 /\ ~IsLine(b, "MSG") /\ buffer' = [buffer EXCEPT ![c] = Rest(b)]
      /\ UNCHANGED <<silent, wire, linked, sentOn, handled>>
  BY DEF ParseLine
<1>2. /\ Len(b) > 1 /\ NewlineAt(b) = 2 /\ Rest(b) = SubSeq(b, 3, Len(b))
      /\ Ahead(b, wire[c], done, sentOn[c], Up(c))
  BY <1>1, OfConsumer, LineIsHead
<1>3. b[1].text # "MSG"
  BY <1>1, <1>2 DEF IsLine
<1>4. InStep(Rest(b), wire[c], done, sentOn[c], Up(c))
  BY <1>2, <1>3, UnitsDiffer DEF Ahead
<1>5. Rest(b) \in Seq(Units)
  BY <1>2, OfConsumer
<1>6. buffer'[c] = Rest(b)
  BY <1>1 DEF QueueInv, QueueShape
<1>7. Stands(c)'
  BY <1>1, <1>4, <1>6 DEF Stands, Up
<1>8. QueueShape'
  BY <1>1, <1>5 DEF QueueInv, QueueShape
<1>9. HandedInOrder(c)'
  BY <1>1 DEF QueueInv, HandedInOrder
<1>. QED
  BY <1>1, <1>7, <1>8, <1>9, OthersStayInStep DEF QueueInv, QueueShape

LEMMA QueueStepKeeps == QueueInv /\ [QueueNext]_QueueVars => QueueInv'
<1>. SUFFICES ASSUME QueueInv, [QueueNext]_QueueVars PROVE QueueInv'
  OBVIOUS
<1>1. CASE UNCHANGED QueueVars
  BY <1>1, FlagsKeepStep DEF QueueVars, Up, QueueInv, QueueShape
<1>2. ASSUME NEW c \in Consumer,
             ConsumerStep(c) \/ SendPing(c) \/ LoseConnection(c) \/ Signal(c) \/ \E m \in Message : Deliver(c, m)
      PROVE  QueueInv'
  <2>1. CASE SubscribeTo(c)
    BY <2>1, SubscribeKeeps
  <2>2. CASE CheckStop(c)
    BY <2>2, FlagsKeepStep DEF CheckStop, Leave, Up, QueueInv, QueueShape
  <2>3. CASE RecvChunk(c)
    BY <2>3, RecvKeeps
  <2>4. CASE RecvTimeout(c)
    BY <2>4, FlagsKeepStep DEF RecvTimeout, Up, QueueInv, QueueShape
  <2>5. CASE RecvClosed(c)
    BY <2>5, FlagsKeepStep DEF RecvClosed, Up, QueueInv, QueueShape
  <2>6. CASE ParseMessage(c)
    BY <2>6, ParseMessageKeeps
  <2>7. CASE ParseLine(c)
    BY <2>7, ParseLineKeeps
  <2>8. CASE ParseMore(c)
    BY <2>8, FlagsKeepStep DEF ParseMore, Up, QueueInv, QueueShape
  <2>9. CASE SendPing(c)
    BY <2>9, SendPingKeeps
  <2>10. CASE LoseConnection(c)
    BY <2>10, LoseConnectionKeeps
  <2>11. CASE Signal(c)
    BY <2>11, FlagsKeepStep DEF Signal, Up, QueueInv, QueueShape
  <2>12. CASE \E m \in Message : Deliver(c, m)
    BY <2>12, DeliverKeeps
  <2>. QED
    BY <1>2, <2>1, <2>2, <2>3, <2>4, <2>5, <2>6, <2>7, <2>8, <2>9, <2>10, <2>11, <2>12 DEF ConsumerStep
<1>. QED
  BY <1>1, <1>2 DEF QueueNext

\* Payloads handed over in order are a prefix of those that were sent.
LEMMA HandedIsPrefix == QueueInv => FramesAreWhole
<1>. SUFFICES ASSUME QueueInv, NEW c \in Consumer PROVE IsPrefix(handled[c], sentOn[c])
  BY DEF FramesAreWhole
<1> DEFINE h == handled[c]  s == sentOn[c]  n == Len(h)
<1>1. h \in Seq(Seq(Units)) /\ s \in Seq(Seq(Units)) /\ n \in Nat
  BY OfConsumer
<1>2. n <= Len(s) /\ \A k \in 1..n : h[k] = s[k]
  BY DEF QueueInv, HandedInOrder
<1> HIDE DEF h, s
<1>3. SubSeq(h, 1, n) \in Seq(Seq(Units)) /\ Len(SubSeq(h, 1, n)) = n /\ \A k \in 1..n : SubSeq(h, 1, n)[k] = h[k]
  BY <1>1
<1>4. SubSeq(s, 1, n) \in Seq(Seq(Units)) /\ Len(SubSeq(s, 1, n)) = n /\ \A k \in 1..n : SubSeq(s, 1, n)[k] = s[k]
  BY <1>1, <1>2
<1>5. SubSeq(h, 1, n) = SubSeq(s, 1, n)
  BY <1>2, <1>3, <1>4, SeqEqual
<1>. QED
  BY <1>2, <1>5 DEF IsPrefix, h, s

\* However the stream is cut into chunks, whatever the payloads look like, and
\* however often a connection is lost, falls silent or is opened again, the
\* parser of app/queue_publisher.py hands the handler the payloads that were
\* sent on the connection, whole and in order.
THEOREM FramesStayWhole == QueueInit /\ [][QueueNext]_QueueVars => []FramesAreWhole
<1>1. QueueInit => QueueInv
  BY QueueStarts
<1>2. QueueInv /\ [QueueNext]_QueueVars => QueueInv'
  BY QueueStepKeeps
<1>3. QueueInv => FramesAreWhole
  BY HandedIsPrefix
<1>. QED
  BY <1>1, <1>2, <1>3, PTL

=============================================================================
