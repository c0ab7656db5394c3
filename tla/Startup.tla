------------------------------- MODULE Startup -------------------------------
(***************************************************************************)
(* Replicas of the API that start against one database (app/main.py,       *)
(* lifespan; app/db.py, init_db): each brings the schema up to date,       *)
(* makes the default site, gives rows of a release without sites to it,    *)
(* and loads the seed zones (app/sites.py, app/zones.py).  Whatever it     *)
(* needs it looks for first and makes then, on the strength of what it has *)
(* seen, so that two of them can get in each other's way; one that fails   *)
(* is started again (docker-compose.yml).                                  *)
(*                                                                         *)
(* Of the data only the zones' names and whether their rows have a site    *)
(* are kept: they are what a unique index can refuse.                      *)
(***************************************************************************)
EXTENDS Naturals, FiniteSets

CONSTANTS
  Process,
  ZoneName, Seeds,  \* names of zones; those of the seed file
  Found,            \* the databases a first process may find
  MaxKills          \* bound on the processes that are killed

ASSUME StartupAssumption == Seeds \subseteq ZoneName /\ MaxKills \in Nat

VARIABLES
  tables, columns, \* what there is of the schema
  filterShape,     \* of track_kalman_state: "old" or "new"
  uniqueZone,      \* idx_zone_site_id_name exists
  defaultSite,     \* the row of the default site exists
  sited, siteless, \* of each name, the zones with and without a site
  boot,          \* what each process does next
  saw,             \* what its inspection found to alter, and it has yet to
  todo,            \* seed zones it has yet to load
  kills

StartupVars == <<tables, columns, filterShape, uniqueZone, defaultSite, sited, siteless, boot, saw, todo, kills>>
Schema == <<tables, columns, filterShape, uniqueZone>>

-----------------------------------------------------------------------------
(* The schema. *)

\* schema.py
AllTables == {"site", "zone", "track", "track_kalman_state", "detection", "incident", "sensor_registry",
              "authorized_operator", "audit_log", "api_key_usage", "rate_limit_bucket"}

\* _TABLE_MIGRATION_COLUMNS
AddedTo == [
  track |-> {"heading_deg", "speed_mps", "position_uncertainty_m", "maneuver_probability", "site_id",
             "aircraft_category", "classification_confidence"},
  authorized_operator |-> {"public_key", "site_id"},
  detection |-> {"georeferenced", "site_id", "human_label"},
  zone |-> {"site_id"},
  incident |-> {"site_id", "related_track_id"},
  sensor_registry |-> {"site_id"}]
Added(ts) == UNION {{<<t, c>> : c \in AddedTo[t]} : t \in ts \cap DOMAIN AddedTo}

NoRows == [n \in ZoneName |-> 0]

\* A database that is empty, one of the release before sites, one after it
\* without the unique index, and what the Alembic revisions make.
Databases == {
  [kind |-> "empty", tables |-> {}, columns |-> {}, shape |-> "new", unique |-> FALSE],
  [kind |-> "no_sites", tables |-> DOMAIN AddedTo \cup {"track_kalman_state"},
   columns |-> Added(DOMAIN AddedTo) \ {<<t, "site_id">> : t \in DOMAIN AddedTo}, shape |-> "old", unique |-> FALSE],
  [kind |-> "sites", tables |-> AllTables \ {"rate_limit_bucket"}, columns |-> Added(AllTables),
   shape |-> "new", unique |-> FALSE]}

\* The baseline, related_track_id and rate_limit_bucket revisions.
AfterHead == [kind |-> "head", tables |-> AllTables,
   columns |-> Added(AllTables) \ {<<"track", "aircraft_category">>, <<"track", "classification_confidence">>,
                                    <<"detection", "human_label">>},
   shape |-> "new", unique |-> FALSE]

\* Rows that may be there: before sites they have none, and names may repeat.
RowsOf(kind) ==
  CASE kind = "no_sites" -> [sited : {NoRows}, siteless : [ZoneName -> 0..1], site : {FALSE}]
    [] kind = "no_sites_repeated" -> [sited : {NoRows}, siteless : [ZoneName -> 0..2], site : {FALSE}]
    [] kind = "sites" -> [sited : [ZoneName -> 0..2], siteless : {NoRows}, site : {TRUE}]
    [] OTHER -> [sited : {NoRows}, siteless : {NoRows}, site : {FALSE}]

StartupInit ==
  /\ \E d \in Databases \cup {AfterHead}, f \in Found : \E rows \in RowsOf(f) :
       /\ f = d.kind \/ (f = "no_sites_repeated" /\ d.kind = "no_sites")
       /\ tables = d.tables /\ columns = d.columns /\ filterShape = d.shape /\ uniqueZone = d.unique
       /\ sited = rows.sited /\ siteless = rows.siteless /\ defaultSite = rows.site
  /\ boot = [p \in Process |-> "filter"]
  /\ saw = [p \in Process |-> {}]
  /\ todo = [p \in Process |-> Seeds]
  /\ kills = 0

Stages == {"filter", "create", "columns", "unique", "get_site", "make_site", "backfill", "seed", "make_seed", "serving", "crashed"}

StartupTypeOK ==
  /\ tables \subseteq AllTables /\ columns \subseteq Added(AllTables)
  /\ sited \in [ZoneName -> Nat] /\ siteless \in [ZoneName -> Nat]
  /\ boot \in [Process -> Stages] /\ DOMAIN saw = Process
  /\ \A p \in Process : saw[p] \subseteq IF boot[p] = "columns" THEN Added(AllTables) ELSE AllTables
  /\ todo \in [Process -> SUBSET Seeds]

To(p, s) == boot' = [boot EXCEPT ![p] = s]
Crash(p) == To(p, "crashed") /\ UNCHANGED <<Schema, defaultSite, sited, siteless>>

-----------------------------------------------------------------------------
(* init_db: each of its first steps inspects the schema and then alters it. *)

FilterTable == {"track_kalman_state"}

\* The tables to drop, the tables to make, the columns to add.
Needed(s) ==
  CASE s = "filter"  -> {t \in FilterTable \cap tables : filterShape = "old"}
    [] s = "create"  -> AllTables \ tables
    [] s = "columns" -> Added(tables) \ columns
    [] OTHER -> {}

After(s) == CASE s = "filter" -> "create" [] s = "create" -> "columns" [] s = "columns" -> "unique"

Inspect(p) ==
  LET s == boot[p] IN
  /\ s \in {"filter", "create", "columns"} /\ saw[p] = {}
  /\ IF Needed(s) # {} THEN saw' = [saw EXCEPT ![p] = Needed(s)] /\ UNCHANGED boot
     ELSE To(p, After(s)) /\ UNCHANGED saw
  /\ UNCHANGED <<Schema, defaultSite, sited, siteless, todo, kills>>

\* DROP TABLE needs a table, CREATE TABLE and ADD COLUMN need none of the name.
Possible(s, seen) ==
  CASE s = "filter"  -> seen \subseteq tables
    [] s = "create"  -> seen \cap tables = {}
    [] s = "columns" -> seen \cap columns = {}

\* The drop takes the table of the name, in whatever shape it is by now; create_all
\* makes what it has found missing, with every index of those tables.
Altered(s, seen) ==
  CASE s = "filter"  -> tables' = tables \ seen /\ filterShape' = "new" /\ UNCHANGED <<columns, uniqueZone>>
    [] s = "create"  -> /\ tables' = tables \cup seen
                        /\ columns' = columns \cup Added(seen)
                        /\ uniqueZone' = (uniqueZone \/ "zone" \in seen)
                        /\ UNCHANGED filterShape
    [] s = "columns" -> columns' = columns \cup seen /\ UNCHANGED <<tables, filterShape, uniqueZone>>

\* What was seen is altered, without a second look.
Alter(p) ==
  LET s == boot[p] IN
  /\ s \in {"filter", "create", "columns"} /\ saw[p] # {}
  /\ IF Possible(s, saw[p])
       THEN Altered(s, saw[p]) /\ To(p, After(s)) /\ UNCHANGED <<defaultSite, sited, siteless>>
       ELSE Crash(p)
  /\ saw' = [saw EXCEPT ![p] = {}]
  /\ UNCHANGED <<todo, kills>>

Repeated(rows) == \E n \in ZoneName : rows[n] > 1

\* A bug: the IntegrityError is not caught.
FailOnRepeated(p) == To(p, "crashed")

\* It is logged, and the index stays missing.
GoOnWithoutIndex(p) == To(p, "get_site")

\* _migrate_indexes; rows whose site is NULL are all distinct to the index.
MakeUniqueIndex(p) ==
  /\ boot[p] = "unique"
  /\ IF ~uniqueZone /\ Repeated(sited)
       THEN GoOnWithoutIndex(p) /\ UNCHANGED uniqueZone
       ELSE uniqueZone' = TRUE /\ To(p, "get_site")
  /\ UNCHANGED <<tables, columns, filterShape, defaultSite, sited, siteless, saw, todo, kills>>

\* ensure_default_site
GetDefaultSite(p) ==
  /\ boot[p] = "get_site"
  /\ To(p, IF defaultSite THEN "backfill" ELSE "make_site")
  /\ UNCHANGED <<Schema, defaultSite, sited, siteless, saw, todo, kills>>

MakeDefaultSite(p) ==
  /\ boot[p] = "make_site"
  /\ IF defaultSite THEN Crash(p)
     ELSE defaultSite' = TRUE /\ To(p, "backfill") /\ UNCHANGED <<Schema, sited, siteless>>
  /\ UNCHANGED <<saw, todo, kills>>

\* A bug: rows are looked for with IS NOT NULL.
SitedRows(n) == sited[n]

\* WHERE site_id IS NULL
RowsToAdopt(n) == siteless[n]

\* _backfill_site_id_columns, one transaction.
Backfill(p) ==
  LET adopted == [n \in ZoneName |-> sited[n] + RowsToAdopt(n)] IN
  /\ boot[p] = "backfill"
  /\ IF uniqueZone /\ Repeated(adopted) THEN Crash(p)
     ELSE /\ sited' = adopted
          /\ siteless' = [n \in ZoneName |-> siteless[n] - RowsToAdopt(n)]
          /\ To(p, "seed") /\ UNCHANGED <<Schema, defaultSite>>
  /\ UNCHANGED <<saw, todo, kills>>

-----------------------------------------------------------------------------
(* load_zones_from_file, and on to serving. *)

GetSeed(p) ==
  /\ boot[p] = "seed"
  /\ IF todo[p] = {} THEN To(p, "serving") /\ UNCHANGED todo
     ELSE LET n == CHOOSE m \in todo[p] : TRUE IN
          IF sited[n] > 0 THEN todo' = [todo EXCEPT ![p] = @ \ {n}] /\ UNCHANGED boot
          ELSE To(p, "make_seed") /\ UNCHANGED todo
  /\ UNCHANGED <<Schema, defaultSite, sited, siteless, saw, kills>>

MakeSeed(p) ==
  LET n == CHOOSE m \in todo[p] : TRUE IN
  /\ boot[p] = "make_seed"
  /\ IF uniqueZone /\ sited[n] > 0 THEN Crash(p) /\ UNCHANGED todo
     ELSE /\ sited' = [sited EXCEPT ![n] = @ + 1]
          /\ todo' = [todo EXCEPT ![p] = @ \ {n}]
          /\ To(p, "seed") /\ UNCHANGED <<Schema, defaultSite, siteless>>
  /\ UNCHANGED <<saw, kills>>

\* restart: unless-stopped
Restart(p) ==
  /\ boot[p] = "crashed"
  /\ To(p, "filter")
  /\ todo' = [todo EXCEPT ![p] = Seeds]
  /\ UNCHANGED <<Schema, defaultSite, sited, siteless, saw, kills>>

Kill(p) ==
  /\ boot[p] # "crashed" /\ kills < MaxKills
  /\ kills' = kills + 1
  /\ Crash(p)
  /\ saw' = [saw EXCEPT ![p] = {}]
  /\ UNCHANGED todo

StartupStep(p) ==
  \/ Inspect(p) \/ Alter(p) \/ MakeUniqueIndex(p) \/ GetDefaultSite(p) \/ MakeDefaultSite(p)
  \/ Backfill(p) \/ GetSeed(p) \/ MakeSeed(p) \/ Restart(p)

StartupNext == \E p \in Process : StartupStep(p) \/ Kill(p)

StartupFairness == \A p \in Process : WF_StartupVars(StartupStep(p))

StartupSpec == StartupInit /\ [][StartupNext]_StartupVars /\ StartupFairness

-----------------------------------------------------------------------------
\* Whatever replicas do to each other while they start, each of them serves in
\* the end, over a database whose zone names repeat within a site as well: the index
\* they prevent must not take startup down with it (_migrate_indexes).  Not so over
\* one from before sites whose zone names repeat ("no_sites_repeated"): there the
\* index is made while no row has a site, and the backfill violates it every time.
EveryReplicaStarts == \A p \in Process : []<>(boot[p] = "serving")

\* A replica that is to go through create_all, or has seen there that the filter
\* table is missing.
WillMakeFilterTable(p) ==
  \/ boot[p] \in {"filter", "crashed"}
  \/ boot[p] = "create" /\ (saw[p] = {} \/ FilterTable \subseteq saw[p])

\* A replica serves only on a database that is complete, whichever replica made
\* the last of it and wherever one was killed before: every column, a default site,
\* every seed zone, no row without a site, and every table but one.  The drop of the
\* filter table by a replica that inspected it early may take the new one from
\* under a replica that serves, but only while one is still to make it again.
ServesMigrated ==
  (\E p \in Process : boot[p] = "serving") =>
    /\ AllTables \ FilterTable \subseteq tables
    /\ FilterTable \subseteq tables \/ \E p \in Process : WillMakeFilterTable(p)
    /\ columns = Added(AllTables) /\ filterShape = "new" /\ defaultSite
    /\ siteless = NoRows /\ \A n \in Seeds : sited[n] > 0

\* What _migrate_kalman_state_table counts on: while the API serves there is a table
\* for its filters.  No invariant of StartupSpec: two replicas may both have seen
\* the old one.
ServesWithFilterTable == (\E p \in Process : boot[p] = "serving") => FilterTable \subseteq tables
=============================================================================
