-------------------------------- MODULE Keys --------------------------------
(***************************************************************************)
(* Who a request acts as (app/auth.py): an API key looked up in a file     *)
(* that administrators rotate while the API runs (app/config.py,           *)
(* scripts/rotate_api_key.py), or the session cookie of a single sign-on   *)
(* (app/oidc.py, app/sso_session.py, app/api/auth_sso.py), and the record  *)
(* of a key's use that GET /api/admin/keys shows (app/api/keys.py).        *)
(*                                                                         *)
(* A request looks at the file's modification time, at the cache of what   *)
(* the file said, and may read the file: three steps, and the threads of   *)
(* several requests and the replacing of the file interleave between them. *)
(* The versions the file has had are kept; a version's number stands for   *)
(* its modification time, which is the same for Granularity versions       *)
(* written in a row when the file system's clock is coarser than they are. *)
(***************************************************************************)
EXTENDS Integers, Sequences, FiniteSets

CONSTANTS
  Key,           \* API keys
  Admin,         \* processes of rotate_api_key.py, or of an editor
  Request,       \* threads of the API
  AdminKey,      \* DRONE_API_KEY: {}, or one key
  SiteName,      \* the sites there are
  Entry,         \* what a file may say of a key
  Need,          \* the roles the endpoints ask for: each a set of roles
  Claim,         \* role claims of the identity provider
  Granularity,
  FlushInterval, MaxAge,          \* _KEY_USAGE_FLUSH_INTERVAL_S, of a session
  MaxLatency,                     \* bound on the time a request takes
  MaxTime, MaxVersions, MaxFailures  \* bounds on the clock, the file's versions and the database's errors

Role == {"ingest", "viewer", "operator", "admin"}

ASSUME KeysAssumption ==
  /\ AdminKey \subseteq Key /\ Key \cap {"none", "missing"} = {}
  /\ Entry \subseteq [role : Role, site : SiteName \cup {"unknown", "none"}, revoked : BOOLEAN, expires : Nat]
  /\ Need \subseteq SUBSET Role
  /\ {MaxAge, MaxLatency, MaxTime, MaxVersions, MaxFailures} \subseteq Nat
  /\ {FlushInterval, Granularity} \subseteq Nat \ {0}

VARIABLES
  clock,         \* utcnow() and time.monotonic()
  versions,      \* what DRONE_API_KEYS_FILE has said, the last now
  secretCache,   \* _secret_file_cache: the modification time and what was read
  rotation,      \* what each administrator's process does next, and what it read
  lastFlushed,   \* _last_flushed_at; -1: no entry
  keyUsage,      \* the table api_key_usage
  request,       \* the request each thread works on
  lastUsed,      \* history: when a request with the key was last accepted; -1
  dbFailures     \* database errors so far

KeysVars == <<clock, versions, secretCache, rotation, lastFlushed, keyUsage, request, lastUsed, dbFailures>>

NoFile   == [k \in {"missing"} |-> TRUE]
NoCookie == [role |-> "none"]
IsContents(keys) == keys = NoFile \/ (DOMAIN keys \subseteq Key /\ \A k \in DOMAIN keys : keys[k].role \in Role)

Idle == [step |-> "idle"]
UsageRow == [last : Int, count : Nat]

KeysTypeOK ==
  /\ clock \in Nat
  /\ \A i \in DOMAIN versions : IsContents(versions[i])
  /\ secretCache.stamp \in Nat /\ IsContents(secretCache.keys)
  /\ lastFlushed \in [Key -> Int] /\ keyUsage \in [Key -> UsageRow]
  /\ \A r \in Request :
       request[r].step \in {"idle", "stat", "read", "store", "judge", "flush", "site"}
  /\ \A r \in Request : request[r].step = "site" => request[r].as.role \in Role

KeysInit ==
  /\ clock = 0
  /\ \E e \in Entry, k \in Key : versions \in {<<NoFile>>, <<[x \in {k} |-> e]>>}
  /\ secretCache = [stamp |-> 0, keys |-> NoFile]
  /\ rotation = [a \in Admin |-> [step |-> "idle"]]
  /\ lastFlushed = [k \in Key |-> -1]
  /\ keyUsage = [k \in Key |-> [last |-> -1, count |-> 0]]
  /\ request = [r \in Request |-> Idle]
  /\ lastUsed = [k \in Key |-> -1]
  /\ dbFailures = 0

File == versions[Len(versions)]
Stamp == Len(versions) \div Granularity + 1   \* st_mtime_ns
Go(r, s) == request' = [request EXCEPT ![r].step = s]
Over(r) == request' = [request EXCEPT ![r] = Idle]

-----------------------------------------------------------------------------
(* The file. *)

\* cmd_add and cmd_remove read the file first.
RotateRead(a) ==
  /\ rotation[a].step = "idle" /\ Len(versions) < MaxVersions
  /\ rotation' = [rotation EXCEPT ![a] = [step |-> "write", keys |-> IF File = NoFile THEN <<>> ELSE File]]
  /\ UNCHANGED <<clock, versions, secretCache, lastFlushed, keyUsage, request, lastUsed, dbFailures>>

\* add makes a key that never was; remove deletes one, if the file it read has
\* it; an editor revokes one.
Fresh == {k \in Key \ AdminKey : \A i \in DOMAIN versions : versions[i] = NoFile \/ k \notin DOMAIN versions[i]}
Changed(keys) ==
       {[k \in DOMAIN keys \cup {new} |-> IF k = new THEN e ELSE keys[k]] : new \in Fresh, e \in Entry}
  \cup {[k \in DOMAIN keys \ {old} |-> keys[k]] : old \in DOMAIN keys}
  \cup {[keys EXCEPT ![old].revoked = TRUE] : old \in DOMAIN keys}

\* _write_keys_file: os.replace.
RotateWrite(a) ==
  /\ rotation[a].step = "write" /\ Len(versions) < MaxVersions
  /\ \E keys \in Changed(rotation[a].keys) : versions' = Append(versions, keys)
  /\ rotation' = [rotation EXCEPT ![a] = [step |-> "idle"]]
  /\ UNCHANGED <<clock, secretCache, lastFlushed, keyUsage, request, lastUsed, dbFailures>>

-----------------------------------------------------------------------------
(* Sessions. *)

\* callback: a claim that names no role falls back to DRONE_OIDC_DEFAULT_ROLE,
\* and that to viewer.
RoleOf(claim, default) ==
  IF claim \in Role THEN claim ELSE IF default \in Role THEN default ELSE "viewer"

\* The cookies a login has made so far.  The server keeps none of them: logout
\* makes the browser forget its cookie, and a copy stays as good as before.
Cookies ==
  {[role |-> RoleOf(claim, default), site |-> s, issued |-> t] :
     claim \in Claim, default \in Claim, s \in SiteName \cup {"none"}, t \in 0..clock}

-----------------------------------------------------------------------------
(* A request. *)

\* _ROLE_IMPLIES
Grants(role) ==
  CASE role = "admin" -> Role
    [] role = "operator" -> {"viewer", "operator"}
    [] OTHER -> {role}

Allowed(role, need) == Grants(role) \cap need # {}

\* A bug: the two are given in the other order.
AsSwapped(role, site) == [role |-> site, site |-> role]

\* A principal before its site's id is looked up.
As(role, site) == [role |-> role, site |-> site]
Judge(r, as) == request' = [request EXCEPT ![r].step = "site", ![r].as = as, ![r].stamp = 0, ![r].keys = NoFile]

Asking(need, key, c) ==
  [step |-> "stat", need |-> need, key |-> key, cookie |-> c, at |-> clock, since |-> Len(versions),
   stamp |-> 0, keys |-> NoFile, used |-> FALSE, as |-> NoCookie]

\* A request with a key, or with no credentials that say anything: what comes
\* without a key may have a cookie that is too old, or a forged one.
StartWithKey(r) ==
  /\ request[r].step = "idle" /\ clock < MaxTime
  /\ \E need \in Need, k \in Key \cup {"none"} :
       request' = [request EXCEPT ![r] = Asking(need, k, NoCookie)]
  /\ UNCHANGED <<clock, versions, secretCache, rotation, lastFlushed, keyUsage, lastUsed, dbFailures>>

\* Fernet's ttl.
Young(c) == clock - c.issued <= MaxAge

\* _try_session_cookie: a token that is too old says nothing; a role that is
\* not enough is a 403, whatever the key would have been.
StartWithCookie(r) ==
  /\ request[r].step = "idle" /\ clock < MaxTime
  /\ \E need \in Need, c \in Cookies :
       /\ Young(c) /\ Allowed(c.role, need)
       /\ request' = [request EXCEPT ![r] =
            [Asking(need, "none", c) EXCEPT !.step = "site", !.as = As(c.role, c.site)]]
  /\ UNCHANGED <<clock, versions, secretCache, rotation, lastFlushed, keyUsage, lastUsed, dbFailures>>

\* _read_secret: os.stat; a file that is not there is a RuntimeError.
StatFile(r) ==
  /\ request[r].step = "stat"
  /\ IF File = NoFile THEN Over(r)
     ELSE request' = [request EXCEPT ![r].step = "read", ![r].stamp = Stamp]
  /\ UNCHANGED <<clock, versions, secretCache, rotation, lastFlushed, keyUsage, lastUsed, dbFailures>>

\* The cache has what was read at this modification time, or the file is read.
ReadFile(r) ==
  /\ request[r].step = "read"
  /\ request' = [request EXCEPT
       ![r].step = IF secretCache.stamp = request[r].stamp THEN "judge" ELSE "store",
       ![r].keys = IF secretCache.stamp = request[r].stamp THEN secretCache.keys ELSE File]
  /\ UNCHANGED <<clock, versions, secretCache, rotation, lastFlushed, keyUsage, lastUsed, dbFailures>>

\* A bug: the modification time is looked at again when what was read is kept.
StampedNow(r) == Stamp

StampBefore(r) == request[r].stamp

StoreFile(r) ==
  /\ request[r].step = "store"
  /\ secretCache' = [stamp |-> StampBefore(r), keys |-> request[r].keys]
  /\ Go(r, "judge")
  /\ UNCHANGED <<clock, versions, rotation, lastFlushed, keyUsage, lastUsed, dbFailures>>

\* configured_keys: the admin key, and over it what the file says.
Configured(keys) ==
  [k \in AdminKey \cup DOMAIN keys |->
     IF k \in DOMAIN keys THEN keys[k]
     ELSE [role |-> "admin", site |-> "none", revoked |-> FALSE, expires |-> MaxTime + 1]]

Valid(keys, k, t) ==
  k \in DOMAIN Configured(keys) /\ ~Configured(keys)[k].revoked /\ t < Configured(keys)[k].expires

\* A bug: a request exactly an interval after the last write is throttled too.
DueAfter(k) == lastFlushed[k] = -1 \/ clock - lastFlushed[k] > FlushInterval

\* The throttle of record_key_usage.
Due(k) == lastFlushed[k] = -1 \/ clock - lastFlushed[k] >= FlushInterval

\* authenticate_key, up to taking the slot in record_key_usage.
JudgeKey(r) ==
  LET k == request[r].key  keys == request[r].keys IN
  /\ request[r].step = "judge"
  /\ IF DOMAIN Configured(keys) = {} THEN Judge(r, As("admin", "none")) /\ UNCHANGED lastFlushed
     ELSE IF k = "none" \/ ~Valid(keys, k, clock) THEN Over(r) /\ UNCHANGED lastFlushed
     ELSE IF ~Allowed(Configured(keys)[k].role, request[r].need) THEN Over(r) /\ UNCHANGED lastFlushed
     ELSE LET e == Configured(keys)[k] IN
          /\ lastFlushed' = IF Due(k) THEN [lastFlushed EXCEPT ![k] = clock] ELSE lastFlushed
          /\ request' = [request EXCEPT ![r].step = IF Due(k) THEN "flush" ELSE "site", ![r].used = TRUE,
                                                 ![r].as = As(e.role, e.site), ![r].stamp = 0, ![r].keys = NoFile]
  /\ UNCHANGED <<clock, versions, secretCache, rotation, keyUsage, lastUsed, dbFailures>>

\* db.record_key_usage: the upsert, or an error that fails the request and
\* leaves the slot taken.  when is the time of the commit: the write is assumed
\* not to stall for an interval.
WriteUsage(r) ==
  LET k == request[r].key IN
  /\ request[r].step = "flush"
  /\ \/ /\ keyUsage' = [keyUsage EXCEPT ![k] = [last |-> clock, count |-> @.count + 1]]
        /\ Go(r, "site") /\ UNCHANGED dbFailures
     \/ /\ dbFailures < MaxFailures /\ dbFailures' = dbFailures + 1
        /\ Over(r) /\ UNCHANGED keyUsage
  /\ UNCHANGED <<clock, versions, secretCache, rotation, lastFlushed, lastUsed>>

\* _resolve_site_id: no name is the default site; a name without a site is a 500.
ResolveSite(r) ==
  LET k == request[r].key  as == request[r].as IN
  /\ request[r].step = "site"
  /\ IF as.site \in SiteName \cup {"none"}
       THEN lastUsed' = IF request[r].used THEN [lastUsed EXCEPT ![k] = clock] ELSE lastUsed
       ELSE UNCHANGED lastUsed
  /\ Over(r)
  /\ UNCHANGED <<clock, versions, secretCache, rotation, lastFlushed, keyUsage, dbFailures>>

\* Time passes, no further than the oldest request allows.
KeysTick ==
  /\ clock < MaxTime
  /\ \A r \in Request : request[r].step # "idle" => clock < request[r].at + MaxLatency
  /\ clock' = clock + 1
  /\ UNCHANGED <<versions, secretCache, rotation, lastFlushed, keyUsage, request, lastUsed, dbFailures>>

KeysNext ==
  \/ KeysTick
  \/ \E a \in Admin : RotateRead(a) \/ RotateWrite(a)
  \/ \E r \in Request :
       \/ StartWithKey(r) \/ StartWithCookie(r) \/ StatFile(r) \/ ReadFile(r) \/ StoreFile(r)
       \/ JudgeKey(r) \/ WriteUsage(r) \/ ResolveSite(r)

-----------------------------------------------------------------------------
\* A request that was accepted was entitled to it by something the file said
\* while the request ran, whatever the cache held and other threads put into it
\* ("a key rotation takes effect on the very next request", get_api_key): its
\* key was valid with that role and site; or there was no key to ask for; or
\* its cookie was younger than a session may be.
Entitled(q) ==
  \/ \E i \in q.since .. Len(versions) : versions[i] # NoFile /\
       LET all == Configured(versions[i]) IN
       \/ DOMAIN all = {} /\ q.as = As("admin", "none")
       \/ /\ q.key \in Key /\ Valid(versions[i], q.key, q.at)
          /\ q.as.role = all[q.key].role /\ Allowed(q.as.role, q.need)
          /\ q.as.site = all[q.key].site
  \/ /\ q.cookie # NoCookie /\ q.at - q.cookie.issued <= MaxAge
     /\ q.as.role = q.cookie.role /\ Allowed(q.as.role, q.need)

JudgedByCurrentKeys == \A r \in Request : request[r].step = "site" => Entitled(request[r])

\* GET /api/admin/keys, for one key.
LastUsedAt(k) == keyUsage[k].last

\* What an administrator reads there before removing a key ("last used within
\* the last 30s is exactly as useful", record_key_usage) is at most an interval
\* and a request older than the key's last use, once its writes are through and
\* unless one failed.
UsageIsRecent ==
  \A k \in Key :
    \/ lastUsed[k] - LastUsedAt(k) < FlushInterval + MaxLatency
    \/ dbFailures > 0 \/ lastUsed[k] = -1
    \/ \E r \in Request : request[r].step = "flush" /\ request[r].key = k
=============================================================================
