------------------------------ MODULE LiveFeed ------------------------------
(***************************************************************************)
(* The live feed of one API process: worker threads publish events         *)
(* (app/live.py), the event loop puts them into a bounded queue per        *)
(* connected dashboard, and a handler per WebSocket sends them on          *)
(* (app/api/live.py), until the process shuts down (app/main.py).          *)
(*                                                                         *)
(* A worker never touches a queue: it copies the set of its site's queues  *)
(* and hands every one of them a callback, call_soon_threadsafe, and the   *)
(* loop runs the callbacks in the order they were handed over.  The copy   *)
(* and each hand-off are steps of their own, so two workers, the loop and  *)
(* the handlers interleave between them.                                   *)
(***************************************************************************)
EXTENDS Naturals, Sequences, FiniteSets, Functions

CONSTANTS
  Client, Worker, Site, SiteOf,   \* as in Feed
  Cap,           \* _MAX_QUEUED_PER_CLIENT
  MaxEvents      \* bound on the events published

ASSUME FeedAssumption ==
  /\ SiteOf \in [Client -> Site]
  /\ Cap \in Nat \ {0} /\ MaxEvents \in Nat

VARIABLES
  loop,          \* _loop: not set yet, running, or closed
  closing,       \* close_all has run
  subscribers,   \* _subscribers: the clients with a queue
  feedQueue,     \* the queue of each client
  ready,         \* the loop's callbacks: <<client, payload>>
  conn,          \* what each client's handler does next
  sending,       \* the payload in its hand
  gone,          \* clients that hung up
  targets,       \* the queues each worker has yet to hand its event to
  published,     \* of each worker, the sites of its events
  received,      \* of each client and worker, the number of the last event
  newest,        \* the last event handed over for each client
  late           \* payloads queued for each client after its sentinel

FeedVars == <<loop, closing, subscribers, feedQueue, ready, conn, sending, gone,
              targets, published, received, newest, late>>

Event    == [by : Worker, n : Nat \ {0}]
Sentinel == [by |-> "close_all", n |-> 0]   \* _SHUTDOWN_SENTINEL
Payload  == Event \cup {Sentinel}

FeedTypeOK ==
  /\ loop \in {"unset", "running", "closed"} /\ closing \in BOOLEAN
  /\ subscribers \subseteq Client /\ gone \subseteq Client
  /\ feedQueue \in [Client -> Seq(Payload)] /\ \A c \in Client : Len(feedQueue[c]) <= Cap
  /\ ready \in Seq(Client \X Payload)
  /\ conn \in [Client -> {"out", "accepted", "waiting", "sending", "ended"}]
  /\ sending \in [Client -> Payload] /\ newest \in [Client -> Payload]
  /\ targets \in [Worker -> SUBSET Client]
  /\ published \in [Worker -> Seq(Site)]
  /\ received \in [Client -> [Worker -> Nat]]
  /\ late \in [Client -> Nat]

FeedInit ==
  /\ loop = "unset" /\ closing = FALSE
  /\ subscribers = {} /\ gone = {} /\ ready = <<>>
  /\ feedQueue = [c \in Client |-> <<>>]
  /\ conn = [c \in Client |-> "out"]
  /\ sending = [c \in Client |-> Sentinel]
  /\ newest = [c \in Client |-> Sentinel]
  /\ targets = [w \in Worker |-> {}]
  /\ published = [w \in Worker |-> <<>>]
  /\ received = [c \in Client |-> [w \in Worker |-> 0]]
  /\ late = [c \in Client |-> 0]

-----------------------------------------------------------------------------
(* The loop. *)

\* lifespan: set_event_loop.
FeedStartup ==
  /\ loop = "unset"
  /\ loop' = "running"
  /\ UNCHANGED <<closing, subscribers, feedQueue, ready, conn, sending, gone, targets, published, received, newest, late>>

\* A bug: nothing is dropped.
PutAnyway(q, payload) == Append(q, payload)

\* A bug: a full queue turns the new payload away.
PutDroppingNewest(q, payload) == IF Len(q) = Cap THEN q ELSE Append(q, payload)

\* _put_dropping_oldest
PutDroppingOldest(q, payload) == Append(IF Len(q) = Cap THEN Tail(q) ELSE q, payload)

RunCallback ==
  /\ loop = "running" /\ ready # <<>>
  /\ LET c == Head(ready)[1]  p == Head(ready)[2] IN
       /\ feedQueue' = [feedQueue EXCEPT ![c] = PutDroppingOldest(@, p)]
       /\ late' = [late EXCEPT ![c] = IF late[c] > 0 \/ p = Sentinel THEN @ + 1 ELSE @]
  /\ ready' = Tail(ready)
  /\ UNCHANGED <<loop, closing, subscribers, conn, sending, gone, targets, published, received, newest>>

\* close_all, from the lifespan's shutdown.
CloseAll ==
  /\ loop = "running" /\ ~closing
  /\ closing' = TRUE
  /\ \E told \in [1..Cardinality(subscribers) -> subscribers] :
       /\ \A c \in subscribers : \E i \in DOMAIN told : told[i] = c
       /\ ready' = ready \o [i \in DOMAIN told |-> <<told[i], Sentinel>>]
  /\ UNCHANGED <<loop, subscribers, feedQueue, conn, sending, gone, targets, published, received, newest, late>>

\* The server stops the loop once no handler is left.
CloseLoop ==
  /\ loop = "running" /\ closing
  /\ \A c \in Client : conn[c] \in {"out", "ended"}
  /\ loop' = "closed"
  /\ UNCHANGED <<closing, subscribers, feedQueue, ready, conn, sending, gone, targets, published, received, newest, late>>

-----------------------------------------------------------------------------
(* The workers. *)

\* A bug: every site's queues.
EverySubscriber(s) == subscribers

\* list(_subscribers.get(site_id)); none before the loop is known.
SubscribersOf(s) == IF loop = "unset" THEN {} ELSE {c \in subscribers : SiteOf[c] = s}

\* publish, up to the copy of the set.
Publish(w) ==
  /\ targets[w] = {}
  /\ FoldFunction(LAMBDA mine, n : Len(mine) + n, 0, published) < MaxEvents
  /\ \E s \in Site :
       /\ published' = [published EXCEPT ![w] = Append(@, s)]
       /\ targets' = [targets EXCEPT ![w] = SubscribersOf(s)]
  /\ UNCHANGED <<loop, closing, subscribers, feedQueue, ready, conn, sending, gone, received, newest, late>>

\* publish, one call_soon_threadsafe; a closed loop refuses it, which is
\* logged and no more.
HandOff(w, c) ==
  /\ c \in targets[w]
  /\ targets' = [targets EXCEPT ![w] = @ \ {c}]
  /\ LET e == [by |-> w, n |-> Len(published[w])] IN
       IF loop = "closed" THEN UNCHANGED <<ready, newest>>
       ELSE /\ ready' = Append(ready, <<c, e>>)
            /\ newest' = [newest EXCEPT ![c] = e]
  /\ UNCHANGED <<loop, closing, subscribers, feedQueue, conn, sending, gone, published, received, late>>

-----------------------------------------------------------------------------
(* The clients and their handlers. *)

\* live_updates: authenticate_key, then accept; a client it refuses is closed
\* with 4401 or 4403 and stays out.
Connect(c) ==
  /\ loop = "running" /\ ~closing
  /\ conn[c] = "out"
  /\ conn' = [conn EXCEPT ![c] = "accepted"]
  /\ UNCHANGED <<loop, closing, subscribers, feedQueue, ready, sending, gone, targets, published, received, newest, late>>

\* subscribe, once the accept has gone out.
Subscribe(c) ==
  /\ conn[c] = "accepted"
  /\ conn' = [conn EXCEPT ![c] = "waiting"]
  /\ subscribers' = subscribers \cup {c}
  /\ UNCHANGED <<loop, closing, feedQueue, ready, sending, gone, targets, published, received, newest, late>>

\* The handler's end: unsubscribe, websocket.close.
Finish(c) ==
  /\ conn' = [conn EXCEPT ![c] = "ended"]
  /\ subscribers' = subscribers \ {c}

\* queue.get() returns: an event to send, or the sentinel.
TakeNext(c) ==
  /\ conn[c] = "waiting" /\ feedQueue[c] # <<>>
  /\ feedQueue' = [feedQueue EXCEPT ![c] = Tail(@)]
  /\ sending' = [sending EXCEPT ![c] = Head(feedQueue[c])]
  /\ IF Head(feedQueue[c]) = Sentinel
       THEN Finish(c)
       ELSE conn' = [conn EXCEPT ![c] = "sending"] /\ UNCHANGED subscribers
  /\ UNCHANGED <<loop, closing, ready, gone, targets, published, received, newest, late>>

\* send_text goes out, or finds that the client has left.
SendText(c) ==
  /\ conn[c] = "sending"
  /\ IF c \in gone THEN Finish(c) /\ UNCHANGED received
     ELSE /\ conn' = [conn EXCEPT ![c] = "waiting"]
          /\ received' = [received EXCEPT ![c][sending[c].by] = sending[c].n]
          /\ UNCHANGED subscribers
  /\ UNCHANGED <<loop, closing, feedQueue, ready, sending, gone, targets, published, newest, late>>

\* The browser leaves.  A handler that waits for an event does not notice.
HangUp(c) ==
  /\ conn[c] \in {"waiting", "sending"} /\ c \notin gone
  /\ gone' = gone \cup {c}
  /\ UNCHANGED <<loop, closing, subscribers, feedQueue, ready, conn, sending, targets, published, received, newest, late>>

FeedNext ==
  \/ FeedStartup \/ RunCallback \/ CloseAll \/ CloseLoop
  \/ \E w \in Worker : Publish(w) \/ \E c \in Client : HandOff(w, c)
  \/ \E c \in Client : Connect(c) \/ Subscribe(c) \/ TakeNext(c) \/ SendText(c) \/ HangUp(c)

\* The loop runs its callbacks and its tasks; a worker finishes its publish.
FeedFairness ==
  /\ WF_FeedVars(RunCallback)
  /\ \A w \in Worker : WF_FeedVars(\E c \in Client : HandOff(w, c))
  /\ \A c \in Client : WF_FeedVars(Subscribe(c)) /\ WF_FeedVars(TakeNext(c)) /\ WF_FeedVars(SendText(c))

FeedSpec == FeedInit /\ [][FeedNext]_FeedVars /\ FeedFairness

-----------------------------------------------------------------------------
Promised == INSTANCE Feed WITH announced <- published, heard <- received

\* The queues, the loop and the handlers keep what Feed promises: no event of
\* another site, none out of its worker's order, none twice.
KeepsPromise == Promised!PromiseSpec

\* What a slow client loses is old: a client that stays always comes to the
\* newest event handed over for it.
UpToDate(c) == newest[c] # Sentinel => received[c][newest[c].by] = newest[c].n

NewestIsDelivered == \A c \in Client : []<>(UpToDate(c) \/ c \in gone \/ closing)

\* A sentinel ends its client's handler, whatever is queued around it, unless
\* Cap later events push it out of the queue (close_all's docstring has only
\* the messages ahead of it in mind).
ToldClientsEnd ==
  \A c \in Client : late[c] > 0 ~> conn[c] = "ended" \/ late[c] > Cap
=============================================================================
