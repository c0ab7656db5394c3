--------------------------- MODULE LiveFeed_proofs ---------------------------
(***************************************************************************)
(* Proof that the live feed keeps what Feed promises, for any dashboards,  *)
(* workers and sites and any length of a queue: whatever is on its way to  *)
(* a dashboard is of its own site, newer than all it has received, and in  *)
(* the order of its worker, through the hand-offs, the loop's callbacks,   *)
(* the queue that drops its oldest, and the handler.                       *)
(***************************************************************************)
EXTENDS LiveFeed, FiniteSetTheorems, SequenceTheorems, TLAPS

\* A payload on its way to c is the sentinel or a published event of c's site
\* that c has not received; the newest of a worker only once it was handed over.
Fits(c, p) ==
  p # Sentinel =>
    /\ p.n \in 1..Len(published[p.by])
    /\ published[p.by][p.n] = SiteOf[c]
    /\ received[c][p.by] < p.n
    /\ c \in targets[p.by] => p.n < Len(published[p.by])

\* p was published before q, if by the same worker.
Before(p, q) == p # Sentinel /\ q # Sentinel /\ p.by = q.by => p.n < q.n

SendingFits ==
  \A c \in Client : conn[c] = "sending" => sending[c] # Sentinel /\ Fits(c, sending[c])

QueueFits ==
  \A c \in Client : \A i \in 1..Len(feedQueue[c]) :
    /\ Fits(c, feedQueue[c][i])
    /\ conn[c] = "sending" => Before(sending[c], feedQueue[c][i])
    /\ \A j \in 1..Len(feedQueue[c]) : i < j => Before(feedQueue[c][i], feedQueue[c][j])

ReadyFits ==
  \A i \in 1..Len(ready) : LET c == ready[i][1]  p == ready[i][2] IN
    /\ Fits(c, p)
    /\ conn[c] = "sending" => Before(sending[c], p)
    /\ \A j \in 1..Len(feedQueue[c]) : Before(feedQueue[c][j], p)
    /\ \A j \in 1..Len(ready) : i < j /\ ready[j][1] = c => Before(p, ready[j][2])

\* An event still to be handed to c is the worker's last, and of c's site.
TargetsFit ==
  \A w \in Worker : \A c \in targets[w] :
    /\ published[w] # <<>> /\ published[w][Len(published[w])] = SiteOf[c]
    /\ received[c][w] < Len(published[w])

\* Nothing is received that was not published.
ReceivedIsPublished == \A c \in Client, w \in Worker : received[c][w] <= Len(published[w])

FeedFits == ReceivedIsPublished /\ SendingFits /\ QueueFits /\ ReadyFits /\ TargetsFit

FeedInv == FeedTypeOK /\ IsFiniteSet(subscribers) /\ FeedFits

-----------------------------------------------------------------------------
(* Sequences. *)

LEMMA Appended ==
  ASSUME NEW S, NEW s \in Seq(S), NEW e \in S
  PROVE  /\ Append(s, e) \in Seq(S)
         /\ Len(s) \in Nat /\ Len(Append(s, e)) = Len(s) + 1
         /\ Append(s, e)[Len(s) + 1] = e
         /\ \A i \in 1..Len(s) : Append(s, e)[i] = s[i]
  OBVIOUS

LEMMA Headed ==
  ASSUME NEW S, NEW s \in Seq(S), s # <<>>
  PROVE  /\ Len(s) \in Nat \ {0} /\ Head(s) = s[1] /\ s[1] \in S
         /\ Tail(s) \in Seq(S) /\ Len(Tail(s)) = Len(s) - 1
         /\ \A i \in 1..Len(s) - 1 : Tail(s)[i] = s[i + 1]
  OBVIOUS

\* The queue after a put: what was in it, perhaps without the oldest, and the
\* new payload at its end, within the cap.
LEMMA DropsOnlyTheOldest ==
  ASSUME NEW q \in Seq(Payload), Len(q) <= Cap, NEW p \in Payload
  PROVE  /\ PutDroppingOldest(q, p) \in Seq(Payload)
         /\ Len(PutDroppingOldest(q, p)) \in 1..Cap
         /\ \E k \in {0, 1} :
              /\ Len(PutDroppingOldest(q, p)) = Len(q) - k + 1
              /\ \A i \in 1..Len(q) - k : PutDroppingOldest(q, p)[i] = q[i + k]
              /\ PutDroppingOldest(q, p)[Len(q) - k + 1] = p
<1>0. Cap \in Nat \ {0}
  BY FeedAssumption
<1>1. CASE Len(q) = Cap
  <2>1. q # <<>>
    BY <1>0, <1>1
  <2>2. /\ Tail(q) \in Seq(Payload) /\ Len(Tail(q)) = Len(q) - 1
        /\ \A i \in 1..Len(q) - 1 : Tail(q)[i] = q[i + 1]
    BY <2>1, Headed
  <2>3. PutDroppingOldest(q, p) = Append(Tail(q), p)
    BY <1>1 DEF PutDroppingOldest
  <2>4. /\ Append(Tail(q), p) \in Seq(Payload)
        /\ Len(Append(Tail(q), p)) = Len(q)
        /\ Append(Tail(q), p)[Len(q)] = p
        /\ \A i \in 1..Len(q) - 1 : Append(Tail(q), p)[i] = q[i + 1]
    BY <1>0, <1>1, <2>2, Appended
  <2>. QED
    BY <1>0, <1>1, <2>3, <2>4
<1>2. CASE Len(q) # Cap
  <2>1. PutDroppingOldest(q, p) = Append(q, p)
    BY <1>2 DEF PutDroppingOldest
  <2>2. /\ Append(q, p) \in Seq(Payload)
        /\ Len(q) \in Nat /\ Len(Append(q, p)) = Len(q) + 1
        /\ Append(q, p)[Len(q) + 1] = p
        /\ \A i \in 1..Len(q) : Append(q, p)[i] = q[i]
    BY Appended
  <2>. QED
    BY <1>0, <1>2, <2>1, <2>2
<1>. QED
  BY <1>1, <1>2

-----------------------------------------------------------------------------
(* Types. *)

LEMMA FeedStarts == FeedInit => FeedInv
<1>. SUFFICES ASSUME FeedInit PROVE FeedInv
  OBVIOUS
<1>1. FeedTypeOK /\ IsFiniteSet(subscribers)
  <2>1. Sentinel \in Payload /\ <<>> \in Seq(Payload) /\ Len(<<>>) = 0 /\ 0 <= Cap
    BY FeedAssumption DEF Payload
  <2>2. <<>> \in Seq(Client \X Payload) /\ <<>> \in Seq(Site) /\ IsFiniteSet({})
    BY FS_EmptySet
  <2>3. feedQueue \in [Client -> Seq(Payload)] /\ \A c \in Client : Len(feedQueue[c]) <= Cap
    BY <2>1 DEF FeedInit
  <2>4. published \in [Worker -> Seq(Site)] /\ received \in [Client -> [Worker -> Nat]]
    BY <2>2 DEF FeedInit
  <2>. QED
    BY <2>1, <2>2, <2>3, <2>4 DEF FeedInit, FeedTypeOK
<1>. QED
  BY <1>1 DEF FeedInv, FeedInit, FeedFits, ReceivedIsPublished, SendingFits, QueueFits, ReadyFits, TargetsFit

\* What a worker hands over is an event.
LEMMA HandsOverEvent ==
  ASSUME FeedInv, NEW w \in Worker, NEW c \in targets[w]
  PROVE  /\ c \in Client /\ Len(published[w]) \in Nat \ {0}
         /\ [by |-> w, n |-> Len(published[w])] \in Event
         /\ [by |-> w, n |-> Len(published[w])] # Sentinel
<1>1. c \in Client /\ published[w] \in Seq(Site) /\ published[w] # <<>>
  BY DEF FeedInv, FeedFits, FeedTypeOK, TargetsFit
<1>2. Len(published[w]) \in Nat \ {0}
  BY <1>1
<1>. QED
  BY <1>1, <1>2 DEF Event, Sentinel

\* An event that a handler sends has a worker and a number.
LEMMA SendsEvent ==
  ASSUME FeedInv, NEW c \in Client, conn[c] = "sending"
  PROVE  sending[c] # Sentinel /\ sending[c].by \in Worker /\ sending[c].n \in Nat \ {0}
  BY DEF FeedInv, FeedFits, FeedTypeOK, SendingFits, Payload, Event

LEMMA FeedStaysTyped ==
  ASSUME FeedInv, [FeedNext]_FeedVars
  PROVE  FeedTypeOK' /\ IsFiniteSet(subscribers)'
<1>0. FeedTypeOK /\ IsFiniteSet(subscribers)
  BY DEF FeedInv
<1>1. ASSUME FeedStartup \/ CloseLoop \/ UNCHANGED FeedVars
      PROVE  FeedTypeOK' /\ IsFiniteSet(subscribers)'
  BY <1>0, <1>1 DEF FeedStartup, CloseLoop, FeedVars, FeedTypeOK
<1>2. ASSUME RunCallback
      PROVE  FeedTypeOK' /\ IsFiniteSet(subscribers)'
  <2>1. Head(ready) \in Client \X Payload /\ Tail(ready) \in Seq(Client \X Payload)
    BY <1>0, <1>2, Headed DEF RunCallback, FeedTypeOK
  <2>2. PICK c \in Client, p \in Payload : Head(ready)[1] = c /\ Head(ready)[2] = p
    BY <2>1
  <2>3. feedQueue' = [feedQueue EXCEPT ![c] = PutDroppingOldest(feedQueue[c], p)]
    BY <1>2, <2>2 DEF RunCallback
  <2>4. /\ PutDroppingOldest(feedQueue[c], p) \in Seq(Payload)
        /\ Len(PutDroppingOldest(feedQueue[c], p)) <= Cap
    BY <1>0, DropsOnlyTheOldest, FeedAssumption DEF FeedTypeOK
  <2>5. feedQueue' \in [Client -> Seq(Payload)] /\ \A d \in Client : Len(feedQueue'[d]) <= Cap
    BY <1>0, <2>3, <2>4 DEF FeedTypeOK
  <2>6. late' = [late EXCEPT ![c] = IF late[c] > 0 \/ p = Sentinel THEN late[c] + 1 ELSE late[c]]
    BY <1>2, <2>2 DEF RunCallback
  <2>7. late' \in [Client -> Nat]
    BY <1>0, <2>6 DEF FeedTypeOK
  <2>. QED
    BY <1>0, <1>2, <2>1, <2>5, <2>7 DEF RunCallback, FeedTypeOK
<1>3. ASSUME CloseAll
      PROVE  FeedTypeOK' /\ IsFiniteSet(subscribers)'
  <2>1. PICK told \in [1..Cardinality(subscribers) -> subscribers] :
          ready' = ready \o [i \in DOMAIN told |-> <<told[i], Sentinel>>]
    BY <1>3 DEF CloseAll
  <2>2. Cardinality(subscribers) \in Nat
    BY <1>0, FS_CardinalityType
  <2>3. [i \in DOMAIN told |-> <<told[i], Sentinel>>] \in Seq(Client \X Payload)
    <3>1. \A i \in 1..Cardinality(subscribers) : <<told[i], Sentinel>> \in Client \X Payload
      BY <1>0 DEF FeedTypeOK, Payload
    <3>2. [i \in DOMAIN told |-> <<told[i], Sentinel>>]
            \in [1..Cardinality(subscribers) -> Client \X Payload]
      BY <3>1
    <3>. QED
      BY <2>2, <3>2, SeqDef
  <2>4. ready' \in Seq(Client \X Payload)
    BY <1>0, <2>1, <2>3, ConcatProperties DEF FeedTypeOK
  <2>. QED
    BY <1>0, <1>3, <2>4 DEF CloseAll, FeedTypeOK
<1>4. ASSUME NEW w \in Worker, Publish(w)
      PROVE  FeedTypeOK' /\ IsFiniteSet(subscribers)'
  <2>1. PICK s \in Site : /\ published' = [published EXCEPT ![w] = Append(published[w], s)]
                          /\ targets' = [targets EXCEPT ![w] = SubscribersOf(s)]
    BY <1>4 DEF Publish
  <2>2. Append(published[w], s) \in Seq(Site)
    BY <1>0, Appended DEF FeedTypeOK
  <2>3. SubscribersOf(s) \subseteq Client
    BY <1>0 DEF SubscribersOf, FeedTypeOK
  <2>. QED
    BY <1>0, <1>4, <2>1, <2>2, <2>3 DEF Publish, FeedTypeOK
<1>5. ASSUME NEW w \in Worker, NEW c \in Client, HandOff(w, c)
      PROVE  FeedTypeOK' /\ IsFiniteSet(subscribers)'
  <2> DEFINE e == [by |-> w, n |-> Len(published[w])]
  <2>1. e \in Payload
    BY <1>5, HandsOverEvent DEF HandOff, Payload
  <2>2. Append(ready, <<c, e>>) \in Seq(Client \X Payload)
    BY <1>0, <2>1, Appended DEF FeedTypeOK
  <2>. QED
    BY <1>0, <1>5, <2>1, <2>2 DEF HandOff, FeedTypeOK
<1>6. ASSUME NEW c \in Client, Connect(c) \/ HangUp(c)
      PROVE  FeedTypeOK' /\ IsFiniteSet(subscribers)'
  BY <1>0, <1>6 DEF Connect, HangUp, FeedTypeOK
<1>7. ASSUME NEW c \in Client, Subscribe(c)
      PROVE  FeedTypeOK' /\ IsFiniteSet(subscribers)'
  BY <1>0, <1>7, FS_AddElement DEF Subscribe, FeedTypeOK
<1>8. ASSUME NEW c \in Client, Finish(c)
      PROVE  /\ conn' \in [Client -> {"out", "accepted", "waiting", "sending", "ended"}]
             /\ subscribers' \subseteq Client /\ IsFiniteSet(subscribers)'
  BY <1>0, <1>8, FS_RemoveElement DEF Finish, FeedTypeOK
<1>9. ASSUME NEW c \in Client, TakeNext(c)
      PROVE  FeedTypeOK' /\ IsFiniteSet(subscribers)'
  <2>1. feedQueue[c] \in Seq(Payload) /\ feedQueue[c] # <<>>
    BY <1>0, <1>9 DEF TakeNext, FeedTypeOK
  <2>2. /\ Head(feedQueue[c]) \in Payload /\ Tail(feedQueue[c]) \in Seq(Payload)
        /\ Len(Tail(feedQueue[c])) <= Cap
    BY <1>0, <2>1, Headed, FeedAssumption DEF FeedTypeOK
  <2>3. /\ conn' \in [Client -> {"out", "accepted", "waiting", "sending", "ended"}]
        /\ subscribers' \subseteq Client /\ IsFiniteSet(subscribers)'
    BY <1>0, <1>8, <1>9 DEF TakeNext, FeedTypeOK
  <2>. QED
    BY <1>0, <1>9, <2>2, <2>3 DEF TakeNext, FeedTypeOK
<1>10. ASSUME NEW c \in Client, SendText(c)
       PROVE  FeedTypeOK' /\ IsFiniteSet(subscribers)'
  <2>1. sending[c].by \in Worker /\ sending[c].n \in Nat
    BY <1>10, SendsEvent DEF SendText
  <2>2. /\ conn' \in [Client -> {"out", "accepted", "waiting", "sending", "ended"}]
        /\ subscribers' \subseteq Client /\ IsFiniteSet(subscribers)'
    BY <1>0, <1>8, <1>10 DEF SendText, FeedTypeOK
  <2>3. received' \in [Client -> [Worker -> Nat]]
    <3>1. received' = received \/ received' = [received EXCEPT ![c][sending[c].by] = sending[c].n]
      BY <1>10 DEF SendText
    <3>2. received \in [Client -> [Worker -> Nat]]
      BY <1>0 DEF FeedTypeOK
    <3>. QED
      BY <2>1, <3>1, <3>2
  <2>. QED
    BY <1>0, <1>10, <2>2, <2>3 DEF SendText, FeedTypeOK
<1>. QED
  BY <1>1, <1>2, <1>3, <1>4, <1>5, <1>6, <1>7, <1>9, <1>10 DEF FeedNext

-----------------------------------------------------------------------------
(* Steps. *)

\* Payloads and clients of the sequences, as the step proofs need them.
LEMMA Contents ==
  ASSUME FeedTypeOK
  PROVE  /\ \A c \in Client : Len(feedQueue[c]) \in Nat
         /\ \A c \in Client : \A i \in 1..Len(feedQueue[c]) : feedQueue[c][i] \in Payload
         /\ Len(ready) \in Nat
         /\ \A i \in 1..Len(ready) : ready[i][1] \in Client /\ ready[i][2] \in Payload
         /\ \A p \in Payload : p # Sentinel => p.by \in Worker /\ p.n \in Nat \ {0}
<1>1. feedQueue \in [Client -> Seq(Payload)]
  BY DEF FeedTypeOK
<1>2. \A i \in 1..Len(ready) : ready[i] \in Client \X Payload
  BY ElementOfSeq DEF FeedTypeOK
<1>3. Len(ready) \in Nat
  BY DEF FeedTypeOK
<1>4. \A p \in Payload : p # Sentinel => p.by \in Worker /\ p.n \in Nat \ {0}
  BY DEF Payload, Event
<1>. QED
  BY <1>1, <1>2, <1>3, <1>4, ElementOfSeq

\* Handlers that come, wait or end disturb nothing that is on its way.
LEMMA QuietKeeps ==
  ASSUME FeedInv, UNCHANGED <<feedQueue, ready, sending, targets, published, received>>,
         \A c \in Client : conn'[c] = "sending" => conn[c] = "sending"
  PROVE  FeedFits'
<1>1. SendingFits' /\ TargetsFit' /\ ReceivedIsPublished'
  BY DEF FeedInv, FeedFits, SendingFits, TargetsFit, ReceivedIsPublished, Fits
<1>2. QueueFits'
  BY DEF FeedInv, FeedFits, QueueFits, Fits, Before
<1>3. \A i \in 1..Len(ready) : ready[i][1] \in Client
  BY Contents DEF FeedInv
<1>4. ReadyFits'
  BY <1>3 DEF FeedInv, FeedFits, ReadyFits, Fits, Before
<1>. QED
  BY <1>1, <1>2, <1>4 DEF FeedFits

LEMMA RunCallbackKeeps ==
  ASSUME FeedInv, RunCallback
  PROVE  FeedFits'
<1>1. FeedTypeOK
  BY DEF FeedInv
<1>2. /\ Len(ready) \in Nat \ {0} /\ Head(ready) = ready[1]
      /\ ready[1] \in Client \X Payload
      /\ Len(ready') = Len(ready) - 1
      /\ \A i \in 1..Len(ready) - 1 : ready'[i] = ready[i + 1]
  BY <1>1, Headed DEF RunCallback, FeedTypeOK
<1>3. PICK c \in Client, p \in Payload : ready[1][1] = c /\ ready[1][2] = p
  BY <1>2
<1>4. feedQueue' = [feedQueue EXCEPT ![c] = PutDroppingOldest(feedQueue[c], p)]
  BY <1>2, <1>3 DEF RunCallback
<1>5. PICK k \in {0, 1} :
        /\ Len(feedQueue'[c]) = Len(feedQueue[c]) - k + 1
        /\ \A i \in 1..Len(feedQueue[c]) - k : feedQueue'[c][i] = feedQueue[c][i + k]
        /\ feedQueue'[c][Len(feedQueue[c]) - k + 1] = p
  BY <1>1, <1>4, DropsOnlyTheOldest DEF FeedTypeOK
<1>6. \A d \in Client \ {c} : feedQueue'[d] = feedQueue[d]
  BY <1>1, <1>4 DEF FeedTypeOK
<1>7. UNCHANGED <<conn, sending, targets, published, received>>
  BY DEF RunCallback
<1>8. \A d \in Client : \A q : Fits(d, q) => Fits(d, q)'
  BY <1>7 DEF Fits
<1>9. /\ Fits(c, p) /\ (conn[c] = "sending" => Before(sending[c], p))
      /\ \A j \in 1..Len(feedQueue[c]) : Before(feedQueue[c][j], p)
      /\ \A j \in 2..Len(ready) : ready[j][1] = c => Before(p, ready[j][2])
  BY <1>2, <1>3 DEF FeedInv, FeedFits, ReadyFits
<1>10. SendingFits' /\ TargetsFit' /\ ReceivedIsPublished'
  BY <1>7, <1>8 DEF FeedInv, FeedFits, SendingFits, TargetsFit, ReceivedIsPublished
<1>11. QueueFits'
  <2> SUFFICES ASSUME NEW d \in Client, NEW i \in 1..Len(feedQueue'[d])
               PROVE  /\ Fits(d, feedQueue'[d][i])
                      /\ conn[d] = "sending" => Before(sending[d], feedQueue'[d][i])
                      /\ \A j \in 1..Len(feedQueue'[d]) : i < j => Before(feedQueue'[d][i], feedQueue'[d][j])
    BY <1>7, <1>8 DEF QueueFits, Before
  <2>1. CASE d # c
    BY <1>6, <2>1 DEF FeedInv, FeedFits, QueueFits
  <2>2. CASE d = c
    <3>1. Len(feedQueue[c]) \in Nat
      BY <1>1, Contents
    <3>2. QueueFits
      BY DEF FeedInv, FeedFits
    <3>3. CASE i = Len(feedQueue[c]) - k + 1
      BY <1>5, <1>9, <2>2, <3>1, <3>3
    <3>4. CASE i \in 1..Len(feedQueue[c]) - k
      <4>1. i + k \in 1..Len(feedQueue[c]) /\ feedQueue'[c][i] = feedQueue[c][i + k]
        BY <1>5, <3>1, <3>4
      <4>2. ASSUME NEW j \in 1..Len(feedQueue'[c]), i < j
            PROVE  Before(feedQueue'[c][i], feedQueue'[c][j])
        <5>1. CASE j = Len(feedQueue[c]) - k + 1
          BY <1>5, <1>9, <4>1, <5>1
        <5>2. CASE j \in 1..Len(feedQueue[c]) - k
          <6>1. j + k \in 1..Len(feedQueue[c]) /\ feedQueue'[c][j] = feedQueue[c][j + k] /\ i + k < j + k
            BY <1>5, <3>1, <4>2, <5>2
          <6>. QED
            BY <3>2, <4>1, <6>1 DEF QueueFits
        <5>. QED
          BY <1>5, <3>1, <4>2, <5>1, <5>2
      <4>. QED
        BY <2>2, <3>2, <4>1, <4>2 DEF QueueFits
    <3>. QED
      BY <1>5, <2>2, <3>1, <3>3, <3>4
  <2>. QED
    BY <2>1, <2>2
<1>12. ReadyFits'
  <2> SUFFICES ASSUME NEW i \in 1..Len(ready')
               PROVE  LET d == ready'[i][1]  q == ready'[i][2] IN
                        /\ Fits(d, q) /\ (conn[d] = "sending" => Before(sending[d], q))
                        /\ \A j \in 1..Len(feedQueue'[d]) : Before(feedQueue'[d][j], q)
                        /\ \A j \in 1..Len(ready') : i < j /\ ready'[j][1] = d => Before(q, ready'[j][2])
    <3>1. \A j \in 1..Len(ready') : ready'[j][1] \in Client
      BY <1>1, <1>2, Contents
    <3>. QED
      BY <1>7, <1>8, <3>1 DEF ReadyFits, Before
  <2>0. PICK d \in Client, q \in Payload : d = ready'[i][1] /\ q = ready'[i][2]
    BY <1>1, <1>2, Contents
  <2>1. i + 1 \in 2..Len(ready) /\ d = ready[i + 1][1] /\ q = ready[i + 1][2]
    BY <1>2, <2>0
  <2>2. /\ Fits(d, q) /\ (conn[d] = "sending" => Before(sending[d], q))
        /\ \A j \in 1..Len(feedQueue[d]) : Before(feedQueue[d][j], q)
        /\ \A j \in 1..Len(ready) : i + 1 < j /\ ready[j][1] = d => Before(q, ready[j][2])
    BY <1>2, <2>1 DEF FeedInv, FeedFits, ReadyFits
  <2>3. \A j \in 1..Len(ready') : i < j /\ ready'[j][1] = d => Before(q, ready'[j][2])
    BY <1>2, <2>2
  <2>4. ASSUME NEW j \in 1..Len(feedQueue'[d])
        PROVE  Before(feedQueue'[d][j], q)
    <3>1. CASE d # c
      BY <1>6, <2>2, <3>1
    <3>2. CASE d = c
      <4>1. Len(feedQueue[c]) \in Nat
        BY <1>1, Contents
      <4>2. CASE j = Len(feedQueue[c]) - k + 1
        BY <1>5, <1>9, <2>1, <3>2, <4>2
      <4>3. CASE j \in 1..Len(feedQueue[c]) - k
        BY <1>5, <2>2, <3>2, <4>1, <4>3
      <4>. QED
        BY <1>5, <3>2, <4>1, <4>2, <4>3
    <3>. QED
      BY <3>1, <3>2
  <2>. QED
    BY <2>0, <2>2, <2>3, <2>4
<1>. QED
  BY <1>10, <1>11, <1>12 DEF FeedFits

\* Sentinels behind everything else stand in nobody's way.
LEMMA CloseAllKeeps ==
  ASSUME FeedInv, CloseAll
  PROVE  FeedFits'
<1>1. FeedTypeOK /\ IsFiniteSet(subscribers)
  BY DEF FeedInv
<1>2. PICK told \in [1..Cardinality(subscribers) -> subscribers] :
        ready' = ready \o [i \in DOMAIN told |-> <<told[i], Sentinel>>]
  BY DEF CloseAll
<1>3. Cardinality(subscribers) \in Nat
  BY <1>1, FS_CardinalityType
<1>4. /\ [i \in DOMAIN told |-> <<told[i], Sentinel>>] \in Seq(Client \X Payload)
      /\ Len([i \in DOMAIN told |-> <<told[i], Sentinel>>]) = Cardinality(subscribers)
  <2>1. \A i \in 1..Cardinality(subscribers) : <<told[i], Sentinel>> \in Client \X Payload
    BY <1>1 DEF FeedTypeOK, Payload
  <2>2. [i \in DOMAIN told |-> <<told[i], Sentinel>>]
          \in [1..Cardinality(subscribers) -> Client \X Payload]
    BY <2>1
  <2>. QED
    BY <1>3, <2>2, SeqDef
<1>5. /\ Len(ready') = Len(ready) + Cardinality(subscribers) /\ Len(ready) \in Nat
      /\ \A i \in 1..Len(ready) : ready'[i] = ready[i]
      /\ \A i \in Len(ready) + 1 .. Len(ready') : ready'[i][2] = Sentinel
  BY <1>1, <1>2, <1>3, <1>4, ConcatProperties, Contents DEF FeedTypeOK
<1>6. UNCHANGED <<conn, sending, feedQueue, targets, published, received>>
  BY DEF CloseAll
<1>7. \A d \in Client : \A q : Fits(d, q) => Fits(d, q)'
  BY <1>6 DEF Fits
<1>8. SendingFits' /\ TargetsFit' /\ QueueFits' /\ ReceivedIsPublished'
  BY <1>6, <1>7 DEF FeedInv, FeedFits, SendingFits, QueueFits, TargetsFit, ReceivedIsPublished, Before
<1>9. ReadyFits'
  <2> SUFFICES ASSUME NEW i \in 1..Len(ready')
               PROVE  LET d == ready'[i][1]  q == ready'[i][2] IN
                        /\ Fits(d, q) /\ (conn[d] = "sending" => Before(sending[d], q))
                        /\ \A j \in 1..Len(feedQueue[d]) : Before(feedQueue[d][j], q)
                        /\ \A j \in 1..Len(ready') : i < j /\ ready'[j][1] = d => Before(q, ready'[j][2])
    <3>1. \A j \in 1..Len(ready') : ready'[j][1] \in Client
      <4>1. ready' \in Seq(Client \X Payload)
        BY <1>1, <1>2, <1>4, ConcatProperties DEF FeedTypeOK
      <4>2. \A j \in 1..Len(ready') : ready'[j] \in Client \X Payload
        BY <4>1, ElementOfSeq
      <4>. QED
        BY <4>2
    <3>. QED
      BY <1>6, <1>7, <3>1 DEF ReadyFits, Before
  <2>1. CASE i \in 1..Len(ready)
    <3>1. ready'[i] = ready[i] /\ ready[i][1] \in Client
      BY <1>1, <1>5, <2>1, Contents
    <3>2. /\ Fits(ready[i][1], ready[i][2])
          /\ conn[ready[i][1]] = "sending" => Before(sending[ready[i][1]], ready[i][2])
          /\ \A j \in 1..Len(feedQueue[ready[i][1]]) : Before(feedQueue[ready[i][1]][j], ready[i][2])
          /\ \A j \in 1..Len(ready) : i < j /\ ready[j][1] = ready[i][1] => Before(ready[i][2], ready[j][2])
      BY <2>1 DEF FeedInv, FeedFits, ReadyFits
    <3>3. ASSUME NEW j \in 1..Len(ready'), i < j, ready'[j][1] = ready[i][1]
          PROVE  Before(ready[i][2], ready'[j][2])
      <4>1. CASE j \in 1..Len(ready)
        BY <1>5, <3>2, <3>3, <4>1
      <4>2. CASE j \in Len(ready) + 1 .. Len(ready')
        BY <1>5, <4>2 DEF Before
      <4>. QED
        BY <1>3, <1>5, <4>1, <4>2
    <3>. QED
      BY <3>1, <3>2, <3>3
  <2>2. CASE i \in Len(ready) + 1 .. Len(ready')
    BY <1>5, <2>2 DEF Fits, Before
  <2>. QED
    BY <1>3, <1>5, <2>1, <2>2
<1>. QED
  BY <1>8, <1>9 DEF FeedFits

\* A new event is newer than all that is on its way.
LEMMA PublishKeeps ==
  ASSUME FeedInv, NEW w \in Worker, Publish(w)
  PROVE  FeedFits'
<1>1. FeedTypeOK
  BY DEF FeedInv
<1>2. PICK s \in Site : /\ published' = [published EXCEPT ![w] = Append(published[w], s)]
                        /\ targets' = [targets EXCEPT ![w] = SubscribersOf(s)]
  BY DEF Publish
<1>3. /\ Len(published[w]) \in Nat /\ Len(published'[w]) = Len(published[w]) + 1
      /\ published'[w][Len(published'[w])] = s /\ published'[w] # <<>>
      /\ \A n \in 1..Len(published[w]) : published'[w][n] = published[w][n]
  <2>1. published[w] \in Seq(Site) /\ published'[w] = Append(published[w], s)
    BY <1>1, <1>2 DEF FeedTypeOK
  <2>. QED
    BY <2>1, Appended
<1>4. \A v \in Worker \ {w} : published'[v] = published[v] /\ targets'[v] = targets[v]
  BY <1>1, <1>2 DEF FeedTypeOK
<1>5. targets'[w] = SubscribersOf(s)
  BY <1>1, <1>2 DEF FeedTypeOK
<1>6. UNCHANGED <<conn, sending, feedQueue, ready, received>>
  BY DEF Publish
<1>7. ASSUME NEW d \in Client, NEW p \in Payload, Fits(d, p)
      PROVE  Fits(d, p)'
  <2> SUFFICES ASSUME p # Sentinel
               PROVE  /\ p.n \in 1..Len(published'[p.by])
                      /\ published'[p.by][p.n] = SiteOf[d]
                      /\ received[d][p.by] < p.n
                      /\ d \in targets'[p.by] => p.n < Len(published'[p.by])
    BY <1>6 DEF Fits
  <2>1. p.by \in Worker /\ p.n \in Nat
    BY <1>1, Contents
  <2>2. CASE p.by = w
    BY <1>3, <1>7, <2>1, <2>2 DEF Fits
  <2>3. CASE p.by # w
    BY <1>4, <1>7, <2>1, <2>3 DEF Fits
  <2>. QED
    BY <2>2, <2>3
<1>8. SendingFits'
  BY <1>1, <1>6, <1>7 DEF FeedInv, FeedFits, SendingFits, FeedTypeOK
<1>9. QueueFits'
  BY <1>1, <1>6, <1>7, Contents DEF FeedInv, FeedFits, QueueFits, Before
<1>10. ReadyFits'
  BY <1>1, <1>6, <1>7, Contents DEF FeedInv, FeedFits, ReadyFits, Before
<1>11. TargetsFit'
  <2> SUFFICES ASSUME NEW v \in Worker, NEW c \in targets'[v]
               PROVE  /\ published'[v] # <<>> /\ published'[v][Len(published'[v])] = SiteOf[c]
                      /\ received[c][v] < Len(published'[v])
    BY <1>6 DEF TargetsFit
  <2>1. CASE v # w
    BY <1>4, <2>1 DEF FeedInv, FeedFits, TargetsFit
  <2>2. CASE v = w
    <3>1. c \in Client /\ SiteOf[c] = s
      BY <1>1, <1>5, <2>2 DEF SubscribersOf, FeedTypeOK
    <3>2. received[c][w] \in Nat /\ received[c][w] <= Len(published[w])
      BY <1>1, <3>1 DEF FeedInv, FeedFits, ReceivedIsPublished, FeedTypeOK
    <3>. QED
      BY <1>3, <2>2, <3>1, <3>2
  <2>. QED
    BY <2>1, <2>2
<1>12. ReceivedIsPublished'
  <2> SUFFICES ASSUME NEW c \in Client, NEW v \in Worker
               PROVE  received[c][v] <= Len(published'[v])
    BY <1>6 DEF ReceivedIsPublished
  <2>1. received[c][v] \in Nat /\ received[c][v] <= Len(published[v])
    BY <1>1 DEF FeedInv, FeedFits, ReceivedIsPublished, FeedTypeOK
  <2>. QED
    BY <1>3, <1>4, <2>1
<1>. QED
  BY <1>8, <1>9, <1>10, <1>11, <1>12 DEF FeedFits

\* What is handed over was the worker's last and is now behind all of its others.
LEMMA HandOffKeeps ==
  ASSUME FeedInv, NEW w \in Worker, NEW c \in Client, HandOff(w, c)
  PROVE  FeedFits'
<1> DEFINE e == [by |-> w, n |-> Len(published[w])]
<1>1. FeedTypeOK
  BY DEF FeedInv
<1>2. /\ c \in targets[w] /\ e # Sentinel /\ Len(published[w]) \in Nat \ {0}
      /\ e.by = w /\ e.n = Len(published[w]) /\ e \in Payload
  BY HandsOverEvent DEF HandOff, Payload
<1>3. /\ targets'[w] = targets[w] \ {c}
      /\ \A v \in Worker : targets'[v] \subseteq targets[v]
  BY <1>1 DEF HandOff, FeedTypeOK
<1>4. UNCHANGED <<conn, sending, feedQueue, published, received>>
  BY DEF HandOff
<1>5. ASSUME NEW d \in Client, NEW p \in Payload, Fits(d, p)
      PROVE  Fits(d, p)'
  <2>1. p # Sentinel => p.by \in Worker
    BY <1>1, Contents
  <2>. QED
    BY <1>3, <1>4, <1>5, <2>1 DEF Fits
<1>6. Fits(c, e)'
  BY <1>2, <1>3, <1>4 DEF FeedInv, FeedFits, TargetsFit, Fits
<1>7. \A p \in Payload : Fits(c, p) => Before(p, e)
  BY <1>2 DEF Fits, Before
<1>8. SendingFits' /\ TargetsFit' /\ QueueFits' /\ ReceivedIsPublished'
  <2>1. SendingFits'
    BY <1>1, <1>4, <1>5 DEF FeedInv, FeedFits, SendingFits, FeedTypeOK
  <2>2. QueueFits'
    BY <1>1, <1>4, <1>5, Contents DEF FeedInv, FeedFits, QueueFits, Before
  <2>3. TargetsFit' /\ ReceivedIsPublished'
    BY <1>3, <1>4 DEF FeedInv, FeedFits, TargetsFit, ReceivedIsPublished
  <2>. QED
    BY <2>1, <2>2, <2>3
<1>9. CASE ready' = ready
  <2>1. ReadyFits'
    BY <1>1, <1>4, <1>5, <1>9, Contents DEF FeedInv, FeedFits, ReadyFits, Before
  <2>. QED
    BY <1>8, <2>1 DEF FeedFits
<1>10. CASE ready' = Append(ready, <<c, e>>)
  <2>1. /\ Len(ready) \in Nat /\ Len(ready') = Len(ready) + 1
        /\ ready'[Len(ready) + 1] = <<c, e>>
        /\ \A i \in 1..Len(ready) : ready'[i] = ready[i]
    BY <1>1, <1>2, <1>10, Appended DEF FeedTypeOK
  <2>2. \A i \in 1..Len(ready) : ready[i][1] \in Client /\ ready[i][2] \in Payload
    BY <1>1, Contents
  <2>3. \A i \in 1..Len(ready') : ready'[i][1] \in Client
    BY <2>1, <2>2
  <2>4. ReadyFits'
    <3> SUFFICES ASSUME NEW i \in 1..Len(ready')
                 PROVE  LET d == ready'[i][1]  q == ready'[i][2] IN
                          /\ (conn[d] = "sending" => Before(sending[d], q))
                          /\ \A j \in 1..Len(feedQueue[d]) : Before(feedQueue[d][j], q)
                          /\ \A j \in 1..Len(ready') : i < j /\ ready'[j][1] = d => Before(q, ready'[j][2])
      <4>1. ASSUME NEW i \in 1..Len(ready')
            PROVE  Fits(ready[i][1], ready[i][2])'
        <5>1. CASE i \in 1..Len(ready)
          <6>1. PICK d \in Client, q \in Payload : ready[i][1] = d /\ ready[i][2] = q
            BY <2>2, <5>1
          <6>2. Fits(d, q)'
            BY <1>5, <5>1, <6>1 DEF FeedInv, FeedFits, ReadyFits
          <6>3. ready'[i][1] = d /\ ready'[i][2] = q
            BY <2>1, <5>1, <6>1
          <6>. QED
            BY <6>2, <6>3
        <5>2. CASE i = Len(ready) + 1
          <6>1. ready'[i][1] = c /\ ready'[i][2] = e
            BY <2>1, <5>2
          <6>. QED
            BY <1>4, <1>6, <6>1 DEF Fits
        <5>. QED
          BY <2>1, <5>1, <5>2
      <4>. QED
        BY <1>4, <2>3, <4>1 DEF ReadyFits, Before
    <3>1. CASE i \in 1..Len(ready)
      <4>1. PICK d \in Client, q \in Payload : ready[i][1] = d /\ ready[i][2] = q
        BY <2>2, <3>1
      <4>2. /\ Fits(d, q) /\ (conn[d] = "sending" => Before(sending[d], q))
            /\ \A j \in 1..Len(feedQueue[d]) : Before(feedQueue[d][j], q)
            /\ \A j \in 1..Len(ready) : i < j /\ ready[j][1] = d => Before(q, ready[j][2])
        BY <3>1, <4>1 DEF FeedInv, FeedFits, ReadyFits
      <4>3. ASSUME NEW j \in 1..Len(ready'), i < j, ready'[j][1] = d
            PROVE  Before(q, ready'[j][2])
        <5>1. CASE j \in 1..Len(ready)
          BY <2>1, <4>2, <4>3, <5>1
        <5>2. CASE j = Len(ready) + 1
          BY <1>7, <2>1, <4>2, <4>3, <5>2
        <5>. QED
          BY <2>1, <5>1, <5>2
      <4>. QED
        BY <2>1, <3>1, <4>1, <4>2, <4>3
    <3>2. CASE i = Len(ready) + 1
      <4>1. conn[c] = "sending" => Before(sending[c], e)
        BY <1>1, <1>7 DEF FeedInv, FeedFits, SendingFits, FeedTypeOK
      <4>2. \A j \in 1..Len(feedQueue[c]) : Before(feedQueue[c][j], e)
        BY <1>1, <1>7, Contents DEF FeedInv, FeedFits, QueueFits
      <4>. QED
        BY <2>1, <3>2, <4>1, <4>2
    <3>. QED
      BY <2>1, <3>1, <3>2
  <2>. QED
    BY <1>8, <2>4 DEF FeedFits
<1>. QED
  BY <1>9, <1>10 DEF HandOff

\* What a handler takes was in front of everything else for its client.
LEMMA TakeNextKeeps ==
  ASSUME FeedInv, NEW c \in Client, TakeNext(c)
  PROVE  FeedFits'
<1>1. FeedTypeOK
  BY DEF FeedInv
<1> DEFINE h == feedQueue[c][1]
<1>2. /\ Len(feedQueue[c]) \in Nat \ {0} /\ Head(feedQueue[c]) = h
      /\ Len(feedQueue'[c]) = Len(feedQueue[c]) - 1
      /\ \A i \in 1..Len(feedQueue[c]) - 1 : feedQueue'[c][i] = feedQueue[c][i + 1]
      /\ \A d \in Client \ {c} : feedQueue'[d] = feedQueue[d]
  BY <1>1, Headed DEF TakeNext, FeedTypeOK
<1>3. UNCHANGED <<ready, targets, published, received>>
  BY DEF TakeNext
<1>4. sending'[c] = h /\ \A d \in Client \ {c} : sending'[d] = sending[d]
  BY <1>1, <1>2 DEF TakeNext, FeedTypeOK
<1>5. /\ conn'[c] = "sending" => h # Sentinel
      /\ \A d \in Client \ {c} : conn'[d] = conn[d]
  BY <1>1, <1>2 DEF TakeNext, Finish, FeedTypeOK
<1>6. \A d \in Client : \A q : Fits(d, q) => Fits(d, q)'
  BY <1>3 DEF Fits
<1>7. /\ Fits(c, h)
      /\ \A i \in 2..Len(feedQueue[c]) : Before(h, feedQueue[c][i])
      /\ \A i \in 1..Len(ready) : ready[i][1] = c => Before(h, ready[i][2])
  BY <1>2 DEF FeedInv, FeedFits, QueueFits, ReadyFits
<1>8. TargetsFit' /\ ReceivedIsPublished'
  BY <1>3 DEF FeedInv, FeedFits, TargetsFit, ReceivedIsPublished
<1>9. SendingFits'
  BY <1>4, <1>5, <1>6, <1>7 DEF FeedInv, FeedFits, SendingFits
<1>10. QueueFits'
  <2> SUFFICES ASSUME NEW d \in Client, NEW i \in 1..Len(feedQueue'[d])
               PROVE  /\ Fits(d, feedQueue'[d][i])
                      /\ conn'[d] = "sending" => Before(sending'[d], feedQueue'[d][i])
                      /\ \A j \in 1..Len(feedQueue'[d]) : i < j => Before(feedQueue'[d][i], feedQueue'[d][j])
    BY <1>6 DEF QueueFits, Before
  <2>1. CASE d # c
    BY <1>2, <1>4, <1>5, <2>1 DEF FeedInv, FeedFits, QueueFits
  <2>2. CASE d = c
    <3>1. QueueFits
      BY DEF FeedInv, FeedFits
    <3>2. i + 1 \in 2..Len(feedQueue[c]) /\ feedQueue'[c][i] = feedQueue[c][i + 1]
      BY <1>2, <2>2
    <3>3. Fits(c, feedQueue'[c][i]) /\ Before(h, feedQueue'[c][i])
      BY <1>7, <3>1, <3>2 DEF QueueFits
    <3>4. ASSUME NEW j \in 1..Len(feedQueue'[c]), i < j
          PROVE  Before(feedQueue'[c][i], feedQueue'[c][j])
      <4>1. j + 1 \in 2..Len(feedQueue[c]) /\ feedQueue'[c][j] = feedQueue[c][j + 1] /\ i + 1 < j + 1
        BY <1>2, <2>2, <3>4
      <4>. QED
        BY <3>1, <3>2, <4>1 DEF QueueFits
    <3>. QED
      BY <1>4, <2>2, <3>3, <3>4
  <2>. QED
    BY <2>1, <2>2
<1>11. ReadyFits'
  <2>1. \A i \in 1..Len(ready) : ready[i][1] \in Client
    BY <1>1, Contents
  <2> SUFFICES ASSUME NEW i \in 1..Len(ready), NEW d \in Client, d = ready[i][1]
               PROVE  /\ conn'[d] = "sending" => Before(sending'[d], ready[i][2])
                      /\ \A j \in 1..Len(feedQueue'[d]) : Before(feedQueue'[d][j], ready[i][2])
    BY <1>3, <1>6, <2>1 DEF FeedInv, FeedFits, ReadyFits, Before
  <2>2. /\ conn[d] = "sending" => Before(sending[d], ready[i][2])
        /\ \A j \in 1..Len(feedQueue[d]) : Before(feedQueue[d][j], ready[i][2])
    BY DEF FeedInv, FeedFits, ReadyFits
  <2>3. CASE d # c
    BY <1>2, <1>4, <1>5, <2>2, <2>3
  <2>4. CASE d = c
    <3>1. ASSUME NEW j \in 1..Len(feedQueue'[c])
          PROVE  Before(feedQueue'[c][j], ready[i][2])
      <4>1. j + 1 \in 1..Len(feedQueue[c]) /\ feedQueue'[c][j] = feedQueue[c][j + 1]
        BY <1>2
      <4>. QED
        BY <2>2, <2>4, <4>1
    <3>. QED
      BY <1>4, <1>7, <2>4, <3>1
  <2>. QED
    BY <2>3, <2>4
<1>. QED
  BY <1>8, <1>9, <1>10, <1>11 DEF FeedFits

\* What a client receives was in front of everything else that is for it.
LEMMA SendTextKeeps ==
  ASSUME FeedInv, NEW c \in Client, SendText(c), c \notin gone
  PROVE  FeedFits'
<1>1. FeedTypeOK /\ conn[c] = "sending"
  BY DEF FeedInv, SendText
<1> DEFINE p == sending[c]
<1>2. p # Sentinel /\ p.by \in Worker /\ p.n \in Nat \ {0}
  BY <1>1, SendsEvent
<1>3. /\ UNCHANGED <<ready, feedQueue, sending, targets, published>>
      /\ conn' = [conn EXCEPT ![c] = "waiting"]
      /\ received' = [received EXCEPT ![c][p.by] = p.n]
  BY DEF SendText
<1>4. /\ \A d \in Client : conn'[d] = "sending" => d # c /\ conn[d] = "sending"
      /\ received'[c][p.by] = p.n
      /\ \A v \in Worker \ {p.by} : received'[c][v] = received[c][v]
      /\ \A d \in Client \ {c} : received'[d] = received[d]
  BY <1>1, <1>2, <1>3 DEF FeedTypeOK
<1>5. Fits(c, p)
  BY <1>1 DEF FeedInv, FeedFits, SendingFits
<1>6. ASSUME NEW d \in Client, NEW q \in Payload, Fits(d, q), d = c => Before(p, q)
      PROVE  Fits(d, q)'
  <2>1. q # Sentinel => q.by \in Worker /\ q.n \in Nat
    BY <1>1, Contents
  <2>2. q # Sentinel => received'[d][q.by] < q.n
    BY <1>2, <1>4, <1>6, <2>1 DEF Fits, Before
  <2>. QED
    BY <1>3, <1>6, <2>2 DEF Fits
<1>7. SendingFits'
  BY <1>1, <1>3, <1>4, <1>6 DEF FeedInv, FeedFits, SendingFits, FeedTypeOK
<1>8. QueueFits'
  BY <1>1, <1>3, <1>4, <1>6, Contents DEF FeedInv, FeedFits, QueueFits, Before
<1>9. ReadyFits'
  <2>1. \A i \in 1..Len(ready) : ready[i][1] \in Client /\ ready[i][2] \in Payload
    BY <1>1, Contents
  <2>2. ASSUME NEW i \in 1..Len(ready)
        PROVE  Fits(ready[i][1], ready[i][2])'
    <3>1. PICK d \in Client, q \in Payload : ready[i][1] = d /\ ready[i][2] = q
      BY <2>1
    <3>2. Fits(d, q) /\ (d = c => Before(p, q))
      BY <1>1, <3>1 DEF FeedInv, FeedFits, ReadyFits
    <3>3. Fits(d, q)'
      BY <1>6, <3>2
    <3>. QED
      BY <1>3, <3>1, <3>3
  <2>. QED
    BY <1>3, <1>4, <2>1, <2>2 DEF FeedInv, FeedFits, ReadyFits, Before
<1>10. ReceivedIsPublished'
  BY <1>2, <1>3, <1>4, <1>5 DEF FeedInv, FeedFits, ReceivedIsPublished, Fits
<1>11. TargetsFit'
  BY <1>1, <1>2, <1>3, <1>4, <1>5 DEF FeedInv, FeedFits, TargetsFit, Fits, FeedTypeOK
<1>. QED
  BY <1>7, <1>8, <1>9, <1>10, <1>11 DEF FeedFits

LEMMA FeedStepKeeps ==
  FeedInv /\ [FeedNext]_FeedVars => FeedInv'
<1>. SUFFICES ASSUME FeedInv, [FeedNext]_FeedVars PROVE FeedFits'
  BY FeedStaysTyped DEF FeedInv
<1>1. ASSUME FeedStartup \/ CloseLoop \/ UNCHANGED FeedVars
      PROVE  FeedFits'
  BY <1>1, QuietKeeps DEF FeedStartup, CloseLoop, FeedVars
<1>2. ASSUME NEW c \in Client, Connect(c) \/ Subscribe(c) \/ HangUp(c)
      PROVE  FeedFits'
  <2>1. conn \in [Client -> {"out", "accepted", "waiting", "sending", "ended"}]
    BY DEF FeedInv, FeedTypeOK
  <2>2. \A d \in Client : conn'[d] = "sending" => conn[d] = "sending"
    BY <1>2, <2>1 DEF Connect, Subscribe, HangUp
  <2>. QED
    BY <1>2, <2>2, QuietKeeps DEF Connect, Subscribe, HangUp
<1>3. ASSUME NEW c \in Client, SendText(c), c \in gone
      PROVE  FeedFits'
  <2>1. conn \in [Client -> {"out", "accepted", "waiting", "sending", "ended"}]
    BY DEF FeedInv, FeedTypeOK
  <2>2. \A d \in Client : conn'[d] = "sending" => conn[d] = "sending"
    BY <1>3, <2>1 DEF SendText, Finish
  <2>. QED
    BY <1>3, <2>2, QuietKeeps DEF SendText
<1>. QED
  BY <1>1, <1>2, <1>3, RunCallbackKeeps, CloseAllKeeps, PublishKeeps, HandOffKeeps,
     TakeNextKeeps, SendTextKeeps DEF FeedNext

-----------------------------------------------------------------------------
(* Theorems. *)

\* Types; no queue ever exceeds _MAX_QUEUED_PER_CLIENT, however slow its client
\* (_put_dropping_oldest).
THEOREM FeedTypeCorrect == FeedInit /\ [][FeedNext]_FeedVars => []FeedTypeOK
<1>1. FeedInit => FeedInv
  BY FeedStarts
<1>2. FeedInv /\ [FeedNext]_FeedVars => FeedInv'
  BY FeedStepKeeps
<1>3. FeedInv => FeedTypeOK
  BY DEF FeedInv
<1>. QED
  BY <1>1, <1>2, <1>3, PTL

\* A step of the feed announces one event, lets one client hear one, or changes
\* nothing that Feed sees.
LEMMA FeedStepImplements ==
  FeedInv /\ [FeedNext]_FeedVars => [Promised!PromiseNext]_(Promised!PromiseVars)
<1>. SUFFICES ASSUME FeedInv, [FeedNext]_FeedVars
              PROVE  Promised!PromiseNext \/ UNCHANGED <<published, received>>
  BY DEF Promised!PromiseVars
<1>1. ASSUME NEW w \in Worker, Publish(w)
      PROVE  Promised!PromiseNext
  BY <1>1 DEF Publish, Promised!PromiseNext, Promised!Promulgate
<1>2. ASSUME NEW c \in Client, SendText(c), c \notin gone
      PROVE  Promised!PromiseNext
  <2> DEFINE p == sending[c]
  <2>1. /\ p # Sentinel /\ p.by \in Worker /\ p.n \in Nat \ {0}
        /\ Fits(c, p) /\ received[c][p.by] \in Nat /\ published[p.by] \in Seq(Site)
    BY <1>2, SendsEvent DEF SendText, FeedInv, FeedFits, SendingFits, FeedTypeOK
  <2>2. p.n \in received[c][p.by] + 1 .. Len(published[p.by]) /\ published[p.by][p.n] = SiteOf[c]
    BY <2>1 DEF Fits
  <2>3. received' = [received EXCEPT ![c][p.by] = p.n] /\ published' = published
    BY <1>2 DEF SendText
  <2>4. Promised!Hear(c, p.by)
    BY <2>2, <2>3 DEF Promised!Hear
  <2>. QED
    BY <2>1, <2>4 DEF Promised!PromiseNext
<1>3. ASSUME NEW c \in Client, Connect(c) \/ Subscribe(c) \/ TakeNext(c) \/ HangUp(c)
      PROVE  UNCHANGED <<published, received>>
  BY <1>3 DEF Connect, Subscribe, TakeNext, HangUp
<1>4. ASSUME NEW w \in Worker, NEW c \in Client, HandOff(w, c)
      PROVE  UNCHANGED <<published, received>>
  BY <1>4 DEF HandOff
<1>5. ASSUME FeedStartup \/ RunCallback \/ CloseAll \/ CloseLoop \/ UNCHANGED FeedVars
      PROVE  UNCHANGED <<published, received>>
  BY <1>5 DEF FeedStartup, RunCallback, CloseAll, CloseLoop, FeedVars
<1>6. ASSUME NEW c \in Client, SendText(c), c \in gone
      PROVE  UNCHANGED <<published, received>>
  BY <1>6 DEF SendText
<1>. QED
  BY <1>1, <1>2, <1>3, <1>4, <1>5, <1>6 DEF FeedNext

\* The feed implements Feed: what a dashboard receives was published, for its
\* own site, and of one worker in the order of publication, never twice, whatever
\* is dropped, closed or hung up on the way (live.publish, live.subscribe,
\* live_updates).
THEOREM FeedKeepsPromise == FeedInit /\ [][FeedNext]_FeedVars => KeepsPromise
<1>1. FeedInit => FeedInv /\ Promised!PromiseInit
  BY FeedStarts DEF FeedInit, Promised!PromiseInit
<1>2. FeedInv /\ [FeedNext]_FeedVars => FeedInv'
  BY FeedStepKeeps
<1>3. FeedInv /\ [FeedNext]_FeedVars => [Promised!PromiseNext]_(Promised!PromiseVars)
  BY FeedStepImplements
<1>. QED
  BY <1>1, <1>2, <1>3, PTL DEF KeepsPromise, Promised!PromiseSpec
=============================================================================
