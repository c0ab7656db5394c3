------------------------------- MODULE Fusion -------------------------------
(***************************************************************************)
(* How a track gets its label: the vote over its detections                *)
(* (app/fusion.py), the label of one (app/classification.py,               *)
(* app/allowlist.py), the RF signature that may raise its confidence       *)
(* (app/rf_signatures.py), and the confidence a reader is told.            *)
(*                                                                         *)
(* Confidences are hundredths and trusts are doubled, so that weights are  *)
(* exact; the program's are floats.  No learned model is configured, the   *)
(* default.  What may be missing is a set of at most one element.          *)
(***************************************************************************)
EXTENDS Integers, SequencesExt, FiniteSetsExt

CONSTANTS
  Evidence,      \* detections as their sensors send them
  Registered,    \* sensors of the site whose own place is known
  Operators,     \* active authorized operators of the site, and their keys
  Estimate,      \* the place georeferencing makes of an azimuth and a range
  OperatorSignatures, \* DRONE_RF_SIGNATURES_PATH
  MaxHistory,    \* FUSION_HISTORY_LIMIT
  Age            \* ages of a track's last detection, in seconds

VARIABLE history    \* of one track: list_recent_detections, the latest first

None == "none"

Signal == [frequency : Int, bandwidth : Int, hopping : {"yes", "no", None}]

Signature == [bands : SUBSET (Int \X Int), bandwidth : Int \X Int, hopping : {"yes", "no", None}, confidence : Int]

OperatorClaim == [operator : STRING, key : STRING, message : STRING \X STRING \X Int \X SUBSET STRING]

DroneThreshold == 75
BirdThreshold == 40
Floor == 30
DecaySeconds == 300

\* Twice SENSOR_TRUST.
SensorTrust == [adsb |-> 10, radar |-> 4, rf |-> 3, camera |-> 2, acoustic |-> 1, other |-> 2]

\* A confidence is a fraction (the detection's own; a signatures file may hold
\* any number), and a client cannot say that its place was worked out for it.
ASSUME FusionAssumption ==
  /\ Evidence \subseteq
       [type : DOMAIN SensorTrust, confidence : 0..100, signal : Signal, sensor : STRING, time : Int,
        place : SUBSET STRING, bearing : BOOLEAN, georeferenced : {FALSE}, claim : SUBSET OperatorClaim]
  /\ OperatorSignatures \in Seq(Signature)
  /\ Estimate \in STRING
  /\ MaxHistory \in Nat \ {0}
  /\ Age \subseteq Int

-----------------------------------------------------------------------------
(* RF signatures.  A signal is its frequency and bandwidth in MHz, and       *)
(* whether it hops, where that is known; what has none fits no signature.    *)

NoSignal == [frequency |-> 0, bandwidth |-> 0, hopping |-> None]

Within(x, range) == range[1] <= x /\ x <= range[2]

BuiltInSignatures ==
  LET ism == {<<2400, 2483>>, <<5725, 5850>>} IN <<
    [bands |-> ism, bandwidth |-> <<8, 20>>, hopping |-> "yes", confidence |-> 90],
    [bands |-> ism, bandwidth |-> <<10, 20>>, hopping |-> "yes", confidence |-> 85],
    [bands |-> {<<5645, 5945>>}, bandwidth |-> <<15, 30>>, hopping |-> "no", confidence |-> 75],
    [bands |-> {<<2400, 2483>>, <<5150, 5850>>}, bandwidth |-> <<18, 22>>, hopping |-> "no", confidence |-> 50]>>

Fits(signal, signature) ==
  /\ \E band \in signature.bands : Within(signal.frequency, band)
  /\ Within(signal.bandwidth, signature.bandwidth)
  /\ signature.hopping = signal.hopping \/ None \in {signature.hopping, signal.hopping}

FirstMatch(library, fitting) == library[Min(fitting)].confidence

\* match_rf_signature: the first that fits, an operator's before a built-in one.
MatchRfSignature(signal) ==
  LET library == OperatorSignatures \o BuiltInSignatures
      fitting == {i \in DOMAIN library : Fits(signal, library[i])} IN
  IF fitting = {} THEN 0 ELSE FirstMatch(library, fitting)

EffectiveConfidence(d) ==
  IF d.type = "rf" THEN Max({d.confidence, MatchRfSignature(d.signal)})
  ELSE d.confidence

-----------------------------------------------------------------------------
(* Signatures.  A claim names an operator, the key it was signed with and    *)
(* what was signed; a place is one rounded to six decimals.                  *)

\* A sensor that reports an azimuth and a range gets a place on arrival.
Georeference(d) ==
  IF d.place = {} /\ d.bearing /\ d.sensor \in Registered
    THEN [d EXCEPT !.place = {Estimate}, !.georeferenced = TRUE]
    ELSE d

CanonicalMessage(operator, d) ==
  <<operator, d.sensor, d.time, IF d.georeferenced THEN {} ELSE d.place>>

IsAuthorizedDetection(d) ==
  \E claim \in d.claim :
    /\ claim.operator \in DOMAIN Operators
    /\ claim.key = Operators[claim.operator]
    /\ claim.message = CanonicalMessage(claim.operator, d)

-----------------------------------------------------------------------------
(* The vote. *)

Classify(type, confidence) ==
  CASE type = "adsb" -> "aircraft"
    [] type # "adsb" /\ confidence >= DroneThreshold -> "drone"
    [] type \in {"camera", "acoustic"} /\ confidence < BirdThreshold -> "bird"
    [] OTHER -> "unknown"

DetectionLabel(d) == IF IsAuthorizedDetection(d) THEN "friendly" ELSE Classify(d.type, EffectiveConfidence(d))

Weight(d) == SensorTrust[d.type] * EffectiveConfidence(d)

\* _classification_weights: the labels in the order of their first vote, and
\* the weight of each.
NoWeights == [order |-> <<>>, of |-> <<>>]

\* A bug: a label keeps the weight of its latest vote.
VotedOnce(weights, label, weight) ==
  [order |-> IF label \in DOMAIN weights.of THEN weights.order ELSE Append(weights.order, label),
   of |-> [l \in DOMAIN weights.of \cup {label} |-> IF l = label THEN weight ELSE weights.of[l]]]

Voted(weights, label, weight) ==
  IF label \in DOMAIN weights.of
    THEN [weights EXCEPT !.of[label] = @ + weight]
    ELSE [order |-> Append(weights.order, label),
          of |-> [l \in DOMAIN weights.of \cup {label} |-> IF l = label THEN weight ELSE weights.of[l]]]

ClassificationWeights(detections) ==
  FoldLeft(LAMBDA weights, d :
             IF DetectionLabel(d) = "unknown" THEN weights ELSE Voted(weights, DetectionLabel(d), Weight(d)),
           NoWeights, detections)

\* max(weights): of labels as heavy, the first.
FuseClassification(detections) ==
  LET w == ClassificationWeights(detections)
      heaviest == {i \in DOMAIN w.order : \A l \in DOMAIN w.of : w.of[l] <= w.of[w.order[i]]} IN
  IF w.order = <<>> THEN "unknown" ELSE w.order[Min(heaviest)]

\* classification_confidence, in hundredths rounded down; there is none in not
\* knowing, and none where no vote weighs anything.
ClassificationConfidence(detections, label) ==
  LET of == ClassificationWeights(detections).of
      total == SumFunction(of) IN
  IF label = "unknown" \/ total <= 0 THEN {}
  ELSE {(100 * (IF label \in DOMAIN of THEN of[label] ELSE 0)) \div total}

\* decay_classification_confidence, times DecaySeconds.
Decayed(raw, age) == raw * DecaySeconds + (Floor - raw) * Min({DecaySeconds, Max({0, age})})

-----------------------------------------------------------------------------
FusionInit == history = <<>>

\* One more detection is stored, by its timestamp among the others; only the
\* latest count (create_detection and list_recent_detections of
\* _commit_detection).  A track without a place is never matched.
Commit(d) ==
  /\ history = <<>> \/ \A e \in {d} \cup ToSet(history) : e.place # {}
  /\ \E i \in 1 .. Len(history) + 1 :
       LET all == InsertAt(history, i, d) IN history' = SubSeq(all, 1, Min({MaxHistory, Len(all)}))

FusionNext == \E d \in Evidence : Commit(Georeference(d))

\* Reference: all the evidence for a label.
Backing(detections, label) ==
  SumFunctionOnSet([i \in DOMAIN detections |-> Weight(detections[i])],
                   {i \in DOMAIN detections : DetectionLabel(detections[i]) = label})

Labels == {"friendly", "aircraft", "drone", "bird"}

\* No label has more evidence behind it than the one that wins, and whatever
\* evidence there is wins over none.
TheHeaviestWins ==
  LET winner == FuseClassification(history) IN
  /\ winner = "unknown" <=> \A i \in DOMAIN history : DetectionLabel(history[i]) = "unknown"
  /\ winner # "unknown" => \A l \in Labels : Backing(history, l) <= Backing(history, winner)

\* The confidences in all labels make up the whole, the winner's being the
\* greatest, unless no detection weighs anything: then there is none in any.
SharesAreWhole ==
  LET winner == FuseClassification(history)
      confidence(l) == ClassificationConfidence(history, l)
      share == [l \in Labels |-> Max(confidence(l))] IN
  IF \E i \in DOMAIN history : DetectionLabel(history[i]) # "unknown" /\ Weight(history[i]) > 0
    THEN /\ \A l \in Labels : confidence(l) # {}
         /\ \A l \in Labels : confidence(l) = {share[l]} /\ share[l] <= share[winner]
         /\ SumFunction(share) \in 97..100
    ELSE \A l \in Labels : confidence(l) = {}

\* A detection makes another label win than the rest of the history would only
\* by backing it, with no less than the lead of the one it beats ("it has to
\* outweigh the accumulated evidence").
NoneFlipsAlone ==
  \A i \in DOMAIN history :
    LET winner == FuseClassification(history)
        rest == RemoveAt(history, i)
        before == FuseClassification(rest) IN
    before \notin {winner, "unknown"} =>
      /\ DetectionLabel(history[i]) = winner
      /\ Weight(history[i]) >= Backing(rest, before) - Backing(rest, winner)

VoteIsFair == TheHeaviestWins /\ SharesAreWhole /\ NoneFlipsAlone

\* What a reader is told lies between the confidence and the floor, nearer to
\* the floor the later it is; a reader whose clock is behind is told the
\* confidence itself.
DecayIsSteady ==
  \A raw \in {0, Floor, 50, 100}, age, later \in Age :
    LET end == Floor * DecaySeconds
        start == raw * DecaySeconds
        Between(x, y, z) == Within(y, <<Min({x, z}), Max({x, z})>>) IN
    /\ Between(start, Decayed(raw, age), end)
    /\ age <= later => Between(Decayed(raw, age), Decayed(raw, later), end)
    /\ age <= 0 => Decayed(raw, age) = start

\* A signature an operator supplied decides over the built-in ones, even one
\* that is less sure ("a verified per-model entry takes priority").
OperatorDecides ==
  \A i \in DOMAIN history, j \in DOMAIN OperatorSignatures :
    Fits(history[i].signal, OperatorSignatures[j]) =>
      MatchRfSignature(history[i].signal) \in {OperatorSignatures[k].confidence : k \in 1..j}

\* Of what sensors send, exactly that counts as an operator's which it signed
\* for this sensor, time and reported place, wherever the server puts it: a
\* signature taken from another detection makes none friendly ("a captured
\* signature can't be replayed against a different detection"), and one by a
\* sensor without a place of its own verifies.
SignaturesAreBound ==
  \A d \in Evidence :
    IsAuthorizedDetection(Georeference(d)) <=>
      \E o \in DOMAIN Operators :
        \E claim \in d.claim : claim = [operator |-> o, key |-> Operators[o], message |-> <<o, d.sensor, d.time, d.place>>]

\* What the fusion of a track's detections promises, whatever they are.  The
\* rules about the inputs alone are looked at where there is one detection.
VoteRules ==
  /\ VoteIsFair
  /\ Len(history) = 1 => DecayIsSteady /\ SignaturesAreBound /\ OperatorDecides
=============================================================================
