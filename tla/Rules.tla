-------------------------------- MODULE Rules --------------------------------
(***************************************************************************)
(* The server's pure rules about shapes and movements: whether a point is  *)
(* in a zone (app/zones.py), whether a polygon crosses itself              *)
(* (app/zone_validation.py), and whether tracks loiter, shadow each other  *)
(* or fly in formation (app/behavior.py), each beside a reference that     *)
(* says the same in another way.                                           *)
(*                                                                         *)
(* Places are whole numbers, on a line for movements, so distances are     *)
(* exact; the program's are floats on a sphere.  An instance asks one      *)
(* question in each initial state and takes no steps.                      *)
(***************************************************************************)
EXTENDS Integers, SequencesExt, FiniteSetsExt, Relation

CONSTANTS
  Grid,          \* coordinates of vertices, latitude and longitude
  Instant,       \* times of detections
  Spot,          \* places on a line
  Heading, Speed,
  Span,          \* min_duration_s
  Gap,           \* max_time_gap_s
  Near,          \* radius_m, max_distance_m, max_spacing_m
  Turn, Pace     \* heading_tolerance_deg, speed_tolerance_mps

VARIABLE question

Point == [lat : Grid, lon : Grid]

-----------------------------------------------------------------------------
(* Zones. *)

\* A bug: the half-open rule takes the upper end on one side.
CrossesTwice(p, a, b) ==
  /\ (a.lat >= p.lat) # (b.lat > p.lat)
  /\ LET rise == b.lat - a.lat IN
     IF rise > 0 THEN (p.lon - a.lon) * rise < (p.lat - a.lat) * (b.lon - a.lon)
     ELSE (p.lon - a.lon) * rise > (p.lat - a.lat) * (b.lon - a.lon)

\* The ray from the point to the east crosses the edge: x < x_intersect, both
\* sides multiplied by y2 - y1.
Crosses(p, a, b) ==
  /\ (a.lat > p.lat) # (b.lat > p.lat)
  /\ LET rise == b.lat - a.lat IN
     IF rise > 0 THEN (p.lon - a.lon) * rise < (p.lat - a.lat) * (b.lon - a.lon)
     ELSE (p.lon - a.lon) * rise > (p.lat - a.lat) * (b.lon - a.lon)

Next1(polygon, i) == polygon[(i % Len(polygon)) + 1]

PointInPolygon(p, polygon) ==
  Cardinality({i \in DOMAIN polygon : Crosses(p, polygon[i], Next1(polygon, i))}) % 2 = 1

\* An altitude, or the limit of a zone, is a set: empty where it is not known.
WithinAltitudeBand(altitude, zone) ==
  \A a \in altitude : (\A low \in zone.low : a >= low) /\ (\A high \in zone.high : a <= high)

ZonesContainingPoint(zones, p, site, altitude) ==
  {z \in zones : z.site = site /\ z.active /\ PointInPolygon(p, z.polygon) /\ WithinAltitudeBand(altitude, z)}

\* _orientation: the sign of the turn p, q, r.
Orientation(p, q, r) ==
  LET val == (q.lon - p.lon) * (r.lat - q.lat) - (q.lat - p.lat) * (r.lon - q.lon) IN
  IF val = 0 THEN 0 ELSE IF val > 0 THEN 1 ELSE 2

OnSegment(p, q, r) ==
  \A axis \in {"lat", "lon"} :
    Min({p[axis], r[axis]}) <= q[axis] /\ q[axis] <= Max({p[axis], r[axis]})

\* _segments_intersect
SegmentsIntersect(p1, q1, p2, q2) ==
  LET o1 == Orientation(p1, q1, p2)
      o2 == Orientation(p1, q1, q2)
      o3 == Orientation(p2, q2, p1)
      o4 == Orientation(p2, q2, q1) IN
  \/ o1 # o2 /\ o3 # o4
  \/ o1 = 0 /\ OnSegment(p1, p2, q1)
  \/ o2 = 0 /\ OnSegment(p1, q2, q1)
  \/ o3 = 0 /\ OnSegment(p2, p1, q2)
  \/ o4 = 0 /\ OnSegment(p2, q1, q2)

\* validate_polygon, of vertices in range: no errors.
ValidPolygon(polygon) ==
  /\ Len(polygon) >= 3
  /\ \A i \in DOMAIN polygon : polygon[i] # Next1(polygon, i)
  /\ \A i, j \in DOMAIN polygon :
       j >= i + 2 /\ ~(i = 1 /\ j = Len(polygon)) =>
         ~SegmentsIntersect(polygon[i], Next1(polygon, i), polygon[j], Next1(polygon, j))

\* Reference: strictly on one side of all three edges.
WithinTriangle(p, t) ==
  LET sides == {Orientation(t[i], Next1(t, i), p) : i \in 1..3} IN sides \in {{1}, {2}}
OutsideTriangle(p, t) ==
  LET sides == {Orientation(t[i], Next1(t, i), p) : i \in 1..3} IN {1, 2} \subseteq sides

\* Reference: two segments share a point unless their shadows on a line along
\* or across one of them are apart.
Touch(p1, q1, p2, q2) ==
  LET axes == {[lat |-> q1.lat - p1.lat, lon |-> q1.lon - p1.lon],
               [lat |-> q2.lat - p2.lat, lon |-> q2.lon - p2.lon]}
      both == axes \cup {[lat |-> -a.lon, lon |-> a.lat] : a \in axes}
      dot(p, a) == p.lat * a.lat + p.lon * a.lon IN
  \A a \in both :
    /\ Min({dot(p1, a), dot(q1, a)}) <= Max({dot(p2, a), dot(q2, a)})
    /\ Min({dot(p2, a), dot(q2, a)}) <= Max({dot(p1, a), dot(q1, a)})

ZoneQuestions == [about : {"zone"}, corners : [1..4 -> Point]]

\* A point is in a triangle exactly when the reference says so, and where the
\* reference leaves the border open the rule still puts each point in exactly
\* one of two zones that share an edge: a zone cut in two along a diagonal
\* covers what it covered, without overlap; cut in two at an altitude, it covers
\* at every altitude what it covered, and a point whose altitude is not known is
\* in both parts.  Two edges cross in
\* zone_validation's eyes exactly when they share a point.
ZoneRules ==
  question.about = "zone" =>
    LET c == question.corners
        left == <<c[1], c[2], c[3]>>  right == <<c[1], c[3], c[4]>>
        zone(low, high) == [site |-> 1, active |-> TRUE, polygon |-> c, low |-> low, high |-> high]
        In(zones, p, altitude) == ZonesContainingPoint(zones, p, 1, altitude) IN
    /\ \A p \in Point :
         /\ WithinTriangle(p, left) => PointInPolygon(p, left)
         /\ OutsideTriangle(p, left) => ~PointInPolygon(p, left)
         /\ PointInPolygon(p, c) <=> PointInPolygon(p, left) # PointInPolygon(p, right)
    /\ \A p \in Point :
         /\ \A altitude \in {{}, {0}, {1}, {2}} :
              In({zone({}, {1}), zone({1}, {})}, p, altitude) # {} <=> In({zone({}, {})}, p, altitude) # {}
         /\ In({zone({}, {}), zone({}, {1}), zone({1}, {})}, p, {}) \in {{}, {zone({}, {}), zone({}, {1}), zone({1}, {})}}
    /\ c[1] # c[2] /\ c[3] # c[4] => (SegmentsIntersect(c[1], c[2], c[3], c[4]) <=> Touch(c[1], c[2], c[3], c[4]))
    /\ ValidPolygon(c) => ~Touch(c[1], c[2], c[3], c[4]) /\ ~Touch(c[2], c[3], c[4], c[1])

-----------------------------------------------------------------------------
(* Movements. *)

Abs(x) == IF x < 0 THEN -x ELSE x

\* Detections in the order of their times: each time's place, or none.
InOrder(times) == SetToSortSeq(times, <)

\* detect_loitering, of a track's places by time.
Loitering(path) ==
  LET times == DOMAIN path
      latest == Max(times)
      old == {t \in times : latest - t >= Span}
      recent == {t \in times : t >= Max(old)}
      sum == MapThenSumSet(LAMBDA t : path[t], recent) IN
  /\ Cardinality(times) >= 2 /\ old # {} /\ Cardinality(recent) >= 2
  /\ \A t \in recent : Abs(path[t] * Cardinality(recent) - sum) <= Near * Cardinality(recent)

\* The times of one track at which the other's nearest detection in time, the
\* earlier of two, is close.
CloseTimes(a, b) ==
  {t \in DOMAIN a :
     LET near == CHOOSE u \in DOMAIN b :
           \A x \in DOMAIN b : Abs(u - t) < Abs(x - t) \/ (Abs(u - t) = Abs(x - t) /\ u <= x) IN
     Abs(near - t) <= Gap /\ Abs(a[t] - b[near]) <= Near}

LongestSpan(scan) == Max({scan.longest, scan.previous - scan.start})

\* detect_shadowing
Shadowing(a, b) ==
  LET close == InOrder(CloseTimes(a, b))
      step(scan, t) ==
        IF t - scan.previous > Gap
          THEN [longest |-> Max({scan.longest, scan.previous - scan.start}), start |-> t, previous |-> t]
          ELSE [scan EXCEPT !.previous = t]
      end == FoldLeft(step, [longest |-> 0, start |-> close[1], previous |-> close[1]], Tail(close)) IN
  /\ Cardinality(DOMAIN a) >= 2 /\ Cardinality(DOMAIN b) >= 2
  /\ Len(close) >= 2
  /\ LongestSpan(end) >= Span

\* _heading_difference_deg
HeadingDifference(g, h) == LET diff == Abs(g - h) % 360 IN Min({diff, 360 - diff})

Alike(a, b) ==
  /\ Abs(a.at - b.at) <= Near
  /\ HeadingDifference(a.heading, b.heading) <= Turn
  /\ Abs(a.speed - b.speed) <= Pace

\* find: path halving changes no root.
Root(parent, i) ==
  LET up[n \in 0 .. Len(parent)] == IF n = 0 THEN i ELSE parent[up[n - 1]] IN up[Len(parent)]

\* A bug: a track is moved to the other group without the rest of its own.
MovedAlone(parent, i, j) == [parent EXCEPT ![i] = Root(parent, j)]

\* union
Joined(parent, i, j) == [parent EXCEPT ![Root(parent, i)] = Root(parent, j)]

\* detect_formations, of the tracks that are fast enough (min_speed_mps).
Formations(tracks) ==
  LET n == Len(tracks)
      pairs == SetToSortSeq({p \in (1..n) \X (1..n) : p[1] < p[2]},
                            LAMBDA p, q : p[1] < q[1] \/ (p[1] = q[1] /\ p[2] < q[2]))
      join(parent, p) == IF Alike(tracks[p[1]], tracks[p[2]]) THEN Joined(parent, p[1], p[2]) ELSE parent
      parent == FoldLeft(join, [i \in 1..n |-> i], pairs)
      groups == {{i \in 1..n : Root(parent, i) = r} : r \in 1..n} IN
  {g \in groups : Cardinality(g) >= 2}

\* Reference: tracks that a chain of pairs alike connects, headings compared on
\* the circle.
Connected(tracks) ==
  LET S == DOMAIN tracks
      alike == {p \in S \X S :
                  /\ Abs(tracks[p[1]].at - tracks[p[2]].at) <= Near
                  /\ \E k \in -1..1 : Abs(tracks[p[1]].heading - tracks[p[2]].heading + 360 * k) <= Turn
                  /\ Abs(tracks[p[1]].speed - tracks[p[2]].speed) <= Pace}
      chain == TransitiveClosure([x, y \in S |-> <<x, y>> \in alike], S) IN
  {g \in {{y \in S : chain[x, y]} : x \in S} : Cardinality(g) >= 2}

MoveQuestions ==
  [about : {"pair"}, a : UNION {[ts -> Spot] : ts \in SUBSET Instant}, b : UNION {[ts -> Spot] : ts \in SUBSET Instant}]
    \cup [about : {"group"}, tracks : [1..3 -> [at : Spot, heading : Heading, speed : Speed]]]

\* A formation is the whole of what chains of similar tracks connect; a
\* shadowing is a stretch of close reports without a gap, as long as the span,
\* wherever in the history it is; and a track that loiters has not been further
\* from any of its places of the last span than twice the radius, while one
\* that has stayed in its place for the span does.
MovementRules ==
  /\ question.about = "group" => Formations(question.tracks) = Connected(question.tracks)
  /\ question.about = "pair" =>
       LET a == question.a  b == question.b
           close == CloseTimes(a, b)
           stretch(s, e) == \A t \in close : s <= t /\ t < e => \E u \in close : t < u /\ u <= t + Gap
           latest == Max(DOMAIN a)
           last == {t \in DOMAIN a : t >= latest - Span} IN
       /\ Cardinality(DOMAIN b) >= 2 =>
            (Shadowing(a, b) <=> \E s, e \in close : s < e /\ e - s >= Span /\ stretch(s, e))
       /\ a # <<>> /\ Loitering(a) => \A t, u \in last : Abs(a[t] - a[u]) <= 2 * Near
       /\ (\E t \in DOMAIN a : t <= latest - Span /\ t < latest /\ \A u \in DOMAIN a : u >= t => a[u] = a[t])
            => Loitering(a)
=============================================================================
