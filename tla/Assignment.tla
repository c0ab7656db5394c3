------------------------------ MODULE Assignment ------------------------------
(***************************************************************************)
(* Which track each detection of a batch goes to (app/tracking.py          *)
(* associate_detections_batch): a matrix of costs, a column per track and  *)
(* one per detection for declining, solved by the Hungarian algorithm of   *)
(* app/assignment.py.  Rows and columns are numbered from 1 and 0 is the   *)
(* algorithm's sentinel, as in hungarian_min_cost.                         *)
(*                                                                         *)
(* A step is one turn of the search for an augmenting path.  Costs are     *)
(* whole numbers here; a squared Mahalanobis distance is a float.          *)
(***************************************************************************)
EXTENDS Integers, FiniteSetsExt, Functions

CONSTANTS
  Plots,         \* how many detections the batch has
  Tracks,        \* how many active tracks with a filter
  Gate,          \* TRACK_GATE_CHI2
  Far            \* _ASSIGNMENT_BLOCKED_COST

ASSUME AssignmentAssumption ==
  /\ Plots \in Nat \ {0} /\ Tracks \in Nat
  /\ Gate \in Nat /\ Far \in Nat /\ Far > (Plots + 1) * Gate

Plot == 1..Plots
Column == 1 .. Tracks + Plots
INF == (Plots + 2) * Far   \* float("inf"): above every reduced cost

VARIABLES
  distance,      \* of each plot from each track that passes its gates, or Far
  potential,     \* u
  price,         \* v
  row,           \* p: the row each column is given to
  way,
  minv, used,
  column,        \* j0
  solving        \* i; Plots + 1: all rows are assigned

AssignmentVars == <<distance, potential, price, row, way, minv, used, column, solving>>

\* cost_matrix: row + dummy_row
Cost(i, j) == IF j <= Tracks THEN distance[i][j] ELSE IF j = Tracks + i THEN Gate ELSE Far

AssignmentTypeOK ==
  /\ distance \in [Plot -> [1..Tracks -> 0..Far]]
  /\ potential \in [0..Plots -> Int] /\ price \in [Column \cup {0} -> Int]
  /\ row \in [Column \cup {0} -> 0..Plots] /\ way \in [Column \cup {0} -> Column \cup {0}]
  /\ minv \in [Column \cup {0} -> Int] /\ used \subseteq Column \cup {0}
  /\ column \in Column \cup {0} /\ solving \in 1 .. Plots + 1

All(x) == [j \in Column \cup {0} |-> x]

\* The gate is inclusive: a plot on the edge of it costs as much as declining.
AssignmentInit ==
  /\ distance \in [Plot -> [1..Tracks -> 0..Gate \cup {Far}]]
  /\ potential = [i \in 0..Plots |-> 0]
  /\ price = All(0)
  /\ row = [All(0) EXCEPT ![0] = 1]
  /\ way = All(0)
  /\ minv = All(INF) /\ used = {} /\ column = 0
  /\ solving = 1

-----------------------------------------------------------------------------
\* A bug: only the potential of the row that is being assigned moves.
RaisedAlone(i, seen) == IF i = solving THEN 1 ELSE 0

\* How many of the columns that are marked belong to the row: u[p[j]] += delta.
Raised(i, seen) == Cardinality({j \in seen : row[j] = i})

\* One turn of "while True": mark the column, relax the others from its row,
\* take the nearest, and shift the potentials.
Reach ==
  LET seen == used \cup {column}
      i0 == row[column]
      cur(j) == Cost(i0, j) - potential[i0] - price[j]
      closer == {j \in Column \ seen : cur(j) < minv[j]}
      near == [j \in Column \cup {0} |-> IF j \in closer THEN cur(j) ELSE minv[j]]
      delta == Min({near[j] : j \in Column \ seen})
  IN
  /\ solving <= Plots /\ (row[column] # 0)
  /\ used' = seen
  /\ way' = [j \in Column \cup {0} |-> IF j \in closer THEN column ELSE way[j]]
  /\ potential' = [i \in 0..Plots |-> potential[i] + delta * Raised(i, seen)]
  /\ price' = [j \in Column \cup {0} |-> IF j \in seen THEN price[j] - delta ELSE price[j]]
  /\ minv' = [j \in Column \cup {0} |-> IF j \in seen THEN minv[j] ELSE near[j] - delta]
  /\ column' = Min({j \in Column \ seen : near[j] = delta})
  /\ UNCHANGED <<distance, row, solving>>

\* "while j0": the rows move back along the path.
Flipped(path) == [j \in Column \cup {0} |-> IF j \in path THEN row[way[j]] ELSE row[j]]

\* The columns from the free one back to the sentinel: j0 = way[j0].
Back[n \in 0 .. Tracks + Plots] == IF n = 0 THEN column ELSE way[Back[n - 1]]

Path == {Back[n] : n \in 0 .. Min({n \in 0 .. Tracks + Plots : Back[n] = 0})} \ {0}

\* A free column is reached: augment, and go on with the next row.
Augment ==
  /\ solving <= Plots /\ row[column] = 0
  /\ row' = [Flipped(Path) EXCEPT ![0] = IF solving < Plots THEN solving + 1 ELSE 0]
  /\ solving' = solving + 1
  /\ column' = 0 /\ minv' = All(INF) /\ used' = {}
  /\ UNCHANGED <<distance, potential, price, way>>

AssignmentNext == Reach \/ Augment

-----------------------------------------------------------------------------
\* The reduced costs of the rows done so far never get negative, and are 0
\* where a row is assigned: what makes each partial assignment the cheapest for
\* its rows.
Feasible ==
  \A j \in Column :
    /\ \A i \in 1 .. solving - 1 : Cost(i, j) >= potential[i] + price[j]
    /\ row[j] # 0 => Cost(row[j], j) = potential[row[j]] + price[j]

\* What the caller makes of the answer: the plot's track, or 0 for a new track.
TrackOf(i) ==
  LET j == CHOOSE j \in Column : row[j] = i IN
  IF j <= Tracks /\ Cost(i, j) < Far THEN j ELSE 0

\* All the ways to give each plot a track of its own within its gate, or none.
Matchings ==
  {f \in [Plot -> 0..Tracks] :
     \A i \in Plot : f[i] # 0 => distance[i][f[i]] # Far /\ \A k \in Plot \ {i} : f[k] # f[i]}

Loss(f) == SumFunction([i \in Plot |-> IF f[i] = 0 THEN Gate ELSE distance[i][f[i]]])

\* A batch is resolved jointly: no other way to give the plots tracks within
\* their gates, or to decline, is better in all, and no track gets two plots
\* ("joint assignment sees the whole batch at once and can't make that mistake");
\* on the way there the potentials stay feasible.
BatchIsJointlyBest ==
  /\ Feasible
  /\ solving = Plots + 1 =>
       LET answer == [i \in Plot |-> TrackOf(i)] IN
       /\ answer \in Matchings
       /\ \A f \in Matchings : Loss(answer) <= Loss(f)
=============================================================================
