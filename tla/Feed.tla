-------------------------------- MODULE Feed --------------------------------
(***************************************************************************)
(* What the live feed of a dashboard promises (app/live.py, module         *)
(* docstring and _MAX_QUEUED_PER_CLIENT): it may lose events, but what a   *)
(* client receives was published, on the client's own site, and of one     *)
(* publisher in the order of publication, never twice.                     *)
(***************************************************************************)
EXTENDS Naturals, Sequences

CONSTANTS
  Client,        \* dashboards
  Worker,        \* threads that publish
  Site,
  SiteOf         \* the site of each client's API key

VARIABLES
  announced,     \* of each worker, the sites of its events, in order
  heard          \* of each client and worker, the number of the last event

PromiseVars == <<announced, heard>>

PromiseInit ==
  /\ announced = [w \in Worker |-> <<>>]
  /\ heard = [c \in Client |-> [w \in Worker |-> 0]]

Promulgate(w) ==
  /\ \E s \in Site : announced' = [announced EXCEPT ![w] = Append(@, s)]
  /\ UNCHANGED heard

\* The client gets a later event than any it has of that worker.
Hear(c, w) ==
  /\ \E n \in heard[c][w] + 1 .. Len(announced[w]) :
       /\ announced[w][n] = SiteOf[c]
       /\ heard' = [heard EXCEPT ![c][w] = n]
  /\ UNCHANGED announced

PromiseNext == \E w \in Worker : Promulgate(w) \/ \E c \in Client : Hear(c, w)

PromiseSpec == PromiseInit /\ [][PromiseNext]_PromiseVars
=============================================================================
