------------------------------ MODULE SlotPool ------------------------------
(***************************************************************************)
(* What the scheduler promises about a worker's capacity, with no slots,   *)
(* actions, locks or goroutines: for each worker, offered slots (capacity  *)
(* it may still hand out) and reservations (assignments handed out and not *)
(* yet acked or nacked).                                                   *)
(*                                                                         *)
(*  - an offer is made only within maxRuns minus the outstanding           *)
(*    reservations; offers can also be withdrawn;                          *)
(*  - a reservation consumes exactly one offer;                            *)
(*  - settling (ack or nack) removes reservations and offers nothing back. *)
(***************************************************************************)
EXTENDS Naturals

CONSTANTS Workers, MaxRuns

VARIABLES offered, reserved

poolVars == <<offered, reserved>>

PoolTypeOK ==
  /\ offered \in [Workers -> Nat]
  /\ reserved \in [Workers -> Nat]

PoolInit ==
  /\ offered = [w \in Workers |-> 0]
  /\ reserved = [w \in Workers |-> 0]

\* offers are rewritten: each worker's offer either shrinks or fits in what
\* its outstanding reservations leave of maxRuns
Offer ==
  /\ offered' \in [Workers -> Nat]
  /\ \A w \in Workers : offered'[w] <= offered[w] \/ offered'[w] + reserved[w] <= MaxRuns[w]
  /\ UNCHANGED reserved

\* one offer of w becomes a reservation
Reserve(w) ==
  /\ offered[w] > 0
  /\ offered' = [offered EXCEPT ![w] = @ - 1]
  /\ reserved' = [reserved EXCEPT ![w] = @ + 1]

\* reservations are settled
Settle ==
  /\ reserved' \in [Workers -> Nat]
  /\ \A w \in Workers : reserved'[w] <= reserved[w]
  /\ UNCHANGED offered

PoolNext == Offer \/ (\E w \in Workers : Reserve(w)) \/ Settle

PoolSpec == PoolInit /\ [][PoolNext]_poolVars

=============================================================================
