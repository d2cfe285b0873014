------------------------------- MODULE LotLedger -------------------------------
(***************************************************************************)
(* What StockService.process_movement_with_lots promises: one indivisible  *)
(* step posts the movement and takes its units from lots that hold them,   *)
(* or adds them to the lot it names; a movement made without lots          *)
(* (process_movement, or a product whose tracking_mode is "none") leaves   *)
(* every lot alone.  The interleaved transactions of module Lots implement *)
(* this specification.                                                     *)
(***************************************************************************)
EXTENDS StockLedger, FiniteSetsExt

CONSTANTS
    Lots,         \* StockLot rows, those not yet received included
    LotProduct,   \* StockLot.product
    LotOpening    \* what earlier receipts put in each lot

VARIABLES
    received,    \* StockLot.quantity_received, 0 while the row does not exist
    used         \* used[lot]: the units consuming movements took from it

lotLedgerVars == <<quantity, inflow, outflow, received, used>>

Consumes(m) == m.type \in {"issue", "adjustment"} /\ HasSource(m)
Supplies(m) == m.type \in {"receive", "adjustment"} /\ HasDest(m)

(* A plan says how many units each lot gives to movement m. *)
Plans(m) == [Lots -> 0..m.quantity]
PlanCovers(m, plan) ==
    /\ SumFunctionOnSet(plan, Lots) = m.quantity
    /\ \A lot \in Lots : /\ plan[lot] <= received[lot] - used[lot]
                         /\ plan[lot] > 0 => LotProduct[lot] = m.product

LotLedgerInit ==
    /\ LedgerInit
    /\ received = LotOpening
    /\ used = [lot \in Lots |-> 0]

(* Units leave the lots of the plan. *)
Consume(m) ==
    IF Consumes(m)
    THEN \E plan \in Plans(m) :
            /\ PlanCovers(m, plan)
            /\ used' = [lot \in Lots |-> used[lot] + plan[lot]]
    ELSE used' = used

(* Units enter the named lot, or none when the caller names none. *)
Supply(m) ==
    \/ received' = received
    \/ /\ Supplies(m)
       /\ \E lot \in Lots :
             /\ LotProduct[lot] = m.product
             /\ received' = [received EXCEPT ![lot] = @ + m.quantity]

PostWithLots(m) == Post(m) /\ Consume(m) /\ Supply(m)
PostPlain(m)    == Post(m) /\ UNCHANGED <<received, used>>

LotLedgerNext == \E m \in Movement : PostWithLots(m) \/ PostPlain(m)

LotLedgerSpec == LotLedgerInit /\ [][LotLedgerNext]_lotLedgerVars
=============================================================================
