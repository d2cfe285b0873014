------------------------------ MODULE StockLedger ------------------------------
(***************************************************************************)
(* What StockService.process_movement promises its callers: each accepted  *)
(* movement is applied to both of its records in one indivisible step, it  *)
(* is refused unless the source holds enough, and a refused movement       *)
(* leaves nothing behind.  The interleaved transactions of module Stock    *)
(* implement this specification.                                           *)
(***************************************************************************)
EXTENDS StockMovements

CONSTANT Opening   \* what the receipts before this history left in each record

ASSUME OpeningAssumption == Opening \in [StockRecord -> Nat]

VARIABLES
    quantity,   \* quantity[rec]: StockRecord.quantity, 0 when no row exists
    inflow,     \* inflow[rec]: total of the StockMovement rows into rec
    outflow     \* outflow[rec]: total of the StockMovement rows out of rec

ledgerVars == <<quantity, inflow, outflow>>

LedgerTypeOK ==
    /\ quantity \in [StockRecord -> Int]
    /\ inflow \in [StockRecord -> Nat]
    /\ outflow \in [StockRecord -> Nat]

LedgerInit ==
    /\ quantity = Opening
    /\ inflow   = Opening
    /\ outflow  = [rec \in StockRecord |-> 0]

(* One processed movement: the row in the log and its effect on the records. *)
Post(m) ==
    /\ ValidMovement(m)
    /\ HasSource(m) => quantity[Source(m)] >= m.quantity
    /\ quantity' = [rec \in StockRecord |->
                       quantity[rec] - Outgoing(m, rec) + Incoming(m, rec)]
    /\ inflow'   = [rec \in StockRecord |-> inflow[rec] + Incoming(m, rec)]
    /\ outflow'  = [rec \in StockRecord |-> outflow[rec] + Outgoing(m, rec)]

LedgerNext == \E m \in Movement : Post(m)

LedgerSpec == LedgerInit /\ [][LedgerNext]_ledgerVars

-----------------------------------------------------------------------------
(* Stock is never negative: InsufficientStockError exists to prevent it.     *)
NonNegativeStock == \A rec \in StockRecord : quantity[rec] >= 0

(* Every record equals the movement log: what the immutable StockMovement    *)
(* rows put in, less what they took out, is what the record holds.           *)
LedgerBalances ==
    \A rec \in StockRecord : quantity[rec] = inflow[rec] - outflow[rec]

LedgerInv == LedgerTypeOK /\ NonNegativeStock /\ LedgerBalances
=============================================================================
