---------------------------- MODULE StockMovements ----------------------------
(***************************************************************************)
(* The vocabulary every stock module shares: what a StockMovement is, when *)
(* StockMovement.clean() and validate_movement_location_scope() accept it, *)
(* and what an accepted movement does to a StockRecord.                    *)
(*                                                                         *)
(* A StockRecord is a (product, location) pair.  Ids, unit costs,          *)
(* references and notes are left out: no stock decision reads them.        *)
(***************************************************************************)
EXTENDS Integers, FiniteSets

CONSTANTS
    Products,     \* Product rows
    Locations,    \* StockLocation rows
    NoLocation,   \* the null from_location / to_location
    Quantities,   \* the quantities a caller may ask for
    Tenants,
    TenantOf,     \* tenant of each product and each location
    Facility      \* the locations whose warehouse is set; the rest are retail-only

ASSUME MovementAssumption ==
    /\ NoLocation \notin Locations
    /\ Quantities \subseteq Nat
    /\ TenantOf \in [Products \cup Locations -> Tenants]
    /\ Facility \subseteq Locations

MovementType == {"receive", "issue", "transfer", "adjustment"}

StockRecord == Products \X Locations

Movement == [product  : Products,
             type     : MovementType,
             from     : Locations \cup {NoLocation},
             to       : Locations \cup {NoLocation},
             quantity : Quantities]

HasSource(m) == m.from # NoLocation
HasDest(m)   == m.to # NoLocation

Source(m) == <<m.product, m.from>>
Dest(m)   == <<m.product, m.to>>

(* StockMovement.clean: which legs each movement type must and must not have. *)
Clean(m) ==
    \/ m.type = "receive"    /\ HasDest(m)   /\ ~HasSource(m)
    \/ m.type = "issue"      /\ HasSource(m) /\ ~HasDest(m)
    \/ m.type = "transfer"   /\ HasSource(m) /\ HasDest(m) /\ m.from # m.to
    \/ m.type = "adjustment" /\ (HasSource(m) \/ HasDest(m))

(* Every location named belongs to the product's tenant. *)
SameTenant(m) ==
    \A l \in {m.from, m.to} \ {NoLocation} : TenantOf[l] = TenantOf[m.product]

(* A movement with two legs never pairs a facility location with a retail one. *)
SameScope(m) ==
    HasSource(m) /\ HasDest(m) => (m.from \in Facility <=> m.to \in Facility)

ValidMovement(m) == Clean(m) /\ SameTenant(m) /\ SameScope(m)

(* What movement m takes out of, and puts into, record rec. *)
Outgoing(m, rec) == IF HasSource(m) /\ rec = Source(m) THEN m.quantity ELSE 0
Incoming(m, rec) == IF HasDest(m)   /\ rec = Dest(m)   THEN m.quantity ELSE 0

(* The records movement m touches. *)
Touched(m) ==
    {rec \in StockRecord : \/ HasSource(m) /\ rec = Source(m)
                           \/ HasDest(m) /\ rec = Dest(m)}
=============================================================================
