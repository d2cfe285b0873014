---------------------------- MODULE OperationsProofs ----------------------------
(***************************************************************************)
(* Proofs about BulkStock and Operations, for any number of callers,       *)
(* batches, products and locations: the results of committed batches       *)
(* explain the stock, fail_fast is all or nothing, an adjustment leaves    *)
(* what it asked for, a job tells what became of its batch, and a stale    *)
(* cached payload has one of its known causes.                             *)
(*                                                                         *)
(* What a batch has not committed is visible to no one else, so most of    *)
(* the argument is about one caller: its draft is what its result says     *)
(* (DraftInv), to rows it holds locked.  A commit is the one step that     *)
(* touches what the others rely on.                                        *)
(***************************************************************************)
EXTENDS Operations, MovementProofs

USE MovementAssumption, BulkAssumption

-----------------------------------------------------------------------------
(* A batch and its items.                                                    *)

LEMMA SeqAt ==
    ASSUME NEW S, NEW s \in Seq(S)
    PROVE  /\ DOMAIN s = 1..Len(s) /\ Len(s) \in Nat
           /\ \A i \in DOMAIN s : s[i] \in S
OBVIOUS

LEMMA BatchTypes ==
    ASSUME NEW b \in Batches
    PROVE  /\ b.kind \in {"transfer", "adjustment", "revalue", "import"}
           /\ b.from \in Locations \cup {NoLocation} /\ b.to \in Locations \cup {NoLocation}
           /\ b.kind = "adjustment" => b.to \in Locations
           /\ DOMAIN b.items = 1..Len(b.items) /\ Len(b.items) \in Nat
           /\ \A i \in DOMAIN b.items :
                 /\ b.items[i].amount \in Int
                 /\ b.kind # "import" => b.items[i].product \in Products \cup {Missing}
                 /\ b.kind = "import" => b.items[i].product \in Keys
<1> DEFINE P == IF b.kind = "import" THEN Keys ELSE Products \cup {Missing}
           I == [product : P, amount : Int]
<1>1. IsBatch(b)
    OBVIOUS
<1>2. b.items \in Seq(I)
    BY <1>1 DEF IsBatch
<1>3. \A item \in I : item.product \in P /\ item.amount \in Int
    OBVIOUS
<1>4. /\ DOMAIN b.items = 1..Len(b.items) /\ Len(b.items) \in Nat
      /\ \A i \in DOMAIN b.items : b.items[i] \in I
    <2> HIDE DEF I
    <2> QED BY <1>2, SeqAt, Zenon
<1>5. \A i \in DOMAIN b.items : b.items[i].product \in P /\ b.items[i].amount \in Int
    <2> HIDE DEF I
    <2> QED BY <1>3, <1>4, Zenon
<1>6. \A i \in DOMAIN b.items :
          /\ b.kind # "import" => b.items[i].product \in Products \cup {Missing}
          /\ b.kind = "import" => b.items[i].product \in Keys
    BY <1>5
<1>7. /\ b.kind \in {"transfer", "adjustment", "revalue", "import"}
      /\ b.from \in Locations \cup {NoLocation} /\ b.to \in Locations \cup {NoLocation}
      /\ b.kind = "adjustment" => b.to \in Locations
    BY <1>1 DEF IsBatch, Kind
<1> QED
    BY <1>4, <1>5, <1>6, <1>7

LEMMA KeysAreKeys ==
    ASSUME NEW b \in Batches, b.kind = "import"
    PROVE  KeysOf(b) \subseteq Keys
BY BatchTypes DEF KeysOf, ItemsOf

LEMMA ReportTypes ==
    ASSUME NEW rep \in Seq(Entry)
    PROVE  /\ DOMAIN rep = 1..Len(rep) /\ Len(rep) \in Nat
           /\ \A i \in DOMAIN rep : rep[i].status \in {"success", "failure", "no_change"}
                                    /\ rep[i].change \in Int
<1>1. \A entry \in Entry : entry.status \in {"success", "failure", "no_change"} /\ entry.change \in Int
    BY DEF Entry
<1>2. /\ DOMAIN rep = 1..Len(rep) /\ Len(rep) \in Nat
      /\ \A i \in DOMAIN rep : rep[i] \in Entry
    BY SeqAt, Zenon
<1> QED BY <1>1, <1>2, Zenon

LEMMA ItemTypes ==
    ASSUME NEW c \in Callers, BatchInv(c), pc[c] \in {"item", "move"}
    PROVE  /\ batch[c] \in Batches
           /\ batch[c].kind \in {"transfer", "adjustment", "revalue"}
           /\ Len(report[c]) \in Nat /\ Len(report[c]) + 1 \in DOMAIN batch[c].items
           /\ Item(c).product \in Products \cup {Missing}
           /\ Item(c).amount \in Int
<1>1. batch[c] \in Batches /\ batch[c].kind # "import" /\ Len(report[c]) < Len(batch[c].items)
    BY DEF BatchInv
<1>2. Len(report[c]) \in Nat
    BY DEF BatchInv
<1>3. DOMAIN batch[c].items = 1..Len(batch[c].items) /\ Len(batch[c].items) \in Nat
    BY <1>1, BatchTypes
<1>4. Len(report[c]) + 1 \in DOMAIN batch[c].items
    BY <1>1, <1>2, <1>3
<1>5. Item(c).product \in Products \cup {Missing} /\ Item(c).amount \in Int
    BY <1>1, <1>4, BatchTypes DEF Item
<1>6. batch[c].kind \in {"transfer", "adjustment", "revalue"}
    BY <1>1, BatchTypes
<1> QED
    BY <1>1, <1>2, <1>4, <1>5, <1>6

(* The movement an item asks for, if full_clean accepts it: it changes the   *)
(* records it locks, by what the result will say.                            *)
LEMMA MoveTypes ==
    ASSUME NEW c \in Callers, BulkTypeOK, BatchInv(c), pc[c] = "move", Valid(Move(c))
    PROVE  /\ Move(c).product = Item(c).product /\ Item(c).product \in Products
           /\ Move(c).quantity \in Nat
           /\ HasSource(Move(c)) => Source(Move(c)) \in StockRecord
           /\ HasDest(Move(c)) => Dest(Move(c)) \in StockRecord
           /\ \A rec \in StockRecord :
                 /\ Outgoing(Move(c), rec) \in Nat /\ Incoming(Move(c), rec) \in Nat
                 /\ rec \notin Touched(Move(c)) =>
                       Outgoing(Move(c), rec) = 0 /\ Incoming(Move(c), rec) = 0
<1>1. /\ batch[c].from \in Locations \cup {NoLocation} /\ batch[c].to \in Locations \cup {NoLocation}
      /\ Item(c).product \in Products /\ Item(c).amount \in Int
      /\ batch[c].kind \in {"transfer", "adjustment"}
    BY ItemTypes, BatchTypes DEF BatchInv
<1>2. delta[c] \in Int
    BY DEF BulkTypeOK
<1>3. /\ Move(c).product = Item(c).product
      /\ Move(c).from \in Locations \cup {NoLocation} /\ Move(c).to \in Locations \cup {NoLocation}
      /\ Move(c).quantity \in Int
    <2>1. CASE batch[c].kind = "transfer"
        BY <1>1, <2>1 DEF Move
    <2>2. CASE batch[c].kind = "adjustment"
        BY <1>1, <1>2, <2>2 DEF Move
    <2> QED BY <1>1, <2>1, <2>2
<1>4. Move(c).quantity \in Nat
    BY <1>3 DEF Valid
<1>5. /\ HasSource(Move(c)) => Source(Move(c)) \in StockRecord
      /\ HasDest(Move(c)) => Dest(Move(c)) \in StockRecord
    BY <1>1, <1>3 DEF HasSource, HasDest, Source, Dest, StockRecord
<1>6. ASSUME NEW rec \in StockRecord
      PROVE  /\ Outgoing(Move(c), rec) \in Nat /\ Incoming(Move(c), rec) \in Nat
             /\ rec \notin Touched(Move(c)) =>
                   Outgoing(Move(c), rec) = 0 /\ Incoming(Move(c), rec) = 0
    BY <1>4 DEF Outgoing, Incoming, Touched
<1> QED
    BY <1>1, <1>3, <1>4, <1>5, <1>6

LEMMA MoveTells ==
    ASSUME NEW c \in Callers, BulkTypeOK, BatchInv(c), pc[c] = "move", Valid(Move(c)),
           NEW rec \in StockRecord
    PROVE  Incoming(Move(c), rec) - Outgoing(Move(c), rec)
           = Change(batch[c], Len(report[c]) + 1, [status |-> "success", change |-> delta[c]], rec)
<1> DEFINE b == batch[c]
           p == Item(c).product
           n == Item(c).amount
           told == Change(b, Len(report[c]) + 1, [status |-> "success", change |-> delta[c]], rec)
<1>1. /\ b.from \in Locations \cup {NoLocation} /\ b.to \in Locations \cup {NoLocation}
      /\ p \in Products /\ n \in Int
      /\ b.kind \in {"transfer", "adjustment"}
    BY ItemTypes, BatchTypes DEF BatchInv
<1>2. delta[c] \in Int
    BY DEF BulkTypeOK
<1>3. /\ rec = <<rec[1], rec[2]>> /\ rec[2] \in Locations /\ rec[2] # NoLocation
      /\ \A q, l : rec = <<q, l>> <=> rec[1] = q /\ rec[2] = l
    BY DEF StockRecord
<1>4. CASE b.kind = "transfer"
    <2>1. /\ Move(c).from = b.from /\ Move(c).to = b.to
          /\ Move(c).product = p /\ Move(c).quantity = n
          /\ b.from # NoLocation /\ b.to # NoLocation
        BY <1>4 DEF Move, Valid, ValidMovement, Clean, HasSource, HasDest
    <2>2. told = IF rec[1] # p THEN 0
                 ELSE (IF rec[2] = b.to THEN n ELSE 0) - (IF rec[2] = b.from THEN n ELSE 0)
        BY <1>4 DEF Change, Item
    <2>3. /\ Incoming(Move(c), rec) = IF rec[1] = p /\ rec[2] = b.to THEN n ELSE 0
          /\ Outgoing(Move(c), rec) = IF rec[1] = p /\ rec[2] = b.from THEN n ELSE 0
        BY <1>3, <2>1 DEF Incoming, Outgoing, HasSource, HasDest, Source, Dest
    <2>4. Incoming(Move(c), rec) - Outgoing(Move(c), rec) = told
        <3> HIDE DEF told, p, n, b
        <3> QED BY <1>1, <2>2, <2>3
    <2> QED BY <2>4
<1>5. CASE b.kind = "adjustment"
    <2>1. /\ Move(c).from = IF delta[c] < 0 THEN b.to ELSE NoLocation
          /\ Move(c).to = IF delta[c] > 0 THEN b.to ELSE NoLocation
          /\ Move(c).product = p
          /\ Move(c).quantity = IF delta[c] < 0 THEN -delta[c] ELSE delta[c]
        BY <1>5 DEF Move
    <2>2. told = IF rec[1] = p /\ rec[2] = b.to THEN delta[c] ELSE 0
        BY <1>5 DEF Change, Item
    <2>3. /\ Incoming(Move(c), rec)
             = IF delta[c] > 0 /\ rec[1] = p /\ rec[2] = b.to THEN Move(c).quantity ELSE 0
          /\ Outgoing(Move(c), rec)
             = IF delta[c] < 0 /\ rec[1] = p /\ rec[2] = b.to THEN Move(c).quantity ELSE 0
        BY <1>3, <2>1 DEF Incoming, Outgoing, HasSource, HasDest, Source, Dest
    <2>4. Incoming(Move(c), rec) - Outgoing(Move(c), rec) = told
        <3> HIDE DEF told, p, n, b
        <3> QED BY <1>1, <1>2, <2>1, <2>2, <2>3
    <2> QED BY <2>4
<1> QED
    BY <1>1, <1>4, <1>5

-----------------------------------------------------------------------------
(* What a result reports in all.                                             *)

ReportedBy(b, rep, rec) ==
    SumFunctionOnSet([i \in DOMAIN rep |-> Change(b, i, rep[i], rec)], DOMAIN rep)

LEMMA ReportedIs ==
    ASSUME NEW c, NEW rec
    PROVE  Reported(c, rec) = ReportedBy(batch[c], report[c], rec)
BY DEF Reported, ReportedBy, Told

LEMMA ChangeTypes ==
    ASSUME NEW b \in Batches, NEW i \in DOMAIN b.items, NEW entry, entry.change \in Int, NEW rec
    PROVE  Change(b, i, entry, rec) \in Int
<1>1. b.items[i].amount \in Int
    BY BatchTypes
<1> DEFINE n == b.items[i].amount
<1>2. CASE b.kind = "transfer"
    <2>1. \/ Change(b, i, entry, rec) = 0
          \/ Change(b, i, entry, rec)
             = (IF rec[2] = b.to THEN n ELSE 0) - (IF rec[2] = b.from THEN n ELSE 0)
        BY <1>2 DEF Change
    <2> QED BY <1>1, <2>1
<1>3. CASE b.kind = "adjustment"
    BY <1>3 DEF Change
<1>4. CASE b.kind \notin {"transfer", "adjustment"}
    BY <1>4 DEF Change
<1> QED BY <1>2, <1>3, <1>4

LEMMA ReportedTypes ==
    ASSUME NEW b \in Batches, NEW rep \in Seq(Entry), Len(rep) <= Len(b.items), NEW rec
    PROVE  /\ ReportedBy(b, rep, rec) \in Int
           /\ \A i \in DOMAIN rep : Change(b, i, rep[i], rec) \in Int
<1>1. /\ DOMAIN rep = 1..Len(rep) /\ Len(rep) \in Nat
      /\ \A i \in DOMAIN rep : rep[i].change \in Int
    BY ReportTypes
<1>2. \A i \in DOMAIN rep : i \in DOMAIN b.items
    BY <1>1, BatchTypes
<1> DEFINE f == [i \in DOMAIN rep |-> Change(b, i, rep[i], rec)]
<1>3. \A i \in DOMAIN rep : Change(b, i, rep[i], rec) \in Int
    BY <1>1, <1>2, ChangeTypes
<1>4. \A i \in DOMAIN rep : f[i] \in Int
    BY <1>3
<1>5. IsFiniteSet(DOMAIN rep)
    BY <1>1, FS_Interval
<1>6. SumFunctionOnSet(f, DOMAIN rep) \in Int
    <2> HIDE DEF f
    <2> QED BY <1>4, <1>5, SumInt
<1> QED
    BY <1>3, <1>6 DEF ReportedBy

(* Each entry adds its change. *)
LEMMA ReportGrows ==
    ASSUME NEW b \in Batches, NEW rep \in Seq(Entry), NEW entry \in Entry,
           Len(rep) < Len(b.items), NEW rec
    PROVE  /\ ReportedBy(b, rep, rec) \in Int /\ Change(b, Len(rep) + 1, entry, rec) \in Int
           /\ ReportedBy(b, Append(rep, entry), rec)
              = ReportedBy(b, rep, rec) + Change(b, Len(rep) + 1, entry, rec)
<1> DEFINE n == Len(rep)
           grown == Append(rep, entry)
           f == [i \in DOMAIN rep |-> Change(b, i, rep[i], rec)]
           g == [i \in DOMAIN grown |-> Change(b, i, grown[i], rec)]
<1>1. n \in Nat /\ DOMAIN rep = 1..n /\ n < Len(b.items) /\ Len(b.items) \in Nat
    BY ReportTypes, BatchTypes
<1>2. /\ grown \in Seq(Entry) /\ Len(grown) = n + 1 /\ Len(grown) <= Len(b.items)
      /\ DOMAIN grown = 1..(n + 1)
      /\ \A i \in 1..n : grown[i] = rep[i]
      /\ grown[n + 1] = entry
    BY <1>1
<1>3. 1..(n + 1) = (1..n) \cup {n + 1} /\ n + 1 \notin 1..n
    BY <1>1
<1>4. /\ \A i \in 1..n : g[i] = f[i]
      /\ g[n + 1] = Change(b, n + 1, entry, rec)
    <2>1. \A i \in 1..n : i \in DOMAIN grown /\ i \in DOMAIN rep
        BY <1>1, <1>2, <1>3
    <2>2. n + 1 \in DOMAIN grown
        BY <1>2, <1>3
    <2> QED BY <1>2, <2>1, <2>2
<1>5. \A i \in (1..n) \cup {n + 1} : g[i] \in Int
    <2>1. \A i \in DOMAIN grown : Change(b, i, grown[i], rec) \in Int
        BY <1>2, ReportedTypes
    <2> QED BY <1>2, <1>3, <2>1
<1>6. ReportedBy(b, rep, rec) \in Int /\ \A i \in 1..n : f[i] \in Int
    <2>1. Len(rep) <= Len(b.items)
        BY <1>1
    <2> QED BY <1>1, <2>1, ReportedTypes
<1>7. IsFiniteSet(1..n)
    BY <1>1, FS_Interval
<1>8. /\ ReportedBy(b, rep, rec) = SumFunctionOnSet(f, 1..n)
      /\ ReportedBy(b, grown, rec) = SumFunctionOnSet(g, (1..n) \cup {n + 1})
    BY <1>1, <1>2, <1>3 DEF ReportedBy
<1> HIDE DEF f, g
<1>9. SumFunctionOnSet(g, (1..n) \cup {n + 1}) = g[n + 1] + SumFunctionOnSet(g, 1..n)
    BY <1>3, <1>5, <1>7, SumAdd
<1>10. SumFunctionOnSet(f, 1..n) = SumFunctionOnSet(g, 1..n)
    BY <1>4, <1>6, <1>7, SumEqual
<1>11. g[n + 1] \in Int
    BY <1>5
<1> HIDE DEF n, grown
<1>12. ReportedBy(b, grown, rec) = ReportedBy(b, rep, rec) + Change(b, n + 1, entry, rec)
    BY <1>4, <1>6, <1>8, <1>9, <1>10, <1>11
<1> QED
    BY <1>4, <1>6, <1>11, <1>12 DEF n, grown

-----------------------------------------------------------------------------
(* A step of one caller, not visible to the others.                          *)

OwnStep(c) ==
    /\ UNCHANGED <<rowVars, disturbed>>
    /\ pc[c] # "committed" /\ pc'[c] # "committed"
    /\ \A d \in Callers \ {c} :
          /\ pc'[d] = pc[d] /\ batch'[d] = batch[d] /\ delta'[d] = delta[d]
          /\ draft'[d] = draft[d] /\ price'[d] = price[d] /\ report'[d] = report[d]
          /\ d \in broken' <=> d \in broken
          /\ \A row \in Row : lock[row] = d => lock'[row] = d

(* The record of an entry of an adjustment. *)
LEMMA SuccessRecord ==
    ASSUME NEW c \in Callers, BatchInv(c), pc[c] \in InBatch, batch[c].kind = "adjustment",
           NEW i \in DOMAIN report[c], report[c][i].status = "success"
    PROVE  /\ i \in DOMAIN batch[c].items /\ batch[c].items[i].product \in Products
           /\ <<batch[c].items[i].product, batch[c].to>> \in StockRecord
<1>1. /\ batch[c] \in Batches /\ report[c] \in Seq(Entry) /\ Len(report[c]) <= Len(batch[c].items)
      /\ batch[c].items[i].product # Missing
    <2>1. pc[c] # "idle" /\ pc[c] \in {"item", "move", "insert", "commit"}
        BY DEF InBatch
    <2>2. Len(report[c]) \in Nat /\ Len(batch[c].items) \in Nat
        BY <2>1, BatchTypes, ReportTypes DEF BatchInv
    <2> QED BY <2>1, <2>2 DEF BatchInv
<1>2. i \in DOMAIN batch[c].items
    BY <1>1, ReportTypes, BatchTypes
<1> QED
    BY <1>1, <1>2, BatchTypes DEF StockRecord

LEMMA OthersKept ==
    ASSUME NEW c \in Callers, OwnStep(c), NEW d \in Callers \ {c},
           BatchInv(d), DraftInv(d), PriceInv(d), AdjustInv(d), ImportInv(d)
    PROVE  /\ BatchInv(d)' /\ DraftInv(d)' /\ PriceInv(d)' /\ AdjustInv(d)' /\ ImportInv(d)'
           /\ \A rec \in StockRecord : Reported(d, rec)' = Reported(d, rec)
           /\ \A rec \in StockRecord : View(d, rec)' = View(d, rec)
<1>1. /\ pc'[d] = pc[d] /\ batch'[d] = batch[d] /\ delta'[d] = delta[d]
      /\ draft'[d] = draft[d] /\ price'[d] = price[d] /\ report'[d] = report[d]
      /\ d \in broken' <=> d \in broken
      /\ \A row \in Row : lock[row] = d => lock'[row] = d
      /\ \A rec \in StockRecord : lock[rec] = d => lock'[rec] = d
      /\ quantity' = quantity /\ created' = created /\ disturbed' = disturbed
    BY DEF OwnStep, rowVars, Row
<1>2. BatchInv(d)'
    BY <1>1 DEF BatchInv, Item
<1>3. \A rec \in StockRecord : Reported(d, rec)' = Reported(d, rec)
    BY <1>1 DEF Reported, Told
<1>4. \A rec \in StockRecord : View(d, rec)' = View(d, rec)
    BY <1>1 DEF View
<1>5. DraftInv(d)'
    BY <1>1, <1>3 DEF DraftInv
<1>6. AdjustInv(d)'
    <2> SUFFICES ASSUME pc'[d] \in InBatch, batch'[d].kind = "adjustment"
                 PROVE  AdjustInv(d)'
        BY DEF AdjustInv
    <2> DEFINE b == batch[d]
    <2>1. pc[d] \in InBatch /\ b.kind = "adjustment" /\ b \in Batches /\ pc[d] # "idle"
        BY <1>1 DEF BatchInv, InBatch
    <2>2. /\ pc[d] = "move" /\ <<d, Len(report[d]) + 1>> \notin disturbed =>
                 delta[d] = Item(d).amount - View(d, <<Item(d).product, b.to>>)
          /\ \A i \in DOMAIN report[d] :
                 /\ report[d][i].status = "success"
                 /\ <<d, i>> \notin disturbed
                 /\ \A j \in DOMAIN report[d] : j > i => b.items[j].product # b.items[i].product
                 => /\ lock[<<b.items[i].product, b.to>>] = d
                    /\ View(d, <<b.items[i].product, b.to>>) = b.items[i].amount
        BY <2>1 DEF AdjustInv
    <2>3. Item(d)' = Item(d) /\ batch'[d] = b
        BY <1>1 DEF Item
    <2>4. \A rec : View(d, rec)' = View(d, rec)
        BY <1>1 DEF View
    <2>5. pc'[d] = "move" /\ <<d, Len(report'[d]) + 1>> \notin disturbed' =>
                 delta'[d] = Item(d)'.amount - View(d, <<Item(d).product, b.to>>)'
        BY <1>1, <2>2, <2>3, <2>4
    <2>6. \A i \in DOMAIN report[d] :
              report[d][i].status = "success" => <<b.items[i].product, b.to>> \in StockRecord
        BY <2>1, SuccessRecord
    <2>7. \A i \in DOMAIN report'[d] :
              /\ report'[d][i].status = "success"
              /\ <<d, i>> \notin disturbed'
              /\ \A j \in DOMAIN report'[d] : j > i => b.items[j].product # b.items[i].product
              => /\ lock'[<<b.items[i].product, b.to>>] = d
                 /\ View(d, <<b.items[i].product, b.to>>)' = b.items[i].amount
        BY <1>1, <2>2, <2>4, <2>6
    <2> QED BY <2>3, <2>5, <2>7 DEF AdjustInv
<1>7. ImportInv(d)'
    <2> SUFFICES ASSUME pc'[d] = "commit", batch'[d].kind = "import"
                 PROVE  \A k \in KeysOf(batch[d]) : lock'[k] = d /\ created'[k] = 0
        BY <1>1 DEF ImportInv, KeysOf, ItemsOf
    <2>1. batch[d] \in Batches /\ batch[d].kind = "import" /\ pc[d] = "commit"
        BY <1>1 DEF BatchInv
    <2>2. \A k \in KeysOf(batch[d]) : k \in Row
        BY <2>1, KeysAreKeys DEF Row
    <2> QED BY <1>1, <2>1, <2>2 DEF ImportInv
<1>8. PriceInv(d)'
    BY <1>1 DEF PriceInv, PricedLast, Repriced
<1> QED BY <1>2, <1>3, <1>4, <1>5, <1>6, <1>7, <1>8

(* The committed batches are the same. *)
LEMMA SumKept ==
    ASSUME NEW c \in Callers, OwnStep(c), BulkInv
    PROVE  StockExplained'
<1> SUFFICES ASSUME NEW rec \in StockRecord
             PROVE  quantity'[rec] = Opening[rec] +
                       SumFunctionOnSet([d \in Callers |-> IF pc'[d] = "committed"
                                            THEN Reported(d, rec)' ELSE 0], Callers)
    BY DEF StockExplained
<1> DEFINE f == [d \in Callers |-> IF pc[d] = "committed" THEN Reported(d, rec) ELSE 0]
           g == [d \in Callers |-> IF pc'[d] = "committed" THEN Reported(d, rec)' ELSE 0]
<1>1. quantity'[rec] = quantity[rec] /\ quantity[rec] = Opening[rec] + SumFunctionOnSet(f, Callers)
    BY DEF OwnStep, rowVars, BulkInv, ReportsExplainStock, StockExplained
<1>2. ASSUME NEW d \in Callers
      PROVE  (IF pc'[d] = "committed" THEN Reported(d, rec)' ELSE 0)
             = (IF pc[d] = "committed" THEN Reported(d, rec) ELSE 0)
    <2>1. CASE d = c
        BY <2>1 DEF OwnStep
    <2>2. CASE d # c
        <3>1. Reported(d, rec)' = Reported(d, rec) /\ pc'[d] = pc[d]
            BY <2>2, OthersKept DEF BulkInv, OwnStep
        <3> QED BY <3>1
    <2> QED BY <2>1, <2>2
<1>3. g = f
    BY <1>2
<1> QED BY <1>1, <1>3

LEMMA CostsKept ==
    ASSUME NEW c \in Callers, OwnStep(c), BulkInv
    PROVE  CostsExplained'
<1>1. cost' = cost /\ pc[c] # "committed" /\ pc'[c] # "committed"
    BY DEF OwnStep, rowVars
<1>2. ASSUME NEW d \in Callers, d # c, NEW p, NEW value
      PROVE  /\ pc'[d] = pc[d] /\ Repriced(d, p)' = Repriced(d, p)
             /\ PricedLast(d, p, value) <=> \E i \in Repriced(d, p)' :
                    value = batch'[d].items[i].amount /\ \A j \in Repriced(d, p)' : j <= i
    <2>1. pc'[d] = pc[d] /\ batch'[d] = batch[d] /\ report'[d] = report[d]
        BY <1>2 DEF OwnStep
    <2> QED BY <2>1 DEF Repriced, PricedLast
<1>3. ASSUME NEW p \in Products
      PROVE  \/ \E d \in Callers : pc'[d] = "committed" /\ PricedLast(d, p, cost[p])'
             \/ cost'[p] = 0 /\ \A d \in Callers : pc'[d] = "committed" => Repriced(d, p)' = {}
    <2>1. CASE \E d \in Callers : pc[d] = "committed" /\ PricedLast(d, p, cost[p])
        <3>1. PICK d \in Callers : pc[d] = "committed" /\ PricedLast(d, p, cost[p])
            BY <2>1
        <3>2. d # c
            BY <1>1, <3>1
        <3>3. pc'[d] = "committed" /\ PricedLast(d, p, cost[p])'
            BY <1>1, <1>2, <3>1, <3>2 DEF PricedLast
        <3> QED BY <3>3
    <2>2. CASE cost[p] = 0 /\ \A d \in Callers : pc[d] = "committed" => Repriced(d, p) = {}
        BY <1>1, <1>2, <2>2
    <2> QED BY <2>1, <2>2 DEF BulkInv, ReportsExplainStock, CostsExplained
<1> QED BY <1>3 DEF CostsExplained

LEMMA OwnStepInv ==
    ASSUME NEW c \in Callers, OwnStep(c), BulkInv,
           BulkTypeOK', BatchInv(c)', DraftInv(c)', PriceInv(c)', AdjustInv(c)', ImportInv(c)'
    PROVE  BulkInv'
<1>1. \A d \in Callers \ {c} :
          BatchInv(d)' /\ DraftInv(d)' /\ PriceInv(d)' /\ AdjustInv(d)' /\ ImportInv(d)'
    BY OthersKept DEF BulkInv
<1>2. \A d \in Callers :
          BatchInv(d)' /\ DraftInv(d)' /\ PriceInv(d)' /\ AdjustInv(d)' /\ ImportInv(d)'
    BY <1>1
<1>3. ReportsExplainStock'
    BY SumKept, CostsKept DEF ReportsExplainStock
<1> QED BY <1>2, <1>3 DEF BulkInv

(* What everybody sees of the records. *)
LEMMA OthersSee ==
    ASSUME NEW c \in Callers, OwnStep(c), BulkInv,
           \A rec \in StockRecord : View(c, rec)' >= 0
    PROVE  \A d \in Callers, rec \in StockRecord : View(d, rec)' >= 0
<1>1. ASSUME NEW d \in Callers \ {c}, NEW rec \in StockRecord PROVE View(d, rec)' >= 0
    <2>1. View(d, rec)' = View(d, rec)
        BY OthersKept DEF BulkInv
    <2> QED BY <2>1 DEF BulkInv, BulkTypeOK
<1> QED BY <1>1

-----------------------------------------------------------------------------
(* An item is done.                                                          *)

LEMMA ReportStep ==
    ASSUME NEW c \in Callers, BulkInv, pc[c] \in {"item", "move"}, batch' = batch,
           NEW status \in {"success", "failure", "no_change"}, NEW change \in Int,
           Report(c, status, change),
           status = "failure" => ~batch[c].failFast,
           status = "success" => Item(c).product # Missing,
           DOMAIN price'[c] \subseteq Products /\ price'[c] \in [DOMAIN price'[c] -> Nat],
           c \in broken' => batch[c].kind = "revalue",
           c \in broken' => c \in broken \/ status = "failure"
    PROVE  /\ BatchInv(c)'
           /\ report'[c] = Append(report[c], [status |-> status, change |-> change])
           /\ pc'[c] \in {"item", "commit"}
           /\ pc' \in [Callers -> {"idle"} \cup InBatch \cup Outcome]
           /\ \A d \in Callers \ {c} : report'[d] = report[d] /\ pc'[d] = pc[d]
<1> DEFINE n == Len(report[c])
           b == batch[c]
           entry == [status |-> status, change |-> change]
<1>1. /\ b \in Batches /\ b.kind \in {"transfer", "adjustment", "revalue"}
      /\ n \in Nat /\ n < Len(b.items) /\ Len(b.items) \in Nat
      /\ report[c] \in Seq(Entry)
    BY ItemTypes, BatchTypes DEF BulkInv, BatchInv
<1>2. pc \in [Callers -> {"idle"} \cup InBatch \cup Outcome]
    BY DEF BulkInv, BulkTypeOK
<1>3. \A d \in Callers \ {c} : report'[d] = report[d] /\ pc'[d] = pc[d]
    BY <1>2 DEF Report, BulkInv, BulkTypeOK
<1>4. /\ pc'[c] = IF n + 1 = Len(b.items) THEN "commit" ELSE "item"
      /\ pc' \in [Callers -> {"idle"} \cup InBatch \cup Outcome]
    BY <1>2 DEF Report, InBatch
<1>5. report'[c] = Append(report[c], entry)
    BY DEF Report, BulkInv, BulkTypeOK
<1>6. entry \in Entry
    BY DEF Entry
<1>7. /\ Append(report[c], entry) \in Seq(Entry) /\ Len(Append(report[c], entry)) = n + 1
      /\ DOMAIN Append(report[c], entry) = 1..(n + 1) /\ DOMAIN report[c] = 1..n
      /\ \A i \in 1..n : Append(report[c], entry)[i] = report[c][i]
      /\ Append(report[c], entry)[n + 1] = entry
    <2> HIDE DEF entry
    <2> QED BY <1>1, <1>6
<1>8. \A i \in 1..(n + 1) : i \in 1..n \/ i = n + 1
    BY <1>1
<1>9. /\ b.failFast => \A i \in DOMAIN report'[c] : report'[c][i].status # "failure"
      /\ \A i \in DOMAIN report'[c] : report'[c][i].status = "success" => b.items[i].product # Missing
    <2>1. /\ b.failFast => \A i \in 1..n : report[c][i].status # "failure"
          /\ \A i \in 1..n : report[c][i].status = "success" => b.items[i].product # Missing
        BY <1>7 DEF BulkInv, BatchInv, InBatch
    <2> QED BY <1>5, <1>7, <1>8, <2>1 DEF Item
<1>10. /\ pc'[c] \in {"item", "commit"} /\ Len(report'[c]) <= Len(b.items)
       /\ pc'[c] = "item" => Len(report'[c]) < Len(b.items)
       /\ report'[c] \in Seq(Entry)
    BY <1>1, <1>4, <1>5, <1>7
<1>11. c \in broken' => \E i \in DOMAIN report'[c] : report'[c][i].status = "failure"
    <2>1. c \in broken => \E i \in 1..n : report[c][i].status = "failure"
        BY <1>7 DEF BulkInv, BatchInv
    <2>2. \A i \in 1..n : i \in 1..(n + 1)
        BY <1>1
    <2>3. n + 1 \in 1..(n + 1)
        BY <1>1
    <2>4. CASE c \in broken
        <3>1. PICK i \in 1..n : report[c][i].status = "failure"
            BY <2>1, <2>4
        <3> HIDE DEF entry, n
        <3> QED BY <1>5, <1>7, <2>2, <3>1
    <2>5. CASE c \notin broken
        <3>1. c \in broken' => entry.status = "failure"
            BY <2>5
        <3> HIDE DEF entry, n
        <3> QED BY <1>5, <1>7, <2>3, <3>1
    <2> QED BY <2>4, <2>5
<1>12. BatchInv(c)'
    BY <1>1, <1>9, <1>10, <1>11 DEF BatchInv
<1> QED
    BY <1>3, <1>4, <1>5, <1>10, <1>12

LEMMA ReportAdds ==
    ASSUME NEW c \in Callers, BulkInv, pc[c] \in {"item", "move"}, batch' = batch,
           NEW status \in {"success", "failure", "no_change"}, NEW change \in Int,
           report'[c] = Append(report[c], [status |-> status, change |-> change]),
           NEW rec
    PROVE  /\ Reported(c, rec) \in Int
           /\ Change(batch[c], Len(report[c]) + 1, [status |-> status, change |-> change], rec) \in Int
           /\ Reported(c, rec)'
              = Reported(c, rec)
                + Change(batch[c], Len(report[c]) + 1, [status |-> status, change |-> change], rec)
<1> DEFINE entry == [status |-> status, change |-> change]
<1>1. batch[c] \in Batches /\ report[c] \in Seq(Entry) /\ Len(report[c]) < Len(batch[c].items)
    BY ItemTypes DEF BulkInv, BatchInv
<1>2. entry \in Entry
    BY DEF Entry
<1>3. Reported(c, rec) = ReportedBy(batch[c], report[c], rec)
    BY ReportedIs
<1>4. Reported(c, rec)' = ReportedBy(batch[c], Append(report[c], entry), rec)
    BY DEF Reported, ReportedBy, Told
<1> HIDE DEF entry
<1>5. /\ Reported(c, rec) \in Int
      /\ Change(batch[c], Len(report[c]) + 1, entry, rec) \in Int
      /\ Reported(c, rec)' = Reported(c, rec) + Change(batch[c], Len(report[c]) + 1, entry, rec)
    BY <1>1, <1>2, <1>3, <1>4, ReportGrows
<1> QED BY <1>5 DEF entry

(* What an entry adds to the costs a result says were set. *)
LEMMA PriceStep ==
    ASSUME NEW c \in Callers, BulkInv, pc[c] \in {"item", "move"}, batch' = batch,
           NEW entry, report'[c] = Append(report[c], entry),
           \/ /\ entry.status = "success" => batch[c].kind # "revalue"
              /\ price'[c] = price[c]
           \/ /\ entry.status = "success" /\ batch[c].kind = "revalue"
              /\ price'[c] = [q \in DOMAIN price[c] \cup {Item(c).product} |->
                                IF q = Item(c).product THEN Item(c).amount ELSE price[c][q]]
    PROVE  PriceInv(c)'
<1> DEFINE n == Len(report[c])
           here == Item(c).product
           sets(p) == entry.status = "success" /\ batch[c].kind = "revalue" /\ here = p
<1>1. n \in Nat /\ DOMAIN report[c] = 1..n /\ report[c] \in Seq(Entry)
    BY ReportTypes DEF BulkInv, BatchInv
<1>2. /\ DOMAIN report'[c] = 1..(n + 1)
      /\ \A i \in 1..n : report'[c][i] = report[c][i]
      /\ report'[c][n + 1] = entry
    BY <1>1
<1>3. /\ 1..(n + 1) = (1..n) \cup {n + 1}
      /\ \A i \in 1..n : i <= n + 1 /\ ~(n + 1 <= i)
      /\ n + 1 <= n + 1
    BY <1>1
<1>4. batch[c].items[n + 1] = Item(c) /\ batch'[c] = batch[c]
    BY DEF Item
<1>5. ASSUME NEW p
      PROVE  /\ Repriced(c, p) \subseteq 1..n
             /\ Repriced(c, p)' = Repriced(c, p) \cup (IF sets(p) THEN {n + 1} ELSE {})
    <2>1. Repriced(c, p) \subseteq 1..n
        BY <1>1 DEF Repriced
    <2>2. \A i : i \in Repriced(c, p)' <=>
             /\ i \in 1..(n + 1) /\ batch[c].kind = "revalue"
             /\ report'[c][i].status = "success" /\ batch[c].items[i].product = p
        BY <1>2, <1>4 DEF Repriced
    <2>3. \A i \in 1..n : i \in Repriced(c, p)' <=> i \in Repriced(c, p)
        BY <1>1, <1>2, <1>3, <2>2 DEF Repriced
    <2>4. n + 1 \in Repriced(c, p)' <=> sets(p)
        BY <1>2, <1>3, <1>4, <2>2
    <2>5. \A i : i \in Repriced(c, p)' => i \in 1..n \/ i = n + 1
        BY <1>3, <2>2
    <2>6. n + 1 \notin 1..n
        BY <1>3
    <2> HIDE DEF n, sets
    <2> QED BY <2>1, <2>3, <2>4, <2>5, <2>6
<1>6. \A p \in Products : IF p \in DOMAIN price[c] THEN PricedLast(c, p, price[c][p])
                          ELSE Repriced(c, p) = {}
    BY DEF BulkInv, PriceInv, InBatch
<1>7. ASSUME NEW p \in Products
      PROVE  IF p \in DOMAIN price'[c] THEN PricedLast(c, p, price[c][p])'
             ELSE Repriced(c, p)' = {}
    <2>1. CASE sets(p)
        <3>1. /\ p \in DOMAIN price'[c] /\ price'[c][p] = Item(c).amount
              /\ n + 1 \in Repriced(c, p)'
            BY <1>5, <2>1
        <3>2. \A j \in Repriced(c, p)' : j <= n + 1
            <4> HIDE DEF n
            <4> QED BY <1>3, <1>5
        <3> QED BY <1>4, <3>1, <3>2 DEF PricedLast
    <2>2. CASE ~sets(p)
        <3>1. Repriced(c, p)' = Repriced(c, p)
            <4>1. Repriced(c, p)' = Repriced(c, p) \cup (IF sets(p) THEN {n + 1} ELSE {})
                BY <1>5
            <4> HIDE DEF sets, n
            <4> QED BY <2>2, <4>1
        <3>2. (p \in DOMAIN price'[c] <=> p \in DOMAIN price[c])
              /\ (p \in DOMAIN price[c] => price'[c][p] = price[c][p])
            BY <2>2
        <3> QED BY <1>4, <1>6, <3>1, <3>2 DEF PricedLast
    <2> QED BY <2>1, <2>2
<1> QED BY <1>7 DEF PriceInv

(* A batch that moves no stock reports none moved. *)
LEMMA NothingReported ==
    ASSUME NEW b \in Batches, b.kind \notin {"transfer", "adjustment"},
           NEW rep \in Seq(Entry), Len(rep) <= Len(b.items), NEW rec
    PROVE  ReportedBy(b, rep, rec) = 0
<1> DEFINE f == [i \in DOMAIN rep |-> Change(b, i, rep[i], rec)]
<1>1. \A i \in DOMAIN rep : f[i] = 0
    BY DEF Change
<1>2. IsFiniteSet(DOMAIN rep)
    BY ReportTypes, FS_Interval
<1>3. SumFunctionOnSet(f, DOMAIN rep) = 0
    <2> HIDE DEF f
    <2> QED BY <1>1, <1>2, SumZero
<1> QED BY <1>3 DEF ReportedBy

(* What earlier entries of an adjustment say of other records still holds. *)
LEMMA AdjustGrows ==
    ASSUME NEW c \in Callers, BatchInv(c), AdjustInv(c), pc[c] \in {"item", "move"},
           batch' = batch, disturbed' = disturbed, pc'[c] # "move",
           NEW entry, report'[c] = Append(report[c], entry),
           \A rec \in StockRecord : rec[1] # Item(c).product =>
               (lock[rec] = c => lock'[rec] = c) /\ View(c, rec)' = View(c, rec),
           entry.status = "success" => Item(c).product # Missing,
           entry.status = "success" /\ <<c, Len(report[c]) + 1>> \notin disturbed =>
               \A rec \in StockRecord : rec = <<Item(c).product, batch[c].to>> =>
                   lock'[rec] = c /\ View(c, rec)' = Item(c).amount
    PROVE  AdjustInv(c)'
<1> SUFFICES ASSUME batch[c].kind = "adjustment" PROVE AdjustInv(c)'
    BY DEF AdjustInv
<1> DEFINE b == batch[c]
           n == Len(report[c])
<1>1. n \in Nat /\ DOMAIN report[c] = 1..n /\ report[c] \in Seq(Entry)
    BY ReportTypes DEF BatchInv
<1>2. /\ DOMAIN report'[c] = 1..(n + 1)
      /\ \A i \in 1..n : report'[c][i] = report[c][i]
      /\ report'[c][n + 1] = entry
    BY <1>1
<1>3. \A i \in 1..(n + 1) : i = n + 1 \/ (i \in 1..n /\ n + 1 > i)
    BY <1>1
<1>4. \A i \in 1..n : i \in 1..(n + 1)
    BY <1>1
<1>5. n + 1 \in 1..(n + 1)
    BY <1>1
<1>6. \A i \in DOMAIN report[c] :
          /\ report[c][i].status = "success"
          /\ <<c, i>> \notin disturbed
          /\ \A j \in DOMAIN report[c] : j > i => b.items[j].product # b.items[i].product
          => /\ lock[<<b.items[i].product, b.to>>] = c
             /\ View(c, <<b.items[i].product, b.to>>) = b.items[i].amount
    BY DEF AdjustInv, InBatch
<1>7. ASSUME NEW i \in 1..(n + 1), report'[c][i].status = "success", <<c, i>> \notin disturbed,
             \A j \in 1..(n + 1) : j > i => b.items[j].product # b.items[i].product
      PROVE  /\ lock'[<<b.items[i].product, b.to>>] = c
             /\ View(c, <<b.items[i].product, b.to>>)' = b.items[i].amount
    <2>1. CASE i = n + 1
        <3>1. entry.status = "success" /\ <<c, n + 1>> \notin disturbed
            BY <1>2, <1>7, <2>1
        <3>2. Item(c) = b.items[i]
            BY <2>1 DEF Item
        <3>3. <<b.items[i].product, b.to>> \in StockRecord
            <4>1. b.items[i].product \in Products
                BY <3>1, <3>2, ItemTypes
            <4>2. b.to \in Locations
                BY ItemTypes, BatchTypes
            <4> QED BY <4>1, <4>2 DEF StockRecord
        <3>4. PICK rec \in StockRecord : rec = <<b.items[i].product, b.to>>
            BY <3>3
        <3>5. lock'[rec] = c /\ View(c, rec)' = b.items[i].amount
            BY <3>1, <3>2, <3>4
        <3> QED BY <3>4, <3>5
    <2>2. CASE i # n + 1
        <3>1. i \in 1..n /\ report[c][i].status = "success"
            BY <1>2, <1>3, <1>7, <2>2
        <3>2. /\ lock[<<b.items[i].product, b.to>>] = c
              /\ View(c, <<b.items[i].product, b.to>>) = b.items[i].amount
            BY <1>1, <1>4, <1>6, <1>7, <3>1
        <3>3. <<b.items[i].product, b.to>> \in StockRecord
            BY <1>1, <3>1, SuccessRecord DEF InBatch
        <3>4. <<b.items[i].product, b.to>>[1] # Item(c).product
            BY <1>3, <1>5, <1>7, <2>2 DEF Item
        <3> QED BY <3>2, <3>3, <3>4
    <2> QED BY <2>1, <2>2
<1> QED
    BY <1>2, <1>7 DEF AdjustInv

-----------------------------------------------------------------------------
(* The steps of a batch but for those that move stock or commit.             *)

Quiet(c) ==
    /\ OwnStep(c)
    /\ \A rec \in StockRecord : draft'[c][rec] \in {0, draft[c][rec]}

LEMMA RollbackInv ==
    ASSUME NEW c \in Callers, BulkInv, pc[c] \in InBatch,
           NEW outcome \in Outcome \ {"committed"}, Rollback(c, outcome),
           outcome = "undone" => c \in broken
    PROVE  /\ BulkInv' /\ Quiet(c) /\ pc'[c] = outcome
           /\ report' = report /\ (c \in broken => c \in broken')
<1>1. /\ pc \in [Callers -> {"idle"} \cup InBatch \cup Outcome]
      /\ draft \in [Callers -> [StockRecord -> Int]]
      /\ lock \in [Row -> Callers \cup {Nobody}]
      /\ price = [d \in Callers |-> price[d]]
    BY DEF BulkInv, BulkTypeOK
<1>2. /\ pc'[c] = outcome /\ draft'[c] = [rec \in StockRecord |-> 0] /\ price'[c] = <<>>
      /\ batch' = batch /\ delta' = delta /\ report' = report /\ broken' = broken
      /\ quantity' = quantity /\ cost' = cost /\ created' = created /\ disturbed' = disturbed
      /\ \A d \in Callers \ {c} : pc'[d] = pc[d] /\ draft'[d] = draft[d] /\ price'[d] = price[d]
      /\ \A row \in Row : lock'[row] = IF lock[row] = c THEN Nobody ELSE lock[row]
    BY <1>1 DEF Rollback, End, rowVars
<1>3. /\ pc' \in [Callers -> {"idle"} \cup InBatch \cup Outcome]
      /\ draft' \in [Callers -> [StockRecord -> Int]]
      /\ lock' \in [Row -> Callers \cup {Nobody}]
      /\ price' = [d \in Callers |-> price'[d]]
    <2>1. pc' \in [Callers -> {"idle"} \cup InBatch \cup Outcome]
        BY <1>1 DEF Rollback, End
    <2>2. draft' \in [Callers -> [StockRecord -> Int]]
        BY <1>1 DEF Rollback, End
    <2>3. lock' \in [Row -> Callers \cup {Nobody}]
        BY <1>1 DEF Rollback, End
    <2>4. price' = [price EXCEPT ![c] = <<>>]
        BY DEF Rollback, End
    <2>5. price' = [d \in Callers |-> price'[d]]
        BY <1>1, <2>4
    <2> QED BY <2>1, <2>2, <2>3, <2>5
<1>4. pc[c] # "committed" /\ outcome \notin InBatch \cup {"idle", "committed"}
    BY DEF InBatch, Outcome
<1>5. OwnStep(c)
    BY <1>2, <1>4 DEF OwnStep, rowVars, Row
<1>6. \A rec \in StockRecord : View(c, rec)' >= 0
    BY <1>1, <1>2 DEF View, BulkInv, BulkTypeOK
<1>7. BulkTypeOK'
    <2>1. \A d \in Callers, rec \in StockRecord : View(d, rec)' >= 0
        BY <1>5, <1>6, OthersSee
    <2> QED BY <1>2, <1>3, <2>1 DEF BulkInv, BulkTypeOK
<1>8. BatchInv(c)'
    <2>1. DOMAIN price'[c] = {} /\ price'[c] \in [DOMAIN price'[c] -> Nat]
        BY <1>2
    <2> QED BY <1>2, <1>4, <2>1 DEF BulkInv, BatchInv, InBatch, Outcome
<1>9. DraftInv(c)' /\ PriceInv(c)' /\ AdjustInv(c)' /\ ImportInv(c)'
    BY <1>2, <1>4 DEF DraftInv, PriceInv, AdjustInv, ImportInv, InBatch
<1>10. BulkInv'
    BY <1>5, <1>7, <1>8, <1>9, OwnStepInv
<1> QED
    BY <1>2, <1>5, <1>10 DEF Quiet

(* An entry that reports no stock moved, at the end of an item that moved    *)
(* none.                                                                     *)
EntryStep(c, status, change) ==
    /\ pc[c] \in {"item", "move"} /\ batch' = batch
    /\ Report(c, status, change)
    /\ status = "failure" => ~batch[c].failFast
    /\ status = "success" => Item(c).product # Missing /\ batch[c].kind = "revalue"
    /\ DOMAIN price'[c] \subseteq Products /\ price'[c] \in [DOMAIN price'[c] -> Nat]
    /\ price' = [d \in Callers |-> price'[d]]
    /\ \A d \in Callers \ {c} : price'[d] = price[d] /\ delta'[d] = delta[d]
    /\ status # "success" => price'[c] = price[c]
    /\ status = "success" =>
           price'[c] = [q \in DOMAIN price[c] \cup {Item(c).product} |->
                          IF q = Item(c).product THEN Item(c).amount ELSE price[c][q]]
    /\ broken' = broken \/ (broken' = broken \cup {c} /\ batch[c].kind = "revalue"
                                                     /\ status = "failure")
    /\ delta' \in [Callers -> Int] /\ UNCHANGED <<rowVars, disturbed, draft>>
    /\ lock' \in [Row -> Callers \cup {Nobody}]
    /\ \A row \in Row, d \in Callers \ {c} : lock[row] = d => lock'[row] = d
    /\ batch[c].kind = "revalue" \/ \A row \in Row : lock[row] = c => lock'[row] = c

LEMMA EntryInv ==
    ASSUME NEW c \in Callers, BulkInv,
           NEW status \in {"success", "failure", "no_change"}, NEW change \in Int,
           EntryStep(c, status, change)
    PROVE  BulkInv' /\ Quiet(c) /\ pc'[c] \in {"item", "commit"}
<1> DEFINE entry == [status |-> status, change |-> change]
<1> USE DEF EntryStep
<1>1. /\ c \in broken' => batch[c].kind = "revalue"
      /\ c \in broken' => c \in broken \/ status = "failure"
    BY DEF BulkInv, BatchInv
<1>2. /\ BatchInv(c)' /\ report'[c] = Append(report[c], entry)
      /\ pc'[c] \in {"item", "commit"}
      /\ pc' \in [Callers -> {"idle"} \cup InBatch \cup Outcome]
      /\ \A d \in Callers \ {c} : report'[d] = report[d] /\ pc'[d] = pc[d]
    BY <1>1, ReportStep, ZenonT(60)
<1>3. /\ quantity' = quantity /\ cost' = cost /\ created' = created
      /\ disturbed' = disturbed /\ draft' = draft /\ batch' = batch
    BY DEF rowVars
<1>4. OwnStep(c)
    <2>1. pc[c] # "committed" /\ pc'[c] # "committed"
        BY <1>2
    <2>2. \A d \in Callers \ {c} : d \in broken' <=> d \in broken
        OBVIOUS
    <2> QED BY <1>2, <1>3, <2>1, <2>2 DEF OwnStep, rowVars, Row
<1>5. report' \in [Callers -> Seq(Entry)]
    <2>1. report'[c] \in Seq(Entry)
        BY <1>2 DEF BatchInv
    <2>2. report' = [report EXCEPT ![c] = Append(report[c], entry)]
        BY DEF Report, BulkInv, BulkTypeOK
    <2>3. report'[c] = Append(report[c], entry)
        BY <1>2
    <2> HIDE DEF entry
    <2> QED BY <2>1, <2>2, <2>3 DEF BulkInv, BulkTypeOK
<1>6. \A rec \in StockRecord : View(c, rec)' = View(c, rec)
    BY <1>3 DEF View
<1>7. BulkTypeOK'
    <2>0. \A rec \in StockRecord : View(c, rec)' >= 0
        BY <1>6 DEF BulkInv, BulkTypeOK
    <2>1. \A d \in Callers, rec \in StockRecord : View(d, rec)' >= 0
        BY <1>4, <2>0, OthersSee
    <2>2. broken' \subseteq Callers
        BY DEF BulkInv, BulkTypeOK
    <2> QED BY <1>2, <1>3, <1>5, <2>1, <2>2 DEF BulkInv, BulkTypeOK
<1>8. DraftInv(c)'
    <2> SUFFICES ASSUME NEW rec \in StockRecord
                 PROVE  /\ draft'[c][rec] = Reported(c, rec)'
                        /\ draft'[c][rec] # 0 => lock'[rec] = c
        BY <1>2 DEF DraftInv, InBatch
    <2>1. Change(batch[c], Len(report[c]) + 1, entry, rec) = 0
        BY DEF Change
    <2>2. Reported(c, rec)' = Reported(c, rec)
        <3>1. /\ Reported(c, rec) \in Int
              /\ Reported(c, rec)'
                 = Reported(c, rec) + Change(batch[c], Len(report[c]) + 1, entry, rec)
            <4>1. report'[c] = Append(report[c], [status |-> status, change |-> change])
                BY <1>2
            <4>2. /\ Reported(c, rec) \in Int
                  /\ Reported(c, rec)'
                     = Reported(c, rec) + Change(batch[c], Len(report[c]) + 1,
                                                 [status |-> status, change |-> change], rec)
                <5>1. c \in Callers /\ BulkInv /\ pc[c] \in {"item", "move"} /\ batch' = batch
                    OBVIOUS
                <5>2. status \in {"success", "failure", "no_change"} /\ change \in Int
                    OBVIOUS
                <5> QED BY ONLY <5>1, <5>2, <4>1, ReportAdds
            <4> QED BY <4>2
        <3> HIDE DEF entry
        <3> QED BY <2>1, <3>1
    <2>3. draft[c][rec] = Reported(c, rec) /\ (draft[c][rec] # 0 => lock[rec] = c)
        BY DEF BulkInv, DraftInv, InBatch
    <2>4. batch[c].kind = "revalue" => draft[c][rec] = 0
        <3>1. batch[c] \in Batches /\ report[c] \in Seq(Entry) /\ Len(report[c]) <= Len(batch[c].items)
            <4>1. Len(report[c]) < Len(batch[c].items) /\ batch[c] \in Batches /\ report[c] \in Seq(Entry)
                BY DEF BulkInv, BatchInv
            <4>2. Len(report[c]) \in Nat /\ Len(batch[c].items) \in Nat
                BY <4>1, BatchTypes, ReportTypes
            <4> QED BY <4>1, <4>2
        <3> QED BY <2>3, <3>1, NothingReported, ReportedIs
    <2> QED BY <1>3, <2>2, <2>3, <2>4 DEF Row
<1>9. AdjustInv(c)'
    <2> SUFFICES ASSUME batch[c].kind = "adjustment" PROVE AdjustInv(c)'
        BY DEF AdjustInv
    <2>1. entry.status # "success"
        OBVIOUS
    <2>2. \A rec \in StockRecord : lock[rec] = c => lock'[rec] = c
        BY DEF Row
    <2>3. pc'[c] # "move"
        BY <1>2
    <2>4. BatchInv(c) /\ AdjustInv(c)
        BY DEF BulkInv
    <2> HIDE DEF entry
    <2> QED BY <1>2, <1>3, <1>6, <2>1, <2>2, <2>3, <2>4, AdjustGrows, ZenonT(60)
<1>10. ImportInv(c)'
    BY ItemTypes DEF BulkInv, ImportInv
<1>11. PriceInv(c)'
    <2>1. \/ /\ entry.status = "success" => batch[c].kind # "revalue"
             /\ price'[c] = price[c]
          \/ /\ entry.status = "success" /\ batch[c].kind = "revalue"
             /\ price'[c] = [q \in DOMAIN price[c] \cup {Item(c).product} |->
                               IF q = Item(c).product THEN Item(c).amount ELSE price[c][q]]
        OBVIOUS
    <2>2. report'[c] = Append(report[c], entry)
        BY <1>2
    <2> HIDE DEF entry
    <2> QED BY <2>1, <2>2, PriceStep
<1>12. BulkInv'
    BY <1>2, <1>4, <1>7, <1>8, <1>9, <1>10, <1>11, OwnStepInv
<1> QED
    BY <1>2, <1>3, <1>4, <1>12 DEF Quiet


LEMMA FailItemInv ==
    ASSUME NEW c \in Callers, BulkInv, pc[c] \in {"item", "move"}, FailItem(c)
    PROVE  BulkInv' /\ Quiet(c) /\ pc'[c] \in {"item", "commit", "refused"}
<1>1. CASE batch[c].failFast
    <2>1. Rollback(c, "refused") /\ pc[c] \in InBatch /\ "refused" \in Outcome \ {"committed"}
        BY <1>1 DEF FailItem, InBatch, Outcome
    <2> QED BY <2>1, RollbackInv
<1>2. CASE ~batch[c].failFast
    <2>1. /\ Report(c, "failure", 0)
          /\ quantity' = quantity /\ cost' = cost /\ created' = created /\ batch' = batch
          /\ delta' = delta /\ lock' = lock /\ draft' = draft /\ price' = price
          /\ broken' = broken /\ disturbed' = disturbed
        BY <1>2 DEF FailItem, rowVars
    <2>2. /\ DOMAIN price[c] \subseteq Products /\ price[c] \in [DOMAIN price[c] -> Nat]
          /\ price = [d \in Callers |-> price[d]]
          /\ delta \in [Callers -> Int] /\ lock \in [Row -> Callers \cup {Nobody}]
        BY DEF BulkInv, BatchInv, BulkTypeOK
    <2>3. EntryStep(c, "failure", 0)
        BY <1>2, <2>1, <2>2 DEF EntryStep, rowVars
    <2>4. BulkInv' /\ Quiet(c) /\ pc'[c] \in {"item", "commit"}
        BY <2>3, EntryInv
    <2> QED BY <2>4
<1> QED BY <1>1, <1>2 DEF FailItem

LEMMA BeginInv ==
    ASSUME NEW c \in Callers, BulkInv, NEW batches \in SUBSET Batches, Begin(c, batches)
    PROVE  BulkInv' /\ Quiet(c) /\ pc[c] = "idle" /\ pc'[c] \in {"item", "insert"}
<1>1. PICK b \in Batches :
          /\ batch' = [batch EXCEPT ![c] = b]
          /\ pc' = [pc EXCEPT ![c] = IF b.kind = "import" THEN "insert" ELSE "item"]
    BY DEF Begin
<1>2. /\ quantity' = quantity /\ cost' = cost /\ created' = created
      /\ delta' = delta /\ lock' = lock /\ draft' = draft /\ price' = price
      /\ report' = report /\ broken' = broken /\ disturbed' = disturbed
      /\ pc[c] = "idle"
    BY DEF Begin, rowVars
<1>3. /\ batch' \in [Callers -> Batches \cup {NoBatch}]
      /\ pc' \in [Callers -> {"idle"} \cup InBatch \cup Outcome]
      /\ batch'[c] = b /\ pc'[c] = IF b.kind = "import" THEN "insert" ELSE "item"
      /\ \A d \in Callers \ {c} : batch'[d] = batch[d] /\ pc'[d] = pc[d]
    <2>1. batch \in [Callers -> Batches \cup {NoBatch}]
        BY DEF BulkInv, BulkTypeOK
    <2>2. pc \in [Callers -> {"idle"} \cup InBatch \cup Outcome]
        BY DEF BulkInv, BulkTypeOK
    <2> QED BY <1>1, <2>1, <2>2 DEF InBatch
<1>4. OwnStep(c)
    BY <1>2, <1>3 DEF OwnStep, rowVars
<1>5. \A rec \in StockRecord : View(c, rec)' = View(c, rec)
    BY <1>2 DEF View
<1>6. BulkTypeOK'
    <2>0. \A rec \in StockRecord : View(c, rec)' >= 0
        BY <1>5 DEF BulkInv, BulkTypeOK
    <2>1. \A d \in Callers, rec \in StockRecord : View(d, rec)' >= 0
        BY <1>4, <2>0, OthersSee
    <2> QED BY <1>2, <1>3, <2>1 DEF BulkInv, BulkTypeOK
<1>7. report[c] = <<>> /\ c \notin broken /\ report'[c] = <<>> /\ price'[c] = <<>>
    BY <1>2 DEF BulkInv, BatchInv
<1>8. b.items # <<>> /\ Len(b.items) > 0
    <2>1. b.items # <<>> /\ IsBatch(b)
        BY DEF IsBatch
    <2>2. PICK S : b.items \in Seq(S)
        BY <2>1 DEF IsBatch
    <2> QED BY <2>1, <2>2
<1>9. BatchInv(c)'
    <2>1. DOMAIN price[c] \subseteq Products /\ price[c] \in [DOMAIN price[c] -> Nat]
        BY DEF BulkInv, BatchInv
    <2>2. report'[c] \in Seq(Entry) /\ Len(report'[c]) = 0 /\ DOMAIN report'[c] = {}
        BY <1>7
    <2>3. Len(b.items) \in Nat
        BY BatchTypes
    <2> QED BY <1>2, <1>3, <1>7, <1>8, <2>1, <2>2, <2>3 DEF BatchInv, InBatch
<1>10. DraftInv(c)'
    <2>1. \A rec \in StockRecord : draft'[c][rec] = 0
        BY <1>2 DEF BulkInv, DraftInv, InBatch
    <2>2. ASSUME NEW rec \in StockRecord PROVE Reported(c, rec)' = 0
        <3> DEFINE f == [i \in DOMAIN report'[c] |-> Told(c, i, rec)']
        <3>1. Reported(c, rec)' = SumFunctionOnSet(f, DOMAIN report'[c])
            BY DEF Reported
        <3>2. DOMAIN report'[c] = {}
            BY <1>7
        <3> HIDE DEF f
        <3> QED BY <3>1, <3>2, SumEmpty
    <2> QED BY <2>1, <2>2 DEF DraftInv
<1>11. AdjustInv(c)' /\ ImportInv(c)'
    BY <1>3, <1>7 DEF AdjustInv, ImportInv
<1>13. PriceInv(c)'
    <2>1. DOMAIN report'[c] = {} /\ DOMAIN price'[c] = {}
        BY <1>7
    <2> QED BY <2>1 DEF PriceInv, Repriced
<1>12. BulkInv'
    BY <1>4, <1>6, <1>9, <1>10, <1>11, <1>13, OwnStepInv
<1> QED
    BY <1>2, <1>3, <1>4, <1>12 DEF Quiet


LEMMA StartTransferInv ==
    ASSUME NEW c \in Callers, BulkInv, StartTransfer(c)
    PROVE  BulkInv' /\ Quiet(c) /\ pc[c] \in InBatch /\ pc'[c] \in InBatch
<1>1. /\ quantity' = quantity /\ cost' = cost /\ created' = created
      /\ batch' = batch /\ delta' = delta /\ lock' = lock /\ draft' = draft
      /\ price' = price /\ report' = report /\ broken' = broken /\ disturbed' = disturbed
      /\ pc[c] = "item" /\ batch[c].kind = "transfer" /\ Item(c).product # Missing
      /\ pc' = [pc EXCEPT ![c] = "move"]
    BY DEF StartTransfer, Moving, rowVars
<1>2. /\ pc' \in [Callers -> {"idle"} \cup InBatch \cup Outcome] /\ pc'[c] = "move"
      /\ \A d \in Callers \ {c} : pc'[d] = pc[d]
    <2>1. pc \in [Callers -> {"idle"} \cup InBatch \cup Outcome]
        BY DEF BulkInv, BulkTypeOK
    <2> QED BY <1>1, <2>1 DEF InBatch
<1>3. OwnStep(c)
    BY <1>1, <1>2 DEF OwnStep, rowVars
<1>4. BulkTypeOK'
    BY <1>1, <1>2 DEF BulkInv, BulkTypeOK, View
<1>5. BatchInv(c)'
    <2>1. BatchInv(c)
        BY DEF BulkInv
    <2>2. Item(c)' = Item(c)
        BY <1>1 DEF Item
    <2> QED BY <1>1, <1>2, <2>1, <2>2 DEF BatchInv, InBatch
<1>6. DraftInv(c)'
    <2>1. \A rec \in StockRecord : Reported(c, rec)' = Reported(c, rec)
        BY <1>1 DEF Reported, Told
    <2>2. DraftInv(c)
        BY DEF BulkInv
    <2> QED BY <1>1, <1>2, <2>1, <2>2 DEF DraftInv, InBatch
<1>7. PriceInv(c)' /\ AdjustInv(c)' /\ ImportInv(c)'
    <2>1. PriceInv(c)
        BY DEF BulkInv
    <2>2. PriceInv(c)'
        BY <1>1, <2>1 DEF PriceInv, PricedLast, Repriced, InBatch
    <2> QED BY <1>1, <1>2, <2>2 DEF AdjustInv, ImportInv
<1>8. BulkInv'
    BY <1>3, <1>4, <1>5, <1>6, <1>7, OwnStepInv
<1> QED
    BY <1>1, <1>2, <1>3, <1>8 DEF Quiet, InBatch

LEMMA ReadCurrentInv ==
    ASSUME NEW c \in Callers, BulkInv, ReadCurrent(c)
    PROVE  BulkInv' /\ Quiet(c) /\ pc[c] \in InBatch /\ pc'[c] \in InBatch
<1> DEFINE at == <<Item(c).product, batch[c].to>>
           d == Item(c).amount - View(c, at)
<1>1. /\ quantity' = quantity /\ cost' = cost /\ created' = created
      /\ batch' = batch /\ lock' = lock /\ draft' = draft
      /\ price' = price /\ broken' = broken /\ disturbed' = disturbed
      /\ pc[c] = "item" /\ batch[c].kind = "adjustment" /\ Item(c).product # Missing
      /\ delta' = [delta EXCEPT ![c] = d]
      /\ IF d = 0 THEN Report(c, "no_change", 0)
         ELSE pc' = [pc EXCEPT ![c] = "move"] /\ UNCHANGED report
    BY DEF ReadCurrent, Moving, rowVars
<1>2. at \in StockRecord /\ Item(c).amount \in Int
    <2>1. Item(c).product \in Products /\ Item(c).amount \in Int /\ batch[c] \in Batches
        BY <1>1, ItemTypes DEF BulkInv
    <2>2. batch[c].to \in Locations
        BY <1>1, <2>1, BatchTypes
    <2> QED BY <2>1, <2>2 DEF StockRecord
<1>3. View(c, at) \in Int
    <2>1. quantity[at] \in Int /\ draft[c][at] \in Int
        <3> HIDE DEF at
        <3> QED BY <1>2 DEF BulkInv, BulkTypeOK
    <2> QED BY <2>1 DEF View
<1>4. d \in Int
    BY <1>2, <1>3
<1>5. /\ delta' \in [Callers -> Int] /\ delta'[c] = d
      /\ \A e \in Callers \ {c} : delta'[e] = delta[e]
    <2>1. delta \in [Callers -> Int]
        BY DEF BulkInv, BulkTypeOK
    <2> HIDE DEF d
    <2> QED BY <1>1, <1>4, <2>1
<1>6. CASE d = 0
    <2>1. Report(c, "no_change", 0)
        <3> HIDE DEF d
        <3> QED BY <1>1, <1>6
    <2>2. /\ DOMAIN price[c] \subseteq Products /\ price[c] \in [DOMAIN price[c] -> Nat]
          /\ price = [e \in Callers |-> price[e]] /\ lock \in [Row -> Callers \cup {Nobody}]
        BY DEF BulkInv, BatchInv, BulkTypeOK
    <2>3. EntryStep(c, "no_change", 0)
        <3> HIDE DEF d, at
        <3> QED BY <1>1, <1>5, <2>1, <2>2 DEF EntryStep, rowVars
    <2>4. BulkInv' /\ Quiet(c) /\ pc'[c] \in {"item", "commit"}
        BY <2>3, EntryInv
    <2> QED BY <1>1, <2>4 DEF InBatch
<1>7. CASE d # 0
    <2>1. pc' = [pc EXCEPT ![c] = "move"] /\ report' = report
        <3> HIDE DEF d
        <3> QED BY <1>1, <1>7
    <2>2. /\ pc' \in [Callers -> {"idle"} \cup InBatch \cup Outcome] /\ pc'[c] = "move"
          /\ \A e \in Callers \ {c} : pc'[e] = pc[e]
        <3>1. pc \in [Callers -> {"idle"} \cup InBatch \cup Outcome]
            BY DEF BulkInv, BulkTypeOK
        <3> QED BY <2>1, <3>1 DEF InBatch
    <2>3. OwnStep(c)
        <3> HIDE DEF d, at
        <3> QED BY <1>1, <1>5, <2>1, <2>2 DEF OwnStep, rowVars
    <2>4. BulkTypeOK'
        <3> HIDE DEF d, at
        <3> QED BY <1>1, <1>5, <2>1, <2>2 DEF BulkInv, BulkTypeOK, View
    <2>5. BatchInv(c) /\ DraftInv(c) /\ AdjustInv(c) /\ Item(c)' = Item(c)
        BY <1>1, <2>1 DEF BulkInv, Item
    <2>6. BatchInv(c)'
        BY <1>1, <2>1, <2>2, <2>5 DEF BatchInv, InBatch
    <2>7. DraftInv(c)'
        <3>1. \A rec \in StockRecord : Reported(c, rec)' = Reported(c, rec)
            BY <1>1, <2>1 DEF Reported, Told
        <3> QED BY <1>1, <2>2, <2>5, <3>1 DEF DraftInv, InBatch
    <2>8. AdjustInv(c)'
        <3>1. \A rec : View(c, rec)' = View(c, rec)
            BY <1>1 DEF View
        <3>2. delta'[c] = Item(c)'.amount - View(c, <<Item(c).product, batch[c].to>>)'
            BY <1>1, <1>5, <2>5, <3>1
        <3>3. /\ \A i \in DOMAIN report[c] :
                 /\ report[c][i].status = "success"
                 /\ <<c, i>> \notin disturbed
                 /\ \A j \in DOMAIN report[c] :
                        j > i => batch[c].items[j].product # batch[c].items[i].product
                 => /\ lock[<<batch[c].items[i].product, batch[c].to>>] = c
                    /\ View(c, <<batch[c].items[i].product, batch[c].to>>) = batch[c].items[i].amount
            BY <1>1, <2>5 DEF AdjustInv, InBatch
        <3>4. /\ \A i \in DOMAIN report'[c] :
                 /\ report'[c][i].status = "success"
                 /\ <<c, i>> \notin disturbed'
                 /\ \A j \in DOMAIN report'[c] :
                        j > i => batch'[c].items[j].product # batch'[c].items[i].product
                 => /\ lock'[<<batch[c].items[i].product, batch[c].to>>] = c
                    /\ View(c, <<batch[c].items[i].product, batch[c].to>>)' = batch[c].items[i].amount
            BY <1>1, <2>1, <3>1, <3>3
        <3> QED BY <1>1, <2>5, <3>2, <3>4 DEF AdjustInv
    <2>9. ImportInv(c)' /\ PriceInv(c)'
        <3>1. PriceInv(c)
            BY DEF BulkInv
        <3>2. PriceInv(c)'
            BY <1>1, <2>1, <3>1 DEF PriceInv, PricedLast, Repriced, InBatch
        <3> QED BY <1>1, <3>2 DEF ImportInv
    <2>10. BulkInv'
        BY <2>3, <2>4, <2>6, <2>7, <2>8, <2>9, OwnStepInv
    <2> QED
        BY <1>1, <2>2, <2>3, <2>10 DEF Quiet, InBatch
<1> QED BY <1>6, <1>7

LEMMA InsertRowsInv ==
    ASSUME NEW c \in Callers, BulkInv, InsertRows(c)
    PROVE  BulkInv' /\ Quiet(c) /\ pc[c] \in InBatch /\ pc'[c] \in InBatch
<1>1. /\ quantity' = quantity /\ cost' = cost /\ created' = created
      /\ batch' = batch /\ delta' = delta /\ draft' = draft
      /\ price' = price /\ report' = report /\ broken' = broken /\ disturbed' = disturbed
      /\ pc[c] = "insert" /\ pc' = [pc EXCEPT ![c] = "commit"]
      /\ lock' = [row \in Row |-> IF row \in KeysOf(batch[c]) THEN c ELSE lock[row]]
      /\ \A row \in KeysOf(batch[c]) : lock[row] \in {c, Nobody}
      /\ \A row \in KeysOf(batch[c]) : created[row] = 0
    BY DEF InsertRows, Take, Free, KeysNew, rowVars
<1>2. /\ pc' \in [Callers -> {"idle"} \cup InBatch \cup Outcome] /\ pc'[c] = "commit"
      /\ \A d \in Callers \ {c} : pc'[d] = pc[d]
    <2>1. pc \in [Callers -> {"idle"} \cup InBatch \cup Outcome]
        BY DEF BulkInv, BulkTypeOK
    <2> QED BY <1>1, <2>1 DEF InBatch
<1>3. /\ lock' \in [Row -> Callers \cup {Nobody}]
      /\ \A row \in Row, d \in Callers : lock[row] = d => lock'[row] = d
      /\ \A row \in KeysOf(batch[c]) \cap Row : lock'[row] = c
    <2>1. lock \in [Row -> Callers \cup {Nobody}]
        BY DEF BulkInv, BulkTypeOK
    <2> QED BY <1>1, <2>1
<1>4. OwnStep(c)
    BY <1>1, <1>2, <1>3 DEF OwnStep, rowVars
<1>5. BulkTypeOK'
    BY <1>1, <1>2, <1>3 DEF BulkInv, BulkTypeOK, View
<1>6. BatchInv(c) /\ DraftInv(c) /\ batch[c].kind = "import" /\ batch[c] \in Batches
    BY <1>1 DEF BulkInv, BatchInv
<1>7. BatchInv(c)'
    BY <1>1, <1>2, <1>6 DEF BatchInv, InBatch
<1>8. DraftInv(c)'
    <2>1. \A rec \in StockRecord : Reported(c, rec)' = Reported(c, rec)
        BY <1>1 DEF Reported, Told
    <2>2. \A rec \in StockRecord : rec \in Row
        BY DEF Row
    <2> QED BY <1>1, <1>2, <1>3, <1>6, <2>1, <2>2 DEF DraftInv, InBatch
<1>9. AdjustInv(c)'
    BY <1>1, <1>6 DEF AdjustInv
<1>10. ImportInv(c)'
    <2>1. KeysOf(batch[c]) \subseteq Row
        BY <1>6, KeysAreKeys DEF Row
    <2>2. KeysOf(batch[c])' = KeysOf(batch[c])
        BY <1>1 DEF KeysOf, ItemsOf
    <2> QED BY <1>1, <1>3, <2>1, <2>2 DEF ImportInv
<1>11. PriceInv(c)'
    <2>1. PriceInv(c)
        BY DEF BulkInv
    <2> QED BY <1>1, <2>1 DEF PriceInv, PricedLast, Repriced, InBatch
<1>12. BulkInv'
    BY <1>4, <1>5, <1>7, <1>8, <1>9, <1>10, <1>11, OwnStepInv
<1> QED
    BY <1>1, <1>2, <1>4, <1>12 DEF Quiet, InBatch


LEMMA RevalueInv ==
    ASSUME NEW c \in Callers, BulkInv, Revalue(c)
    PROVE  BulkInv' /\ Quiet(c) /\ pc[c] \in InBatch /\ pc'[c] \in {"item", "commit", "refused"}
<1> DEFINE p == Item(c).product
           n == Item(c).amount
<1>1. pc[c] = "item" /\ batch[c].kind = "revalue" /\ p # Missing /\ lock[p] \in {c, Nobody}
    BY DEF Revalue, Free
<1>2. p \in Products /\ n \in Int
    BY <1>1, ItemTypes DEF BulkInv
<1>3. CASE n < 0 /\ batch[c].failFast
    <2>1. Rollback(c, "refused") /\ pc[c] \in InBatch /\ "refused" \in Outcome \ {"committed"}
        BY <1>1, <1>3 DEF Revalue, InBatch, Outcome
    <2> QED BY <2>1, RollbackInv
<1> DEFINE status == IF n < 0 THEN "failure" ELSE "success"
           change == IF n < 0 THEN 0 ELSE n
<1>4. CASE ~(n < 0 /\ batch[c].failFast)
    <2>1. /\ lock' = [row \in Row |-> IF row \in {p} THEN c ELSE lock[row]]
          /\ Report(c, status, change)
          /\ n < 0 => price' = price
          /\ ~(n < 0) => price' = [price EXCEPT ![c] =
                                     [q \in DOMAIN @ \cup {p} |-> IF q = p THEN n ELSE @[q]]]
          /\ UNCHANGED <<rowVars, batch, delta, draft, broken, disturbed>>
        BY <1>4 DEF Revalue, Take
    <2>2. /\ DOMAIN price[c] \subseteq Products /\ price[c] \in [DOMAIN price[c] -> Nat]
          /\ price = [d \in Callers |-> price[d]] /\ delta \in [Callers -> Int]
          /\ lock \in [Row -> Callers \cup {Nobody}]
        BY DEF BulkInv, BatchInv, BulkTypeOK
    <2>3. /\ n < 0 => price'[c] = price[c]
          /\ ~(n < 0) => price'[c] = [q \in DOMAIN price[c] \cup {p} |->
                                        IF q = p THEN n ELSE price[c][q]]
          /\ \A d \in Callers \ {c} : price'[d] = price[d]
          /\ price' = [d \in Callers |-> price'[d]]
        <3> HIDE DEF p, n
        <3> QED BY <2>1, <2>2
    <2>4. DOMAIN price'[c] \subseteq Products /\ price'[c] \in [DOMAIN price'[c] -> Nat]
        <3>1. ~(n < 0) => n \in Nat
            BY <1>2
        <3> HIDE DEF p, n
        <3>2. CASE n < 0
            BY <2>2, <2>3, <3>2
        <3>3. CASE ~(n < 0)
            BY <1>2, <2>2, <2>3, <3>1, <3>3
        <3> QED BY <3>2, <3>3
    <2>5. /\ lock' \in [Row -> Callers \cup {Nobody}]
          /\ \A row \in Row, d \in Callers \ {c} : lock[row] = d => lock'[row] = d
        <3> HIDE DEF p
        <3> QED BY <1>1, <2>1, <2>2
    <2>6. BulkInv' /\ Quiet(c) /\ pc'[c] \in {"item", "commit"}
        <3>1. /\ delta' = delta /\ draft' = draft /\ broken' = broken /\ disturbed' = disturbed
              /\ batch' = batch /\ UNCHANGED rowVars
            BY <2>1
        <3>2. pc[c] \in {"item", "move"} /\ Item(c).product # Missing
            BY <1>1
        <3>3. /\ Report(c, status, change) /\ change \in Int
              /\ status \in {"success", "failure", "no_change"}
              /\ status = "failure" => ~batch[c].failFast
            BY <1>2, <1>4, <2>1
        <3>4. /\ status # "success" => price'[c] = price[c]
              /\ status = "success" =>
                     price'[c] = [q \in DOMAIN price[c] \cup {Item(c).product} |->
                                    IF q = Item(c).product THEN Item(c).amount ELSE price[c][q]]
            BY <2>3
        <3>5. EntryStep(c, status, change)
            <4> HIDE DEF p, n, status, change
            <4> QED BY <1>1, <2>2, <2>3, <2>4, <2>5, <3>1, <3>2, <3>3, <3>4 DEF EntryStep
        <3> HIDE DEF p, n, status, change
        <3> QED BY <3>3, <3>5, EntryInv
    <2> QED BY <1>1, <2>6 DEF InBatch
<1> QED BY <1>3, <1>4

LEMMA RevalueVictimInv ==
    ASSUME NEW c \in Callers, BulkInv, RevalueVictim(c)
    PROVE  BulkInv' /\ Quiet(c) /\ pc[c] \in InBatch /\ pc'[c] \in {"item", "commit", "refused"}
<1>1. pc[c] = "item" /\ batch[c].kind = "revalue"
    BY DEF RevalueVictim
<1>2. CASE batch[c].failFast
    <2>1. Rollback(c, "refused") /\ pc[c] \in InBatch /\ "refused" \in Outcome \ {"committed"}
        BY <1>1, <1>2 DEF RevalueVictim, InBatch, Outcome
    <2> QED BY <2>1, RollbackInv
<1>3. CASE ~batch[c].failFast
    <2>1. /\ lock' = [row \in Row |-> IF lock[row] = c THEN Nobody ELSE lock[row]]
          /\ Report(c, "failure", 0)
          /\ broken' = broken \cup {c}
          /\ UNCHANGED rowVars
          /\ batch' = batch /\ delta' = delta /\ draft' = draft /\ price' = price
          /\ disturbed' = disturbed
        BY <1>3 DEF RevalueVictim
    <2>2. /\ DOMAIN price[c] \subseteq Products /\ price[c] \in [DOMAIN price[c] -> Nat]
          /\ price = [d \in Callers |-> price[d]] /\ delta \in [Callers -> Int]
          /\ lock \in [Row -> Callers \cup {Nobody}]
        BY DEF BulkInv, BatchInv, BulkTypeOK
    <2>3. /\ lock' \in [Row -> Callers \cup {Nobody}]
          /\ \A row \in Row, d \in Callers \ {c} : lock[row] = d => lock'[row] = d
        BY <2>1, <2>2
    <2>4. EntryStep(c, "failure", 0)
        BY <1>1, <1>3, <2>1, <2>2, <2>3 DEF EntryStep
    <2>5. BulkInv' /\ Quiet(c) /\ pc'[c] \in {"item", "commit"}
        BY <2>4, EntryInv
    <2> QED BY <1>1, <2>5 DEF InBatch
<1> QED BY <1>2, <1>3

(* Everything but a movement and a commit leaves the stock the others see.   *)
LEMMA QuietInv ==
    ASSUME NEW c \in Callers, BulkInv, OtherStep(c), ~Commit(c)
    PROVE  BulkInv' /\ Quiet(c) /\ pc[c] \in InBatch
           /\ pc'[c] \in InBatch \cup {"undone", "refused", "invalid"}
<1>1. ASSUME pc[c] \in {"item", "move"}, FailItem(c) PROVE pc[c] \in InBatch
    BY <1>1 DEF InBatch
<1>2. {"item", "commit"} \subseteq InBatch
      /\ {"undone", "refused", "invalid"} \subseteq Outcome \ {"committed"}
    BY DEF Outcome, InBatch
<1>3. CASE NoProduct(c) \/ MoveRefused(c) \/ BrokenItem(c) \/ MoveVictim(c)
    <2>1. pc[c] \in {"item", "move"} /\ FailItem(c)
        BY <1>3 DEF NoProduct, MoveRefused, BrokenItem, MoveVictim
    <2> QED BY <1>1, <1>2, <2>1, FailItemInv
<1>4. CASE InsertRefused(c) \/ BrokenCommit(c)
    <2>1. PICK outcome \in {"undone", "refused", "invalid"} :
              /\ pc[c] \in InBatch /\ Rollback(c, outcome)
              /\ outcome = "undone" => c \in broken
        BY <1>4 DEF InsertRefused, BrokenCommit, InBatch
    <2> QED BY <1>2, <2>1, RollbackInv
<1>5. CASE StartTransfer(c)
    BY <1>5, StartTransferInv
<1>6. CASE ReadCurrent(c)
    BY <1>6, ReadCurrentInv
<1>7. CASE Revalue(c)
    BY <1>2, <1>7, RevalueInv
<1>8. CASE RevalueVictim(c)
    BY <1>2, <1>8, RevalueVictimInv
<1>9. CASE InsertRows(c)
    BY <1>9, InsertRowsInv
<1> QED BY <1>3, <1>4, <1>5, <1>6, <1>7, <1>8, <1>9 DEF OtherStep


-----------------------------------------------------------------------------
(* A movement.                                                               *)

(* An accepted movement takes what its caller sees to be there, and locks    *)
(* what it changes.                                                          *)
LEMMA MoveChanges ==
    ASSUME NEW c \in Callers, BulkInv, MoveItem(c), NEW rec \in StockRecord
    PROVE  /\ draft'[c][rec] = draft[c][rec] - Outgoing(Move(c), rec) + Incoming(Move(c), rec)
           /\ draft'[c][rec] \in Int
           /\ View(c, rec)' = View(c, rec) - Outgoing(Move(c), rec) + Incoming(Move(c), rec)
           /\ View(c, rec) \in Int /\ View(c, rec)' >= 0
           /\ rec \notin Touched(Move(c)) =>
                 draft'[c][rec] = draft[c][rec] /\ View(c, rec)' = View(c, rec)
<1> DEFINE m == Move(c)
<1>1. /\ pc[c] = "move" /\ Valid(m) /\ Enough(c) /\ quantity' = quantity
      /\ draft' = [draft EXCEPT ![c] =
                      [r \in StockRecord |-> @[r] - Outgoing(m, r) + Incoming(m, r)]]
    BY DEF MoveItem, rowVars
<1>2. /\ HasSource(m) => Source(m) \in StockRecord
      /\ m.quantity \in Nat
      /\ Outgoing(m, rec) \in Nat /\ Incoming(m, rec) \in Nat
      /\ rec \notin Touched(m) => Outgoing(m, rec) = 0 /\ Incoming(m, rec) = 0
    BY <1>1, MoveTypes DEF BulkInv
<1>3. draft'[c][rec] = draft[c][rec] - Outgoing(m, rec) + Incoming(m, rec)
    <2> HIDE DEF m
    <2> QED BY <1>1 DEF BulkInv, BulkTypeOK
<1>4. quantity[rec] \in Int /\ draft[c][rec] \in Int /\ View(c, rec) >= 0
    BY DEF BulkInv, BulkTypeOK
<1>5. View(c, rec) = quantity[rec] + draft[c][rec] /\ View(c, rec)' = quantity[rec] + draft'[c][rec]
    BY <1>1 DEF View
<1>6. HasSource(m) /\ rec = Source(m) => View(c, rec) >= m.quantity
    BY <1>1 DEF Enough
<1>7. Outgoing(m, rec) <= View(c, rec)
    <2>1. Outgoing(m, rec) = IF HasSource(m) /\ rec = Source(m) THEN m.quantity ELSE 0
        BY DEF Outgoing
    <2> HIDE DEF m
    <2> QED BY <1>4, <1>5, <1>6, <2>1
<1> HIDE DEF m
<1>8. /\ draft'[c][rec] \in Int
      /\ View(c, rec)' = View(c, rec) - Outgoing(m, rec) + Incoming(m, rec)
      /\ View(c, rec) \in Int /\ View(c, rec)' >= 0
      /\ rec \notin Touched(m) => draft'[c][rec] = draft[c][rec] /\ View(c, rec)' = View(c, rec)
    BY <1>2, <1>3, <1>4, <1>5, <1>7
<1> QED BY <1>3, <1>8 DEF m

(* An adjustment's movement is of the record it read. *)
LEMMA AdjustmentTouches ==
    ASSUME NEW c \in Callers, BulkInv, pc[c] = "move", Valid(Move(c)), batch[c].kind = "adjustment",
           NEW rec \in StockRecord, rec = <<Item(c).product, batch[c].to>>
    PROVE  /\ rec \in Touched(Move(c))
           /\ Incoming(Move(c), rec) - Outgoing(Move(c), rec) = delta[c]
<1>1. /\ HasSource(Move(c)) \/ HasDest(Move(c))
      /\ HasSource(Move(c)) => Source(Move(c)) = rec
      /\ HasDest(Move(c)) => Dest(Move(c)) = rec
    BY DEF Valid, ValidMovement, Clean, Move, HasSource, HasDest, Source, Dest
<1>2. rec[1] = Item(c).product /\ rec[2] = batch[c].to
    OBVIOUS
<1>3. Change(batch[c], Len(report[c]) + 1, [status |-> "success", change |-> delta[c]], rec)
      = delta[c]
    BY <1>2 DEF Change, Item
<1>4. Incoming(Move(c), rec) - Outgoing(Move(c), rec)
      = Change(batch[c], Len(report[c]) + 1, [status |-> "success", change |-> delta[c]], rec)
    BY MoveTells DEF BulkInv
<1> QED BY <1>1, <1>3, <1>4 DEF Touched

LEMMA MoveItemInv ==
    ASSUME NEW c \in Callers, BulkInv, MoveItem(c)
    PROVE  BulkInv' /\ OwnStep(c) /\ pc[c] = "move" /\ pc'[c] \in {"item", "commit"}
<1> DEFINE m == Move(c)
           entry == [status |-> "success", change |-> delta[c]]
<1>1. /\ quantity' = quantity /\ cost' = cost /\ created' = created
      /\ batch' = batch /\ delta' = delta /\ price' = price
      /\ broken' = broken /\ disturbed' = disturbed
      /\ pc[c] = "move" /\ Valid(m)
      /\ lock' = [row \in Row |-> IF row \in Touched(m) THEN c ELSE lock[row]]
      /\ \A row \in Touched(m) : lock[row] \in {c, Nobody}
      /\ Report(c, "success", delta[c])
      /\ draft' = [draft EXCEPT ![c] =
                      [r \in StockRecord |-> @[r] - Outgoing(m, r) + Incoming(m, r)]]
    BY DEF MoveItem, Take, Free, rowVars
<1>2. /\ batch[c].kind \in {"transfer", "adjustment"} /\ Item(c).product # Missing
      /\ DOMAIN price[c] \subseteq Products /\ price[c] \in [DOMAIN price[c] -> Nat]
      /\ c \notin broken
    BY <1>1 DEF BulkInv, BatchInv
<1>3. /\ delta[c] \in Int /\ draft \in [Callers -> [StockRecord -> Int]]
      /\ lock \in [Row -> Callers \cup {Nobody}]
    BY DEF BulkInv, BulkTypeOK
<1>4. /\ BatchInv(c)' /\ report'[c] = Append(report[c], entry)
      /\ pc'[c] \in {"item", "commit"}
      /\ pc' \in [Callers -> {"idle"} \cup InBatch \cup Outcome]
      /\ \A d \in Callers \ {c} : report'[d] = report[d] /\ pc'[d] = pc[d]
    <2>1. pc[c] \in {"item", "move"}
        BY <1>1
    <2>2. /\ DOMAIN price'[c] \subseteq Products /\ price'[c] \in [DOMAIN price'[c] -> Nat]
          /\ c \in broken' => batch[c].kind = "revalue"
        BY <1>1, <1>2
    <2>3. Report(c, "success", delta[c])
        <3> HIDE DEF m
        <3> QED BY <1>1
    <2> HIDE DEF m
    <2> QED BY <1>1, <1>2, <1>3, <2>1, <2>2, <2>3, ReportStep
<1>5. /\ lock' \in [Row -> Callers \cup {Nobody}]
      /\ \A row \in Row, d \in Callers \ {c} : lock[row] = d => lock'[row] = d
      /\ \A row \in Row : row \in Touched(m) \/ lock[row] = c => lock'[row] = c
    <2> HIDE DEF m
    <2> QED BY <1>1, <1>3
<1>6. /\ \A d \in Callers \ {c} : draft'[d] = draft[d]
      /\ draft' \in [Callers -> [StockRecord -> Int]]
    <2>1. \A d \in Callers \ {c} : draft'[d] = draft[d]
        <3> HIDE DEF m
        <3> QED BY <1>1, <1>3
    <2> DEFINE new == [r \in StockRecord |-> draft[c][r] - Outgoing(m, r) + Incoming(m, r)]
    <2>2. draft' = [draft EXCEPT ![c] = new]
        BY <1>1
    <2>3. \A r \in StockRecord : new[r] \in Int
        BY <1>1, <1>3, MoveTypes DEF BulkInv
    <2>4. new \in [StockRecord -> Int]
        BY <2>3
    <2> HIDE DEF new
    <2>5. draft' \in [Callers -> [StockRecord -> Int]]
        BY <1>3, <2>2, <2>4
    <2> QED BY <2>1, <2>5
<1>7. OwnStep(c)
    <2>1. pc[c] # "committed" /\ pc'[c] # "committed"
        BY <1>1, <1>4
    <2> HIDE DEF m, entry
    <2> QED BY <1>1, <1>4, <1>5, <1>6, <2>1 DEF OwnStep, rowVars
<1>8. report' \in [Callers -> Seq(Entry)]
    <2>1. report'[c] \in Seq(Entry)
        BY <1>4 DEF BatchInv
    <2>2. report' = [report EXCEPT ![c] = Append(report[c], entry)]
        BY <1>1 DEF Report
    <2>3. report'[c] = Append(report[c], entry)
        BY <1>4
    <2> HIDE DEF entry
    <2> QED BY <2>1, <2>2, <2>3 DEF BulkInv, BulkTypeOK
<1>9. BulkTypeOK'
    <2>1. \A rec \in StockRecord : View(c, rec)' >= 0
        BY MoveChanges
    <2>2. \A d \in Callers, rec \in StockRecord : View(d, rec)' >= 0
        BY <1>7, <2>1, OthersSee
    <2> HIDE DEF m, entry
    <2> QED BY <1>1, <1>4, <1>5, <1>6, <1>8, <2>2 DEF BulkInv, BulkTypeOK
<1>10. DraftInv(c)'
    <2> SUFFICES ASSUME NEW rec \in StockRecord
                 PROVE  /\ draft'[c][rec] = Reported(c, rec)'
                        /\ draft'[c][rec] # 0 => lock'[rec] = c
        BY <1>4 DEF DraftInv, InBatch
    <2> DEFINE said == Change(batch[c], Len(report[c]) + 1, entry, rec)
    <2>1. draft[c][rec] = Reported(c, rec) /\ (draft[c][rec] # 0 => lock[rec] = c)
        BY <1>1 DEF BulkInv, DraftInv, InBatch
    <2>2. Incoming(m, rec) - Outgoing(m, rec) = said
        BY <1>1, MoveTells DEF BulkInv
    <2>3. Reported(c, rec) \in Int /\ said \in Int /\ Reported(c, rec)' = Reported(c, rec) + said
        <3>1. c \in Callers /\ BulkInv /\ pc[c] \in {"item", "move"} /\ batch' = batch
            BY <1>1
        <3>2. "success" \in {"success", "failure", "no_change"} /\ delta[c] \in Int
            BY <1>3
        <3>3. report'[c] = Append(report[c], [status |-> "success", change |-> delta[c]])
            BY <1>4
        <3>4. PICK n \in Int : n = delta[c]
            BY <3>2
        <3>5. report'[c] = Append(report[c], [status |-> "success", change |-> n])
            BY <3>3, <3>4
        <3>6. /\ Reported(c, rec) \in Int
              /\ Change(batch[c], Len(report[c]) + 1, [status |-> "success", change |-> n], rec) \in Int
              /\ Reported(c, rec)'
                 = Reported(c, rec)
                   + Change(batch[c], Len(report[c]) + 1, [status |-> "success", change |-> n], rec)
            BY ONLY <3>1, <3>2, n \in Int, <3>5, ReportAdds
        <3> QED BY <3>4, <3>6
    <2>4. /\ draft'[c][rec] = draft[c][rec] - Outgoing(m, rec) + Incoming(m, rec)
          /\ Outgoing(m, rec) \in Nat /\ Incoming(m, rec) \in Nat
          /\ rec \notin Touched(m) => draft'[c][rec] = draft[c][rec]
        BY <1>1, MoveChanges, MoveTypes DEF BulkInv
    <2>5. draft[c][rec] \in Int
        BY <1>3
    <2>6. rec \in Row
        BY DEF Row
    <2> HIDE DEF m, said, entry
    <2>7. draft'[c][rec] = Reported(c, rec)'
        BY <2>1, <2>2, <2>3, <2>4, <2>5
    <2> QED BY <1>5, <2>1, <2>4, <2>6, <2>7
<1>11. AdjustInv(c)'
    <2> SUFFICES ASSUME batch[c].kind = "adjustment" PROVE AdjustInv(c)'
        BY <1>1 DEF AdjustInv
    <2>1. ASSUME NEW rec \in StockRecord, rec[1] # Item(c).product
          PROVE  (lock[rec] = c => lock'[rec] = c) /\ View(c, rec)' = View(c, rec)
        <3>1. rec \notin Touched(m)
            <4>1. m.product = Item(c).product
                BY DEF Move
            <4> QED BY <2>1, <4>1 DEF Touched, Source, Dest
        <3>2. rec \in Row
            BY DEF Row
        <3> QED BY <1>5, <3>1, <3>2, MoveChanges
    <2>2. ASSUME <<c, Len(report[c]) + 1>> \notin disturbed,
                 NEW rec \in StockRecord, rec = <<Item(c).product, batch[c].to>>
          PROVE  lock'[rec] = c /\ View(c, rec)' = Item(c).amount
        <3>1. delta[c] = Item(c).amount - View(c, rec)
            BY <1>1, <2>2 DEF BulkInv, AdjustInv, InBatch
        <3>2. rec \in Touched(m) /\ Incoming(m, rec) - Outgoing(m, rec) = delta[c]
            BY <1>1, <2>2, AdjustmentTouches
        <3>3. /\ View(c, rec)' = View(c, rec) - Outgoing(m, rec) + Incoming(m, rec)
              /\ View(c, rec) \in Int
            BY MoveChanges
        <3>4. Item(c).amount \in Int /\ Outgoing(m, rec) \in Nat /\ Incoming(m, rec) \in Nat
            BY <1>1, ItemTypes, MoveTypes DEF BulkInv
        <3>5. rec \in Row
            BY DEF Row
        <3>6. View(c, rec)' = Item(c).amount
            <4> HIDE DEF m
            <4> QED BY <3>1, <3>2, <3>3, <3>4
        <3> QED BY <1>5, <3>2, <3>5, <3>6
    <2>3. pc'[c] # "move" /\ pc[c] \in {"item", "move"}
        BY <1>1, <1>4
    <2>4. BatchInv(c) /\ AdjustInv(c) /\ batch' = batch /\ disturbed' = disturbed
        BY <1>1 DEF BulkInv
    <2>5. report'[c] = Append(report[c], entry)
        BY <1>4
    <2> HIDE DEF entry, m
    <2> QED BY <1>2, <2>1, <2>2, <2>3, <2>4, <2>5, AdjustGrows
<1>12. ImportInv(c)'
    BY <1>1, <1>2 DEF ImportInv
<1>13. BulkInv'
    <2>1. BatchInv(c)'
        BY <1>4
    <2>2. PriceInv(c)'
        <3>1. pc[c] \in {"item", "move"} /\ batch' = batch /\ price'[c] = price[c]
              /\ batch[c].kind # "revalue"
            BY <1>1, <1>2
        <3>2. report'[c] = Append(report[c], entry)
            BY <1>4
        <3> HIDE DEF entry, m
        <3> QED BY <3>1, <3>2, PriceStep
    <2> QED BY <1>7, <1>9, <1>10, <1>11, <1>12, <2>1, <2>2, OwnStepInv
<1> QED
    BY <1>1, <1>4, <1>7, <1>13


-----------------------------------------------------------------------------
(* A commit.                                                                 *)

(* What a commit changes, it held locked: nothing another caller holds.      *)
LEMMA CommitFacts ==
    ASSUME NEW c \in Callers, BulkInv, Commit(c)
    PROVE  /\ pc[c] = "commit" /\ c \notin broken
           /\ batch' = batch /\ delta' = delta /\ report' = report /\ broken' = broken
           /\ \A rec \in StockRecord : quantity'[rec] = View(c, rec)
           /\ \A rec \in StockRecord : draft[c][rec] = 0 => quantity'[rec] = quantity[rec]
           /\ pc'[c] = "committed" /\ pc' \in [Callers -> {"idle"} \cup InBatch \cup Outcome]
           /\ \A rec \in StockRecord : draft'[c][rec] = 0
           /\ price'[c] = <<>> /\ price' = [d \in Callers |-> price'[d]]
           /\ draft' \in [Callers -> [StockRecord -> Int]]
           /\ lock' \in [Row -> Callers \cup {Nobody}]
           /\ disturbed \subseteq disturbed'
           /\ \A d \in Callers \ {c} :
                 /\ pc'[d] = pc[d] /\ draft'[d] = draft[d] /\ price'[d] = price[d]
                 /\ \A row \in Row : lock[row] = d => lock'[row] = d
                 /\ \A rec \in StockRecord : lock[rec] = d => quantity'[rec] = quantity[rec]
                 /\ \A rec \in StockRecord :
                       Reading(d, rec) /\ draft[c][rec] # 0 =>
                           <<d, Len(report[d]) + 1>> \in disturbed'
<1>1. /\ pc[c] = "commit" /\ c \notin broken /\ report' = report /\ broken' = broken
      /\ quantity' = [rec \in StockRecord |-> View(c, rec)]
      /\ disturbed' = disturbed \cup
             {<<d, Len(report[d]) + 1>> : d \in
                 {e \in Callers : \E rec \in StockRecord :
                                    Reading(e, rec) /\ draft[c][rec] # 0}}
      /\ End(c, "committed")
    BY DEF Commit
<1>2. /\ pc' = [pc EXCEPT ![c] = "committed"]
      /\ lock' = [row \in Row |-> IF lock[row] = c THEN Nobody ELSE lock[row]]
      /\ draft' = [draft EXCEPT ![c] = [rec \in StockRecord |-> 0]]
      /\ price' = [price EXCEPT ![c] = <<>>]
      /\ batch' = batch /\ delta' = delta
    BY <1>1 DEF End
<1>3. /\ pc \in [Callers -> {"idle"} \cup InBatch \cup Outcome]
      /\ draft \in [Callers -> [StockRecord -> Int]]
      /\ lock \in [Row -> Callers \cup {Nobody}]
      /\ price = [d \in Callers |-> price[d]]
      /\ quantity \in [StockRecord -> Nat]
    BY DEF BulkInv, BulkTypeOK
<1>4. /\ pc'[c] = "committed" /\ pc' \in [Callers -> {"idle"} \cup InBatch \cup Outcome]
      /\ \A d \in Callers \ {c} : pc'[d] = pc[d]
    BY <1>2, <1>3 DEF Outcome
<1>5. /\ \A rec \in StockRecord : draft'[c][rec] = 0
      /\ draft' \in [Callers -> [StockRecord -> Int]]
      /\ \A d \in Callers \ {c} : draft'[d] = draft[d]
    BY <1>2, <1>3
<1>6. /\ price'[c] = <<>> /\ price' = [d \in Callers |-> price'[d]]
      /\ \A d \in Callers \ {c} : price'[d] = price[d]
    BY <1>2, <1>3
<1>7. /\ lock' \in [Row -> Callers \cup {Nobody}]
      /\ \A d \in Callers \ {c}, row \in Row : lock[row] = d => lock'[row] = d
    BY <1>2, <1>3
<1>8. /\ \A rec \in StockRecord : quantity'[rec] = View(c, rec)
      /\ \A rec \in StockRecord : draft[c][rec] = 0 => quantity'[rec] = quantity[rec]
    <2>1. \A rec \in StockRecord : quantity'[rec] = View(c, rec)
        BY <1>1
    <2>2. \A rec \in StockRecord : draft[c][rec] = 0 => View(c, rec) = quantity[rec]
        BY <1>3 DEF View
    <2> QED BY <2>1, <2>2
<1>9. ASSUME NEW d \in Callers \ {c}, NEW rec \in StockRecord, lock[rec] = d
      PROVE  quantity'[rec] = quantity[rec]
    <2>1. draft[c][rec] = 0
        BY <1>9 DEF BulkInv, DraftInv
    <2> QED BY <1>8, <2>1
<1>10. /\ disturbed \subseteq disturbed'
       /\ \A d \in Callers : \A rec \in StockRecord :
              Reading(d, rec) /\ draft[c][rec] # 0 => <<d, Len(report[d]) + 1>> \in disturbed'
    BY <1>1
<1> QED
    BY <1>1, <1>2, <1>4, <1>5, <1>6, <1>7, <1>8, <1>9, <1>10

LEMMA CommitOthers ==
    ASSUME NEW c \in Callers, BulkInv, Commit(c), NEW d \in Callers \ {c}
    PROVE  /\ BatchInv(d)' /\ DraftInv(d)' /\ PriceInv(d)' /\ AdjustInv(d)' /\ ImportInv(d)'
           /\ \A rec \in StockRecord : Reported(d, rec)' = Reported(d, rec)
           /\ \A rec \in StockRecord : View(d, rec)' >= 0
<1>1. /\ pc'[d] = pc[d] /\ batch' = batch /\ delta' = delta
      /\ draft'[d] = draft[d] /\ price'[d] = price[d] /\ report' = report
      /\ broken' = broken
      /\ \A row \in Row : lock[row] = d => lock'[row] = d
      /\ \A rec \in StockRecord : lock[rec] = d => lock'[rec] = d
      /\ \A rec \in StockRecord : lock[rec] = d => quantity'[rec] = quantity[rec]
      /\ \A rec \in StockRecord : draft[c][rec] = 0 => quantity'[rec] = quantity[rec]
      /\ \A rec \in StockRecord : quantity'[rec] = View(c, rec)
      /\ disturbed \subseteq disturbed'
      /\ \A rec \in StockRecord :
            Reading(d, rec) /\ draft[c][rec] # 0 => <<d, Len(report[d]) + 1>> \in disturbed'
    BY CommitFacts DEF Row
<1>2. BatchInv(d) /\ DraftInv(d) /\ PriceInv(d) /\ AdjustInv(d) /\ ImportInv(d) /\ ImportInv(c)
    BY DEF BulkInv
<1>3. BatchInv(d)'
    BY <1>1, <1>2 DEF BatchInv, Item
<1>4. \A rec \in StockRecord : Reported(d, rec)' = Reported(d, rec)
    BY <1>1 DEF Reported, Told
<1>5. DraftInv(d)'
    BY <1>1, <1>2, <1>4 DEF DraftInv
<1>6. \A rec \in StockRecord : lock[rec] = d => View(d, rec)' = View(d, rec)
    BY <1>1 DEF View
<1>7. ASSUME NEW rec \in StockRecord PROVE View(d, rec)' >= 0
    <2>1. CASE draft[d][rec] # 0
        <3>1. View(d, rec)' = View(d, rec)
            BY <1>2, <1>6, <2>1 DEF DraftInv
        <3> QED BY <3>1 DEF BulkInv, BulkTypeOK
    <2>2. CASE draft[d][rec] = 0
        <3>1. View(d, rec)' = quantity'[rec] + 0
            BY <1>1, <2>2 DEF View
        <3>2. quantity'[rec] = View(c, rec) /\ View(c, rec) >= 0
            BY <1>1 DEF BulkInv, BulkTypeOK
        <3>3. View(c, rec) \in Int
            BY DEF View, BulkInv, BulkTypeOK
        <3> QED BY <3>1, <3>2, <3>3
    <2> QED BY <2>1, <2>2
<1>8. AdjustInv(d)'
    <2> SUFFICES ASSUME pc[d] \in InBatch, batch[d].kind = "adjustment" PROVE AdjustInv(d)'
        BY <1>1 DEF AdjustInv
    <2> DEFINE b == batch[d]
    <2>1. Item(d)' = Item(d)
        BY <1>1 DEF Item
    <2>2. /\ pc[d] = "move" /\ <<d, Len(report[d]) + 1>> \notin disturbed =>
                 delta[d] = Item(d).amount - View(d, <<Item(d).product, b.to>>)
          /\ \A i \in DOMAIN report[d] :
                 /\ report[d][i].status = "success"
                 /\ <<d, i>> \notin disturbed
                 /\ \A j \in DOMAIN report[d] : j > i => b.items[j].product # b.items[i].product
                 => /\ lock[<<b.items[i].product, b.to>>] = d
                    /\ View(d, <<b.items[i].product, b.to>>) = b.items[i].amount
        BY <1>2 DEF AdjustInv
    <2>3. ASSUME pc[d] = "move", <<d, Len(report[d]) + 1>> \notin disturbed'
          PROVE  delta[d] = Item(d).amount - View(d, <<Item(d).product, b.to>>)'
        <3> DEFINE at == <<Item(d).product, b.to>>
        <3>1. at \in StockRecord
            <4>1. Item(d).product \in Products /\ b \in Batches
                BY <1>2, <2>3, ItemTypes DEF BatchInv
            <4>2. b.to \in Locations
                BY <4>1, BatchTypes
            <4> QED BY <4>1, <4>2 DEF StockRecord
        <3>2. Reading(d, at)
            BY <2>3 DEF Reading
        <3>3. quantity'[at] = quantity[at]
            <4> HIDE DEF at
            <4> QED BY <1>1, <2>3, <3>1, <3>2
        <3>4. View(d, <<Item(d).product, b.to>>)' = View(d, <<Item(d).product, b.to>>)
            BY <1>1, <2>1, <3>3 DEF View
        <3> QED BY <1>1, <2>2, <2>3, <3>4
    <2>4. ASSUME NEW i \in DOMAIN report[d], report[d][i].status = "success",
                 <<d, i>> \notin disturbed',
                 \A j \in DOMAIN report[d] : j > i => b.items[j].product # b.items[i].product
          PROVE  /\ lock'[<<b.items[i].product, b.to>>] = d
                 /\ View(d, <<b.items[i].product, b.to>>)' = b.items[i].amount
        <3>1. /\ lock[<<b.items[i].product, b.to>>] = d
              /\ View(d, <<b.items[i].product, b.to>>) = b.items[i].amount
            BY <1>1, <2>2, <2>4
        <3>2. PICK rec \in StockRecord : rec = <<b.items[i].product, b.to>>
            BY <1>2, <2>4, SuccessRecord
        <3>3. lock[rec] = d /\ View(d, rec) = b.items[i].amount
            BY <3>1, <3>2
        <3>4. lock'[rec] = d /\ View(d, rec)' = b.items[i].amount
            BY <1>1, <1>6, <3>3
        <3>5. View(d, <<b.items[i].product, b.to>>)' = View(d, rec)'
            BY <1>1, <3>2 DEF View
        <3> QED BY <3>2, <3>4, <3>5
    <2>5. /\ pc'[d] = "move" /\ <<d, Len(report'[d]) + 1>> \notin disturbed' =>
                 delta'[d] = Item(d)'.amount - View(d, <<Item(d).product, b.to>>)'
          /\ \A i \in DOMAIN report'[d] :
                 /\ report'[d][i].status = "success"
                 /\ <<d, i>> \notin disturbed'
                 /\ \A j \in DOMAIN report'[d] : j > i => b.items[j].product # b.items[i].product
                 => /\ lock'[<<b.items[i].product, b.to>>] = d
                    /\ View(d, <<b.items[i].product, b.to>>)' = b.items[i].amount
        BY <1>1, <2>1, <2>3, <2>4
    <2> QED BY <1>1, <2>1, <2>5 DEF AdjustInv
<1>9. ImportInv(d)'
    <2> SUFFICES ASSUME pc[d] = "commit", batch[d].kind = "import", NEW k \in KeysOf(batch[d])
                 PROVE  lock'[k] = d /\ created'[k] = 0
        BY <1>1 DEF ImportInv, KeysOf, ItemsOf
    <2>1. k \in Keys /\ k \in Row
        <3>1. batch[d] \in Batches
            BY <1>2 DEF BatchInv
        <3> QED BY <3>1, KeysAreKeys DEF Row
    <2>2. lock[k] = d /\ created[k] = 0
        BY <1>2 DEF ImportInv
    <2>3. ~(batch[c].kind = "import" /\ k \in KeysOf(batch[c]))
        BY <1>2, <2>2, CommitFacts DEF ImportInv
    <2>4. created'[k] = created[k] + 0
        BY <2>1, <2>3 DEF Commit
    <2> QED BY <1>1, <2>1, <2>2, <2>4
<1>10. PriceInv(d)'
    BY <1>1, <1>2 DEF PriceInv, PricedLast, Repriced
<1> QED BY <1>3, <1>4, <1>5, <1>7, <1>8, <1>9, <1>10

(* The committed batch's changes reach the stock, *)
LEMMA CommitSum ==
    ASSUME NEW c \in Callers, BulkInv, Commit(c)
    PROVE  StockExplained'
<1> SUFFICES ASSUME NEW rec \in StockRecord
             PROVE  quantity'[rec] = Opening[rec] +
                       SumFunctionOnSet([d \in Callers |-> IF pc'[d] = "committed"
                                            THEN Reported(d, rec)' ELSE 0], Callers)
    BY DEF StockExplained
<1> DEFINE f == [d \in Callers |-> IF pc[d] = "committed" THEN Reported(d, rec) ELSE 0]
           g == [d \in Callers |-> IF pc'[d] = "committed" THEN Reported(d, rec)' ELSE 0]
<1>1. /\ quantity[rec] = Opening[rec] + SumFunctionOnSet(f, Callers)
      /\ quantity[rec] \in Int /\ draft[c][rec] \in Int /\ Opening[rec] \in Int
    BY DEF BulkInv, ReportsExplainStock, StockExplained, BulkTypeOK
<1>2. /\ quantity'[rec] = quantity[rec] + draft[c][rec]
      /\ draft[c][rec] = Reported(c, rec)
      /\ Reported(c, rec)' = Reported(c, rec)
    <2>1. pc[c] \in InBatch
        BY CommitFacts DEF InBatch
    <2> QED BY <2>1, CommitFacts DEF BulkInv, DraftInv, View, Reported, Told
<1>3. ASSUME NEW d \in Callers PROVE pc[d] = "committed" => Reported(d, rec) \in Int
    <2> SUFFICES ASSUME pc[d] = "committed" PROVE Reported(d, rec) \in Int
        OBVIOUS
    <2>1. batch[d] \in Batches /\ report[d] \in Seq(Entry) /\ Len(report[d]) <= Len(batch[d].items)
        BY DEF BulkInv, BatchInv
    <2> QED BY <2>1, ReportedTypes, ReportedIs
<1>4. pc[c] # "committed" /\ pc'[c] = "committed"
    BY CommitFacts
<1>5. ASSUME NEW d \in Callers, d # c
      PROVE  Reported(d, rec)' = Reported(d, rec) /\ pc'[d] = pc[d]
    <2>1. d \in Callers \ {c}
        BY <1>5
    <2>2. pc'[d] = pc[d]
        BY <2>1, CommitFacts
    <2>3. Reported(d, rec)' = Reported(d, rec)
        BY <2>1, CommitOthers
    <2> QED BY <2>2, <2>3
<1>6. f[c] = 0 /\ g[c] = draft[c][rec]
    BY <1>2, <1>4
<1>7. \A d \in Callers : d # c => f[d] = g[d]
    BY <1>5
<1>8. \A d \in Callers : f[d] \in Int /\ g[d] \in Int
    <2>1. \A d \in Callers : f[d] \in Int
        BY <1>3
    <2> HIDE DEF f, g
    <2> QED BY <1>1, <1>6, <1>7, <2>1
<1>9. /\ SumFunctionOnSet(g, Callers) = SumFunctionOnSet(f, Callers) + g[c] - f[c]
      /\ SumFunctionOnSet(f, Callers) \in Int
    <2> HIDE DEF f, g
    <2> QED BY <1>7, <1>8, SumUpdate, SumInt
<1>10. quantity'[rec] = Opening[rec] + SumFunctionOnSet(g, Callers)
    <2> HIDE DEF f, g
    <2> QED BY <1>1, <1>2, <1>6, <1>9
<1> QED BY <1>10

(* and what it priced last, the costs. *)
LEMMA CommitCosts ==
    ASSUME NEW c \in Callers, BulkInv, Commit(c)
    PROVE  CostsExplained'
<1>1. /\ pc[c] \in InBatch /\ pc[c] # "committed" /\ pc'[c] = "committed"
      /\ batch' = batch /\ report' = report
      /\ \A d \in Callers \ {c} : pc'[d] = pc[d]
    BY CommitFacts DEF InBatch
<1>2. \A p \in Products : cost'[p] = IF p \in DOMAIN price[c] THEN price[c][p] ELSE cost[p]
    BY DEF Commit
<1>3. /\ \A d \in Callers : \A p : Repriced(d, p)' = Repriced(d, p)
      /\ \A d \in Callers, p \in Products :
             PricedLast(d, p, cost[p])' <=> PricedLast(d, p, cost'[p])
    BY <1>1 DEF Repriced, PricedLast
<1>4. ASSUME NEW p \in Products
      PROVE  \/ \E d \in Callers : pc'[d] = "committed" /\ PricedLast(d, p, cost[p])'
             \/ cost'[p] = 0 /\ \A d \in Callers : pc'[d] = "committed" => Repriced(d, p)' = {}
    <2>1. IF p \in DOMAIN price[c] THEN PricedLast(c, p, price[c][p]) ELSE Repriced(c, p) = {}
        BY <1>1 DEF BulkInv, PriceInv
    <2>2. CASE p \in DOMAIN price[c]
        BY <1>1, <1>2, <1>3, <2>1, <2>2
    <2>3. CASE p \notin DOMAIN price[c]
        <3>1. cost'[p] = cost[p] /\ Repriced(c, p) = {}
            BY <1>2, <2>1, <2>3
        <3>2. \/ \E d \in Callers : pc[d] = "committed" /\ PricedLast(d, p, cost[p])
              \/ cost[p] = 0 /\ \A d \in Callers : pc[d] = "committed" => Repriced(d, p) = {}
            BY DEF BulkInv, ReportsExplainStock, CostsExplained
        <3>3. \A d \in Callers : pc'[d] = pc[d] \/ d = c
            BY <1>1
        <3> QED BY <1>1, <1>3, <3>1, <3>2, <3>3
    <2> QED BY <2>2, <2>3
<1> QED BY <1>4 DEF CostsExplained

LEMMA CommitInv ==
    ASSUME NEW c \in Callers, BulkInv, Commit(c)
    PROVE  BulkInv'
<1> DEFINE b == batch[c]
<1>1. /\ pc[c] = "commit" /\ c \notin broken
      /\ batch' = batch /\ delta' = delta /\ report' = report /\ broken' = broken
      /\ \A rec \in StockRecord : quantity'[rec] = View(c, rec)
      /\ pc'[c] = "committed" /\ pc' \in [Callers -> {"idle"} \cup InBatch \cup Outcome]
      /\ \A rec \in StockRecord : draft'[c][rec] = 0
      /\ price'[c] = <<>> /\ price' = [d \in Callers |-> price'[d]]
      /\ draft' \in [Callers -> [StockRecord -> Int]]
      /\ lock' \in [Row -> Callers \cup {Nobody}]
    BY CommitFacts
<1>2. BatchInv(c) /\ ImportInv(c) /\ b \in Batches
    BY <1>1 DEF BulkInv, BatchInv
<1>3. \A rec \in StockRecord : View(c, rec) \in Nat
    BY DEF BulkInv, BulkTypeOK, View
<1>4. quantity' \in [StockRecord -> Nat]
    BY <1>3 DEF Commit
<1>5. cost' \in [Products -> Nat]
    <2>1. /\ DOMAIN price[c] \subseteq Products /\ price[c] \in [DOMAIN price[c] -> Nat]
          /\ cost \in [Products -> Nat]
        BY DEF BulkInv, BulkTypeOK, BatchInv
    <2>2. cost' = [p \in Products |-> IF p \in DOMAIN price[c] THEN price[c][p] ELSE cost[p]]
        BY DEF Commit
    <2> QED BY <2>1, <2>2
<1>6. created' \in [Keys -> {0, 1}]
    <2>1. /\ created \in [Keys -> {0, 1}]
          /\ created' = [k \in Keys |->
                            created[k] + IF b.kind = "import" /\ k \in KeysOf(b) THEN 1 ELSE 0]
        BY DEF BulkInv, BulkTypeOK, Commit
    <2>2. ASSUME NEW k \in Keys PROVE created'[k] \in {0, 1}
        <3>1. CASE b.kind = "import" /\ k \in KeysOf(b)
            BY <1>1, <1>2, <2>1, <3>1 DEF ImportInv
        <3>2. CASE ~(b.kind = "import" /\ k \in KeysOf(b))
            BY <2>1, <3>2
        <3> QED BY <3>1, <3>2
    <2> QED BY <2>1, <2>2
<1>7. \A rec \in StockRecord : View(c, rec)' >= 0
    BY <1>1, <1>3 DEF View
<1>8. BulkTypeOK'
    <2>1. \A d \in Callers, rec \in StockRecord : View(d, rec)' >= 0
        BY <1>7, CommitOthers
    <2> HIDE DEF b
    <2> QED BY <1>1, <1>4, <1>5, <1>6, <2>1 DEF BulkInv, BulkTypeOK
<1>9. BatchInv(c)'
    <2>1. DOMAIN price'[c] = {} /\ price'[c] \in [DOMAIN price'[c] -> Nat]
        BY <1>1
    <2> QED BY <1>1, <1>2, <2>1 DEF BatchInv, InBatch
<1>10. DraftInv(c)' /\ PriceInv(c)' /\ AdjustInv(c)' /\ ImportInv(c)'
    BY <1>1 DEF DraftInv, PriceInv, AdjustInv, ImportInv, InBatch
<1>11. \A d \in Callers :
           BatchInv(d)' /\ DraftInv(d)' /\ PriceInv(d)' /\ AdjustInv(d)' /\ ImportInv(d)'
    BY <1>9, <1>10, CommitOthers
<1> QED
    BY <1>8, <1>11, CommitSum, CommitCosts DEF BulkInv, ReportsExplainStock


-----------------------------------------------------------------------------
(* Jobs and the cache.                                                       *)

LEMMA BulkKept ==
    ASSUME BulkInv, UNCHANGED bulkVars
    PROVE  BulkInv'
<1>1. /\ quantity' = quantity /\ cost' = cost /\ created' = created /\ pc' = pc
      /\ batch' = batch /\ delta' = delta /\ lock' = lock /\ draft' = draft
      /\ price' = price /\ report' = report /\ broken' = broken /\ disturbed' = disturbed
    BY DEF bulkVars
<1>2. BulkTypeOK'
    BY <1>1 DEF BulkInv, BulkTypeOK, View
<1>3. \A c \in Callers, rec \in StockRecord : Reported(c, rec)' = Reported(c, rec)
    BY <1>1 DEF Reported, Told
<1>4. StockExplained' /\ CostsExplained'
    <2>1. StockExplained /\ CostsExplained
        BY DEF BulkInv, ReportsExplainStock
    <2>2. StockExplained'
        BY ONLY <1>1, <2>1 DEF StockExplained, Reported, Told
    <2>3. \A c \in Callers, p \in Products : Repriced(c, p)' = Repriced(c, p)
        BY ONLY <1>1 DEF Repriced
    <2>4. \A c \in Callers, p \in Products : PricedLast(c, p, cost[p])' <=> PricedLast(c, p, cost[p])
        BY ONLY <1>1, <2>3 DEF PricedLast
    <2>5. CostsExplained'
        BY ONLY <1>1, <2>1, <2>3, <2>4 DEF CostsExplained
    <2> QED BY <2>2, <2>5
<1>5. ASSUME NEW c \in Callers
      PROVE  BatchInv(c)' /\ DraftInv(c)' /\ PriceInv(c)' /\ AdjustInv(c)' /\ ImportInv(c)'
    <2>1. BatchInv(c) /\ DraftInv(c) /\ PriceInv(c) /\ AdjustInv(c) /\ ImportInv(c)
        BY DEF BulkInv
    <2>6. PriceInv(c)'
        BY <1>1, <2>1 DEF PriceInv, PricedLast, Repriced
    <2>2. BatchInv(c)'
        BY <1>1, <2>1 DEF BatchInv, Item
    <2>3. DraftInv(c)'
        BY <1>1, <1>3, <2>1 DEF DraftInv
    <2>4. AdjustInv(c)'
        BY <1>1, <2>1 DEF AdjustInv, Item, View
    <2>5. ImportInv(c)'
        BY <1>1, <2>1 DEF ImportInv, KeysOf, ItemsOf
    <2> QED BY <2>2, <2>3, <2>4, <2>5, <2>6
<1> QED BY <1>2, <1>4, <1>5 DEF BulkInv, ReportsExplainStock

(* k's payload is stale for a reason the property names. *)
Caused(k) ==
    \/ cache[k] \in {Absent, quantity[k[2]]}
    \/ k \in late
    \/ \E c \in Callers : /\ pc[c] = "committed"
                          /\ ~PatternDelete \/ ContextOf[c] # k[1]
                          /\ \E i \in DOMAIN report[c] : Told(c, i, k[2]) # 0

LEMMA EntryTypes ==
    ASSUME NEW k \in Entries, OperationsAssumption
    PROVE  k[2] \in StockRecord
BY DEF OperationsAssumption

(* A committed batch and what it told stay. *)
LEMMA CommittedKept ==
    ASSUME NEW c \in Callers, OwnStep(c) \/ (BulkInv /\ Commit(c)), NEW d \in Callers, pc[d] = "committed"
    PROVE  pc'[d] = "committed" /\ report'[d] = report[d]
           /\ \A i, rec : Told(d, i, rec)' = Told(d, i, rec)
<1>1. d # c
    BY DEF OwnStep, Commit
<1>2. pc'[d] = pc[d] /\ batch'[d] = batch[d] /\ report'[d] = report[d]
    BY <1>1, CommitFacts DEF OwnStep
<1> QED BY <1>2 DEF Told

LEMMA CacheQuiet ==
    ASSUME NEW c \in Callers, Quiet(c), cache' = cache, late' = late,
           NEW k \in Entries, k[2] \in StockRecord, Caused(k), CacheInv(k)
    PROVE  Caused(k)' /\ CacheInv(k)'
<1>1. quantity' = quantity
    BY DEF Quiet, OwnStep, rowVars
<1>2. \A d \in Callers : draft'[d][k[2]] # 0 => draft[d][k[2]] # 0
    BY DEF Quiet, OwnStep
<1>3. CacheInv(k)'
    BY <1>2 DEF CacheInv
<1>4. Caused(k)'
    <2>1. ASSUME NEW d \in Callers, pc[d] = "committed",
                 \E i \in DOMAIN report[d] : Told(d, i, k[2]) # 0
          PROVE  pc'[d] = "committed" /\ \E i \in DOMAIN report'[d] : Told(d, i, k[2])' # 0
        BY <2>1, CommittedKept DEF Quiet
    <2> QED BY <1>1, <2>1 DEF Caused
<1> QED BY <1>3, <1>4

LEMMA CacheMove ==
    ASSUME NEW c \in Callers, BulkInv, MoveItem(c), OwnStep(c),
           cache' = [j \in Entries |->
                        IF j \in {i \in Entries : Invalidates(c, i)} THEN Absent ELSE cache[j]],
           late' = late \ {i \in Entries : Invalidates(c, i)},
           NEW k \in Entries, k[2] \in StockRecord, Caused(k), CacheInv(k)
    PROVE  Caused(k)' /\ CacheInv(k)'
<1>1. quantity' = quantity /\ \A d \in Callers \ {c} : draft'[d] = draft[d]
    BY DEF OwnStep, rowVars
<1>2. CASE Invalidates(c, k)
    <2>1. cache'[k] = Absent
        BY <1>2
    <2> QED BY <2>1 DEF Caused, CacheInv
<1>3. CASE ~Invalidates(c, k)
    <2>1. cache'[k] = cache[k] /\ (k \in late => k \in late')
        BY <1>3
    <2>2. ASSUME NEW d \in Callers, pc[d] = "committed",
                 \E i \in DOMAIN report[d] : Told(d, i, k[2]) # 0
          PROVE  pc'[d] = "committed" /\ \E i \in DOMAIN report'[d] : Told(d, i, k[2])' # 0
        BY <2>2, CommittedKept
    <2>3. Caused(k)'
        BY <1>1, <2>1, <2>2 DEF Caused
    <2>4. PatternDelete /\ ContextOf[c] = k[1] => draft'[c][k[2]] = draft[c][k[2]]
        BY <1>3, MoveChanges DEF Invalidates
    <2>5. CacheInv(k)'
        BY <1>1, <2>1, <2>4 DEF CacheInv
    <2> QED BY <2>3, <2>5
<1> QED BY <1>2, <1>3

LEMMA CacheCommit ==
    ASSUME NEW c \in Callers, BulkInv, Commit(c), cache' = cache, late' = late,
           NEW k \in Entries, k[2] \in StockRecord, Caused(k), CacheInv(k)
    PROVE  Caused(k)' /\ CacheInv(k)'
<1>1. ASSUME NEW d \in Callers, draft'[d][k[2]] # 0 PROVE draft[d][k[2]] # 0
    <2>1. draft'[c][k[2]] = 0
        BY CommitFacts
    <2>2. d \in Callers \ {c}
        BY <1>1, <2>1
    <2>3. draft'[d] = draft[d]
        BY <2>2, CommitFacts
    <2> QED BY <1>1, <2>3
<1>2. CacheInv(k)'
    BY <1>1 DEF CacheInv
<1>3. CASE draft[c][k[2]] = 0
    <2>1. quantity'[k[2]] = quantity[k[2]]
        BY <1>3, CommitFacts
    <2>2. ASSUME NEW d \in Callers, pc[d] = "committed",
                 \E i \in DOMAIN report[d] : Told(d, i, k[2]) # 0
          PROVE  pc'[d] = "committed" /\ \E i \in DOMAIN report'[d] : Told(d, i, k[2])' # 0
        BY <2>2, CommittedKept
    <2> QED BY <1>2, <2>1, <2>2 DEF Caused
<1>4. CASE draft[c][k[2]] # 0 /\ PatternDelete /\ ContextOf[c] = k[1]
    BY <1>2, <1>4 DEF Caused, CacheInv
<1>5. CASE draft[c][k[2]] # 0 /\ ~(PatternDelete /\ ContextOf[c] = k[1])
    <2> DEFINE f == [i \in DOMAIN report[c] |-> Told(c, i, k[2])]
    <2>1. SumFunctionOnSet(f, DOMAIN report[c]) # 0
        <3>1. pc[c] \in InBatch
            BY CommitFacts DEF InBatch
        <3>2. draft[c][k[2]] = Reported(c, k[2])
            BY <3>1 DEF BulkInv, DraftInv
        <3>3. Reported(c, k[2]) # 0
            BY <1>5, <3>2
        <3> QED BY <3>3 DEF Reported
    <2>2. IsFiniteSet(DOMAIN report[c])
        <3>1. report[c] \in Seq(Entry)
            BY DEF BulkInv, BatchInv
        <3>2. DOMAIN report[c] = 1..Len(report[c]) /\ Len(report[c]) \in Nat
            <4> HIDE DEF f
            <4> QED BY <3>1, ReportTypes
        <3>3. IsFiniteSet(1..Len(report[c]))
            BY <3>2, FS_Interval
        <3> QED BY ONLY <3>2, <3>3
    <2>3. \E i \in DOMAIN report[c] : f[i] # 0
        <3> HIDE DEF f
        <3> QED BY <2>1, <2>2, SumZero
    <2>4. PICK i \in DOMAIN report[c] : Told(c, i, k[2]) # 0
        BY <2>3
    <2>5. pc'[c] = "committed" /\ report' = report /\ batch' = batch
        BY CommitFacts
    <2>6. i \in DOMAIN report'[c] /\ Told(c, i, k[2])' # 0
        BY <2>4, <2>5 DEF Told
    <2> QED BY <1>2, <1>5, <2>5, <2>6 DEF Caused
<1> QED BY <1>3, <1>4, <1>5


-----------------------------------------------------------------------------
(* The invariant.                                                            *)

LEMMA OperationsInvInit == OperationsAssumption /\ OperationsInit => OperationsInv
<1> SUFFICES ASSUME OperationsAssumption, OperationsInit PROVE OperationsInv
    OBVIOUS
<1> USE DEF OperationsInit, Init
<1>1. \A c \in Callers, rec \in StockRecord : View(c, rec) = Opening[rec] + 0
    BY DEF View
<1>2. BulkTypeOK
    <2>1. \A c \in Callers, rec \in StockRecord : View(c, rec) >= 0
        BY <1>1
    <2>2. report \in [Callers -> Seq(Entry)]
        OBVIOUS
    <2>3. draft \in [Callers -> [StockRecord -> Int]]
        OBVIOUS
    <2>4. price = [c \in Callers |-> price[c]]
        OBVIOUS
    <2> QED BY <2>1, <2>2, <2>3, <2>4 DEF BulkTypeOK
<1>3. StockExplained
    <2> SUFFICES ASSUME NEW rec \in StockRecord
                 PROVE  quantity[rec] = Opening[rec] +
                           SumFunctionOnSet([c \in Callers |-> IF pc[c] = "committed"
                                                THEN Reported(c, rec) ELSE 0], Callers)
        BY DEF StockExplained
    <2> DEFINE f == [c \in Callers |-> IF pc[c] = "committed" THEN Reported(c, rec) ELSE 0]
    <2>1. \A c \in Callers : f[c] = 0
        OBVIOUS
    <2>2. SumFunctionOnSet(f, Callers) = 0
        <3> HIDE DEF f
        <3> QED BY <2>1, SumZero
    <2> QED BY <2>2
<1>4. \A c \in Callers :
          BatchInv(c) /\ DraftInv(c) /\ PriceInv(c) /\ AdjustInv(c) /\ ImportInv(c)
    BY DEF BatchInv, DraftInv, PriceInv, AdjustInv, ImportInv, InBatch
<1>9. CostsExplained
    BY DEF CostsExplained
<1>5. OperationsTypeOK
    BY <1>2 DEF OperationsTypeOK, Place, JobStatus
<1>6. JobTellsTruth /\ StaleHasACause
    BY DEF JobTellsTruth, StaleHasACause
<1>7. \A c \in Callers : JobInv(c)
    BY DEF JobInv, InBatch, Settled
<1>8. \A k \in Entries : CacheInv(k)
    BY EntryTypes DEF CacheInv
<1> QED
    BY <1>2, <1>3, <1>4, <1>5, <1>6, <1>7, <1>8, <1>9 DEF OperationsInv, BulkInv, ReportsExplainStock

(* The two halves beside the batches: what the jobs say, and the cache.      *)
JobsInv ==
    /\ place \in [Callers -> Place] /\ job \in [Callers -> JobStatus]
    /\ saving \subseteq Callers /\ local \subseteq Callers /\ unsaved \subseteq Callers
    /\ JobTellsTruth /\ \A c \in Callers : JobInv(c)

CachesInv ==
    /\ cache \in [Entries -> Nat \cup {Absent}] /\ reading \in [Entries -> Nat \cup {Absent}]
    /\ late \subseteq Entries
    /\ \A k \in Entries : Caused(k) /\ CacheInv(k)

LEMMA InvParts == OperationsInv <=> BulkInv /\ JobsInv /\ CachesInv
<1>1. StaleHasACause <=> \A k \in Entries : Caused(k)
    BY DEF StaleHasACause, Caused
<1>2. BulkInv => BulkTypeOK
    BY DEF BulkInv
<1> QED BY <1>1, <1>2 DEF OperationsInv, OperationsTypeOK, JobsInv, CachesInv

(* The call returned: its batch committed, or it reports an item that failed. *)
Returned(c) ==
    \/ pc[c] \in {"committed", "invalid"}
    \/ pc[c] = "undone" /\ \E i \in DOMAIN report[c] : report[c][i].status = "failure"

(* A batch's steps leave its job where it is. *)
LEMMA JobsKept ==
    ASSUME NEW c \in Callers, JobsInv, jobVars' = jobVars,
           \A d \in Callers \ {c} : pc'[d] = pc[d] /\ report'[d] = report[d],
           pc[c] \in InBatch, pc'[c] \in InBatch \cup {"committed", "undone", "refused", "invalid"}
    PROVE  JobsInv'
<1>1. /\ place' = place /\ job' = job /\ saving' = saving /\ local' = local /\ unsaved' = unsaved
    BY DEF jobVars
<1>2. place[c] \in {"request", "running"} /\ job[c] \notin {"success", "failure"}
    BY DEF JobsInv, JobInv, Settled
<1>3. ASSUME NEW d \in Callers PROVE JobInv(d)'
    <2>1. CASE d = c
        BY <1>1, <1>2, <2>1 DEF JobInv, InBatch, Settled
    <2>2. CASE d # c
        BY <1>1, <2>2 DEF JobsInv, JobInv
    <2> QED BY <2>1, <2>2
<1>4. JobTellsTruth'
    <2>1. ASSUME NEW d \in Callers
          PROVE  /\ job'[d] = "success" => Returned(d)'
                 /\ job'[d] = "failure" => pc'[d] \in {"idle", "refused"} \/ d \in unsaved'
        <3>1. CASE d = c
            BY <1>1, <1>2, <3>1
        <3>2. CASE d # c
            BY <1>1, <3>2 DEF JobsInv, JobTellsTruth, Returned
        <3> QED BY <3>1, <3>2
    <2> QED BY <2>1 DEF JobTellsTruth, Returned
<1> QED BY <1>1, <1>3, <1>4 DEF JobsInv

(* A step of the job alone. *)
LEMMA JobsMove ==
    ASSUME NEW c \in Callers, JobsInv, pc' = pc, report' = report,
           NEW p \in Place, NEW j \in JobStatus,
           place' = [place EXCEPT ![c] = p], job' = [job EXCEPT ![c] = j],
           saving' \subseteq Callers, local' \subseteq Callers,
           unsaved \subseteq unsaved', unsaved' \subseteq Callers,
           p \in {"free", "created", "queued", "taken"} => pc[c] = "idle",
           pc[c] = "aborted" => p = "lost",
           j \in Settled => p \in {"returned", "raised", "done", "dropped", "lost"},
           pc[c] \in InBatch => p \in {"request", "running"},
           j = "success" \/ p = "returned" => Returned(c),
           j = "failure" \/ p = "raised" => pc[c] \in {"idle", "refused"} \/ c \in unsaved'
    PROVE  JobsInv'
<1>1. /\ place \in [Callers -> Place] /\ job \in [Callers -> JobStatus]
      /\ \A d \in Callers : JobInv(d)
    BY DEF JobsInv
<1>2. /\ place'[c] = p /\ job'[c] = j
      /\ \A d \in Callers \ {c} : place'[d] = place[d] /\ job'[d] = job[d]
      /\ place' \in [Callers -> Place] /\ job' \in [Callers -> JobStatus]
    BY <1>1
<1>3. ASSUME NEW d \in Callers PROVE JobInv(d)'
    <2>1. CASE d = c
        BY <1>2, <2>1 DEF JobInv, Returned
    <2>2. CASE d # c
        BY <1>1, <1>2, <2>2 DEF JobInv
    <2> QED BY <2>1, <2>2
<1>4. JobTellsTruth'
    <2>1. ASSUME NEW d \in Callers
          PROVE  /\ job'[d] = "success" => Returned(d)
                 /\ job'[d] = "failure" => pc'[d] \in {"idle", "refused"} \/ d \in unsaved'
        <3>1. CASE d = c
            BY <1>2, <3>1
        <3>2. CASE d # c
            BY <1>2, <3>2 DEF JobsInv, JobTellsTruth, Returned
        <3> QED BY <3>1, <3>2
    <2>2. \A d : Returned(d)' <=> Returned(d)
        BY DEF Returned
    <2> QED BY <2>1 DEF JobTellsTruth, Returned
<1> QED BY <1>2, <1>3, <1>4 DEF JobsInv

(* The end of a try. *)
LEMMA MarkEndInv ==
    ASSUME NEW c \in Callers, JobsInv, pc' = pc, report' = report,
           NEW returned \in BOOLEAN,
           NEW onSuccess \in {"returned", "done"}, NEW onFailure \in {"raised", "done"},
           NEW onNeither \in {"raised", "dropped"},
           MarkEnd(c, returned, onSuccess, onFailure, onNeither),
           saving' = saving, local' = local,
           pc[c] \notin InBatch \cup {"aborted"},
           returned => Returned(c),
           ~returned => pc[c] \in {"idle", "refused"} \/ c \in unsaved
    PROVE  JobsInv'
<1>1. /\ place \in [Callers -> Place] /\ job \in [Callers -> JobStatus]
      /\ saving \subseteq Callers /\ local \subseteq Callers /\ unsaved \subseteq Callers
      /\ JobInv(c) /\ JobTellsTruth
    BY DEF JobsInv
<1>2. CASE returned /\ Mark(c, "success") /\ Goto(c, onSuccess) /\ UNCHANGED unsaved
    <2>1. /\ place' = [place EXCEPT ![c] = onSuccess] /\ job' = [job EXCEPT ![c] = "success"]
          /\ onSuccess \in Place /\ "success" \in JobStatus /\ "success" \in Settled
        BY <1>2 DEF Mark, Goto, Place, JobStatus, Settled
    <2> QED BY <1>1, <1>2, <2>1, JobsMove
<1>3. CASE /\ unsaved' = IF returned THEN unsaved \cup {c} ELSE unsaved
           /\ Mark(c, "failure") /\ Goto(c, onFailure)
    <2>1. /\ place' = [place EXCEPT ![c] = onFailure] /\ job' = [job EXCEPT ![c] = "failure"]
          /\ onFailure \in Place /\ "failure" \in JobStatus /\ "failure" \in Settled
        BY <1>3 DEF Mark, Goto, Place, JobStatus, Settled
    <2>2. /\ unsaved \subseteq unsaved' /\ unsaved' \subseteq Callers
          /\ pc[c] \in {"idle", "refused"} \/ c \in unsaved'
        BY <1>1, <1>3
    <2> QED BY <1>1, <2>1, <2>2, JobsMove
<1>4. CASE /\ unsaved' = IF returned THEN unsaved \cup {c} ELSE unsaved
           /\ UNCHANGED job /\ Goto(c, onNeither)
    <2>1. /\ place' = [place EXCEPT ![c] = onNeither] /\ job' = [job EXCEPT ![c] = job[c]]
          /\ onNeither \in Place /\ job[c] \in JobStatus
        BY <1>1, <1>4 DEF Goto, Place
    <2>2. /\ unsaved \subseteq unsaved' /\ unsaved' \subseteq Callers
          /\ pc[c] \in {"idle", "refused"} \/ c \in unsaved'
        BY <1>1, <1>4
    <2>3. job[c] = "success" => Returned(c)
        BY <1>1 DEF JobTellsTruth, Returned
    <2> QED BY <1>1, <2>1, <2>2, <2>3, JobsMove
<1> QED BY <1>2, <1>3, <1>4 DEF MarkEnd

LEMMA CachesQuiet ==
    ASSUME OperationsAssumption, NEW c \in Callers, Quiet(c), CachesInv, cacheVars' = cacheVars
    PROVE  CachesInv'
<1>1. cache' = cache /\ reading' = reading /\ late' = late
    BY DEF cacheVars
<1>2. \A k \in Entries : Caused(k)' /\ CacheInv(k)'
    BY <1>1, CacheQuiet, EntryTypes DEF CachesInv
<1> QED BY <1>1, <1>2 DEF CachesInv

LEMMA CachesKept ==
    ASSUME CachesInv, UNCHANGED <<bulkVars, cacheVars>>
    PROVE  CachesInv'
<1>1. /\ cache' = cache /\ reading' = reading /\ late' = late /\ quantity' = quantity
      /\ pc' = pc /\ report' = report /\ batch' = batch /\ draft' = draft
    BY DEF cacheVars, bulkVars
<1>2. \A k \in Entries : Caused(k)' /\ CacheInv(k)'
    BY <1>1 DEF CachesInv, Caused, CacheInv, Told
<1> QED BY <1>1, <1>2 DEF CachesInv


(* The steps of the calls. *)
LEMMA CallInv ==
    ASSUME OperationsAssumption, OperationsInv, NEW c \in Callers,
           Request(c) \/ CreateJob(c) \/ SaveTaskId(c) \/ CallStep(c) \/ Mishap(c)
    PROVE  OperationsInv'
<1> SUFFICES BulkInv' /\ JobsInv' /\ CachesInv'
    BY InvParts, PTL
<1>1. BulkInv /\ JobsInv /\ CachesInv
    BY InvParts
<1>2. /\ place \in [Callers -> Place] /\ job \in [Callers -> JobStatus]
      /\ saving \subseteq Callers /\ local \subseteq Callers /\ unsaved \subseteq Callers
      /\ JobInv(c) /\ JobTellsTruth /\ place[c] \in Place /\ job[c] \in JobStatus
      /\ place = [place EXCEPT ![c] = place[c]] /\ job = [job EXCEPT ![c] = job[c]]
    BY <1>1 DEF JobsInv
<1>3. CASE \/ CreateJob(c) \/ Send(c) \/ RunInPlace(c) \/ DispatchRaises(c) \/ SaveTaskId(c)
           \/ TakeMessage(c) \/ MarkStarted(c) \/ StartRaises(c)
           \/ RefuseTask(c) \/ Finish(c) \/ FinishInPlace(c)
    <2>1. UNCHANGED bulkVars /\ UNCHANGED cacheVars
        BY <1>3 DEF CreateJob, Send, RunInPlace, DispatchRaises, SaveTaskId, TakeMessage,
                    MarkStarted, StartRaises, RefuseTask, Finish, FinishInPlace, EndTask
    <2>2. BulkInv' /\ CachesInv'
        BY <1>1, <2>1, BulkKept, CachesKept
    <2>3. pc' = pc /\ report' = report
        BY <2>1 DEF bulkVars
    <2>4. CASE CreateJob(c) \/ Send(c) \/ RunInPlace(c) \/ DispatchRaises(c) \/ TakeMessage(c)
               \/ MarkStarted(c) \/ StartRaises(c)
        <3>1. PICK p \in {"created", "queued", "taken", "running", "dropped", "raised"},
                   j \in JobStatus :
                   /\ place' = [place EXCEPT ![c] = p] /\ job' = [job EXCEPT ![c] = j]
                   /\ j \in {"pending", "started", job[c]}
            BY <1>2, <2>4 DEF CreateJob, Send, RunInPlace, DispatchRaises, TakeMessage,
                              MarkStarted, StartRaises, Goto, Mark, JobStatus
        <3>2. /\ place[c] \in {"free", "created", "queued", "taken"}
              /\ saving' \subseteq Callers /\ local' \subseteq Callers /\ unsaved' = unsaved
            BY <1>2, <2>4 DEF CreateJob, Send, RunInPlace, DispatchRaises, TakeMessage,
                              MarkStarted, StartRaises
        <3>3. pc[c] = "idle" /\ job[c] \notin Settled
            BY <1>2, <3>2 DEF JobInv
        <3>4. p \in Place /\ j \notin Settled /\ pc[c] \notin InBatch
            BY <3>1, <3>3 DEF Place, Settled, InBatch
        <3>5. j # "success" /\ j # "failure"
            BY <3>4 DEF Settled
        <3> QED BY <1>1, <1>2, <2>2, <2>3, <3>1, <3>2, <3>3, <3>4, <3>5, JobsMove
    <2>5. CASE SaveTaskId(c)
        <3>1. /\ place' = place /\ job' = job /\ saving' \subseteq Callers
              /\ local' = local /\ unsaved' = unsaved
            BY <1>2, <2>5 DEF SaveTaskId
        <3> QED BY <1>1, <2>2, <2>3, <3>1 DEF JobsInv, JobInv, JobTellsTruth
    <2>6. CASE RefuseTask(c) \/ Finish(c) \/ FinishInPlace(c)
        <3>1. PICK returned \in BOOLEAN, onSuccess \in {"returned", "done"},
                   onFailure \in {"raised", "done"}, onNeither \in {"raised", "dropped"} :
                   /\ MarkEnd(c, returned, onSuccess, onFailure, onNeither)
                   /\ saving' = saving /\ local' = local
                   /\ \/ RefuseTask(c) /\ returned = FALSE
                      \/ Finish(c) /\ returned = (pc[c] # "refused")
                      \/ FinishInPlace(c) /\ returned = (place[c] = "returned")
            <4>1. CASE RefuseTask(c)
                BY <4>1 DEF RefuseTask, EndTask
            <4>2. CASE Finish(c)
                <5>1. (pc[c] # "refused") \in BOOLEAN
                    OBVIOUS
                <5> QED BY <4>2, <5>1 DEF Finish, EndTask
            <4>3. CASE FinishInPlace(c)
                <5>1. (place[c] = "returned") \in BOOLEAN
                    OBVIOUS
                <5> QED BY <4>3, <5>1 DEF FinishInPlace
            <4> QED BY <2>6, <4>1, <4>2, <4>3
        <3>2. pc[c] \notin InBatch \cup {"aborted"}
            <4>1. \/ place[c] = "running" /\ pc[c] = "idle"
                  \/ place[c] = "running" /\ pc[c] \in Outcome
                  \/ place[c] \in {"returned", "raised"}
                BY <2>6 DEF RefuseTask, Finish, FinishInPlace
            <4> QED BY <1>2, <4>1 DEF JobInv, InBatch, Outcome
        <3>3. pc[c] = "undone" => \E i \in DOMAIN report[c] : report[c][i].status = "failure"
            BY <1>1 DEF BulkInv, BatchInv
        <3>4. /\ returned => Returned(c)
              /\ ~returned => pc[c] \in {"idle", "refused"} \/ c \in unsaved
            <4>1. CASE RefuseTask(c) /\ returned = FALSE
                BY <4>1 DEF RefuseTask
            <4>2. CASE Finish(c) /\ returned = (pc[c] # "refused")
                BY <3>2, <3>3, <4>2 DEF Finish, Outcome, Returned
            <4>3. CASE FinishInPlace(c) /\ returned = (place[c] = "returned")
                BY <1>2, <4>3 DEF FinishInPlace, JobInv, Returned
            <4> QED BY <3>1, <4>1, <4>2, <4>3
        <3> QED BY <1>1, <2>2, <2>3, <3>1, <3>2, <3>4, MarkEndInv
    <2> QED BY <1>3, <2>4, <2>5, <2>6
<1>4. CASE Request(c)
    <2>1. /\ place[c] = "free" /\ place' = [place EXCEPT ![c] = "request"]
          /\ Begin(c, {b \in Batches : Accepted(b)}) /\ job' = job /\ saving' = saving
          /\ local' = local /\ unsaved' = unsaved /\ cacheVars' = cacheVars
        BY <1>4 DEF Request, Goto, cacheVars
    <2>2. BulkInv' /\ Quiet(c) /\ pc[c] = "idle" /\ pc'[c] \in {"item", "insert"}
        <3>1. {b \in Batches : Accepted(b)} \in SUBSET Batches
            OBVIOUS
        <3> QED BY <1>1, <2>1, <3>1, BeginInv
    <2>3. CachesInv'
        BY <1>1, <2>1, <2>2, CachesQuiet
    <2>4. JobsInv'
        <3>1. \A d \in Callers \ {c} :
                  pc'[d] = pc[d] /\ report'[d] = report[d] /\ place'[d] = place[d]
            BY <1>2, <2>1, <2>2 DEF Quiet, OwnStep
        <3>2. place'[c] = "request" /\ job[c] \notin Settled
            BY <1>2, <2>1 DEF JobInv
        <3>3. place' \in [Callers -> Place]
            BY <1>2, <2>1 DEF Place
        <3>4. \A d \in Callers : JobInv(d)'
            BY <1>1, <2>1, <2>2, <3>1, <3>2 DEF JobsInv, JobInv
        <3>5. JobTellsTruth'
            BY <1>2, <2>1, <3>1, <3>2 DEF JobTellsTruth, Settled
        <3> QED BY <1>2, <2>1, <3>3, <3>4, <3>5 DEF JobsInv
    <2> QED BY <2>2, <2>3, <2>4
<1>5. CASE RunBulk(c) \/ RunImport(c)
    <2>1. PICK batches \in SUBSET Batches :
              /\ place[c] = "running" /\ Begin(c, batches) /\ jobVars' = jobVars
              /\ cacheVars' = cacheVars
        <3>1. /\ {b \in Batches : b.kind # "import"} \in SUBSET Batches
              /\ {b \in Batches : b.kind = "import"} \in SUBSET Batches
            OBVIOUS
        <3> QED BY <1>5, <3>1 DEF RunBulk, RunImport
    <2>2. BulkInv' /\ Quiet(c) /\ pc[c] = "idle" /\ pc'[c] \in {"item", "insert"}
        BY <1>1, <2>1, BeginInv
    <2>3. CachesInv'
        BY <1>1, <2>1, <2>2, CachesQuiet
    <2>4. JobsInv'
        <3>1. \A d \in Callers \ {c} : pc'[d] = pc[d] /\ report'[d] = report[d]
            BY <2>2 DEF Quiet, OwnStep
        <3>2. /\ place' = place /\ job' = job /\ saving' = saving /\ local' = local
              /\ unsaved' = unsaved /\ job[c] \notin Settled
            BY <1>2, <2>1 DEF JobInv, jobVars
        <3>3. \A d \in Callers : JobInv(d)'
            BY <1>1, <2>1, <2>2, <3>1, <3>2 DEF JobsInv, JobInv
        <3>4. JobTellsTruth'
            BY <1>2, <3>1, <3>2 DEF JobTellsTruth, Settled
        <3> QED BY <1>2, <3>2, <3>3, <3>4 DEF JobsInv
    <2> QED BY <2>2, <2>3, <2>4
<1>6. CASE MoveAndInvalidate(c)
    <2>1. MoveItem(c) /\ jobVars' = jobVars
        BY <1>6 DEF MoveAndInvalidate, jobVars
    <2>2. BulkInv' /\ OwnStep(c) /\ pc[c] = "move" /\ pc'[c] \in {"item", "commit"}
        BY <1>1, <2>1, MoveItemInv
    <2>3. JobsInv'
        BY <1>1, <2>1, <2>2, JobsKept DEF OwnStep, InBatch
    <2>4. CachesInv'
        <3>1. /\ cache' = [k \in Entries |->
                              IF k \in {i \in Entries : Invalidates(c, i)} THEN Absent ELSE cache[k]]
              /\ late' = late \ {i \in Entries : Invalidates(c, i)}
              /\ reading' = reading
            BY <1>6 DEF MoveAndInvalidate
        <3>2. \A k \in Entries : Caused(k)' /\ CacheInv(k)'
            BY <1>1, <2>1, <2>2, <3>1, CacheMove, EntryTypes DEF CachesInv
        <3>3. cache' \in [Entries -> Nat \cup {Absent}]
            BY <1>1, <3>1 DEF CachesInv
        <3> QED BY <1>1, <3>1, <3>2, <3>3 DEF CachesInv
    <2> QED BY <2>2, <2>3, <2>4
<1>7. CASE Other(c) /\ ~Commit(c)
    <2>1. OtherStep(c) /\ jobVars' = jobVars /\ cacheVars' = cacheVars
        BY <1>7 DEF Other
    <2>2. BulkInv' /\ Quiet(c) /\ pc[c] \in InBatch
          /\ pc'[c] \in InBatch \cup {"undone", "refused", "invalid"}
        BY <1>1, <1>7, <2>1, QuietInv
    <2>3. JobsInv'
        BY <1>1, <2>1, <2>2, JobsKept DEF Quiet, OwnStep
    <2>4. CachesInv'
        BY <1>1, <2>1, <2>2, CachesQuiet
    <2> QED BY <2>2, <2>3, <2>4
<1>8. CASE Other(c) /\ Commit(c)
    <2>1. jobVars' = jobVars /\ cache' = cache /\ late' = late /\ reading' = reading
        BY <1>8 DEF Other, cacheVars
    <2>2. BulkInv'
        BY <1>1, <1>8, CommitInv
    <2>3. JobsInv'
        <3>1. /\ pc[c] \in InBatch /\ pc'[c] = "committed" /\ report' = report
              /\ \A d \in Callers \ {c} : pc'[d] = pc[d]
            BY <1>1, <1>8, CommitFacts DEF InBatch
        <3> QED BY <1>1, <2>1, <3>1, JobsKept
    <2>4. CachesInv'
        <3>1. \A k \in Entries : Caused(k)' /\ CacheInv(k)'
            BY <1>1, <1>8, <2>1, CacheCommit, EntryTypes DEF CachesInv
        <3> QED BY <1>1, <2>1, <3>1 DEF CachesInv
    <2> QED BY <2>2, <2>3, <2>4
<1>9. CASE Lose(c)
    <2>1. /\ place' = [place EXCEPT ![c] = "lost"] /\ job' = [job EXCEPT ![c] = job[c]]
          /\ saving' = saving /\ local' = local /\ unsaved' = unsaved /\ UNCHANGED cacheVars
          /\ job' = job
        BY <1>2, <1>9 DEF Lose, Goto
    <2>2. /\ "lost" \in Place
          /\ job[c] = "success" => Returned(c)
          /\ job[c] = "failure" => pc[c] \in {"idle", "refused"} \/ c \in unsaved
        BY <1>2 DEF Place, JobTellsTruth, Returned
    <2>3. CASE pc[c] \notin InBatch
        <3>1. UNCHANGED bulkVars
            BY <1>9, <2>3 DEF Lose
        <3>2. BulkInv' /\ CachesInv' /\ pc' = pc /\ report' = report
            BY <1>1, <2>1, <3>1, BulkKept, CachesKept DEF bulkVars
        <3>3. JobsInv'
            BY <1>1, <1>2, <2>1, <2>2, <2>3, <3>2, JobsMove
        <3> QED BY <3>2, <3>3
    <2>4. CASE pc[c] \in InBatch
        <3>1. Rollback(c, "aborted") /\ "aborted" \in Outcome \ {"committed"}
            BY <1>9, <2>4 DEF Lose, Crash, Outcome
        <3>2. BulkInv' /\ Quiet(c) /\ pc'[c] = "aborted"
            BY <1>1, <2>4, <3>1, RollbackInv
        <3>3. CachesInv'
            BY <1>1, <2>1, <3>2, CachesQuiet
        <3>4. JobsInv'
            <4>1. /\ place'[c] = "lost" /\ job' = job /\ place' \in [Callers -> Place]
                  /\ \A d \in Callers \ {c} :
                         pc'[d] = pc[d] /\ report'[d] = report[d] /\ place'[d] = place[d]
                BY <1>2, <2>1, <2>2, <3>2 DEF Quiet, OwnStep
            <4>2. job[c] \notin Settled
                BY <1>2, <2>4 DEF JobInv
            <4>3. \A d \in Callers : JobInv(d)'
                BY <1>1, <2>1, <3>2, <4>1, <4>2 DEF JobsInv, JobInv, InBatch
            <4>4. JobTellsTruth'
                BY <1>2, <2>1, <4>1, <4>2 DEF JobTellsTruth, Settled
            <4> QED BY <1>2, <2>1, <4>1, <4>3, <4>4 DEF JobsInv
        <3> QED BY <3>2, <3>3, <3>4
    <2> QED BY <2>3, <2>4
<1> QED BY <1>3, <1>4, <1>5, <1>6, <1>7, <1>8, <1>9 DEF CallStep, JobStep, Mishap

(* The steps of the views, and the timeout. *)
LEMMA ViewInv ==
    ASSUME OperationsAssumption, OperationsInv, NEW k \in Entries,
           ReadRecord(k) \/ StorePayload(k) \/ ExpirePayload(k)
    PROVE  OperationsInv'
<1> SUFFICES BulkInv' /\ JobsInv' /\ CachesInv'
    BY InvParts, PTL
<1>1. BulkInv /\ JobsInv /\ CachesInv
    BY InvParts
<1>2. UNCHANGED bulkVars /\ UNCHANGED jobVars
    BY DEF ReadRecord, StorePayload, ExpirePayload
<1>3. /\ quantity' = quantity /\ pc' = pc /\ report' = report /\ batch' = batch /\ draft' = draft
      /\ place' = place /\ job' = job /\ saving' = saving
      /\ local' = local /\ unsaved' = unsaved
    BY <1>2 DEF bulkVars, jobVars
<1>4. BulkInv'
    BY <1>1, <1>2, BulkKept
<1>5. JobsInv'
    BY <1>1, <1>3 DEF JobsInv, JobInv, JobTellsTruth
<1>6. /\ cache \in [Entries -> Nat \cup {Absent}] /\ reading \in [Entries -> Nat \cup {Absent}]
      /\ late \subseteq Entries /\ quantity[k[2]] \in Nat
    <2>1. quantity \in [StockRecord -> Nat] /\ k[2] \in StockRecord
        BY <1>1, EntryTypes DEF BulkInv, BulkTypeOK
    <2> QED BY <1>1, <2>1 DEF CachesInv
<1>7. /\ cache' \in [Entries -> Nat \cup {Absent}] /\ reading' \in [Entries -> Nat \cup {Absent}]
      /\ late' \subseteq Entries
    <2>1. CASE ReadRecord(k)
        BY <1>6, <2>1 DEF ReadRecord
    <2>2. CASE StorePayload(k)
        BY <1>6, <2>2 DEF StorePayload
    <2>3. CASE ExpirePayload(k)
        BY <1>6, <2>3 DEF ExpirePayload
    <2> QED BY <2>1, <2>2, <2>3
<1>8. ASSUME NEW j \in Entries, j # k PROVE Caused(j)' /\ CacheInv(j)'
    <2>1. cache'[j] = cache[j] /\ (j \in late => j \in late')
        BY <1>6, <1>8 DEF ReadRecord, StorePayload, ExpirePayload
    <2>2. Caused(j) /\ CacheInv(j)
        BY <1>1 DEF CachesInv
    <2>3. Caused(j)'
        BY <1>3, <2>1, <2>2 DEF Caused, Told
    <2>4. CacheInv(j)'
        BY <1>3, <2>1, <2>2 DEF CacheInv
    <2> QED BY <2>3, <2>4
<1>9. Caused(k)' /\ CacheInv(k)'
    <2>1. Caused(k) /\ CacheInv(k)
        BY <1>1 DEF CachesInv
    <2>2. CASE cache'[k] = cache[k] /\ (k \in late => k \in late')
        <3>1. Caused(k)'
            BY <1>3, <2>1, <2>2 DEF Caused, Told
        <3>2. CacheInv(k)'
            BY <1>3, <2>1, <2>2 DEF CacheInv
        <3> QED BY <3>1, <3>2
    <2>3. CASE cache'[k] = Absent
        BY <2>3 DEF Caused, CacheInv
    <2>4. CASE StorePayload(k) /\ cache[k] = Absent
        <3>1. CASE Overtaken(k)
            <4>1. k \in late'
                BY <2>4, <3>1 DEF StorePayload
            <4> QED BY <4>1 DEF Caused, CacheInv
        <3>2. CASE ~Overtaken(k)
            <4>1. cache'[k] = quantity'[k[2]]
                BY <1>3, <1>6, <2>4, <3>2 DEF StorePayload, Overtaken
            <4>2. \A c \in Callers : draft'[c][k[2]] = 0
                BY <1>3, <3>2 DEF Overtaken
            <4> QED BY <4>1, <4>2 DEF Caused, CacheInv
        <3> QED BY <3>1, <3>2
    <2> QED BY <1>6, <2>2, <2>3, <2>4 DEF ReadRecord, StorePayload, ExpirePayload
<1>10. CachesInv'
    BY <1>7, <1>8, <1>9 DEF CachesInv
<1> QED BY <1>4, <1>5, <1>10

LEMMA OperationsInvNext == OperationsAssumption /\ OperationsInv /\ [OperationsNext]_vars => OperationsInv'
<1> SUFFICES ASSUME OperationsAssumption, OperationsInv, [OperationsNext]_vars PROVE OperationsInv'
    OBVIOUS
<1>1. CASE OperationsNext
    BY <1>1, CallInv, ViewInv DEF OperationsNext
<1>2. CASE UNCHANGED vars
    <2>1. UNCHANGED <<bulkVars, cacheVars>> /\ UNCHANGED jobVars
        BY <1>2 DEF vars
    <2>2. BulkInv /\ JobsInv /\ CachesInv
        BY InvParts
    <2>3. BulkInv' /\ CachesInv'
        BY <2>1, <2>2, BulkKept, CachesKept
    <2>4. JobsInv'
        BY <2>1, <2>2 DEF JobsInv, JobInv, JobTellsTruth, jobVars, bulkVars
    <2> QED BY <2>3, <2>4, InvParts, PTL
<1> QED BY <1>1, <1>2


-----------------------------------------------------------------------------
(* The theorems.                                                             *)

(* However the calls interleave, fail and are lost, the state stays one      *)
(* where every batch's result, draft and locks agree.                        *)
THEOREM OperationsInvariant == OperationsSpec => []OperationsInv
<1>1. OperationsAssumption
    BY OperationsAssumption
<1> QED BY <1>1, OperationsInvInit, OperationsInvNext, PTL DEF OperationsSpec

(* Types hold: no batch drives a record below zero, and no key is created    *)
(* twice, whatever callers import it.                                        *)
THEOREM OperationsTypes == OperationsSpec => []OperationsTypeOK
<1>1. OperationsInv => OperationsTypeOK
    BY DEF OperationsInv
<1> QED BY <1>1, OperationsInvariant, PTL

(* What the bulk service reports of its committed batches is all that the    *)
(* stock has seen: no item is lost, done twice, or done and reported failed. *)
THEOREM ReportsExplained == OperationsSpec => []ReportsExplainStock
<1>1. OperationsInv => ReportsExplainStock
    BY DEF OperationsInv, BulkInv
<1> QED BY <1>1, OperationsInvariant, PTL

(* A batch run with fail_fast is committed only if none of its items failed, *)
(* even if the database aborts its transaction on the way.                   *)
THEOREM FailFastWhole == OperationsSpec => []FailFastIsWhole
<1>1. OperationsInv => FailFastIsWhole
    BY DEF OperationsInv, BulkInv, BatchInv, FailFastIsWhole
<1> QED BY <1>1, OperationsInvariant, PTL

(* The status dispatch and _run_with_job save is what became of the batch,    *)
(* whatever the dispatching process and the worker do in which order and     *)
(* whichever of their calls raise, but for the two exceptions the property   *)
(* names.                                                                    *)
THEOREM JobsTellTruth == OperationsSpec => []JobTellsTruth
<1>1. OperationsInv => JobTellsTruth
    BY DEF OperationsInv
<1> QED BY <1>1, OperationsInvariant, PTL

(* A cached payload that is not the committed quantity was stored by a view  *)
(* a change overtook, or the change was made where the deletion by pattern   *)
(* does not reach it.                                                        *)
THEOREM StaleCaused == OperationsSpec => []StaleHasACause
<1>1. OperationsInv => StaleHasACause
    BY DEF OperationsInv
<1> QED BY <1>1, OperationsInvariant, PTL

(* An adjustment leaves the quantity it asked for, unless another commit     *)
(* came between its read of the record and its lock.                         *)
THEOREM AdjustmentsExact == OperationsSpec => AdjustedAsAsked
<1> DEFINE Exact(c) ==
               pc[c] # "committed" /\ pc'[c] = "committed" =>
               \A i \in DOMAIN report[c] :
                  LET item == batch[c].items[i] IN
                  /\ batch[c].kind = "adjustment"
                  /\ report[c][i].status = "success"
                  /\ <<c, i>> \notin disturbed
                  /\ \A j \in DOMAIN report[c] :
                         j > i => batch[c].items[j].product # item.product
                  => quantity'[<<item.product, batch[c].to>>] = item.amount
<1>1. ASSUME OperationsInv, OperationsAssumption, [OperationsNext]_vars, NEW c \in Callers,
             pc[c] # "committed", pc'[c] = "committed",
             NEW i \in DOMAIN report[c], batch[c].kind = "adjustment",
             report[c][i].status = "success", <<c, i>> \notin disturbed,
             \A j \in DOMAIN report[c] :
                 j > i => batch[c].items[j].product # batch[c].items[i].product
      PROVE  quantity'[<<batch[c].items[i].product, batch[c].to>>] = batch[c].items[i].amount
    <2>1. BulkInv
        BY <1>1, InvParts
    <2>2. Commit(c)
        <3> SUFFICES ASSUME ~Commit(c) PROVE FALSE
            OBVIOUS
        <3>1. PICK d \in Callers :
                  \/ \E batches \in SUBSET Batches : Begin(d, batches)
                  \/ MoveItem(d) \/ OtherStep(d) \/ Crash(d) \/ UNCHANGED bulkVars
            <4>1. CASE OperationsNext
                <5>1. CASE \E k \in Entries : ReadRecord(k) \/ StorePayload(k) \/ ExpirePayload(k)
                    BY <1>1, <5>1 DEF ReadRecord, StorePayload, ExpirePayload
                <5>2. CASE \E d \in Callers :
                          Request(d) \/ CreateJob(d) \/ SaveTaskId(d) \/ CallStep(d) \/ Mishap(d)
                    <6>1. PICK d \in Callers :
                              Request(d) \/ CreateJob(d) \/ SaveTaskId(d) \/ CallStep(d) \/ Mishap(d)
                        BY <5>2
                    <6>2. CASE Request(d) \/ RunBulk(d) \/ RunImport(d)
                        <7>1. PICK batches \in SUBSET Batches : Begin(d, batches)
                            <8>1. /\ {b \in Batches : Accepted(b)} \in SUBSET Batches
                                  /\ {b \in Batches : b.kind # "import"} \in SUBSET Batches
                                  /\ {b \in Batches : b.kind = "import"} \in SUBSET Batches
                                OBVIOUS
                            <8> QED BY <6>2, <8>1 DEF Request, RunBulk, RunImport
                        <7> QED BY <7>1
                    <6>3. CASE Lose(d) \/ MoveAndInvalidate(d) \/ Other(d)
                        BY <6>3 DEF Lose, MoveAndInvalidate, Other
                    <6>4. CASE \/ CreateJob(d) \/ SaveTaskId(d) \/ DispatchRaises(d) \/ StartRaises(d)
                               \/ RefuseTask(d) \/ Send(d) \/ RunInPlace(d) \/ TakeMessage(d)
                               \/ MarkStarted(d) \/ Finish(d) \/ FinishInPlace(d)
                        BY <6>4 DEF CreateJob, SaveTaskId, DispatchRaises, StartRaises, RefuseTask,
                           Send, RunInPlace, TakeMessage, MarkStarted, Finish, FinishInPlace, EndTask
                    <6> QED BY <6>1, <6>2, <6>3, <6>4 DEF CallStep, JobStep, Mishap
                <5> QED BY <4>1, <5>1, <5>2 DEF OperationsNext
            <4>2. CASE UNCHANGED vars
                BY <1>1, <4>2 DEF vars
            <4> QED BY <1>1, <4>1, <4>2
        <3>2. CASE MoveItem(d)
            BY <1>1, <2>1, <3>2, MoveItemInv DEF OwnStep
        <3>3. CASE OtherStep(d) /\ ~Commit(d)
            BY <1>1, <2>1, <3>3, QuietInv DEF Quiet, OwnStep
        <3>4. CASE Commit(d)
            <4>1. c \in Callers \ {d}
                BY <3>4
            <4>2. \A e \in Callers \ {d} : pc'[e] = pc[e]
                BY <2>1, <3>4, CommitFacts
            <4> QED BY <1>1, <4>1, <4>2
        <3>5. CASE \E batches \in SUBSET Batches : Begin(d, batches)
            BY <1>1, <2>1, <3>5, BeginInv DEF Quiet, OwnStep
        <3>6. CASE Crash(d)
            <4>1. pc[d] \in InBatch /\ Rollback(d, "aborted") /\ "aborted" \in Outcome \ {"committed"}
                BY <3>6 DEF Crash, Outcome
            <4> QED BY <1>1, <2>1, <4>1, RollbackInv DEF Quiet, OwnStep
        <3>7. CASE UNCHANGED bulkVars
            BY <1>1, <3>7 DEF bulkVars
        <3> QED
            BY <3>1, <3>2, <3>3, <3>4, <3>5, <3>6, <3>7
    <2>3. PICK rec \in StockRecord : rec = <<batch[c].items[i].product, batch[c].to>>
        <3>1. pc[c] \in InBatch /\ BatchInv(c)
            BY <2>1, <2>2, CommitFacts DEF InBatch, BulkInv
        <3> QED BY <1>1, <3>1, SuccessRecord
    <2>4. quantity'[rec] = View(c, rec)
        BY <2>1, <2>2, CommitFacts
    <2>5. View(c, <<batch[c].items[i].product, batch[c].to>>) = batch[c].items[i].amount
        <3>1. pc[c] \in InBatch /\ AdjustInv(c)
            BY <2>1, <2>2, CommitFacts DEF InBatch, BulkInv
        <3> QED BY <1>1, <3>1 DEF AdjustInv
    <2> QED BY <2>3, <2>4, <2>5
<1>2. OperationsInv /\ OperationsAssumption /\ [OperationsNext]_vars => [\A c \in Callers : Exact(c)]_bulkVars
    BY <1>1
<1>3. OperationsAssumption
    BY OperationsAssumption
<1> QED BY <1>2, <1>3, OperationsInvariant, PTL DEF OperationsSpec, AdjustedAsAsked
=============================================================================
