---------------------------- MODULE ReceiptProofs ----------------------------
(***************************************************************************)
(* What a receipt computed from its unlocked reads still holds when it is  *)
(* committed: the capacity of a warehouse is respected, used_capacity is   *)
(* what was received, and while there are only orders and receipts the     *)
(* ledger explains what is available.                                      *)
(***************************************************************************)
EXTENDS StockProofs, SumTheorems

-----------------------------------------------------------------------------
(***************************************************************************)
(* Steps of orders and of operators, seen from a receipt.                  *)
(***************************************************************************)

\* Who is at a receipt stays where it is, and nobody gets there.
LEMMA ReceiptsUndisturbed ==
  ASSUME TypeInv,
         \/ InventoryNext
         \/ OrdersNext,
         NEW w \in Workers, pc[w] \in ReceiptSteps \/ pc'[w] \in ReceiptSteps
  PROVE  pc'[w] = pc[w]
<1>1. pc = [v \in Workers |-> pc[v]]
  BY DEF TypeInv, Typed
<1>2. CASE InventoryNext
  BY <1>2 DEF InventoryNext, Reserve, Release
<1>3. CASE OrdersNext
  <2>1. ASSUME NEW k \in Keys, NEW cart \in Carts, ReplayOrder(k, cart)
        PROVE  pc' = pc
    BY <2>1 DEF ReplayOrder
  <2>2. ASSUME NEW v \in Workers, Send(v) \/ OrderStep(v) \/ AbortOrder(v)
        PROVE  /\ \A u \in Workers \ {v} : pc'[u] = pc[u]
               /\ pc[v] \notin ReceiptSteps /\ pc'[v] \notin ReceiptSteps
    <3>1. CASE Send(v)
      BY <1>1, <3>1 DEF Send, CreateOrder, CancelOrder, Accept, ReceiptSteps
    <3>2. CASE OrderStep(v)
      BY <1>1, <3>2
      DEF OrderStep, InsertOrder, DuplicateOrder, NextItem, AllocateFrom, RejectOrder,
          CommitOrder, ReadAllocations, ReleaseStock, RejectCancel, CommitCancel, Rollback,
          Commit, EndSession, ReceiptSteps
    <3>3. CASE AbortOrder(v)
      BY <1>1, <3>3 DEF AbortOrder, Rollback, EndSession, OrderSteps, ReceiptSteps
    <3>. QED
      BY <2>2, <3>1, <3>2, <3>3
  <2>. QED
    BY <1>3, <2>1, <2>2 DEF OrdersNext
<1>. QED
  BY <1>2, <1>3

\* They enter no receipt in the ledger.
LEMMA ReceiptsUnchanged ==
  ASSUME TypeInv, StockInv, InventoryNext \/ OrdersNext
  PROVE  movements'["RECEIPT"] = movements["RECEIPT"]
<1>1. movements \in [MovementTypes -> [Rows -> Nat]]
  BY DEF TypeInv, Typed, StoreTypeOK
<1>2. CASE InventoryNext
  BY <1>1, <1>2 DEF InventoryNext, Reserve, Release, MovementTypes
<1>3. CASE OrdersNext
  <2>1. ASSUME NEW k \in Keys, NEW cart \in Carts, ReplayOrder(k, cart)
        PROVE  movements' = movements
    BY <2>1 DEF ReplayOrder
  <2>2. ASSUME NEW v \in Workers, Send(v) \/ OrderStep(v) \/ AbortOrder(v)
        PROVE  movements'["RECEIPT"] = movements["RECEIPT"]
    <3>1. CASE Send(v)
      BY <3>1 DEF Send, CreateOrder, CancelOrder, Accept
    <3>2. CASE CommitOrder(v) \/ CommitCancel(v)
      BY <1>1, <3>2 DEF CommitOrder, CommitCancel, Commit, MovementTypes
    <3>3. CASE \/ InsertOrder(v) \/ DuplicateOrder(v) \/ NextItem(v) \/ AllocateFrom(v)
               \/ RejectOrder(v) \/ ReadAllocations(v) \/ ReleaseStock(v)
               \/ RejectCancel(v) \/ AbortOrder(v)
      BY <3>3
      DEF InsertOrder, DuplicateOrder, NextItem, AllocateFrom, RejectOrder,
          ReadAllocations, ReleaseStock, RejectCancel, AbortOrder, Rollback
    <3>. QED
      BY <2>2, <3>1, <3>2, <3>3 DEF OrderStep
  <2>. QED
    BY <1>3, <2>1, <2>2 DEF OrdersNext
<1>. QED
  BY <1>2, <1>3

-----------------------------------------------------------------------------
(***************************************************************************)
(* Capacity.  A warehouse that receives one delivery at a time: the        *)
(* receipt under way has read what is used, and nobody changes it until    *)
(* it commits.                                                             *)
(***************************************************************************)
UsedInv(wh) ==
    /\ used[wh] = Total(movements["RECEIPT"], wh)
    /\ Capacity[wh] = 0 \/ used[wh] <= Capacity[wh]
    /\ \A w \in Workers :
          Receiving(w, wh) =>
              /\ receipt[w].seen = used[wh]
              /\ pc[w] = "store" => Fits(w)
              /\ \A v \in Workers : Receiving(v, wh) => v = w

CapacityInv == \A wh \in Warehouses \ OverlappingReceipts : UsedInv(wh)

\* It holds at first.
LEMMA CapacityInit == Init => CapacityInv
  BY WarehousesAssumption
  DEF Init, StoreInit, Opening, WarehousesInit, CapacityInv, UsedInv, Receiving, ReceiptSteps,
      MovementTypes

\* The capacity, and what a receipt carries, are natural numbers.
LEMMA ReceiptNumbers ==
  ASSUME TypeInv, NEW w \in Workers, pc[w] \in ReceiptSteps
  PROVE  /\ receipt[w] \in Receipts /\ receipt[w].at \in Rows /\ Site(w) \in Warehouses
         /\ receipt[w].quantity \in Nat \ {0} /\ receipt[w].seen \in Nat
         /\ Capacity[Site(w)] \in Nat /\ used[Site(w)] \in Nat
<1>1. receipt[w] \in Receipts
  BY DEF TypeInv, LocalsOK
<1>2. Site(w) \in Warehouses
  BY <1>1 DEF Receipts, Rows, Site
<1>. QED
  BY <1>1, <1>2, WarehousesAssumption, StoreAssumption
  DEF Receipts, TypeInv, Typed, WarehousesTypeOK

\* The commit of a receipt adds its quantity to the total of its warehouse.
LEMMA ReceiptTotal ==
  ASSUME TypeInv, StockInv, NEW w \in Workers, CommitReceipt(w), NEW wh \in Warehouses
  PROVE  Total(movements'["RECEIPT"], wh) = Total(movements["RECEIPT"], wh)
             + (IF wh = Site(w) THEN receipt[w].quantity ELSE 0)
<1>. DEFINE at == receipt[w].at
            n == receipt[w].quantity
            S == {r \in Rows : r[2] = wh}
            f == movements["RECEIPT"]
            g == movements'["RECEIPT"]
<1>1. /\ at \in Rows /\ n \in Nat \ {0}
      /\ movements' = [movements EXCEPT !["RECEIPT"][at] = @ + n]
  BY ReceiptChange
<1>2. f \in [Rows -> Nat] /\ g = [f EXCEPT ![at] = @ + n]
  BY <1>1 DEF TypeInv, Typed, StoreTypeOK, MovementTypes
<1>3. IsFiniteSet(S)
  BY RowsFinite, FS_Subset
<1>4. /\ \A r \in S : f[r] \in Int /\ g[r] \in Int
      /\ \A r \in S \ {at} : g[r] = f[r]
      /\ g[at] = f[at] + n /\ f[at] \in Nat
  BY <1>1, <1>2
<1>5. at \in S <=> wh = Site(w)
  BY <1>1 DEF Site
<1>6. SumFunctionOnSet(f, S) \in Int
  BY <1>3, <1>4, SumInt
<1>7. Total(f, wh) = SumFunctionOnSet(f, S) /\ Total(g, wh) = SumFunctionOnSet(g, S)
  BY DEF Total
<1>. HIDE DEF at, n, S, f, g
<1>8. CASE at \in S
  <2>1. SumFunctionOnSet(g, S) = SumFunctionOnSet(f, S) + (g[at] - f[at])
    BY <1>3, <1>4, <1>8, SumUpdate
  <2>. QED
    BY <1>1, <1>4, <1>5, <1>6, <1>7, <1>8, <2>1 DEF n, f, g
<1>9. CASE at \notin S
  <2>1. SumFunctionOnSet(g, S) = SumFunctionOnSet(f, S)
    BY <1>3, <1>4, <1>9, SumEqual
  <2>. QED
    BY <1>5, <1>6, <1>7, <1>9, <2>1 DEF f, g
<1>. QED
  BY <1>8, <1>9

\* A step of w that leaves used_capacity and the receipts of the ledger alone.
LEMMA UsedUnchanged ==
  ASSUME NEW wh, UsedInv(wh), used'[wh] = used[wh],
         movements'["RECEIPT"] = movements["RECEIPT"],
         \A w \in Workers : Receiving(w, wh)' =>
             /\ Receiving(w, wh) /\ receipt'[w] = receipt[w]
             /\ pc'[w] = pc[w] \/ pc'[w] # "store" \/ Fits(w)
  PROVE  UsedInv(wh)'
  BY DEF UsedInv, Fits, Site

\* A request is taken up when its warehouse receives nothing, and reads what
\* is used.
LEMMA GetWarehouseUsed ==
  ASSUME TypeInv, CapacityInv, NEW w \in Workers, Deliver(w),
         NEW wh \in Warehouses \ OverlappingReceipts
  PROVE  UsedInv(wh)'
<1>1. PICK r \in Rows, q \in Deliveries : GetWarehouse(w, r, q)
  BY DEF Deliver
<1>2. /\ used' = used /\ movements' = movements
      /\ pc' = [pc EXCEPT ![w] = "receive"]
      /\ receipt' = [receipt EXCEPT ![w] = [at |-> r, quantity |-> q, seen |-> used[r[2]]]]
      /\ pc = [v \in Workers |-> pc[v]]
      /\ receipt \in [Workers -> Receipts \cup {NoReceipt}]
  BY <1>1 DEF GetWarehouse, Accept, TypeInv, Typed, WarehousesTypeOK
<1>3. /\ pc'[w] = "receive" /\ receipt'[w].at[2] = r[2] /\ receipt'[w].seen = used[r[2]]
      /\ \A v \in Workers \ {w} : pc'[v] = pc[v] /\ receipt'[v] = receipt[v]
  BY <1>2
<1>4. UsedInv(wh)
  BY DEF CapacityInv
<1>5. CASE r[2] = wh
  <2>1. \A v \in Workers : ~ Receiving(v, wh)
    BY <1>1, <1>5 DEF GetWarehouse
  <2>2. \A v \in Workers \ {w} : ~ Receiving(v, wh)'
    BY <1>3, <2>1 DEF Receiving, Site
  <2>. QED
    BY <1>2, <1>3, <1>4, <1>5, <2>2 DEF UsedInv
<1>6. CASE r[2] # wh
  <2>1. ~ Receiving(w, wh)'
    BY <1>3, <1>6 DEF Receiving, Site
  <2>2. \A v \in Workers \ {w} :
           /\ Receiving(v, wh)' => Receiving(v, wh)
           /\ receipt'[v] = receipt[v] /\ pc'[v] = pc[v]
    BY <1>3 DEF Receiving, Site
  <2>. QED
    BY <1>2, <1>4, <2>1, <2>2, UsedUnchanged
<1>. QED
  BY <1>5, <1>6

\* Another step of a receipt but its commit changes nothing of it.
LEMMA ReceiptStepUsed ==
  ASSUME TypeInv, CapacityInv, NEW w \in Workers,
         \/ LockWarehouse(w) \/ RefuseReceipt(w) \/ FailReceipt(w) \/ AbortReceipt(w),
         NEW wh \in Warehouses \ OverlappingReceipts
  PROVE  UsedInv(wh)'
<1>1. /\ pc = [v \in Workers |-> pc[v]] /\ receipt \in [Workers -> Receipts \cup {NoReceipt}]
      /\ UsedInv(wh)
  BY DEF TypeInv, Typed, WarehousesTypeOK, CapacityInv
<1>2. CASE LockWarehouse(w)
  <2>1. /\ pc[w] = "receive" /\ Fits(w) /\ pc' = [pc EXCEPT ![w] = "store"]
        /\ used' = used /\ receipt' = receipt /\ movements' = movements
    BY <1>2 DEF LockWarehouse, warehouseVars
  <2>2. ASSUME NEW v \in Workers, Receiving(v, wh)'
        PROVE  /\ Receiving(v, wh)
               /\ pc'[v] = pc[v] \/ pc'[v] # "store" \/ Fits(v)
    BY <1>1, <2>1, <2>2 DEF Receiving, Site, ReceiptSteps
  <2>. QED
    BY <1>1, <2>1, <2>2, UsedUnchanged
<1>3. CASE RefuseReceipt(w) \/ FailReceipt(w) \/ AbortReceipt(w)
  <2>1. /\ used' = used /\ movements' = movements
        /\ pc' = [pc EXCEPT ![w] = "idle"] /\ receipt' = [receipt EXCEPT ![w] = NoReceipt]
    BY <1>3
    DEF RefuseReceipt, FailReceipt, AbortReceipt, Rollback, EndSession, EndReceipt
  <2>2. ASSUME NEW v \in Workers, Receiving(v, wh)'
        PROVE  Receiving(v, wh) /\ receipt'[v] = receipt[v] /\ pc'[v] = pc[v]
    BY <1>1, <2>1, <2>2 DEF Receiving, Site, ReceiptSteps
  <2>. QED
    BY <1>1, <2>1, <2>2, UsedUnchanged
<1>. QED
  BY <1>2, <1>3

\* The commit of a receipt counts what it adds: what it has read is still what
\* is used.
LEMMA CommitReceiptUsed ==
  ASSUME TypeInv, StockInv, CapacityInv, NEW w \in Workers, CommitReceipt(w),
         NEW wh \in Warehouses \ OverlappingReceipts
  PROVE  UsedInv(wh)'
<1>1. /\ pc[w] = "store" /\ pc' = [pc EXCEPT ![w] = "idle"]
      /\ receipt' = [receipt EXCEPT ![w] = NoReceipt]
      /\ used' = [used EXCEPT ![Site(w)] = receipt[w].seen + receipt[w].quantity]
  BY DEF CommitReceipt, AtRow, Commit, EndSession, EndReceipt
<1>2. /\ pc = [v \in Workers |-> pc[v]] /\ receipt \in [Workers -> Receipts \cup {NoReceipt}]
      /\ used \in [Warehouses -> Nat] /\ UsedInv(wh)
  BY DEF TypeInv, Typed, WarehousesTypeOK, CapacityInv
<1>3. /\ Site(w) \in Warehouses /\ receipt[w].quantity \in Nat /\ receipt[w].seen \in Nat
      /\ Capacity[Site(w)] \in Nat
  BY <1>1, ReceiptNumbers DEF ReceiptSteps
<1>4. Total(movements'["RECEIPT"], wh) = Total(movements["RECEIPT"], wh)
          + (IF wh = Site(w) THEN receipt[w].quantity ELSE 0)
  BY ReceiptTotal
<1>5. /\ ~ Receiving(w, wh)'
      /\ \A v \in Workers \ {w} :
            /\ Receiving(v, wh)' <=> Receiving(v, wh)
            /\ pc'[v] = pc[v] /\ receipt'[v] = receipt[v] /\ Site(v)' = Site(v)
            /\ Fits(v)' <=> Fits(v)
  BY <1>1, <1>2 DEF Receiving, Site, ReceiptSteps, Fits
<1>6. CASE wh = Site(w)
  <2>1. Receiving(w, wh)
    BY <1>1, <1>6 DEF Receiving, ReceiptSteps
  <2>2. /\ receipt[w].seen = used[wh] /\ Fits(w)
        /\ \A v \in Workers \ {w} : ~ Receiving(v, wh)
    BY <1>1, <1>2, <2>1 DEF UsedInv
  <2>3. used'[wh] = used[wh] + receipt[w].quantity
    BY <1>1, <1>2, <1>3, <1>6, <2>2
  <2>4. used'[wh] = Total(movements'["RECEIPT"], wh)
    BY <1>2, <1>4, <1>6, <2>3 DEF UsedInv
  <2>5. Capacity[wh] = 0 \/ used'[wh] <= Capacity[wh]
    BY <1>6, <2>2, <2>3 DEF Fits
  <2>. QED
    BY <1>5, <2>2, <2>4, <2>5 DEF UsedInv
<1>7. CASE wh # Site(w)
  <2>1. /\ used'[wh] = used[wh] /\ used[wh] \in Nat
        /\ Total(movements["RECEIPT"], wh) = used[wh]
    BY <1>1, <1>2, <1>7 DEF UsedInv
  <2>2. used'[wh] = Total(movements'["RECEIPT"], wh)
    BY <1>4, <1>7, <2>1
  <2>. QED
    BY <1>2, <1>5, <2>1, <2>2 DEF UsedInv
<1>. QED
  BY <1>6, <1>7

\* Every step keeps it.
LEMMA CapacityStep ==
  ASSUME TypeInv, StockInv, CapacityInv, [Next]_vars
  PROVE  CapacityInv'
<1>. SUFFICES ASSUME NEW wh \in Warehouses \ OverlappingReceipts
              PROVE  UsedInv(wh)'
  BY DEF CapacityInv
<1>1. CASE (InventoryNext \/ OrdersNext) /\ UNCHANGED warehouseVars
  <2>1. ASSUME NEW w \in Workers, Receiving(w, wh)'
        PROVE  Receiving(w, wh) /\ pc'[w] = pc[w]
    <3>1. pc'[w] = pc[w]
      BY <1>1, <2>1, ReceiptsUndisturbed DEF Receiving
    <3>. QED
      BY <1>1, <2>1, <3>1 DEF Receiving, Site, warehouseVars
  <2>2. UsedInv(wh) /\ movements'["RECEIPT"] = movements["RECEIPT"]
    BY <1>1, ReceiptsUnchanged DEF CapacityInv
  <2>. QED
    BY <1>1, <2>1, <2>2, UsedUnchanged DEF warehouseVars
<1>2. CASE WarehousesNext
  BY <1>2, GetWarehouseUsed, ReceiptStepUsed, CommitReceiptUsed DEF WarehousesNext, ReceiptStep
<1>3. CASE UNCHANGED vars
  BY <1>3 DEF vars, storeVars, warehouseVars, CapacityInv, UsedInv, Receiving, Site, Fits
<1>. QED
  BY <1>1, <1>2, <1>3 DEF Next

\* The invariant of capacity, in all interleavings.
LEMMA CapacityInvariant == Spec => [](TypeInv /\ StockInv /\ CapacityInv)
<1>1. Init => CapacityInv
  BY CapacityInit
<1>2. (TypeInv /\ StockInv) /\ CapacityInv /\ [Next]_vars => CapacityInv'
  BY CapacityStep
<1>. QED
  BY <1>1, <1>2, StockInvariantHolds, PTL DEF Spec

\* used_capacity of a warehouse that receives one delivery at a time is what
\* the ledger says it received, though each receipt adds to a value that it
\* read before it had the lock (warehouses.py:74-91).
THEOREM UsedIsReceived == Spec => []UsedMatchesReceipts
<1>1. CapacityInv => UsedMatchesReceipts
  BY DEF CapacityInv, UsedInv, UsedMatchesReceipts
<1>. QED
  BY <1>1, CapacityInvariant, PTL

\* Such a warehouse never holds more receipts than its capacity
\* (warehouses.py:79).
THEOREM CapacityKept == Spec => []CapacityRespected
<1>1. CapacityInv => CapacityRespected
  BY DEF CapacityInv, UsedInv, CapacityRespected
<1>. QED
  BY <1>1, CapacityInvariant, PTL

-----------------------------------------------------------------------------
(***************************************************************************)
(* Deliveries that overlap.  What a receipt has read may have been         *)
(* overwritten since, or be a lost update itself, but it was never more    *)
(* than what had been received.                                            *)
(***************************************************************************)
BoundOK(wh) ==
    /\ used[wh] <= Total(movements["RECEIPT"], wh)
    /\ Capacity[wh] = 0 \/ used[wh] <= Capacity[wh]
    /\ \A w \in Workers :
          Receiving(w, wh) =>
              /\ receipt[w].seen <= Total(movements["RECEIPT"], wh)
              /\ pc[w] = "store" => Fits(w)

BoundInv == \A wh \in Warehouses : BoundOK(wh)

\* It holds at first.
LEMMA BoundInit == Init => BoundInv
<1>. SUFFICES ASSUME Init, NEW wh \in Warehouses
              PROVE  BoundOK(wh)
  BY DEF BoundInv
<1>1. /\ used[wh] = Total(movements["RECEIPT"], wh) /\ used[wh] \in Nat
      /\ Capacity[wh] = 0 \/ used[wh] <= Capacity[wh]
  BY WarehousesAssumption DEF Init, StoreInit, Opening, WarehousesInit, MovementTypes
<1>2. \A w \in Workers : ~ Receiving(w, wh)
  BY DEF Init, StoreInit, Opening, Receiving, ReceiptSteps
<1>. QED
  BY <1>1, <1>2 DEF BoundOK

\* What a warehouse has received is a number.
LEMMA TotalInt ==
  ASSUME TypeInv, NEW wh
  PROVE  Total(movements["RECEIPT"], wh) \in Int
<1>1. IsFiniteSet({r \in Rows : r[2] = wh})
  BY RowsFinite, FS_Subset
<1>2. \A r \in {s \in Rows : s[2] = wh} : movements["RECEIPT"][r] \in Int
  BY DEF TypeInv, Typed, StoreTypeOK, MovementTypes
<1>. QED
  BY <1>1, <1>2, SumInt DEF Total

\* A step that leaves used_capacity and the receipts of the ledger alone, and
\* starts no receipt in the warehouse.
LEMMA BoundUnchanged ==
  ASSUME NEW wh, BoundOK(wh), used'[wh] = used[wh],
         movements'["RECEIPT"] = movements["RECEIPT"],
         \A w \in Workers : Receiving(w, wh)' =>
             /\ Receiving(w, wh) /\ receipt'[w] = receipt[w]
             /\ pc'[w] = pc[w] \/ pc'[w] # "store" \/ Fits(w)
  PROVE  BoundOK(wh)'
  BY DEF BoundOK, Fits, Site

\* A request reads what is used, which is no more than what was received.
LEMMA GetWarehouseBound ==
  ASSUME TypeInv, BoundInv, NEW w \in Workers, Deliver(w), NEW wh \in Warehouses
  PROVE  BoundOK(wh)'
<1>1. PICK r \in Rows, q \in Deliveries : GetWarehouse(w, r, q)
  BY DEF Deliver
<1>2. /\ used' = used /\ movements' = movements
      /\ pc' = [pc EXCEPT ![w] = "receive"]
      /\ receipt' = [receipt EXCEPT ![w] = [at |-> r, quantity |-> q, seen |-> used[r[2]]]]
      /\ pc = [v \in Workers |-> pc[v]]
      /\ receipt \in [Workers -> Receipts \cup {NoReceipt}]
  BY <1>1 DEF GetWarehouse, Accept, TypeInv, Typed, WarehousesTypeOK
<1>3. /\ pc'[w] = "receive" /\ receipt'[w].at[2] = r[2] /\ receipt'[w].seen = used[r[2]]
      /\ \A v \in Workers \ {w} : pc'[v] = pc[v] /\ receipt'[v] = receipt[v]
  BY <1>2
<1>4. BoundOK(wh)
  BY DEF BoundInv
<1>5. ASSUME Receiving(w, wh)'
      PROVE  /\ receipt'[w].seen <= Total(movements'["RECEIPT"], wh)
             /\ pc'[w] # "store"
  BY <1>2, <1>3, <1>4, <1>5 DEF BoundOK, Receiving, Site
<1>6. ASSUME NEW v \in Workers \ {w}, Receiving(v, wh)'
      PROVE  /\ receipt'[v].seen <= Total(movements'["RECEIPT"], wh)
             /\ pc'[v] = "store" => Fits(v)'
  BY <1>2, <1>3, <1>4, <1>6 DEF BoundOK, Receiving, Site, Fits
<1>. QED
  BY <1>2, <1>4, <1>5, <1>6 DEF BoundOK

\* Another step of a receipt but its commit changes nothing of it.
LEMMA ReceiptStepBound ==
  ASSUME TypeInv, BoundInv, NEW w \in Workers,
         \/ LockWarehouse(w) \/ RefuseReceipt(w) \/ FailReceipt(w) \/ AbortReceipt(w),
         NEW wh \in Warehouses
  PROVE  BoundOK(wh)'
<1>1. /\ pc = [v \in Workers |-> pc[v]] /\ receipt \in [Workers -> Receipts \cup {NoReceipt}]
      /\ BoundOK(wh)
  BY DEF TypeInv, Typed, WarehousesTypeOK, BoundInv
<1>2. CASE LockWarehouse(w)
  <2>1. /\ pc[w] = "receive" /\ Fits(w) /\ pc' = [pc EXCEPT ![w] = "store"]
        /\ used' = used /\ receipt' = receipt /\ movements' = movements
    BY <1>2 DEF LockWarehouse, warehouseVars
  <2>2. ASSUME NEW v \in Workers, Receiving(v, wh)'
        PROVE  /\ Receiving(v, wh)
               /\ pc'[v] = pc[v] \/ pc'[v] # "store" \/ Fits(v)
    BY <1>1, <2>1, <2>2 DEF Receiving, Site, ReceiptSteps
  <2>. QED
    BY <1>1, <2>1, <2>2, BoundUnchanged
<1>3. CASE RefuseReceipt(w) \/ FailReceipt(w) \/ AbortReceipt(w)
  <2>1. /\ used' = used /\ movements' = movements
        /\ pc' = [pc EXCEPT ![w] = "idle"] /\ receipt' = [receipt EXCEPT ![w] = NoReceipt]
    BY <1>3
    DEF RefuseReceipt, FailReceipt, AbortReceipt, Rollback, EndSession, EndReceipt
  <2>2. ASSUME NEW v \in Workers, Receiving(v, wh)'
        PROVE  Receiving(v, wh) /\ receipt'[v] = receipt[v] /\ pc'[v] = pc[v]
    BY <1>1, <2>1, <2>2 DEF Receiving, Site, ReceiptSteps
  <2>. QED
    BY <1>1, <2>1, <2>2, BoundUnchanged
<1>. QED
  BY <1>2, <1>3

\* The commit of a receipt enters as much in the ledger as it adds to what it
\* has read, and that it fits was checked against the value it has read.
LEMMA CommitReceiptBound ==
  ASSUME TypeInv, StockInv, BoundInv, NEW w \in Workers, CommitReceipt(w),
         NEW wh \in Warehouses
  PROVE  BoundOK(wh)'
<1>1. /\ pc[w] = "store" /\ pc' = [pc EXCEPT ![w] = "idle"]
      /\ receipt' = [receipt EXCEPT ![w] = NoReceipt]
      /\ used' = [used EXCEPT ![Site(w)] = receipt[w].seen + receipt[w].quantity]
  BY DEF CommitReceipt, AtRow, Commit, EndSession, EndReceipt
<1>2. /\ pc = [v \in Workers |-> pc[v]] /\ receipt \in [Workers -> Receipts \cup {NoReceipt}]
      /\ used \in [Warehouses -> Nat] /\ BoundOK(wh)
  BY DEF TypeInv, Typed, WarehousesTypeOK, BoundInv
<1>3. /\ Site(w) \in Warehouses /\ receipt[w].quantity \in Nat /\ receipt[w].seen \in Nat
      /\ \A v \in Workers : pc[v] \in ReceiptSteps => receipt[v].seen \in Nat
  BY <1>1, ReceiptNumbers DEF ReceiptSteps
<1>4. /\ Total(movements'["RECEIPT"], wh) = Total(movements["RECEIPT"], wh)
             + (IF wh = Site(w) THEN receipt[w].quantity ELSE 0)
      /\ Total(movements["RECEIPT"], wh) \in Int
  BY ReceiptTotal, TotalInt
<1>5. /\ ~ Receiving(w, wh)'
      /\ \A v \in Workers \ {w} :
            /\ Receiving(v, wh)' => Receiving(v, wh)
            /\ pc'[v] = pc[v] /\ receipt'[v] = receipt[v]
            /\ Fits(v)' <=> Fits(v)
  BY <1>1, <1>2 DEF Receiving, Site, ReceiptSteps, Fits
<1>6. ASSUME NEW v \in Workers, Receiving(v, wh)'
      PROVE  /\ receipt'[v].seen <= Total(movements'["RECEIPT"], wh)
             /\ pc'[v] = "store" => Fits(v)'
  <2>1. /\ v # w /\ Receiving(v, wh)
        /\ pc'[v] = pc[v] /\ receipt'[v] = receipt[v] /\ (Fits(v)' <=> Fits(v))
    BY <1>5, <1>6
  <2>2. receipt[v].seen <= Total(movements["RECEIPT"], wh) /\ (pc[v] = "store" => Fits(v))
    BY <1>2, <2>1 DEF BoundOK
  <2>3. receipt[v].seen \in Nat
    BY <1>3, <2>1 DEF Receiving
  <2>. QED
    BY <1>3, <1>4, <2>1, <2>2, <2>3
<1>7. CASE wh = Site(w)
  <2>1. receipt[w].seen <= Total(movements["RECEIPT"], wh) /\ Fits(w)
    BY <1>1, <1>2, <1>7 DEF BoundOK, Receiving, ReceiptSteps
  <2>2. used'[wh] = receipt[w].seen + receipt[w].quantity
    BY <1>1, <1>2, <1>3, <1>7
  <2>3. used'[wh] <= Total(movements'["RECEIPT"], wh)
    BY <1>3, <1>4, <1>7, <2>1, <2>2
  <2>4. Capacity[wh] = 0 \/ used'[wh] <= Capacity[wh]
    BY <1>7, <2>1, <2>2 DEF Fits
  <2>. QED
    BY <1>6, <2>3, <2>4 DEF BoundOK
<1>8. CASE wh # Site(w)
  <2>1. /\ used'[wh] = used[wh]
        /\ Total(movements'["RECEIPT"], wh) = Total(movements["RECEIPT"], wh)
    BY <1>1, <1>2, <1>4, <1>8
  <2>. QED
    BY <1>2, <1>6, <2>1 DEF BoundOK
<1>. QED
  BY <1>7, <1>8

\* Every step keeps it.
LEMMA BoundStep ==
  ASSUME TypeInv, StockInv, BoundInv, [Next]_vars
  PROVE  BoundInv'
<1>. SUFFICES ASSUME NEW wh \in Warehouses
              PROVE  BoundOK(wh)'
  BY DEF BoundInv
<1>1. CASE (InventoryNext \/ OrdersNext) /\ UNCHANGED warehouseVars
  <2>1. ASSUME NEW w \in Workers, Receiving(w, wh)'
        PROVE  Receiving(w, wh) /\ pc'[w] = pc[w]
    <3>1. pc'[w] = pc[w]
      BY <1>1, <2>1, ReceiptsUndisturbed DEF Receiving
    <3>. QED
      BY <1>1, <2>1, <3>1 DEF Receiving, Site, warehouseVars
  <2>2. BoundOK(wh) /\ movements'["RECEIPT"] = movements["RECEIPT"]
    BY <1>1, ReceiptsUnchanged DEF BoundInv
  <2>. QED
    BY <1>1, <2>1, <2>2, BoundUnchanged DEF warehouseVars
<1>2. CASE WarehousesNext
  BY <1>2, GetWarehouseBound, ReceiptStepBound, CommitReceiptBound
  DEF WarehousesNext, ReceiptStep
<1>3. CASE UNCHANGED vars
  BY <1>3 DEF vars, storeVars, warehouseVars, BoundInv, BoundOK, Receiving, Site, Fits
<1>. QED
  BY <1>1, <1>2, <1>3 DEF Next

\* However deliveries to a warehouse overlap, what it is said to use was
\* received, and the CHECK of its capacity never refuses a delivery that the
\* handler has let pass (warehouses.py:77-91, models.py:39).
THEOREM UsedNotOverstated == Spec => []UsedNeverOverstated
<1>1. Init => BoundInv
  BY BoundInit
<1>2. (TypeInv /\ StockInv) /\ BoundInv /\ [Next]_vars => BoundInv'
  BY BoundStep
<1>3. BoundInv => UsedNeverOverstated
  BY DEF BoundInv, BoundOK, UsedNeverOverstated
<1>. QED
  BY <1>1, <1>2, <1>3, StockInvariantHolds, PTL DEF Spec
-----------------------------------------------------------------------------
(***************************************************************************)
(* Orders and receipts only.  A receipt that has its warehouse locked      *)
(* relies on the available it read: no order can commit a change of a row  *)
(* of that warehouse, because its allocations wait for the warehouse.      *)
(***************************************************************************)
AvailableInv ==
    /\ \A w \in Workers : pc[w] \notin {"cancel", "release"}
    /\ \A w \in Workers :
          pc[w] = "store" =>
              image[w][receipt[w].at].available =
                  inventory[receipt[w].at].available + receipt[w].quantity
    /\ AvailableMatchesMovements

\* A step of such a system is a step of Stock.
LEMMA SalesSteps ==
  ASSUME [SalesNext]_vars
  PROVE  [Next]_vars
  BY DEF SalesNext, Checkout, Next, OrdersNext, Send

\* It holds at first.
LEMMA AvailableInit == Init => AvailableInv
  BY StoreAssumption
  DEF Init, StoreInit, Opening, AvailableInv, AvailableMatchesMovements, Nothing, MovementTypes

\* A step that keeps the stock, and the images of the receipts that go on.
LEMMA AvailableKept ==
  ASSUME AvailableInv, Kept,
         \A w \in Workers : pc'[w] \notin {"cancel", "release"},
         \A w \in Workers :
             pc'[w] = "store" =>
                 pc[w] = "store" /\ image'[w] = image[w] /\ receipt'[w] = receipt[w]
  PROVE  AvailableInv'
  BY DEF AvailableInv, AvailableMatchesMovements, Kept

\* A step of an order that is not yet committed.
LEMMA CheckoutAvailable ==
  ASSUME TypeInv, StockInv, AvailableInv, NEW w \in Workers, Checkout(w), ~ CommitOrder(w),
         UNCHANGED warehouseVars
  PROVE  AvailableInv'
<1>1. /\ pc = [v \in Workers |-> pc[v]] /\ image \in [Workers -> [Rows -> Quantities]]
      /\ pc[w] \notin {"cancel", "release"}
  BY DEF TypeInv, Typed, StoreTypeOK, AvailableInv
<1>2. /\ Kept
      /\ pc[w] # "store" /\ pc'[w] \notin {"cancel", "release", "store"}
      /\ \A v \in Workers \ {w} : pc'[v] = pc[v] /\ image'[v] = image[v]
  <2>1. CASE \E k \in Keys, cart \in Carts : CreateOrder(w, k, cart)
    BY <1>1, <2>1 DEF CreateOrder, Accept, Kept
  <2>2. CASE InsertOrder(w) \/ NextItem(w)
    BY <1>1, <2>2 DEF InsertOrder, NextItem, Kept
  <2>3. CASE AllocateFrom(w)
    BY <1>1, <2>3 DEF AllocateFrom, LockAndChange, Kept
  <2>4. CASE DuplicateOrder(w) \/ RejectOrder(w) \/ AbortOrder(w)
    BY <1>1, <2>4
    DEF DuplicateOrder, RejectOrder, AbortOrder, OrderSteps, Rollback, EndSession, Kept
  <2>. QED
    BY <1>1, <2>1, <2>2, <2>3, <2>4
    DEF Checkout, OrderStep, ReadAllocations, ReleaseStock, RejectCancel, CommitCancel
<1>3. \A v \in Workers : pc'[v] \notin {"cancel", "release"}
  BY <1>2 DEF AvailableInv
<1>. QED
  BY <1>2, <1>3, AvailableKept DEF warehouseVars

\* An order commits nothing in a warehouse that a receipt has locked.
LEMMA NothingBehindReceipt ==
  ASSUME TypeInv, StockInv, NEW w \in Workers, CommitOrder(w),
         NEW v \in Workers, pc[v] = "store"
  PROVE  posted[w][receipt[v].at] = 0
<1>1. /\ receipt[v].at \in Rows /\ posted[w][receipt[v].at] \in Nat
      /\ whLock[Site(v)] = v /\ v # NoWorker
  BY StoreAssumption
  DEF TypeInv, Typed, StoreTypeOK, LocalsOK, ReceiptSteps, Receipts, StockInv, SessionOK,
      ReceiptOK
<1>2. pc[w] = "allocate" /\ MayFlush(w) /\ v # w
  BY DEF CommitOrder
<1>3. Site(v) \in Warehouses /\ Site(v) \notin Allocated(w)
  BY <1>1, <1>2 DEF MayFlush, Rows, Site
<1>4. receipt[v].at[1] \in Products /\ receipt[v].at = <<receipt[v].at[1], Site(v)>>
  BY <1>1 DEF Rows, Site
<1>5. ~ (posted[w][receipt[v].at] > 0)
  BY <1>3, <1>4 DEF Allocated
<1>. QED
  BY <1>1, <1>5

\* The commit of an order moves what it takes from available to the ledger.
LEMMA CommitOrderAvailable ==
  ASSUME TypeInv, StockInv, AvailableInv, NEW w \in Workers, CommitOrder(w),
         UNCHANGED warehouseVars
  PROVE  AvailableInv'
<1>1. /\ posted[w] \in [Rows -> Nat] /\ inventory \in [Rows -> Quantities]
      /\ movements \in [MovementTypes -> [Rows -> Nat]]
      /\ inventory' = [r \in Rows |-> Take(inventory[r], posted[w][r])]
      /\ movements' = [movements EXCEPT !["RESERVATION"] =
                          [r \in Rows |-> @[r] + posted[w][r]]]
  BY CommitChange DEF Reserving, Moved, TypeInv, Typed, StoreTypeOK
<1>2. /\ pc = [v \in Workers |-> pc[v]] /\ image \in [Workers -> [Rows -> Quantities]]
      /\ pc' = [pc EXCEPT ![w] = "idle"] /\ image' = [image EXCEPT ![w] = NoImage]
  BY DEF CommitOrder, Commit, EndSession, TypeInv, Typed, StoreTypeOK
<1>3. AvailableMatchesMovements'
  <2>. SUFFICES ASSUME NEW r \in Rows
                PROVE  inventory'[r].available + movements'["RESERVATION"][r]
                         = movements'["RECEIPT"][r] + movements'["RELEASE"][r]
    BY DEF AvailableMatchesMovements
  <2>1. inventory'[r].available = inventory[r].available - posted[w][r]
    BY <1>1 DEF Take
  <2>2. /\ movements'["RESERVATION"][r] = movements["RESERVATION"][r] + posted[w][r]
        /\ movements'["RECEIPT"][r] = movements["RECEIPT"][r]
        /\ movements'["RELEASE"][r] = movements["RELEASE"][r]
    BY <1>1 DEF MovementTypes
  <2>3. /\ inventory[r].available \in Nat /\ posted[w][r] \in Nat
        /\ movements["RESERVATION"][r] \in Nat
    BY <1>1 DEF Quantities, MovementTypes
  <2>4. inventory[r].available + movements["RESERVATION"][r]
          = movements["RECEIPT"][r] + movements["RELEASE"][r]
    BY DEF AvailableInv, AvailableMatchesMovements
  <2>. QED
    BY <2>1, <2>2, <2>3, <2>4
<1>4. ASSUME NEW v \in Workers, pc'[v] = "store"
      PROVE  image'[v][receipt'[v].at].available =
                 inventory'[receipt'[v].at].available + receipt'[v].quantity
  <2>1. v # w /\ pc[v] = "store" /\ image'[v] = image[v] /\ receipt'[v] = receipt[v]
    BY <1>2, <1>4 DEF warehouseVars
  <2>2. receipt[v].at \in Rows
    BY <2>1, ReceiptNumbers DEF ReceiptSteps
  <2>3. posted[w][receipt[v].at] = 0
    BY <2>1, NothingBehindReceipt
  <2>4. inventory'[receipt[v].at] = inventory[receipt[v].at]
    BY <1>1, <2>2, <2>3, RowFacts
  <2>. QED
    BY <2>1, <2>4 DEF AvailableInv
<1>. QED
  BY <1>2, <1>3, <1>4 DEF AvailableInv

\* The commit of a receipt adds what was delivered to what is available.
LEMMA CommitReceiptAvailable ==
  ASSUME TypeInv, StockInv, AvailableInv, NEW w \in Workers, CommitReceipt(w)
  PROVE  AvailableInv'
<1>. DEFINE at == receipt[w].at
            n == receipt[w].quantity
<1>1. /\ at \in Rows /\ n \in Nat
      /\ inventory' = [inventory EXCEPT ![at] = Stored(w, at)]
      /\ movements' = [movements EXCEPT !["RECEIPT"][at] = @ + n]
      /\ inventory \in [Rows -> Quantities]
      /\ movements \in [MovementTypes -> [Rows -> Nat]]
  BY ReceiptChange DEF TypeInv, Typed, StoreTypeOK
<1>2. /\ pc[w] = "store" /\ pc' = [pc EXCEPT ![w] = "idle"]
      /\ image' = [image EXCEPT ![w] = NoImage]
      /\ receipt' = [receipt EXCEPT ![w] = NoReceipt]
      /\ pc = [v \in Workers |-> pc[v]] /\ image \in [Workers -> [Rows -> Quantities]]
      /\ receipt \in [Workers -> Receipts \cup {NoReceipt}]
  BY DEF CommitReceipt, AtRow, Commit, EndSession, EndReceipt, TypeInv, Typed, StoreTypeOK,
     WarehousesTypeOK
<1>3. inventory'[at].available = inventory[at].available + n
  BY <1>1, <1>2 DEF Stored, AvailableInv
<1>4. AvailableMatchesMovements'
  <2>. SUFFICES ASSUME NEW r \in Rows
                PROVE  inventory'[r].available + movements'["RESERVATION"][r]
                         = movements'["RECEIPT"][r] + movements'["RELEASE"][r]
    BY DEF AvailableMatchesMovements
  <2>1. /\ inventory'[r].available = inventory[r].available + (IF r = at THEN n ELSE 0)
        /\ inventory[r].available \in Nat
    BY <1>1, <1>3 DEF Quantities
  <2>2. /\ movements'["RECEIPT"][r] = movements["RECEIPT"][r] + (IF r = at THEN n ELSE 0)
        /\ movements'["RESERVATION"][r] = movements["RESERVATION"][r]
        /\ movements'["RELEASE"][r] = movements["RELEASE"][r]
        /\ movements["RECEIPT"][r] \in Nat /\ movements["RESERVATION"][r] \in Nat
        /\ movements["RELEASE"][r] \in Nat
    BY <1>1 DEF MovementTypes
  <2>3. inventory[r].available + movements["RESERVATION"][r]
          = movements["RECEIPT"][r] + movements["RELEASE"][r]
    BY DEF AvailableInv, AvailableMatchesMovements
  <2>4. n \in Nat
    BY <1>1
  <2>. HIDE DEF n, at
  <2>. QED
    BY <2>1, <2>2, <2>3, <2>4
<1>5. ASSUME NEW v \in Workers, pc'[v] = "store"
      PROVE  image'[v][receipt'[v].at].available =
                 inventory'[receipt'[v].at].available + receipt'[v].quantity
  <2>1. v # w /\ pc[v] = "store" /\ image'[v] = image[v] /\ receipt'[v] = receipt[v]
    BY <1>2, <1>5
  <2>2. receipt[v].at # at
    BY <1>2, <2>1 DEF StockInv, SessionOK, ReceiptOK, Site
  <2>3. inventory'[receipt[v].at] = inventory[receipt[v].at]
    BY <1>1, <2>1, <2>2, ReceiptNumbers DEF ReceiptSteps
  <2>. QED
    BY <2>1, <2>3 DEF AvailableInv
<1>. QED
  BY <1>2, <1>4, <1>5 DEF AvailableInv

\* A receipt computes the new available from the committed row.
LEMMA LockWarehouseAvailable ==
  ASSUME TypeInv, StockInv, AvailableInv, NEW w \in Workers, LockWarehouse(w)
  PROVE  AvailableInv'
<1>1. /\ receipt[w].at \in Rows /\ pc = [v \in Workers |-> pc[v]]
      /\ image \in [Workers -> [Rows -> Quantities]]
  BY ReceiptNumbers DEF LockWarehouse, ReceiptSteps, TypeInv, Typed, StoreTypeOK
<1>2. /\ pc' = [pc EXCEPT ![w] = "store"]
      /\ image' = [image EXCEPT ![w][receipt[w].at] =
                      Add(inventory[receipt[w].at], receipt[w].quantity)]
      /\ UNCHANGED <<inventory, movements, receipt>>
  BY DEF LockWarehouse, warehouseVars
<1>3. image'[w][receipt[w].at].available
        = inventory[receipt[w].at].available + receipt[w].quantity
  BY <1>1, <1>2 DEF Add
<1>4. \A v \in Workers \ {w} : pc'[v] = pc[v] /\ image'[v] = image[v]
  BY <1>1, <1>2
<1>5. pc'[w] = "store"
  BY <1>1, <1>2
<1>. QED
  BY <1>2, <1>3, <1>4, <1>5 DEF AvailableInv, AvailableMatchesMovements

\* The arrival and the refusal of a receipt keep the stock.
LEMMA OtherReceiptAvailable ==
  ASSUME TypeInv, StockInv, AvailableInv, NEW w \in Workers,
         \/ Deliver(w) \/ RefuseReceipt(w) \/ FailReceipt(w) \/ AbortReceipt(w)
  PROVE  AvailableInv'
<1>1. /\ pc = [v \in Workers |-> pc[v]] /\ image \in [Workers -> [Rows -> Quantities]]
      /\ receipt \in [Workers -> Receipts \cup {NoReceipt}]
  BY DEF TypeInv, Typed, StoreTypeOK, WarehousesTypeOK
<1>2. /\ Kept /\ pc'[w] \in {"receive", "idle"}
      /\ \A v \in Workers \ {w} :
            pc'[v] = pc[v] /\ image'[v] = image[v] /\ receipt'[v] = receipt[v]
  BY <1>1
  DEF Deliver, GetWarehouse, Accept, RefuseReceipt, FailReceipt, AbortReceipt, Rollback,
      EndSession, EndReceipt, Kept
<1>3. \A v \in Workers : pc'[v] \notin {"cancel", "release"}
  BY <1>2 DEF AvailableInv
<1>. QED
  BY <1>2, <1>3, AvailableKept

\* Every step keeps it.
LEMMA AvailableStep ==
  ASSUME TypeInv, StockInv, AvailableInv, [SalesNext]_vars
  PROVE  AvailableInv'
<1>1. ASSUME NEW w \in Workers, Checkout(w), UNCHANGED warehouseVars
      PROVE  AvailableInv'
  BY <1>1, CheckoutAvailable, CommitOrderAvailable
<1>2. CASE WarehousesNext
  BY <1>2, LockWarehouseAvailable, CommitReceiptAvailable, OtherReceiptAvailable
  DEF WarehousesNext, ReceiptStep
<1>3. CASE UNCHANGED vars
  BY <1>3 DEF vars, storeVars, warehouseVars, AvailableInv, AvailableMatchesMovements
<1>. QED
  BY <1>1, <1>2, <1>3 DEF SalesNext

\* The invariant of orders and receipts, in all interleavings.
LEMMA AvailableInvariant ==
  SalesSpec => [](TypeInv /\ StockInv /\ NothingReturned /\ AvailableInv)
<1>1. SalesSpec => Spec
  BY SalesSteps, PTL DEF SalesSpec, Spec
<1>2. Init => AvailableInv
  BY AvailableInit
<1>3. (TypeInv /\ StockInv /\ NothingReturned) /\ AvailableInv /\ [SalesNext]_vars => AvailableInv'
  BY AvailableStep
<1>. QED
  BY <1>1, <1>2, <1>3, StockInvariantHolds, PTL DEF SalesSpec

\* While there are only orders and receipts, the ledger explains what is
\* available, though a receipt writes a value computed from a row it has read
\* without a lock (warehouses.py:82-86, orders.py:68-81).
THEOREM LedgerExplainsAvailable == SalesSpec => []AvailableMatchesMovements
<1>1. AvailableInv => AvailableMatchesMovements
  BY DEF AvailableInv
<1>. QED
  BY <1>1, AvailableInvariant, PTL

\* No CHECK constraint ever refuses such a receipt: the 409 of an integrity
\* error is not among its answers (warehouses.py:93-95).
THEOREM ReceiptsPass == SalesSpec => []ReceiptPassesChecks
<1>1. TypeInv /\ StockInv /\ NothingReturned /\ AvailableInv => ReceiptPassesChecks
  <2>. SUFFICES ASSUME TypeInv, StockInv, NothingReturned, AvailableInv, NEW w \in Workers, AtRow(w),
                       NEW r \in Rows
                PROVE  Balanced(Written(w, "RECEIPT")[r])
    BY DEF ReceiptPassesChecks, PassesChecks
  <2>1. /\ pc[w] = "store" /\ receipt[w].at \in Rows /\ receipt[w].quantity \in Nat
        /\ Written(w, "RECEIPT") =
              [inventory EXCEPT ![receipt[w].at] = Stored(w, receipt[w].at)]
    BY WrittenByReceipt DEF AtRow, Receipts
  <2>2. inventory \in [Rows -> Quantities] /\ \A s \in Rows : Balanced(inventory[s])
    BY DEF TypeInv, Typed, StoreTypeOK, StockInv, RowOK
  <2>3. image[w][receipt[w].at].available
          = inventory[receipt[w].at].available + receipt[w].quantity
    BY <2>1 DEF AvailableInv
  <2>5. image[w][receipt[w].at].on_hand
          = inventory[receipt[w].at].on_hand + receipt[w].quantity
    BY <2>1, OnHandReceived
  <2>4. Balanced(Stored(w, receipt[w].at))
    BY <2>1, <2>2, <2>3, <2>5 DEF Stored, Balanced, Quantities
  <2>. QED
    BY <2>1, <2>2, <2>4
<1>. QED
  BY <1>1, AvailableInvariant, PTL

-----------------------------------------------------------------------------
(***************************************************************************)
(* Nothing is lost.                                                        *)
(***************************************************************************)

\* Orders and receipts together lose no unit: what is on hand is available or
\* reserved (orders.py:68-81, warehouses.py:82-91).
THEOREM SalesConserve == SalesSpec => []StockConserved
<1>1. TypeInv /\ StockInv /\ NothingReturned /\ AvailableInv => StockConserved
  <2>. SUFFICES ASSUME TypeInv, StockInv, NothingReturned, AvailableInv, NEW r \in Rows
                PROVE  inventory[r].available + inventory[r].reserved = inventory[r].on_hand
    BY DEF StockConserved
  <2>1. /\ inventory[r] \in Quantities
        /\ movements["RECEIPT"][r] \in Nat /\ movements["RESERVATION"][r] \in Nat
        /\ movements["RELEASE"][r] \in Nat
    BY DEF TypeInv, Typed, StoreTypeOK, MovementTypes
  <2>2. /\ RowOK(r) /\ AvailableMatchesMovements
        /\ inventory[r].on_hand = movements["RECEIPT"][r]
    BY OnHandReceived DEF StockInv, AvailableInv
  <2>. QED
    BY <2>1, <2>2 DEF RowOK, AvailableMatchesMovements, Quantities
<1>. QED
  BY <1>1, AvailableInvariant, PTL

\* Reservations and releases keep what is available and reserved together,
\* whoever makes them.
LEMMA MovedConserves ==
  ASSUME TypeInv, StockConserved, NEW amount \in [Rows -> Nat],
         Reserving(amount) \/ Releasing(amount)
  PROVE  StockConserved'
<1>. SUFFICES ASSUME NEW r \in Rows
              PROVE  inventory'[r].available + inventory'[r].reserved = inventory'[r].on_hand
  BY DEF StockConserved
<1>1. inventory[r] \in Quantities /\ amount[r] \in Nat
  BY DEF TypeInv, Typed, StoreTypeOK
<1>2. inventory[r].available + inventory[r].reserved = inventory[r].on_hand
  BY DEF StockConserved
<1>3. \/ inventory'[r] = Take(inventory[r], amount[r])
      \/ inventory'[r] = GiveBack(inventory[r], amount[r])
  BY DEF Reserving, Releasing, Moved
<1>. QED
  BY <1>1, <1>2, <1>3 DEF Take, GiveBack, Quantities

\* Without receipts, orders, cancellations and manual operations lose no unit,
\* however they overlap (orders.py:68-81, 135-147, inventory.py:26-57).
THEOREM OperationsConserve ==
  ASSUME Deliveries = {}
  PROVE  Spec => []StockConserved
<1>1. Init => StockConserved
  BY StoreAssumption DEF Init, StoreInit, Opening, StockConserved, Nothing
<1>2. (TypeInv /\ StockInv) /\ StockConserved /\ [Next]_vars => StockConserved'
  <2>. SUFFICES ASSUME TypeInv, StockInv, StockConserved, [Next]_vars
                PROVE  StockConserved'
    OBVIOUS
  <2>1. CASE Kept
    BY <2>1 DEF Kept, StockConserved
  <2>2. ASSUME NEW r \in Rows, NEW n \in ManualQuantities, Reserve(r, n) \/ Release(r, n)
        PROVE  StockConserved'
    BY <2>2, ManualChange, MovedConserves
  <2>3. ASSUME NEW w \in Workers, CommitOrder(w) \/ CommitCancel(w)
        PROVE  StockConserved'
    BY <2>3, CommitChange, MovedConserves
  <2>4. ASSUME NEW w \in Workers, CommitReceipt(w)
        PROVE  FALSE
    <3>1. receipt[w] \in Receipts
      BY <2>4, ReceiptNumbers DEF CommitReceipt, AtRow, ReceiptSteps
    <3>. QED
      BY <3>1 DEF Receipts
  <2>. QED
    BY <2>1, <2>2, <2>3, <2>4, WhoChangesStock
<1>. QED
  BY <1>1, <1>2, StockInvariantHolds, PTL DEF Spec
=============================================================================
