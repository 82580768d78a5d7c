-------------------------- MODULE StockTypeProofs --------------------------
(***************************************************************************)
(* The variables of Stock keep their types, for any number of sessions,    *)
(* products, warehouses and requests.                                      *)
(***************************************************************************)
EXTENDS StockInvariant, FiniteSetTheorems, SequenceTheorems, TLAPS

\* There are finitely many rows.
LEMMA RowsFinite == IsFiniteSet(Rows)
  BY StoreAssumption, FS_Product DEF Rows

\* The queue a handler works through is a sequence of rows.
LEMMA QueueType ==
  ASSUME NEW S \in SUBSET Rows, NEW s \in SetToSeqs(S)
  PROVE  s \in Seq(Rows)
<1>1. IsFiniteSet(S)
  BY RowsFinite, FS_Subset
<1>2. Cardinality(S) \in Nat
  BY <1>1, FS_CardinalityType
<1>. QED
  BY <1>2 DEF SetToSeqs

\* An order of the members of a sequence is a sequence of its members.
LEMMA ReorderType ==
  ASSUME NEW S, NEW t \in Seq(S), NEW s \in SetToSeqs(DOMAIN t)
  PROVE  [n \in DOMAIN s |-> t[s[n]]] \in Seq(S)
<1>1. DOMAIN t = 1..Len(t) /\ Len(t) \in Nat
  OBVIOUS
<1>2. IsFiniteSet(DOMAIN t) /\ Cardinality(DOMAIN t) \in Nat
  BY <1>1, FS_Interval, FS_CardinalityType
<1>3. s \in Seq(DOMAIN t)
  BY <1>2 DEF SetToSeqs
<1>4. DOMAIN s = 1..Len(s) /\ Len(s) \in Nat /\ \A n \in DOMAIN s : s[n] \in DOMAIN t
  BY <1>3
<1>. QED
  BY <1>4

-----------------------------------------------------------------------------
(***************************************************************************)
(* Types of the store, for the ways in which a step changes it.            *)
(***************************************************************************)

\* The types of the store, which sessions bring along whatever their step is.
StoreOK == StoreTypeOK /\ pc = [v \in Workers |-> pc[v]]

\* A session without a request has a job.
LEMMA NoJobType == NoJob \in Jobs
  BY DEF NoJob, Jobs

\* The end of a transaction keeps the types of the store.
LEMMA EndSessionType ==
  ASSUME StoreOK, NEW w \in Workers, EndSession(w),
         inventory' \in [Rows -> Quantities],
         movements' \in [MovementTypes -> [Rows -> Nat]]
  PROVE  StoreOK'
  BY DEF StoreOK, StoreTypeOK, EndSession, NoImage, Nothing, Quantities

\* So does a rollback.
LEMMA RollbackType ==
  ASSUME StoreOK, NEW w \in Workers, Rollback(w)
  PROVE  StoreOK'
  BY EndSessionType DEF Rollback, StoreOK, StoreTypeOK

\* What a commit writes are quantities.
LEMMA WrittenType ==
  ASSUME StoreOK, NEW w \in Workers, NEW type
  PROVE  Written(w, type) \in [Rows -> Quantities]
<1>1. ASSUME NEW x \in Quantities, NEW y \in Quantities
      PROVE  /\ [x EXCEPT !.reserved = y.reserved] \in Quantities
             /\ [x EXCEPT !.on_hand = y.on_hand] \in Quantities
  BY DEF Quantities
<1>2. ASSUME NEW r \in Rows
      PROVE  /\ inventory[r] \in Quantities
             /\ image[w][r] \in Quantities
  BY DEF StoreOK, StoreTypeOK
<1>. QED
  BY <1>1, <1>2 DEF Written

\* A commit keeps the types of the store.
LEMMA CommitType ==
  ASSUME StoreOK, NEW w \in Workers, NEW type \in MovementTypes, Commit(w, type)
  PROVE  StoreOK'
<1>1. inventory' \in [Rows -> Quantities]
  BY WrittenType DEF Commit
<1>2. movements' \in [MovementTypes -> [Rows -> Nat]]
  BY DEF Commit, StoreOK, StoreTypeOK
<1>. QED
  BY <1>1, <1>2, EndSessionType DEF Commit

\* So does the arrival of a request,
LEMMA AcceptType ==
  ASSUME StoreOK, NEW w \in Workers, NEW step, Accept(w, step)
  PROVE  StoreOK'
<1>1. StoreTypeOK'
  BY StoreAssumption DEF StoreOK, StoreTypeOK, Accept
<1>2. (pc = [v \in Workers |-> pc[v]])'
  BY DEF StoreOK, Accept
<1>. QED
  BY <1>1, <1>2 DEF StoreOK

\* and a change of a locked row in the session.
LEMMA LockAndChangeType ==
  ASSUME StoreOK, NEW w \in Workers, NEW r \in Rows, NEW row \in Quantities,
         NEW q \in Nat, LockAndChange(w, r, row, q),
         UNCHANGED <<inventory, movements, whLock, whShare, pc, requests>>
  PROVE  StoreOK'
  BY DEF StoreOK, StoreTypeOK, LockAndChange

\* Taking what there is leaves quantities.
LEMMA TakeType ==
  ASSUME NEW row \in Quantities, NEW n \in Nat, n <= row.available
  PROVE  Take(row, n) \in Quantities
  BY DEF Take, Quantities

\* So does giving back what is reserved,
LEMMA GiveBackType ==
  ASSUME NEW row \in Quantities, NEW n \in Nat, n <= row.reserved
  PROVE  GiveBack(row, n) \in Quantities
  BY DEF GiveBack, Quantities

\* and adding.
LEMMA AddType ==
  ASSUME NEW row \in Quantities, NEW n \in Nat
  PROVE  Add(row, n) \in Quantities
  BY DEF Add, Quantities

\* What a session sees of a row are quantities.
LEMMA LoadedType ==
  ASSUME StoreOK, NEW w \in Workers, NEW r \in Rows
  PROVE  Loaded(w, r) \in Quantities
  BY DEF StoreOK, StoreTypeOK, Loaded

\* The types hold at first.
LEMMA TypeInit == Init => TypeInv
<1>. SUFFICES ASSUME Init PROVE TypeInv
  OBVIOUS
<1>1. StoreTypeOK
  BY StoreAssumption
  DEF Init, StoreInit, Opening, StoreTypeOK, Quantities, MovementTypes, Nothing, NoImage
<1>2. OrdersTypeOK
  <2>1. NoJob \in Jobs
    BY NoJobType
  <2>. QED
    BY <2>1 DEF Init, OrdersInit, OrdersTypeOK, Jobs
<1>3. WarehousesTypeOK
  BY WarehousesAssumption DEF Init, WarehousesInit, WarehousesTypeOK
<1>4. pc = [w \in Workers |-> "idle"]
  BY DEF Init, StoreInit, Opening
<1>. QED
  BY <1>1, <1>2, <1>3, <1>4 DEF TypeInv, Typed, LocalsOK, ReceiptSteps

\* What the type proof of an action concludes of the handlers' variables.
OrdersOK == OrdersTypeOK /\ WarehousesTypeOK /\ LocalsOK

\* A session that ends leaves the local variables of the others alone.
LEMMA EndOrderType ==
  ASSUME TypeInv, NEW w \in Workers, EndSession(w), EndJob(w), UNCHANGED warehouseVars,
         orders' \in Seq(PlacedOrders),
         DOMAIN orders \subseteq DOMAIN orders',
         answers' \subseteq Answers
  PROVE  OrdersOK'
<1>1. OrdersTypeOK'
  BY NoJobType DEF TypeInv, Typed, OrdersTypeOK, EndJob, Jobs
<1>2. WarehousesTypeOK'
  BY DEF TypeInv, Typed, WarehousesTypeOK, warehouseVars
<1>3. LocalsOK'
  BY DEF TypeInv, Typed, OrdersTypeOK, LocalsOK, EndSession, EndJob, warehouseVars, ReceiptSteps
<1>. QED
  BY <1>1, <1>2, <1>3 DEF OrdersOK

\* The end of a receipt keeps its types.
LEMMA EndReceiptType ==
  ASSUME TypeInv, NEW w \in Workers, EndSession(w), EndReceipt(w), UNCHANGED orderVars,
         used' \in [Warehouses -> Nat]
  PROVE  OrdersOK'
<1>1. OrdersTypeOK'
  BY DEF TypeInv, Typed, OrdersTypeOK, orderVars
<1>2. WarehousesTypeOK'
  BY DEF TypeInv, Typed, WarehousesTypeOK, EndReceipt
<1>3. LocalsOK'
  BY DEF TypeInv, Typed, WarehousesTypeOK, LocalsOK, EndSession, EndReceipt, orderVars, ReceiptSteps
<1>. QED
  BY <1>1, <1>2, <1>3 DEF OrdersOK

\* Manual operations keep the types.
LEMMA TypeStepInventory ==
  ASSUME TypeInv, NEW r \in Rows, NEW q \in ManualQuantities,
         Reserve(r, q) \/ Release(r, q), UNCHANGED <<orderVars, warehouseVars>>
  PROVE  TypeInv'
<1>1. q \in Nat
  BY InventoryAssumption
<1>2. inventory[r] \in Quantities
  BY DEF TypeInv, Typed, StoreTypeOK
<1>3. inventory' \in [Rows -> Quantities]
  <2>1. CASE Reserve(r, q)
    <3>1. Take(inventory[r], q) \in Quantities
      BY <1>1, <1>2, <2>1, TakeType DEF Reserve
    <3>. QED
      BY <2>1, <3>1 DEF Reserve, TypeInv, Typed, StoreTypeOK
  <2>2. CASE Release(r, q)
    <3>1. GiveBack(inventory[r], q) \in Quantities
      BY <1>1, <1>2, <2>2, GiveBackType DEF Release
    <3>. QED
      BY <2>2, <3>1 DEF Release, TypeInv, Typed, StoreTypeOK
  <2>. QED
    BY <2>1, <2>2
<1>4. ASSUME NEW type \in MovementTypes
      PROVE  [movements EXCEPT ![type][r] = @ + q] \in [MovementTypes -> [Rows -> Nat]]
  BY <1>1 DEF TypeInv, Typed, StoreTypeOK
<1>6. movements' \in [MovementTypes -> [Rows -> Nat]]
  BY <1>4 DEF Reserve, Release, MovementTypes
<1>7. StoreTypeOK'
  BY <1>3, <1>6, StoreAssumption DEF TypeInv, Typed, StoreTypeOK, Reserve, Release
<1>5. UNCHANGED pc
  BY DEF Reserve, Release
<1>. QED
  BY <1>5, <1>7 DEF TypeInv, Typed, OrdersTypeOK, WarehousesTypeOK, LocalsOK,
       orderVars, warehouseVars

\* So do the steps of orders,
LEMMA TypeStepOrders ==
  ASSUME TypeInv, OrdersNext, UNCHANGED warehouseVars
  PROVE  TypeInv'
<1>0. StoreOK
  BY DEF TypeInv, Typed, StoreOK
<1>a. WarehousesTypeOK'
  BY DEF TypeInv, Typed, WarehousesTypeOK, warehouseVars
<1>b. (StoreOK /\ OrdersOK)' => TypeInv'
  BY DEF StoreOK, OrdersOK, TypeInv, Typed
<1>c. ASSUME UNCHANGED orders
      PROVE  /\ orders' \in Seq(PlacedOrders)
             /\ DOMAIN orders \subseteq DOMAIN orders'
  BY <1>c DEF TypeInv, Typed, OrdersTypeOK
<1>d. ASSUME NEW k \in Keys, NEW cart \in Carts
      PROVE  answers \cup {Answer(k, cart)} \subseteq Answers
  <2>1. Same(k, cart) \subseteq Nat
    BY DEF Same, WithKey, TypeInv, Typed, OrdersTypeOK
  <2>2. Answer(k, cart) \in Answers
    BY <2>1 DEF Answer, Answers
  <2>. QED
    BY <2>2 DEF TypeInv, Typed, OrdersTypeOK
<1>1. ASSUME NEW k \in Keys, NEW cart \in Carts, ReplayOrder(k, cart)
      PROVE  TypeInv'
  <2>1. StoreOK'
    BY <1>0, <1>1, StoreAssumption DEF ReplayOrder, StoreOK, StoreTypeOK
  <2>2. OrdersTypeOK'
    BY <1>1, <1>d DEF ReplayOrder, TypeInv, Typed, OrdersTypeOK
  <2>3. LocalsOK'
    BY <1>1 DEF ReplayOrder, TypeInv, LocalsOK, warehouseVars
  <2>. QED
    BY <2>1, <2>2, <2>3, <1>a, <1>b DEF OrdersOK
<1>2. ASSUME NEW w \in Workers, NEW k \in Keys, NEW cart \in Carts, CreateOrder(w, k, cart)
      PROVE  TypeInv'
  <2>1. StoreOK'
    BY <1>0, <1>2, AcceptType DEF CreateOrder, OrderSteps
  <2>2. cart \in Seq(Items)
    BY OrdersAssumption
  <2>a. ASSUME NEW x \in Jobs
        PROVE  [x EXCEPT !.key = k, !.cart = cart, !.todo = cart] \in Jobs
    BY <2>2 DEF Jobs
  <2>b. job' = [job EXCEPT ![w] = [@ EXCEPT !.key = k, !.cart = cart, !.todo = cart]]
    BY <1>2 DEF CreateOrder, TypeInv, Typed, OrdersTypeOK
  <2>3. OrdersTypeOK'
    <3>1. job' \in [Workers -> Jobs]
      BY <2>a, <2>b DEF TypeInv, Typed, OrdersTypeOK
    <3>. QED
      BY <1>2, <3>1 DEF CreateOrder, TypeInv, Typed, OrdersTypeOK
  <2>4. LocalsOK'
    BY <1>2 DEF CreateOrder, Accept, TypeInv, Typed, OrdersTypeOK, StoreTypeOK, LocalsOK,
         warehouseVars, ReceiptSteps
  <2>. QED
    BY <2>1, <2>3, <2>4, <1>a, <1>b DEF OrdersOK
<1>3. ASSUME NEW w \in Workers, NEW o \in DOMAIN orders, CancelOrder(w, o)
      PROVE  TypeInv'
  <2>1. StoreOK'
    BY <1>0, <1>3, AcceptType DEF CancelOrder, OrderSteps
  <2>2. o \in Nat
    BY DEF TypeInv, Typed, OrdersTypeOK
  <2>3. OrdersTypeOK'
    BY <1>3, <2>2 DEF CancelOrder, TypeInv, Typed, OrdersTypeOK, Jobs
  <2>4. LocalsOK'
    BY <1>3 DEF CancelOrder, Accept, TypeInv, Typed, OrdersTypeOK, StoreTypeOK, LocalsOK,
         warehouseVars, ReceiptSteps
  <2>. QED
    BY <2>1, <2>3, <2>4, <1>a, <1>b DEF OrdersOK
<1>4. ASSUME NEW w \in Workers, InsertOrder(w)
      PROVE  TypeInv'
  <2>1. StoreOK'
    BY <1>0, <1>4 DEF InsertOrder, StoreOK, StoreTypeOK, OrderSteps
  <2>2. OrdersTypeOK'
    BY <1>4 DEF InsertOrder, TypeInv, Typed, OrdersTypeOK, orderVars
  <2>3. LocalsOK'
    BY <1>4 DEF InsertOrder, TypeInv, Typed, LocalsOK, orderVars, warehouseVars, ReceiptSteps
  <2>. QED
    BY <2>1, <2>2, <2>3, <1>a, <1>b DEF OrdersOK
<1>5. ASSUME NEW w \in Workers, DuplicateOrder(w)
      PROVE  TypeInv'
  <2>1. StoreOK'
    BY <1>0, <1>5, RollbackType DEF DuplicateOrder
  <2>2. job[w].key \in Keys /\ job[w].cart \in Carts
    BY <1>5 DEF DuplicateOrder, TypeInv, LocalsOK
  <2>3. answers' \subseteq Answers
    BY <1>5, <1>d, <2>2 DEF DuplicateOrder
  <2>4. OrdersOK'
    BY <1>5, <1>c, <2>3, EndOrderType DEF DuplicateOrder, Rollback
  <2>. QED
    BY <2>1, <2>4, <1>b
<1>6. ASSUME NEW w \in Workers, NextItem(w)
      PROVE  TypeInv'
  <2>1. StoreOK'
    BY <1>0, <1>6 DEF NextItem, StoreOK, StoreTypeOK, Allocated
  <2>2. job[w].todo \in Seq(Items) /\ job[w].todo # <<>>
    BY <1>6 DEF NextItem, TypeInv, Typed, OrdersTypeOK, Jobs
  <2>3. /\ Head(job[w].todo) \in Items
        /\ Tail(job[w].todo) \in Seq(Items)
    BY <2>2
  <2>4. PICK s \in SetToSeqs(Candidates(w, Head(job[w].todo).product)) :
            job' = [job EXCEPT ![w].queue = s,
                               ![w].remaining = Head(job[w].todo).quantity,
                               ![w].todo = Tail(@)]
    BY <1>6 DEF NextItem
  <2>5. Candidates(w, Head(job[w].todo).product) \in SUBSET Rows
    BY DEF Candidates
  <2>6. s \in Seq(Rows)
    BY <2>5, QueueType
  <2>a. job \in [Workers -> Jobs]
    BY DEF TypeInv, Typed, OrdersTypeOK
  <2>7. job' \in [Workers -> Jobs]
    BY <2>3, <2>4, <2>6, <2>a DEF Items, Jobs
  <2>8. OrdersTypeOK'
    BY <1>6, <2>7 DEF NextItem, TypeInv, Typed, OrdersTypeOK, Jobs
  <2>9. LocalsOK'
    BY <1>6, <2>4 DEF NextItem, TypeInv, Typed, OrdersTypeOK, LocalsOK, warehouseVars, ReceiptSteps
  <2>. QED
    BY <2>1, <2>8, <2>9, <1>a, <1>b DEF OrdersOK
<1>7. ASSUME NEW w \in Workers, AllocateFrom(w)
      PROVE  TypeInv'
  <2>. DEFINE r == Head(job[w].queue)
              take == Least(job[w].remaining, Loaded(w, r).available)
  <2>1. /\ r \in Rows
        /\ Tail(job[w].queue) \in Seq(Rows)
        /\ job[w].remaining \in Nat
        /\ job[w].made \in Seq(Allocations)
    BY <1>7 DEF AllocateFrom, TypeInv, Typed, OrdersTypeOK, Jobs
  <2>2. Loaded(w, r) \in Quantities
    BY <1>0, <2>1, LoadedType
  <2>3. take \in Nat /\ take <= job[w].remaining /\ take <= Loaded(w, r).available
    BY <2>1, <2>2 DEF Least, Quantities
  <2>4. Take(Loaded(w, r), take) \in Quantities
    BY <2>2, <2>3, TakeType
  <2>5. /\ LockAndChange(w, r, Take(Loaded(w, r), take), take)
        /\ job' = [job EXCEPT ![w].queue = Tail(@),
                               ![w].remaining = job[w].remaining - take,
                               ![w].made = Made(w, r, take)]
        /\ UNCHANGED <<inventory, movements, whLock, whShare, pc, requests, orders, answers>>
    BY <1>7 DEF AllocateFrom
  <2>6. StoreOK'
    BY <1>0, <2>1, <2>3, <2>4, <2>5, LockAndChangeType
  <2>7. job' \in [Workers -> Jobs]
    <3>1. job[w].remaining - take \in Nat
      BY <2>1, <2>3
    <3>a. job[w] \in Jobs
      BY DEF TypeInv, Typed, OrdersTypeOK
    <3>b. Carts \subseteq Seq(Items) /\ <<>> \in Seq(Items)
      BY OrdersAssumption
    <3>c. Carts \cup {<<>>} \subseteq Seq(Items)
      BY <3>b
    <3>2. job[w].todo \in Seq(Items) /\ job[w].cart \in Seq(Items)
      BY <3>a, <3>c DEF Jobs
    <3>3. Len(job[w].todo) <= Len(job[w].cart)
      BY <1>7 DEF AllocateFrom, TypeInv, LocalsOK
    <3>4. ItemNumber(w) \in Nat
      BY <3>2, <3>3 DEF ItemNumber
    <3>. HIDE DEF take, r
    <3>5. Made(w, r, take) \in Seq(Allocations)
      <4>1. CASE take = 0
        BY <2>1, <4>1 DEF Made
      <4>2. CASE take # 0
        <5>1. [item |-> ItemNumber(w), row |-> r, quantity |-> take] \in Allocations
          BY <2>1, <2>3, <3>4, <4>2 DEF Allocations
        <5>. QED
          BY <2>1, <4>2, <5>1 DEF Made
      <4>. QED
        BY <4>1, <4>2
    <3>6. ASSUME NEW x \in Jobs, NEW q \in Seq(Rows), NEW m \in Nat,
                 NEW s \in Seq(Allocations)
          PROVE  [x EXCEPT !.queue = q, !.remaining = m, !.made = s] \in Jobs
      BY DEF Jobs
    <3>7. job' = [job EXCEPT ![w] = [job[w] EXCEPT !.queue = Tail(job[w].queue),
                                              !.remaining = job[w].remaining - take,
                                              !.made = Made(w, r, take)]]
      BY <2>5, <3>a DEF TypeInv, Typed, OrdersTypeOK, Jobs
    <3>. QED
      BY <2>1, <3>a, <3>1, <3>5, <3>6, <3>7 DEF TypeInv, Typed, OrdersTypeOK
  <2>8. OrdersTypeOK'
    BY <2>5, <2>7 DEF TypeInv, Typed, OrdersTypeOK, Jobs
  <2>9. LocalsOK'
    BY <2>5 DEF TypeInv, Typed, OrdersTypeOK, LocalsOK, warehouseVars, ReceiptSteps
  <2>. QED
    BY <2>6, <2>8, <2>9, <1>a, <1>b DEF OrdersOK
<1>8. ASSUME NEW w \in Workers, RejectOrder(w) \/ RejectCancel(w) \/ AbortOrder(w)
      PROVE  TypeInv'
  <2>1. Rollback(w) /\ EndJob(w) /\ UNCHANGED <<orders, answers>>
    BY <1>8 DEF RejectOrder, RejectCancel, AbortOrder
  <2>2. StoreOK'
    BY <1>0, <2>1, RollbackType
  <2>3. answers' \subseteq Answers
    BY <2>1 DEF TypeInv, Typed, OrdersTypeOK
  <2>4. OrdersOK'
    BY <2>1, <2>3, <1>c, EndOrderType DEF Rollback
  <2>. QED
    BY <2>2, <2>4, <1>b
<1>9. ASSUME NEW w \in Workers, CommitOrder(w)
      PROVE  TypeInv'
  <2>1. StoreOK'
    BY <1>0, <1>9, CommitType DEF CommitOrder, MovementTypes
  <2>2. job[w].key \in Keys /\ job[w].cart \in Carts
    BY <1>9 DEF CommitOrder, TypeInv, LocalsOK
  <2>3. job[w].made \in Seq(Allocations)
    BY DEF TypeInv, Typed, OrdersTypeOK, Jobs
  <2>4. /\ orders' \in Seq(PlacedOrders)
        /\ DOMAIN orders \subseteq DOMAIN orders'
    BY <1>9, <2>2, <2>3 DEF CommitOrder, TypeInv, Typed, OrdersTypeOK, PlacedOrders, OrderStatus
  <2>5. answers' \subseteq Answers
    BY <1>9, <2>2 DEF CommitOrder, TypeInv, Typed, OrdersTypeOK, Answers
  <2>6. OrdersOK'
    BY <1>9, <2>4, <2>5, EndOrderType DEF CommitOrder, Commit
  <2>. QED
    BY <2>1, <2>6, <1>b
<1>10. ASSUME NEW w \in Workers, ReadAllocations(w)
       PROVE  TypeInv'
  <2>1. StoreOK'
    BY <1>0, <1>10 DEF ReadAllocations, StoreOK, StoreTypeOK, OrderSteps
  <2>. DEFINE found == Unreleased(job[w].target)
  <2>2. PICK s \in SetToSeqs(DOMAIN found) :
            job' = [job EXCEPT ![w].releasing = [n \in DOMAIN s |-> found[s[n]]]]
    BY <1>10 DEF ReadAllocations
  <2>3. [n \in DOMAIN s |-> found[s[n]]] \in Seq(Allocations)
    <3>1. orders[job[w].target] \in PlacedOrders
      BY <1>10 DEF ReadAllocations, TypeInv, Typed, OrdersTypeOK, LocalsOK
    <3>2. found \in Seq(Allocations)
      BY <3>1 DEF Unreleased, PlacedOrders
    <3>. QED
      BY <3>2, ReorderType
  <2>. HIDE DEF found
  <2>4. OrdersTypeOK'
    <3>1. orders' = orders /\ answers' = answers
      BY <1>10 DEF ReadAllocations
    <3>2. orders \in Seq(PlacedOrders) /\ job \in [Workers -> Jobs] /\ answers \subseteq Answers
      BY DEF TypeInv, Typed, OrdersTypeOK
    <3>3. [job[w] EXCEPT !.releasing = [n \in DOMAIN s |-> found[s[n]]]] \in Jobs
      <4>1. ASSUME NEW j \in Jobs, NEW l \in Seq(Allocations)
            PROVE  [j EXCEPT !.releasing = l] \in Jobs
        BY DEF Jobs
      <4>. QED
        BY <2>3, <3>2, <4>1
    <3>4. job' \in [Workers -> Jobs]
      BY <2>2, <3>2, <3>3
    <3>. QED
      BY <3>1, <3>2, <3>4 DEF OrdersTypeOK
  <2>5. LocalsOK'
    <3>1. /\ pc[w] = "cancel" /\ pc' = [pc EXCEPT ![w] = "release"]
          /\ orders' = orders /\ receipt' = receipt
      BY <1>10 DEF ReadAllocations, warehouseVars
    <3>2. job \in [Workers -> Jobs] /\ pc = [v \in Workers |-> pc[v]]
      BY DEF TypeInv, Typed, OrdersTypeOK
    <3>3. ASSUME NEW v \in Workers, v # w
          PROVE  pc'[v] = pc[v] /\ job'[v] = job[v]
      BY <2>2, <3>1, <3>2, <3>3
    <3>4. pc'[w] = "release" /\ job'[w].target = job[w].target
      BY <2>2, <3>1, <3>2 DEF Jobs
    <3>5. job[w].target \in DOMAIN orders
      BY <3>1 DEF TypeInv, LocalsOK
    <3>. QED
      BY <3>1, <3>3, <3>4, <3>5 DEF TypeInv, LocalsOK, ReceiptSteps
  <2>. QED
    BY <2>1, <2>4, <2>5, <1>a, <1>b DEF OrdersOK
<1>11. ASSUME NEW w \in Workers, ReleaseStock(w)
       PROVE  TypeInv'
  <2>. DEFINE r == Head(job[w].releasing).row
              n == Head(job[w].releasing).quantity
  <2>1. /\ Head(job[w].releasing) \in Allocations
        /\ Tail(job[w].releasing) \in Seq(Allocations)
    BY <1>11 DEF ReleaseStock, TypeInv, Typed, OrdersTypeOK, Jobs
  <2>2. r \in Rows /\ n \in Nat
    BY <2>1 DEF Allocations
  <2>3. Loaded(w, r) \in Quantities
    BY <1>0, <2>2, LoadedType
  <2>4. /\ Loaded(w, r).reserved >= n
        /\ LockAndChange(w, r, GiveBack(Loaded(w, r), n), n)
        /\ job' = [job EXCEPT ![w].releasing = Tail(@)]
        /\ UNCHANGED <<inventory, movements, whLock, whShare, pc, requests, orders, answers>>
    BY <1>11 DEF ReleaseStock
  <2>5. GiveBack(Loaded(w, r), n) \in Quantities
    BY <2>2, <2>3, <2>4, GiveBackType
  <2>6. StoreOK'
    BY <1>0, <2>1, <2>2, <2>4, <2>5, LockAndChangeType
  <2>7. OrdersTypeOK'
    BY <2>1, <2>4 DEF TypeInv, Typed, OrdersTypeOK, Jobs
  <2>8. LocalsOK'
    BY <2>4 DEF TypeInv, Typed, OrdersTypeOK, LocalsOK, warehouseVars, ReceiptSteps
  <2>. QED
    BY <2>6, <2>7, <2>8, <1>a, <1>b DEF OrdersOK
<1>12. ASSUME NEW w \in Workers, CommitCancel(w)
       PROVE  TypeInv'
  <2>1. StoreOK'
    BY <1>0, <1>12, CommitType DEF CommitCancel, MovementTypes
  <2>2. job[w].target \in DOMAIN orders
    BY <1>12 DEF CommitCancel, TypeInv, LocalsOK
  <2>3. /\ orders' \in Seq(PlacedOrders)
        /\ DOMAIN orders \subseteq DOMAIN orders'
    <3>1. orders \in Seq(PlacedOrders) /\ orders[job[w].target] \in PlacedOrders
      BY <2>2 DEF TypeInv, Typed, OrdersTypeOK
    <3>2. [orders[job[w].target] EXCEPT !.status = "CANCELLED", !.released = TRUE]
            \in PlacedOrders
      BY <3>1 DEF PlacedOrders, OrderStatus
    <3>. QED
      BY <1>12, <2>2, <3>1, <3>2, ExceptSeq DEF CommitCancel
  <2>4. answers' \subseteq Answers
    BY <1>12 DEF CommitCancel, TypeInv, Typed, OrdersTypeOK
  <2>5. OrdersOK'
    BY <1>12, <2>3, <2>4, EndOrderType DEF CommitCancel, Commit
  <2>. QED
    BY <2>1, <2>5, <1>b
<1>. QED
  BY <1>1, <1>2, <1>3, <1>4, <1>5, <1>6, <1>7, <1>8, <1>9, <1>10, <1>11, <1>12
  DEF OrdersNext, Send, OrderStep

\* and those of receipts.
LEMMA TypeStepWarehouses ==
  ASSUME TypeInv, WarehousesNext, UNCHANGED orderVars
  PROVE  TypeInv'
<1>0. StoreOK
  BY DEF TypeInv, Typed, StoreOK
<1>a. (StoreOK /\ OrdersOK)' => TypeInv'
  BY DEF StoreOK, OrdersOK, TypeInv, Typed
<1>1. ASSUME NEW w \in Workers, NEW r \in Rows, NEW n \in Deliveries, GetWarehouse(w, r, n)
      PROVE  TypeInv'
  <2>1. StoreOK'
    BY <1>0, <1>1, AcceptType DEF GetWarehouse, ReceiptSteps
  <2>2. [at |-> r, quantity |-> n, seen |-> used[r[2]]] \in Receipts
    BY DEF Receipts, Rows, TypeInv, Typed, WarehousesTypeOK
  <2>3. OrdersTypeOK' /\ WarehousesTypeOK'
    BY <1>1, <2>2 DEF GetWarehouse, TypeInv, Typed, OrdersTypeOK, WarehousesTypeOK,
         Receipts, orderVars
  <2>4. LocalsOK'
    BY <1>1, <2>2 DEF GetWarehouse, Accept, TypeInv, Typed, WarehousesTypeOK, StoreTypeOK,
         LocalsOK, orderVars, ReceiptSteps
  <2>. QED
    BY <2>1, <2>3, <2>4, <1>a DEF OrdersOK
<1>2. ASSUME NEW w \in Workers, LockWarehouse(w)
      PROVE  TypeInv'
  <2>1. receipt[w] \in Receipts
    BY <1>2 DEF LockWarehouse, TypeInv, LocalsOK, ReceiptSteps
  <2>2. /\ receipt[w].at \in Rows
        /\ Site(w) \in Warehouses
        /\ receipt[w].quantity \in Nat
    BY <2>1, WarehousesAssumption DEF Receipts, Site, Rows
  <2>3. Add(inventory[receipt[w].at], receipt[w].quantity) \in Quantities
    BY <2>2, AddType DEF TypeInv, Typed, StoreTypeOK
  <2>4. StoreOK'
    BY <1>0, <1>2, <2>2, <2>3 DEF LockWarehouse, StoreOK, StoreTypeOK, ReceiptSteps
  <2>5. OrdersTypeOK' /\ WarehousesTypeOK'
    BY <1>2 DEF LockWarehouse, TypeInv, Typed, OrdersTypeOK, WarehousesTypeOK,
         orderVars, warehouseVars
  <2>6. LocalsOK'
    BY <1>2 DEF LockWarehouse, TypeInv, Typed, StoreTypeOK, LocalsOK, orderVars,
         warehouseVars, ReceiptSteps
  <2>. QED
    BY <2>4, <2>5, <2>6, <1>a DEF OrdersOK
<1>3. ASSUME NEW w \in Workers, RefuseReceipt(w) \/ FailReceipt(w) \/ AbortReceipt(w)
      PROVE  TypeInv'
  <2>1. Rollback(w) /\ EndReceipt(w) /\ UNCHANGED used
    BY <1>3 DEF RefuseReceipt, FailReceipt, AbortReceipt
  <2>2. StoreOK'
    BY <1>0, <2>1, RollbackType
  <2>3. OrdersOK'
    BY <2>1, EndReceiptType DEF Rollback, TypeInv, Typed, WarehousesTypeOK
  <2>. QED
    BY <2>2, <2>3, <1>a
<1>4. ASSUME NEW w \in Workers, CommitReceipt(w)
      PROVE  TypeInv'
  <2>1. StoreOK'
    BY <1>0, <1>4, CommitType DEF CommitReceipt, MovementTypes
  <2>2. receipt[w] \in Receipts
    BY <1>4 DEF CommitReceipt, AtRow, TypeInv, LocalsOK, ReceiptSteps
  <2>3. receipt[w].seen + receipt[w].quantity \in Nat
    <3>1. receipt[w].seen \in Nat /\ receipt[w].quantity \in Nat
      BY <2>2, WarehousesAssumption DEF Receipts
    <3>. QED
      BY <3>1
  <2>4. used' \in [Warehouses -> Nat]
    BY <1>4, <2>3 DEF CommitReceipt, TypeInv, Typed, WarehousesTypeOK
  <2>5. OrdersOK'
    BY <1>4, <2>4, EndReceiptType DEF CommitReceipt, Commit
  <2>. QED
    BY <2>1, <2>5, <1>a
<1>. QED
  BY <1>1, <1>2, <1>3, <1>4 DEF WarehousesNext, Deliver, ReceiptStep

\* A step that changes nothing keeps them.
LEMMA TypeStutter ==
  ASSUME TypeInv, UNCHANGED vars
  PROVE  TypeInv'
  BY DEF TypeInv, Typed, StoreTypeOK, OrdersTypeOK, WarehousesTypeOK, LocalsOK,
     vars, storeVars, orderVars, warehouseVars

\* Every step keeps the types.
LEMMA TypeStep ==
  ASSUME TypeInv, [Next]_vars
  PROVE  TypeInv'
  BY TypeStepInventory, TypeStepOrders, TypeStepWarehouses, TypeStutter
  DEF Next, InventoryNext

\* The types hold always.
LEMMA TypeInvariant == Spec => []TypeInv
<1>1. TypeInv /\ [Next]_vars => TypeInv'
  BY TypeStep
<1>. QED
  BY TypeInit, <1>1, PTL DEF Spec

\* A handler takes its session from one of these steps to another.
StepsWithin(w, steps) ==
    /\ pc[w] \in {"idle"} \cup steps
    /\ pc' = [pc EXCEPT ![w] = pc'[w]]
    /\ pc'[w] \in {"idle"} \cup steps

\* The handlers of orders do,
LEMMA OrderStepsTaken ==
  ASSUME pc = [v \in Workers |-> pc[v]], NEW w \in Workers,
         Send(w) \/ OrderStep(w) \/ AbortOrder(w)
  PROVE  StepsWithin(w, OrderSteps)
<1>1. CASE \/ DuplicateOrder(w) \/ RejectOrder(w) \/ CommitOrder(w)
           \/ RejectCancel(w) \/ CommitCancel(w) \/ AbortOrder(w)
  <2>1. EndSession(w) /\ pc[w] \in OrderSteps
    BY <1>1 DEF DuplicateOrder, RejectOrder, CommitOrder, RejectCancel, CommitCancel,
                AbortOrder, Commit, Rollback, OrderSteps
  <2>. QED
    BY <2>1 DEF StepsWithin, EndSession
<1>2. CASE \/ InsertOrder(w) \/ NextItem(w) \/ AllocateFrom(w) \/ ReadAllocations(w)
           \/ ReleaseStock(w)
  BY <1>2 DEF InsertOrder, NextItem, AllocateFrom, ReadAllocations, ReleaseStock, StepsWithin, OrderSteps
<1>3. CASE Send(w)
  BY <1>3 DEF Send, CreateOrder, CancelOrder, Accept, StepsWithin, OrderSteps
<1>. QED
  BY <1>1, <1>2, <1>3 DEF OrderStep

\* and so do those of receipts.
LEMMA ReceiptStepsTaken ==
  ASSUME pc = [v \in Workers |-> pc[v]], NEW w \in Workers,
         Deliver(w) \/ ReceiptStep(w) \/ AbortReceipt(w)
  PROVE  StepsWithin(w, ReceiptSteps)
<1>1. CASE \/ RefuseReceipt(w) \/ CommitReceipt(w) \/ FailReceipt(w) \/ AbortReceipt(w)
  <2>1. EndSession(w) /\ pc[w] \in ReceiptSteps
    BY <1>1 DEF RefuseReceipt, CommitReceipt, FailReceipt, AbortReceipt, AtRow, Commit,
                Rollback, ReceiptSteps
  <2>. QED
    BY <2>1 DEF StepsWithin, EndSession
<1>2. CASE Deliver(w) \/ LockWarehouse(w)
  BY <1>2 DEF Deliver, GetWarehouse, LockWarehouse, Accept, StepsWithin, ReceiptSteps
<1>. QED
  BY <1>1, <1>2 DEF ReceiptStep

\* Sessions are at a step of their handler.
PcOK == pc \in [Workers -> {"idle"} \cup OrderSteps \cup ReceiptSteps]

\* Every variable keeps its type, however the operations interleave.
THEOREM TypeCorrect == Spec => []TypeOK
<1>1. Init => PcOK
  BY DEF Init, StoreInit, Opening, PcOK
<1>2. PcOK /\ [Next]_vars => PcOK'
  <2>. SUFFICES ASSUME PcOK, [Next]_vars PROVE PcOK'
    OBVIOUS
  <2>1. CASE InventoryNext \/ UNCHANGED vars
    BY <2>1 DEF InventoryNext, Reserve, Release, vars, storeVars, PcOK
  <2>2. CASE OrdersNext
    BY <2>2, OrderStepsTaken DEF OrdersNext, ReplayOrder, PcOK, StepsWithin
  <2>3. CASE WarehousesNext
    BY <2>3, ReceiptStepsTaken DEF WarehousesNext, PcOK, StepsWithin
  <2>. QED
    BY <2>1, <2>2, <2>3 DEF Next
<1>3. TypeInv /\ PcOK => TypeOK
  BY DEF TypeInv, Typed, TypeOK, PcOK
<1>. QED
  BY <1>1, <1>2, <1>3, TypeInvariant, PTL DEF Spec
=============================================================================
