------------------------------ MODULE OMSProofs ------------------------------
(***************************************************************************)
(* What holds of the whole system: how returns, receipts, orders and what  *)
(* operators do fit together in the rows of stock and in the orders.       *)
(***************************************************************************)
EXTENDS OMS, OrderProofs

-----------------------------------------------------------------------------
(***************************************************************************)
(* Types.                                                                  *)
(***************************************************************************)

\* Sessions are at a step of their handler.
AtStep == pc \in [Workers -> {"idle"} \cup OrderSteps \cup ReceiptSteps \cup ReturnSteps]

\* Fulfillment and shipments have the types of OMSTypeOK.
LifeTypeOK ==
    /\ fulfillment \in [DOMAIN orders -> LC!FulfillmentStatus]
    /\ packages \in [DOMAIN orders -> Nat]
    /\ shipments \in Seq([order : DOMAIN orders, status : LC!ShipmentStatus])
    /\ task \in [Workers -> LC!Tasks]

\* A session has an order exactly while it is at work, and an order that was
\* placed; its shipment is one of its order, and it moves it forward.
TaskOK(w) ==
    /\ task[w].order = 0 <=> task[w].step = "idle"
    /\ task[w].order \in {0} \cup DOMAIN orders
    /\ task[w].step \in {"fulfill", "save_fulfillment"} => task[w].target \in LC!Targets
    /\ task[w].step \in {"advance", "save_shipment"} =>
          /\ task[w].target \in LC!ShipmentStatus \ {"READY_TO_SHIP"}
          /\ task[w].shipment \in DOMAIN shipments
          /\ shipments[task[w].shipment].order = task[w].order

\* The handlers of returns have the order or the return they work on.
ReturningOK(w) ==
    /\ pc[w] \notin ReturnSteps => returning[w] = NoReturn
    /\ pc[w] \in {"query", "lock"} =>
          returning[w].order \in DOMAIN orders /\ returning[w].lines \in ReturnRequests
    /\ pc[w] = "lock" => returning[w].todo # <<>>
    /\ pc[w] \in {"restock", "refund"} =>
          /\ returning[w].id \in DOMAIN returns
          /\ returning[w].order = returns[returning[w].id].order

\* Returns are of orders that were placed.
ReturnsPlaced == \A k \in DOMAIN returns : returns[k].order \in DOMAIN orders

\* Each order that was placed, or is being placed, was asked for.
Creating == {w \in Workers : pc[w] \in {"insert", "allocate"}}
OrdersCounted ==
    /\ IsFiniteSet(Creating)
    /\ Len(orders) + Cardinality(Creating) <= Len(Delivered) + requests

LocalsTyped == \A w \in Workers : TaskOK(w) /\ ReturningOK(w)

OMSTypeInv ==
    /\ TypeInv /\ AtStep /\ ReturnsTypeOK /\ LifeTypeOK
    /\ LocalsTyped /\ ReturnsPlaced /\ OrdersCounted

\* TypeInv and its parts give the types of OMS.
LEMMA OMSTypes == OMSTypeInv => OMSTypeOK
  BY DEF OMSTypeInv, TypeInv, Typed, AtStep, LifeTypeOK, OMSTypeOK

\* Nothing is done about an order that is not known.
LEMMA OrdersKnown ==
  ASSUME OMSTypeInv
  PROVE  DOMAIN orders \subseteq OrderIds
<1>1. /\ orders \in Seq(PlacedOrders) /\ requests \in 0..MaxRequests
      /\ Len(Delivered) \in Nat
  BY OMSAssumption DEF OMSTypeInv, TypeInv, Typed, OrdersTypeOK, StoreTypeOK
<1>2. Cardinality(Creating) \in Nat
  BY FS_CardinalityType DEF OMSTypeInv, OrdersCounted
<1>3. Len(orders) <= Len(Delivered) + MaxRequests
  BY <1>1, <1>2, StoreAssumption DEF OMSTypeInv, OrdersCounted
<1>. QED
  BY <1>1, <1>3, StoreAssumption DEF OrderIds

\* The orders that were delivered before are orders that were placed.
LEMMA DeliveredFacts ==
  /\ Delivered \in Seq(PlacedOrders)
  /\ \A o \in DOMAIN Delivered : /\ Delivered[o].status = "DELIVERED"
                                /\ ~ Delivered[o].released
<1>. DEFINE S == {o \in PlacedOrders : o.status = "DELIVERED" /\ ~ o.released}
<1>1. Delivered \in Seq(S)
  BY OMSAssumption
<1>2. S \subseteq PlacedOrders
  OBVIOUS
<1>3. \A o \in DOMAIN Delivered : Delivered[o] \in S
  BY <1>1
<1>4. Delivered \in Seq(PlacedOrders)
  <2>. HIDE DEF S
  <2>. QED
    BY <1>1, <1>2
<1>. QED
  BY <1>3, <1>4

\* What the orders that were delivered before hold is what is reserved at first.
LEMMA SoldBacks ==
  ASSUME OMSInit, NEW r \in Rows
  PROVE  /\ Sold[r] = Backing(r) /\ Sold[r] \in Nat
         /\ Sold[r] <= InitialStock[r] /\ InitialStock[r] \in Nat
<1>1. orders = Delivered /\ orders \in Seq(PlacedOrders)
  BY DeliveredFacts DEF OMSInit
<1>2. Open = DOMAIN orders
  BY <1>1, DeliveredFacts DEF Open
<1>3. Sold[r] = SumFunctionOnSet([o \in DOMAIN orders |->
                                     SumOf(orders[o].allocations,
                                           {n \in DOMAIN orders[o].allocations :
                                               orders[o].allocations[n].row = r})],
                                 DOMAIN orders)
  BY <1>1 DEF Sold
<1>4. Sold[r] = Backing(r)
  BY <1>2, <1>3 DEF Backing, Held
<1>. QED
  BY <1>1, <1>4, BackingType, OMSAssumption, StoreAssumption

\* The types hold at first.
LEMMA OMSTypeInit == OMSInit => OMSTypeInv
<1>. SUFFICES ASSUME OMSInit PROVE OMSTypeInv
  OBVIOUS
<1>0. \A r \in Rows : /\ Sold[r] \in Nat /\ InitialStock[r] \in Nat
                      /\ InitialStock[r] - Sold[r] \in Nat
  BY SoldBacks
<1>1. StoreTypeOK
  <2>1. Sold \in [Rows -> Nat]
    BY <1>0 DEF Sold
  <2>2. movements \in [MovementTypes -> [Rows -> Nat]]
    BY <2>1, StoreAssumption DEF OMSInit, Opening, MovementTypes, Nothing
  <2>3. inventory \in [Rows -> Quantities]
    BY <1>0 DEF OMSInit, Opening, Quantities
  <2>. QED
    BY <2>2, <2>3, StoreAssumption DEF OMSInit, Opening, StoreTypeOK, Quantities, Nothing, NoImage
<1>2. /\ orders \in Seq(PlacedOrders)
      /\ orders = Delivered
      /\ \A o \in DOMAIN orders : orders[o].status = "DELIVERED" /\ ~ orders[o].released
  BY DeliveredFacts DEF OMSInit
<1>3. OrdersTypeOK /\ WarehousesTypeOK
  BY <1>2, NoJobType, WarehousesAssumption
  DEF OMSInit, OrdersTypeOK, WarehousesInit, WarehousesTypeOK
<1>4. pc = [w \in Workers |-> "idle"] /\ requests = 0
  BY DEF OMSInit, Opening
<1>5. TypeInv /\ AtStep
  BY <1>1, <1>3, <1>4 DEF TypeInv, Typed, LocalsOK, AtStep, ReceiptSteps
<1>6. ReturnsTypeOK
  BY DEF OMSInit, ReturnsInit, ReturnsTypeOK, NoReturn
<1>7. LC!Idle \in LC!Tasks /\ LC!Idle.order = 0 /\ LC!Idle.step = "idle"
  BY DEF LC!Idle, LC!Tasks, LC!Steps, LC!OrderStatus
<1>8. LifeTypeOK
  <2>1. \A o \in DOMAIN orders : [order |-> o, status |-> "DELIVERED"]
                                   \in [order : DOMAIN orders, status : LC!ShipmentStatus]
    BY DEF LC!ShipmentStatus
  <2>2. shipments \in Seq([order : DOMAIN orders, status : LC!ShipmentStatus])
    <3>. DEFINE S == [order : DOMAIN orders, status : LC!ShipmentStatus]
    <3>1. /\ shipments = [o \in 1..Len(orders) |-> [order |-> o, status |-> "DELIVERED"]]
          /\ Len(orders) \in Nat /\ DOMAIN orders = 1..Len(orders)
      BY <1>2 DEF OMSInit
    <3>2. \A o \in 1..Len(orders) : [order |-> o, status |-> "DELIVERED"] \in S
      BY <2>1, <3>1
    <3>. HIDE DEF S
    <3>3. shipments \in Seq(S)
      BY <3>1, <3>2
    <3>. QED
      BY <3>3 DEF S
  <2>3. fulfillment \in [DOMAIN orders -> LC!FulfillmentStatus]
    BY <1>2 DEF OMSInit, LC!FulfillmentStatus, LC!FULFILLMENT_TRANSITIONS
  <2>. QED
    BY <1>2, <1>7, <2>2, <2>3 DEF OMSInit, LifeTypeOK
<1>9. LocalsTyped /\ ReturnsPlaced
  BY <1>4, <1>7 DEF OMSInit, ReturnsInit, LocalsTyped, TaskOK, ReturningOK, ReturnsPlaced, ReturnSteps
<1>10. OrdersCounted
  <2>1. Creating = {}
    BY <1>4 DEF Creating
  <2>. QED
    BY <1>2, <1>4, <2>1, FS_EmptySet DEF OrdersCounted
<1>. QED
  BY <1>5, <1>6, <1>8, <1>9, <1>10 DEF OMSTypeInv

\* A sequence of members of a set is one of members of a larger set.
LEMMA SeqWithin ==
  ASSUME NEW S, NEW T, S \subseteq T, NEW s \in Seq(S)
  PROVE  s \in Seq(T)
<1>1. \A n \in DOMAIN s : s[n] \in T
  OBVIOUS
<1>. QED
  BY <1>1

\* A step begins an order, commits one, or does neither.
CountsOrders(w) ==
    \/ Len(orders') = Len(orders) /\ Creating' \subseteq Creating /\ requests' >= requests
    \/ /\ Len(orders') = Len(orders) /\ Creating' = Creating \cup {w}
       /\ requests' = requests + 1
    \/ /\ Len(orders') = Len(orders) + 1 /\ requests' = requests
       /\ w \in Creating /\ Creating' = Creating \ {w}

\* Each keeps the count.
LEMMA CountKept ==
  ASSUME OrdersCounted, TypeInv, TypeInv', NEW w, CountsOrders(w)
  PROVE  OrdersCounted'
<1>1. /\ Len(orders) \in Nat /\ Len(orders') \in Nat
      /\ requests \in Nat /\ requests' \in Nat /\ Len(Delivered) \in Nat
  BY StoreAssumption, OMSAssumption DEF TypeInv, Typed, StoreTypeOK, OrdersTypeOK
<1>2. IsFiniteSet(Creating) /\ Cardinality(Creating) \in Nat
  BY FS_CardinalityType DEF OrdersCounted
<1>3. Len(orders) + Cardinality(Creating) <= Len(Delivered) + requests
  BY DEF OrdersCounted
<1>4. CASE Len(orders') = Len(orders) /\ Creating' \subseteq Creating /\ requests' >= requests
  <2>1. IsFiniteSet(Creating') /\ Cardinality(Creating') <= Cardinality(Creating)
    BY <1>2, <1>4, FS_Subset
  <2>2. Cardinality(Creating') \in Nat
    BY <2>1, FS_CardinalityType
  <2>. QED
    BY <1>1, <1>2, <1>3, <1>4, <2>1, <2>2 DEF OrdersCounted
<1>5. CASE /\ Len(orders') = Len(orders) /\ Creating' = Creating \cup {w}
           /\ requests' = requests + 1
  <2>1. /\ IsFiniteSet(Creating')
        /\ \/ Cardinality(Creating') = Cardinality(Creating)
           \/ Cardinality(Creating') = Cardinality(Creating) + 1
    BY <1>2, <1>5, FS_AddElement
  <2>. QED
    BY <1>1, <1>2, <1>3, <1>5, <2>1 DEF OrdersCounted
<1>6. CASE /\ Len(orders') = Len(orders) + 1 /\ requests' = requests
           /\ w \in Creating /\ Creating' = Creating \ {w}
  <2>1. IsFiniteSet(Creating') /\ Cardinality(Creating') = Cardinality(Creating) - 1
    BY <1>2, <1>6, FS_RemoveElement
  <2>. QED
    BY <1>1, <1>2, <1>3, <1>6, <2>1 DEF OrdersCounted
<1>. QED
  BY <1>4, <1>5, <1>6 DEF CountsOrders

\* Orders are never removed, and a creating request adds at most one.
LEMMA OrdersGrow ==
  ASSUME TypeInv, NEW w \in Workers, Send(w) \/ OrderStep(w) \/ AbortOrder(w)
  PROVE  DOMAIN orders \subseteq DOMAIN orders' /\ CountsOrders(w)
<1>0. /\ pc = [v \in Workers |-> pc[v]] /\ requests \in Nat
      /\ orders \in Seq(PlacedOrders)
  BY StoreAssumption DEF TypeInv, Typed, StoreTypeOK, OrdersTypeOK
<1>1. CASE \/ DuplicateOrder(w) \/ RejectOrder(w) \/ RejectCancel(w) \/ AbortOrder(w)
  <2>1. EndSession(w) /\ UNCHANGED orders
    BY <1>1 DEF DuplicateOrder, RejectOrder, RejectCancel, AbortOrder, Rollback
  <2>. QED
    BY <1>0, <2>1 DEF EndSession, CountsOrders, Creating
<1>2. CASE CommitCancel(w)
  <2>1. EndSession(w) /\ DOMAIN orders' = DOMAIN orders /\ Len(orders') = Len(orders)
    BY <1>0, <1>2 DEF CommitCancel, Commit
  <2>2. Creating' \subseteq Creating /\ requests' >= requests
    BY <1>0, <2>1 DEF EndSession, Creating
  <2>. QED
    BY <2>1, <2>2 DEF CountsOrders
<1>3. CASE CommitOrder(w)
  <2>1. /\ EndSession(w) /\ pc[w] = "allocate"
        /\ Len(orders') = Len(orders) + 1 /\ DOMAIN orders \subseteq DOMAIN orders'
    BY <1>0, <1>3 DEF CommitOrder, Commit
  <2>. QED
    BY <1>0, <2>1 DEF EndSession, CountsOrders, Creating
<1>4. CASE \/ InsertOrder(w) \/ NextItem(w) \/ AllocateFrom(w) \/ ReadAllocations(w)
           \/ ReleaseStock(w)
  <2>1. /\ UNCHANGED <<orders, requests>>
        /\ \/ UNCHANGED pc
           \/ pc[w] = "insert" /\ pc' = [pc EXCEPT ![w] = "allocate"]
           \/ pc[w] = "cancel" /\ pc' = [pc EXCEPT ![w] = "release"]
    BY <1>4 DEF InsertOrder, NextItem, AllocateFrom, ReadAllocations, ReleaseStock, orderVars
  <2>. QED
    BY <1>0, <2>1 DEF CountsOrders, Creating
<1>5. CASE Send(w)
  <2>1. CASE \E o \in DOMAIN orders : CancelOrder(w, o)
    BY <1>0, <2>1 DEF CancelOrder, Accept, CountsOrders, Creating
  <2>2. CASE \E k \in Keys, cart \in Carts : CreateOrder(w, k, cart)
    BY <1>0, <2>2 DEF CreateOrder, Accept, CountsOrders, Creating
  <2>. QED
    BY <1>5, <2>1, <2>2 DEF Send
<1>. QED
  BY <1>1, <1>2, <1>3, <1>4, <1>5 DEF OrderStep

\* Manual operations keep the types.
LEMMA ManualTypes ==
  ASSUME OMSTypeInv, InventoryNext,
         UNCHANGED <<orderVars, warehouseVars, returnVars, lifeVars>>
  PROVE  OMSTypeInv'
<1>1. TypeInv'
  BY TypeStepInventory DEF InventoryNext, OMSTypeInv
<1>2. UNCHANGED pc /\ requests' >= requests
  BY StoreAssumption
  DEF InventoryNext, Reserve, Release, OMSTypeInv, TypeInv, Typed, StoreTypeOK
<1>3. OrdersCounted'
  <2>1. \A w : CountsOrders(w)
    BY <1>2 DEF CountsOrders, Creating, orderVars
  <2>. QED
    BY <1>1, <2>1, CountKept DEF OMSTypeInv
<1>. QED
  BY <1>1, <1>2, <1>3
  DEF OMSTypeInv, AtStep, ReturnsTypeOK, LifeTypeOK, LocalsTyped, TaskOK, ReturningOK, ReturnsPlaced,
      orderVars, returnVars, lifeVars

\* What was typed stays it when orders are added.
LEMMA TypesGrow ==
  ASSUME OMSTypeInv, DOMAIN orders \subseteq DOMAIN orders', UNCHANGED returnVars
  PROVE  ReturnsTypeOK'
<1>1. returning' \in [Workers ->
            [id : {0} \cup DOMAIN returns, order : {0} \cup DOMAIN orders',
             lines : ReturnRequests \cup {<<>>}, todo : Seq(Nat \ {0}),
             queue : Seq(DOMAIN returns), returned : Nat, plan : Seq(Takes)]]
  BY DEF OMSTypeInv, ReturnsTypeOK, returnVars
<1>. QED
  BY <1>1 DEF OMSTypeInv, ReturnsTypeOK, returnVars

\* Requests about orders keep the types,
LEMMA OrderTypes ==
  ASSUME OMSTypeInv, NEW w \in Workers, OrderEvent(w)
  PROVE  OMSTypeInv'
<1>1. /\ Send(w) \/ OrderStep(w) \/ AbortOrder(w)
      /\ UNCHANGED <<warehouseVars, returnVars, shipments, task>>
  BY DEF OrderEvent, OrderSide
<1>2. TypeInv'
  BY <1>1, TypeStepOrders DEF OMSTypeInv, OrdersNext
<1>3. StepsWithin(w, OrderSteps)
  BY <1>1, OrderStepsTaken DEF OMSTypeInv, TypeInv, Typed
<1>4. DOMAIN orders \subseteq DOMAIN orders' /\ CountsOrders(w)
  BY <1>1, OrdersGrow DEF OMSTypeInv
<1>5. AtStep'
  BY <1>3 DEF OMSTypeInv, AtStep, StepsWithin
<1>6. ReturnsTypeOK'
  BY <1>1, <1>4, TypesGrow
<1>7. LifeTypeOK'
  <2>1. fulfillment' \in [DOMAIN orders' -> LC!FulfillmentStatus]
    BY <1>4 DEF OrderEvent, OrderSide, OMSTypeInv, LifeTypeOK, LC!FulfillmentStatus,
       LC!FULFILLMENT_TRANSITIONS
  <2>2. packages' \in [DOMAIN orders' -> Nat]
    BY <1>4 DEF OrderEvent, OrderSide, OMSTypeInv, LifeTypeOK
  <2>3. shipments' \in Seq([order : DOMAIN orders', status : LC!ShipmentStatus])
    <3>. DEFINE S == [order : DOMAIN orders, status : LC!ShipmentStatus]
                T == [order : DOMAIN orders', status : LC!ShipmentStatus]
    <3>1. S \subseteq T
      BY <1>4
    <3>2. shipments \in Seq(S) /\ shipments' = shipments
      BY <1>1 DEF OMSTypeInv, LifeTypeOK
    <3>. HIDE DEF S, T
    <3>3. shipments' \in Seq(T)
      BY <3>1, <3>2, SeqWithin
    <3>. QED
      BY <3>3 DEF T
  <2>. QED
    BY <1>1, <2>1, <2>2, <2>3 DEF OMSTypeInv, LifeTypeOK
<1>8. LocalsTyped'
  <2>1. ASSUME NEW v \in Workers PROVE TaskOK(v)'
    BY <1>1, <1>4 DEF OMSTypeInv, LocalsTyped, TaskOK
  <2>2. ASSUME NEW v \in Workers PROVE ReturningOK(v)'
    <3>1. ReturningOK(v) /\ UNCHANGED <<returning, returns>>
      BY <1>1 DEF OMSTypeInv, LocalsTyped, returnVars
    <3>2. pc'[v] \in ReturnSteps <=> pc[v] \in ReturnSteps
      BY <1>3 DEF OMSTypeInv, AtStep, StepsWithin, OrderSteps, ReturnSteps
    <3>3. pc'[v] \in ReturnSteps => pc'[v] = pc[v]
      BY <1>3 DEF OMSTypeInv, AtStep, StepsWithin, OrderSteps, ReturnSteps
    <3>. QED
      BY <1>4, <3>1, <3>2, <3>3 DEF ReturningOK, ReturnSteps
  <2>. QED
    BY <2>1, <2>2 DEF LocalsTyped
<1>9. ReturnsPlaced'
  BY <1>1, <1>4 DEF OMSTypeInv, ReturnsPlaced, returnVars
<1>10. OrdersCounted'
  BY <1>2, <1>4, CountKept DEF OMSTypeInv
<1>. QED
  BY <1>2, <1>5, <1>6, <1>7, <1>8, <1>9, <1>10 DEF OMSTypeInv

\* receipts keep them,
LEMMA ReceiptTypes ==
  ASSUME OMSTypeInv, NEW w \in Workers, ReceiptEvent(w)
  PROVE  OMSTypeInv'
<1>1. /\ Deliver(w) \/ ReceiptStep(w) \/ AbortReceipt(w)
      /\ UNCHANGED <<orderVars, returnVars, lifeVars>>
  BY DEF ReceiptEvent, ReceiptSide
<1>2. TypeInv'
  BY <1>1, TypeStepWarehouses DEF OMSTypeInv, WarehousesNext
<1>3. StepsWithin(w, ReceiptSteps)
  BY <1>1, ReceiptStepsTaken DEF OMSTypeInv, TypeInv, Typed
<1>4. requests' >= requests
  <2>1. requests \in Nat
    BY StoreAssumption DEF OMSTypeInv, TypeInv, Typed, StoreTypeOK
  <2>. QED
    BY <1>1, <2>1 DEF Deliver, GetWarehouse, Accept, ReceiptStep, LockWarehouse, RefuseReceipt,
       CommitReceipt, FailReceipt, AbortReceipt, Commit, Rollback, EndSession
<1>5. AtStep'
  BY <1>3 DEF OMSTypeInv, AtStep, StepsWithin
<1>6. \A v \in Workers : /\ pc'[v] \in ReturnSteps <=> pc[v] \in ReturnSteps
                         /\ pc'[v] \in ReturnSteps => pc'[v] = pc[v]
  BY <1>3 DEF OMSTypeInv, AtStep, StepsWithin, ReceiptSteps, ReturnSteps
<1>7. LocalsTyped'
  <2>1. ASSUME NEW v \in Workers PROVE TaskOK(v)'
    BY <1>1 DEF OMSTypeInv, LocalsTyped, TaskOK, orderVars, lifeVars
  <2>2. ASSUME NEW v \in Workers PROVE ReturningOK(v)'
    <3>1. ReturningOK(v) /\ UNCHANGED <<returning, returns, orders>>
      BY <1>1 DEF OMSTypeInv, LocalsTyped, returnVars, orderVars
    <3>. QED
      BY <1>6, <3>1 DEF ReturningOK, ReturnSteps
  <2>. QED
    BY <2>1, <2>2 DEF LocalsTyped
<1>8. OrdersCounted'
  <2>1. Creating' \subseteq Creating
    BY <1>3 DEF OMSTypeInv, AtStep, StepsWithin, ReceiptSteps, Creating
  <2>2. CountsOrders(w)
    BY <1>1, <1>4, <2>1 DEF CountsOrders, orderVars
  <2>. QED
    BY <1>2, <2>2, CountKept DEF OMSTypeInv
<1>9. ReturnsTypeOK' /\ LifeTypeOK' /\ ReturnsPlaced'
  BY <1>1 DEF OMSTypeInv, ReturnsTypeOK, LifeTypeOK, ReturnsPlaced, orderVars, returnVars, lifeVars
<1>. QED
  BY <1>2, <1>5, <1>7, <1>8, <1>9 DEF OMSTypeInv

\* The statuses of Lifecycle and of Orders.
LEMMA Statuses ==
  /\ LC!FulfillmentStatus = {"ALLOCATED", "PICKING", "PICKED", "PACKING", "PACKED", "READY_TO_SHIP"}
  /\ LC!ShipmentStatus = {"READY_TO_SHIP", "SHIPPED", "IN_TRANSIT", "OUT_FOR_DELIVERY", "DELIVERED"}
  /\ LC!OrderStatus = OrderStatus
  /\ LC!Targets \subseteq LC!FulfillmentStatus
  /\ \A s \in DOMAIN LC!TRANSITIONS : LC!TRANSITIONS[s] \in LC!ShipmentStatus \ {"READY_TO_SHIP"}
<1>1. LC!FulfillmentStatus = {"ALLOCATED", "PICKING", "PICKED", "PACKING", "PACKED", "READY_TO_SHIP"}
  BY DEF LC!FulfillmentStatus, LC!FULFILLMENT_TRANSITIONS
<1>2. LC!ShipmentStatus = {"READY_TO_SHIP", "SHIPPED", "IN_TRANSIT", "OUT_FOR_DELIVERY", "DELIVERED"}
  BY DEF LC!ShipmentStatus, LC!TRANSITIONS
<1>3. LC!OrderStatus = OrderStatus
  BY <1>1 DEF LC!OrderStatus, OrderStatus
<1>4. \A s \in DOMAIN LC!TRANSITIONS : LC!TRANSITIONS[s] \in LC!ShipmentStatus \ {"READY_TO_SHIP"}
  BY <1>2 DEF LC!TRANSITIONS
<1>. QED
  BY <1>1, <1>2, <1>3, <1>4 DEF LC!Targets

\* An order changes in nothing but its status.
SameOrderBut(o) ==
    /\ orders'[o].key = orders[o].key
    /\ orders'[o].cart = orders[o].cart
    /\ orders'[o].allocations = orders[o].allocations
    /\ orders'[o].released = orders[o].released

\* Fulfillment and shipments add no order and change none but its status.
LEMMA LifeOrders ==
  ASSUME TypeInv, NEW w \in Workers, LifeSide(w)
  PROVE  /\ orders' = [o \in 1..Len(orders) |-> orders'[o]]
         /\ DOMAIN orders' = DOMAIN orders
         /\ \A o \in DOMAIN orders :
               /\ SameOrderBut(o)
               /\ orders'[o] = [orders[o] EXCEPT !.status = orders'[o].status]
               /\ orders'[o].status # orders[o].status =>
                     o = task[w].order /\ orders'[o].status = task[w].target
<1>1. /\ orders \in Seq(PlacedOrders)
      /\ \A o \in DOMAIN orders : orders[o] \in PlacedOrders
  BY DEF TypeInv, Typed, OrdersTypeOK
<1>2. ASSUME NEW x \in PlacedOrders, NEW s
      PROVE  /\ [x EXCEPT !.status = s].key = x.key
             /\ [x EXCEPT !.status = s].cart = x.cart
             /\ [x EXCEPT !.status = s].allocations = x.allocations
             /\ [x EXCEPT !.status = s].released = x.released
             /\ [x EXCEPT !.status = s].status = s
             /\ [x EXCEPT !.status = x.status] = x
  BY DEF PlacedOrders
<1>3. CASE UNCHANGED orders
  BY <1>1, <1>2, <1>3 DEF SameOrderBut
<1>4. CASE orders' = [orders EXCEPT ![task[w].order].status = task[w].target]
  <2>1. orders' = [o \in DOMAIN orders |->
                      IF o = task[w].order THEN [orders[o] EXCEPT !.status = task[w].target]
                      ELSE orders[o]]
    BY <1>4
  <2>2. DOMAIN orders = 1..Len(orders)
    BY <1>1
  <2>3. orders' = [o \in 1..Len(orders) |-> orders'[o]]
    BY <2>1, <2>2
  <2>4. ASSUME NEW o \in DOMAIN orders
        PROVE  /\ SameOrderBut(o)
               /\ orders'[o] = [orders[o] EXCEPT !.status = orders'[o].status]
               /\ orders'[o].status # orders[o].status =>
                     o = task[w].order /\ orders'[o].status = task[w].target
    <3>. DEFINE t == task[w].target
    <3>. HIDE DEF t
    <3>1. CASE o = task[w].order
      <4>1. orders'[o] = [orders[o] EXCEPT !.status = t]
        BY <2>1, <3>1 DEF t
      <4>. QED
        BY <1>1, <1>2, <3>1, <4>1 DEF SameOrderBut, t
    <3>2. CASE o # task[w].order
      <4>1. orders'[o] = orders[o]
        BY <2>1, <3>2
      <4>. QED
        BY <1>1, <1>2, <4>1 DEF SameOrderBut
    <3>. QED
      BY <3>1, <3>2
  <2>. QED
    BY <2>3, <2>4
<1>. QED
  BY <1>3, <1>4 DEF LifeSide

\* What a step of fulfillment or of a shipment leaves behind.
LifeStepOK(w) ==
    /\ fulfillment' \in [DOMAIN orders -> LC!FulfillmentStatus]
    /\ packages' \in [DOMAIN orders -> Nat]
    /\ shipments' \in Seq([order : DOMAIN orders, status : LC!ShipmentStatus])
    /\ \A n \in DOMAIN shipments :
          n \in DOMAIN shipments' /\ shipments'[n].order = shipments[n].order
    /\ task' = [task EXCEPT ![w] = task'[w]]
    /\ task'[w] \in LC!Tasks
    /\ TaskOK(w)'
    /\ \A o \in DOMAIN orders : orders'[o].status \in OrderStatus
    /\ requests' \in 0..MaxRequests /\ requests' >= requests

\* The types they rely on.
LEMMA LifeFacts ==
  ASSUME OMSTypeInv
  PROVE  /\ task \in [Workers -> LC!Tasks] /\ orders \in Seq(PlacedOrders)
         /\ requests \in 0..MaxRequests /\ MaxRequests \in Nat
         /\ \A o \in DOMAIN orders : orders[o].status \in OrderStatus
         /\ fulfillment \in [DOMAIN orders -> LC!FulfillmentStatus]
         /\ packages \in [DOMAIN orders -> Nat]
         /\ shipments \in Seq([order : DOMAIN orders, status : LC!ShipmentStatus])
         /\ DOMAIN shipments \subseteq Nat
         /\ \A n \in DOMAIN shipments :
               shipments[n] \in [order : DOMAIN orders, status : LC!ShipmentStatus]
<1>1. /\ task \in [Workers -> LC!Tasks] /\ orders \in Seq(PlacedOrders)
      /\ requests \in 0..MaxRequests /\ MaxRequests \in Nat
  BY StoreAssumption DEF OMSTypeInv, LifeTypeOK, TypeInv, Typed, OrdersTypeOK, StoreTypeOK
<1>2. \A o \in DOMAIN orders : orders[o] \in PlacedOrders
  BY <1>1
<1>3. \A o \in DOMAIN orders : orders[o].status \in OrderStatus
  BY <1>2 DEF PlacedOrders
<1>4. /\ DOMAIN shipments \subseteq Nat
      /\ \A n \in DOMAIN shipments :
            shipments[n] \in [order : DOMAIN orders, status : LC!ShipmentStatus]
  <2>. DEFINE S == [order : DOMAIN orders, status : LC!ShipmentStatus]
  <2>1. shipments \in Seq(S)
    BY DEF OMSTypeInv, LifeTypeOK
  <2>. HIDE DEF S
  <2>2. DOMAIN shipments \subseteq Nat /\ \A n \in DOMAIN shipments : shipments[n] \in S
    BY <2>1
  <2>. QED
    BY <2>2 DEF S
<1>. QED
  BY <1>1, <1>3, <1>4 DEF OMSTypeInv, LifeTypeOK

\* A task that begins is about an order that was placed.
LEMMA LifeStarts ==
  ASSUME OMSTypeInv, NEW w \in Workers, NEW t, LC!Start(w, t), LifeSide(w),
         t \in LC!Tasks, t.order \in DOMAIN orders, t.step # "idle",
         t.step \in {"fulfill", "save_fulfillment"} => t.target \in LC!Targets,
         t.step \in {"advance", "save_shipment"} =>
             /\ t.target \in LC!ShipmentStatus \ {"READY_TO_SHIP"}
             /\ t.shipment \in DOMAIN shipments
             /\ shipments[t.shipment].order = t.order
  PROVE  LifeStepOK(w)
<1>1. /\ task \in [Workers -> LC!Tasks] /\ orders \in Seq(PlacedOrders)
      /\ requests \in 0..MaxRequests /\ MaxRequests \in Nat
      /\ \A o \in DOMAIN orders : orders[o].status \in OrderStatus
  BY LifeFacts
<1>2. /\ task' = [task EXCEPT ![w] = t]
      /\ requests < MaxRequests /\ requests' = requests + 1
      /\ UNCHANGED <<fulfillment, packages, shipments>>
      /\ [o \in DOMAIN orders' |-> orders'[o].status] = [o \in DOMAIN orders |-> orders[o].status]
  BY DEF LC!Start
<1>3. DOMAIN orders' = DOMAIN orders /\ orders' = [o \in 1..Len(orders) |-> orders'[o]]
  BY <1>1, LifeOrders DEF OMSTypeInv
<1>4. \A o \in DOMAIN orders : orders'[o].status = orders[o].status
  BY <1>2, <1>3
<1>5. task'[w] = t
  BY <1>1, <1>2
<1>6. 0 \notin DOMAIN orders
  BY <1>1
<1>7. TaskOK(w)'
  BY <1>2, <1>3, <1>5, <1>6 DEF TaskOK
<1>8. /\ task' = [task EXCEPT ![w] = task'[w]] /\ task'[w] \in LC!Tasks
      /\ requests' \in 0..MaxRequests /\ requests' >= requests
  BY <1>1, <1>2, <1>5
<1>9. /\ fulfillment' \in [DOMAIN orders -> LC!FulfillmentStatus]
      /\ packages' \in [DOMAIN orders -> Nat]
      /\ shipments' \in Seq([order : DOMAIN orders, status : LC!ShipmentStatus])
  BY <1>2, LifeFacts
<1>10. \A o \in DOMAIN orders : orders'[o].status \in OrderStatus
  BY <1>1, <1>4
<1>. QED
  BY <1>2, <1>7, <1>8, <1>9, <1>10 DEF LifeStepOK

\* A task that goes on is about the same order,
LEMMA LifeGoesOn ==
  ASSUME OMSTypeInv, NEW w \in Workers, LifeSide(w), NEW step, task[w].step # "idle",
         LC!Goto(w, step) \/ LC!ReadOrder(w, step),
         step \in LC!Steps \ {"idle"},
         step \in {"fulfill", "save_fulfillment"} => task[w].step \in {"fulfill", "save_fulfillment"},
         step \in {"advance", "save_shipment"} => task[w].step \in {"advance", "save_shipment"}
  PROVE  LifeStepOK(w)
<1>1. /\ task \in [Workers -> LC!Tasks] /\ orders \in Seq(PlacedOrders)
      /\ requests \in 0..MaxRequests /\ MaxRequests \in Nat
      /\ \A o \in DOMAIN orders : orders[o].status \in OrderStatus
  BY LifeFacts
<1>2. TaskOK(w) /\ task[w].order \in DOMAIN orders /\ task[w] \in LC!Tasks
  BY <1>1 DEF OMSTypeInv, LocalsTyped, TaskOK
<1>3. /\ UNCHANGED <<fulfillment, packages, shipments, requests>>
      /\ [o \in DOMAIN orders' |-> orders'[o].status] = [o \in DOMAIN orders |-> orders[o].status]
  BY DEF LC!Goto, LC!ReadOrder
<1>4. DOMAIN orders' = DOMAIN orders /\ orders' = [o \in 1..Len(orders) |-> orders'[o]]
  BY <1>1, LifeOrders DEF OMSTypeInv
<1>5. \A o \in DOMAIN orders : orders'[o].status = orders[o].status
  BY <1>3, <1>4
<1>6. PICK s \in OrderStatus :
         /\ task' = [task EXCEPT ![w] = task'[w]]
         /\ task'[w] = [task[w] EXCEPT !.step = step, !.seen = s]
  <2>1. CASE LC!Goto(w, step)
    <3>1. task' = [task EXCEPT ![w] = [task[w] EXCEPT !.step = step]]
      BY <1>1, <2>1 DEF LC!Goto
    <3>2. [task[w] EXCEPT !.step = step] = [task[w] EXCEPT !.step = step, !.seen = task[w].seen]
      BY <1>2 DEF LC!Tasks
    <3>3. task[w].seen \in OrderStatus
      BY <1>2, Statuses DEF LC!Tasks
    <3>. QED
      BY <1>1, <3>1, <3>2, <3>3
  <2>2. CASE LC!ReadOrder(w, step)
    <3>. DEFINE s == orders[task[w].order].status
    <3>1. task' = [task EXCEPT ![w] = [task[w] EXCEPT !.step = step, !.seen = s]]
      BY <1>1, <1>2, <2>2 DEF LC!ReadOrder
    <3>2. s \in OrderStatus
      BY <1>1, <1>2
    <3>. HIDE DEF s
    <3>. QED
      BY <1>1, <3>1, <3>2
  <2>. QED
    BY <2>1, <2>2
<1>7. /\ task'[w] \in LC!Tasks
      /\ task'[w].step = step /\ task'[w].order = task[w].order
      /\ task'[w].target = task[w].target /\ task'[w].shipment = task[w].shipment
  BY <1>2, <1>6, Statuses DEF LC!Tasks
<1>8. TaskOK(w)'
  BY <1>1, <1>2, <1>3, <1>4, <1>7 DEF TaskOK
<1>9. /\ fulfillment' \in [DOMAIN orders -> LC!FulfillmentStatus]
      /\ packages' \in [DOMAIN orders -> Nat]
      /\ shipments' \in Seq([order : DOMAIN orders, status : LC!ShipmentStatus])
  BY <1>3, LifeFacts
<1>10. \A o \in DOMAIN orders : orders'[o].status \in OrderStatus
  BY <1>1, <1>5
<1>11. requests' \in 0..MaxRequests /\ requests' >= requests
  BY <1>1, <1>3
<1>. QED
  BY <1>3, <1>6, <1>7, <1>8, <1>9, <1>10, <1>11 DEF LifeStepOK

\* and one that ends is about none.
LEMMA LifeEnds ==
  ASSUME OMSTypeInv, NEW w \in Workers, LifeSide(w), LC!End(w)
  PROVE  /\ task' = [task EXCEPT ![w] = task'[w]]
         /\ task'[w] \in LC!Tasks /\ TaskOK(w)'
         /\ requests' \in 0..MaxRequests /\ requests' >= requests
<1>1. task \in [Workers -> LC!Tasks] /\ requests \in 0..MaxRequests /\ MaxRequests \in Nat
  BY StoreAssumption DEF OMSTypeInv, LifeTypeOK, TypeInv, Typed, StoreTypeOK
<1>2. task' = [task EXCEPT ![w] = LC!Idle] /\ requests' = requests
  BY DEF LC!End
<1>3. LC!Idle \in LC!Tasks /\ LC!Idle.order = 0 /\ LC!Idle.step = "idle"
  BY DEF LC!Idle, LC!Tasks, LC!Steps, LC!OrderStatus
<1>. QED
  BY <1>1, <1>2, <1>3 DEF TaskOK

\* The tasks that begin are those of Lifecycle's requests.
LEMMA LifeSteps ==
  ASSUME OMSTypeInv, NEW w \in Workers, LifeEvent(w)
  PROVE  LifeStepOK(w)
<1>0. /\ task \in [Workers -> LC!Tasks] /\ orders \in Seq(PlacedOrders)
      /\ LifeSide(w) /\ TaskOK(w)
      /\ DOMAIN orders' = DOMAIN orders
      /\ DOMAIN orders \subseteq OrderIds
      /\ DOMAIN [o \in DOMAIN orders |-> orders[o].status] = DOMAIN orders
  BY LifeFacts, LifeOrders, OrdersKnown DEF OMSTypeInv, LocalsTyped, LifeEvent
<1>1. ASSUME NEW step \in LC!Steps, NEW o \in DOMAIN orders, NEW n \in Nat,
             NEW s \in LC!OrderStatus \cup LC!ShipmentStatus
      PROVE  [LC!Idle EXCEPT !.step = step, !.order = o, !.shipment = n, !.target = s] \in LC!Tasks
  BY <1>0 DEF LC!Idle, LC!Tasks, LC!OrderStatus
<1>2. ASSUME NEW o \in DOMAIN orders, NEW target \in LC!Targets, LC!ReadFulfillment(w, o, target)
      PROVE  LifeStepOK(w)
  <2>. DEFINE t == [LC!Idle EXCEPT !.step = "fulfill", !.order = o, !.target = target]
  <2>1. LC!Start(w, t)
    BY <1>2 DEF LC!ReadFulfillment
  <2>2. /\ t \in LC!Tasks /\ t.order = o /\ t.step = "fulfill" /\ t.target = target
    BY <1>0, Statuses DEF LC!Idle, LC!Tasks, LC!OrderStatus, LC!Steps
  <2>. HIDE DEF t
  <2>. QED
    BY <1>0, <2>1, <2>2, LifeStarts
<1>3. ASSUME NEW o \in DOMAIN orders, LC!OpenShipment(w, o)
      PROVE  LifeStepOK(w)
  <2>. DEFINE t == [LC!Idle EXCEPT !.step = "find_package", !.order = o]
  <2>1. LC!Start(w, t)
    BY <1>3 DEF LC!OpenShipment
  <2>2. /\ t \in LC!Tasks /\ t.order = o /\ t.step = "find_package"
    BY <1>0, Statuses DEF LC!Idle, LC!Tasks, LC!OrderStatus, LC!Steps
  <2>. HIDE DEF t
  <2>. QED
    BY <1>0, <2>1, <2>2, LifeStarts
<1>4. ASSUME NEW n \in DOMAIN shipments, LC!ReadShipment(w, n)
      PROVE  LifeStepOK(w)
  <2>. DEFINE o == shipments[n].order
              s == LC!TRANSITIONS[shipments[n].status]
              t == [LC!Idle EXCEPT !.step = "advance", !.order = o, !.shipment = n, !.target = s]
  <2>1. LC!Start(w, t) /\ shipments[n].status \in DOMAIN LC!TRANSITIONS
    BY <1>4 DEF LC!ReadShipment
  <2>2. o \in DOMAIN orders /\ n \in Nat
    BY LifeFacts
  <2>3. s \in LC!ShipmentStatus \ {"READY_TO_SHIP"}
    BY <2>1, Statuses
  <2>. HIDE DEF s
  <2>4. /\ t \in LC!Tasks /\ t.order = o /\ t.step = "advance" /\ t.target = s /\ t.shipment = n
    BY <1>0, <2>2, <2>3 DEF LC!Idle, LC!Tasks, LC!OrderStatus, LC!Steps
  <2>. HIDE DEF t
  <2>. QED
    BY <1>0, <2>1, <2>2, <2>3, <2>4, LifeStarts
<1>5. CASE \/ LC!ReadFulfilledOrder(w) \/ LC!FindPackage(w) \/ LC!FindNoShipment(w)
           \/ LC!ReadShippedOrder(w)
  BY <1>0, <1>5, LifeGoesOn
  DEF LC!ReadFulfilledOrder, LC!FindPackage, LC!FindNoShipment, LC!ReadShippedOrder, LC!At, LC!Steps
<1>6. ASSUME LC!End(w), task[w].step # "idle",
             [o \in DOMAIN orders' |-> orders'[o].status]
                 = [o \in DOMAIN orders |-> orders[o].status]
                 \/ task[w].target \in OrderStatus,
             fulfillment' \in [DOMAIN orders -> LC!FulfillmentStatus],
             packages' \in [DOMAIN orders -> Nat],
             shipments' \in Seq([order : DOMAIN orders, status : LC!ShipmentStatus]),
             \A n \in DOMAIN shipments :
                n \in DOMAIN shipments' /\ shipments'[n].order = shipments[n].order
      PROVE  LifeStepOK(w)
  <2>1. ASSUME NEW o \in DOMAIN orders PROVE orders'[o].status \in OrderStatus
    <3>1. orders[o].status \in OrderStatus
      BY LifeFacts
    <3>2. \/ orders'[o].status = orders[o].status
          \/ orders'[o].status = task[w].target /\ task[w].target \in OrderStatus
      <4>1. CASE task[w].target \in OrderStatus
        BY <1>0, <4>1, LifeOrders DEF OMSTypeInv
      <4>2. CASE [p \in DOMAIN orders' |-> orders'[p].status]
                   = [p \in DOMAIN orders |-> orders[p].status]
        BY <1>0, <4>2
      <4>. QED
        BY <1>6, <4>1, <4>2
    <3>. QED
      BY <3>1, <3>2
  <2>. QED
    BY <1>0, <1>6, <2>1, LifeEnds DEF LifeStepOK
<1>7. CASE LC!SaveFulfillment(w)
  <2>1. /\ task[w].step = "save_fulfillment" /\ LC!End(w) /\ UNCHANGED shipments
        /\ fulfillment' = [fulfillment EXCEPT ![task[w].order] = task[w].target]
        /\ packages' = packages \/ packages' = [packages EXCEPT ![task[w].order] = @ + 1]
    BY <1>7 DEF LC!SaveFulfillment, LC!At
  <2>2. task[w].target \in LC!FulfillmentStatus \cap OrderStatus
    BY <1>0, <2>1, Statuses DEF TaskOK, LC!OrderStatus
  <2>3. /\ fulfillment' \in [DOMAIN orders -> LC!FulfillmentStatus]
        /\ packages' \in [DOMAIN orders -> Nat]
    <3>1. fulfillment' \in [DOMAIN orders -> LC!FulfillmentStatus]
      BY <2>1, <2>2, LifeFacts
    <3>2. packages \in [DOMAIN orders -> Nat]
      BY LifeFacts
    <3>3. packages' \in [DOMAIN orders -> Nat]
      BY <2>1, <3>2
    <3>. QED
      BY <3>1, <3>3
  <2>4. /\ shipments' \in Seq([order : DOMAIN orders, status : LC!ShipmentStatus])
        /\ \A n \in DOMAIN shipments :
              n \in DOMAIN shipments' /\ shipments'[n].order = shipments[n].order
    BY <2>1, LifeFacts
  <2>. QED
    BY <1>6, <2>1, <2>2, <2>3, <2>4
<1>8. CASE LC!InsertShipment(w)
  <2>1. /\ task[w].step = "insert_shipment" /\ LC!End(w) /\ UNCHANGED <<fulfillment, packages>>
        /\ [o \in DOMAIN orders' |-> orders'[o].status] = [o \in DOMAIN orders |-> orders[o].status]
        /\ shipments' = Append(shipments, [order |-> task[w].order, status |-> "READY_TO_SHIP"])
    BY <1>8 DEF LC!InsertShipment, LC!At
  <2>2. [order |-> task[w].order, status |-> "READY_TO_SHIP"]
           \in [order : DOMAIN orders, status : LC!ShipmentStatus]
    BY <1>0, <2>1, Statuses DEF TaskOK
  <2>3. /\ shipments' \in Seq([order : DOMAIN orders, status : LC!ShipmentStatus])
        /\ \A n \in DOMAIN shipments : n \in DOMAIN shipments' /\ shipments'[n] = shipments[n]
    <3>. DEFINE S == [order : DOMAIN orders, status : LC!ShipmentStatus]
                x == [order |-> task[w].order, status |-> "READY_TO_SHIP"]
    <3>1. shipments \in Seq(S) /\ x \in S /\ shipments' = Append(shipments, x)
      BY <2>1, <2>2, LifeFacts
    <3>. HIDE DEF S, x
    <3>2. /\ shipments' \in Seq(S)
          /\ \A n \in DOMAIN shipments : n \in DOMAIN shipments' /\ shipments'[n] = shipments[n]
      BY <3>1
    <3>. QED
      BY <3>2 DEF S
  <2>. QED
    BY <1>0, <1>6, <2>1, <2>3, LifeFacts
<1>9. CASE LC!SaveShipment(w)
  <2>. DEFINE n == task[w].shipment
              t == task[w].target
  <2>1. /\ task[w].step = "save_shipment" /\ LC!End(w) /\ UNCHANGED <<fulfillment, packages>>
        /\ \/ t \in {"SHIPPED", "DELIVERED"}
           \/ [o \in DOMAIN orders' |-> orders'[o].status] = [o \in DOMAIN orders |-> orders[o].status]
        /\ shipments' = [shipments EXCEPT ![n].status = t]
    BY <1>9 DEF LC!SaveShipment, LC!At
  <2>2. n \in DOMAIN shipments /\ t \in LC!ShipmentStatus
    BY <1>0, <2>1 DEF TaskOK
  <2>3. /\ shipments' \in Seq([order : DOMAIN orders, status : LC!ShipmentStatus])
        /\ \A m \in DOMAIN shipments : m \in DOMAIN shipments' /\ shipments'[m].order = shipments[m].order
    <3>. DEFINE S == [order : DOMAIN orders, status : LC!ShipmentStatus]
                x == [shipments[n] EXCEPT !.status = t]
    <3>1. shipments \in Seq(S) /\ shipments[n] \in S
      BY <2>2, LifeFacts
    <3>2. x \in S /\ x.order = shipments[n].order
      BY <2>2, <3>1
    <3>3. shipments' = [shipments EXCEPT ![n] = x]
      BY <2>1, <2>2, <3>1
    <3>. HIDE DEF S, x
    <3>4. shipments' \in Seq(S) /\ DOMAIN shipments' = DOMAIN shipments
      BY <2>2, <3>1, <3>2, <3>3, ExceptSeq
    <3>5. \A m \in DOMAIN shipments : shipments'[m].order = shipments[m].order
      BY <3>1, <3>2, <3>3
    <3>. QED
      BY <3>4, <3>5 DEF S
  <2>4. t \in OrderStatus
        \/ [o \in DOMAIN orders' |-> orders'[o].status] = [o \in DOMAIN orders |-> orders[o].status]
    BY <2>1 DEF OrderStatus
  <2>. QED
    BY <1>0, <1>6, <2>1, <2>3, <2>4, LifeFacts
<1>10. CASE LC!GiveUp(w)
  <2>1. /\ task[w].step # "idle" /\ LC!End(w) /\ UNCHANGED <<fulfillment, packages, shipments>>
        /\ [o \in DOMAIN orders' |-> orders'[o].status] = [o \in DOMAIN orders |-> orders[o].status]
    BY <1>10 DEF LC!GiveUp, LC!At
  <2>. QED
    BY <1>0, <1>6, <2>1, LifeFacts
<1>. QED
  BY <1>0, <1>2, <1>3, <1>4, <1>5, <1>7, <1>8, <1>9, <1>10 DEF LifeEvent, LC!Fulfill, LC!Ship

\* A step that is right about its task keeps the types.
LEMMA LifeTypes ==
  ASSUME OMSTypeInv, NEW w \in Workers, LifeEvent(w)
  PROVE  OMSTypeInv'
<1>1. LifeStepOK(w) /\ LifeSide(w) /\ TypeInv
  BY LifeSteps DEF LifeEvent, OMSTypeInv
<1>2. UNCHANGED <<inventory, movements, rowLock, whLock, whShare, pc, image, posted,
                  job, answers, warehouseVars, returnVars>>
  BY <1>1 DEF LifeSide
<1>3. /\ orders' \in Seq(PlacedOrders)
      /\ DOMAIN orders' = DOMAIN orders /\ Len(orders') = Len(orders)
  <2>1. /\ orders \in Seq(PlacedOrders) /\ \A o \in DOMAIN orders : orders[o] \in PlacedOrders
        /\ DOMAIN orders = 1..Len(orders) /\ Len(orders) \in Nat
    BY <1>1 DEF TypeInv, Typed, OrdersTypeOK
  <2>2. ASSUME NEW x \in PlacedOrders, NEW s \in OrderStatus
        PROVE  [x EXCEPT !.status = s] \in PlacedOrders
    BY DEF PlacedOrders
  <2>3. ASSUME NEW o \in DOMAIN orders PROVE orders'[o] \in PlacedOrders
    <3>1. orders[o] \in PlacedOrders /\ orders'[o].status \in OrderStatus
      BY <1>1, <2>1 DEF LifeStepOK
    <3>2. orders'[o] = [orders[o] EXCEPT !.status = orders'[o].status]
      BY <1>1, LifeOrders
    <3>3. [orders[o] EXCEPT !.status = orders'[o].status] \in PlacedOrders
      BY <2>2, <3>1
    <3>. QED
      BY <3>2, <3>3
  <2>4. orders' = [o \in 1..Len(orders) |-> orders'[o]]
    BY <1>1, LifeOrders
  <2>5. orders' \in Seq(PlacedOrders)
    BY <2>1, <2>3, <2>4
  <2>. QED
    BY <2>1, <2>4, <2>5
<1>4. TypeInv'
  <2>1. StoreTypeOK'
    BY <1>1, <1>2 DEF LifeStepOK, TypeInv, Typed, StoreTypeOK
  <2>2. OrdersTypeOK' /\ WarehousesTypeOK' /\ (pc = [v \in Workers |-> pc[v]])'
    BY <1>1, <1>2, <1>3 DEF TypeInv, Typed, OrdersTypeOK, WarehousesTypeOK, warehouseVars
  <2>3. LocalsOK'
    BY <1>1, <1>2, <1>3 DEF TypeInv, LocalsOK, warehouseVars
  <2>. QED
    BY <2>1, <2>2, <2>3 DEF TypeInv, Typed
<1>5. AtStep' /\ ReturnsTypeOK' /\ ReturnsPlaced'
  BY <1>2, <1>3 DEF OMSTypeInv, AtStep, ReturnsTypeOK, ReturnsPlaced, returnVars
<1>6. LifeTypeOK'
  <2>1. task' \in [Workers -> LC!Tasks]
    BY <1>1, LifeFacts DEF LifeStepOK
  <2>. QED
    BY <1>1, <1>3, <2>1 DEF LifeStepOK, LifeTypeOK
<1>7. LocalsTyped'
  <2>1. ASSUME NEW v \in Workers PROVE TaskOK(v)'
    <3>1. CASE v = w
      BY <1>1, <3>1 DEF LifeStepOK
    <3>2. CASE v # w
      <4>1. task'[v] = task[v] /\ TaskOK(v)
        BY <1>1, <3>2, LifeFacts DEF LifeStepOK, OMSTypeInv, LocalsTyped
      <4>2. \A n \in DOMAIN shipments :
               n \in DOMAIN shipments' /\ shipments'[n].order = shipments[n].order
        BY <1>1 DEF LifeStepOK
      <4>. QED
        BY <1>3, <4>1, <4>2 DEF TaskOK
    <3>. QED
      BY <3>1, <3>2
  <2>2. ASSUME NEW v \in Workers PROVE ReturningOK(v)'
    BY <1>2, <1>3 DEF OMSTypeInv, LocalsTyped, ReturningOK, returnVars
  <2>. QED
    BY <2>1, <2>2 DEF LocalsTyped
<1>8. OrdersCounted'
  <2>1. CountsOrders(w)
    BY <1>1, <1>2, <1>3 DEF CountsOrders, Creating, LifeStepOK
  <2>. QED
    BY <1>1, <1>4, <2>1, CountKept DEF OMSTypeInv
<1>. QED
  BY <1>4, <1>5, <1>6, <1>7, <1>8 DEF OMSTypeInv

-----------------------------------------------------------------------------
(***************************************************************************)
(* What the handlers of returns compute.                                   *)
(***************************************************************************)

\* An order of the members of a finite set is a sequence of them.
LEMMA SeqOfSet ==
  ASSUME NEW S, IsFiniteSet(S), NEW s \in SetToSeqs(S)
  PROVE  /\ s \in Seq(S) /\ Len(s) = Cardinality(S) /\ s \in [1..Cardinality(S) -> S]
         /\ \A i, j \in DOMAIN s : s[i] = s[j] => i = j
<1>1. Cardinality(S) \in Nat
  BY FS_CardinalityType
<1>2. /\ s \in [1..Cardinality(S) -> S]
      /\ \A i, j \in 1..Cardinality(S) : s[i] = s[j] => i = j
  BY DEF SetToSeqs
<1>. QED
  BY <1>1, <1>2

\* Some records of a sequence are finitely many and come to a natural number.
LEMMA SumOfType ==
  ASSUME NEW A, \A x \in A : x.quantity \in Nat, NEW s \in Seq(A), NEW N \in SUBSET DOMAIN s
  PROVE  IsFiniteSet(N) /\ SumOf(s, N) \in Nat
<1>1. DOMAIN s = 1..Len(s) /\ Len(s) \in Nat /\ \A n \in DOMAIN s : s[n] \in A
  OBVIOUS
<1>2. IsFiniteSet(N)
  <2>1. IsFiniteSet(1..Len(s))
    BY <1>1, FS_Interval
  <2>. QED
    BY <1>1, <2>1, FS_Subset
<1>3. \A n \in N : Counts(s)[n] \in Nat /\ Counts(s)[n] \in Int
  BY <1>1 DEF Counts
<1>4. SumFunctionOnSet(Counts(s), N) \in Nat
  BY <1>2, <1>3, SumInt
<1>. QED
  BY <1>2, <1>4 DEF SumOf, Counts

\* Lines have quantities.
LEMMA LinesFacts ==
  ASSUME NEW lines \in ReturnRequests
  PROVE  /\ lines \in Seq(Lines) /\ DOMAIN lines \subseteq Nat
         /\ IsFiniteSet(DOMAIN lines)
         /\ \A n \in DOMAIN lines : lines[n] \in Lines
         /\ \A x \in Lines : x.quantity \in Nat
<1>1. lines \in Seq(Lines) /\ \A x \in Lines : x.quantity \in Nat
  BY ReturnsAssumption DEF Lines
<1>2. DOMAIN lines = 1..Len(lines) /\ Len(lines) \in Nat /\ \A n \in DOMAIN lines : lines[n] \in Lines
  BY <1>1
<1>. QED
  BY <1>1, <1>2, FS_Interval

\* So what is requested of an item is a number,
LEMMA RequestedType ==
  ASSUME NEW lines \in ReturnRequests, NEW i
  PROVE  Requested(lines, i) \in Nat
BY LinesFacts, SumOfType DEF Requested

\* and so is what was returned.
LEMMA ReturnedType ==
  ASSUME returns \in Seq(ReturnOrders), NEW o, NEW i
  PROVE  /\ IsFiniteSet(ReturnsOf(o, i)) /\ ReturnsOf(o, i) \subseteq DOMAIN returns
         /\ Returned(o, i) \in Nat
<1>1. /\ DOMAIN returns = 1..Len(returns) /\ Len(returns) \in Nat
      /\ \A k \in DOMAIN returns : returns[k] \in ReturnOrders
  OBVIOUS
<1>2. IsFiniteSet(ReturnsOf(o, i)) /\ ReturnsOf(o, i) \subseteq DOMAIN returns
  <2>1. ReturnsOf(o, i) \subseteq DOMAIN returns
    BY DEF ReturnsOf
  <2>2. IsFiniteSet(1..Len(returns))
    BY <1>1, FS_Interval
  <2>. QED
    BY <1>1, <2>1, <2>2, FS_Subset
<1>. DEFINE f == [k \in DOMAIN returns |-> Requested(returns[k].lines, i)]
<1>3. \A k \in ReturnsOf(o, i) : f[k] \in Nat /\ f[k] \in Int
  BY <1>1, <1>2, RequestedType DEF ReturnOrders
<1>. HIDE DEF f
<1>4. SumFunctionOnSet(f, ReturnsOf(o, i)) \in Nat
  BY <1>2, <1>3, SumInt
<1>. QED
  BY <1>2, <1>4 DEF Returned, f

\* There are finitely many pairs of a line and an allocation,
LEMMA PairsFinite ==
  ASSUME NEW lines \in ReturnRequests, NEW al \in Seq(Allocations),
         NEW S \in SUBSET (Restockable(lines) \X DOMAIN al)
  PROVE  IsFiniteSet(S)
<1>1. IsFiniteSet(Restockable(lines))
  BY LinesFacts, FS_Subset DEF Restockable
<1>2. IsFiniteSet(DOMAIN al)
  <2>1. DOMAIN al = 1..Len(al) /\ Len(al) \in Nat
    OBVIOUS
  <2>. QED
    BY <2>1, FS_Interval
<1>3. IsFiniteSet(Restockable(lines) \X DOMAIN al)
  BY <1>1, <1>2, FS_Product
<1>. QED
  BY <1>3, FS_Subset

\* and a pair takes back a quantity to a row.
LEMMA TakeBackType ==
  ASSUME NEW line \in Lines, NEW o, NEW al \in Seq(Allocations), al = orders[o].allocations,
         NEW n \in TakesOf(o, line)
  PROVE  TakeBack(o, line, n) \in Takes
<1>. DEFINE S == {m \in 1..(n - 1) : al[m].item = line.item}
<1>1. /\ DOMAIN al = 1..Len(al) /\ Len(al) \in Nat
      /\ \A m \in DOMAIN al : al[m] \in Allocations
  OBVIOUS
<1>2. n \in DOMAIN al /\ Remaining(o, line, n) > 0
  BY DEF TakesOf
<1>3. S \subseteq DOMAIN al
  BY <1>1, <1>2
<1>4. Remaining(o, line, n) = line.quantity - SumOf(al, S)
  BY DEF Remaining
<1>5. SumOf(al, S) \in Nat
  <2>. HIDE DEF S
  <2>. QED
    BY <1>3, AllocationsCount, SumOfType
<1>. HIDE DEF S
<1>6. al[n] \in Allocations /\ line.quantity \in Nat
  BY <1>1, <1>2 DEF Lines
<1>7. Least(Remaining(o, line, n), al[n].quantity) \in Nat \ {0} /\ al[n].row \in Rows
  BY <1>2, <1>4, <1>5, <1>6 DEF Least, Allocations
<1>. QED
  BY <1>7 DEF TakeBack, Takes

\* A plan takes quantities back to rows.
LEMMA PlansType ==
  ASSUME OMSTypeInv, NEW k \in DOMAIN returns, NEW plan \in Plans(k)
  PROVE  plan \in Seq(Takes)
<1>1. returns[k] \in ReturnOrders /\ returns[k].order \in DOMAIN orders
  BY DEF OMSTypeInv, ReturnsTypeOK, ReturnsPlaced
<1>2. PICK lines \in ReturnRequests, o \in DOMAIN orders :
          lines = returns[k].lines /\ o = returns[k].order
  BY <1>1 DEF ReturnOrders
<1>3. PICK al \in Seq(Allocations) : al = orders[o].allocations
  <2>1. orders \in Seq(PlacedOrders)
    BY DEF OMSTypeInv, TypeInv, Typed, OrdersTypeOK
  <2>2. orders[o] \in PlacedOrders
    BY <2>1
  <2>. QED
    BY <2>2 DEF PlacedOrders
<1>4. TakesFor(k) = {p \in Restockable(lines) \X DOMAIN al : p[2] \in TakesOf(o, lines[p[1]])}
  BY <1>2, <1>3 DEF TakesFor
<1>5. PICK s \in SetToSeqs(TakesFor(k)) :
          plan = [n \in DOMAIN s |-> TakeBack(o, lines[s[n][1]], s[n][2])]
  BY <1>2 DEF Plans
<1>6. ASSUME NEW p \in TakesFor(k)
      PROVE  TakeBack(o, lines[p[1]], p[2]) \in Takes
  <2>1. /\ p[1] \in Restockable(lines) /\ p[2] \in TakesOf(o, lines[p[1]])
    BY <1>4
  <2>2. lines[p[1]] \in Lines
    BY <2>1, LinesFacts DEF Restockable
  <2>. QED
    BY <1>3, <2>1, <2>2, TakeBackType
<1>7. IsFiniteSet(TakesFor(k))
  BY <1>4, PairsFinite
<1>8. s \in Seq(TakesFor(k)) /\ \A n \in DOMAIN s : s[n] \in TakesFor(k)
  BY <1>7, SeqOfSet
<1>9. DOMAIN s = 1..Len(s) /\ Len(s) \in Nat
  BY <1>8
<1>. QED
  BY <1>5, <1>6, <1>8, <1>9

\* The local variables of a handler of returns.
Returnings == [id : {0} \cup DOMAIN returns, order : {0} \cup DOMAIN orders,
               lines : ReturnRequests \cup {<<>>}, todo : Seq(Nat \ {0}),
               queue : Seq(DOMAIN returns), returned : Nat, plan : Seq(Takes)]

\* What a step of such a handler leaves behind.
ReturnStepOK(w) ==
    /\ StoreOK'
    /\ StepsWithin(w, ReturnSteps)
    /\ requests' >= requests
    /\ returns' \in Seq(ReturnOrders)
    /\ \A k \in DOMAIN returns :
          k \in DOMAIN returns' /\ returns'[k].order = returns[k].order
    /\ ReturnsPlaced'
    /\ holds' \in [Workers -> SUBSET DOMAIN returns']
    /\ returning' = [returning EXCEPT ![w] = returning'[w]]
    /\ returning'[w] \in Returnings'
    /\ ReturningOK(w)'

\* The types its steps rely on.
LEMMA ReturnFacts ==
  ASSUME OMSTypeInv
  PROVE  /\ StoreOK /\ requests \in Nat
         /\ pc = [v \in Workers |-> pc[v]]
         /\ returns \in Seq(ReturnOrders)
         /\ holds \in [Workers -> SUBSET DOMAIN returns]
         /\ returning \in [Workers -> Returnings]
         /\ ReturnsPlaced
         /\ \A k \in DOMAIN returns : returns[k] \in ReturnOrders /\ k \in Nat \ {0}
         /\ \A v \in Workers : ReturningOK(v)
<1>1. /\ StoreOK /\ requests \in Nat
      /\ pc = [v \in Workers |-> pc[v]]
  BY StoreAssumption DEF OMSTypeInv, TypeInv, Typed, StoreOK, StoreTypeOK
<1>2. /\ returns \in Seq(ReturnOrders)
      /\ holds \in [Workers -> SUBSET DOMAIN returns]
      /\ returning \in [Workers -> Returnings]
      /\ ReturnsPlaced
      /\ \A v \in Workers : ReturningOK(v)
  BY DEF OMSTypeInv, ReturnsTypeOK, Returnings, LocalsTyped
<1>3. \A k \in DOMAIN returns : returns[k] \in ReturnOrders /\ k \in Nat \ {0}
  BY <1>2
<1>. QED
  BY <1>1, <1>2, <1>3

\* The types of the store hold again when a handler of returns has locked a row
\* or ended its session.
LEMMA ReturnStore ==
  ASSUME OMSTypeInv, NEW w \in Workers, ReturnStep(w) \/ AbortReturn(w)
  PROVE  StoreOK' /\ requests' >= requests
<1>1. CASE QueryReturned(w) \/ LockReturn(w) \/ ItemReturnable(w)
  BY <1>1, ReturnFacts DEF QueryReturned, LockReturn, ItemReturnable, StoreOK, StoreTypeOK, storeVars
<1>2. CASE RefuseReturn(w) \/ AbortReturn(w)
  <2>1. Rollback(w)
    BY <1>2 DEF RefuseReturn, AbortReturn
  <2>2. requests' = requests
    BY <2>1 DEF Rollback, EndSession
  <2>3. StoreOK'
    BY <2>1, ReturnFacts, RollbackType
  <2>. QED
    BY <2>2, <2>3, ReturnFacts
<1>3. CASE CommitReturn(w) \/ CommitRefund(w)
  <2>1. Rollback(w)
    BY <1>3 DEF CommitReturn, CommitRefund, Rollback
  <2>2. requests' = requests
    BY <2>1 DEF Rollback, EndSession
  <2>3. StoreOK'
    BY <2>1, ReturnFacts, RollbackType
  <2>. QED
    BY <2>2, <2>3, ReturnFacts
<1>4. CASE CommitRestock(w)
  <2>1. Commit(w, "RETURN") /\ "RETURN" \in MovementTypes
    BY <1>4 DEF CommitRestock, MovementTypes
  <2>2. requests' = requests
    BY <2>1 DEF Commit, EndSession
  <2>3. StoreOK'
    BY <2>1, ReturnFacts, CommitType
  <2>. QED
    BY <2>2, <2>3, ReturnFacts
<1>5. CASE Restock(w)
  <2>. DEFINE t == Head(returning[w].plan)
  <2>1. returning[w].plan \in Seq(Takes) /\ returning[w].plan # <<>>
    BY <1>5, ReturnFacts DEF Restock, Returnings
  <2>2. t \in Takes
    BY <2>1
  <2>3. t.row \in Rows /\ t.quantity \in Nat
    BY <2>2 DEF Takes
  <2>4. /\ LockAndChange(w, t.row, Add(Loaded(w, t.row), t.quantity), t.quantity)
        /\ UNCHANGED <<inventory, movements, whLock, whShare, pc, requests>>
    BY <1>5 DEF Restock
  <2>. HIDE DEF t
  <2>5. Add(Loaded(w, t.row), t.quantity) \in Quantities
    BY <2>3, ReturnFacts, LoadedType, AddType
  <2>6. StoreOK'
    BY <2>3, <2>4, <2>5, ReturnFacts, LockAndChangeType
  <2>. QED
    BY <2>4, <2>6, ReturnFacts
<1>. QED
  BY <1>1, <1>2, <1>3, <1>4, <1>5 DEF ReturnStep

\* A handler of returns takes its session from one of its steps to another.
LEMMA ReturnStepsTaken ==
  ASSUME pc = [v \in Workers |-> pc[v]], NEW w \in Workers,
         SendReturn(w) \/ ReturnStep(w) \/ AbortReturn(w)
  PROVE  StepsWithin(w, ReturnSteps)
<1>1. CASE \/ RefuseReturn(w) \/ CommitReturn(w) \/ CommitRestock(w)
           \/ CommitRefund(w) \/ AbortReturn(w)
  <2>1. EndSession(w) /\ pc[w] \in ReturnSteps
    BY <1>1 DEF RefuseReturn, CommitReturn, CommitRestock, CommitRefund, AbortReturn, Commit,
                Rollback, ReturnSteps
  <2>. QED
    BY <2>1 DEF StepsWithin, EndSession
<1>2. CASE QueryReturned(w) \/ LockReturn(w) \/ ItemReturnable(w) \/ Restock(w)
  <2>1. /\ pc[w] \in ReturnSteps
        /\ UNCHANGED pc \/ \E step \in ReturnSteps : pc' = [pc EXCEPT ![w] = step]
    BY <1>2 DEF QueryReturned, LockReturn, ItemReturnable, Restock, storeVars, ReturnSteps
  <2>. QED
    BY <2>1 DEF StepsWithin
<1>3. CASE SendReturn(w)
  <2>1. /\ pc[w] = "idle"
        /\ \E step \in ReturnSteps : pc' = [pc EXCEPT ![w] = step]
    BY <1>3 DEF SendReturn, RequestReturn, ReadRequested, ReadReceived, Accept, ReturnSteps
  <2>. QED
    BY <2>1 DEF StepsWithin
<1>. QED
  BY <1>1, <1>2, <1>3 DEF ReturnStep

\* What is requested of a return is of items of its order.
LEMMA ItemsType ==
  ASSUME NEW lines \in ReturnRequests, NEW items \in RequestedItems(lines),
         NEW cart \in Seq(Items), NamedItems(lines) \subseteq DOMAIN cart
  PROVE  items \in Seq(Nat \ {0})
<1>1. DOMAIN cart = 1..Len(cart) /\ Len(cart) \in Nat
  OBVIOUS
<1>2. IsFiniteSet(NamedItems(lines))
  <2>1. IsFiniteSet(1..Len(cart))
    BY <1>1, FS_Interval
  <2>2. NamedItems(lines) \subseteq 1..Len(cart)
    BY <1>1
  <2>. QED
    BY <2>1, <2>2, FS_Subset
<1>3. items \in Seq(NamedItems(lines))
  BY <1>2, SeqOfSet DEF RequestedItems
<1>4. NamedItems(lines) \subseteq Nat \ {0}
  BY <1>1
<1>. QED
  BY <1>3, <1>4, SeqWithin

\* An order has a cart.
LEMMA CartOf ==
  ASSUME TypeInv, NEW o \in DOMAIN orders
  PROVE  orders[o] \in PlacedOrders /\ orders[o].cart \in Seq(Items)
<1>1. orders \in Seq(PlacedOrders)
  BY DEF TypeInv, Typed, OrdersTypeOK
<1>2. orders[o] \in PlacedOrders
  BY <1>1
<1>3. orders[o].cart \in Carts
  BY <1>2 DEF PlacedOrders
<1>. QED
  BY <1>2, <1>3, OrdersAssumption

\* The returns as they are, or one more, or one with another status.
LEMMA ReturnsKept ==
  ASSUME OMSTypeInv, UNCHANGED orders, NEW w \in Workers,
         \/ UNCHANGED returns
         \/ pc[w] = "query" /\ CommitReturn(w)
         \/ \E s \in {"RECEIVED", "REFUNDED"} :
               pc[w] \in {"restock", "refund"} /\ SetStatus(w, s)
  PROVE  /\ returns' \in Seq(ReturnOrders)
         /\ \A k \in DOMAIN returns :
               k \in DOMAIN returns' /\ returns'[k].order = returns[k].order
         /\ ReturnsPlaced'
<1>1. CASE UNCHANGED returns
  BY <1>1, ReturnFacts DEF ReturnsPlaced
<1>2. CASE pc[w] = "query" /\ CommitReturn(w)
  <2>1. PICK x : /\ returns' = Append(returns, x)
                 /\ x = [order |-> returning[w].order, lines |-> returning[w].lines,
                         status |-> "REQUESTED"]
    BY <1>2 DEF CommitReturn
  <2>2. returning[w].order \in DOMAIN orders /\ returning[w].lines \in ReturnRequests
    BY <1>2, ReturnFacts DEF ReturningOK
  <2>3. DOMAIN orders \subseteq Nat \ {0}
    BY DEF OMSTypeInv, TypeInv, Typed, OrdersTypeOK
  <2>4. x \in ReturnOrders /\ x.order \in DOMAIN orders
    BY <2>1, <2>2, <2>3 DEF ReturnOrders
  <2>5. /\ returns' \in Seq(ReturnOrders)
        /\ \A k \in DOMAIN returns : k \in DOMAIN returns' /\ returns'[k] = returns[k]
        /\ \A k \in DOMAIN returns' : k \in DOMAIN returns \/ returns'[k] = x
    BY <2>1, <2>4, ReturnFacts
  <2>6. \A k \in DOMAIN returns' : returns'[k].order \in DOMAIN orders
    BY <2>4, <2>5, ReturnFacts DEF ReturnsPlaced
  <2>. QED
    BY <2>5, <2>6 DEF ReturnsPlaced
<1>3. CASE \E s \in {"RECEIVED", "REFUNDED"} :
              pc[w] \in {"restock", "refund"} /\ SetStatus(w, s)
  <2>. DEFINE k == returning[w].id
  <2>1. PICK s \in {"RECEIVED", "REFUNDED"} : returns' = [returns EXCEPT ![k].status = s]
    BY <1>3 DEF SetStatus
  <2>2. k \in DOMAIN returns
    BY <1>3, ReturnFacts DEF ReturningOK
  <2>. HIDE DEF k
  <2>3. PICK x : x = [returns[k] EXCEPT !.status = s]
    OBVIOUS
  <2>4. x \in ReturnOrders /\ x.order = returns[k].order
    BY <2>2, <2>3, ReturnFacts DEF ReturnOrders
  <2>5. returns' = [returns EXCEPT ![k] = x]
    BY <2>1, <2>2, <2>3, ReturnFacts
  <2>6. returns' \in Seq(ReturnOrders) /\ DOMAIN returns' = DOMAIN returns
    BY <2>2, <2>4, <2>5, ReturnFacts, ExceptSeq
  <2>7. \A j \in DOMAIN returns : returns'[j].order = returns[j].order
    BY <2>4, <2>5, ReturnFacts
  <2>. QED
    BY <2>6, <2>7, ReturnFacts DEF ReturnsPlaced
<1>. QED
  BY <1>1, <1>2, <1>3

\* A handler of returns that begins or goes on keeps the types,
LEMMA ReturnGoesOn ==
  ASSUME OMSTypeInv, NEW w \in Workers, UNCHANGED <<orders, returns>>,
         SendReturn(w) \/ QueryReturned(w) \/ LockReturn(w) \/ ItemReturnable(w) \/ Restock(w)
  PROVE  /\ holds' \in [Workers -> SUBSET DOMAIN returns]
         /\ returning' = [returning EXCEPT ![w] = returning'[w]]
         /\ returning'[w] \in Returnings
         /\ ReturningOK(w)'
<1>0. /\ returning \in [Workers -> Returnings] /\ returning[w] \in Returnings
      /\ holds \in [Workers -> SUBSET DOMAIN returns] /\ ReturningOK(w)
      /\ pc = [v \in Workers |-> pc[v]]
  BY ReturnFacts
<1>1. ASSUME NEW x \in Returnings,
             NEW i \in {0} \cup DOMAIN returns, NEW o \in {0} \cup DOMAIN orders,
             NEW lines \in ReturnRequests, NEW todo \in Seq(Nat \ {0}),
             NEW queue \in Seq(DOMAIN returns), NEW returned \in Nat, NEW plan \in Seq(Takes)
      PROVE  /\ [x EXCEPT !.order = o, !.lines = lines, !.todo = todo] \in Returnings
             /\ [x EXCEPT !.id = i, !.order = o, !.plan = plan] \in Returnings
             /\ [x EXCEPT !.id = i, !.order = o] \in Returnings
             /\ [x EXCEPT !.queue = queue, !.returned = returned] \in Returnings
             /\ [x EXCEPT !.queue = queue] \in Returnings
             /\ [x EXCEPT !.todo = todo, !.returned = 0] \in Returnings
             /\ [x EXCEPT !.plan = plan] \in Returnings
  BY DEF Returnings
<1>2. ASSUME NEW o \in DOMAIN orders, NEW lines \in ReturnRequests, RequestReturn(w, o, lines)
      PROVE  /\ holds' = holds
             /\ returning' = [returning EXCEPT ![w] = returning'[w]]
             /\ returning'[w] \in Returnings
             /\ ReturningOK(w)'
  <2>1. PICK items \in RequestedItems(lines) :
           returning' = [returning EXCEPT ![w].order = o, ![w].lines = lines, ![w].todo = items]
    BY <1>2 DEF RequestReturn
  <2>2. items \in Seq(Nat \ {0})
    BY <1>2, CartOf, ItemsType DEF RequestReturn, OMSTypeInv
  <2>3. PICK x : /\ x = [returning[w] EXCEPT !.order = o, !.lines = lines, !.todo = items]
                 /\ returning' = [returning EXCEPT ![w] = x]
    BY <1>0, <2>1
  <2>4. x \in Returnings /\ x.order = o /\ x.lines = lines
    BY <1>0, <1>1, <2>2, <2>3 DEF Returnings
  <2>5. pc'[w] = "query" /\ UNCHANGED holds
    BY <1>0, <1>2 DEF RequestReturn, Accept
  <2>6. returning'[w] = x
    BY <1>0, <2>3
  <2>. QED
    BY <2>3, <2>4, <2>5, <2>6 DEF ReturningOK, ReturnSteps
<1>3. ASSUME NEW k \in DOMAIN returns, ReadRequested(w, k) \/ ReadReceived(w, k)
      PROVE  /\ holds' = holds
             /\ returning' = [returning EXCEPT ![w] = returning'[w]]
             /\ returning'[w] \in Returnings
             /\ ReturningOK(w)'
  <2>1. k \in DOMAIN returns /\ returns[k].order \in DOMAIN orders
    BY ReturnFacts DEF ReturnsPlaced
  <2>2. pc'[w] \in {"restock", "refund"} /\ UNCHANGED holds
    BY <1>0, <1>3 DEF ReadRequested, ReadReceived, Accept
  <2>3. PICK x \in Returnings : /\ x.id = k /\ x.order = returns[k].order
                                /\ returning' = [returning EXCEPT ![w] = x]
    <3>1. CASE ReadRequested(w, k)
      <4>1. PICK plan \in Plans(k) :
               returning' = [returning EXCEPT ![w].id = k, ![w].order = returns[k].order,
                                              ![w].plan = plan]
        BY <3>1 DEF ReadRequested
      <4>2. plan \in Seq(Takes)
        BY PlansType
      <4>3. PICK x : /\ x = [returning[w] EXCEPT !.id = k, !.order = returns[k].order, !.plan = plan]
                     /\ returning' = [returning EXCEPT ![w] = x]
        BY <1>0, <4>1
      <4>4. x \in Returnings /\ x.id = k /\ x.order = returns[k].order
        BY <1>0, <2>1, <4>2, <4>3 DEF Returnings
      <4>. QED
        BY <4>3, <4>4
    <3>2. CASE ReadReceived(w, k)
      <4>1. returning' = [returning EXCEPT ![w].id = k, ![w].order = returns[k].order]
        BY <3>2 DEF ReadReceived
      <4>2. PICK x : /\ x = [returning[w] EXCEPT !.id = k, !.order = returns[k].order]
                     /\ returning' = [returning EXCEPT ![w] = x]
        BY <1>0, <4>1
      <4>3. x \in Returnings /\ x.id = k /\ x.order = returns[k].order
        BY <1>0, <2>1, <4>2 DEF Returnings
      <4>. QED
        BY <4>2, <4>3
    <3>. QED
      BY <1>3, <3>1, <3>2
  <2>4. returning'[w] = x
    BY <1>0, <2>3
  <2>. QED
    BY <2>1, <2>2, <2>3, <2>4 DEF ReturningOK, ReturnSteps
<1>4. ASSUME NEW x \in Returnings, returning' = [returning EXCEPT ![w] = x],
             x.id = returning[w].id, x.order = returning[w].order, x.lines = returning[w].lines,
             pc[w] \in ReturnSteps,
             \/ pc'[w] = pc[w]
             \/ pc[w] \in {"query", "lock"} /\ pc'[w] \in {"query", "lock"},
             pc'[w] = "lock" => x.todo # <<>>
      PROVE  /\ returning' = [returning EXCEPT ![w] = returning'[w]]
             /\ returning'[w] \in Returnings
             /\ ReturningOK(w)'
  <2>1. returning'[w] = x
    BY <1>0, <1>4
  <2>. QED
    BY <1>0, <1>4, <2>1 DEF ReturningOK, ReturnSteps
<1>5. CASE QueryReturned(w)
  <2>. DEFINE o == returning[w].order
              i == Head(returning[w].todo)
  <2>1. PICK q \in SetToSeqs(ReturnsOf(o, i)) :
            returning' = [returning EXCEPT ![w].queue = q, ![w].returned = Returned(o, i)]
    BY <1>5 DEF QueryReturned
  <2>2. q \in Seq(DOMAIN returns) /\ Returned(o, i) \in Nat
    <3>. HIDE DEF o, i
    <3>1. q \in Seq(ReturnsOf(o, i))
      BY ReturnFacts, ReturnedType, SeqOfSet
    <3>. QED
      BY <3>1, ReturnFacts, ReturnedType, SeqWithin
  <2>. HIDE DEF o, i
  <2>3. PICK x : /\ x = [returning[w] EXCEPT !.queue = q, !.returned = Returned(o, i)]
                 /\ returning' = [returning EXCEPT ![w] = x]
    BY <1>0, <2>1
  <2>4. /\ x \in Returnings /\ x.id = returning[w].id /\ x.order = returning[w].order
        /\ x.lines = returning[w].lines /\ x.todo = returning[w].todo
    BY <1>0, <2>2, <2>3 DEF Returnings
  <2>5. /\ pc[w] = "query" /\ pc'[w] = "lock" /\ UNCHANGED holds
        /\ returning[w].todo # <<>>
    BY <1>0, <1>5 DEF QueryReturned
  <2>. QED
    BY <1>0, <1>4, <2>3, <2>4, <2>5 DEF ReturnSteps
<1>6. CASE LockReturn(w)
  <2>1. /\ returning[w].queue \in Seq(DOMAIN returns) /\ returning[w].queue # <<>>
        /\ returning' = [returning EXCEPT ![w].queue = Tail(@)]
        /\ holds' = [holds EXCEPT ![w] = @ \cup {Head(returning[w].queue)}]
        /\ pc[w] = "lock" /\ UNCHANGED pc
    BY <1>0, <1>6 DEF LockReturn, Returnings, storeVars
  <2>a. ASSUME NEW S, NEW s \in Seq(S), s # <<>> PROVE Tail(s) \in Seq(S) /\ Head(s) \in S
    BY <2>a
  <2>2. Tail(returning[w].queue) \in Seq(DOMAIN returns) /\ Head(returning[w].queue) \in DOMAIN returns
    BY <2>1, <2>a, Zenon
  <2>3. PICK x : /\ x = [returning[w] EXCEPT !.queue = Tail(returning[w].queue)]
                 /\ returning' = [returning EXCEPT ![w] = x]
    BY <1>0, <2>1
  <2>4. /\ x \in Returnings /\ x.id = returning[w].id /\ x.order = returning[w].order
        /\ x.lines = returning[w].lines /\ x.todo = returning[w].todo
    BY <1>0, <2>2, <2>3 DEF Returnings
  <2>5. holds' \in [Workers -> SUBSET DOMAIN returns]
    BY <1>0, <2>1, <2>2
  <2>. QED
    BY <1>0, <1>4, <2>1, <2>3, <2>4, <2>5 DEF ReturnSteps, ReturningOK
<1>7. CASE ItemReturnable(w)
  <2>0. returning[w].todo \in Seq(Nat \ {0})
    BY <1>0 DEF Returnings
  <2>1. /\ returning' = [returning EXCEPT ![w].todo = Tail(@), ![w].returned = 0]
        /\ pc[w] = "lock" /\ pc'[w] = "query" /\ UNCHANGED holds
    BY <1>0, <1>7 DEF ItemReturnable
  <2>2. Tail(returning[w].todo) \in Seq(Nat \ {0})
    BY <1>0, <2>0, <2>1 DEF ReturningOK
  <2>3. PICK x : /\ x = [returning[w] EXCEPT !.todo = Tail(returning[w].todo), !.returned = 0]
                 /\ returning' = [returning EXCEPT ![w] = x]
    BY <1>0, <2>1
  <2>4. /\ x \in Returnings /\ x.id = returning[w].id /\ x.order = returning[w].order
        /\ x.lines = returning[w].lines
    BY <1>0, <2>2, <2>3 DEF Returnings
  <2>. QED
    BY <1>0, <1>4, <2>1, <2>3, <2>4 DEF ReturnSteps
<1>8. CASE Restock(w)
  <2>1. /\ returning[w].plan \in Seq(Takes) /\ returning[w].plan # <<>>
        /\ returning' = [returning EXCEPT ![w].plan = Tail(@)]
        /\ pc[w] = "restock" /\ UNCHANGED pc /\ UNCHANGED holds
    BY <1>0, <1>8 DEF Restock, Returnings
  <2>2. Tail(returning[w].plan) \in Seq(Takes)
    BY <2>1
  <2>3. PICK x : /\ x = [returning[w] EXCEPT !.plan = Tail(returning[w].plan)]
                 /\ returning' = [returning EXCEPT ![w] = x]
    BY <1>0, <2>1
  <2>4. /\ x \in Returnings /\ x.id = returning[w].id /\ x.order = returning[w].order
        /\ x.lines = returning[w].lines
    BY <1>0, <2>2, <2>3 DEF Returnings
  <2>. QED
    BY <1>0, <1>4, <2>1, <2>3, <2>4 DEF ReturnSteps
<1>. QED
  BY <1>0, <1>2, <1>3, <1>5, <1>6, <1>7, <1>8 DEF SendReturn

\* and so does one that ends.
LEMMA ReturnLeaves ==
  ASSUME OMSTypeInv, NEW w \in Workers, ReturnEvent(w)
  PROVE  ReturnStepOK(w)
<1>0. /\ SendReturn(w) \/ ReturnStep(w) \/ AbortReturn(w)
      /\ UNCHANGED <<orderVars, warehouseVars, lifeVars>> /\ UNCHANGED orders
  BY DEF ReturnEvent, ReturnSide, orderVars
<1>1. StepsWithin(w, ReturnSteps)
  BY <1>0, ReturnFacts, ReturnStepsTaken
<1>2. StoreOK' /\ requests' >= requests
  <2>1. CASE SendReturn(w)
    <3>1. PICK step : Accept(w, step)
      BY <2>1 DEF SendReturn, RequestReturn, ReadRequested, ReadReceived
    <3>2. StoreOK'
      BY <3>1, ReturnFacts, AcceptType
    <3>. QED
      BY <3>1, <3>2, ReturnFacts DEF Accept
  <2>. QED
    BY <1>0, <2>1, ReturnStore
<1>3. CASE \/ SendReturn(w) \/ QueryReturned(w) \/ LockReturn(w) \/ ItemReturnable(w) \/ Restock(w)
  <2>1. UNCHANGED <<orders, returns>>
    BY <1>0, <1>3 DEF SendReturn, RequestReturn, ReadRequested, ReadReceived, QueryReturned,
       LockReturn, ItemReturnable, Restock
  <2>2. Returnings' = Returnings
    BY <2>1 DEF Returnings
  <2>3. /\ holds' \in [Workers -> SUBSET DOMAIN returns]
        /\ returning' = [returning EXCEPT ![w] = returning'[w]]
        /\ returning'[w] \in Returnings
        /\ ReturningOK(w)'
    BY <1>3, <2>1, ReturnGoesOn
  <2>4. /\ returns' \in Seq(ReturnOrders)
        /\ \A k \in DOMAIN returns :
              k \in DOMAIN returns' /\ returns'[k].order = returns[k].order
        /\ ReturnsPlaced'
    BY <2>1, ReturnsKept
  <2>. QED
    BY <1>1, <1>2, <2>1, <2>2, <2>3, <2>4 DEF ReturnStepOK
<1>4. CASE \/ RefuseReturn(w) \/ AbortReturn(w) \/ CommitReturn(w) \/ CommitRestock(w)
           \/ CommitRefund(w)
  <2>1. EndReturn(w) /\ EndSession(w)
    BY <1>4 DEF RefuseReturn, AbortReturn, CommitReturn, CommitRestock, CommitRefund, Commit,
       Rollback
  <2>2. \/ UNCHANGED returns
        \/ pc[w] = "query" /\ CommitReturn(w)
        \/ \E s \in {"RECEIVED", "REFUNDED"} :
              pc[w] \in {"restock", "refund"} /\ SetStatus(w, s)
    BY <1>4 DEF RefuseReturn, AbortReturn, CommitReturn, CommitRestock, CommitRefund
  <2>3. /\ returns' \in Seq(ReturnOrders)
        /\ \A k \in DOMAIN returns :
              k \in DOMAIN returns' /\ returns'[k].order = returns[k].order
        /\ ReturnsPlaced'
    BY <1>0, <2>2, ReturnsKept
  <2>4. /\ holds' \in [Workers -> SUBSET DOMAIN returns']
        /\ returning' = [returning EXCEPT ![w] = NoReturn] /\ returning'[w] = NoReturn
        /\ pc'[w] = "idle"
    BY <2>1, <2>3, ReturnFacts DEF EndReturn, EndSession
  <2>5. NoReturn \in Returnings'
    BY DEF NoReturn, Returnings
  <2>6. ReturningOK(w)'
    BY <2>4 DEF ReturningOK, ReturnSteps
  <2>. QED
    BY <1>1, <1>2, <2>3, <2>4, <2>5, <2>6 DEF ReturnStepOK
<1>. QED
  BY <1>0, <1>3, <1>4 DEF ReturnStep

\* Requests about returns keep the types.
LEMMA ReturnTypes ==
  ASSUME OMSTypeInv, NEW w \in Workers, ReturnEvent(w)
  PROVE  OMSTypeInv'
<1>0. /\ ReturnStepOK(w) /\ TypeInv /\ AtStep
      /\ UNCHANGED <<orderVars, warehouseVars, lifeVars>> /\ UNCHANGED <<orders, job, receipt>>
      /\ \A v \in Workers : ReturningOK(v)
  BY ReturnLeaves, ReturnFacts
  DEF ReturnEvent, ReturnSide, OMSTypeInv, orderVars, warehouseVars
<1>1. /\ pc[w] \in {"idle"} \cup ReturnSteps /\ pc'[w] \in {"idle"} \cup ReturnSteps
      /\ pc' = [pc EXCEPT ![w] = pc'[w]]
      /\ \A v \in Workers \ {w} : pc'[v] = pc[v]
  BY <1>0, ReturnFacts DEF ReturnStepOK, StepsWithin
<1>2. TypeInv'
  <2>1. StoreOK'
    BY <1>0 DEF ReturnStepOK
  <2>2. OrdersTypeOK' /\ WarehousesTypeOK'
    BY <1>0 DEF TypeInv, Typed, OrdersTypeOK, WarehousesTypeOK, orderVars, warehouseVars
  <2>3. LocalsOK'
    BY <1>0, <1>1 DEF TypeInv, LocalsOK, ReceiptSteps, ReturnSteps
  <2>. QED
    BY <2>1, <2>2, <2>3 DEF StoreOK, TypeInv, Typed
<1>3. AtStep'
  BY <1>0, <1>1 DEF AtStep
<1>4. DOMAIN returns \subseteq DOMAIN returns'
  BY <1>0 DEF ReturnStepOK
<1>5. ReturnsTypeOK'
  <2>1. ASSUME NEW v \in Workers PROVE returning'[v] \in Returnings'
    <3>1. CASE v = w
      BY <1>0, <3>1 DEF ReturnStepOK
    <3>2. CASE v # w
      <4>1. returning'[v] = returning[v] /\ returning[v] \in Returnings
        BY <1>0, <3>2, ReturnFacts DEF ReturnStepOK
      <4>2. \A s \in Seq(DOMAIN returns) : s \in Seq(DOMAIN returns')
        BY <1>4, SeqWithin, Zenon
      <4>3. Returnings \subseteq Returnings'
        BY <1>0, <1>4, <4>2 DEF Returnings
      <4>. QED
        BY <4>1, <4>3
    <3>. QED
      BY <3>1, <3>2
  <2>2. returning' \in [Workers -> Returnings']
    BY <1>0, <2>1, ReturnFacts DEF ReturnStepOK
  <2>. QED
    BY <1>0, <2>2 DEF ReturnStepOK, ReturnsTypeOK, Returnings
<1>6. LocalsTyped'
  <2>1. ASSUME NEW v \in Workers PROVE TaskOK(v)'
    BY <1>0 DEF OMSTypeInv, LocalsTyped, TaskOK, lifeVars
  <2>2. ASSUME NEW v \in Workers PROVE ReturningOK(v)'
    <3>1. CASE v = w
      BY <1>0, <3>1 DEF ReturnStepOK
    <3>2. CASE v # w
      <4>1. returning'[v] = returning[v] /\ pc'[v] = pc[v] /\ ReturningOK(v)
        BY <1>0, <1>1, <3>2, ReturnFacts DEF ReturnStepOK
      <4>2. \A k \in DOMAIN returns : k \in DOMAIN returns' /\ returns'[k].order = returns[k].order
        BY <1>0 DEF ReturnStepOK
      <4>. QED
        BY <1>0, <4>1, <4>2 DEF ReturningOK
    <3>. QED
      BY <3>1, <3>2
  <2>. QED
    BY <2>1, <2>2 DEF LocalsTyped
<1>7. OrdersCounted'
  <2>1. Creating' \subseteq Creating
    BY <1>0, <1>1 DEF Creating, ReturnSteps
  <2>2. CountsOrders(w)
    BY <1>0, <2>1 DEF CountsOrders, ReturnStepOK
  <2>. QED
    BY <1>2, <2>2, CountKept DEF OMSTypeInv
<1>8. LifeTypeOK'
  BY <1>0 DEF OMSTypeInv, LifeTypeOK, lifeVars
<1>9. ReturnsPlaced'
  BY <1>0 DEF ReturnStepOK
<1>. QED
  BY <1>2, <1>3, <1>5, <1>6, <1>7, <1>8, <1>9 DEF OMSTypeInv

\* A step that changes nothing keeps the types.
LEMMA OMSTypeStutter ==
  ASSUME OMSTypeInv, UNCHANGED omsVars
  PROVE  OMSTypeInv'
<1>1. UNCHANGED vars /\ UNCHANGED <<returnVars, lifeVars, orders, pc, requests>>
  BY DEF omsVars, vars, storeVars, orderVars
<1>2. TypeInv'
  BY <1>1, TypeStutter DEF OMSTypeInv
<1>. QED
  BY <1>1, <1>2
  DEF OMSTypeInv, AtStep, ReturnsTypeOK, LifeTypeOK, LocalsTyped, TaskOK, ReturningOK, ReturnsPlaced,
      OrdersCounted, Creating, returnVars, lifeVars

\* Every step is a manual operation, or a step of a request, or nothing.
LEMMA OMSStepOf ==
  ASSUME [OMSNext]_omsVars
  PROVE  \/ InventoryNext /\ UNCHANGED <<orderVars, warehouseVars, returnVars, lifeVars>>
         \/ \E w \in Workers : /\ task[w].step = "idle"
                               /\ OrderEvent(w) \/ ReceiptEvent(w) \/ ReturnEvent(w)
         \/ \E w \in Workers : pc[w] = "idle" /\ LifeEvent(w)
         \/ UNCHANGED omsVars
BY DEF OMSNext, LC!At

\* The types hold always,
LEMMA OMSTypeInvariant == OMSSpec => []OMSTypeInv
<1>1. OMSTypeInv /\ [OMSNext]_omsVars => OMSTypeInv'
  BY OMSStepOf, ManualTypes, OrderTypes, ReceiptTypes, ReturnTypes, LifeTypes, OMSTypeStutter
<1>. QED
  BY OMSTypeInit, <1>1, PTL DEF OMSSpec

\* Every variable of the whole system keeps its type, for any number of
\* sessions, rows, orders, returns and requests.
THEOREM OMSTypeCorrect == OMSSpec => []OMSTypeOK
  BY OMSTypeInvariant, OMSTypes, PTL

-----------------------------------------------------------------------------
(***************************************************************************)
(* The stock and its ledger, however requests overlap.                     *)
(***************************************************************************)

\* What a return commits: it adds what it has posted.
LEMMA WrittenByRestock ==
  ASSUME TypeInv, StockInv, NEW w \in Workers, pc[w] = "restock"
  PROVE  Written(w, "RETURN") = [r \in Rows |-> Add(inventory[r], posted[w][r])]
<1>1. ASSUME NEW r \in Rows
      PROVE  Written(w, "RETURN")[r] = Add(inventory[r], posted[w][r])
  <2>1. inventory[r] \in Quantities /\ posted[w][r] \in Nat
    BY DEF TypeInv, Typed, StoreTypeOK
  <2>2. CASE posted[w][r] = 0
    BY <2>1, <2>2, RowFacts DEF Written
  <2>3. CASE posted[w][r] > 0
    <3>1. image[w][r] = Add(inventory[r], posted[w][r])
      BY <2>3 DEF StockInv, SessionOK, LocksOK, ImagesOK, LockingSteps
    <3>2. [image[w][r] EXCEPT !.reserved = inventory[r].reserved] = image[w][r]
      BY <3>1 DEF Add
    <3>. QED
      BY <2>3, <3>1, <3>2 DEF Written
  <2>. QED
    BY <2>1, <2>2, <2>3
<1>. QED
  BY <1>1 DEF Written

\* The commit of a return keeps the invariant of stock: receipts that read the
\* row before it are still explained.
LEMMA CommitRestockInv ==
  ASSUME TypeInv, StockInv, NEW w \in Workers, CommitRestock(w), UNCHANGED warehouseVars
  PROVE  StockInv'
<1>1. pc[w] = "restock" /\ Commit(w, "RETURN")
  BY DEF CommitRestock
<1>2. inventory' = [r \in Rows |-> Add(inventory[r], posted[w][r])]
  BY <1>1, WrittenByRestock DEF Commit
<1>3. ASSUME NEW r \in Rows
      PROVE  /\ inventory[r] \in Quantities
             /\ posted[w][r] \in Nat
             /\ rowLock[r] \notin {w, NoWorker} => inventory'[r] = inventory[r]
  <2>1. inventory[r] \in Quantities /\ posted[w][r] \in Nat
    BY DEF TypeInv, Typed, StoreTypeOK
  <2>2. inventory'[r] = Add(inventory[r], posted[w][r])
    BY <1>2
  <2>3. rowLock[r] \notin {w, NoWorker} => posted[w][r] = 0
    BY <1>1, LockExcludes DEF LockingSteps
  <2>4. Add(inventory[r], 0) = inventory[r]
    BY <2>1, RowFacts
  <2>. QED
    BY <2>1, <2>2, <2>3, <2>4
<1>4. ASSUME NEW r \in Rows
      PROVE  /\ movements'["RETURN"][r] = movements["RETURN"][r] + posted[w][r]
             /\ movements'["RESERVATION"][r] = movements["RESERVATION"][r]
             /\ movements'["RELEASE"][r] = movements["RELEASE"][r]
             /\ movements'["RECEIPT"][r] = movements["RECEIPT"][r]
             /\ movements["RECEIPT"][r] \in Nat /\ movements["RETURN"][r] \in Nat
  BY <1>1 DEF Commit, TypeInv, Typed, StoreTypeOK, MovementTypes
<1>5. \A v \in Workers : pc[v] = "store" => receipt[v].at \in Rows
  BY DEF TypeInv, LocalsOK, ReceiptSteps, Receipts
<1>6. \A v \in Workers : SessionOK(v)'
  <2>1. \A r \in Rows : StaysExplained(r)
    BY <1>3, <1>4 DEF StaysExplained
  <2>. QED
    BY <1>1, <1>3, <1>5, <2>1, EndSessionInv DEF Commit, warehouseVars
<1>7. ASSUME NEW r \in Rows
      PROVE  RowOK(r)'
  <2>1. /\ inventory'[r] = Add(inventory[r], posted[w][r])
        /\ InitialStock[r] \in Nat /\ RowOK(r)
    BY <1>2, StoreAssumption DEF StockInv
  <2>. QED
    BY <1>3, <1>4, <2>1 DEF RowOK, Explained, Balanced, Add, Quantities
<1>. QED
  BY <1>6, <1>7 DEF StockInv

\* Restocking locks a row and adds to it.
LEMMA RestockInv ==
  ASSUME OMSTypeInv, StockInv, NEW w \in Workers, Restock(w), UNCHANGED warehouseVars
  PROVE  StockInv'
<1>. DEFINE t == Head(returning[w].plan)
<1>1. returning[w].plan \in Seq(Takes) /\ returning[w].plan # <<>>
  BY ReturnFacts DEF Restock, Returnings
<1>2. t \in Takes
  BY <1>1
<1>3. t.row \in Rows /\ t.quantity \in Nat
  BY <1>2 DEF Takes
<1>4. /\ pc[w] \in LockingSteps
      /\ LockAndChange(w, t.row, Changed(w, Loaded(w, t.row), t.quantity), t.quantity)
      /\ UNCHANGED <<inventory, movements, whLock, pc, receipt>>
  BY DEF Restock, Changed, LockingSteps, warehouseVars
<1>. HIDE DEF t
<1>. QED
  BY <1>3, <1>4, LockAndChangeInv DEF OMSTypeInv

\* Requests about returns keep the invariant of stock.
LEMMA ReturnStockInv ==
  ASSUME OMSTypeInv, StockInv, NEW w \in Workers, ReturnEvent(w)
  PROVE  StockInv'
<1>1. /\ UNCHANGED warehouseVars /\ UNCHANGED receipt /\ TypeInv
      /\ pc = [v \in Workers |-> pc[v]]
  BY DEF ReturnEvent, ReturnSide, OMSTypeInv, TypeInv, Typed, warehouseVars
<1>2. CASE SendReturn(w)
  <2>1. PICK step \in ReturnSteps : Accept(w, step)
    BY <1>2 DEF SendReturn, RequestReturn, ReadRequested, ReadReceived, ReturnSteps
  <2>. QED
    BY <1>1, <2>1, QuietInv DEF Accept, LockingSteps, ReturnSteps
<1>3. CASE QueryReturned(w) \/ LockReturn(w) \/ ItemReturnable(w)
  BY <1>1, <1>3, QuietInv DEF QueryReturned, LockReturn, ItemReturnable, LockingSteps, storeVars
<1>4. CASE RefuseReturn(w) \/ CommitReturn(w) \/ CommitRefund(w) \/ AbortReturn(w)
  <2>1. Rollback(w)
    BY <1>4 DEF RefuseReturn, CommitReturn, CommitRefund, AbortReturn, Rollback
  <2>. QED
    BY <1>1, <2>1, RollbackInv
<1>. QED
  BY <1>1, <1>2, <1>3, <1>4, RestockInv, CommitRestockInv DEF ReturnEvent, ReturnStep

\* So do all others.
LEMMA OMSStockStep ==
  ASSUME OMSTypeInv, StockInv, [OMSNext]_omsVars
  PROVE  StockInv'
<1>1. CASE InventoryNext /\ UNCHANGED <<orderVars, warehouseVars, returnVars, lifeVars>>
  BY <1>1, ManualInv DEF InventoryNext, OMSTypeInv
<1>2. ASSUME NEW w \in Workers, OrderEvent(w)
      PROVE  StockInv'
  <2>1. Send(w) \/ OrderStep(w) \/ AbortOrder(w)
    BY <1>2 DEF OrderEvent
  <2>2. UNCHANGED warehouseVars /\ TypeInv
    BY <1>2 DEF OrderEvent, OrderSide, OMSTypeInv
  <2>. QED
    BY <2>1, <2>2, QuietStepsInv, RejectInv, AllocateFromInv, ReleaseStockInv, CommitOrderInv,
       CommitCancelInv
    DEF Send, OrderStep
<1>3. ASSUME NEW w \in Workers, ReceiptEvent(w)
      PROVE  StockInv'
  <2>1. (Deliver(w) \/ ReceiptStep(w) \/ AbortReceipt(w)) /\ TypeInv
    BY <1>3 DEF ReceiptEvent, OMSTypeInv
  <2>. QED
    BY <2>1, QuietStepsInv, LockWarehouseInv, CommitReceiptInv, RefuseInv DEF ReceiptStep
<1>4. ASSUME UNCHANGED <<inventory, movements, rowLock, whLock, pc, image, posted, receipt>>
      PROVE  StockInv'
  BY <1>4 DEF StockInv, SessionOK, LocksOK, ImagesOK, ReceiptOK, RowOK, Site, Explained
<1>5. ASSUME NEW w \in Workers, LifeEvent(w)
      PROVE  StockInv'
  BY <1>4, <1>5 DEF LifeEvent, LifeSide, warehouseVars
<1>6. CASE UNCHANGED omsVars
  BY <1>4, <1>6 DEF omsVars, vars, storeVars, warehouseVars
<1>. QED
  BY <1>1, <1>2, <1>3, <1>5, <1>6, OMSStepOf, ReturnStockInv

\* What sessions rely on and rows keep in the whole system.
LEMMA OMSStockInvariant == OMSSpec => [](OMSTypeInv /\ StockInv)
<1>1. OMSInit => StockInv
  BY SoldBacks, StockInvInit DEF OMSInit
<1>2. OMSTypeInv /\ StockInv /\ [OMSNext]_omsVars => StockInv'
  BY OMSStockStep
<1>. QED
  BY <1>1, <1>2, OMSTypeInvariant, PTL DEF OMSSpec

\* Whatever overlaps, the ledger explains every quantity of a row into which
\* nothing was received since.
THEOREM OMSLedgerExplains == OMSSpec => []LedgerExplainsStock
<1>1. OMSTypeInv /\ StockInv => LedgerExplainsStock
  <2>. SUFFICES ASSUME OMSTypeInv, StockInv, NEW r \in Rows,
                       movements["RECEIPT"][r] = InitialStock[r]
                PROVE  LET reserved == movements["RESERVATION"][r] - movements["RELEASE"][r]
                       IN  /\ inventory[r].on_hand = InitialStock[r] + movements["RETURN"][r]
                           /\ inventory[r].reserved = reserved
                           /\ inventory[r].available = inventory[r].on_hand - reserved
    BY DEF LedgerExplainsStock
  <2>1. RowOK(r)
    BY DEF StockInv
  <2>2. /\ inventory[r] \in Quantities
        /\ movements["RESERVATION"][r] \in Nat /\ movements["RELEASE"][r] \in Nat
    BY DEF OMSTypeInv, TypeInv, Typed, StoreTypeOK, MovementTypes
  <2>. QED
    BY <2>1, <2>2 DEF RowOK, Quantities
<1>. QED
  BY <1>1, OMSStockInvariant, PTL

\* Receipts lose no receipt, and nothing is on hand that was neither received
\* nor returned.
THEOREM OMSOnHandBounded == OMSSpec => []OnHandBounded
<1>1. StockInv => OnHandBounded
  BY DEF StockInv, RowOK, Explained, OnHandBounded
<1>. QED
  BY <1>1, OMSStockInvariant, PTL

-----------------------------------------------------------------------------
(***************************************************************************)
(* What is reserved is what the orders that are not cancelled hold, while  *)
(* the requests about an order come one at a time and nobody reserves by   *)
(* hand.                                                                   *)
(***************************************************************************)

\* Receipts and returns leave orders and the jobs of sessions alone.
LEMMA OtherEvents ==
  ASSUME OMSTypeInv, NEW w \in Workers, ReceiptEvent(w) \/ ReturnEvent(w)
  PROVE  /\ UNCHANGED <<orders, job>>
         /\ \A v \in Workers \ {w} : pc'[v] = pc[v]
         /\ pc[w] \notin OrderSteps /\ pc'[w] \notin OrderSteps
<1>1. pc = [v \in Workers |-> pc[v]]
  BY DEF OMSTypeInv, TypeInv, Typed
<1>2. StepsWithin(w, ReceiptSteps) \/ StepsWithin(w, ReturnSteps)
  BY <1>1, ReceiptStepsTaken, ReturnStepsTaken DEF ReceiptEvent, ReturnEvent
<1>3. \A v \in Workers \ {w} : pc'[v] = pc[v]
  BY <1>1, <1>2 DEF StepsWithin
<1>4. pc[w] \notin OrderSteps /\ pc'[w] \notin OrderSteps
  BY <1>2 DEF StepsWithin, OrderSteps, ReceiptSteps, ReturnSteps
<1>. QED
  BY <1>3, <1>4 DEF ReceiptEvent, ReturnEvent, ReceiptSide, ReturnSide, orderVars

\* The jobs of sessions are as they should be after every step.
LEMMA OMSJobsStep ==
  ASSUME OMSTypeInv, JobsInv, [OMSNext]_omsVars
  PROVE  JobsInv'
<1>1. CASE InventoryNext /\ UNCHANGED <<orderVars, warehouseVars, returnVars, lifeVars>>
  <2>1. pc' = pc /\ job' = job
    BY <1>1 DEF InventoryNext, Reserve, Release, orderVars
  <2>. QED
    BY <2>1, JobsKept
<1>2. ASSUME NEW w \in Workers, OrderEvent(w) PROVE JobsInv'
  BY <1>2, HandlersType, JobsStep DEF OrderEvent, OMSTypeInv
<1>3. ASSUME NEW w \in Workers, ReceiptEvent(w) \/ ReturnEvent(w) PROVE JobsInv'
  <2>1. \A v \in Workers : \/ pc'[v] = pc[v]
                           \/ pc[v] \notin OrderSteps /\ pc'[v] \notin OrderSteps
    BY <1>3, OtherEvents
  <2>. QED
    BY <1>3, <2>1, OtherEvents, JobsKept
<1>4. ASSUME NEW w \in Workers, LifeEvent(w) PROVE JobsInv'
  BY <1>4, JobsKept DEF LifeEvent, LifeSide
<1>5. CASE UNCHANGED omsVars
  BY <1>5, JobsKept DEF omsVars, vars, storeVars, orderVars
<1>. QED
  BY <1>1, <1>2, <1>3, <1>4, <1>5, OMSStepOf

\* Two sessions do not cancel one order when clients are disciplined.
LEMMA DisciplineSeparates ==
  ASSUME Overlapping = {}, Disciplined'
  PROVE  Separate'
<1>. SUFFICES ASSUME NEW v \in Workers, NEW w \in Workers, v # w,
                     pc'[v] \in {"cancel", "release"}, pc'[w] \in {"cancel", "release"},
                     job'[v].target = job'[w].target
              PROVE  FALSE
  BY DEF Separate
<1>1. About(v)' = {job'[v].target} /\ About(w)' = {job'[w].target}
  BY DEF About, ReturnSteps
<1>2. About(v)' \cap About(w)' \subseteq {}
  BY DEF Disciplined
<1>. QED
  BY <1>1, <1>2

\* A return changes no reserved quantity and nothing of another session.
LEMMA ReturnsReserveNothing ==
  ASSUME OMSTypeInv, StockInv, NEW w \in Workers, ReturnEvent(w)
  PROVE  /\ \A r \in Rows : inventory'[r].reserved = inventory[r].reserved
         /\ \A v \in Workers \ {w} : posted'[v] = posted[v]
<1>1. inventory \in [Rows -> Quantities] /\ posted \in [Workers -> [Rows -> Nat]]
  BY DEF OMSTypeInv, TypeInv, Typed, StoreTypeOK
<1>2. CASE CommitRestock(w)
  <2>1. /\ inventory' = [r \in Rows |-> Add(inventory[r], posted[w][r])]
        /\ EndSession(w)
    BY <1>2, WrittenByRestock DEF CommitRestock, Commit, OMSTypeInv
  <2>2. \A r \in Rows : inventory'[r].reserved = inventory[r].reserved
    BY <2>1 DEF Add
  <2>3. \A v \in Workers \ {w} : posted'[v] = posted[v]
    BY <1>1, <2>1 DEF EndSession
  <2>. QED
    BY <2>2, <2>3
<1>3. CASE RefuseReturn(w) \/ CommitReturn(w) \/ CommitRefund(w) \/ AbortReturn(w)
  <2>1. inventory' = inventory /\ EndSession(w)
    BY <1>3 DEF RefuseReturn, CommitReturn, CommitRefund, AbortReturn, Rollback
  <2>. QED
    BY <1>1, <2>1 DEF EndSession
<1>4. CASE Restock(w)
  <2>1. inventory' = inventory /\ \E r, q : posted' = [posted EXCEPT ![w][r] = @ + q]
    BY <1>4 DEF Restock, LockAndChange
  <2>. QED
    BY <1>1, <2>1
<1>5. CASE QueryReturned(w) \/ LockReturn(w) \/ ItemReturnable(w) \/ SendReturn(w)
  BY <1>5 DEF QueryReturned, LockReturn, ItemReturnable, SendReturn, RequestReturn,
     ReadRequested, ReadReceived, Accept, storeVars
<1>. QED
  BY <1>2, <1>3, <1>4, <1>5 DEF ReturnEvent, ReturnStep

\* Fulfillment and shipments keep what orders hold and what they released.
LEMMA LifeBacked ==
  ASSUME OMSTypeInv, BackedInv, NEW w \in Workers, LifeEvent(w)
  PROVE  BackedInv'
<1>1. /\ LifeSide(w) /\ UNCHANGED <<inventory, pc, job, posted>> /\ TypeInv
      /\ orders \in Seq(PlacedOrders)
  BY DEF LifeEvent, LifeSide, OMSTypeInv, TypeInv, Typed, OrdersTypeOK
<1>2. /\ DOMAIN orders' = DOMAIN orders
      /\ \A o \in DOMAIN orders : SameOrderBut(o)
  BY <1>1, LifeOrders
<1>3. \A o \in DOMAIN orders : Unreleased(o)' = Unreleased(o)
  BY <1>2 DEF Unreleased, SameOrderBut
<1>4. ASSUME NEW v \in Workers PROVE SessionBacked(v)'
  <2>1. ASSUME pc[v] = "release"
        PROVE  Unreleased(job[v].target)' = Unreleased(job[v].target)
    <3>1. job[v].target \in DOMAIN orders
      BY <1>1, <2>1 DEF TypeInv, LocalsOK
    <3>. QED
      BY <1>1, <1>2, <3>1 DEF Unreleased, SameOrderBut
  <2>. QED
    BY <1>1, <2>1, SameBacked DEF BackedInv, SessionsBacked
<1>5. Separate'
  BY <1>1 DEF BackedInv, Separate
<1>6. Backed'
  <2>1. SameGoods /\ \A o \in DOMAIN orders : orders'[o].released = orders[o].released
    BY <1>2 DEF SameGoods, SameOrderBut
  <2>. QED
    BY <1>1, <2>1, BackedKept DEF BackedInv
<1>. QED
  BY <1>4, <1>5, <1>6 DEF BackedInv, SessionsBacked

\* Every step keeps sessions and rows backed.
LEMMA OMSBackedStep ==
  ASSUME Overlapping = {}, ManualQuantities = {},
         OMSTypeInv, StockInv, JobsInv, BackedInv, [OMSNext]_omsVars, Disciplined'
  PROVE  BackedInv'
<1>1. Separate'
  BY DisciplineSeparates
<1>2. CASE InventoryNext
  BY <1>2 DEF InventoryNext
<1>3. ASSUME NEW w \in Workers, OrderEvent(w) PROVE BackedInv'
  BY <1>1, <1>3, BackedStepOrders DEF OrderEvent, OMSTypeInv
<1>4. ASSUME NEW w \in Workers, ReceiptEvent(w) PROVE BackedInv'
  BY <1>4, BackedStepReceipts DEF ReceiptEvent, ReceiptSide, OMSTypeInv
<1>5. ASSUME NEW w \in Workers, ReturnEvent(w) PROVE BackedInv'
  <2>1. TypeInv
    BY DEF OMSTypeInv
  <2>. QED
    BY <1>5, <2>1, OtherEvents, ReturnsReserveNothing, BackedStepOthers
<1>6. CASE UNCHANGED omsVars
  BY <1>6, BackedStepOthers DEF omsVars, vars, storeVars, orderVars, OMSTypeInv
<1>. QED
  BY <1>2, <1>3, <1>4, <1>5, <1>6, OMSStepOf, LifeBacked

\* At first the orders that were delivered before have reserved what they hold.
LEMMA OMSBackedInit == OMSInit => JobsInv /\ BackedInv
<1>. SUFFICES ASSUME OMSInit PROVE JobsInv /\ BackedInv
  OBVIOUS
<1>1. \A w \in Workers : pc[w] = "idle" /\ job[w] = NoJob
  BY DEF OMSInit, Opening
<1>2. \A r \in Rows : inventory[r].reserved = Sold[r]
  BY DEF OMSInit, Opening
<1>3. Backed
  BY <1>2, SoldBacks DEF Backed
<1>. QED
  BY <1>1, <1>3 DEF JobsInv, JobOK, OrderSteps, BackedInv, SessionsBacked, SessionBacked, Separate

\* The clients keep their discipline.
LEMMA DisciplineKept == OMSSpec => []Disciplined
<1>1. OMSInit => Disciplined
  <2>1. ASSUME OMSInit, NEW w \in Workers PROVE About(w) = {} /\ task[w].order = 0
    BY <2>1 DEF OMSInit, Opening, About, LC!Idle, ReturnSteps
  <2>2. OMSInit => 0 \notin DOMAIN orders
    BY DeliveredFacts DEF OMSInit
  <2>. QED
    BY <2>1, <2>2 DEF Disciplined
<1>2. Disciplined /\ [OMSNext]_omsVars => Disciplined'
  BY DEF OMSNext, omsVars, vars, storeVars, orderVars, returnVars, lifeVars, Disciplined, About
<1>. QED
  BY <1>1, <1>2, PTL DEF OMSSpec

\* What sessions and rows have is backed always.
LEMMA OMSBackedInvariant ==
  ASSUME Overlapping = {}, ManualQuantities = {}
  PROVE  OMSSpec => [](JobsInv /\ BackedInv)
<1>1. OMSTypeInv /\ StockInv /\ (JobsInv /\ BackedInv) /\ [OMSNext]_omsVars /\ Disciplined'
          => (JobsInv /\ BackedInv)'
  BY OMSJobsStep, OMSBackedStep
<1>. QED
  BY <1>1, OMSBackedInit, DisciplineKept, OMSStockInvariant, PTL DEF OMSSpec

\* When the requests about an order come one at a time and nobody reserves by
\* hand, the reserved quantity of a row is what the orders that are not
\* cancelled hold of it, through picking, shipping, delivery and returns.
THEOREM OMSReservedAllocated ==
  ASSUME Overlapping = {}, ManualQuantities = {}
  PROVE  OMSSpec => []ReservedIsAllocated
<1>1. BackedInv => ReservedIsAllocated
  BY DEF BackedInv, Backed, Backing, Open, ReservedIsAllocated, HeldBy
<1>. QED
  BY <1>1, OMSBackedInvariant, PTL

-----------------------------------------------------------------------------
(***************************************************************************)
(* The status of a return only goes forward, while the requests about an   *)
(* order come one at a time.  A session that restocks or refunds relies on *)
(* the status it read without a lock.                                      *)
(***************************************************************************)

\* Whatever is no step of a return leaves the returns and their sessions
\* alone; carts are never changed.
LEMMA ReturnsAlone ==
  ASSUME OMSTypeInv, [OMSNext]_omsVars
  PROVE  /\ DOMAIN orders \subseteq DOMAIN orders'
         /\ \A o \in DOMAIN orders : orders'[o].cart = orders[o].cart
         /\ \/ \E w \in Workers : ReturnEvent(w)
            \/ /\ UNCHANGED returnVars
               /\ \A v \in Workers : pc'[v] = pc[v] \/ pc'[v] \notin ReturnSteps
<1>0. orders \in Seq(PlacedOrders) /\ pc = [v \in Workers |-> pc[v]] /\ TypeInv
  BY DEF OMSTypeInv, TypeInv, Typed, OrdersTypeOK
<1>1. CASE InventoryNext /\ UNCHANGED <<orderVars, warehouseVars, returnVars, lifeVars>>
  BY <1>1 DEF InventoryNext, Reserve, Release, orderVars
<1>2. ASSUME NEW w \in Workers, OrderEvent(w)
      PROVE  /\ DOMAIN orders \subseteq DOMAIN orders'
             /\ \A o \in DOMAIN orders : orders'[o].cart = orders[o].cart
             /\ UNCHANGED returnVars
             /\ \A v \in Workers : pc'[v] = pc[v] \/ pc'[v] \notin ReturnSteps
  <2>1. /\ Send(w) \/ OrderStep(w) \/ AbortOrder(w)
        /\ UNCHANGED returnVars
    BY <1>2 DEF OrderEvent, OrderSide
  <2>2. StepsWithin(w, OrderSteps)
    BY <1>0, <2>1, OrderStepsTaken
  <2>3. \A v \in Workers : pc'[v] = pc[v] \/ pc'[v] \notin ReturnSteps
    BY <1>0, <2>2 DEF StepsWithin, OrderSteps, ReturnSteps
  <2>4. /\ DOMAIN orders \subseteq DOMAIN orders'
        /\ \A o \in DOMAIN orders : orders'[o].cart = orders[o].cart
    <3>1. CASE CommitOrder(w)
      BY <1>0, <3>1 DEF CommitOrder
    <3>2. CASE ~ CommitOrder(w)
      BY <1>0, <2>1, <3>2, OthersSameGoods DEF SameGoods
    <3>. QED
      BY <3>1, <3>2
  <2>. QED
    BY <2>1, <2>3, <2>4
<1>3. ASSUME NEW w \in Workers, ReceiptEvent(w)
      PROVE  /\ UNCHANGED orders /\ UNCHANGED returnVars
             /\ \A v \in Workers : pc'[v] = pc[v] \/ pc'[v] \notin ReturnSteps
  <2>1. StepsWithin(w, ReceiptSteps)
    BY <1>0, <1>3, ReceiptStepsTaken DEF ReceiptEvent
  <2>2. \A v \in Workers : pc'[v] = pc[v] \/ pc'[v] \notin ReturnSteps
    BY <1>0, <2>1 DEF StepsWithin, ReceiptSteps, ReturnSteps
  <2>. QED
    BY <1>3, <2>2 DEF ReceiptEvent, ReceiptSide, orderVars
<1>4. ASSUME NEW w \in Workers, LifeEvent(w)
      PROVE  /\ DOMAIN orders' = DOMAIN orders
             /\ \A o \in DOMAIN orders : orders'[o].cart = orders[o].cart
             /\ UNCHANGED returnVars /\ UNCHANGED pc
  <2>1. LifeSide(w)
    BY <1>4 DEF LifeEvent
  <2>2. DOMAIN orders' = DOMAIN orders /\ \A o \in DOMAIN orders : SameOrderBut(o)
    BY <1>0, <2>1, LifeOrders
  <2>. QED
    BY <2>1, <2>2 DEF LifeSide, SameOrderBut
<1>5. ASSUME NEW w \in Workers, ReturnEvent(w)
      PROVE  UNCHANGED orders
  BY <1>5 DEF ReturnEvent, ReturnSide, orderVars
<1>6. CASE UNCHANGED omsVars
  BY <1>6 DEF omsVars, vars, storeVars, orderVars
<1>. QED
  BY <1>1, <1>2, <1>3, <1>4, <1>5, <1>6, OMSStepOf

\* A session changes nothing another session knows of its return.
LEMMA OthersReturning ==
  ASSUME OMSTypeInv, NEW w \in Workers, ReturnEvent(w), NEW v \in Workers \ {w}
  PROVE  pc'[v] = pc[v] /\ returning'[v] = returning[v]
<1>1. ReturnStepOK(w)
  BY ReturnLeaves
<1>. QED
  BY <1>1, ReturnFacts DEF ReturnStepOK, StepsWithin

\* The status a session relies on is still the one it read.
StatusRead(w) ==
    /\ pc[w] = "restock" => returns[returning[w].id].status = "REQUESTED"
    /\ pc[w] = "refund" => returns[returning[w].id].status = "RECEIVED"

StatusesRead == \A w \in Workers : StatusRead(w)

\* How a session changes the status of its return, from s to t.
Advances(w, step, s, t) ==
    /\ pc[w] = step /\ pc'[w] = "idle"
    /\ returning[w].id \in DOMAIN returns
    /\ returns[returning[w].id].status = s
    /\ returns' = [returns EXCEPT ![returning[w].id].status = t]

\* A step of a return adds one, changes the status of one, or reads a status.
LEMMA ReturnOutcome ==
  ASSUME OMSTypeInv, NEW w \in Workers, ReturnEvent(w), StatusRead(w)
  PROVE  \/ UNCHANGED returns /\ StatusRead(w)'
         \/ pc'[w] = "idle" /\ \A k \in DOMAIN returns : returns'[k] = returns[k]
         \/ Advances(w, "restock", "REQUESTED", "RECEIVED")
         \/ Advances(w, "refund", "RECEIVED", "REFUNDED")
<1>0. /\ SendReturn(w) \/ ReturnStep(w) \/ AbortReturn(w)
      /\ pc = [v \in Workers |-> pc[v]] /\ returns \in Seq(ReturnOrders)
      /\ returning \in [Workers -> Returnings] /\ returning[w] \in Returnings /\ ReturningOK(w)
  BY ReturnFacts DEF ReturnEvent
<1>1. CASE RefuseReturn(w) \/ AbortReturn(w)
  BY <1>0, <1>1 DEF RefuseReturn, AbortReturn, Rollback, EndSession
<1>2. CASE CommitReturn(w)
  <2>1. PICK x : returns' = Append(returns, x)
    BY <1>2 DEF CommitReturn
  <2>2. pc'[w] = "idle"
    BY <1>0, <1>2 DEF CommitReturn, EndSession
  <2>. QED
    BY <1>0, <2>1, <2>2
<1>3. CASE CommitRestock(w)
  <2>1. pc[w] = "restock" /\ pc'[w] = "idle"
    BY <1>0, <1>3 DEF CommitRestock, Commit, EndSession
  <2>2. returning[w].id \in DOMAIN returns
    BY <1>0, <2>1 DEF ReturningOK
  <2>. QED
    BY <1>3, <2>1, <2>2 DEF CommitRestock, SetStatus, Advances, StatusRead
<1>4. CASE CommitRefund(w)
  <2>1. pc[w] = "refund" /\ pc'[w] = "idle"
    BY <1>0, <1>4 DEF CommitRefund, EndSession
  <2>2. returning[w].id \in DOMAIN returns
    BY <1>0, <2>1 DEF ReturningOK
  <2>. QED
    BY <1>4, <2>1, <2>2 DEF CommitRefund, SetStatus, Advances, StatusRead
<1>5. CASE QueryReturned(w) \/ LockReturn(w) \/ ItemReturnable(w)
  <2>1. UNCHANGED returns /\ pc'[w] \in {"query", "lock"}
    BY <1>0, <1>5 DEF QueryReturned, LockReturn, ItemReturnable, storeVars
  <2>. QED
    BY <2>1 DEF StatusRead
<1>6. CASE Restock(w)
  <2>1. UNCHANGED returns /\ pc'[w] = pc[w] /\ returning'[w].id = returning[w].id
    BY <1>0, <1>6 DEF Restock, Returnings
  <2>. QED
    BY <2>1 DEF StatusRead
<1>7. CASE SendReturn(w)
  <2>1. CASE \E o \in DOMAIN orders, lines \in ReturnRequests : RequestReturn(w, o, lines)
    <3>1. UNCHANGED returns /\ pc'[w] = "query"
      BY <1>0, <2>1 DEF RequestReturn, Accept
    <3>. QED
      BY <3>1 DEF StatusRead
  <2>2. ASSUME NEW k \in DOMAIN returns, ReadRequested(w, k)
        PROVE  UNCHANGED returns /\ StatusRead(w)'
    <3>1. UNCHANGED returns /\ pc'[w] = "restock" /\ returning'[w].id = k
      BY <1>0, <2>2 DEF ReadRequested, Accept, Returnings
    <3>. QED
      BY <2>2, <3>1 DEF StatusRead, ReadRequested
  <2>3. ASSUME NEW k \in DOMAIN returns, ReadReceived(w, k)
        PROVE  UNCHANGED returns /\ StatusRead(w)'
    <3>1. UNCHANGED returns /\ pc'[w] = "refund" /\ returning'[w].id = k
      BY <1>0, <2>3 DEF ReadReceived, Accept, Returnings
    <3>. QED
      BY <2>3, <3>1 DEF StatusRead, ReadReceived
  <2>. QED
    BY <1>7, <2>1, <2>2, <2>3 DEF SendReturn
<1>. QED
  BY <1>0, <1>1, <1>2, <1>3, <1>4, <1>5, <1>6, <1>7 DEF ReturnStep

\* Two sessions do not work on one return when clients are disciplined.
LEMMA ReturnsApart ==
  ASSUME OMSTypeInv, Overlapping = {}, Disciplined,
         NEW v \in Workers, NEW w \in Workers, v # w,
         pc[v] \in ReturnSteps, pc[w] \in ReturnSteps
  PROVE  returning[v].order # returning[w].order
<1>1. About(v) = {returning[v].order} /\ About(w) = {returning[w].order}
  BY DEF About, ReturnSteps
<1>2. About(v) \cap About(w) \subseteq {}
  BY DEF Disciplined
<1>. QED
  BY <1>1, <1>2

\* What a session has read is still true after every step,
LEMMA StatusesReadStep ==
  ASSUME Overlapping = {}, OMSTypeInv, Disciplined, StatusesRead, [OMSNext]_omsVars
  PROVE  StatusesRead'
<1>1. CASE /\ UNCHANGED returnVars
           /\ \A v \in Workers : pc'[v] = pc[v] \/ pc'[v] \notin ReturnSteps
  BY <1>1 DEF StatusesRead, StatusRead, returnVars, ReturnSteps
<1>2. ASSUME NEW w \in Workers, ReturnEvent(w), NEW v \in Workers
      PROVE  StatusRead(v)'
  <2>1. StatusRead(v) /\ StatusRead(w) /\ ReturningOK(v) /\ ReturningOK(w)
    BY ReturnFacts DEF StatusesRead
  <2>2. CASE v = w
    BY <1>2, <2>1, <2>2, ReturnOutcome DEF StatusRead, Advances
  <2>3. CASE v # w
    <3>1. pc'[v] = pc[v] /\ returning'[v] = returning[v]
      BY <1>2, <2>3, OthersReturning
    <3>2. ASSUME pc[v] \in {"restock", "refund"}
          PROVE  returns'[returning[v].id].status = returns[returning[v].id].status
      <4>1. returning[v].id \in DOMAIN returns
        BY <2>1, <3>2 DEF ReturningOK
      <4>2. ASSUME NEW step \in {"restock", "refund"}, NEW s, NEW t, Advances(w, step, s, t)
            PROVE  returns'[returning[v].id] = returns[returning[v].id]
        <5>1. returning[v].order # returning[w].order
          BY <2>3, <3>2, <4>2, ReturnsApart DEF Advances, ReturnSteps
        <5>2. returning[v].id # returning[w].id
          BY <2>1, <3>2, <4>2, <5>1 DEF Advances, ReturningOK
        <5>. QED
          BY <4>1, <4>2, <5>2 DEF Advances
      <4>. QED
        BY <1>2, <2>1, <4>1, <4>2, ReturnOutcome
    <3>. QED
      BY <2>1, <3>1, <3>2 DEF StatusRead
  <2>. QED
    BY <2>2, <2>3
<1>. QED
  BY <1>1, <1>2, ReturnsAlone DEF StatusesRead

\* so it always is.
LEMMA StatusesReadInvariant ==
  ASSUME Overlapping = {}
  PROVE  OMSSpec => []StatusesRead
<1>1. OMSInit => StatusesRead
  BY DEF OMSInit, Opening, StatusesRead, StatusRead
<1>2. OMSTypeInv /\ Disciplined /\ StatusesRead /\ [OMSNext]_omsVars => StatusesRead'
  BY StatusesReadStep
<1>. QED
  BY <1>1, <1>2, OMSTypeInvariant, DisciplineKept, PTL DEF OMSSpec

\* When the requests about an order come one at a time, a return is requested,
\* then received, then refunded, and never goes back.
THEOREM OMSReturnTransitions ==
  ASSUME Overlapping = {}
  PROVE  OMSSpec => ReturnTransitions
<1>. DEFINE Forward == {<<"REQUESTED", "REQUESTED">>, <<"REQUESTED", "RECEIVED">>,
                        <<"RECEIVED", "RECEIVED">>, <<"RECEIVED", "REFUNDED">>,
                        <<"REFUNDED", "REFUNDED">>}
<1>1. ASSUME OMSTypeInv, StatusesRead, [OMSNext]_omsVars, NEW k \in DOMAIN returns
      PROVE  <<returns[k].status, returns'[k].status>> \in Forward
  <2>1. returns[k].status \in {"REQUESTED", "RECEIVED", "REFUNDED"}
    BY <1>1, ReturnFacts DEF ReturnOrders
  <2>2. CASE returns'[k] = returns[k]
    BY <2>1, <2>2
  <2>3. ASSUME NEW w \in Workers, NEW step, NEW s, NEW t, Advances(w, step, s, t),
               <<s, t>> \in Forward, s # t
        PROVE  <<returns[k].status, returns'[k].status>> \in Forward
    <3>1. CASE k = returning[w].id
      <4>1. returns'[k] = [returns[k] EXCEPT !.status = t] /\ returns[k].status = s
        BY <2>3, <3>1 DEF Advances
      <4>2. returns[k] \in ReturnOrders
        BY <1>1, ReturnFacts
      <4>3. returns'[k].status = t
        BY <4>1, <4>2 DEF ReturnOrders
      <4>. QED
        BY <2>3, <4>1, <4>3
    <3>2. CASE k # returning[w].id
      <4>1. returns'[k] = returns[k]
        BY <2>3, <3>2 DEF Advances
      <4>. QED
        BY <2>2, <4>1
    <3>. QED
      BY <3>1, <3>2
  <2>4. ASSUME NEW w \in Workers, ReturnEvent(w)
        PROVE  <<returns[k].status, returns'[k].status>> \in Forward
    <3>1. StatusRead(w)
      BY <1>1 DEF StatusesRead
    <3>. QED
      BY <1>1, <2>2, <2>3, <2>4, <3>1, ReturnOutcome
  <2>. QED
    BY <1>1, <2>2, <2>4, ReturnsAlone DEF returnVars
<1>2. OMSTypeInv /\ StatusesRead /\ [OMSNext]_omsVars =>
         [\A k \in DOMAIN returns : <<returns[k].status, returns'[k].status>> \in Forward]_omsVars
  BY <1>1
<1>. QED
  BY <1>2, OMSTypeInvariant, StatusesReadInvariant, PTL DEF OMSSpec, ReturnTransitions

-----------------------------------------------------------------------------
(***************************************************************************)
(* No more of an item is returned than was ordered, while the requests     *)
(* about an order come one at a time: the returns of an order that a       *)
(* session has added up are still all of them when it adds its own.        *)
(***************************************************************************)

\* An order of the members of a finite set has each of them.
LEMMA SeqOfAll ==
  ASSUME NEW S, IsFiniteSet(S), NEW s \in SetToSeqs(S), NEW x \in S
  PROVE  \E n \in DOMAIN s : s[n] = x
<1>. DEFINE D == 1..Cardinality(S)
<1>1. Cardinality(S) \in Nat
  BY FS_CardinalityType
<1>2. s \in [D -> S] /\ \A m, n \in D : s[m] = s[n] => m = n
  BY DEF SetToSeqs
<1>3. IsFiniteSet(D) /\ Cardinality(D) = Cardinality(S)
  BY <1>1, FS_Interval
<1>. HIDE DEF D
<1>4. s \in Injection(D, S)
  BY <1>2 DEF Injection, IsInjective
<1>5. s \in Surjection(D, S)
  BY <1>3, <1>4, FS_Injection
<1>. QED
  BY <1>2, <1>5 DEF Surjection

\* A return adds what it requests to what was returned of its order.
LEMMA ReturnedGrows ==
  ASSUME returns \in Seq(ReturnOrders), NEW x \in ReturnOrders,
         returns' = Append(returns, x), NEW o, NEW i
  PROVE  Returned(o, i)' = Returned(o, i)
                              + (IF x.order = o THEN Requested(x.lines, i) ELSE 0)
<1>. DEFINE k == Len(returns) + 1
            f == [n \in DOMAIN returns |-> Requested(returns[n].lines, i)]
            g == [n \in DOMAIN returns' |-> Requested(returns'[n].lines, i)]
            S == ReturnsOf(o, i)
<1>1. /\ DOMAIN returns = 1..Len(returns) /\ Len(returns) \in Nat
      /\ DOMAIN returns' = DOMAIN returns \cup {k} /\ k \notin DOMAIN returns
      /\ \A n \in DOMAIN returns : returns[n] \in ReturnOrders /\ returns'[n] = returns[n]
      /\ returns'[k] = x
  OBVIOUS
<1>2. IsFiniteSet(S) /\ S \subseteq DOMAIN returns /\ Returned(o, i) \in Nat
  BY ReturnedType
<1>3. x.lines \in ReturnRequests /\ \A n \in DOMAIN returns : returns[n].lines \in ReturnRequests
  BY <1>1 DEF ReturnOrders
<1>4. /\ Requested(x.lines, i) \in Nat
      /\ \A n \in DOMAIN returns : Requested(returns[n].lines, i) \in Nat
  BY <1>3, RequestedType
<1>5. /\ g[k] = Requested(x.lines, i) /\ g[k] \in Nat
      /\ \A n \in S : f[n] \in Nat /\ g[n] = f[n]
  BY <1>1, <1>2, <1>4
<1>6. /\ Returned(o, i) = SumFunctionOnSet(f, S)
      /\ Returned(o, i)' = SumFunctionOnSet(g, ReturnsOf(o, i)')
  BY DEF Returned
<1>7. ReturnsOf(o, i)' = S \cup (IF x.order = o /\ Requested(x.lines, i) > 0 THEN {k} ELSE {})
  BY <1>1 DEF ReturnsOf
<1>8. k \notin S
  BY <1>1, <1>2
<1>. HIDE DEF f, g, S, k
<1>9. SumFunctionOnSet(g, S) = SumFunctionOnSet(f, S)
  BY <1>2, <1>5, SumEqual
<1>10. CASE x.order = o /\ Requested(x.lines, i) > 0
  <2>1. \A n \in S \cup {k} : g[n] \in Int
    BY <1>5
  <2>2. SumFunctionOnSet(g, S \cup {k}) = SumFunctionOnSet(g, S) + g[k]
    BY <1>2, <1>8, <2>1, SumAdd
  <2>3. ReturnsOf(o, i)' = S \cup {k}
    BY <1>7, <1>10
  <2>. QED
    BY <1>5, <1>6, <1>9, <1>10, <2>2, <2>3
<1>11. CASE ~ (x.order = o /\ Requested(x.lines, i) > 0)
  <2>1. ReturnsOf(o, i)' = S
    BY <1>7, <1>11
  <2>2. Returned(o, i)' = Returned(o, i)
    BY <1>6, <1>9, <2>1
  <2>. QED
    BY <1>2, <1>4, <1>11, <2>2
<1>. QED
  BY <1>10, <1>11

\* The status of a return does not matter.
LEMMA ReturnedSame ==
  ASSUME DOMAIN returns' = DOMAIN returns,
         \A n \in DOMAIN returns : /\ returns'[n].order = returns[n].order
                                   /\ returns'[n].lines = returns[n].lines,
         NEW o, NEW i
  PROVE  Returned(o, i)' = Returned(o, i)
<1>1. ReturnsOf(o, i)' = ReturnsOf(o, i)
  BY DEF ReturnsOf
<1>2. [n \in DOMAIN returns |-> Requested(returns[n].lines, i)]'
        = [n \in DOMAIN returns |-> Requested(returns[n].lines, i)]
  OBVIOUS
<1>. QED
  BY <1>1, <1>2 DEF Returned

\* An item that is not named is not requested.
LEMMA RequestedNamed ==
  ASSUME NEW lines \in ReturnRequests, NEW i, i \notin NamedItems(lines)
  PROVE  Requested(lines, i) = 0
<1>1. {n \in DOMAIN lines : lines[n].item = i} = {}
  BY DEF NamedItems
<1>2. Requested(lines, i) = SumOf(lines, {})
  BY <1>1 DEF Requested
<1>. QED
  BY <1>2, SumEmpty DEF SumOf

\* The items a session has compared with what was returned before.
ItemsChecked(o, lines, todo) ==
    /\ NamedItems(lines) \subseteq DOMAIN orders[o].cart
    /\ \A i \in NamedItems(lines) :
          \/ \E n \in DOMAIN todo : todo[n] = i
          \/ Returned(o, i) + Requested(lines, i) <= orders[o].cart[i].quantity

\* What it has read is still the case.
Checked(w) ==
    /\ pc[w] \in {"query", "lock"} =>
          ItemsChecked(returning[w].order, returning[w].lines, returning[w].todo)
    /\ pc[w] = "lock" =>
          returning[w].returned = Returned(returning[w].order, Head(returning[w].todo))

WithinInv == ReturnsWithinOrder /\ \A w \in Workers : Checked(w)

\* It stays so while nothing is returned of the same order.
LEMMA CheckedKept ==
  ASSUME OMSTypeInv, NEW v \in Workers, Checked(v), returning'[v] = returning[v],
         pc'[v] = pc[v] \/ pc'[v] \notin ReturnSteps,
         \A o \in DOMAIN orders : orders'[o].cart = orders[o].cart,
         \A o, i : pc[v] \in ReturnSteps /\ o = returning[v].order =>
                      Returned(o, i)' = Returned(o, i)
  PROVE  Checked(v)'
<1>. SUFFICES ASSUME pc[v] \in {"query", "lock"}, pc'[v] = pc[v]
              PROVE  Checked(v)'
  BY DEF Checked, ReturnSteps
<1>1. returning[v].order \in DOMAIN orders
  BY ReturnFacts DEF ReturningOK
<1>0. PICK o \in DOMAIN orders : o = returning[v].order
  BY <1>1
<1>2. PICK lines, todo :
          o = returning[v].order /\ lines = returning[v].lines /\ todo = returning[v].todo
  BY <1>0
<1>3. \A i : Returned(o, i)' = Returned(o, i)
  BY <1>2 DEF ReturnSteps
<1>4. ItemsChecked(o, lines, todo)
  BY <1>2 DEF Checked
<1>5. ItemsChecked(o, lines, todo)'
  BY <1>3, <1>4 DEF ItemsChecked
<1>6. o = returning'[v].order /\ lines = returning'[v].lines /\ todo = returning'[v].todo
  BY <1>2
<1>7. (ItemsChecked(returning[v].order, returning[v].lines, returning[v].todo))'
  BY <1>5, <1>6 DEF ItemsChecked
<1>8. ASSUME pc[v] = "lock"
      PROVE  returning'[v].returned = Returned(returning[v].order, Head(returning[v].todo))'
  <2>1. PICK i : i = Head(todo)
    OBVIOUS
  <2>2. returning[v].returned = Returned(o, i)
    BY <1>2, <1>8, <2>1 DEF Checked
  <2>3. Returned(o, i)' = Returned(returning[v].order, Head(returning[v].todo))'
    BY <1>6, <2>1 DEF Returned, ReturnsOf
  <2>. QED
    BY <1>3, <2>2, <2>3
<1>. QED
  BY <1>7, <1>8 DEF Checked

\* Only a return of the same order adds to what was returned of it.
LEMMA OthersReturned ==
  ASSUME OMSTypeInv, NEW w \in Workers, ReturnEvent(w), NEW o, NEW i,
         ~ CommitReturn(w) \/ o # returning[w].order
  PROVE  Returned(o, i)' = Returned(o, i)
<1>0. /\ SendReturn(w) \/ ReturnStep(w) \/ AbortReturn(w)
      /\ returns \in Seq(ReturnOrders) /\ ReturningOK(w)
  BY ReturnFacts DEF ReturnEvent
<1>1. CASE UNCHANGED returns
  BY <1>1 DEF Returned, ReturnsOf
<1>2. CASE CommitReturn(w)
  <2>1. PICK x : /\ returns' = Append(returns, x)
                 /\ x = [order |-> returning[w].order, lines |-> returning[w].lines,
                         status |-> "REQUESTED"]
    BY <1>2 DEF CommitReturn
  <2>2. returning[w].order \in DOMAIN orders /\ returning[w].lines \in ReturnRequests
    BY <1>0, <1>2 DEF ReturningOK, CommitReturn
  <2>3. DOMAIN orders \subseteq Nat \ {0}
    BY DEF OMSTypeInv, TypeInv, Typed, OrdersTypeOK
  <2>4. x \in ReturnOrders /\ x.order # o
    BY <1>2, <2>1, <2>2, <2>3 DEF ReturnOrders
  <2>5. Returned(o, i)' = Returned(o, i) + 0
    BY <1>0, <2>1, <2>4, ReturnedGrows
  <2>. QED
    BY <1>0, <2>5, ReturnedType
<1>3. CASE CommitRestock(w) \/ CommitRefund(w)
  <2>1. PICK k, t : returns' = [returns EXCEPT ![k].status = t]
    BY <1>3 DEF CommitRestock, CommitRefund, SetStatus
  <2>2. DOMAIN returns' = DOMAIN returns
    BY <2>1
  <2>3. ASSUME NEW n \in DOMAIN returns
        PROVE  returns'[n].order = returns[n].order /\ returns'[n].lines = returns[n].lines
    <3>1. returns[n] \in ReturnOrders
      BY <1>0
    <3>2. returns'[n] = IF n = k THEN [returns[n] EXCEPT !.status = t] ELSE returns[n]
      BY <2>1
    <3>. QED
      BY <3>1, <3>2 DEF ReturnOrders
  <2>. QED
    BY <2>2, <2>3, ReturnedSame
<1>4. CASE ~ CommitReturn(w) /\ ~ CommitRestock(w) /\ ~ CommitRefund(w)
  <2>1. UNCHANGED returns
    BY <1>0, <1>4 DEF ReturnStep, AbortReturn, SendReturn, RequestReturn, ReadRequested,
       ReadReceived, QueryReturned, LockReturn, ItemReturnable, RefuseReturn, Restock
  <2>. QED
    BY <1>1, <2>1
<1>. QED
  BY <1>2, <1>3, <1>4

\* Whatever comes after the first element of a sequence is in its tail.
LEMMA LaterInTail ==
  ASSUME NEW S, NEW s \in Seq(S), NEW n \in DOMAIN s, n # 1
  PROVE  \E m \in DOMAIN Tail(s) : Tail(s)[m] = s[n]
<1>1. n \in 2..Len(s)
  OBVIOUS
<1>2. DOMAIN Tail(s) = 1..(Len(s) - 1)
  BY <1>1
<1>3. n - 1 \in DOMAIN Tail(s)
  BY <1>1, <1>2
<1>4. Tail(s)[n - 1] = s[n]
  BY <1>1
<1>. QED
  BY <1>3, <1>4

\* A session that goes on has compared one item more, or none.
LEMMA CheckedGoesOn ==
  ASSUME OMSTypeInv, NEW w \in Workers, ReturnEvent(w), Checked(w)
  PROVE  Checked(w)'
<1>0. /\ SendReturn(w) \/ ReturnStep(w) \/ AbortReturn(w)
      /\ UNCHANGED orders /\ TypeInv
      /\ returning[w] \in Returnings /\ ReturningOK(w)
      /\ returns \in Seq(ReturnOrders)
      /\ pc = [v \in Workers |-> pc[v]] /\ returning = [v \in Workers |-> returning[v]]
  BY ReturnFacts DEF ReturnEvent, ReturnSide, orderVars, OMSTypeInv
<1>1. ASSUME UNCHANGED returns, NEW x, returning'[w] = x, ItemsChecked(x.order, x.lines, x.todo),
             pc'[w] = "lock" => x.returned = Returned(x.order, Head(x.todo))
      PROVE  Checked(w)'
  <2>1. (ItemsChecked(returning[w].order, returning[w].lines, returning[w].todo))'
          = ItemsChecked(x.order, x.lines, x.todo)
    BY <1>0, <1>1 DEF ItemsChecked, Returned, ReturnsOf
  <2>2. (Returned(returning[w].order, Head(returning[w].todo)))' = Returned(x.order, Head(x.todo))
    BY <1>1 DEF Returned, ReturnsOf
  <2>. QED
    BY <1>1, <2>1, <2>2 DEF Checked
<1>2. CASE \/ RefuseReturn(w) \/ AbortReturn(w) \/ CommitReturn(w) \/ CommitRestock(w)
           \/ CommitRefund(w)
  <2>1. pc'[w] = "idle"
    BY <1>0, <1>2 DEF RefuseReturn, AbortReturn, CommitReturn, CommitRestock, CommitRefund,
       Rollback, Commit, EndSession
  <2>. QED
    BY <2>1 DEF Checked
<1>3. CASE Restock(w) \/ \E k \in DOMAIN returns : ReadRequested(w, k) \/ ReadReceived(w, k)
  <2>1. pc'[w] \in {"restock", "refund"}
    BY <1>0, <1>3 DEF Restock, ReadRequested, ReadReceived, Accept
  <2>. QED
    BY <2>1 DEF Checked
<1>4. ASSUME NEW o \in DOMAIN orders, NEW lines \in ReturnRequests, RequestReturn(w, o, lines)
      PROVE  Checked(w)'
  <2>1. PICK items \in RequestedItems(lines) :
           returning' = [returning EXCEPT ![w].order = o, ![w].lines = lines, ![w].todo = items]
    BY <1>4 DEF RequestReturn
  <2>2. /\ UNCHANGED returns /\ pc'[w] = "query"
        /\ NamedItems(lines) \subseteq DOMAIN orders[o].cart
    BY <1>0, <1>4 DEF RequestReturn, Accept
  <2>3. PICK x : /\ x = [returning[w] EXCEPT !.order = o, !.lines = lines, !.todo = items]
                 /\ returning'[w] = x
    BY <1>0, <2>1
  <2>4. x.order = o /\ x.lines = lines /\ x.todo = items
    BY <1>0, <2>3 DEF Returnings
  <2>5. IsFiniteSet(NamedItems(lines))
    <3>1. PICK cart \in Seq(Items) : cart = orders[o].cart
      BY <1>0, CartOf
    <3>2. DOMAIN cart = 1..Len(cart) /\ Len(cart) \in Nat
      OBVIOUS
    <3>3. NamedItems(lines) \subseteq 1..Len(cart)
      BY <2>2, <3>1, <3>2
    <3>4. IsFiniteSet(1..Len(cart))
      BY <3>2, FS_Interval
    <3>. QED
      BY <3>3, <3>4, FS_Subset
  <2>6. \A i \in NamedItems(lines) : \E n \in DOMAIN items : items[n] = i
    BY <2>5, SeqOfAll DEF RequestedItems
  <2>7. ItemsChecked(o, lines, items)
    BY <2>2, <2>6 DEF ItemsChecked
  <2>. QED
    BY <1>1, <2>2, <2>3, <2>4, <2>7
<1>5. CASE QueryReturned(w)
  <2>. DEFINE o == returning[w].order
              i == Head(returning[w].todo)
  <2>1. PICK q : returning' = [returning EXCEPT ![w].queue = q, ![w].returned = Returned(o, i)]
    BY <1>5 DEF QueryReturned
  <2>2. UNCHANGED returns /\ pc[w] = "query"
    BY <1>5 DEF QueryReturned
  <2>. HIDE DEF o, i
  <2>3. PICK x : /\ x = [returning[w] EXCEPT !.queue = q, !.returned = Returned(o, i)]
                 /\ returning'[w] = x
    BY <1>0, <2>1
  <2>4. /\ x.order = returning[w].order /\ x.lines = returning[w].lines
        /\ x.todo = returning[w].todo /\ x.returned = Returned(o, i)
    BY <1>0, <2>3 DEF Returnings
  <2>5. ItemsChecked(x.order, x.lines, x.todo)
    BY <2>2, <2>4 DEF Checked
  <2>. QED
    BY <1>1, <2>2, <2>3, <2>4, <2>5 DEF o, i
<1>6. CASE LockReturn(w)
  <2>1. /\ UNCHANGED returns /\ pc[w] = "lock"
        /\ returning' = [returning EXCEPT ![w].queue = Tail(@)]
    BY <1>6 DEF LockReturn
  <2>2. PICK x : /\ x = [returning[w] EXCEPT !.queue = Tail(returning[w].queue)]
                 /\ returning'[w] = x
    BY <1>0, <2>1
  <2>3. /\ x.order = returning[w].order /\ x.lines = returning[w].lines
        /\ x.todo = returning[w].todo /\ x.returned = returning[w].returned
    BY <1>0, <2>2 DEF Returnings
  <2>4. /\ ItemsChecked(x.order, x.lines, x.todo)
        /\ x.returned = Returned(x.order, Head(x.todo))
    BY <2>1, <2>3 DEF Checked
  <2>. QED
    BY <1>1, <2>1, <2>2, <2>4
<1>7. CASE ItemReturnable(w)
  <2>1. /\ UNCHANGED returns /\ pc[w] = "lock" /\ pc'[w] = "query" /\ Returnable(w)
        /\ returning' = [returning EXCEPT ![w].todo = Tail(@), ![w].returned = 0]
    BY <1>0, <1>7 DEF ItemReturnable
  <2>2. PICK o \in DOMAIN orders, lines \in ReturnRequests, todo \in Seq(Nat \ {0}) :
           /\ o = returning[w].order /\ lines = returning[w].lines /\ todo = returning[w].todo
           /\ todo # <<>>
    BY <1>0, <2>1 DEF ReturningOK, Returnings
  <2>3. PICK i : i = Head(todo)
    OBVIOUS
  <2>4. ItemsChecked(o, lines, todo) /\ returning[w].returned = Returned(o, i)
    BY <2>1, <2>2, <2>3 DEF Checked
  <2>5. Requested(lines, i) <= orders[o].cart[i].quantity - Returned(o, i)
    BY <2>1, <2>2, <2>3, <2>4 DEF Returnable
  <2>6. ASSUME i \in NamedItems(lines)
        PROVE  Returned(o, i) + Requested(lines, i) <= orders[o].cart[i].quantity
    <3>1. Requested(lines, i) \in Nat /\ Returned(o, i) \in Nat
      BY <1>0, RequestedType, ReturnedType
    <3>2. orders[o].cart[i].quantity \in Int
      <4>1. PICK cart \in Seq(Items) : cart = orders[o].cart
        BY <1>0, CartOf
      <4>2. i \in DOMAIN cart
        BY <2>4, <2>6, <4>1 DEF ItemsChecked
      <4>3. cart[i] \in Items
        BY <4>2
      <4>. QED
        BY <4>1, <4>3 DEF Items
    <3>. QED
      BY <2>5, <3>1, <3>2
  <2>7. ItemsChecked(o, lines, Tail(todo))
    <3>1. ASSUME NEW j, NEW n \in DOMAIN todo, todo[n] = j, j # i
          PROVE  \E m \in DOMAIN Tail(todo) : Tail(todo)[m] = j
      <4>1. n # 1
        BY <2>2, <2>3, <3>1
      <4>. QED
        BY <2>2, <3>1, <4>1, LaterInTail
    <3>. QED
      BY <2>4, <2>6, <3>1 DEF ItemsChecked
  <2>8. PICK x : /\ x = [returning[w] EXCEPT !.todo = Tail(todo), !.returned = 0]
                 /\ returning'[w] = x
    BY <1>0, <2>1, <2>2
  <2>9. x.order = o /\ x.lines = lines /\ x.todo = Tail(todo)
    BY <1>0, <2>2, <2>8 DEF Returnings
  <2>10. ItemsChecked(x.order, x.lines, x.todo)
    BY <2>7, <2>9
  <2>. QED
    BY <1>1, <2>1, <2>8, <2>10
<1>. QED
  BY <1>0, <1>2, <1>3, <1>4, <1>5, <1>6, <1>7 DEF ReturnStep, SendReturn

\* Quantities of items are numbers.
LEMMA CartQuantity ==
  ASSUME NEW x \in PlacedOrders, NEW i \in DOMAIN x.cart
  PROVE  x.cart[i].quantity \in Nat
<1>1. PICK cart \in Seq(Items) : cart = x.cart
  BY OrdersAssumption DEF PlacedOrders
<1>2. cart[i] \in Items
  BY <1>1
<1>. QED
  BY <1>1, <1>2 DEF Items

\* The return a session commits is within its order.
LEMMA CommitReturnWithin ==
  ASSUME OMSTypeInv, NEW w \in Workers, CommitReturn(w), WithinInv,
         NEW o \in DOMAIN orders, o = returning[w].order, NEW i \in DOMAIN orders[o].cart
  PROVE  Returned(o, i)' <= orders[o].cart[i].quantity
<1>0. returns \in Seq(ReturnOrders) /\ ReturningOK(w) /\ Checked(w) /\ TypeInv
  BY ReturnFacts DEF WithinInv, OMSTypeInv
<1>1. PICK lines \in ReturnRequests : lines = returning[w].lines
  BY <1>0 DEF CommitReturn, ReturningOK
<1>2. PICK x : /\ returns' = Append(returns, x)
               /\ x = [order |-> o, lines |-> lines, status |-> "REQUESTED"]
  BY <1>1 DEF CommitReturn
<1>3. o \in Nat \ {0}
  BY <1>0 DEF TypeInv, Typed, OrdersTypeOK
<1>4. x \in ReturnOrders /\ x.order = o /\ x.lines = lines
  BY <1>2, <1>3 DEF ReturnOrders
<1>5. Returned(o, i)' = Returned(o, i) + Requested(lines, i)
  BY <1>0, <1>2, <1>4, ReturnedGrows
<1>6. Returned(o, i) \in Nat /\ Requested(lines, i) \in Nat
  BY <1>0, RequestedType, ReturnedType
<1>7. CASE i \in NamedItems(lines)
  <2>1. ItemsChecked(o, lines, <<>>)
    BY <1>0, <1>1 DEF CommitReturn, Checked
  <2>. QED
    BY <1>5, <1>7, <2>1 DEF ItemsChecked
<1>8. CASE i \notin NamedItems(lines)
  <2>1. Requested(lines, i) = 0
    BY <1>8, RequestedNamed
  <2>2. Returned(o, i) <= orders[o].cart[i].quantity
    BY DEF WithinInv, ReturnsWithinOrder
  <2>. QED
    BY <1>5, <1>6, <2>1, <2>2
<1>. QED
  BY <1>7, <1>8

\* Every step keeps returns within their orders,
LEMMA WithinStep ==
  ASSUME Overlapping = {}, OMSTypeInv, OMSTypeInv', Disciplined, WithinInv, [OMSNext]_omsVars
  PROVE  WithinInv'
<1>0. /\ \A o \in DOMAIN orders : orders'[o].cart = orders[o].cart
      /\ \A v \in Workers : Checked(v)
      /\ ReturnsWithinOrder
      /\ returns \in Seq(ReturnOrders)
  BY ReturnsAlone, ReturnFacts DEF WithinInv
<1>1. CASE /\ UNCHANGED returnVars
           /\ \A v \in Workers : pc'[v] = pc[v] \/ pc'[v] \notin ReturnSteps
  <2>1. ASSUME NEW o, NEW i PROVE Returned(o, i)' = Returned(o, i)
    BY <1>1 DEF Returned, ReturnsOf, returnVars
  <2>2. ASSUME NEW v \in Workers PROVE Checked(v)'
    BY <1>0, <1>1, <2>1, CheckedKept DEF returnVars
  <2>3. ASSUME NEW o \in DOMAIN orders', NEW i \in DOMAIN orders'[o].cart
        PROVE  Returned(o, i) <= orders'[o].cart[i].quantity
    <3>1. CASE o \in DOMAIN orders
      BY <1>0, <3>1 DEF ReturnsWithinOrder
    <3>2. CASE o \notin DOMAIN orders
      <4>1. ReturnsOf(o, i) = {}
        BY <3>2, ReturnFacts DEF ReturnsOf, ReturnsPlaced
      <4>2. Returned(o, i) = 0
        BY <4>1, SumEmpty DEF Returned
      <4>3. orders'[o] \in PlacedOrders
        <5>1. orders' \in Seq(PlacedOrders)
          BY DEF OMSTypeInv, TypeInv, Typed, OrdersTypeOK
        <5>. QED
          BY <5>1
      <4>4. orders'[o].cart[i].quantity \in Nat
        BY <4>3, CartQuantity
      <4>. QED
        BY <4>2, <4>4
    <3>. QED
      BY <3>1, <3>2
  <2>. QED
    BY <2>1, <2>2, <2>3 DEF WithinInv, ReturnsWithinOrder
<1>2. ASSUME NEW w \in Workers, ReturnEvent(w)
      PROVE  WithinInv'
  <2>1. UNCHANGED orders
    BY <1>2 DEF ReturnEvent, ReturnSide, orderVars
  <2>2. ASSUME NEW v \in Workers PROVE Checked(v)'
    <3>1. CASE v = w
      BY <1>0, <1>2, <3>1, CheckedGoesOn
    <3>2. CASE v # w
      <4>1. pc'[v] = pc[v] /\ returning'[v] = returning[v]
        BY <1>2, <3>2, OthersReturning
      <4>2. ASSUME NEW o, NEW i, pc[v] \in ReturnSteps, o = returning[v].order
            PROVE  Returned(o, i)' = Returned(o, i)
        <5>1. CommitReturn(w) => o # returning[w].order
          BY <3>2, <4>2, ReturnsApart DEF CommitReturn, ReturnSteps
        <5>. QED
          BY <1>2, <5>1, OthersReturned
      <4>. QED
        BY <1>0, <4>1, <4>2, CheckedKept
    <3>. QED
      BY <3>1, <3>2
  <2>3. ASSUME NEW o \in DOMAIN orders, NEW i \in DOMAIN orders[o].cart
        PROVE  Returned(o, i)' <= orders[o].cart[i].quantity
    <3>1. CASE CommitReturn(w) /\ o = returning[w].order
      BY <3>1, CommitReturnWithin
    <3>2. CASE ~ (CommitReturn(w) /\ o = returning[w].order)
      <4>1. Returned(o, i)' = Returned(o, i)
        BY <1>2, <3>2, OthersReturned
      <4>. QED
        BY <1>0, <4>1 DEF ReturnsWithinOrder
    <3>. QED
      BY <3>1, <3>2
  <2>. QED
    BY <2>1, <2>2, <2>3 DEF WithinInv, ReturnsWithinOrder
<1>. QED
  BY <1>1, <1>2, ReturnsAlone

\* so they always are.
LEMMA WithinInvariant ==
  ASSUME Overlapping = {}
  PROVE  OMSSpec => []WithinInv
<1>1. OMSInit => WithinInv
  <2>. SUFFICES ASSUME OMSInit PROVE WithinInv
    OBVIOUS
  <2>1. \A w \in Workers : Checked(w)
    BY DEF OMSInit, Opening, Checked
  <2>2. ASSUME NEW o \in DOMAIN orders, NEW i \in DOMAIN orders[o].cart
        PROVE  Returned(o, i) <= orders[o].cart[i].quantity
    <3>1. ReturnsOf(o, i) = {}
      BY DEF OMSInit, ReturnsInit, ReturnsOf
    <3>2. Returned(o, i) = 0
      BY <3>1, SumEmpty DEF Returned
    <3>3. orders[o] \in PlacedOrders
      <4>1. orders \in Seq(PlacedOrders)
        BY OMSTypeInit DEF OMSTypeInv, TypeInv, Typed, OrdersTypeOK
      <4>. QED
        BY <4>1
    <3>4. orders[o].cart[i].quantity \in Nat
      BY <3>3, CartQuantity
    <3>. QED
      BY <3>2, <3>4
  <2>. QED
    BY <2>1, <2>2 DEF WithinInv, ReturnsWithinOrder
<1>2. OMSTypeInv /\ OMSTypeInv' /\ Disciplined /\ WithinInv /\ [OMSNext]_omsVars => WithinInv'
  BY WithinStep
<1>. QED
  BY <1>1, <1>2, OMSTypeInvariant, DisciplineKept, PTL DEF OMSSpec

\* When the requests about an order come one at a time, the returns of an order
\* together never exceed what was ordered of an item.
THEOREM OMSReturnsWithinOrder ==
  ASSUME Overlapping = {}
  PROVE  OMSSpec => []ReturnsWithinOrder
<1>1. WithinInv => ReturnsWithinOrder
  BY DEF WithinInv
<1>. QED
  BY <1>1, WithinInvariant, PTL

-----------------------------------------------------------------------------
(***************************************************************************)
(* All of a return finds room among the allocations of its items, and is   *)
(* in stock again once, while the requests about an order come one at a    *)
(* time and orders were delivered in full.                                 *)
(***************************************************************************)

\* A line takes back what it says, or all that was allocated of its item.
LEMMA LineTaken ==
  ASSUME NEW o, NEW al \in Seq(Allocations), al = orders[o].allocations, NEW line \in Lines
  PROVE  SumFunctionOnSet([n \in DOMAIN al |-> TakeBack(o, line, n).quantity],
                          TakesOf(o, line))
           = Least(line.quantity, SumOf(al, {n \in DOMAIN al : al[n].item = line.item}))
<1>. DEFINE q == line.quantity
            c == Counts(al)
            g == [n \in DOMAIN al |-> TakeBack(o, line, n).quantity]
            Of(N) == {m \in 1..N : al[m].item = line.item}
            T(N) == {n \in 1..N : n \in TakesOf(o, line)}
            A(N) == SumFunctionOnSet(c, Of(N))
            G == {N \in 0..Len(al) : SumFunctionOnSet(g, T(N)) = Least(q, A(N))}
<1>1. /\ DOMAIN al = 1..Len(al) /\ Len(al) \in Nat /\ q \in Nat \ {0}
      /\ \A n \in DOMAIN al : /\ al[n] \in Allocations /\ al[n].quantity \in Nat
                              /\ c[n] = al[n].quantity
  BY AllocationsCount DEF Lines, Counts
<1>2. ASSUME NEW N \in 0..Len(al)
      PROVE  /\ IsFiniteSet(Of(N)) /\ IsFiniteSet(T(N)) /\ A(N) \in Nat
             /\ Of(N) \subseteq DOMAIN al /\ T(N) \subseteq DOMAIN al
  <2>1. IsFiniteSet(1..N)
    BY FS_Interval
  <2>2. IsFiniteSet(Of(N)) /\ IsFiniteSet(T(N))
    BY <2>1, FS_Subset
  <2>3. \A m \in Of(N) : c[m] \in Nat /\ c[m] \in Int
    BY <1>1
  <2>4. Of(N) \subseteq DOMAIN al /\ T(N) \subseteq DOMAIN al
    BY <1>1
  <2>. HIDE DEF Of, c, T
  <2>. QED
    BY <2>2, <2>3, <2>4, SumInt
<1>3. ASSUME NEW n \in 1..Len(al)
      PROVE  /\ n \in TakesOf(o, line) <=> al[n].item = line.item /\ q - A(n - 1) > 0
             /\ g[n] = Least(q - A(n - 1), al[n].quantity)
  <2>1. Remaining(o, line, n) = q - A(n - 1)
    BY DEF Remaining, SumOf, Counts
  <2>. HIDE DEF A
  <2>. QED
    BY <1>1, <2>1 DEF TakesOf, TakeBack
<1>b. ASSUME NEW n \in 1..Len(al)
      PROVE  /\ n - 1 \in 0..Len(al) /\ n \in 0..Len(al)
             /\ n \notin Of(n - 1) /\ n \notin T(n - 1)
             /\ al[n].item = line.item => Of(n) = Of(n - 1) \cup {n}
             /\ al[n].item # line.item => Of(n) = Of(n - 1)
             /\ n \in TakesOf(o, line) => T(n) = T(n - 1) \cup {n}
             /\ n \notin TakesOf(o, line) => T(n) = T(n - 1)
  <2>1. 1..n = (1..(n - 1)) \cup {n} /\ n \notin 1..(n - 1)
    OBVIOUS
  <2>. QED
    BY <2>1
<1>. HIDE DEF Of, T, c, g
<1>4. ASSUME NEW n \in 1..Len(al)
      PROVE  A(n) = A(n - 1) + (IF al[n].item = line.item THEN al[n].quantity ELSE 0)
  <2>1. PICK S : S = Of(n - 1)
    OBVIOUS
  <2>2. CASE al[n].item = line.item
    <3>1. Of(n) = S \cup {n}
      BY <1>b, <2>1, <2>2
    <3>2. IsFiniteSet(S) /\ n \notin S /\ S \subseteq DOMAIN al /\ n \in DOMAIN al
      BY <1>1, <1>2, <1>b, <2>1
    <3>4. \A m \in S \cup {n} : c[m] \in Int
      BY <1>1, <3>2
    <3>3. SumFunctionOnSet(c, S \cup {n}) = SumFunctionOnSet(c, S) + c[n]
      BY <3>2, <3>4, SumAdd
    <3>. QED
      BY <1>1, <2>1, <2>2, <3>1, <3>3
  <2>3. CASE al[n].item # line.item
    <3>1. Of(n) = S
      BY <1>b, <2>1, <2>3
    <3>2. A(n) = A(n - 1)
      BY <2>1, <3>1
    <3>3. A(n - 1) \in Nat
      BY <1>2, <1>b
    <3>. HIDE DEF A
    <3>. QED
      BY <2>3, <3>2, <3>3
  <2>. QED
    BY <2>2, <2>3
<1>5. 0 \in G
  <2>1. Of(0) = {} /\ T(0) = {}
    BY DEF Of, T
  <2>2. A(0) = 0 /\ SumFunctionOnSet(g, T(0)) = 0
    BY <2>1, SumEmpty
  <2>. HIDE DEF A
  <2>. QED
    BY <1>1, <2>2 DEF Least
<1>. HIDE DEF A
<1>6. ASSUME NEW n \in 1..Len(al), n - 1 \in G
      PROVE  n \in G
  <2>1. PICK S, a, b : S = T(n - 1) /\ a = A(n - 1) /\ b = A(n)
    OBVIOUS
  <2>2. /\ a \in Nat /\ b \in Nat /\ IsFiniteSet(S) /\ n \notin S
        /\ al[n].quantity \in Nat /\ n \in 0..Len(al)
        /\ SumFunctionOnSet(g, S) = Least(q, a)
    BY <1>1, <1>2, <1>6, <1>b, <2>1
  <2>3. ASSUME NEW m \in T(n) PROVE g[m] \in Int
    <3>1. m \in 1..Len(al) /\ m - 1 \in 0..Len(al)
      BY <1>1, <1>2, <2>2, <2>3
    <3>2. A(m - 1) \in Nat /\ al[m].quantity \in Nat
      BY <1>1, <1>2, <3>1
    <3>3. g[m] = Least(q - A(m - 1), al[m].quantity)
      BY <1>3, <3>1
    <3>. QED
      BY <1>1, <3>2, <3>3 DEF Least
  <2>4. SumFunctionOnSet(g, T(n)) = Least(q, b)
    <3>1. CASE n \in TakesOf(o, line)
      <4>1. T(n) = S \cup {n}
        BY <1>b, <2>1, <3>1
      <4>2. SumFunctionOnSet(g, S \cup {n}) = SumFunctionOnSet(g, S) + g[n]
        BY <2>2, <2>3, <4>1, SumAdd
      <4>3. g[n] = Least(q - a, al[n].quantity) /\ al[n].item = line.item /\ q - a > 0
        BY <1>3, <2>1, <3>1
      <4>4. b = a + al[n].quantity
        BY <1>4, <2>1, <4>3
      <4>5. SumFunctionOnSet(g, T(n)) = Least(q, a) + Least(q - a, al[n].quantity)
        BY <2>2, <4>1, <4>2, <4>3
      <4>. QED
        BY <1>1, <2>2, <4>3, <4>4, <4>5, SMTT(30) DEF Least
    <3>2. CASE n \notin TakesOf(o, line)
      <4>1. SumFunctionOnSet(g, T(n)) = Least(q, a)
        BY <1>b, <2>1, <2>2, <3>2
      <4>2. al[n].item # line.item \/ ~ (q - a > 0)
        BY <1>3, <2>1, <3>2
      <4>3. b = a + (IF al[n].item = line.item THEN al[n].quantity ELSE 0)
        BY <1>4, <2>1
      <4>. QED
        BY <1>1, <2>2, <4>1, <4>2, <4>3 DEF Least
    <3>. QED
      BY <3>1, <3>2
  <2>. QED
    BY <2>1, <2>2, <2>4
<1>7. Len(al) \in G
  <2>. HIDE DEF G
  <2>. QED
    BY <1>1, <1>5, <1>6, UpTo
<1>8. /\ T(Len(al)) = TakesOf(o, line)
      /\ A(Len(al)) = SumOf(al, {n \in DOMAIN al : al[n].item = line.item})
  BY <1>1 DEF TakesOf, SumOf, Counts, T, A, Of, c
<1>9. SumFunctionOnSet(g, T(Len(al))) = Least(q, A(Len(al)))
  BY <1>7
<1>. QED
  BY <1>8, <1>9 DEF g

\* There is room for each line of return k among the allocations of its item.
Coverable(k) ==
    \A n \in DOMAIN returns[k].lines :
        returns[k].lines[n].quantity <= Allotted(returns[k].order, returns[k].lines[n].item)

\* Then a plan takes back all that can be restocked.
LEMMA PlanTakesAll ==
  ASSUME OMSTypeInv, NEW k \in DOMAIN returns, Coverable(k), NEW plan \in Plans(k)
  PROVE  SumOf(plan, DOMAIN plan) = RestockedLines(k)
<1>1. returns[k] \in ReturnOrders /\ returns[k].order \in DOMAIN orders
  BY ReturnFacts DEF ReturnsPlaced
<1>2. PICK lines \in ReturnRequests, o \in DOMAIN orders :
          lines = returns[k].lines /\ o = returns[k].order
  BY <1>1 DEF ReturnOrders
<1>3. PICK al \in Seq(Allocations) : al = orders[o].allocations
  <2>1. TypeInv
    BY DEF OMSTypeInv
  <2>2. orders[o] \in PlacedOrders
    BY <2>1, CartOf
  <2>. QED
    BY <2>2 DEF PlacedOrders
<1>4. PICK A : A = Restockable(lines)
  OBVIOUS
<1>5. PICK S : S = TakesFor(k)
  OBVIOUS
<1>6. S = {p \in A \X DOMAIN al : p[2] \in TakesOf(o, lines[p[1]])}
  BY <1>2, <1>3, <1>4, <1>5 DEF TakesFor
<1>7. IsFiniteSet(A) /\ IsFiniteSet(S)
  BY <1>4, <1>6, PairsFinite, LinesFacts, FS_Subset DEF Restockable
<1>8. A \subseteq DOMAIN lines /\ \A a \in A : lines[a] \in Lines /\ lines[a].quantity \in Nat
  BY <1>4, LinesFacts DEF Restockable
<1>. DEFINE f == [p \in S |-> TakeBack(o, lines[p[1]], p[2]).quantity]
            h == [p \in S |-> p[1]]
            g == [a \in A |-> SumFunctionOnSet(f, {p \in S : h[p] = a})]
<1>9. \A p \in S : f[p] \in Nat /\ f[p] \in Int /\ h[p] \in A
  <2>. SUFFICES ASSUME NEW p \in S PROVE f[p] \in Nat /\ h[p] \in A
    OBVIOUS
  <2>1. p[1] \in A /\ p[2] \in TakesOf(o, lines[p[1]])
    BY <1>6
  <2>2. TakeBack(o, lines[p[1]], p[2]) \in Takes
    BY <1>3, <1>8, <2>1, TakeBackType
  <2>. QED
    BY <2>1, <2>2 DEF Takes
<1>10. SumOf(plan, DOMAIN plan) = SumFunctionOnSet(f, S)
  <2>1. PICK s \in SetToSeqs(S) : plan = [n \in DOMAIN s |-> TakeBack(o, lines[s[n][1]], s[n][2])]
    BY <1>2, <1>5 DEF Plans
  <2>2. /\ \A n \in DOMAIN s : s[n] \in S
        /\ \A m, n \in DOMAIN s : s[m] = s[n] => m = n
        /\ IsFiniteSet(DOMAIN s)
    <3>1. s \in Seq(S) /\ \A m, n \in DOMAIN s : s[m] = s[n] => m = n
      BY <1>7, SeqOfSet
    <3>2. DOMAIN s = 1..Len(s) /\ Len(s) \in Nat /\ \A n \in DOMAIN s : s[n] \in S
      BY <3>1
    <3>3. IsFiniteSet(DOMAIN s)
      BY <3>2, FS_Interval
    <3>. QED
      BY <3>1, <3>2, <3>3
  <2>3. {s[n] : n \in DOMAIN s} = S
    BY <1>7, <2>2, SeqOfAll
  <2>. DEFINE c == Counts(plan)
  <2>4. DOMAIN plan = DOMAIN s /\ SumOf(plan, DOMAIN plan) = SumFunctionOnSet(c, DOMAIN s)
    BY <2>1 DEF SumOf, Counts
  <2>5. \A n \in DOMAIN s : c[n] = f[s[n]]
    BY <2>1, <2>2 DEF Counts
  <2>. HIDE DEF c, f
  <2>6. Renames(s, DOMAIN s, c, f)
    BY <1>9, <2>2, <2>5 DEF Renames
  <2>7. SumFunctionOnSet(f, {s[n] : n \in DOMAIN s}) = SumFunctionOnSet(c, DOMAIN s)
    BY <2>2, <2>6, SumRename
  <2>. QED
    BY <2>3, <2>4, <2>7
<1>11. SumFunctionOnSet(f, S) = SumFunctionOnSet(g, A)
  <2>1. \A a \in A : g[a] = SumFunctionOnSet(f, {p \in S : h[p] = a})
    OBVIOUS
  <2>2. \A p \in S : f[p] \in Int /\ h[p] \in A
    BY <1>9
  <2>3. Groups(f, g, h, S, A)
    BY <2>1, <2>2 DEF Groups
  <2>. HIDE DEF f, g, h
  <2>. QED
    BY <1>7, <2>3, SumGroups
<1>12. ASSUME NEW a \in A PROVE g[a] = lines[a].quantity
  <2>. DEFINE T == TakesOf(o, lines[a])
              b == [n \in T |-> <<a, n>>]
              t == [n \in DOMAIN al |-> TakeBack(o, lines[a], n).quantity]
  <2>1. T \subseteq DOMAIN al /\ IsFiniteSet(T)
    <3>1. DOMAIN al = 1..Len(al) /\ Len(al) \in Nat
      BY <1>3
    <3>2. T \subseteq DOMAIN al
      BY <1>3 DEF TakesOf
    <3>3. IsFiniteSet(DOMAIN al)
      BY <3>1, FS_Interval
    <3>. HIDE DEF T
    <3>. QED
      BY <3>2, <3>3, FS_Subset
  <2>2. {b[n] : n \in T} = {p \in S : h[p] = a}
    <3>1. \A n \in T : <<a, n>> \in S
      BY <1>6, <2>1
    <3>2. ASSUME NEW p \in S, h[p] = a
          PROVE  p[2] \in T /\ p = <<a, p[2]>>
      BY <1>6, <3>2
    <3>3. \A n \in T : b[n] = <<a, n>> /\ h[<<a, n>>] = a
      BY <3>1
    <3>. HIDE DEF T, b, h
    <3>4. \A n \in T : b[n] \in {p \in S : h[p] = a}
      BY <3>1, <3>3
    <3>5. \A p \in {q \in S : h[q] = a} : p[2] \in T /\ p = b[p[2]]
      BY <3>2, <3>3
    <3>. QED
      BY <3>4, <3>5
  <2>3. \A n \in T : t[n] \in Int /\ f[b[n]] = t[n]
    <3>. SUFFICES ASSUME NEW n \in T PROVE t[n] \in Int /\ f[b[n]] = t[n]
      OBVIOUS
    <3>1. <<a, n>> \in S
      BY <1>6, <2>1
    <3>2. b[n] = <<a, n>>
      OBVIOUS
    <3>3. f[<<a, n>>] = TakeBack(o, lines[a], n).quantity
      BY <3>1
    <3>4. t[n] = TakeBack(o, lines[a], n).quantity
      BY <2>1
    <3>. QED
      BY <1>9, <3>1, <3>2, <3>3, <3>4
  <2>4. \A m, n \in T : b[m] = b[n] => m = n
    OBVIOUS
  <2>5. SumFunctionOnSet(f, {b[n] : n \in T}) = SumFunctionOnSet(t, T)
    <3>. HIDE DEF f, b, t, T
    <3>1. Renames(b, T, t, f)
      BY <2>3, <2>4 DEF Renames
    <3>. QED
      BY <2>1, <3>1, SumRename
  <2>6. SumFunctionOnSet(t, T)
          = Least(lines[a].quantity, SumOf(al, {n \in DOMAIN al : al[n].item = lines[a].item}))
    BY <1>3, <1>8, LineTaken, ZenonT(40)
  <2>7. SumOf(al, {n \in DOMAIN al : al[n].item = lines[a].item}) \in Nat
    BY <1>3, AllocationsCount, SumOfType
  <2>8. lines[a].quantity <= SumOf(al, {n \in DOMAIN al : al[n].item = lines[a].item})
    BY <1>2, <1>3, <1>8 DEF Coverable, Allotted
  <2>9. g[a] = SumFunctionOnSet(f, {p \in S : h[p] = a})
    OBVIOUS
  <2>. HIDE DEF f, g, h, T, t, b
  <2>10. g[a] = Least(lines[a].quantity,
                      SumOf(al, {n \in DOMAIN al : al[n].item = lines[a].item}))
    BY <2>2, <2>5, <2>6, <2>9
  <2>. QED
    BY <1>8, <2>7, <2>8, <2>10 DEF Least
<1>13. RestockedLines(k) = SumFunctionOnSet(Counts(lines), A)
  BY <1>2, <1>4 DEF RestockedLines, SumOf, Counts
<1>14. SumFunctionOnSet(g, A) = SumFunctionOnSet(Counts(lines), A)
  <2>1. \A a \in A : g[a] = Counts(lines)[a]
    BY <1>8, <1>12 DEF Counts
  <2>. HIDE DEF g
  <2>. QED
    BY <1>7, <2>1, SumEqual
<1>. QED
  BY <1>10, <1>11, <1>13, <1>14

\* The orders that were delivered before were allocated in full,
LEMMA DeliveredFull == OMSInit => FullInv
<1>. SUFFICES ASSUME OMSInit, NEW o \in DOMAIN orders PROVE OrderFull(o)
  BY DEF FullInv
<1>1. orders = Delivered /\ orders \in Seq(PlacedOrders)
  BY DeliveredFacts DEF OMSInit
<1>2. PICK cart, al : cart = orders[o].cart /\ al = orders[o].allocations
  OBVIOUS
<1>3. /\ \A i \in DOMAIN cart : Allotted(o, i) = cart[i].quantity
      /\ \A n \in DOMAIN al :
            al[n].item \in DOMAIN cart /\ al[n].row[1] = cart[al[n].item].product
  BY <1>1, <1>2, DeliveredInFull DEF Allotted
<1>4. \A i : Allotted(o, i) = Part(al, OfItem(i))
  BY <1>1, <1>2, OrderParts
<1>. QED
  BY <1>2, <1>3, <1>4 DEF OrderFull

\* and so is every order that is committed since.
LEMMA OMSFullStep ==
  ASSUME OMSTypeInv, JobsInv, FullInv, [OMSNext]_omsVars
  PROVE  FullInv'
<1>0. TypeInv /\ Handlers /\ orders \in Seq(PlacedOrders)
  BY HandlersType DEF OMSTypeInv
<1>1. CASE InventoryNext /\ UNCHANGED <<orderVars, warehouseVars, returnVars, lifeVars>>
  BY <1>1, SameGoodsFull DEF orderVars, SameGoods
<1>2. ASSUME NEW w \in Workers, OrderEvent(w) PROVE FullInv'
  BY <1>0, <1>2, CommitFull, OthersSameGoods, SameGoodsFull DEF OrderEvent
<1>3. ASSUME NEW w \in Workers, ReceiptEvent(w) \/ ReturnEvent(w) PROVE FullInv'
  BY <1>3, OtherEvents, SameGoodsFull DEF SameGoods
<1>4. ASSUME NEW w \in Workers, LifeEvent(w) PROVE FullInv'
  <2>1. DOMAIN orders' = DOMAIN orders /\ \A o \in DOMAIN orders : SameOrderBut(o)
    BY <1>0, <1>4, LifeOrders DEF LifeEvent
  <2>. QED
    BY <2>1, SameGoodsFull DEF SameGoods, SameOrderBut
<1>5. CASE UNCHANGED omsVars
  BY <1>5, SameGoodsFull DEF omsVars, vars, orderVars, SameGoods
<1>. QED
  BY <1>1, <1>2, <1>3, <1>4, <1>5, OMSStepOf

LEMMA OMSFullInvariant == OMSSpec => [](JobsInv /\ FullInv)
<1>1. OMSTypeInv /\ (JobsInv /\ FullInv) /\ [OMSNext]_omsVars => (JobsInv /\ FullInv)'
  BY OMSJobsStep, OMSFullStep
<1>2. OMSInit => JobsInv /\ FullInv
  BY OMSBackedInit, DeliveredFull
<1>. QED
  BY <1>1, <1>2, OMSTypeInvariant, PTL DEF OMSSpec

\* Returns keep their orders and their lines, and one more may be committed.
LEMMA ReturnLines ==
  ASSUME OMSTypeInv, NEW w \in Workers, ReturnEvent(w)
  PROVE  /\ \A k \in DOMAIN returns :
               /\ k \in DOMAIN returns'
               /\ returns'[k].order = returns[k].order
               /\ returns'[k].lines = returns[k].lines
         /\ \/ DOMAIN returns' = DOMAIN returns
            \/ /\ CommitReturn(w)
               /\ \A k \in DOMAIN returns : returns'[k] = returns[k]
               /\ DOMAIN returns' = DOMAIN returns \cup {Len(returns) + 1}
               /\ Len(returns) + 1 \notin DOMAIN returns
               /\ returns'[Len(returns) + 1].order = returning[w].order
               /\ returns'[Len(returns) + 1].lines = returning[w].lines
               /\ returns'[Len(returns) + 1].status = "REQUESTED"
<1>0. /\ SendReturn(w) \/ ReturnStep(w) \/ AbortReturn(w)
      /\ returns \in Seq(ReturnOrders)
  BY ReturnFacts DEF ReturnEvent
<1>1. CASE CommitReturn(w)
  <2>1. PICK x : /\ returns' = Append(returns, x)
                 /\ x = [order |-> returning[w].order, lines |-> returning[w].lines,
                         status |-> "REQUESTED"]
    BY <1>1 DEF CommitReturn
  <2>. QED
    BY <1>0, <1>1, <2>1
<1>2. CASE CommitRestock(w) \/ CommitRefund(w)
  <2>1. PICK k, t : returns' = [returns EXCEPT ![k].status = t]
    BY <1>2 DEF CommitRestock, CommitRefund, SetStatus
  <2>2. DOMAIN returns' = DOMAIN returns
    BY <2>1
  <2>3. ASSUME NEW n \in DOMAIN returns
        PROVE  returns'[n].order = returns[n].order /\ returns'[n].lines = returns[n].lines
    <3>1. returns[n] \in ReturnOrders
      BY <1>0
    <3>2. returns'[n] = IF n = k THEN [returns[n] EXCEPT !.status = t] ELSE returns[n]
      BY <2>1
    <3>. QED
      BY <3>1, <3>2 DEF ReturnOrders
  <2>. QED
    BY <2>2, <2>3
<1>3. CASE ~ CommitReturn(w) /\ ~ CommitRestock(w) /\ ~ CommitRefund(w)
  <2>1. UNCHANGED returns
    BY <1>0, <1>3 DEF ReturnStep, AbortReturn, SendReturn, RequestReturn, ReadRequested,
       ReadReceived, QueryReturned, LockReturn, ItemReturnable, RefuseReturn, Restock
  <2>. QED
    BY <2>1
<1>. QED
  BY <1>1, <1>2, <1>3

\* A return names items of its order.
ReturnsNamed ==
    \A k \in DOMAIN returns :
        NamedItems(returns[k].lines) \subseteq DOMAIN orders[returns[k].order].cart

LEMMA NamedStep ==
  ASSUME OMSTypeInv, WithinInv, ReturnsNamed, [OMSNext]_omsVars
  PROVE  ReturnsNamed'
<1>0. /\ \A o \in DOMAIN orders : orders'[o].cart = orders[o].cart
      /\ \A k \in DOMAIN returns : returns[k].order \in DOMAIN orders
  BY ReturnsAlone, ReturnFacts DEF ReturnsPlaced
<1>1. CASE UNCHANGED returnVars
  BY <1>0, <1>1 DEF ReturnsNamed, returnVars
<1>2. ASSUME NEW w \in Workers, ReturnEvent(w), NEW k \in DOMAIN returns'
      PROVE  NamedItems(returns'[k].lines) \subseteq DOMAIN orders[returns'[k].order].cart
  <2>1. CASE k \in DOMAIN returns
    <3>1. returns'[k].lines = returns[k].lines /\ returns'[k].order = returns[k].order
      BY <1>2, <2>1, ReturnLines
    <3>. QED
      BY <2>1, <3>1 DEF ReturnsNamed
  <2>2. CASE k \notin DOMAIN returns
    <3>1. /\ CommitReturn(w) /\ returns'[k].lines = returning[w].lines
          /\ returns'[k].order = returning[w].order
      BY <1>2, <2>2, ReturnLines
    <3>2. ItemsChecked(returning[w].order, returning[w].lines, returning[w].todo)
      BY <3>1 DEF WithinInv, Checked, CommitReturn
    <3>. QED
      BY <3>1, <3>2 DEF ItemsChecked
  <2>. QED
    BY <2>1, <2>2
<1>3. ASSUME NEW w \in Workers, ReturnEvent(w) PROVE ReturnsNamed'
  <2>1. UNCHANGED orders
    BY <1>3 DEF ReturnEvent, ReturnSide, orderVars
  <2>. QED
    BY <1>2, <1>3, <2>1 DEF ReturnsNamed
<1>. QED
  BY <1>1, <1>3, ReturnsAlone

LEMMA NamedInvariant ==
  ASSUME Overlapping = {}
  PROVE  OMSSpec => []ReturnsNamed
<1>1. OMSInit => ReturnsNamed
  BY DEF OMSInit, ReturnsInit, ReturnsNamed
<1>2. OMSTypeInv /\ WithinInv /\ ReturnsNamed /\ [OMSNext]_omsVars => ReturnsNamed'
  BY NamedStep
<1>. QED
  BY <1>1, <1>2, OMSTypeInvariant, WithinInvariant, PTL DEF OMSSpec

\* There is room for every return that was requested.
LEMMA RoomForReturns ==
  ASSUME OMSTypeInv, WithinInv, ReturnsNamed, FullInv, NEW k \in DOMAIN returns
  PROVE  Coverable(k)
<1>0. /\ returns \in Seq(ReturnOrders) /\ returns[k] \in ReturnOrders
      /\ returns[k].order \in DOMAIN orders
  BY ReturnFacts DEF ReturnsPlaced
<1>1. PICK lines \in ReturnRequests, o \in DOMAIN orders :
          lines = returns[k].lines /\ o = returns[k].order
  BY <1>0 DEF ReturnOrders
<1>. SUFFICES ASSUME NEW n \in DOMAIN lines
              PROVE  lines[n].quantity <= Allotted(o, lines[n].item)
  BY <1>1 DEF Coverable
<1>2. PICK i : i = lines[n].item
  OBVIOUS
<1>3. i \in DOMAIN orders[o].cart
  BY <1>1, <1>2 DEF ReturnsNamed, NamedItems
<1>4. lines[n].quantity <= Requested(lines, i) /\ lines[n].quantity \in Nat \ {0}
  <2>1. PICK S : S = {m \in DOMAIN lines : lines[m].item = i}
    OBVIOUS
  <2>2. /\ IsFiniteSet(S) /\ n \in S /\ \A m \in S : Counts(lines)[m] \in Nat
        /\ Counts(lines)[n] = lines[n].quantity /\ lines[n].quantity \in Nat \ {0}
    BY <1>2, <2>1, LinesFacts, FS_Subset DEF Counts, Lines
  <2>3. lines[n].quantity <= SumFunctionOnSet(Counts(lines), S)
    BY <2>2, SumMember
  <2>. QED
    BY <2>1, <2>2, <2>3 DEF Requested, SumOf, Counts
<1>5. Requested(lines, i) \in Nat
  BY RequestedType
<1>6. Requested(lines, i) <= Returned(o, i) /\ Returned(o, i) \in Nat
  <2>. DEFINE f == [m \in DOMAIN returns |-> Requested(returns[m].lines, i)]
  <2>1. k \in ReturnsOf(o, i)
    BY <1>1, <1>4, <1>5 DEF ReturnsOf
  <2>2. \A m \in ReturnsOf(o, i) : f[m] \in Nat
    BY <1>0, ReturnedType, ReturnFacts, RequestedType DEF ReturnOrders
  <2>3. f[k] = Requested(lines, i)
    BY <1>1
  <2>4. f[k] <= SumFunctionOnSet(f, ReturnsOf(o, i))
    <3>. HIDE DEF f
    <3>. QED
      BY <1>0, <2>1, <2>2, ReturnedType, SumMember
  <2>. QED
    BY <1>0, <2>3, <2>4, ReturnedType DEF Returned
<1>7. Returned(o, i) <= orders[o].cart[i].quantity
  BY <1>3 DEF WithinInv, ReturnsWithinOrder
<1>8. orders \in Seq(PlacedOrders) /\ orders[o] \in PlacedOrders
  <2>1. orders \in Seq(PlacedOrders)
    BY DEF OMSTypeInv, TypeInv, Typed, OrdersTypeOK
  <2>. QED
    BY <2>1
<1>9. Allotted(o, i) = orders[o].cart[i].quantity /\ orders[o].cart[i].quantity \in Nat
  BY <1>3, <1>8, OrderParts, CartQuantity DEF FullInv, OrderFull
<1>. QED
  BY <1>2, <1>4, <1>5, <1>6, <1>7, <1>9

\* Whatever is no step of a return adds nothing to what was returned and to what
\* a return has posted.
LEMMA OthersPost ==
  ASSUME OMSTypeInv, StockInv, [OMSNext]_omsVars
  PROVE  \/ \E w \in Workers : ReturnEvent(w)
         \/ /\ UNCHANGED returnVars
            /\ movements'["RETURN"] = movements["RETURN"]
            /\ \A v \in Workers : /\ pc'[v] = pc[v] \/ pc'[v] \notin ReturnSteps
                                  /\ pc[v] \in ReturnSteps => posted'[v] = posted[v]
<1>0. /\ TypeInv /\ Handlers /\ Pending /\ pc = [v \in Workers |-> pc[v]]
      /\ movements \in [MovementTypes -> [Rows -> Nat]]
      /\ posted \in [Workers -> [Rows -> Nat]]
  BY HandlersType, PendingType DEF OMSTypeInv, TypeInv, Typed, StoreTypeOK
<1>. DEFINE Quiet == /\ movements'["RETURN"] = movements["RETURN"]
                     /\ \A v \in Workers : pc[v] \in ReturnSteps => posted'[v] = posted[v]
<1>1. CASE InventoryNext /\ UNCHANGED <<orderVars, warehouseVars, returnVars, lifeVars>>
  BY <1>0, <1>1 DEF InventoryNext, Reserve, Release, MovementTypes
<1>2. ASSUME NEW w \in Workers, OrderEvent(w) PROVE Quiet
  <2>1. Send(w) \/ OrderStep(w) \/ AbortOrder(w)
    BY <1>2 DEF OrderEvent
  <2>2. pc[w] \notin ReturnSteps
    BY <1>0, <2>1, OrderStepsTaken DEF StepsWithin, OrderSteps, ReturnSteps
  <2>3. \A v \in Workers : pc[v] \in ReturnSteps => posted'[v] = posted[v]
    BY <1>0, <2>1, <2>2, OthersPosted
  <2>4. \/ UNCHANGED movements
        \/ \E t \in {"RESERVATION", "RELEASE"} : \E x : movements' = [movements EXCEPT ![t] = x]
    <3>1. CASE CommitOrder(w)
      BY <3>1 DEF CommitOrder, Commit
    <3>2. CASE CommitCancel(w)
      BY <3>2 DEF CommitCancel, Commit
    <3>3. CASE ~ CommitOrder(w) /\ ~ CommitCancel(w)
      BY <2>1, <3>3 DEF Send, CreateOrder, CancelOrder, Accept, OrderStep, InsertOrder,
         DuplicateOrder, NextItem, AllocateFrom, RejectOrder, ReadAllocations, ReleaseStock,
         RejectCancel, AbortOrder, Rollback
    <3>. QED
      BY <3>1, <3>2, <3>3
  <2>. QED
    BY <1>0, <2>3, <2>4 DEF MovementTypes
<1>3. ASSUME NEW w \in Workers, ReceiptEvent(w) PROVE Quiet
  <2>1. Deliver(w) \/ ReceiptStep(w) \/ AbortReceipt(w)
    BY <1>3 DEF ReceiptEvent
  <2>2. pc[w] \notin ReturnSteps
    BY <1>0, <2>1, ReceiptStepsTaken DEF StepsWithin, ReceiptSteps, ReturnSteps
  <2>3. \A v \in Workers : pc[v] \in ReturnSteps => posted'[v] = posted[v]
    BY <1>0, <2>1, <2>2 DEF Deliver, GetWarehouse, Accept, ReceiptStep, LockWarehouse,
       RefuseReceipt, CommitReceipt, FailReceipt, AbortReceipt, Rollback, Commit, EndSession
  <2>4. \/ UNCHANGED movements
        \/ \E x : movements' = [movements EXCEPT !["RECEIPT"] = x]
    BY <2>1 DEF Deliver, GetWarehouse, Accept, ReceiptStep, LockWarehouse,
       RefuseReceipt, CommitReceipt, FailReceipt, AbortReceipt, Rollback, Commit
  <2>. QED
    BY <1>0, <2>3, <2>4 DEF MovementTypes
<1>4. ASSUME NEW w \in Workers, LifeEvent(w) PROVE Quiet
  BY <1>4 DEF LifeEvent, LifeSide
<1>5. CASE UNCHANGED omsVars
  BY <1>5 DEF omsVars, vars, storeVars
<1>. QED
  BY <1>1, <1>2, <1>3, <1>4, <1>5, OMSStepOf, ReturnsAlone

\* What a plan takes back is what its head and its tail do.
LEMMA PlanTail ==
  ASSUME NEW s \in Seq(Takes)
  PROVE  /\ SumOf(s, DOMAIN s) \in Nat
         /\ s # <<>> => SumOf(s, DOMAIN s)
                           = Head(s).quantity + SumOf(Tail(s), DOMAIN Tail(s))
<1>1. \A x \in Takes : x.quantity \in Nat
  BY DEF Takes
<1>2. ASSUME NEW t \in Seq(Takes)
      PROVE  SumOf(t, DOMAIN t) = Part(t, Takes) /\ Part(t, Takes) \in Nat
  <2>0. \A n \in DOMAIN t : t[n] \in Takes
    OBVIOUS
  <2>1. {n \in DOMAIN t : t[n] \in Takes} = DOMAIN t
    BY <2>0
  <2>. QED
    BY <1>1, <2>1, PartType DEF Part
<1>3. ASSUME s # <<>>
      PROVE  Part(s, Takes) = Head(s).quantity + Part(Tail(s), Takes)
  <2>1. Head(s) \in Takes
    BY <1>3
  <2>. QED
    BY <1>1, <1>3, <2>1, PartTail
<1>4. s # <<>> => Tail(s) \in Seq(Takes)
  OBVIOUS
<1>. QED
  BY <1>2, <1>3, <1>4

\* What a session has put back and what it still has to is all of its return.
RestockDone(w) ==
    pc[w] = "restock" =>
        SumFunctionOnSet(posted[w], Rows)
          + SumOf(returning[w].plan, DOMAIN returning[w].plan)
            = RestockedLines(returning[w].id)

\* A session that begins to restock plans all of it,
LEMMA RestockBegins ==
  ASSUME OMSTypeInv, StockInv, NEW w \in Workers, NEW k \in DOMAIN returns,
         Coverable(k), ReadRequested(w, k)
  PROVE  RestockDone(w)'
<1>0. /\ posted \in [Workers -> [Rows -> Nat]] /\ returning \in [Workers -> Returnings]
  BY ReturnFacts DEF OMSTypeInv, TypeInv, Typed, StoreTypeOK
<1>1. PICK plan \in Plans(k) :
          returning' = [returning EXCEPT ![w].id = k, ![w].order = returns[k].order,
                                         ![w].plan = plan]
  BY DEF ReadRequested
<1>2. returning'[w].id = k /\ returning'[w].plan = plan
  BY <1>0, <1>1 DEF Returnings
<1>3. returns' = returns /\ posted' = posted /\ pc[w] = "idle"
  BY DEF ReadRequested, Accept
<1>4. SumFunctionOnSet(posted[w], Rows) = 0
  <2>1. \A r \in Rows : posted[w][r] = 0
    BY <1>3 DEF StockInv, SessionOK, LocksOK, LockingSteps
  <2>. QED
    BY <2>1, RowsFinite, SumZero
<1>5. SumOf(plan, DOMAIN plan) = RestockedLines(k)
  BY PlanTakesAll
<1>6. SumOf(plan, DOMAIN plan) \in Nat
  BY PlansType, PlanTail
<1>7. RestockedLines(k)' = RestockedLines(k)
  BY <1>3 DEF RestockedLines
<1>8. (RestockedLines(returning[w].id))' = RestockedLines(k)'
  BY <1>2 DEF RestockedLines
<1>9. SumFunctionOnSet(posted'[w], Rows)
        + SumOf(returning'[w].plan, DOMAIN returning'[w].plan) = RestockedLines(k)
  BY <1>2, <1>3, <1>4, <1>5, <1>6
<1>. QED
  BY <1>7, <1>8, <1>9 DEF RestockDone

\* and each row it adds to is one part of the plan less.
LEMMA RestockGoesOn ==
  ASSUME OMSTypeInv, NEW w \in Workers, RestockDone(w), Restock(w)
  PROVE  RestockDone(w)'
<1>0. /\ posted \in [Workers -> [Rows -> Nat]] /\ returning \in [Workers -> Returnings]
      /\ returning[w] \in Returnings
  BY ReturnFacts DEF OMSTypeInv, TypeInv, Typed, StoreTypeOK
<1>1. PICK plan \in Seq(Takes) : plan = returning[w].plan /\ plan # <<>>
  BY <1>0 DEF Restock, Returnings
<1>2. PICK t \in Takes : t = Head(plan)
  BY <1>1
<1>3. /\ returns' = returns /\ pc' = pc /\ pc[w] = "restock"
      /\ posted' = [posted EXCEPT ![w][t.row] = @ + t.quantity]
      /\ returning' = [returning EXCEPT ![w].plan = Tail(plan)]
  BY <1>0, <1>1, <1>2 DEF Restock, LockAndChange, Returnings
<1>4. returning'[w].id = returning[w].id /\ returning'[w].plan = Tail(plan)
  BY <1>0, <1>3 DEF Returnings
<1>5. t.row \in Rows /\ t.quantity \in Nat
  BY <1>2 DEF Takes
<1>6. PICK p, q : p = posted[w] /\ q = posted'[w]
  OBVIOUS
<1>7. /\ p \in [Rows -> Nat] /\ q \in [Rows -> Nat]
      /\ q[t.row] = p[t.row] + t.quantity /\ \A r \in Rows \ {t.row} : q[r] = p[r]
  BY <1>0, <1>3, <1>5, <1>6
<1>8. SumFunctionOnSet(q, Rows) = SumFunctionOnSet(p, Rows) + t.quantity
  <2>0. PICK r \in Rows : r = t.row
    BY <1>5
  <2>1. SumFunctionOnSet(q, Rows) = SumFunctionOnSet(p, Rows) + (q[t.row] - p[t.row])
    <3>1. /\ \A x \in Rows : p[x] \in Int /\ q[x] \in Int
          /\ \A x \in Rows \ {r} : q[x] = p[x]
      BY <1>7, <2>0
    <3>2. SumFunctionOnSet(q, Rows) = SumFunctionOnSet(p, Rows) + (q[r] - p[r])
      BY <3>1, RowsFinite, SumUpdate
    <3>. QED
      BY <2>0, <3>2
  <2>2. SumFunctionOnSet(p, Rows) \in Int
    BY <1>7, RowsFinite, SumInt
  <2>3. p[t.row] \in Nat
    BY <1>5, <1>7
  <2>. QED
    BY <1>5, <1>7, <2>1, <2>2, <2>3
<1>9. SumOf(plan, DOMAIN plan) = t.quantity + SumOf(Tail(plan), DOMAIN Tail(plan))
  BY <1>1, <1>2, PlanTail
<1>10. SumOf(Tail(plan), DOMAIN Tail(plan)) \in Nat /\ SumFunctionOnSet(p, Rows) \in Nat
  <2>1. Tail(plan) \in Seq(Takes)
    BY <1>1
  <2>2. \A x \in Rows : p[x] \in Nat /\ p[x] \in Int
    BY <1>7
  <2>3. SumFunctionOnSet(p, Rows) \in Nat
    BY <2>2, RowsFinite, SumInt
  <2>. QED
    BY <2>1, <2>3, PlanTail
<1>11. SumFunctionOnSet(p, Rows) + SumOf(plan, DOMAIN plan) = RestockedLines(returning[w].id)
  BY <1>1, <1>3, <1>6 DEF RestockDone
<1>12. SumFunctionOnSet(q, Rows) + SumOf(Tail(plan), DOMAIN Tail(plan))
         = RestockedLines(returning[w].id)
  BY <1>5, <1>8, <1>9, <1>10, <1>11
<1>13. (RestockedLines(returning[w].id))' = RestockedLines(returning[w].id)
  BY <1>3, <1>4 DEF RestockedLines
<1>. QED
  BY <1>4, <1>6, <1>12, <1>13 DEF RestockDone

\* Sessions disturb each other in none of this.
LEMMA RestockKept ==
  ASSUME OMSTypeInv, NEW v \in Workers, RestockDone(v),
         pc'[v] = "restock" =>
             /\ pc[v] = "restock" /\ posted'[v] = posted[v] /\ returning'[v] = returning[v]
             /\ returns'[returning[v].id].lines = returns[returning[v].id].lines
  PROVE  RestockDone(v)'
<1>. SUFFICES ASSUME pc'[v] = "restock" PROVE RestockDone(v)'
  BY DEF RestockDone
<1>1. (RestockedLines(returning[v].id))' = RestockedLines(returning[v].id)
  BY DEF RestockedLines
<1>. QED
  BY <1>1 DEF RestockDone

LEMMA RestockStep ==
  ASSUME OMSTypeInv, StockInv, FullInv, WithinInv, ReturnsNamed, RestockComplete,
         [OMSNext]_omsVars
  PROVE  RestockComplete'
<1>0. \A v \in Workers : RestockDone(v) /\ ReturningOK(v)
  BY ReturnFacts DEF RestockComplete, RestockDone
<1>1. CASE /\ UNCHANGED returnVars
           /\ \A v \in Workers : /\ pc'[v] = pc[v] \/ pc'[v] \notin ReturnSteps
                                 /\ pc[v] \in ReturnSteps => posted'[v] = posted[v]
  <2>1. ASSUME NEW v \in Workers PROVE RestockDone(v)'
    BY <1>0, <1>1, RestockKept DEF returnVars, ReturnSteps
  <2>. QED
    BY <2>1 DEF RestockComplete, RestockDone
<1>2. ASSUME NEW w \in Workers, ReturnEvent(w), NEW v \in Workers
      PROVE  RestockDone(v)'
  <2>0. SendReturn(w) \/ ReturnStep(w) \/ AbortReturn(w)
    BY <1>2 DEF ReturnEvent
  <2>1. CASE v # w
    <3>1. pc'[v] = pc[v] /\ returning'[v] = returning[v] /\ posted'[v] = posted[v]
      BY <1>2, <2>1, OthersReturning, ReturnsReserveNothing
    <3>2. pc[v] = "restock" => returning[v].id \in DOMAIN returns
      BY <1>0 DEF ReturningOK
    <3>3. pc[v] = "restock" =>
              returns'[returning[v].id].lines = returns[returning[v].id].lines
      BY <1>2, <3>2, ReturnLines
    <3>. QED
      BY <1>0, <3>1, <3>3, RestockKept
  <2>2. CASE v = w
    <3>1. CASE Restock(w)
      BY <1>0, <2>2, <3>1, RestockGoesOn
    <3>2. ASSUME NEW k \in DOMAIN returns, ReadRequested(w, k) PROVE RestockDone(w)'
      BY <3>2, RoomForReturns, RestockBegins
    <3>3. CASE ~ Restock(w) /\ ~ \E k \in DOMAIN returns : ReadRequested(w, k)
      <4>1. CASE \/ RefuseReturn(w) \/ CommitReturn(w) \/ CommitRestock(w)
                 \/ CommitRefund(w) \/ AbortReturn(w)
        <5>1. EndSession(w)
          BY <4>1 DEF RefuseReturn, CommitReturn, CommitRestock, CommitRefund, AbortReturn,
             Rollback, Commit
        <5>2. pc'[w] = "idle"
          BY <5>1, ReturnFacts DEF EndSession
        <5>. QED
          BY <2>2, <5>2 DEF RestockDone
      <4>2. CASE QueryReturned(w) \/ LockReturn(w) \/ ItemReturnable(w)
        <5>1. pc'[w] \in {"query", "lock"}
          BY <4>2, ReturnFacts DEF QueryReturned, LockReturn, ItemReturnable, storeVars
        <5>. QED
          BY <2>2, <5>1 DEF RestockDone
      <4>3. CASE SendReturn(w)
        <5>1. \E step \in {"query", "refund"} : pc' = [pc EXCEPT ![w] = step]
          BY <3>3, <4>3 DEF SendReturn, RequestReturn, ReadReceived, Accept
        <5>2. pc'[w] # "restock"
          BY <5>1, ReturnFacts
        <5>. QED
          BY <2>2, <5>2 DEF RestockDone
      <4>. QED
        BY <2>0, <2>2, <3>3, <4>1, <4>2, <4>3 DEF ReturnStep
    <3>. QED
      BY <2>2, <3>1, <3>2, <3>3
  <2>. QED
    BY <2>1, <2>2
<1>3. ASSUME NEW w \in Workers, ReturnEvent(w) PROVE RestockComplete'
  BY <1>2, <1>3 DEF RestockComplete, RestockDone
<1>. QED
  BY <1>1, <1>3, OthersPost

\* There is always room for all of a return among the allocations of its items
\* when the requests about an order come one at a time.
THEOREM OMSRestockComplete ==
  ASSUME Overlapping = {}
  PROVE  OMSSpec => []RestockComplete
<1>1. OMSInit => RestockComplete
  BY DEF OMSInit, Opening, RestockComplete
<1>2. /\ OMSTypeInv /\ StockInv /\ FullInv /\ WithinInv /\ ReturnsNamed
      /\ RestockComplete /\ [OMSNext]_omsVars
      => RestockComplete'
  BY RestockStep
<1>. QED
  BY <1>1, <1>2, OMSStockInvariant, OMSFullInvariant, WithinInvariant, NamedInvariant, PTL
     DEF OMSSpec

-----------------------------------------------------------------------------
\* The returns that were received.
ReceivedReturns == {k \in DOMAIN returns : returns[k].status # "REQUESTED"}

Restocks == [k \in DOMAIN returns |-> RestockedLines(k)]

\* They are finitely many, and each restocks a natural number.
LEMMA RestocksType ==
  ASSUME OMSTypeInv
  PROVE  /\ IsFiniteSet(ReceivedReturns)
         /\ \A k \in DOMAIN returns : RestockedLines(k) \in Nat
<1>1. /\ DOMAIN returns = 1..Len(returns) /\ Len(returns) \in Nat
      /\ \A k \in DOMAIN returns : returns[k] \in ReturnOrders
  BY ReturnFacts
<1>2. IsFiniteSet(ReceivedReturns)
  <2>1. IsFiniteSet(1..Len(returns)) /\ ReceivedReturns \subseteq 1..Len(returns)
    BY <1>1, FS_Interval DEF ReceivedReturns
  <2>. QED
    BY <2>1, FS_Subset
<1>3. ASSUME NEW k \in DOMAIN returns PROVE RestockedLines(k) \in Nat
  <2>1. PICK lines \in ReturnRequests : lines = returns[k].lines
    BY <1>1 DEF ReturnOrders
  <2>2. /\ IsFiniteSet(Restockable(lines))
        /\ \A n \in Restockable(lines) : Counts(lines)[n] \in Nat
    BY LinesFacts, FS_Subset DEF Restockable, Counts
  <2>3. SumFunctionOnSet(Counts(lines), Restockable(lines)) \in Nat
    BY <2>2, SumInt
  <2>. QED
    BY <2>1, <2>3 DEF RestockedLines, SumOf, Counts
<1>. QED
  BY <1>2, <1>3

\* Nothing is in stock again when no return is received.
LEMMA RestockedSame ==
  ASSUME OMSTypeInv, RestockedOnce, movements'["RETURN"] = movements["RETURN"],
         \A k \in DOMAIN returns :
             /\ k \in DOMAIN returns' /\ returns'[k].lines = returns[k].lines
             /\ returns'[k].status = "REQUESTED" <=> returns[k].status = "REQUESTED",
         \A k \in DOMAIN returns' \ DOMAIN returns : returns'[k].status = "REQUESTED"
  PROVE  RestockedOnce'
<1>1. ReceivedReturns' = ReceivedReturns
  BY DEF ReceivedReturns
<1>2. PICK f, g : f = Restocks /\ g = Restocks'
  OBVIOUS
<1>3. \A k \in ReceivedReturns : g[k] = f[k]
  BY <1>2 DEF Restocks, RestockedLines, ReceivedReturns
<1>4. SumFunctionOnSet(g, ReceivedReturns) = SumFunctionOnSet(f, ReceivedReturns)
  BY <1>3, RestocksType, SumEqual
<1>5. SumFunctionOnSet(movements["RETURN"], Rows) = SumFunctionOnSet(f, ReceivedReturns)
  BY <1>2 DEF RestockedOnce, Restocks, ReceivedReturns
<1>6. SumFunctionOnSet(movements'["RETURN"], Rows) = SumFunctionOnSet(g, ReceivedReturns')
  BY <1>1, <1>4, <1>5
<1>. QED
  BY <1>2, <1>6 DEF RestockedOnce, Restocks, ReceivedReturns

\* The commit of a return puts all of it in stock.
LEMMA CommitRestocked ==
  ASSUME OMSTypeInv, RestockedOnce, NEW w \in Workers, RestockDone(w), StatusRead(w),
         CommitRestock(w)
  PROVE  RestockedOnce'
<1>0. /\ posted \in [Workers -> [Rows -> Nat]] /\ movements \in [MovementTypes -> [Rows -> Nat]]
      /\ returns \in Seq(ReturnOrders) /\ ReturningOK(w)
  BY ReturnFacts DEF OMSTypeInv, TypeInv, Typed, StoreTypeOK
<1>1. PICK k \in DOMAIN returns : k = returning[w].id
  BY <1>0 DEF CommitRestock, ReturningOK
<1>2. returns[k].status = "REQUESTED" /\ returns' = [returns EXCEPT ![k].status = "RECEIVED"]
  BY <1>1 DEF CommitRestock, StatusRead, SetStatus
<1>3. PICK p, m, n : /\ p = posted[w] /\ m = movements["RETURN"]
                     /\ n = movements'["RETURN"]
  OBVIOUS
<1>4. \A r \in Rows : p[r] \in Int /\ m[r] \in Int /\ n[r] = m[r] + p[r]
  BY <1>0, <1>3 DEF CommitRestock, Commit, MovementTypes
<1>5. SumFunctionOnSet(n, Rows) = SumFunctionOnSet(m, Rows) + SumFunctionOnSet(p, Rows)
  BY <1>4, RowsFinite, SumPlus
<1>6. SumFunctionOnSet(p, Rows) = RestockedLines(k)
  <2>1. SumOf(<<>>, DOMAIN <<>>) = 0
    BY SumEmpty DEF SumOf
  <2>2. SumFunctionOnSet(p, Rows) + SumOf(<<>>, DOMAIN <<>>) = RestockedLines(k)
    BY <1>1, <1>3 DEF RestockDone, CommitRestock
  <2>3. SumFunctionOnSet(p, Rows) \in Int
    BY <1>4, RowsFinite, SumInt
  <2>. QED
    BY <2>1, <2>2, <2>3
<1>7. /\ DOMAIN returns' = DOMAIN returns
      /\ \A j \in DOMAIN returns : /\ returns'[j].lines = returns[j].lines
                                   /\ j # k => returns'[j] = returns[j]
      /\ returns'[k].status = "RECEIVED"
  <2>1. returns[k] \in ReturnOrders
    BY <1>0
  <2>2. PICK x : x = [returns[k] EXCEPT !.status = "RECEIVED"]
    OBVIOUS
  <2>3. x.lines = returns[k].lines /\ x.status = "RECEIVED"
    BY <2>1, <2>2 DEF ReturnOrders
  <2>4. returns' = [returns EXCEPT ![k] = x]
    BY <1>2, <2>2
  <2>. QED
    BY <2>3, <2>4
<1>8. PICK S, T, f, g : /\ S = ReceivedReturns /\ T = ReceivedReturns'
                        /\ f = Restocks /\ g = Restocks'
  OBVIOUS
<1>9. k \notin S /\ T = S \cup {k} /\ S \subseteq DOMAIN returns
  BY <1>2, <1>7, <1>8 DEF ReceivedReturns
<1>10. \A j \in DOMAIN returns : g[j] = f[j] /\ f[j] = RestockedLines(j) /\ f[j] \in Int
  BY <1>7, <1>8, RestocksType DEF Restocks, RestockedLines
<1>11. IsFiniteSet(S)
  BY <1>8, RestocksType
<1>12. IsFiniteSet(S \cup {k}) /\ SumFunctionOnSet(f, S \cup {k}) = SumFunctionOnSet(f, S) + f[k]
  BY <1>9, <1>10, <1>11, SumAdd
<1>13. SumFunctionOnSet(g, T) = SumFunctionOnSet(f, T)
  <2>1. IsFiniteSet(T) /\ \A j \in T : g[j] = f[j]
    BY <1>9, <1>10, <1>12
  <2>. QED
    BY <2>1, SumEqual
<1>14. SumFunctionOnSet(m, Rows) = SumFunctionOnSet(f, S)
  BY <1>3, <1>8 DEF RestockedOnce, Restocks, ReceivedReturns
<1>15. SumFunctionOnSet(n, Rows) = SumFunctionOnSet(g, T)
  BY <1>5, <1>6, <1>9, <1>10, <1>12, <1>13, <1>14
<1>. QED
  BY <1>3, <1>8, <1>15 DEF RestockedOnce, Restocks, ReceivedReturns

LEMMA RestockedOnceStep ==
  ASSUME OMSTypeInv, StockInv, StatusesRead, RestockComplete, RestockedOnce, [OMSNext]_omsVars
  PROVE  RestockedOnce'
<1>0. /\ returns \in Seq(ReturnOrders)
      /\ movements \in [MovementTypes -> [Rows -> Nat]]
  BY ReturnFacts DEF OMSTypeInv, TypeInv, Typed, StoreTypeOK
<1>1. CASE UNCHANGED returnVars /\ movements'["RETURN"] = movements["RETURN"]
  BY <1>1, RestockedSame DEF returnVars
<1>2. ASSUME NEW w \in Workers, ReturnEvent(w) PROVE RestockedOnce'
  <2>0. SendReturn(w) \/ ReturnStep(w) \/ AbortReturn(w)
    BY <1>2 DEF ReturnEvent
  <2>1. CASE CommitRestock(w)
    BY <2>1, CommitRestocked DEF RestockComplete, RestockDone, StatusesRead
  <2>2. CASE CommitReturn(w)
    <3>1. UNCHANGED movements
      BY <2>2 DEF CommitReturn
    <3>2. PICK x : returns' = Append(returns, x) /\ x.status = "REQUESTED"
      BY <2>2 DEF CommitReturn
    <3>3. /\ \A k \in DOMAIN returns : k \in DOMAIN returns' /\ returns'[k] = returns[k]
          /\ \A k \in DOMAIN returns' \ DOMAIN returns : returns'[k].status = "REQUESTED"
      BY <1>0, <3>2
    <3>. QED
      BY <3>1, <3>3, RestockedSame
  <2>3. CASE CommitRefund(w)
    <3>1. UNCHANGED movements /\ StatusRead(w) /\ pc[w] = "refund" /\ ReturningOK(w)
      BY <2>3, ReturnFacts DEF CommitRefund, StatusesRead
    <3>2. PICK k \in DOMAIN returns : k = returning[w].id
      BY <3>1 DEF ReturningOK
    <3>3. /\ returns[k].status = "RECEIVED" /\ returns[k] \in ReturnOrders
          /\ returns' = [returns EXCEPT ![k].status = "REFUNDED"]
      BY <1>0, <2>3, <3>1, <3>2 DEF CommitRefund, SetStatus, StatusRead
    <3>4. PICK x : x = [returns[k] EXCEPT !.status = "REFUNDED"]
      OBVIOUS
    <3>5. x.lines = returns[k].lines /\ x.status = "REFUNDED"
      BY <3>3, <3>4 DEF ReturnOrders
    <3>6. returns' = [returns EXCEPT ![k] = x]
      BY <3>3, <3>4
    <3>. QED
      BY <3>1, <3>3, <3>5, <3>6, RestockedSame
  <2>4. CASE ~ CommitRestock(w) /\ ~ CommitReturn(w) /\ ~ CommitRefund(w)
    <3>1. UNCHANGED <<returns, movements>>
      BY <2>0, <2>4 DEF SendReturn, RequestReturn, ReadRequested, ReadReceived, Accept,
         ReturnStep, QueryReturned, LockReturn, ItemReturnable, RefuseReturn, Restock,
         AbortReturn, Rollback, storeVars
    <3>. QED
      BY <3>1, RestockedSame
  <2>. QED
    BY <2>1, <2>2, <2>3, <2>4
<1>. QED
  BY <1>1, <1>2, OthersPost

\* Each return that was received is in stock again, once, when the requests
\* about an order come one at a time.
THEOREM OMSRestockedOnce ==
  ASSUME Overlapping = {}
  PROVE  OMSSpec => []RestockedOnce
<1>1. OMSInit => RestockedOnce
  <2>. SUFFICES ASSUME OMSInit PROVE RestockedOnce
    OBVIOUS
  <2>1. movements["RETURN"] = Nothing /\ ReceivedReturns = {}
    BY DEF OMSInit, Opening, ReturnsInit, ReceivedReturns, MovementTypes
  <2>2. SumFunctionOnSet(movements["RETURN"], Rows) = 0
    BY <2>1, RowsFinite, SumZero DEF Nothing
  <2>3. SumFunctionOnSet(Restocks, ReceivedReturns) = 0
    BY <2>1, SumEmpty
  <2>. QED
    BY <2>2, <2>3 DEF RestockedOnce, Restocks, ReceivedReturns
<1>2. OMSTypeInv /\ StockInv /\ StatusesRead /\ RestockComplete /\ RestockedOnce
      /\ [OMSNext]_omsVars => RestockedOnce'
  BY RestockedOnceStep
<1>. QED
  BY <1>1, <1>2, OMSStockInvariant, StatusesReadInvariant, OMSRestockComplete, PTL DEF OMSSpec

-----------------------------------------------------------------------------
(***************************************************************************)
(* An order with a return stays delivered, while the requests about an     *)
(* order come one at a time: its rows agree with each other, and what a    *)
(* session has read of them is still true when it writes.                  *)
(***************************************************************************)

\* An order has at most one shipment, for which it was packed, and is SHIPPED
\* or DELIVERED exactly when the shipment has left or arrived.
RowsAgree(o) ==
    LET status == orders[o].status
    IN  /\ \A m, n \in LC!ShipmentsOf(o) : m = n
        /\ LC!ShipmentsOf(o) # {} => fulfillment[o] = "PACKED"
        /\ status \in {"SHIPPED", "DELIVERED"} => LC!ShipmentsOf(o) # {}
        /\ \A n \in LC!ShipmentsOf(o) :
              /\ shipments[n].status = "READY_TO_SHIP" <=> status \notin {"SHIPPED", "DELIVERED"}
              /\ shipments[n].status = "DELIVERED" <=> status = "DELIVERED"

\* What a session that picks, packs or ships has read,
TaskRead(w) ==
    LET t == task[w]
    IN  /\ t.step \in {"fulfill", "save_fulfillment"} =>
              /\ fulfillment[t.order] \in DOMAIN LC!FULFILLMENT_TRANSITIONS
              /\ LC!FULFILLMENT_TRANSITIONS[fulfillment[t.order]] = t.target
        /\ t.step \in {"save_fulfillment", "save_shipment"} => t.seen = orders[t.order].status
        /\ t.step \in {"find_shipment", "insert_shipment"} => fulfillment[t.order] = "PACKED"
        /\ t.step = "insert_shipment" => LC!ShipmentsOf(t.order) = {}
        /\ t.step \in {"advance", "save_shipment"} =>
              /\ shipments[t.shipment].status \in DOMAIN LC!TRANSITIONS
              /\ LC!TRANSITIONS[shipments[t.shipment].status] = t.target

\* and one that cancels, or requests a return. Each does one of them.
RequestRead(w) ==
    /\ pc[w] \in {"cancel", "release"} =>
          orders[job[w].target].status \notin {"SHIPPED", "DELIVERED", "CANCELLED"}
    /\ pc[w] \in {"query", "lock"} => orders[returning[w].order].status = "DELIVERED"
    /\ task[w].order = 0 \/ pc[w] = "idle"

LifeInv ==
    /\ \A o \in DOMAIN orders : RowsAgree(o)
    /\ \A w \in Workers : TaskRead(w) /\ RequestRead(w)

\* What a step leaves alone: an order with its rows, and another session.
SameRows(o) ==
    /\ orders'[o].status = orders[o].status
    /\ orders'[o].released = orders[o].released
    /\ fulfillment'[o] = fulfillment[o]
    /\ LC!ShipmentsOf(o)' = LC!ShipmentsOf(o)
    /\ \A n \in LC!ShipmentsOf(o) : shipments'[n] = shipments[n]

SameSession(v) ==
    /\ pc'[v] = pc[v] /\ job'[v] = job[v]
    /\ task'[v] = task[v] /\ returning'[v] = returning[v]

LEMMA RowsStillAgree ==
  ASSUME NEW o, SameRows(o), RowsAgree(o)
  PROVE  RowsAgree(o)'
BY DEF SameRows, RowsAgree

\* The orders a session is about were placed.
LEMMA OrdersAbout ==
  ASSUME OMSTypeInv, NEW v \in Workers
  PROVE  /\ pc[v] \in {"cancel", "release"} => job[v].target \in DOMAIN orders \cap About(v)
         /\ pc[v] \in {"query", "lock"} => returning[v].order \in DOMAIN orders \cap About(v)
         /\ task[v].order # 0 /\ pc[v] = "idle" =>
               task[v].order \in DOMAIN orders \cap About(v)
<1>1. pc[v] \in {"cancel", "release"} => job[v].target \in DOMAIN orders
  BY DEF OMSTypeInv, TypeInv, LocalsOK
<1>2. pc[v] \in {"query", "lock"} => returning[v].order \in DOMAIN orders
  BY ReturnFacts DEF ReturningOK
<1>3. task[v].order # 0 => task[v].order \in DOMAIN orders
  BY DEF OMSTypeInv, LocalsTyped, TaskOK
<1>. QED
  BY <1>1, <1>2, <1>3 DEF About, ReturnSteps

\* What a session has read stays true while nobody writes the rows it is about.
LEMMA StillRead ==
  ASSUME OMSTypeInv, NEW v \in Workers, SameSession(v), TaskRead(v), RequestRead(v),
         \A o \in DOMAIN orders \cap About(v) : SameRows(o)
  PROVE  TaskRead(v)' /\ RequestRead(v)'
<1>1. RequestRead(v)'
  BY OrdersAbout DEF RequestRead, SameSession, SameRows
<1>2. TaskRead(v)'
  <2>1. CASE task[v].order = 0
    <3>1. task'[v].step = "idle"
      BY <2>1 DEF OMSTypeInv, LocalsTyped, TaskOK, SameSession
    <3>. QED
      BY <3>1 DEF TaskRead
  <2>2. CASE task[v].order # 0
    <3>1. SameRows(task[v].order)
      BY <2>2, OrdersAbout DEF RequestRead
    <3>2. task[v].step \in {"advance", "save_shipment"} =>
              task[v].shipment \in LC!ShipmentsOf(task[v].order)
      BY DEF OMSTypeInv, LocalsTyped, TaskOK, LC!ShipmentsOf
    <3>. QED
      BY <3>1, <3>2 DEF TaskRead, SameRows, SameSession
  <2>. QED
    BY <2>1, <2>2
<1>. QED
  BY <1>1, <1>2

\* A step of fulfillment or of a shipment that only reads leaves the rows alone,
LEMMA LooksOnly ==
  ASSUME OMSTypeInv, NEW w \in Workers, LifeEvent(w),
         ~ LC!SaveFulfillment(w), ~ LC!InsertShipment(w), ~ LC!SaveShipment(w)
  PROVE  /\ UNCHANGED <<fulfillment, shipments>>
         /\ \A o \in DOMAIN orders : SameRows(o)
<1>1. /\ UNCHANGED <<fulfillment, shipments>>
      /\ [o \in DOMAIN orders' |-> orders'[o].status] = [o \in DOMAIN orders |-> orders[o].status]
  BY DEF LifeEvent, LC!Fulfill, LC!Ship, LC!GiveUp, LC!ReadFulfillment, LC!ReadFulfilledOrder,
     LC!OpenShipment, LC!FindPackage, LC!FindNoShipment, LC!ReadShipment, LC!ReadShippedOrder,
     LC!Start, LC!Goto, LC!ReadOrder
<1>2. /\ DOMAIN orders' = DOMAIN orders
      /\ \A o \in DOMAIN orders : orders'[o].released = orders[o].released
  BY LifeOrders DEF OMSTypeInv, LifeEvent, SameOrderBut
<1>3. \A o \in DOMAIN orders : orders'[o].status = orders[o].status
  BY <1>1, <1>2
<1>. QED
  BY <1>1, <1>2, <1>3 DEF SameRows, LC!ShipmentsOf

\* and what it reads is so.
LEMMA LooksTrue ==
  ASSUME OMSTypeInv, NEW w \in Workers, LifeEvent(w), TaskRead(w),
         ~ LC!SaveFulfillment(w), ~ LC!InsertShipment(w), ~ LC!SaveShipment(w)
  PROVE  TaskRead(w)'
<1>0. /\ task \in [Workers -> LC!Tasks] /\ task[w] \in LC!Tasks
      /\ UNCHANGED <<fulfillment, shipments>>
      /\ \A o \in DOMAIN orders : orders'[o].status = orders[o].status
      /\ task[w].order # 0 => task[w].order \in DOMAIN orders
      /\ task[w].order = 0 <=> task[w].step = "idle"
      /\ task[w].step \in {"advance", "save_shipment"} => task[w].shipment \in DOMAIN shipments
  BY LifeFacts, LooksOnly DEF SameRows, OMSTypeInv, LocalsTyped, TaskOK
<1>1. CASE LC!GiveUp(w)
  <2>1. task'[w].step = "idle"
    BY <1>0, <1>1 DEF LC!GiveUp, LC!End, LC!Idle
  <2>. QED
    BY <2>1 DEF TaskRead
<1>2. ASSUME NEW o \in DOMAIN orders, NEW target, LC!ReadFulfillment(w, o, target)
      PROVE  TaskRead(w)'
  <2>1. task'[w].step = "fulfill" /\ task'[w].order = o /\ task'[w].target = target
    BY <1>0, <1>2 DEF LC!ReadFulfillment, LC!Start, LC!Idle
  <2>. QED
    BY <1>0, <1>2, <2>1 DEF TaskRead, LC!ReadFulfillment
<1>3. CASE LC!ReadFulfilledOrder(w) \/ LC!ReadShippedOrder(w)
  <2>. DEFINE s == orders[task[w].order].status
  <2>1. PICK step \in {"save_fulfillment", "save_shipment"} :
           /\ task'[w] = [task[w] EXCEPT !.step = step, !.seen = s]
           /\ step = "save_fulfillment" => task[w].step = "fulfill"
           /\ step = "save_shipment" => task[w].step = "advance"
    BY <1>0, <1>3 DEF LC!ReadFulfilledOrder, LC!ReadShippedOrder, LC!ReadOrder, LC!At
  <2>2. /\ task'[w].step = step /\ task'[w].seen = s
        /\ task'[w].order = task[w].order /\ task'[w].target = task[w].target
        /\ task'[w].shipment = task[w].shipment
    <3>. HIDE DEF s
    <3>. QED
      BY <1>0, <2>1 DEF LC!Tasks
  <2>3. orders'[task[w].order].status = s
    BY <1>0, <2>1
  <2>. QED
    BY <1>0, <2>1, <2>2, <2>3 DEF TaskRead
<1>4. ASSUME NEW o \in DOMAIN orders, LC!OpenShipment(w, o)
      PROVE  TaskRead(w)'
  <2>1. task'[w].step = "find_package"
    BY <1>0, <1>4 DEF LC!OpenShipment, LC!Start, LC!Idle
  <2>. QED
    BY <2>1 DEF TaskRead
<1>5. CASE LC!FindPackage(w) \/ LC!FindNoShipment(w)
  <2>1. /\ task'[w].order = task[w].order
        /\ \/ task'[w].step = "find_shipment"
           \/ /\ task'[w].step = "insert_shipment" /\ task[w].step = "find_shipment"
              /\ LC!ShipmentsOf(task[w].order) = {}
        /\ LC!FindPackage(w) => fulfillment[task[w].order] = "PACKED"
        /\ LC!FindNoShipment(w) => task[w].step = "find_shipment"
    BY <1>0, <1>5 DEF LC!FindPackage, LC!FindNoShipment, LC!Goto, LC!Tasks, LC!At
  <2>2. LC!ShipmentsOf(task[w].order)' = LC!ShipmentsOf(task'[w].order)
    BY <1>0, <2>1 DEF LC!ShipmentsOf
  <2>. QED
    BY <1>0, <1>5, <2>1, <2>2 DEF TaskRead, LC!ShipmentsOf
<1>6. ASSUME NEW n \in DOMAIN shipments, LC!ReadShipment(w, n)
      PROVE  TaskRead(w)'
  <2>1. /\ task'[w].step = "advance" /\ task'[w].shipment = n
        /\ task'[w].target = LC!TRANSITIONS[shipments[n].status]
    BY <1>0, <1>6 DEF LC!ReadShipment, LC!Start, LC!Idle
  <2>. QED
    BY <1>0, <1>6, <2>1 DEF TaskRead, LC!ReadShipment
<1>. QED
  BY <1>1, <1>2, <1>3, <1>4, <1>5, <1>6 DEF LifeEvent, LC!Fulfill, LC!Ship

\* The status of an order is written if it is not the one that was read.
WritesStatus(w, status) ==
    [o \in DOMAIN orders' |-> orders'[o].status] =
        IF task[w].seen = status THEN [o \in DOMAIN orders |-> orders[o].status]
        ELSE [[o \in DOMAIN orders |-> orders[o].status] EXCEPT ![task[w].order] = status]

LEMMA OrderWritten ==
  ASSUME OMSTypeInv, NEW w \in Workers, LifeSide(w), NEW status, WritesStatus(w, status),
         task[w].order \in DOMAIN orders, task[w].seen = orders[task[w].order].status
  PROVE  /\ orders'[task[w].order].status = status
         /\ \A o \in DOMAIN orders \ {task[w].order} : orders'[o].status = orders[o].status
<1>1. DOMAIN orders' = DOMAIN orders
  BY LifeOrders DEF OMSTypeInv
<1>2. [o \in DOMAIN orders |-> orders'[o].status] =
          [o \in DOMAIN orders |-> IF o = task[w].order THEN status ELSE orders[o].status]
  BY <1>1 DEF WritesStatus
<1>. QED
  BY <1>2

\* A step that writes rows of its order leaves them in agreement, a delivered
\* order delivered, and the rows of other orders alone.
Settled(w, q) ==
    /\ RowsAgree(q)'
    /\ orders[q].status = "DELIVERED" => orders'[q].status = "DELIVERED"
    /\ \A o \in DOMAIN orders \ {q} : SameRows(o)
    /\ TaskRead(w)'

\* Picking and packing come before there is a shipment.
LEMMA FulfillmentSettles ==
  ASSUME OMSTypeInv, NEW w \in Workers, NEW q \in DOMAIN orders, q = task[w].order,
         LifeSide(w), LC!SaveFulfillment(w),
         TaskRead(w), \A o \in DOMAIN orders : RowsAgree(o)
  PROVE  Settled(w, q)
<1>0. /\ task \in [Workers -> LC!Tasks] /\ task[w].step = "save_fulfillment"
      /\ task[w].target \in LC!Targets
      /\ fulfillment \in [DOMAIN orders -> LC!FulfillmentStatus]
      /\ UNCHANGED shipments
      /\ \A o \in DOMAIN orders : orders'[o].released = orders[o].released
  BY LifeFacts, LifeOrders DEF OMSTypeInv, LocalsTyped, TaskOK, LC!SaveFulfillment, LC!At, SameOrderBut
<1>1. /\ fulfillment[q] \in DOMAIN LC!FULFILLMENT_TRANSITIONS
      /\ LC!FULFILLMENT_TRANSITIONS[fulfillment[q]] \in LC!Targets
      /\ task[w].seen = orders[q].status
  BY <1>0 DEF TaskRead
<1>2. fulfillment[q] # "PACKED"
  BY <1>1 DEF LC!FULFILLMENT_TRANSITIONS, LC!Targets
<1>3. LC!ShipmentsOf(q) = {} /\ orders[q].status \notin {"SHIPPED", "DELIVERED"}
  BY <1>0, <1>2 DEF RowsAgree
<1>4. /\ orders'[q].status = task[w].target
      /\ \A o \in DOMAIN orders \ {q} : orders'[o].status = orders[o].status
  <2>1. PICK target : target = task[w].target
    OBVIOUS
  <2>2. WritesStatus(w, target)
    BY <2>1 DEF LC!SaveFulfillment, LC!SetOrder, WritesStatus
  <2>. QED
    BY <1>1, <2>1, <2>2, OrderWritten
<1>5. orders'[q].status \notin {"SHIPPED", "DELIVERED"}
  BY <1>0, <1>4 DEF LC!Targets
<1>6. \A o \in DOMAIN orders : LC!ShipmentsOf(o)' = LC!ShipmentsOf(o)
  BY <1>0 DEF LC!ShipmentsOf
<1>7. RowsAgree(q)'
  <2>1. LC!ShipmentsOf(q)' = {}
    BY <1>0, <1>3 DEF LC!ShipmentsOf
  <2>. QED
    BY <1>5, <2>1 DEF RowsAgree
<1>8. \A o \in DOMAIN orders \ {q} : SameRows(o)
  BY <1>0, <1>4, <1>6 DEF SameRows, LC!SaveFulfillment
<1>9. TaskRead(w)'
  BY <1>0 DEF TaskRead, LC!SaveFulfillment, LC!End, LC!Idle
<1>. QED
  BY <1>0, <1>3, <1>7, <1>8, <1>9 DEF Settled

\* A shipment is inserted for an order that was packed and has none.
LEMMA ShipmentSettles ==
  ASSUME OMSTypeInv, NEW w \in Workers, NEW q \in DOMAIN orders, q = task[w].order,
         LifeSide(w), LC!InsertShipment(w),
         TaskRead(w), \A o \in DOMAIN orders : RowsAgree(o)
  PROVE  Settled(w, q)
<1>. DEFINE n == Len(shipments) + 1
<1>0. /\ task \in [Workers -> LC!Tasks] /\ task[w].step = "insert_shipment"
      /\ shipments \in Seq([order : DOMAIN orders, status : LC!ShipmentStatus])
      /\ UNCHANGED fulfillment
      /\ DOMAIN orders' = DOMAIN orders
      /\ \A o \in DOMAIN orders : orders'[o].released = orders[o].released
  BY LifeFacts, LifeOrders DEF OMSTypeInv, LocalsTyped, TaskOK, LC!InsertShipment, LC!At, SameOrderBut
<1>1. fulfillment[q] = "PACKED" /\ LC!ShipmentsOf(q) = {}
  BY <1>0 DEF TaskRead
<1>2. orders[q].status \notin {"SHIPPED", "DELIVERED"}
  BY <1>0, <1>1 DEF RowsAgree
<1>3. [o \in DOMAIN orders' |-> orders'[o].status] = [o \in DOMAIN orders |-> orders[o].status]
  BY DEF LC!InsertShipment
<1>4. \A o \in DOMAIN orders : orders'[o].status = orders[o].status
  BY <1>0, <1>3
<1>5. PICK x : /\ shipments' = Append(shipments, x)
               /\ x = [order |-> q, status |-> "READY_TO_SHIP"]
  BY DEF LC!InsertShipment
<1>6. /\ DOMAIN shipments' = DOMAIN shipments \cup {n} /\ n \notin DOMAIN shipments
      /\ \A m \in DOMAIN shipments : shipments'[m] = shipments[m]
      /\ shipments'[n] = x
  BY <1>0, <1>5
<1>7. LC!ShipmentsOf(q)' = {n}
  <2>1. LC!ShipmentsOf(q)' = {m \in DOMAIN shipments' : shipments'[m].order = q}
    BY DEF LC!ShipmentsOf
  <2>2. \A m \in DOMAIN shipments : shipments'[m].order # q
    BY <1>1, <1>6 DEF LC!ShipmentsOf
  <2>3. shipments'[n].order = q
    BY <1>5, <1>6
  <2>. HIDE DEF n
  <2>. QED
    BY <1>6, <2>1, <2>2, <2>3
<1>8. \A o \in DOMAIN orders \ {q} : LC!ShipmentsOf(o)' = LC!ShipmentsOf(o)
  BY <1>5, <1>6 DEF LC!ShipmentsOf
<1>9. RowsAgree(q)'
  <2>1. shipments'[n].status = "READY_TO_SHIP"
    BY <1>5, <1>6
  <2>. HIDE DEF n
  <2>. QED
    BY <1>0, <1>1, <1>2, <1>4, <1>7, <2>1 DEF RowsAgree
<1>10. \A o \in DOMAIN orders \ {q} : SameRows(o)
  BY <1>0, <1>4, <1>6, <1>8 DEF SameRows, LC!ShipmentsOf
<1>11. TaskRead(w)'
  BY <1>0 DEF TaskRead, LC!InsertShipment, LC!End, LC!Idle
<1>. QED
  BY <1>0, <1>4, <1>9, <1>10, <1>11 DEF Settled

\* A shipment moves one state forward, and its order with it when it leaves and
\* when it arrives.
LEMMA AdvanceSettles ==
  ASSUME OMSTypeInv, NEW w \in Workers, NEW q \in DOMAIN orders, q = task[w].order,
         LifeSide(w), LC!SaveShipment(w),
         TaskRead(w), \A o \in DOMAIN orders : RowsAgree(o)
  PROVE  Settled(w, q)
<1>1. PICK k, target : k = task[w].shipment /\ target = task[w].target
  OBVIOUS
<1>2. /\ task \in [Workers -> LC!Tasks] /\ task[w].step = "save_shipment"
      /\ k \in DOMAIN shipments /\ shipments[k].order = q
      /\ shipments[k] \in [order : DOMAIN orders, status : LC!ShipmentStatus]
      /\ UNCHANGED fulfillment
      /\ DOMAIN orders' = DOMAIN orders
      /\ \A o \in DOMAIN orders : orders'[o].released = orders[o].released
  BY <1>1, LifeFacts, LifeOrders
  DEF OMSTypeInv, LocalsTyped, TaskOK, LC!SaveShipment, LC!At, SameOrderBut
<1>3. /\ shipments[k].status \in DOMAIN LC!TRANSITIONS
      /\ LC!TRANSITIONS[shipments[k].status] = target
      /\ task[w].seen = orders[q].status
  BY <1>1, <1>2 DEF TaskRead
<1>4. k \in LC!ShipmentsOf(q)
  BY <1>2 DEF LC!ShipmentsOf
<1>5. /\ LC!ShipmentsOf(q) = {k} /\ fulfillment[q] = "PACKED"
      /\ shipments[k].status = "READY_TO_SHIP" <=> orders[q].status \notin {"SHIPPED", "DELIVERED"}
      /\ shipments[k].status = "DELIVERED" <=> orders[q].status = "DELIVERED"
  BY <1>4 DEF RowsAgree
<1>6. orders[q].status # "DELIVERED"
  BY <1>3, <1>5 DEF LC!TRANSITIONS
<1>7. /\ shipments' = [shipments EXCEPT ![k].status = target]
      /\ target \in {"SHIPPED", "DELIVERED"} => WritesStatus(w, target)
      /\ target \notin {"SHIPPED", "DELIVERED"} =>
            [o \in DOMAIN orders' |-> orders'[o].status] = [o \in DOMAIN orders |-> orders[o].status]
  BY <1>1 DEF LC!SaveShipment, LC!SetOrder, WritesStatus
<1>8. /\ \A o \in DOMAIN orders \ {q} : orders'[o].status = orders[o].status
      /\ orders'[q].status = IF target \in {"SHIPPED", "DELIVERED"} THEN target
                             ELSE orders[q].status
  <2>1. CASE target \in {"SHIPPED", "DELIVERED"}
    BY <1>3, <1>7, <2>1, OrderWritten
  <2>2. CASE target \notin {"SHIPPED", "DELIVERED"}
    BY <1>2, <1>7, <2>2
  <2>. QED
    BY <2>1, <2>2
<1>9. /\ DOMAIN shipments' = DOMAIN shipments
      /\ \A n \in DOMAIN shipments \ {k} : shipments'[n] = shipments[n]
      /\ shipments'[k] = [shipments[k] EXCEPT !.status = target]
  BY <1>2, <1>7
<1>10. shipments'[k].status = target /\ shipments'[k].order = q
  BY <1>2, <1>9
<1>11. LC!ShipmentsOf(q)' = {k}
  <2>1. LC!ShipmentsOf(q)' = {n \in DOMAIN shipments' : shipments'[n].order = q}
    BY DEF LC!ShipmentsOf
  <2>2. \A n \in DOMAIN shipments \ {k} : shipments'[n].order # q
    BY <1>5, <1>9 DEF LC!ShipmentsOf
  <2>. QED
    BY <1>2, <1>9, <1>10, <2>1, <2>2
<1>12. /\ target = "DELIVERED" <=> orders'[q].status = "DELIVERED"
       /\ target # "READY_TO_SHIP" /\ orders'[q].status \in {"SHIPPED", "DELIVERED"}
  BY <1>3, <1>5, <1>6, <1>8 DEF LC!TRANSITIONS
<1>13. RowsAgree(q)'
  BY <1>2, <1>5, <1>10, <1>11, <1>12 DEF RowsAgree
<1>14. \A o \in DOMAIN orders \ {q} : LC!ShipmentsOf(o)' = LC!ShipmentsOf(o)
  BY <1>2, <1>9, <1>10 DEF LC!ShipmentsOf
<1>15. \A o \in DOMAIN orders \ {q} : SameRows(o)
  BY <1>2, <1>8, <1>9, <1>14 DEF SameRows, LC!ShipmentsOf
<1>16. TaskRead(w)'
  BY <1>2 DEF TaskRead, LC!SaveShipment, LC!End, LC!Idle
<1>. QED
  BY <1>6, <1>13, <1>15, <1>16 DEF Settled

\* A step of a session leaves the rows of orders in agreement, what sessions
\* have read true, and delivered orders delivered.
KeptInStep(w) ==
    /\ \A v \in Workers \ {w} : SameSession(v)
    /\ \A o \in DOMAIN orders \ About(w) : SameRows(o)
    /\ \A o \in DOMAIN orders' : RowsAgree(o)'
    /\ \A o \in DOMAIN orders :
          /\ o \in DOMAIN orders'
          /\ orders[o].status = "DELIVERED" => orders'[o].status = "DELIVERED"
    /\ TaskRead(w)' /\ RequestRead(w)'

\* So do fulfillment and shipments,
LEMMA LifeMoves ==
  ASSUME OMSTypeInv, LifeInv, NEW w \in Workers, pc[w] = "idle", LifeEvent(w)
  PROVE  KeptInStep(w)
<1>0. /\ LifeSide(w) /\ UNCHANGED <<pc, job, returning>>
      /\ task \in [Workers -> LC!Tasks] /\ task' = [task EXCEPT ![w] = task'[w]]
      /\ DOMAIN orders' = DOMAIN orders /\ TaskRead(w)
  BY LifeFacts, LifeSteps, LifeOrders
  DEF LifeEvent, LifeSide, LifeStepOK, OMSTypeInv, returnVars, LifeInv
<1>1. \A v \in Workers \ {w} : SameSession(v)
  BY <1>0 DEF SameSession
<1>2. RequestRead(w)'
  BY <1>0 DEF RequestRead
<1>3. CASE ~ LC!SaveFulfillment(w) /\ ~ LC!InsertShipment(w) /\ ~ LC!SaveShipment(w)
  <2>1. \A o \in DOMAIN orders : SameRows(o)
    BY <1>3, LooksOnly
  <2>2. \A o \in DOMAIN orders : RowsAgree(o)'
    BY <2>1, RowsStillAgree DEF LifeInv
  <2>3. TaskRead(w)'
    BY <1>0, <1>3, LooksTrue
  <2>. QED
    BY <1>0, <1>1, <1>2, <2>1, <2>2, <2>3 DEF KeptInStep, SameRows
<1>4. CASE LC!SaveFulfillment(w) \/ LC!InsertShipment(w) \/ LC!SaveShipment(w)
  <2>1. task[w].step # "idle"
    BY <1>4 DEF LC!SaveFulfillment, LC!InsertShipment, LC!SaveShipment, LC!At
  <2>2. PICK q \in DOMAIN orders : q = task[w].order
    BY <2>1 DEF OMSTypeInv, LocalsTyped, TaskOK
  <2>3. q \in About(w)
    BY <2>1, <2>2, OrdersAbout DEF OMSTypeInv, LocalsTyped, TaskOK
  <2>4. Settled(w, q)
    BY <1>0, <1>4, <2>2, FulfillmentSettles, ShipmentSettles, AdvanceSettles DEF LifeInv
  <2>5. \A o \in DOMAIN orders : RowsAgree(o)'
    BY <2>4, RowsStillAgree DEF LifeInv, Settled
  <2>. QED
    BY <1>0, <1>1, <1>2, <2>3, <2>4, <2>5 DEF KeptInStep, Settled, SameRows
<1>. QED
  BY <1>3, <1>4

\* receipts, which have nothing to do with orders,
LEMMA ReceiptMoves ==
  ASSUME OMSTypeInv, LifeInv, NEW w \in Workers, task[w].step = "idle", ReceiptEvent(w)
  PROVE  KeptInStep(w)
<1>0. /\ UNCHANGED <<orders, job, task, fulfillment, shipments, returning>>
      /\ \A v \in Workers \ {w} : pc'[v] = pc[v]
      /\ pc'[w] \in {"idle"} \cup ReceiptSteps
  <2>1. StepsWithin(w, ReceiptSteps)
    BY ReceiptStepsTaken DEF ReceiptEvent, OMSTypeInv, TypeInv, Typed
  <2>. QED
    BY <2>1, OtherEvents DEF StepsWithin, ReceiptEvent, ReceiptSide, lifeVars, returnVars
<1>1. \A o \in DOMAIN orders : SameRows(o) /\ RowsAgree(o)'
  <2>1. \A o \in DOMAIN orders : SameRows(o)
    BY <1>0 DEF SameRows, LC!ShipmentsOf
  <2>. QED
    BY <2>1, RowsStillAgree DEF LifeInv
<1>2. TaskRead(w)' /\ RequestRead(w)'
  BY <1>0 DEF TaskRead, RequestRead, ReceiptSteps, OMSTypeInv, LocalsTyped, TaskOK
<1>3. \A v \in Workers \ {w} : SameSession(v)
  BY <1>0 DEF SameSession
<1>. QED
  BY <1>0, <1>1, <1>2, <1>3 DEF KeptInStep

\* and returns, which read that the order is delivered.
LEMMA ReturnMoves ==
  ASSUME OMSTypeInv, LifeInv, NEW w \in Workers, task[w].step = "idle", ReturnEvent(w)
  PROVE  KeptInStep(w)
<1>0. /\ UNCHANGED <<orders, job, task, fulfillment, shipments>>
      /\ task[w].order = 0
      /\ pc = [v \in Workers |-> pc[v]] /\ returning \in [Workers -> Returnings]
      /\ returning[w] \in Returnings
      /\ SendReturn(w) \/ ReturnStep(w) \/ AbortReturn(w)
  BY ReturnFacts DEF ReturnEvent, ReturnSide, orderVars, lifeVars, OMSTypeInv, LocalsTyped, TaskOK
<1>1. \A o \in DOMAIN orders : SameRows(o) /\ RowsAgree(o)'
  <2>1. \A o \in DOMAIN orders : SameRows(o)
    BY <1>0 DEF SameRows, LC!ShipmentsOf
  <2>. QED
    BY <2>1, RowsStillAgree DEF LifeInv
<1>2. TaskRead(w)'
  BY <1>0 DEF TaskRead
<1>3. RequestRead(w)'
  <2>1. ASSUME NEW o \in DOMAIN orders, NEW lines \in ReturnRequests, RequestReturn(w, o, lines)
        PROVE  pc'[w] = "query" /\ orders[returning'[w].order].status = "DELIVERED"
    <3>1. pc'[w] = "query" /\ returning'[w].order = o
      BY <1>0, <2>1 DEF RequestReturn, Accept, Returnings
    <3>. QED
      BY <2>1, <3>1 DEF RequestReturn
  <2>2. CASE QueryReturned(w) \/ LockReturn(w) \/ ItemReturnable(w)
    <3>1. /\ pc[w] \in {"query", "lock"} /\ pc'[w] \in {"query", "lock"}
          /\ returning'[w].order = returning[w].order
      BY <1>0, <2>2, ZenonT(40) DEF QueryReturned, LockReturn, ItemReturnable, storeVars, Returnings
    <3>. QED
      BY <1>0, <3>1 DEF RequestRead, LifeInv
  <2>3. CASE ~ (QueryReturned(w) \/ LockReturn(w) \/ ItemReturnable(w))
             /\ ~ \E o \in DOMAIN orders, lines \in ReturnRequests : RequestReturn(w, o, lines)
    <3>1. pc'[w] \in {"idle", "restock", "refund"}
      BY <1>0, <2>3 DEF SendReturn, ReturnStep, ReadRequested, ReadReceived, Accept, RefuseReturn,
         CommitReturn, Restock, CommitRestock, CommitRefund, AbortReturn, Commit, Rollback, EndSession
    <3>. QED
      BY <1>0, <3>1 DEF RequestRead
  <2>. QED
    BY <1>0, <2>1, <2>2, <2>3 DEF RequestRead
<1>4. \A v \in Workers \ {w} : SameSession(v)
  BY <1>0, OthersReturning DEF SameSession
<1>. QED
  BY <1>0, <1>1, <1>2, <1>3, <1>4 DEF KeptInStep

\* So do orders: a new one has no shipment, and one that is cancelled has not
\* left.
LEMMA OrderMoves ==
  ASSUME OMSTypeInv, LifeInv, NEW w \in Workers, task[w].step = "idle", OrderEvent(w)
  PROVE  KeptInStep(w)
<1>0. /\ UNCHANGED <<shipments, task, returning>>
      /\ \A o \in DOMAIN orders :
            o \in DOMAIN orders' => fulfillment'[o] = fulfillment[o]
      /\ task[w].order = 0
      /\ orders \in Seq(PlacedOrders) /\ job \in [Workers -> Jobs] /\ Handlers
      /\ pc = [v \in Workers |-> pc[v]]
      /\ Send(w) \/ OrderStep(w) \/ AbortOrder(w)
      /\ RequestRead(w)
  BY HandlersType, LifeFacts
  DEF OrderEvent, OrderSide, returnVars, OMSTypeInv, LocalsTyped, TaskOK, TypeInv, Typed, OrdersTypeOK, LifeInv
<1>1. TaskRead(w)'
  BY <1>0 DEF TaskRead, OMSTypeInv, LocalsTyped, TaskOK
<1>2. \A v \in Workers \ {w} : SameSession(v)
  BY <1>0, OthersJobs DEF SameSession
<1>3. ASSUME NEW o \in DOMAIN orders, o \in DOMAIN orders', orders'[o] = orders[o]
      PROVE  SameRows(o) /\ RowsAgree(o)'
  <2>1. SameRows(o)
    BY <1>0, <1>3 DEF SameRows, LC!ShipmentsOf
  <2>. QED
    BY <2>1, RowsStillAgree DEF LifeInv
<1>4. CASE CommitOrder(w)
  <2>1. PICK x, n : /\ orders' = Append(orders, x) /\ x.status = "ALLOCATED"
                    /\ n = Len(orders) + 1
    BY <1>4 DEF CommitOrder
  <2>2. /\ DOMAIN orders' = DOMAIN orders \cup {n} /\ n \notin DOMAIN orders
        /\ \A o \in DOMAIN orders : orders'[o] = orders[o]
        /\ orders'[n] = x
    BY <1>0, <2>1
  <2>3. RowsAgree(n)'
    <3>1. LC!ShipmentsOf(n)' = {m \in DOMAIN shipments : shipments[m].order = n}
      BY <1>0 DEF LC!ShipmentsOf
    <3>2. LC!ShipmentsOf(n)' = {}
      BY <2>2, <3>1, LifeFacts
    <3>3. orders'[n].status = "ALLOCATED"
      BY <2>1, <2>2
    <3>. QED
      BY <3>2, <3>3 DEF RowsAgree
  <2>4. RequestRead(w)'
    <3>1. pc'[w] = "idle"
      BY <1>0, <1>4 DEF CommitOrder, Commit, EndSession
    <3>. QED
      BY <1>0, <3>1 DEF RequestRead
  <2>5. \A o \in DOMAIN orders : SameRows(o) /\ RowsAgree(o)'
    BY <1>3, <2>2
  <2>. QED
    BY <1>1, <1>2, <2>2, <2>3, <2>4, <2>5 DEF KeptInStep
<1>5. CASE CommitCancel(w)
  <2>1. /\ pc[w] = "release" /\ pc'[w] = "idle"
        /\ orders' = [orders EXCEPT ![job[w].target] =
                          [@ EXCEPT !.status = "CANCELLED", !.released = TRUE]]
    BY <1>0, <1>5 DEF CommitCancel, Commit, EndSession
  <2>2. PICK q \in DOMAIN orders : q = job[w].target /\ q \in About(w)
    BY <2>1, OrdersAbout
  <2>3. orders[q].status \notin {"SHIPPED", "DELIVERED"}
    BY <1>0, <2>1, <2>2 DEF RequestRead
  <2>4. /\ DOMAIN orders' = DOMAIN orders
        /\ \A o \in DOMAIN orders \ {q} : orders'[o] = orders[o]
        /\ orders'[q] = [orders[q] EXCEPT !.status = "CANCELLED", !.released = TRUE]
    BY <2>1, <2>2
  <2>5. orders'[q].status = "CANCELLED"
    <3>1. orders[q] \in PlacedOrders
      BY <1>0
    <3>. QED
      BY <2>4, <3>1 DEF PlacedOrders
  <2>6. RowsAgree(q)'
    <3>1. LC!ShipmentsOf(q)' = LC!ShipmentsOf(q)
      BY <1>0 DEF LC!ShipmentsOf
    <3>2. RowsAgree(q) /\ fulfillment'[q] = fulfillment[q]
      BY <1>0, <2>4 DEF LifeInv
    <3>. QED
      BY <1>0, <2>3, <2>5, <3>1, <3>2 DEF RowsAgree
  <2>7. RequestRead(w)'
    BY <1>0, <2>1 DEF RequestRead
  <2>8. \A o \in DOMAIN orders \ {q} : SameRows(o) /\ RowsAgree(o)'
    BY <1>3, <2>4
  <2>. QED
    BY <1>1, <1>2, <2>2, <2>3, <2>4, <2>6, <2>7, <2>8 DEF KeptInStep, SameRows
<1>6. CASE ~ CommitOrder(w) /\ ~ CommitCancel(w)
  <2>1. orders' = orders
    BY <1>0, <1>6 DEF Send, CreateOrder, CancelOrder, OrderStep, InsertOrder, DuplicateOrder,
       NextItem, AllocateFrom, RejectOrder, ReadAllocations, ReleaseStock, RejectCancel,
       AbortOrder, orderVars
  <2>2. RequestRead(w)'
    <3>1. ASSUME NEW o \in DOMAIN orders, CancelOrder(w, o)
          PROVE  pc'[w] = "cancel" /\ job'[w].target = o
      BY <1>0, <3>1 DEF CancelOrder, Accept, Jobs
    <3>2. ASSUME NEW o \in DOMAIN orders, CancelOrder(w, o) PROVE RequestRead(w)'
      BY <1>0, <2>1, <3>1, <3>2 DEF CancelOrder, RequestRead
    <3>3. CASE ReadAllocations(w)
      <4>1. /\ pc[w] = "cancel" /\ pc'[w] = "release"
            /\ \E s : job' = [job EXCEPT ![w].releasing = s]
        BY <1>0, <3>3 DEF ReadAllocations
      <4>2. job'[w].target = job[w].target
        BY <1>0, <4>1 DEF Jobs
      <4>. QED
        BY <1>0, <2>1, <4>1, <4>2 DEF RequestRead
    <3>4. CASE ReleaseStock(w)
      <4>1. /\ pc[w] = "release" /\ pc'[w] = "release"
            /\ \E s : job' = [job EXCEPT ![w].releasing = s]
        BY <1>0, <3>4 DEF ReleaseStock
      <4>2. job'[w].target = job[w].target
        BY <1>0, <4>1 DEF Jobs
      <4>. QED
        BY <1>0, <2>1, <4>1, <4>2 DEF RequestRead
    <3>5. CASE ~ (\E o \in DOMAIN orders : CancelOrder(w, o)) /\ ~ ReadAllocations(w)
               /\ ~ ReleaseStock(w)
      <4>1. pc'[w] \in {"idle", "insert", "allocate"}
        BY <1>0, <1>6, <3>5 DEF Send, CreateOrder, Accept, OrderStep, InsertOrder, DuplicateOrder,
           NextItem, AllocateFrom, RejectOrder, RejectCancel, AbortOrder, Rollback, EndSession
      <4>. QED
        BY <1>0, <4>1 DEF RequestRead
    <3>. QED
      BY <3>2, <3>3, <3>4, <3>5
  <2>3. \A o \in DOMAIN orders : SameRows(o) /\ RowsAgree(o)'
    BY <1>3, <2>1
  <2>. QED
    BY <1>1, <1>2, <2>1, <2>2, <2>3 DEF KeptInStep
<1>. QED
  BY <1>4, <1>5, <1>6

\* Sessions are not about the same order when clients are disciplined.
LEMMA MovedApart ==
  ASSUME Overlapping = {}, Disciplined, OMSTypeInv, LifeInv, NEW w \in Workers, KeptInStep(w)
  PROVE  LifeInv'
<1>1. ASSUME NEW v \in Workers \ {w} PROVE TaskRead(v)' /\ RequestRead(v)'
  <2>1. About(v) \cap About(w) \subseteq {}
    BY DEF Disciplined
  <2>2. \A o \in DOMAIN orders \cap About(v) : SameRows(o)
    BY <2>1 DEF KeptInStep
  <2>. QED
    BY <2>2, StillRead DEF KeptInStep, LifeInv
<1>. QED
  BY <1>1 DEF KeptInStep, LifeInv

\* Delivered orders stay delivered, and a return is of one of them.
LEMMA LifeInvStep ==
  ASSUME Overlapping = {}, Disciplined, OMSTypeInv, LifeInv, [OMSNext]_omsVars
  PROVE  /\ LifeInv'
         /\ \A o \in DOMAIN orders :
               orders[o].status = "DELIVERED" => orders'[o].status = "DELIVERED"
<1>1. ASSUME UNCHANGED <<orders, fulfillment, shipments, task, pc, job, returning>>
      PROVE  LifeInv' /\ UNCHANGED orders
  BY <1>1 DEF LifeInv, RowsAgree, TaskRead, RequestRead, LC!ShipmentsOf
<1>2. CASE InventoryNext /\ UNCHANGED <<orderVars, warehouseVars, returnVars, lifeVars>>
  BY <1>1, <1>2 DEF InventoryNext, Reserve, Release, orderVars, returnVars, lifeVars
<1>3. CASE UNCHANGED omsVars
  BY <1>1, <1>3 DEF omsVars, vars, storeVars, orderVars, returnVars, lifeVars
<1>4. ASSUME NEW w \in Workers, KeptInStep(w)
      PROVE  /\ LifeInv'
             /\ \A o \in DOMAIN orders :
                   orders[o].status = "DELIVERED" => orders'[o].status = "DELIVERED"
  BY <1>4, MovedApart DEF KeptInStep
<1>. QED
  BY <1>2, <1>3, <1>4, OMSStepOf, LifeMoves, OrderMoves, ReceiptMoves, ReturnMoves

LEMMA LifeInvInit == OMSInit => LifeInv
<1>. SUFFICES ASSUME OMSInit PROVE LifeInv
  OBVIOUS
<1>1. \A w \in Workers : TaskRead(w) /\ RequestRead(w)
  BY DEF OMSInit, Opening, TaskRead, RequestRead, LC!Idle
<1>2. ASSUME NEW o \in DOMAIN orders PROVE RowsAgree(o)
  <2>1. LC!ShipmentsOf(o) = {o} /\ shipments[o].status = "DELIVERED"
    BY DEF OMSInit, LC!ShipmentsOf
  <2>2. fulfillment[o] = "PACKED" /\ orders[o].status = "DELIVERED"
    BY DeliveredFacts DEF OMSInit
  <2>. QED
    BY <2>1, <2>2 DEF RowsAgree
<1>. QED
  BY <1>1, <1>2 DEF LifeInv

LEMMA LifeInvariant ==
  ASSUME Overlapping = {}
  PROVE  OMSSpec => []LifeInv
<1>1. Disciplined /\ OMSTypeInv /\ LifeInv /\ [OMSNext]_omsVars => LifeInv'
  BY LifeInvStep
<1>. QED
  BY <1>1, LifeInvInit, OMSTypeInvariant, DisciplineKept, PTL DEF OMSSpec

\* When the requests about an order come one at a time, an order with a return
\* is a delivered one and stays it.
THEOREM OMSReturnedWasDelivered ==
  ASSUME Overlapping = {}
  PROVE  OMSSpec => []ReturnedWasDelivered
<1>1. OMSInit => ReturnedWasDelivered
  BY DEF OMSInit, ReturnsInit, ReturnedWasDelivered
<1>2. ASSUME Disciplined, OMSTypeInv, LifeInv, ReturnedWasDelivered, [OMSNext]_omsVars
      PROVE  ReturnedWasDelivered'
  <2>1. \A o \in DOMAIN orders :
            orders[o].status = "DELIVERED" => orders'[o].status = "DELIVERED"
    BY <1>2, LifeInvStep
  <2>2. \A k \in DOMAIN returns : returns[k].order \in DOMAIN orders
    BY <1>2, ReturnFacts DEF ReturnsPlaced
  <2>3. CASE UNCHANGED returnVars
    BY <1>2, <2>1, <2>2, <2>3 DEF ReturnedWasDelivered, returnVars
  <2>4. ASSUME NEW w \in Workers, ReturnEvent(w), NEW k \in DOMAIN returns'
        PROVE  orders'[returns'[k].order].status = "DELIVERED"
    <3>1. CASE k \in DOMAIN returns
      BY <1>2, <2>1, <2>2, <2>4, <3>1, ReturnLines DEF ReturnedWasDelivered
    <3>2. CASE k \notin DOMAIN returns
      <4>1. CommitReturn(w) /\ returns'[k].order = returning[w].order
        BY <1>2, <2>4, <3>2, ReturnLines
      <4>2. pc[w] = "query" /\ returning[w].order \in DOMAIN orders
        BY <1>2, <4>1, ReturnFacts DEF CommitReturn, ReturningOK
      <4>3. orders[returning[w].order].status = "DELIVERED"
        BY <1>2, <4>2 DEF LifeInv, RequestRead
      <4>. QED
        BY <2>1, <4>1, <4>2, <4>3
    <3>. QED
      BY <3>1, <3>2
  <2>. QED
    BY <1>2, <2>3, <2>4, ReturnsAlone DEF ReturnedWasDelivered
<1>. QED
  BY <1>1, <1>2, LifeInvariant, OMSTypeInvariant, DisciplineKept, PTL DEF OMSSpec

-----------------------------------------------------------------------------
(***************************************************************************)
(* No unit is sold twice, while the requests about an order come one at a  *)
(* time, nobody reserves by hand, and nobody picks, packs or ships a       *)
(* cancelled order.                                                        *)
(***************************************************************************)

\* An order that gave back what it held is CANCELLED,
ReleasedCancelled ==
    \A o \in DOMAIN orders : orders[o].released => orders[o].status = "CANCELLED"

\* and stays it.
LEMMA ReleasedStep ==
  ASSUME Overlapping = {}, WorkOnCancelled = FALSE, Disciplined, OMSTypeInv, ReleasedCancelled,
         [OMSNext]_omsVars
  PROVE  ReleasedCancelled'
<1>0. orders \in Seq(PlacedOrders) /\ \A o \in DOMAIN orders : orders[o] \in PlacedOrders
  BY LifeFacts
<1>1. CASE UNCHANGED orders
  BY <1>1 DEF ReleasedCancelled
<1>2. ASSUME NEW w \in Workers, LifeEvent(w)
      PROVE  ReleasedCancelled'
  <2>1. /\ DOMAIN orders' = DOMAIN orders
        /\ \A o \in DOMAIN orders :
              /\ orders'[o].released = orders[o].released
              /\ orders'[o].status # orders[o].status => o = task[w].order
    BY <1>2, LifeOrders DEF LifeEvent, OMSTypeInv, SameOrderBut
  <2>2. task[w].order \in DOMAIN orders => orders[task[w].order].status # "CANCELLED"
    BY DEF Disciplined
  <2>. QED
    BY <2>1, <2>2 DEF ReleasedCancelled
<1>3. ASSUME NEW w \in Workers, OrderEvent(w)
      PROVE  ReleasedCancelled'
  <2>1. CASE CommitOrder(w)
    <3>1. PICK x : orders' = Append(orders, x) /\ x.released = FALSE
      BY <2>1 DEF CommitOrder
    <3>. QED
      BY <1>0, <3>1 DEF ReleasedCancelled
  <2>2. CASE CommitCancel(w)
    <3>1. PICK q : orders' = [orders EXCEPT ![q] =
                                 [@ EXCEPT !.status = "CANCELLED", !.released = TRUE]]
      BY <2>2 DEF CommitCancel
    <3>2. ASSUME NEW o \in DOMAIN orders, orders'[o].released
          PROVE  orders'[o].status = "CANCELLED"
      BY <1>0, <3>1, <3>2 DEF ReleasedCancelled, PlacedOrders
    <3>. QED
      BY <3>1, <3>2 DEF ReleasedCancelled
  <2>3. CASE ~ CommitOrder(w) /\ ~ CommitCancel(w)
    <3>1. UNCHANGED orders
      BY <1>3, <2>3 DEF OrderEvent, Send, CreateOrder, CancelOrder, OrderStep, InsertOrder,
         DuplicateOrder, NextItem, AllocateFrom, RejectOrder, ReadAllocations, ReleaseStock,
         RejectCancel, AbortOrder, orderVars
    <3>. QED
      BY <1>1, <3>1
  <2>. QED
    BY <2>1, <2>2, <2>3
<1>. QED
  BY <1>1, <1>2, <1>3, OMSStepOf, OtherEvents
  DEF omsVars, vars, orderVars

LEMMA ReleasedInvariant ==
  ASSUME Overlapping = {}, WorkOnCancelled = FALSE
  PROVE  OMSSpec => []ReleasedCancelled
<1>1. OMSInit => ReleasedCancelled
  BY DeliveredFacts DEF OMSInit, ReleasedCancelled
<1>2. Disciplined /\ OMSTypeInv /\ ReleasedCancelled /\ [OMSNext]_omsVars => ReleasedCancelled'
  BY ReleasedStep
<1>. QED
  BY <1>1, <1>2, OMSTypeInvariant, DisciplineKept, PTL DEF OMSSpec

\* What left the warehouse is still counted as reserved, so the orders that may
\* be shipped and those that were never hold more of a row than is on hand.
THEOREM OMSNothingSoldTwice ==
  ASSUME Overlapping = {}, ManualQuantities = {}, WorkOnCancelled = FALSE
  PROVE  OMSSpec => []NothingSoldTwice
<1>1. ASSUME OMSTypeInv, StockInv, LifeInv, ReleasedCancelled, ReservedIsAllocated
      PROVE  NothingSoldTwice
  <2>1. ASSUME NEW o \in DOMAIN orders, orders[o].released PROVE ~ Shipped(o)
    <3>1. orders[o].status = "CANCELLED" /\ RowsAgree(o)
      BY <1>1, <2>1 DEF ReleasedCancelled, LifeInv
    <3>. QED
      BY <3>1 DEF RowsAgree, Shipped, LC!ShipmentsOf
  <2>2. {o \in DOMAIN orders : ~ orders[o].released \/ Shipped(o)}
            = {o \in DOMAIN orders : ~ orders[o].released}
    BY <2>1
  <2>3. ASSUME NEW r \in Rows
        PROVE  inventory[r].reserved <= inventory[r].on_hand
    <3>1. inventory[r] \in Quantities
      BY <1>1 DEF OMSTypeInv, TypeInv, Typed, StoreTypeOK
    <3>2. Balanced(inventory[r])
      BY <1>1 DEF StockInv, RowOK
    <3>. QED
      BY <3>1, <3>2 DEF Balanced, Quantities
  <2>. QED
    BY <1>1, <2>2, <2>3 DEF NothingSoldTwice, ReservedIsAllocated
<1>. QED
  BY <1>1, OMSTypeInvariant, OMSStockInvariant, LifeInvariant, ReleasedInvariant,
     OMSReservedAllocated, PTL
=============================================================================
