-------------------------- MODULE LifecycleProofs --------------------------
(***************************************************************************)
(* Proofs about Lifecycle, for any sessions, orders and requests: types,   *)
(* what holds however requests overlap, and the journey of the orders      *)
(* whose requests come one at a time.                                      *)
(***************************************************************************)
EXTENDS Lifecycle, FiniteSetTheorems, TLAPS

FulfillSteps == {"fulfill", "save_fulfillment"}
AdvanceSteps == {"advance", "save_shipment"}

\* A session has an order exactly while it is at work; what it is about to
\* write is a status the handler writes; its shipment is one of its order.
TaskOK(w) ==
    /\ task[w].order = 0 <=> task[w].step = "idle"
    /\ task[w].step \in FulfillSteps => task[w].target \in Targets
    /\ task[w].step \in AdvanceSteps =>
          /\ task[w].target \in ShipmentStatus \ {"READY_TO_SHIP"}
          /\ task[w].shipment \in DOMAIN shipments
          /\ shipments[task[w].shipment].order = task[w].order

TasksOK == \A w \in Workers : TaskOK(w)

TypeInv == TypeOK /\ TasksOK

-----------------------------------------------------------------------------

\* A request begins: only the task of its session is new.
LEMMA StartType ==
    ASSUME TypeInv, NEW w \in Workers, NEW t \in Tasks, Start(w, t),
           t.order \in OrderIds, t.step # "idle",
           t.step \in FulfillSteps => t.target \in Targets,
           t.step \in AdvanceSteps =>
              /\ t.target \in ShipmentStatus \ {"READY_TO_SHIP"}
              /\ t.shipment \in DOMAIN shipments
              /\ shipments[t.shipment].order = t.order
    PROVE  TypeInv'
  <1>1. TypeOK'
    BY LifecycleAssumption DEF TypeInv, TypeOK, Start
  <1>2. ASSUME NEW v \in Workers PROVE TaskOK(v)'
    BY LifecycleAssumption DEF TypeInv, TypeOK, Start, TasksOK, TaskOK
  <1> QED  BY <1>1, <1>2 DEF TypeInv, TasksOK

\* A session reads and goes on.
LEMMA GotoType ==
    ASSUME TypeInv, NEW w \in Workers, NEW step \in Steps, Goto(w, step),
           task[w].step \notin AdvanceSteps \cup FulfillSteps \cup {"idle"},
           step \notin AdvanceSteps \cup FulfillSteps \cup {"idle"}
    PROVE  TypeInv'
  <1>1. TypeOK'
    BY DEF TypeInv, TypeOK, Goto, Tasks
  <1>2. ASSUME NEW v \in Workers PROVE TaskOK(v)'
    BY DEF TypeInv, TypeOK, Goto, TasksOK, TaskOK, Tasks
  <1> QED  BY <1>1, <1>2 DEF TypeInv, TasksOK

\* A session reads its order and goes on.
LEMMA ReadOrderType ==
    ASSUME TypeInv, NEW w \in Workers, NEW step \in Steps, ReadOrder(w, step),
           \/ task[w].step \in FulfillSteps /\ step \in FulfillSteps
           \/ task[w].step \in AdvanceSteps /\ step \in AdvanceSteps
    PROVE  TypeInv'
  <1>1. task[w].order \in OrderIds /\ order[task[w].order] \in OrderStatus
    BY DEF TypeInv, TypeOK, TasksOK, TaskOK, Tasks, FulfillSteps, AdvanceSteps
  <1>2. TypeOK'
    BY <1>1 DEF TypeInv, TypeOK, ReadOrder, Tasks
  <1>3. ASSUME NEW v \in Workers PROVE TaskOK(v)'
    BY <1>1 DEF TypeInv, TypeOK, ReadOrder, TasksOK, TaskOK, Tasks, FulfillSteps,
                AdvanceSteps
  <1> QED  BY <1>2, <1>3 DEF TypeInv, TasksOK

\* A request ends: shipments keep their orders.
LEMMA EndType ==
    ASSUME TypeInv, NEW w \in Workers, End(w),
           order' \in [OrderIds -> OrderStatus],
           fulfillment' \in [OrderIds -> FulfillmentStatus],
           packages' \in [OrderIds -> Nat],
           shipments' \in Seq([order : OrderIds, status : ShipmentStatus]),
           \A n \in DOMAIN shipments :
              n \in DOMAIN shipments' /\ shipments'[n].order = shipments[n].order
    PROVE  TypeInv'
  <1>1. Idle \in Tasks
    BY DEF Idle, Tasks, Steps, OrderStatus, ShipmentStatus
  <1>2. TypeOK'
    BY <1>1 DEF TypeInv, TypeOK, End
  <1>3. ASSUME NEW v \in Workers PROVE TaskOK(v)'
    <2>1. CASE v = w
      BY <2>1 DEF TypeInv, TypeOK, End, Idle, TaskOK, FulfillSteps, AdvanceSteps
    <2>2. CASE v # w
      BY <2>2 DEF TypeInv, TypeOK, End, TasksOK, TaskOK
    <2> QED  BY <2>1, <2>2
  <1> QED  BY <1>2, <1>3 DEF TypeInv, TasksOK

\* A shipment is one of an order.
LEMMA ShipmentType ==
    ASSUME TypeInv, NEW n \in DOMAIN shipments
    PROVE  /\ n \in Nat
           /\ shipments[n] \in [order : OrderIds, status : ShipmentStatus]
           /\ shipments[n].order \in OrderIds
           /\ shipments[n].status \in ShipmentStatus
  <1> DEFINE S == [order : OrderIds, status : ShipmentStatus]
  <1>1. shipments \in Seq(S)
    BY DEF TypeInv, TypeOK
  <1>2. n \in 1..Len(shipments)
    BY <1>1
  <1>3. shipments[n] \in S
    <2> HIDE DEF S
    <2> QED  BY <1>1, <1>2
  <1> QED  BY <1>2, <1>3

\* The status of an order is set to what the task of the session says.
LEMMA SetOrderType ==
    ASSUME TypeInv, NEW w \in Workers, NEW status \in OrderStatus, SetOrder(w, status)
    PROVE  order' \in [OrderIds -> OrderStatus]
  BY DEF SetOrder, TypeInv, TypeOK

\* What requests may begin with.
LEMMA Beginnings ==
    ASSUME NEW o \in OrderIds, NEW step \in Steps, NEW n \in Nat,
           NEW target \in OrderStatus \cup ShipmentStatus
    PROVE  /\ [Idle EXCEPT !.step = step, !.order = o] \in Tasks
           /\ [Idle EXCEPT !.step = step, !.order = o, !.target = target] \in Tasks
           /\ [Idle EXCEPT !.step = step, !.order = o, !.shipment = n,
                           !.target = target] \in Tasks
  BY DEF Idle, Tasks, Steps, OrderStatus, ShipmentStatus

\* Picking and packing keep the types.
LEMMA FulfillType ==
    ASSUME TypeInv, NEW w \in Workers, Fulfill(w)
    PROVE  TypeInv'
  <1>1. ASSUME NEW o \in OrderIds, NEW target \in Targets, ReadFulfillment(w, o, target)
        PROVE  TypeInv'
    <2> DEFINE t == [Idle EXCEPT !.step = "fulfill", !.order = o, !.target = target]
    <2>1. t \in Tasks
      BY Beginnings DEF Steps, Targets, OrderStatus, FulfillmentStatus,
                        FULFILLMENT_TRANSITIONS
    <2>2. t.order = o /\ t.step = "fulfill" /\ t.target = target
      BY DEF Idle
    <2> QED  BY <1>1, <2>1, <2>2, StartType DEF ReadFulfillment, AdvanceSteps
  <1>2. CASE ReadFulfilledOrder(w)
    BY <1>2, ReadOrderType DEF ReadFulfilledOrder, At, FulfillSteps, Steps
  <1>3. CASE SaveFulfillment(w)
    <2> DEFINE o == task[w].order
               target == task[w].target
    <2>1. o \in OrderIds /\ target \in Targets
      BY <1>3 DEF TypeInv, TypeOK, TasksOK, TaskOK, Tasks, SaveFulfillment, At,
                  FulfillSteps
    <2>2. target \in FulfillmentStatus /\ target \in OrderStatus
      BY <2>1 DEF Targets, FulfillmentStatus, OrderStatus, FULFILLMENT_TRANSITIONS
    <2>3. order' \in [OrderIds -> OrderStatus]
      BY <1>3, <2>2, SetOrderType DEF SaveFulfillment
    <2>4. fulfillment' \in [OrderIds -> FulfillmentStatus] /\ packages' \in [OrderIds -> Nat]
      BY <1>3, <2>1, <2>2 DEF SaveFulfillment, TypeInv, TypeOK
    <2> QED
      BY <1>3, <2>3, <2>4, EndType DEF SaveFulfillment, TypeInv, TypeOK
  <1> QED  BY <1>1, <1>2, <1>3 DEF Fulfill, TypeInv, TypeOK

\* So do shipments.
LEMMA ShipType ==
    ASSUME TypeInv, NEW w \in Workers, Ship(w)
    PROVE  TypeInv'
  <1>1. ASSUME NEW o \in OrderIds, OpenShipment(w, o)
        PROVE  TypeInv'
    <2> DEFINE t == [Idle EXCEPT !.step = "find_package", !.order = o]
    <2>1. t \in Tasks
      BY Beginnings, "CREATED" \in OrderStatus DEF Steps, OrderStatus
    <2>2. t.order = o /\ t.step = "find_package"
      BY DEF Idle
    <2> QED  BY <1>1, <2>1, <2>2, StartType DEF OpenShipment, AdvanceSteps, FulfillSteps
  <1>2. CASE FindPackage(w) \/ FindNoShipment(w)
    BY <1>2, GotoType DEF FindPackage, FindNoShipment, At, AdvanceSteps, FulfillSteps,
                          Steps
  <1>3. CASE InsertShipment(w)
    <2>1. task[w].order \in OrderIds
      BY <1>3 DEF TypeInv, TypeOK, TasksOK, TaskOK, Tasks, InsertShipment, At
    <2>2. [order |-> task[w].order, status |-> "READY_TO_SHIP"]
              \in [order : OrderIds, status : ShipmentStatus]
      BY <2>1 DEF ShipmentStatus, TRANSITIONS
    <2>3. /\ shipments' \in Seq([order : OrderIds, status : ShipmentStatus])
          /\ \A n \in DOMAIN shipments :
                n \in DOMAIN shipments' /\ shipments'[n].order = shipments[n].order
      BY <1>3, <2>2 DEF InsertShipment, TypeInv, TypeOK
    <2> QED  BY <1>3, <2>3, EndType DEF InsertShipment, TypeInv, TypeOK
  <1>4. ASSUME NEW n \in DOMAIN shipments, ReadShipment(w, n)
        PROVE  TypeInv'
    <2> DEFINE o == shipments[n].order
               target == TRANSITIONS[shipments[n].status]
               t == [Idle EXCEPT !.step = "advance", !.order = o, !.shipment = n,
                                 !.target = target]
    <2>1. o \in OrderIds /\ n \in Nat
      BY ShipmentType
    <2>2. target \in ShipmentStatus \ {"READY_TO_SHIP"}
      BY <1>4 DEF ReadShipment, TRANSITIONS, ShipmentStatus
    <2>3. t \in Tasks
      BY <2>1, <2>2, Beginnings DEF Steps
    <2>4. t.order = o /\ t.step = "advance" /\ t.target = target /\ t.shipment = n
      BY DEF Idle
    <2> QED
      BY <1>4, <2>1, <2>2, <2>3, <2>4, StartType DEF ReadShipment, FulfillSteps
  <1>5. CASE ReadShippedOrder(w)
    BY <1>5, ReadOrderType DEF ReadShippedOrder, At, AdvanceSteps, Steps
  <1>6. CASE SaveShipment(w)
    <2> DEFINE target == task[w].target
    <2>1. /\ target \in ShipmentStatus
          /\ task[w].shipment \in DOMAIN shipments
      BY <1>6 DEF TypeInv, TypeOK, TasksOK, TaskOK, SaveShipment, At, AdvanceSteps
    <2>2. order' \in [OrderIds -> OrderStatus]
      <3>1. CASE target \in {"SHIPPED", "DELIVERED"}
        <4>1. target \in OrderStatus
          BY <3>1 DEF OrderStatus
        <4> QED  BY <1>6, <3>1, <4>1, SetOrderType DEF SaveShipment
      <3>2. CASE target \notin {"SHIPPED", "DELIVERED"}
        BY <1>6, <3>2 DEF SaveShipment, TypeInv, TypeOK
      <3> QED  BY <3>1, <3>2
    <2>3. /\ shipments' \in Seq([order : OrderIds, status : ShipmentStatus])
          /\ \A n \in DOMAIN shipments :
                n \in DOMAIN shipments' /\ shipments'[n].order = shipments[n].order
      <3> DEFINE k == task[w].shipment
      <3>1. shipments \in Seq([order : OrderIds, status : ShipmentStatus])
        BY DEF TypeInv, TypeOK
      <3>2. shipments' = [shipments EXCEPT ![k].status = target]
        BY <1>6 DEF SaveShipment
      <3>3. [shipments[k] EXCEPT !.status = target]
                \in [order : OrderIds, status : ShipmentStatus]
        BY <2>1, ShipmentType
      <3>4. shipments' = [shipments EXCEPT ![k] = [shipments[k] EXCEPT !.status = target]]
        BY <3>2
      <3> HIDE DEF target, k
      <3>5. shipments' \in Seq([order : OrderIds, status : ShipmentStatus])
        BY <2>1, <3>1, <3>3, <3>4 DEF k
      <3> QED  BY <3>1, <3>4, <3>5
    <2> QED  BY <1>6, <2>2, <2>3, EndType DEF SaveShipment, TypeInv, TypeOK
  <1> QED
    BY <1>1, <1>2, <1>3, <1>4, <1>5, <1>6 DEF Ship, TypeInv, TypeOK

\* So do cancellations.
LEMMA CancelType ==
    ASSUME TypeInv, NEW w \in Workers, Cancel(w)
    PROVE  TypeInv'
  <1>1. ASSUME NEW o \in OrderIds, ReadForCancel(w, o)
        PROVE  TypeInv'
    <2> DEFINE t == [Idle EXCEPT !.step = "cancel", !.order = o]
    <2>1. t \in Tasks
      BY Beginnings, "CREATED" \in OrderStatus DEF Steps, OrderStatus
    <2>2. t.order = o /\ t.step = "cancel"
      BY DEF Idle
    <2> QED  BY <1>1, <2>1, <2>2, StartType DEF ReadForCancel, AdvanceSteps, FulfillSteps
  <1>2. CASE SaveCancel(w)
    <2>1. order' \in [OrderIds -> OrderStatus]
      BY <1>2 DEF SaveCancel, TypeInv, TypeOK, OrderStatus
    <2> QED  BY <1>2, <2>1, EndType DEF SaveCancel, TypeInv, TypeOK
  <1> QED  BY <1>1, <1>2 DEF Cancel, TypeInv, TypeOK

\* The types are kept by every step.
LEMMA TypesKept == Spec => []TypeInv
  <1>1. Init => TypeInv
    BY LifecycleAssumption DEF Init, TypeInv, TypeOK, TasksOK, TaskOK, Idle, Tasks,
       Steps, OrderStatus, FulfillmentStatus, ShipmentStatus, FULFILLMENT_TRANSITIONS,
       FulfillSteps, AdvanceSteps
  <1>2. TypeInv /\ [Next]_vars => TypeInv'
    <2> SUFFICES ASSUME TypeInv, [Next]_vars PROVE TypeInv'
      OBVIOUS
    <2>1. ASSUME NEW w \in Workers, GiveUp(w) PROVE TypeInv'
      BY <2>1, EndType DEF GiveUp, TypeInv, TypeOK
    <2>2. CASE UNCHANGED vars
      BY <2>2 DEF vars, TypeInv, TypeOK, TasksOK, TaskOK
    <2> QED  BY <2>1, <2>2, FulfillType, ShipType, CancelType DEF Next
  <1> QED  BY <1>1, <1>2, PTL DEF Spec

\* The variables of Lifecycle keep their types, however requests overlap.
THEOREM LifecycleTypeCorrect == Spec => []TypeOK
  <1>1. TypeInv => TypeOK
    BY DEF TypeInv
  <1> QED  BY <1>1, TypesKept, PTL

-----------------------------------------------------------------------------

Act(w) == Fulfill(w) \/ Ship(w) \/ Cancel(w) \/ GiveUp(w)

\* A step is one of a session, or changes nothing.
LEMMA Acts ==
    ASSUME [Next]_vars, TypeInv
    PROVE  (\E w \in Workers : Act(w)) \/ UNCHANGED vars
  BY DEF Next, Act

(***************************************************************************)
(* What a step leaves alone: the tasks of the other sessions, and whatever *)
(* is not about its own order.  Shipments and packages only become more.   *)
(***************************************************************************)
Framed(w) ==
    /\ \A v \in Workers \ {w} : task'[v] = task[v]
    /\ task[w].order # 0 => task'[w].order \in {task[w].order, 0}
    /\ \A o \in OrderIds \ {task[w].order} :
          /\ order'[o] = order[o]
          /\ fulfillment'[o] = fulfillment[o]
          /\ packages'[o] = packages[o]
    /\ \A o \in OrderIds : packages'[o] >= packages[o]
    /\ \A n \in DOMAIN shipments :
          /\ n \in DOMAIN shipments'
          /\ shipments'[n].order = shipments[n].order
          /\ shipments[n].order # task[w].order => shipments'[n] = shipments[n]
    /\ \A n \in DOMAIN shipments' \ DOMAIN shipments :
          /\ InsertShipment(w)
          /\ shipments'[n] = [order |-> task[w].order, status |-> "READY_TO_SHIP"]

\* Every step is framed.
LEMMA Frame ==
    ASSUME TypeInv, NEW w \in Workers, Act(w)
    PROVE  Framed(w)
  <1> USE DEF TypeInv
  <1>t. /\ task \in [Workers -> Tasks] /\ task[w] \in Tasks
        /\ order \in [OrderIds -> OrderStatus]
        /\ fulfillment \in [OrderIds -> FulfillmentStatus]
        /\ packages \in [OrderIds -> Nat]
        /\ shipments \in Seq([order : OrderIds, status : ShipmentStatus])
        /\ DOMAIN shipments = 1..Len(shipments)
    BY DEF TypeOK
  <1>u. TaskOK(w)
    BY DEF TasksOK
  <1>1. ASSUME NEW t, Start(w, t) PROVE Framed(w)
    <2>1. task[w].order = 0 /\ UNCHANGED <<order, fulfillment, packages, shipments>>
      BY <1>1, <1>u DEF Start, At, TaskOK
    <2>2. \A v \in Workers \ {w} : task'[v] = task[v]
      BY <1>1, <1>t DEF Start
    <2> QED  BY <2>1, <2>2, <1>t DEF Framed
  <1>2. CASE Fulfill(w)
    <2>1. CASE \E o \in DOMAIN order, target \in Targets : ReadFulfillment(w, o, target)
      BY <2>1, <1>1 DEF ReadFulfillment
    <2>2. CASE ReadFulfilledOrder(w)
      BY <2>2, <1>t DEF ReadFulfilledOrder, ReadOrder, Tasks, Framed
    <2>3. CASE SaveFulfillment(w)
      <3>1. /\ \A v \in Workers \ {w} : task'[v] = task[v]
            /\ task'[w].order = 0
        BY <2>3, <1>t DEF SaveFulfillment, End, Idle
      <3>2. \A o \in OrderIds \ {task[w].order} :
                 /\ order'[o] = order[o]
                 /\ fulfillment'[o] = fulfillment[o]
                 /\ packages'[o] = packages[o]
        BY <2>3, <1>t DEF SaveFulfillment, SetOrder
      <3>3. \A o \in OrderIds : packages'[o] >= packages[o]
        BY <2>3, <1>t DEF SaveFulfillment
      <3> QED  BY <2>3, <3>1, <3>2, <3>3 DEF SaveFulfillment, Framed
    <2> QED  BY <1>2, <2>1, <2>2, <2>3 DEF Fulfill
  <1>3. CASE Ship(w)
    <2>1. CASE \E o \in DOMAIN order : OpenShipment(w, o)
      BY <2>1, <1>1 DEF OpenShipment
    <2>2. CASE FindPackage(w) \/ FindNoShipment(w)
      BY <2>2, <1>t DEF FindPackage, FindNoShipment, Goto, Tasks, Framed
    <2>3. CASE InsertShipment(w)
      <3>1. /\ \A v \in Workers \ {w} : task'[v] = task[v]
            /\ task'[w].order = 0
            /\ UNCHANGED <<order, fulfillment, packages>>
        BY <2>3, <1>t DEF InsertShipment, End, Idle
      <3> DEFINE s == [order |-> task[w].order, status |-> "READY_TO_SHIP"]
      <3>2. shipments' = Append(shipments, s)
        BY <2>3 DEF InsertShipment
      <3> HIDE DEF s
      <3>3. /\ \A n \in DOMAIN shipments : n \in DOMAIN shipments' /\ shipments'[n] = shipments[n]
            /\ \A n \in DOMAIN shipments' \ DOMAIN shipments : shipments'[n] = s
        BY <3>2, <1>t
      <3> QED  BY <2>3, <3>1, <3>3, <1>t DEF s, Framed
    <2>4. CASE \E n \in DOMAIN shipments : ReadShipment(w, n)
      BY <2>4, <1>1 DEF ReadShipment
    <2>5. CASE ReadShippedOrder(w)
      BY <2>5, <1>t DEF ReadShippedOrder, ReadOrder, Tasks, Framed
    <2>6. CASE SaveShipment(w)
      <3>1. /\ \A v \in Workers \ {w} : task'[v] = task[v]
            /\ task'[w].order = 0
            /\ UNCHANGED <<fulfillment, packages>>
            /\ \A o \in OrderIds \ {task[w].order} : order'[o] = order[o]
        BY <2>6, <1>t DEF SaveShipment, End, Idle, SetOrder
      <3>2. /\ task[w].shipment \in DOMAIN shipments
            /\ shipments[task[w].shipment].order = task[w].order
        BY <2>6, <1>u DEF SaveShipment, At, TaskOK, AdvanceSteps
      <3>3. /\ DOMAIN shipments' = DOMAIN shipments
            /\ \A n \in DOMAIN shipments : shipments'[n].order = shipments[n].order
            /\ \A n \in DOMAIN shipments \ {task[w].shipment} : shipments'[n] = shipments[n]
        BY <2>6, <1>t, ShipmentType DEF SaveShipment
      <3> QED  BY <2>6, <3>1, <3>2, <3>3, <1>t DEF Framed
    <2> QED  BY <1>3, <2>1, <2>2, <2>3, <2>4, <2>5, <2>6 DEF Ship
  <1>4. CASE Cancel(w)
    <2>1. CASE \E o \in DOMAIN order : ReadForCancel(w, o)
      BY <2>1, <1>1 DEF ReadForCancel
    <2>2. CASE SaveCancel(w)
      BY <2>2, <1>t DEF SaveCancel, End, Idle, Framed
    <2> QED  BY <1>4, <2>1, <2>2 DEF Cancel
  <1>5. CASE GiveUp(w)
    BY <1>5, <1>t DEF GiveUp, End, Idle, Framed
  <1> QED  BY <1>2, <1>3, <1>4, <1>5 DEF Act

-----------------------------------------------------------------------------

(***************************************************************************)
(* Why an order on its way was packed: a shipment is only made of an order *)
(* with a package, the session that makes it has seen the package, and     *)
(* nothing but a shipment says SHIPPED.                                    *)
(***************************************************************************)
PackedInv ==
    /\ \A n \in DOMAIN shipments : packages[shipments[n].order] > 0
    /\ \A w \in Workers :
          task[w].step \in {"find_shipment", "insert_shipment"} =>
              packages[task[w].order] > 0
    /\ ShippedWasPacked

\* Every step keeps it.
LEMMA PackedStep ==
    ASSUME TypeInv, TypeInv', PackedInv, NEW w \in Workers, Act(w)
    PROVE  PackedInv'
  <1>f. Framed(w)
    BY Frame
  <1>t. /\ task \in [Workers -> Tasks] /\ task' \in [Workers -> Tasks]
        /\ task[w] \in Tasks /\ TaskOK(w)
        /\ order \in [OrderIds -> OrderStatus]
        /\ packages \in [OrderIds -> Nat] /\ packages' \in [OrderIds -> Nat]
    BY DEF TypeInv, TypeOK, TasksOK
  <1>1. ASSUME NEW n \in DOMAIN shipments' PROVE packages'[shipments'[n].order] > 0
    <2>1. CASE n \in DOMAIN shipments
      <3>1. shipments[n].order \in OrderIds
        BY <2>1, ShipmentType
      <3>2. /\ shipments'[n].order = shipments[n].order
            /\ packages'[shipments[n].order] >= packages[shipments[n].order]
        BY <1>f, <2>1, <3>1 DEF Framed
      <3>3. packages[shipments[n].order] > 0
        BY <2>1 DEF PackedInv
      <3> QED  BY <3>1, <3>2, <3>3, <1>t
    <2>2. CASE n \notin DOMAIN shipments
      <3>1. InsertShipment(w) /\ shipments'[n].order = task[w].order
        BY <1>f, <2>2 DEF Framed
      <3> QED  BY <3>1 DEF InsertShipment, At, PackedInv
    <2> QED  BY <2>1, <2>2
  <1>2. ASSUME NEW v \in Workers,
               task'[v].step \in {"find_shipment", "insert_shipment"}
        PROVE  packages'[task'[v].order] > 0
    <2>1. /\ task'[v].order = task[v].order
          /\ \/ task[v].step \in {"find_shipment", "insert_shipment"}
             \/ FindPackage(w) /\ v = w
      <3>1. CASE v # w
        BY <1>2, <3>1, <1>f DEF Framed
      <3>2. CASE v = w
        <4>1. \A t : Start(w, t) => task'[w] = t
          BY <1>t DEF Start
        <4>2. End(w) => task'[w] = Idle
          BY <1>t DEF End
        <4>3. ~ \E o \in DOMAIN order : OpenShipment(w, o) \/ ReadForCancel(w, o)
          BY <1>2, <3>2, <4>1 DEF OpenShipment, ReadForCancel, Idle
        <4>4. ~ \E o \in DOMAIN order, target \in Targets : ReadFulfillment(w, o, target)
          BY <1>2, <3>2, <4>1 DEF ReadFulfillment, Idle
        <4>5. ~ \E n \in DOMAIN shipments : ReadShipment(w, n)
          BY <1>2, <3>2, <4>1 DEF ReadShipment, Idle
        <4>6. ~ ReadFulfilledOrder(w) /\ ~ ReadShippedOrder(w)
          BY <1>2, <3>2, <1>t DEF ReadFulfilledOrder, ReadShippedOrder, ReadOrder, Tasks
        <4>7. ~ (SaveFulfillment(w) \/ InsertShipment(w) \/ SaveShipment(w)
                    \/ SaveCancel(w) \/ GiveUp(w))
          BY <1>2, <3>2, <4>2 DEF SaveFulfillment, InsertShipment, SaveShipment,
             SaveCancel, GiveUp, Idle
        <4>8. FindPackage(w) \/ FindNoShipment(w)
          BY <4>3, <4>4, <4>5, <4>6, <4>7 DEF Act, Fulfill, Ship, Cancel
        <4> QED
          BY <3>2, <4>8, <1>t DEF FindPackage, FindNoShipment, Goto, At, Tasks
      <3> QED  BY <3>1, <3>2
    <2>2. task[v].order \in OrderIds
      BY <1>2, <2>1 DEF TypeInv, TypeOK, TasksOK, TaskOK, Tasks
    <2>3. packages[task[v].order] > 0
      BY <2>1 DEF PackedInv, FindPackage
    <2> QED  BY <2>1, <2>2, <2>3, <1>f, <1>t DEF Framed
  <1>3. ShippedWasPacked'
    <2> SUFFICES ASSUME NEW o \in OrderIds, order'[o] \in {"SHIPPED", "DELIVERED"}
                 PROVE  packages'[o] > 0 /\ ShipmentsOf(o)' # {}
      BY DEF ShippedWasPacked
    <2>1. \E n \in DOMAIN shipments : shipments[n].order = o
      <3>1. CASE order[o] \in {"SHIPPED", "DELIVERED"}
        BY <3>1 DEF PackedInv, ShippedWasPacked, ShipmentsOf
      <3>2. CASE order[o] \notin {"SHIPPED", "DELIVERED"}
        <4>1. o = task[w].order /\ order' # order
          BY <3>2, <1>f, <1>t DEF Framed
        <4>2. ~ GiveUp(w)
          BY <4>1 DEF GiveUp
        <4>3. ~ Cancel(w)
          BY <3>2, <4>1, <1>t DEF Cancel, ReadForCancel, Start, SaveCancel
        <4>4. ~ Fulfill(w)
          BY <3>2, <4>1, <1>t DEF Fulfill, ReadFulfillment, Start, ReadFulfilledOrder,
             ReadOrder, SaveFulfillment, SetOrder, At, TaskOK, FulfillSteps, Targets
        <4>5. SaveShipment(w)
          BY <4>1, <4>2, <4>3, <4>4 DEF Act, Ship, OpenShipment, FindPackage,
             FindNoShipment, Goto, InsertShipment, ReadShipment, Start,
             ReadShippedOrder, ReadOrder
        <4> QED  BY <4>1, <4>5, <1>t DEF SaveShipment, At, TaskOK, AdvanceSteps
      <3> QED  BY <3>1, <3>2
    <2>2. PICK n \in DOMAIN shipments : shipments[n].order = o
      BY <2>1
    <2>3. n \in DOMAIN shipments' /\ shipments'[n].order = o
      BY <2>2, <1>f DEF Framed
    <2> QED  BY <2>3, <1>1 DEF ShipmentsOf
  <1> QED  BY <1>1, <1>2, <1>3 DEF PackedInv

\* However requests overlap, an order that is shipped or delivered was packed
\* and has a shipment.
THEOREM ShippedPacked == Spec => []ShippedWasPacked
  <1>1. Init => PackedInv
    BY DEF Init, PackedInv, ShippedWasPacked, Idle
  <1>2. TypeInv /\ TypeInv' /\ PackedInv /\ [Next]_vars => PackedInv'
    <2> SUFFICES ASSUME TypeInv, TypeInv', PackedInv, [Next]_vars PROVE PackedInv'
      OBVIOUS
    <2>1. CASE UNCHANGED vars
      BY <2>1 DEF vars, PackedInv, ShippedWasPacked, ShipmentsOf
    <2> QED  BY <2>1, Acts, PackedStep
  <1>3. PackedInv => ShippedWasPacked
    BY DEF PackedInv
  <1> QED  BY <1>1, <1>2, <1>3, TypesKept, PTL DEF Spec

-----------------------------------------------------------------------------

(***************************************************************************)
(* The orders whose requests come one at a time.                           *)
(***************************************************************************)
Alone(o) ==
    \A v, w \in Workers : task[v].order = o /\ task[w].order = o => v = w

ShownAs(o, s) ==
    \/ order[o] = Journey!Shown(s)
    \/ order[o] = "CANCELLED" /\ Journey!Shown(s) \notin {"SHIPPED", "DELIVERED"}

\* The rows of an order agree.
RowsOK(o) ==
    /\ fulfillment[o] # "READY_TO_SHIP"
    /\ packages[o] = IF fulfillment[o] = "PACKED" THEN 1 ELSE 0
    /\ \A m, n \in ShipmentsOf(o) : m = n
    /\ ShipmentsOf(o) # {} => fulfillment[o] = "PACKED"
    /\ ShipmentsOf(o) = {} => ShownAs(o, fulfillment[o])
    /\ \A n \in ShipmentsOf(o) : ShownAs(o, shipments[n].status)

\* What a session has read is still so.
WorkOK(w) ==
    LET t == task[w]
        o == task[w].order
    IN  /\ t.step \in FulfillSteps =>
              /\ fulfillment[o] \in DOMAIN FULFILLMENT_TRANSITIONS
              /\ FULFILLMENT_TRANSITIONS[fulfillment[o]] = t.target
        /\ t.step \in {"save_fulfillment", "save_shipment"} => t.seen = order[o]
        /\ t.step \in {"find_package", "find_shipment", "insert_shipment"} =>
              order[o] = "PACKED"
        /\ t.step \in {"find_shipment", "insert_shipment"} => fulfillment[o] = "PACKED"
        /\ t.step = "insert_shipment" => ShipmentsOf(o) = {}
        /\ t.step \in AdvanceSteps =>
              /\ shipments[t.shipment].status \in DOMAIN TRANSITIONS
              /\ TRANSITIONS[shipments[t.shipment].status] = t.target
        /\ t.step = "cancel" => order[o] \notin {"SHIPPED", "DELIVERED", "CANCELLED"}

SerialInv ==
    /\ \A o \in Orderly : Alone(o) /\ RowsOK(o)
    /\ \A w \in Workers : task[w].order \in Orderly => WorkOK(w)

\* A session that was idle and has an order now has begun a request.
LEMMA Begins ==
    ASSUME TypeInv, NEW w \in Workers, Act(w), task[w].order = 0, task'[w].order # 0
    PROVE  /\ task'[w].order \in Overlapping
                  \/ \A v \in Workers : task[v].order # task'[w].order
           /\ UNCHANGED <<order, fulfillment, packages, shipments>>
           /\ \/ \E target \in Targets : ReadFulfillment(w, task'[w].order, target)
              \/ OpenShipment(w, task'[w].order)
              \/ \E n \in DOMAIN shipments :
                    ReadShipment(w, n) /\ shipments[n].order = task'[w].order
              \/ ReadForCancel(w, task'[w].order)
  <1>1. TaskOK(w) /\ task \in [Workers -> Tasks]
    BY DEF TypeInv, TypeOK, TasksOK
  <1>2. task[w].step = "idle"
    BY <1>1 DEF TaskOK
  <1>3. \A t : Start(w, t) =>
            /\ task'[w] = t
            /\ t.order \in Overlapping \/ \A v \in Workers : task[v].order # t.order
            /\ UNCHANGED <<order, fulfillment, packages, shipments>>
    BY <1>1 DEF Start
  <1>4. CASE Fulfill(w)
    <2>1. PICK o \in DOMAIN order, target \in Targets : ReadFulfillment(w, o, target)
      BY <1>4, <1>2 DEF Fulfill, ReadFulfilledOrder, SaveFulfillment, At
    <2>2. task'[w] = [Idle EXCEPT !.step = "fulfill", !.order = o, !.target = target]
      BY <2>1, <1>3 DEF ReadFulfillment
    <2>3. task'[w].order = o
      BY <2>2 DEF Idle
    <2> QED  BY <2>1, <2>3, <1>3 DEF ReadFulfillment
  <1>5. CASE Ship(w)
    <2>1. (\E o \in DOMAIN order : OpenShipment(w, o))
              \/ \E n \in DOMAIN shipments : ReadShipment(w, n)
      BY <1>5, <1>2 DEF Ship, FindPackage, FindNoShipment, InsertShipment,
         ReadShippedOrder, SaveShipment, At
    <2>2. ASSUME NEW o \in DOMAIN order, OpenShipment(w, o) PROVE task'[w].order = o
      <3>1. task'[w] = [Idle EXCEPT !.step = "find_package", !.order = o]
        BY <2>2, <1>3 DEF OpenShipment
      <3> QED  BY <3>1 DEF Idle
    <2>3. ASSUME NEW n \in DOMAIN shipments, ReadShipment(w, n)
          PROVE  task'[w].order = shipments[n].order
      <3>1. task'[w] = [Idle EXCEPT !.step = "advance", !.order = shipments[n].order,
                            !.shipment = n, !.target = TRANSITIONS[shipments[n].status]]
        BY <2>3, <1>3 DEF ReadShipment
      <3> QED  BY <3>1 DEF Idle
    <2> QED  BY <2>1, <2>2, <2>3, <1>3 DEF OpenShipment, ReadShipment
  <1>6. CASE Cancel(w)
    <2>1. PICK o \in DOMAIN order : ReadForCancel(w, o)
      BY <1>6, <1>2 DEF Cancel, SaveCancel, At
    <2>2. task'[w].order = o
      <3>1. task'[w] = [Idle EXCEPT !.step = "cancel", !.order = o]
        BY <2>1, <1>3 DEF ReadForCancel
      <3> QED  BY <3>1 DEF Idle
    <2> QED  BY <2>1, <2>2, <1>3 DEF ReadForCancel
  <1> QED  BY <1>2, <1>4, <1>5, <1>6 DEF Act, GiveUp, At

\* The rows of an order that a step is not about.
LEMMA Untouched ==
    ASSUME TypeInv, NEW w \in Workers, Act(w), NEW o \in OrderIds, o # task[w].order
    PROVE  /\ order'[o] = order[o] /\ fulfillment'[o] = fulfillment[o]
           /\ packages'[o] = packages[o]
           /\ ShipmentsOf(o)' = ShipmentsOf(o)
           /\ \A n \in ShipmentsOf(o) : shipments'[n] = shipments[n]
  <1>1. Framed(w)
    BY Frame
  <1>2. \A n \in DOMAIN shipments' \ DOMAIN shipments : shipments'[n].order = task[w].order
    BY <1>1 DEF Framed
  <1>3. ShipmentsOf(o)' = ShipmentsOf(o)
    BY <1>1, <1>2 DEF Framed, ShipmentsOf
  <1> QED  BY <1>1, <1>3 DEF Framed, ShipmentsOf

\* They still agree, and so does what another session has read of them.
LEMMA OtherRows ==
    ASSUME TypeInv, SerialInv, NEW w \in Workers, Act(w),
           NEW o \in Orderly, o # task[w].order
    PROVE  /\ RowsOK(o)'
           /\ \A v \in Workers \ {w} : task'[v].order = o => WorkOK(v)'
  <1> USE DEF Orderly
  <1>1. /\ order'[o] = order[o] /\ fulfillment'[o] = fulfillment[o]
        /\ packages'[o] = packages[o]
        /\ ShipmentsOf(o)' = ShipmentsOf(o)
        /\ \A n \in ShipmentsOf(o) : shipments'[n] = shipments[n]
    BY Untouched
  <1>2. RowsOK(o)'
    <2>1. RowsOK(o)
      BY DEF SerialInv
    <2> QED  BY <1>1, <2>1 DEF RowsOK, ShownAs, Journey!Shown
  <1>3. ASSUME NEW v \in Workers \ {w}, task'[v].order = o PROVE WorkOK(v)'
    <2>1. task'[v] = task[v]
      BY Frame DEF Framed
    <2>2. WorkOK(v)
      BY <1>3, <2>1 DEF SerialInv
    <2>3. task[v].step \in AdvanceSteps => task[v].shipment \in ShipmentsOf(o)
      BY <1>3, <2>1 DEF TypeInv, TasksOK, TaskOK, ShipmentsOf
    <2> QED  BY <1>1, <1>3, <2>1, <2>2, <2>3 DEF WorkOK
  <1> QED  BY <1>2, <1>3

\* What holds of a session at work on an orderly order.
LEMMA AtWork ==
    ASSUME TypeInv, SerialInv, NEW w \in Workers, task[w].order \in Orderly
    PROVE  /\ task[w].order \in OrderIds
           /\ RowsOK(task[w].order) /\ WorkOK(w) /\ TaskOK(w) /\ task[w] \in Tasks
  BY DEF TypeInv, TypeOK, SerialInv, Orderly, TasksOK

\* A session begins with an orderly order.
LEMMA BeginWork ==
    ASSUME TypeInv, TypeInv', SerialInv, NEW w \in Workers, Act(w),
           task[w].order = 0, task'[w].order \in Orderly
    PROVE  WorkOK(w)'
  <1> DEFINE o == task'[w].order
  <1>1. o # 0 /\ o \in OrderIds
    BY LifecycleAssumption DEF Orderly
  <1>2. UNCHANGED <<order, fulfillment, packages, shipments>>
    BY <1>1, Begins
  <1>t. \A t : Start(w, t) => task'[w] = t
    BY DEF Start, TypeInv, TypeOK
  <1>3. ASSUME NEW target \in Targets, ReadFulfillment(w, o, target)
        PROVE  WorkOK(w)'
    <2>1. task'[w] = [Idle EXCEPT !.step = "fulfill", !.order = o, !.target = target]
      BY <1>3, <1>t DEF ReadFulfillment
    <2>2. task'[w].step = "fulfill" /\ task'[w].target = target
      BY <2>1 DEF Idle
    <2> QED
      BY <1>2, <1>3, <2>2 DEF ReadFulfillment, WorkOK, AdvanceSteps
  <1>4. ASSUME OpenShipment(w, o) PROVE WorkOK(w)'
    <2>1. task'[w] = [Idle EXCEPT !.step = "find_package", !.order = o]
      BY <1>4, <1>t DEF OpenShipment
    <2>2. task'[w].step = "find_package"
      BY <2>1 DEF Idle
    <2> QED
      BY <1>2, <1>4, <2>2 DEF OpenShipment, WorkOK, AdvanceSteps, FulfillSteps
  <1>5. ASSUME NEW n \in DOMAIN shipments, ReadShipment(w, n), shipments[n].order = o
        PROVE  WorkOK(w)'
    <2>1. task'[w] = [Idle EXCEPT !.step = "advance", !.order = shipments[n].order,
                          !.shipment = n, !.target = TRANSITIONS[shipments[n].status]]
      BY <1>5, <1>t DEF ReadShipment
    <2>2. /\ task'[w].step = "advance" /\ task'[w].shipment = n
          /\ task'[w].target = TRANSITIONS[shipments[n].status]
      BY <2>1 DEF Idle
    <2> QED  BY <1>2, <1>5, <2>2 DEF ReadShipment, WorkOK, FulfillSteps
  <1>6. ASSUME ReadForCancel(w, o) PROVE WorkOK(w)'
    <2>1. task'[w] = [Idle EXCEPT !.step = "cancel", !.order = o]
      BY <1>6, <1>t DEF ReadForCancel
    <2>2. task'[w].step = "cancel"
      BY <2>1 DEF Idle
    <2> QED
      BY <1>2, <1>6, <2>2 DEF ReadForCancel, WorkOK, AdvanceSteps, FulfillSteps
  <1> QED  BY <1>1, <1>3, <1>4, <1>5, <1>6, Begins

\* The next read of a session at work.
LEMMA GoOnWork ==
    ASSUME TypeInv, SerialInv, NEW w \in Workers, task[w].order \in Orderly,
           \/ ReadFulfilledOrder(w) \/ FindPackage(w) \/ FindNoShipment(w)
           \/ ReadShippedOrder(w)
    PROVE  WorkOK(w)' /\ RowsOK(task[w].order)'
  <1> DEFINE o == task[w].order
  <1>1. RowsOK(o) /\ WorkOK(w) /\ task \in [Workers -> Tasks] /\ task[w] \in Tasks
    BY AtWork DEF TypeInv, TypeOK
  <1>2. UNCHANGED <<order, fulfillment, packages, shipments>> /\ task'[w].order = o
    BY <1>1 DEF ReadFulfilledOrder, FindPackage, FindNoShipment, ReadShippedOrder,
       ReadOrder, Goto, Tasks
  <1>3. RowsOK(o)'
    BY <1>1, <1>2 DEF RowsOK, ShownAs, ShipmentsOf, Journey!Shown
  <1>4. ASSUME ReadFulfilledOrder(w) PROVE WorkOK(w)'
    BY <1>4, <1>1, <1>2 DEF ReadFulfilledOrder, ReadOrder, At, WorkOK, Tasks,
       FulfillSteps, AdvanceSteps
  <1>5. ASSUME FindPackage(w) PROVE WorkOK(w)'
    BY <1>5, <1>1, <1>2 DEF FindPackage, Goto, At, WorkOK, Tasks, FulfillSteps,
       AdvanceSteps
  <1>6. ASSUME FindNoShipment(w) PROVE WorkOK(w)'
    BY <1>6, <1>1, <1>2 DEF FindNoShipment, Goto, At, WorkOK, Tasks, FulfillSteps,
       AdvanceSteps, ShipmentsOf
  <1>7. ASSUME ReadShippedOrder(w) PROVE WorkOK(w)'
    BY <1>7, <1>1, <1>2 DEF ReadShippedOrder, ReadOrder, At, WorkOK, Tasks,
       FulfillSteps, AdvanceSteps
  <1> QED  BY <1>3, <1>4, <1>5, <1>6, <1>7

-----------------------------------------------------------------------------

\* The stage of an order whose rows agree.
LEMMA StageOf ==
    ASSUME NEW o, RowsOK(o)
    PROVE  /\ ShipmentsOf(o) = {} => Stage(o) = fulfillment[o]
           /\ \A n \in ShipmentsOf(o) : Stage(o) = shipments[n].status
  <1>1. ASSUME NEW n \in ShipmentsOf(o) PROVE Stage(o) = shipments[n].status
    <2> DEFINE c == CHOOSE k \in ShipmentsOf(o) : TRUE
    <2>1. c \in ShipmentsOf(o)
      BY <1>1
    <2>2. c = n
      BY <1>1, <2>1 DEF RowsOK
    <2> QED  BY <1>1, <2>2 DEF Stage
  <1> QED  BY <1>1 DEF Stage

\* The steps of the journey, of one order.
Moved(o) ==
    LET here == Stage(o)
        there == Journey!NextStage[Stage(o)]
    IN  /\ here \in DOMAIN Journey!NextStage
        /\ Stage(o)' = there
        /\ \/ Journey!Shown(there) # Journey!Shown(here)
              /\ order'[o] = Journey!Shown(there)
           \/ Journey!Shown(there) = Journey!Shown(here)
              /\ order[o] = Journey!Shown(here) /\ order'[o] = order[o]

Stayed(o) == Stage(o)' = Stage(o) /\ order'[o] = order[o]

CalledOff(o) ==
    /\ Stage(o)' = Stage(o)
    /\ order[o] \notin {"SHIPPED", "DELIVERED", "CANCELLED"}
    /\ order'[o] = "CANCELLED"

\* A fulfillment is saved.
LEMMA SaveFulfillmentMoves ==
    ASSUME TypeInv, TypeInv', SerialInv, NEW w \in Workers, NEW o \in Orderly,
           task[w].order = o, SaveFulfillment(w)
    PROVE  RowsOK(o)' /\ Moved(o)
  <1> DEFINE target == task[w].target
             f == fulfillment[o]
  <1>1. o \in OrderIds /\ RowsOK(o) /\ WorkOK(w) /\ TaskOK(w)
    BY AtWork
  <1>2. task[w].step = "save_fulfillment"
    BY DEF SaveFulfillment, At
  <1>3. /\ f \in DOMAIN FULFILLMENT_TRANSITIONS
        /\ FULFILLMENT_TRANSITIONS[f] = target
        /\ target \in Targets
        /\ task[w].seen = order[o]
    BY <1>1, <1>2 DEF WorkOK, TaskOK, FulfillSteps
  <1>4. /\ f \in {"ALLOCATED", "PICKING", "PICKED", "PACKING"}
        /\ f # target
        /\ f \in DOMAIN Journey!NextStage /\ Journey!NextStage[f] = target
        /\ Journey!Shown(f) = f /\ Journey!Shown(target) = target
    BY <1>3 DEF FULFILLMENT_TRANSITIONS, Targets, Journey!NextStage, Journey!Shown
  <1>5. ShipmentsOf(o) = {} /\ packages[o] = 0
    BY <1>1, <1>4 DEF RowsOK
  <1>6. /\ fulfillment'[o] = target
        /\ order'[o] = target
        /\ packages'[o] = IF target = "PACKED" THEN 1 ELSE 0
        /\ ShipmentsOf(o)' = {}
    BY <1>1, <1>3, <1>5 DEF SaveFulfillment, SetOrder, ShipmentsOf, TypeInv, TypeOK
  <1>7. RowsOK(o)'
    BY <1>3, <1>4, <1>6 DEF RowsOK, ShownAs, Targets, Journey!Shown
  <1>8. Stage(o) = f /\ Stage(o)' = target
    BY <1>1, <1>5, <1>6 DEF Stage
  <1> QED  BY <1>4, <1>6, <1>7, <1>8 DEF Moved

\* A shipment is inserted.
LEMMA InsertShipmentMoves ==
    ASSUME TypeInv, TypeInv', SerialInv, NEW w \in Workers, NEW o \in Orderly,
           task[w].order = o, InsertShipment(w)
    PROVE  RowsOK(o)' /\ Moved(o)
  <1>1. o \in OrderIds /\ RowsOK(o) /\ WorkOK(w) /\ TaskOK(w)
    BY AtWork
  <1>2. order[o] = "PACKED" /\ fulfillment[o] = "PACKED" /\ ShipmentsOf(o) = {}
    BY <1>1 DEF InsertShipment, At, WorkOK
  <1>3. UNCHANGED <<order, fulfillment, packages>>
    BY DEF InsertShipment
  <1> DEFINE s == [order |-> task[w].order, status |-> "READY_TO_SHIP"]
             k == Len(shipments) + 1
  <1>4. /\ ShipmentsOf(o)' = {k}
        /\ shipments'[k].status = "READY_TO_SHIP"
    <2>1. shipments' = Append(shipments, s)
      BY DEF InsertShipment
    <2>2. shipments \in Seq([order : OrderIds, status : ShipmentStatus])
      BY DEF TypeInv, TypeOK
    <2>3. s.order = o /\ s.status = "READY_TO_SHIP"
      OBVIOUS
    <2> HIDE DEF s
    <2>4. /\ DOMAIN shipments' = DOMAIN shipments \cup {k}
          /\ \A n \in DOMAIN shipments : shipments'[n] = shipments[n]
          /\ shipments'[k] = s
      BY <2>1, <2>2
    <2> QED  BY <1>2, <2>3, <2>4 DEF ShipmentsOf
  <1> HIDE DEF k
  <1>5. /\ Journey!Shown("READY_TO_SHIP") = "PACKED" /\ Journey!Shown("PACKED") = "PACKED"
        /\ "PACKED" \in DOMAIN Journey!NextStage
        /\ Journey!NextStage["PACKED"] = "READY_TO_SHIP"
    BY DEF Journey!Shown, Journey!NextStage
  <1>6. RowsOK(o)'
    BY <1>1, <1>2, <1>3, <1>4, <1>5 DEF RowsOK, ShownAs, Journey!Shown
  <1>7. Stage(o) = "PACKED"
    BY <1>1, <1>2, StageOf
  <1>8. Stage(o)' = "READY_TO_SHIP"
    BY <1>4 DEF Stage
  <1> QED  BY <1>2, <1>3, <1>5, <1>6, <1>7, <1>8 DEF Moved

\* A shipment is advanced.
LEMMA SaveShipmentMoves ==
    ASSUME TypeInv, TypeInv', SerialInv, NEW w \in Workers, NEW o \in Orderly,
           task[w].order = o, SaveShipment(w)
    PROVE  RowsOK(o)' /\ Moved(o)
  <1> DEFINE target == task[w].target
             k == task[w].shipment
             s == shipments[k].status
  <1>1. o \in OrderIds /\ RowsOK(o) /\ WorkOK(w) /\ TaskOK(w)
    BY AtWork
  <1>2. task[w].step = "save_shipment"
    BY DEF SaveShipment, At
  <1>3. /\ k \in ShipmentsOf(o)
        /\ s \in DOMAIN TRANSITIONS
        /\ TRANSITIONS[s] = target
        /\ task[w].seen = order[o]
    BY <1>1, <1>2 DEF WorkOK, TaskOK, AdvanceSteps, ShipmentsOf
  <1>4. /\ s \in DOMAIN Journey!NextStage /\ Journey!NextStage[s] = target
        /\ target \in {"SHIPPED", "DELIVERED"} =>
              Journey!Shown(s) # target /\ Journey!Shown(target) = target
        /\ target \notin {"SHIPPED", "DELIVERED"} =>
              Journey!Shown(s) = "SHIPPED" /\ Journey!Shown(target) = "SHIPPED"
    BY <1>3 DEF TRANSITIONS, Journey!NextStage, Journey!Shown
  <1>5. order'[o] = IF target \in {"SHIPPED", "DELIVERED"} THEN target ELSE order[o]
    BY <1>1, <1>3 DEF SaveShipment, SetOrder, TypeInv, TypeOK
  <1>6. /\ ShipmentsOf(o)' = ShipmentsOf(o)
        /\ shipments'[k].status = target
    <2>1. shipments' = [shipments EXCEPT ![k].status = target]
      BY DEF SaveShipment
    <2>2. /\ DOMAIN shipments' = DOMAIN shipments
          /\ \A n \in DOMAIN shipments : shipments'[n].order = shipments[n].order
      BY <2>1, <1>3, Frame DEF Act, Ship, Framed, ShipmentsOf, TypeInv, TypeOK
    <2>3. shipments[k] \in [order : OrderIds, status : ShipmentStatus]
      BY <1>3, ShipmentType DEF ShipmentsOf
    <2>4. shipments'[k].status = target
      BY <2>1, <2>3, <1>3 DEF ShipmentsOf, TypeInv, TypeOK
    <2> QED  BY <2>2, <2>4 DEF ShipmentsOf
  <1>7. ShipmentsOf(o) = {k}
    BY <1>1, <1>3 DEF RowsOK
  <1>8. UNCHANGED <<fulfillment, packages>>
    BY DEF SaveShipment
  <1>9. Stage(o) = s
    BY <1>1, <1>3, StageOf
  <1>10. Stage(o)' = target
    <2>1. (CHOOSE n \in ShipmentsOf(o)' : TRUE) = k
      BY <1>6, <1>7
    <2> QED  BY <1>6, <1>7, <2>1 DEF Stage
  <1>11. target \notin {"SHIPPED", "DELIVERED"} => order[o] = "SHIPPED"
    BY <1>1, <1>3, <1>4 DEF RowsOK, ShownAs
  <1>12. Moved(o)
    BY <1>4, <1>5, <1>9, <1>10, <1>11 DEF Moved
  <1>13. RowsOK(o)'
    BY <1>1, <1>4, <1>5, <1>6, <1>7, <1>8, <1>11 DEF RowsOK, ShownAs, Journey!Shown
  <1> QED  BY <1>12, <1>13

\* An order is cancelled.
LEMMA SaveCancelCallsOff ==
    ASSUME TypeInv, TypeInv', SerialInv, NEW w \in Workers, NEW o \in Orderly,
           task[w].order = o, SaveCancel(w)
    PROVE  RowsOK(o)' /\ CalledOff(o)
  <1>1. o \in OrderIds /\ RowsOK(o) /\ WorkOK(w)
    BY AtWork
  <1>2. order[o] \notin {"SHIPPED", "DELIVERED", "CANCELLED"}
    BY <1>1 DEF SaveCancel, At, WorkOK
  <1>3. order'[o] = "CANCELLED" /\ UNCHANGED <<fulfillment, packages, shipments>>
    BY <1>1 DEF SaveCancel, TypeInv, TypeOK
  <1>4. /\ ShipmentsOf(o)' = ShipmentsOf(o)
        /\ \A n \in ShipmentsOf(o) : shipments'[n] = shipments[n]
        /\ Stage(o)' = Stage(o)
    BY <1>3 DEF ShipmentsOf, Stage
  <1>5. \A s : ShownAs(o, s) => ShownAs(o, s)'
    BY <1>2, <1>3 DEF ShownAs, Journey!Shown
  <1>6. RowsOK(o)'
    BY <1>1, <1>3, <1>4, <1>5 DEF RowsOK, ShownAs, Journey!Shown
  <1> QED  BY <1>2, <1>3, <1>4, <1>6 DEF CalledOff

\* What a session does with its order is a step of the journey.
LEMMA OwnRows ==
    ASSUME TypeInv, TypeInv', SerialInv, NEW w \in Workers, Act(w), NEW o \in Orderly,
           task[w].order = o
    PROVE  /\ RowsOK(o)'
           /\ Moved(o) \/ Stayed(o) \/ CalledOff(o)
           /\ task'[w].order \in Orderly => WorkOK(w)'
  <1>1. o # 0 /\ o \in OrderIds /\ TaskOK(w) /\ RowsOK(o)
    BY LifecycleAssumption, AtWork DEF Orderly
  <1>2. ~ At(w, "idle")
    BY <1>1 DEF TaskOK, At
  <1>3. End(w) => task'[w].order \notin Orderly
    BY LifecycleAssumption DEF End, Idle, Orderly, TypeInv, TypeOK
  <1>4. ASSUME UNCHANGED <<order, fulfillment, packages, shipments>>
        PROVE  RowsOK(o)' /\ Stayed(o)
    BY <1>1, <1>4 DEF RowsOK, ShownAs, ShipmentsOf, Stayed, Stage, Journey!Shown
  <1>5. CASE SaveFulfillment(w)
    BY <1>3, <1>5, SaveFulfillmentMoves DEF SaveFulfillment
  <1>6. CASE InsertShipment(w)
    BY <1>3, <1>6, InsertShipmentMoves DEF InsertShipment
  <1>7. CASE SaveShipment(w)
    BY <1>3, <1>7, SaveShipmentMoves DEF SaveShipment
  <1>8. CASE SaveCancel(w)
    BY <1>3, <1>8, SaveCancelCallsOff DEF SaveCancel
  <1>9. CASE GiveUp(w)
    BY <1>3, <1>4, <1>9 DEF GiveUp
  <1>10. CASE ReadFulfilledOrder(w) \/ FindPackage(w) \/ FindNoShipment(w)
                 \/ ReadShippedOrder(w)
    <2>1. UNCHANGED <<order, fulfillment, packages, shipments>>
      BY <1>10 DEF ReadFulfilledOrder, FindPackage, FindNoShipment, ReadShippedOrder,
         ReadOrder, Goto
    <2> QED  BY <2>1, <1>4, <1>10, GoOnWork
  <1> QED
    BY <1>2, <1>5, <1>6, <1>7, <1>8, <1>9, <1>10 DEF Act, Fulfill, Ship, Cancel,
       ReadFulfillment, OpenShipment, ReadShipment, ReadForCancel, Start

\* The orderly orders stay so.
LEMMA SerialStep ==
    ASSUME TypeInv, TypeInv', SerialInv, NEW w \in Workers, Act(w)
    PROVE  SerialInv'
  <1>f. Framed(w) /\ TypeOK
    BY Frame DEF TypeInv
  <1>1. ASSUME NEW o \in Orderly PROVE RowsOK(o)'
    BY OtherRows, OwnRows
  <1>2. ASSUME NEW o \in Orderly PROVE Alone(o)'
    <2>1. o # 0 /\ o \notin Overlapping /\ Alone(o)
      BY LifecycleAssumption DEF Orderly, SerialInv
    <2>2. ASSUME task'[w].order = o, NEW v \in Workers \ {w} PROVE task'[v].order # o
      <3>1. task'[v] = task[v]
        BY <1>f DEF Framed
      <3>2. CASE task[w].order = 0
        BY <2>1, <2>2, <3>1, <3>2, Begins
      <3>3. CASE task[w].order # 0
        BY <2>1, <2>2, <3>1, <3>3, <1>f DEF Framed, Alone
      <3> QED  BY <3>2, <3>3
    <2>3. \A v \in Workers \ {w} : task'[v] = task[v]
      BY <1>f DEF Framed
    <2> QED  BY <2>1, <2>2, <2>3 DEF Alone
  <1>3. ASSUME NEW v \in Workers, task'[v].order \in Orderly PROVE WorkOK(v)'
    <2>1. CASE v # w
      <3>1. task'[v] = task[v] /\ task[v].order \in Orderly
        BY <1>3, <2>1, <1>f DEF Framed
      <3>2. CASE task[v].order = task[w].order
        BY <3>1, <3>2, <2>1 DEF SerialInv, Alone
      <3>3. CASE task[v].order # task[w].order
        BY <1>3, <2>1, <3>1, <3>3, OtherRows
      <3> QED  BY <3>2, <3>3
    <2>2. CASE v = w /\ task[w].order = 0
      BY <1>3, <2>2, BeginWork
    <2>3. CASE v = w /\ task[w].order # 0
      <3>1. task[w].order \in Orderly
        BY <1>3, <2>3, <1>f, LifecycleAssumption DEF Framed, Orderly
      <3> QED  BY <1>3, <2>3, <3>1, OwnRows
    <2> QED  BY <2>1, <2>2, <2>3
  <1> QED  BY <1>1, <1>2, <1>3 DEF SerialInv

\* They are so always.
LEMMA SerialKept == Spec => []SerialInv
  <1>1. Init => SerialInv
    BY LifecycleAssumption DEF Init, SerialInv, Alone, RowsOK, ShownAs, Journey!Shown,
       ShipmentsOf, Idle, Orderly
  <1>2. TypeInv /\ TypeInv' /\ SerialInv /\ [Next]_vars => SerialInv'
    <2> SUFFICES ASSUME TypeInv, TypeInv', SerialInv, [Next]_vars PROVE SerialInv'
      OBVIOUS
    <2>1. CASE UNCHANGED vars
      BY <2>1 DEF vars, SerialInv, Alone, RowsOK, WorkOK, ShownAs, Journey!Shown,
         ShipmentsOf
    <2> QED  BY <2>1, Acts, SerialStep
  <1> QED  BY <1>1, <1>2, TypesKept, PTL DEF Spec

-----------------------------------------------------------------------------

\* One request at a time, an order is packed once and has at most one shipment.
THEOREM PackedShippedOnce == Spec => []PackedAndShippedOnce
  <1>1. SerialInv => PackedAndShippedOnce
    <2> SUFFICES ASSUME SerialInv, NEW o \in Orderly
                 PROVE  /\ packages[o] = IF fulfillment[o] = "PACKED" THEN 1 ELSE 0
                        /\ Cardinality(ShipmentsOf(o)) <= 1
      BY DEF PackedAndShippedOnce
    <2>1. RowsOK(o)
      BY DEF SerialInv
    <2>2. CASE ShipmentsOf(o) = {}
      BY <2>1, <2>2, FS_EmptySet DEF RowsOK
    <2>3. CASE ShipmentsOf(o) # {}
      <3>1. PICK n \in ShipmentsOf(o) : ShipmentsOf(o) = {n}
        BY <2>1, <2>3 DEF RowsOK
      <3>2. Cardinality({n}) = 1
        BY FS_Singleton
      <3> QED  BY <2>1, <3>1, <3>2 DEF RowsOK
    <2> QED  BY <2>2, <2>3
  <1> QED  BY <1>1, SerialKept, PTL

\* One request at a time, the status of an order shows where its goods are.
THEOREM StatusShown == Spec => []StatusShowsStage
  <1>1. SerialInv => StatusShowsStage
    <2> SUFFICES ASSUME SerialInv, NEW o \in Orderly
                 PROVE  ShownAs(o, Stage(o))
      BY DEF StatusShowsStage, Journey!ShownOrCancelled, ShownAs
    <2>1. RowsOK(o)
      BY DEF SerialInv
    <2> QED  BY <2>1, StageOf DEF RowsOK
  <1> QED  BY <1>1, SerialKept, PTL

\* A step of one order, the others staying, is a step of the journey.
LEMMA JourneyStep ==
    ASSUME NEW o \in Orderly, Moved(o) \/ Stayed(o) \/ CalledOff(o),
           \A p \in Orderly \ {o} : Stayed(p)
    PROVE  [Journey!JourneyNext]_(Journey!journey)
  <1> DEFINE stage == [p \in Orderly |-> Stage(p)]
             status == [p \in Orderly |-> order[p]]
  <1>1. CASE Stayed(o)
    <2>1. \A p \in Orderly : Stage(p)' = Stage(p) /\ order'[p] = order[p]
      BY <1>1 DEF Stayed
    <2>2. stage' = stage /\ status' = status
      BY <2>1
    <2> QED  BY <2>2 DEF Journey!journey
  <1>2. CASE CalledOff(o)
    <2>1. stage' = stage
      BY <1>2 DEF CalledOff, Stayed
    <2>2. status' = [status EXCEPT ![o] = "CANCELLED"]
      BY <1>2 DEF CalledOff, Stayed
    <2>3. Journey!CallOff(o)
      BY <1>2, <2>1, <2>2 DEF CalledOff, Journey!CallOff
    <2> QED  BY <2>3 DEF Journey!JourneyNext
  <1>3. CASE Moved(o)
    <2> DEFINE there == Journey!NextStage[Stage(o)]
    <2>1. stage' = [stage EXCEPT ![o] = there]
      BY <1>3 DEF Moved, Stayed
    <2>2. status' = [status EXCEPT ![o] = order'[o]]
      BY DEF Stayed
    <2>3. stage[o] = Stage(o) /\ status[o] = order[o] /\ Stage(o) \in DOMAIN Journey!NextStage
      BY <1>3 DEF Moved
    <2>4. CASE Journey!Shown(there) # Journey!Shown(Stage(o))
               /\ order'[o] = Journey!Shown(there)
      BY <2>1, <2>2, <2>3, <2>4 DEF Journey!MoveOn, Journey!JourneyNext
    <2>5. CASE /\ Journey!Shown(there) = Journey!Shown(Stage(o))
               /\ order[o] = Journey!Shown(Stage(o)) /\ order'[o] = order[o]
      <3>1. status' = status
        BY <2>2, <2>5
      <3> QED  BY <2>1, <2>3, <2>5, <3>1 DEF Journey!MoveUnseen, Journey!JourneyNext
    <2> QED  BY <1>3, <2>4, <2>5 DEF Moved
  <1> QED  BY <1>1, <1>2, <1>3

\* Lifecycle implements OrderJourney for the orders whose requests come one at a
\* time: their clients see the stages one after the other.
THEOREM JourneyFollowed == Spec => FollowsJourney
  <1>1. Init => Journey!JourneyInit
    BY DEF Init, Journey!JourneyInit, Stage, ShipmentsOf, Orderly
  <1>2. TypeInv /\ TypeInv' /\ SerialInv /\ [Next]_vars
            => [Journey!JourneyNext]_(Journey!journey)
    <2> SUFFICES ASSUME TypeInv, TypeInv', SerialInv, [Next]_vars
                 PROVE  [Journey!JourneyNext]_(Journey!journey)
      OBVIOUS
    <2>1. CASE UNCHANGED vars
      BY <2>1 DEF vars, Journey!journey, Stage, ShipmentsOf
    <2>2. ASSUME NEW w \in Workers, Act(w)
          PROVE  [Journey!JourneyNext]_(Journey!journey)
      <3>1. ASSUME NEW o \in Orderly, o # task[w].order PROVE Stayed(o)
        <4>1. /\ order'[o] = order[o] /\ fulfillment'[o] = fulfillment[o]
              /\ ShipmentsOf(o)' = ShipmentsOf(o)
              /\ \A n \in ShipmentsOf(o) : shipments'[n] = shipments[n]
          BY <2>2, <3>1, Untouched DEF Orderly
        <4> QED  BY <4>1 DEF Stayed, Stage
      <3>2. CASE task[w].order \in Orderly
        BY <2>2, <3>1, <3>2, OwnRows, JourneyStep
      <3>3. CASE task[w].order \notin Orderly
        <4>1. \A o \in Orderly : Stage(o)' = Stage(o) /\ order'[o] = order[o]
          BY <3>1, <3>3 DEF Stayed
        <4>2. /\ [o \in Orderly |-> Stage(o)]' = [o \in Orderly |-> Stage(o)]
              /\ [o \in Orderly |-> order[o]]' = [o \in Orderly |-> order[o]]
          BY <4>1
        <4> QED  BY <4>2 DEF Journey!journey
      <3> QED  BY <3>2, <3>3
    <2> QED  BY <2>1, <2>2, Acts
  <1> QED  BY <1>1, <1>2, SerialKept, TypesKept, PTL DEF Spec, FollowsJourney, Journey!JourneySpec
=============================================================================
