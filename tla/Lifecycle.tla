----------------------------- MODULE Lifecycle -----------------------------
(***************************************************************************)
(* An order after it is allocated: picking and packing                     *)
(* (services/fulfillment_service.py), the shipment (routers/shipments.py)  *)
(* and the cancellation (routers/orders.py), whose release of stock is the *)
(* subject of Orders.                                                      *)
(*                                                                         *)
(* None of these handlers locks what it reads.  Each reads one row after   *)
(* the other, decides by what it has read, and writes the new statuses     *)
(* when it commits, whatever they have become since.  A column that is set *)
(* to the value it was read with is not written.                           *)
(***************************************************************************)
EXTENDS Naturals, Sequences, FiniteSets

CONSTANTS
    Workers,      \* sessions of the connection pool
    OrderIds,     \* orders that were created
    Overlapping,  \* the orders about which requests may overlap
    MaxRequests   \* bound: how many requests the clients send

ASSUME LifecycleAssumption ==
    /\ OrderIds \subseteq Nat \ {0}
    /\ Overlapping \subseteq OrderIds
    /\ MaxRequests \in Nat

FULFILLMENT_TRANSITIONS ==
    [ALLOCATED |-> "PICKING", PICKING |-> "PICKED", PICKED |-> "PACKING",
     PACKING |-> "PACKED", PACKED |-> "READY_TO_SHIP"]

TRANSITIONS ==
    [READY_TO_SHIP |-> "SHIPPED", SHIPPED |-> "IN_TRANSIT",
     IN_TRANSIT |-> "OUT_FOR_DELIVERY", OUT_FOR_DELIVERY |-> "DELIVERED"]

FulfillmentStatus == DOMAIN FULFILLMENT_TRANSITIONS \cup {"READY_TO_SHIP"}
ShipmentStatus == DOMAIN TRANSITIONS \cup {"DELIVERED"}
OrderStatus == FulfillmentStatus \cup {"CREATED", "SHIPPED", "DELIVERED", "CANCELLED"}

\* What operators ask for; no request makes a fulfillment READY_TO_SHIP.
Targets == {"PICKING", "PICKED", "PACKING", "PACKED"}

VARIABLES
    order,        \* orders.status
    fulfillment,  \* fulfillments.status of each order
    packages,     \* how many packages each order has
    shipments,    \* the shipments by id
    task,         \* what each session is doing, and what it has read
    requests      \* how many requests were sent

vars == <<order, fulfillment, packages, shipments, task, requests>>

Steps == {"idle", "fulfill", "save_fulfillment", "find_package", "find_shipment",
          "insert_shipment", "advance", "save_shipment", "cancel"}

Tasks == [step : Steps, order : OrderIds \cup {0}, shipment : Nat,
          target : OrderStatus \cup ShipmentStatus, seen : OrderStatus]

Idle == [step |-> "idle", order |-> 0, shipment |-> 0, target |-> "CREATED",
         seen |-> "CREATED"]

TypeOK ==
    /\ order \in [OrderIds -> OrderStatus]
    /\ fulfillment \in [OrderIds -> FulfillmentStatus]
    /\ packages \in [OrderIds -> Nat]
    /\ shipments \in Seq([order : OrderIds, status : ShipmentStatus])
    /\ task \in [Workers -> Tasks]
    /\ requests \in 0..MaxRequests

\* A created order is ALLOCATED, and so is its fulfillment.
Init ==
    /\ order = [o \in OrderIds |-> "ALLOCATED"]
    /\ fulfillment = [o \in OrderIds |-> "ALLOCATED"]
    /\ packages = [o \in OrderIds |-> 0]
    /\ shipments = <<>>
    /\ task = [w \in Workers |-> Idle]
    /\ requests = 0

-----------------------------------------------------------------------------

At(w, step) == task[w].step = step

Start(w, t) ==
    /\ requests < MaxRequests
    /\ requests' = requests + 1
    /\ At(w, "idle")
    /\ t.order \in Overlapping \/ \A v \in Workers : task[v].order # t.order
    /\ task' = [task EXCEPT ![w] = t]
    /\ UNCHANGED <<order, fulfillment, packages, shipments>>

Goto(w, step) ==
    /\ task' = [task EXCEPT ![w].step = step]
    /\ UNCHANGED <<order, fulfillment, packages, shipments, requests>>

End(w) ==
    /\ task' = [task EXCEPT ![w] = Idle]
    /\ UNCHANGED requests

\* The session loads the order of its task.
ReadOrder(w, step) ==
    /\ task' = [task EXCEPT ![w].step = step, ![w].seen = order[task[w].order]]
    /\ UNCHANGED <<order, fulfillment, packages, shipments, requests>>

SetOrder(w, status) ==
    order' = IF task[w].seen = status THEN order
             ELSE [order EXCEPT ![task[w].order] = status]

\* A mistake: the state it is in does not matter for the transition.
ReadAnyFulfillment(w, o, target) ==
    Start(w, [Idle EXCEPT !.step = "fulfill", !.order = o, !.target = target])

(***************************************************************************)
(* Fulfillment: start_picking, complete_picking, start_packing, pack.      *)
(***************************************************************************)
ReadFulfillment(w, o, target) ==
    /\ fulfillment[o] \in DOMAIN FULFILLMENT_TRANSITIONS
    /\ FULFILLMENT_TRANSITIONS[fulfillment[o]] = target
    /\ Start(w, [Idle EXCEPT !.step = "fulfill", !.order = o, !.target = target])

ReadFulfilledOrder(w) ==
    /\ At(w, "fulfill")
    /\ ReadOrder(w, "save_fulfillment")

SaveFulfillment(w) ==
    LET o == task[w].order
        target == task[w].target
    IN  /\ At(w, "save_fulfillment")
        /\ fulfillment' = [fulfillment EXCEPT ![o] = target]
        /\ SetOrder(w, target)
        /\ packages' = IF target = "PACKED" THEN [packages EXCEPT ![o] = @ + 1]
                       ELSE packages
        /\ End(w)
        /\ UNCHANGED shipments

(***************************************************************************)
(* create_shipment: the order, its fulfillment and package, an existing    *)
(* shipment, in this order.                                                *)
(***************************************************************************)
ShipmentsOf(o) == {n \in DOMAIN shipments : shipments[n].order = o}

OpenShipment(w, o) ==
    /\ order[o] = "PACKED"
    /\ Start(w, [Idle EXCEPT !.step = "find_package", !.order = o])

FindPackage(w) ==
    /\ At(w, "find_package")
    /\ fulfillment[task[w].order] = "PACKED"
    /\ packages[task[w].order] > 0
    /\ Goto(w, "find_shipment")

\* A mistake: an order that has a shipment is not noticed.
IgnoreShipments(w) ==
    /\ At(w, "find_shipment")
    /\ Goto(w, "insert_shipment")

FindNoShipment(w) ==
    /\ At(w, "find_shipment")
    /\ ShipmentsOf(task[w].order) = {}
    /\ Goto(w, "insert_shipment")

\* A mistake: the shipment gets the status of its order.
InsertAsOrdered(w) ==
    /\ At(w, "insert_shipment")
    /\ shipments' = Append(shipments, [order |-> task[w].order,
                                       status |-> order[task[w].order]])
    /\ End(w)
    /\ UNCHANGED <<order, fulfillment, packages>>

InsertShipment(w) ==
    /\ At(w, "insert_shipment")
    /\ shipments' = Append(shipments, [order |-> task[w].order, status |-> "READY_TO_SHIP"])
    /\ End(w)
    /\ UNCHANGED <<order, fulfillment, packages>>

(***************************************************************************)
(* advance_shipment.                                                       *)
(***************************************************************************)
ReadShipment(w, n) ==
    /\ shipments[n].status \in DOMAIN TRANSITIONS
    /\ Start(w, [Idle EXCEPT !.step = "advance", !.order = shipments[n].order,
                             !.shipment = n, !.target = TRANSITIONS[shipments[n].status]])

ReadShippedOrder(w) ==
    /\ At(w, "advance")
    /\ ReadOrder(w, "save_shipment")

\* A mistake: the order of a delivered shipment is not updated.
SaveShipmentAlone(w) ==
    LET target == task[w].target
    IN  /\ At(w, "save_shipment")
        /\ shipments' = [shipments EXCEPT ![task[w].shipment].status = target]
        /\ IF target = "SHIPPED" THEN SetOrder(w, target) ELSE UNCHANGED order
        /\ End(w)
        /\ UNCHANGED <<fulfillment, packages>>

\* A mistake: the order whose id is the shipment's is updated.
SaveOtherOrder(w) ==
    LET target == task[w].target
    IN  /\ At(w, "save_shipment")
        /\ shipments' = [shipments EXCEPT ![task[w].shipment].status = target]
        /\ IF target \in {"SHIPPED", "DELIVERED"}
           THEN order' = [order EXCEPT ![task[w].shipment] = target]
           ELSE UNCHANGED order
        /\ End(w)
        /\ UNCHANGED <<fulfillment, packages>>

SaveShipment(w) ==
    LET target == task[w].target
    IN  /\ At(w, "save_shipment")
        /\ shipments' = [shipments EXCEPT ![task[w].shipment].status = target]
        /\ IF target \in {"SHIPPED", "DELIVERED"} THEN SetOrder(w, target)
           ELSE UNCHANGED order
        /\ End(w)
        /\ UNCHANGED <<fulfillment, packages>>

(***************************************************************************)
(* cancel_order: the status is read first and written last.                *)
(***************************************************************************)
ReadForCancel(w, o) ==
    /\ order[o] \notin {"SHIPPED", "DELIVERED", "CANCELLED"}
    /\ Start(w, [Idle EXCEPT !.step = "cancel", !.order = o])

SaveCancel(w) ==
    /\ At(w, "cancel")
    /\ order' = [order EXCEPT ![task[w].order] = "CANCELLED"]
    /\ End(w)
    /\ UNCHANGED <<fulfillment, packages, shipments>>

\* A request that is refused or answered after a later read, or that fails.
GiveUp(w) ==
    /\ ~ At(w, "idle")
    /\ End(w)
    /\ UNCHANGED <<order, fulfillment, packages, shipments>>

-----------------------------------------------------------------------------

Fulfill(w) ==
    \/ \E o \in DOMAIN order, target \in Targets : ReadFulfillment(w, o, target)
    \/ ReadFulfilledOrder(w)
    \/ SaveFulfillment(w)

Ship(w) ==
    \/ \E o \in DOMAIN order : OpenShipment(w, o)
    \/ FindPackage(w)
    \/ FindNoShipment(w)
    \/ InsertShipment(w)
    \/ \E n \in DOMAIN shipments : ReadShipment(w, n)
    \/ ReadShippedOrder(w)
    \/ SaveShipment(w)

Cancel(w) ==
    \/ \E o \in DOMAIN order : ReadForCancel(w, o)
    \/ SaveCancel(w)

Next == \E w \in Workers : Fulfill(w) \/ Ship(w) \/ Cancel(w) \/ GiveUp(w)

Spec == Init /\ [][Next]_vars

-----------------------------------------------------------------------------

\* However requests overlap, an order that is on its way was packed and has a
\* shipment: PACKED is written with the package, and SHIPPED and DELIVERED only
\* to the order of a shipment (shipments.py:22, 49-56).
ShippedWasPacked ==
    \A o \in OrderIds :
        order[o] \in {"SHIPPED", "DELIVERED"} => packages[o] > 0 /\ ShipmentsOf(o) # {}

\* Requests about these orders come one at a time, whatever happens to others.
Orderly == OrderIds \ Overlapping

\* One request at a time, an order is packed once, when its fulfillment says so
\* (fulfillment_service.py:37-44), and has at most one shipment
\* (shipments.py:24-26).
PackedAndShippedOnce ==
    \A o \in Orderly :
        /\ packages[o] = IF fulfillment[o] = "PACKED" THEN 1 ELSE 0
        /\ Cardinality(ShipmentsOf(o)) <= 1

Permitted(o) ==
    /\ fulfillment'[o] # fulfillment[o] =>
          fulfillment'[o] = FULFILLMENT_TRANSITIONS[fulfillment[o]]
    /\ \A n \in ShipmentsOf(o) :
          shipments'[n].status # shipments[n].status =>
              shipments'[n].status = TRANSITIONS[shipments[n].status]
    /\ order'[o] = "CANCELLED" => order[o] \notin {"SHIPPED", "DELIVERED"}

\* "A state transition is accepted only when the current state permits it"
\* (docs/architecture.md:59), also when requests overlap: the next state of a
\* fulfillment or a shipment is the one its current state leads to, and an order
\* whose goods have left is not cancelled (orders.py:132-133).
TransitionsAllowed == [][\A o \in OrderIds : Permitted(o)]_vars

(***************************************************************************)
(* Where the goods of an order are: with their shipment, if there is one.  *)
(***************************************************************************)
Stage(o) ==
    IF ShipmentsOf(o) = {} THEN fulfillment[o]
    ELSE shipments[CHOOSE n \in ShipmentsOf(o) : TRUE].status

Journey == INSTANCE OrderJourney WITH
    Orders <- Orderly,
    stage <- [o \in Orderly |-> Stage(o)],
    status <- [o \in Orderly |-> order[o]]

\* One request at a time, orders take the journey their clients are promised,
\* stage by stage, though every handler decides by what it has read before
\* (fulfillment_service.py:16-44, shipments.py:19-57, orders.py:127-149).
FollowsJourney == Journey!JourneySpec

\* One request at a time, an order is PACKED, SHIPPED or DELIVERED when its
\* fulfillment and its shipment are, and CANCELLED only if its goods did not
\* leave, though no handler compares the two (fulfillment_service.py:24-43,
\* shipments.py:50-57, orders.py:132-148).
StatusShowsStage == Journey!ShownOrCancelled
=============================================================================
