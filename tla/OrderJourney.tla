---------------------------- MODULE OrderJourney ----------------------------
(***************************************************************************)
(* What a client who follows an order is promised: the order moves through *)
(* the warehouse and the carrier's hands one stage after the other, the    *)
(* status shows the stage, and a cancellation is possible until the goods  *)
(* leave.  A cancellation changes the status only: an operator who goes on *)
(* with a cancelled order makes it live again.  Lifecycle implements this  *)
(* for the orders whose requests come one at a time.                       *)
(***************************************************************************)
CONSTANT Orders

VARIABLES
    stage,   \* where the goods of each order are
    status   \* what its client is shown

journey == <<stage, status>>

NextStage ==
    [ALLOCATED |-> "PICKING", PICKING |-> "PICKED", PICKED |-> "PACKING",
     PACKING |-> "PACKED", PACKED |-> "READY_TO_SHIP", READY_TO_SHIP |-> "SHIPPED",
     SHIPPED |-> "IN_TRANSIT", IN_TRANSIT |-> "OUT_FOR_DELIVERY",
     OUT_FOR_DELIVERY |-> "DELIVERED"]

\* Not every stage has a status of its own.
Shown(s) ==
    CASE s = "READY_TO_SHIP" -> "PACKED"
      [] s \in {"IN_TRANSIT", "OUT_FOR_DELIVERY"} -> "SHIPPED"
      [] OTHER -> s

JourneyInit ==
    /\ stage = [o \in Orders |-> "ALLOCATED"]
    /\ status = [o \in Orders |-> "ALLOCATED"]

\* The goods of o reach their next stage, and the status shows it.
MoveOn(o) ==
    /\ stage[o] \in DOMAIN NextStage
    /\ Shown(NextStage[stage[o]]) # Shown(stage[o])
    /\ stage' = [stage EXCEPT ![o] = NextStage[stage[o]]]
    /\ status' = [status EXCEPT ![o] = Shown(NextStage[stage[o]])]

\* Stages that are not shown follow the status: no shipment is made of a
\* cancelled order.
MoveUnseen(o) ==
    /\ stage[o] \in DOMAIN NextStage
    /\ Shown(NextStage[stage[o]]) = Shown(stage[o])
    /\ status[o] = Shown(stage[o])
    /\ stage' = [stage EXCEPT ![o] = NextStage[stage[o]]]
    /\ UNCHANGED status

CallOff(o) ==
    /\ status[o] \notin {"SHIPPED", "DELIVERED", "CANCELLED"}
    /\ status' = [status EXCEPT ![o] = "CANCELLED"]
    /\ UNCHANGED stage

JourneyNext == \E o \in Orders : MoveOn(o) \/ MoveUnseen(o) \/ CallOff(o)

JourneySpec == JourneyInit /\ [][JourneyNext]_journey

\* The status is that of the stage, unless the order was cancelled before its
\* goods left.
ShownOrCancelled ==
    \A o \in Orders :
        \/ status[o] = Shown(stage[o])
        \/ status[o] = "CANCELLED" /\ Shown(stage[o]) \notin {"SHIPPED", "DELIVERED"}
=============================================================================
