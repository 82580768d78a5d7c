-------------------------- MODULE IdempotentOrders --------------------------
(***************************************************************************)
(* What an Idempotency-Key is for, seen by clients: whoever sends a key    *)
(* first places an order, and from then on everybody who sends it is told  *)
(* of that order, or refused if the payload differs.  There are no         *)
(* sessions, retries or races here.  Stock implements it.                  *)
(***************************************************************************)
CONSTANTS Keys, Carts

VARIABLES
    placed,  \* the orders that were placed with a key
    told     \* what clients were told; the order 0 is a refusal

placing == <<placed, told>>

PlacingInit == placed = {} /\ told = {}

\* The order gets whatever id no other order has.
Place(k, cart) ==
    \E p \in placed' :
        /\ p.key = k /\ p.cart = cart
        /\ \A q \in placed : q.key # k /\ q.order # p.order
        /\ placed' = placed \cup {p}
        /\ told' = told \cup {p}

Tell(p, cart) ==
    /\ told' = told \cup {[key |-> p.key, cart |-> cart,
                           order |-> IF p.cart = cart THEN p.order ELSE 0]}
    /\ UNCHANGED placed

PlacingNext ==
    \E cart \in Carts :
        \/ \E k \in Keys : Place(k, cart)
        \/ \E p \in placed : Tell(p, cart)

PlacingSpec == PlacingInit /\ [][PlacingNext]_placing
=============================================================================
