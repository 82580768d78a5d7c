------------------------------- MODULE Orders -------------------------------
(***************************************************************************)
(* POST /orders and POST /orders/{id}/cancel.                              *)
(*                                                                         *)
(* Creating an order inserts it, allocates its items one after the other   *)
(* from the rows that have stock, and commits order, allocations,          *)
(* reservations and movements together.  The lock waits are the steps:     *)
(* other sessions run in between.  An order of an unknown product rolls    *)
(* back like one there is no stock for; unknown products have no rows.     *)
(***************************************************************************)
EXTENDS Store, SequencesExt

CONSTANTS
    Carts,              \* the payloads of clients: sequences of items
    Keys,               \* the Idempotency-Key headers they send
    NoKey,              \* no such header: NULL in the table
    EmptyKey,           \* a header without a value: stored as ''
    InventoryId,        \* inventory.id, the tie-break of the allocation order
    OverlappingCancels  \* may clients cancel an order while it is cancelled?

Items == [product : Products, quantity : Nat \ {0}]

\* A row of allocations: how much of an item of the order comes from a row.
Allocations == [item : Nat, row : Rows, quantity : Nat \ {0}]
OrderStatus == {"CREATED", "ALLOCATED", "PICKING", "PICKED", "PACKING", "PACKED",
                "READY_TO_SHIP", "SHIPPED", "DELIVERED", "CANCELLED"}

\* The quantity of the records with an index in S: of lines, of allocations.
SumOf(records, S) ==
    SumFunctionOnSet([n \in DOMAIN records |-> records[n].quantity], S)

ASSUME OrdersAssumption ==
    /\ Carts \subseteq Seq(Items) \ {<<>>}
    /\ InventoryId \in [Rows -> Nat]
    /\ OverlappingCancels \in BOOLEAN

VARIABLES
    orders,   \* the committed orders with their allocations, by commit
    job,      \* the local variables of the handler each session runs
    answers   \* history: what creating requests with a key were told

orderVars == <<orders, job, answers>>

NoJob == [key |-> NoKey, cart |-> <<>>, todo |-> <<>>, queue |-> <<>>,
          remaining |-> 0, made |-> <<>>, target |-> 0, releasing |-> <<>>]

OrderSteps == {"insert", "allocate", "cancel", "release"}

PlacedOrders == [key : Keys, cart : Carts, allocations : Seq(Allocations),
                 status : OrderStatus, released : BOOLEAN]
Jobs == [key : Keys \cup {NoKey}, cart : Carts \cup {<<>>}, todo : Seq(Items),
         queue : Seq(Rows), remaining : Nat, made : Seq(Allocations),
         target : Nat, releasing : Seq(Allocations)]
Answers == [key : Keys, cart : Carts, order : Nat]

OrdersTypeOK ==
    /\ orders \in Seq(PlacedOrders)
    /\ job \in [Workers -> Jobs]
    /\ answers \subseteq Answers

OrdersInit ==
    /\ orders = <<>>
    /\ job = [w \in Workers |-> NoJob]
    /\ answers = {}

EndJob(w) == job' = [job EXCEPT ![w] = NoJob]

(***************************************************************************)
(* `if idempotency_key:` is false of a missing and of an empty header.     *)
(***************************************************************************)
Truthy(k) == k \notin {NoKey, EmptyKey}

WithKey(k) == {o \in DOMAIN orders : orders[o].key = k}

(***************************************************************************)
(* The answer to a request whose key is taken: the order if the payload    *)
(* (compared by its hash) is the same, and 0 for 409.                      *)
(***************************************************************************)
Same(k, cart) == {o \in WithKey(k) : orders[o].cart = cart}
\* A mistake: the payloads are not compared.
AnswerAnyPayload(k, cart) ==
    [key |-> k, cart |-> cart, order |-> CHOOSE o \in WithKey(k) : TRUE]

Answer(k, cart) ==
    [key |-> k, cart |-> cart,
     order |-> IF Truthy(k) /\ Same(k, cart) # {}
               THEN CHOOSE o \in Same(k, cart) : TRUE ELSE 0]

ReplayOrder(k, cart) ==
    /\ requests < MaxRequests
    /\ Truthy(k)
    /\ WithKey(k) # {}
    /\ requests' = requests + 1
    /\ answers' = answers \cup {Answer(k, cart)}
    /\ UNCHANGED <<inventory, movements, rowLock, whLock, whShare, pc, image,
                   posted, orders, job>>

CreateOrder(w, k, cart) ==
    /\ Truthy(k) => WithKey(k) = {}
    /\ Accept(w, "insert")
    /\ job' = [job EXCEPT ![w].key = k, ![w].cart = cart, ![w].todo = cart]
    /\ UNCHANGED <<orders, answers>>

\* A mistake: an insert does not wait for the other insert of its key.
NoKeyHolders(w) == {}

(***************************************************************************)
(* The INSERT of the order waits for a session that has inserted the same  *)
(* key and not ended, and fails when a committed order has it.             *)
(***************************************************************************)
KeyHolders(w) ==
    {v \in Workers \ {w} : /\ pc[v] = "allocate"
                           /\ job[v].key = job[w].key
                           /\ job[w].key # NoKey}

\* A mistake: the index of the key is not unique.
KeyNeverTaken(w) == FALSE

KeyTaken(w) == job[w].key # NoKey /\ WithKey(job[w].key) # {}

InsertOrder(w) ==
    /\ pc[w] = "insert"
    /\ KeyHolders(w) = {} /\ ~ KeyTaken(w)
    /\ pc' = [pc EXCEPT ![w] = "allocate"]
    /\ UNCHANGED <<inventory, movements, rowLock, whLock, whShare, image, posted,
                   requests, orderVars>>

DuplicateOrder(w) ==
    /\ pc[w] = "insert"
    /\ KeyTaken(w)
    /\ Rollback(w)
    /\ answers' = answers \cup {Answer(job[w].key, job[w].cart)}
    /\ EndJob(w)
    /\ UNCHANGED orders

(***************************************************************************)
(* A flush inserts the allocations made so far, which share-locks the key  *)
(* of their warehouses: it waits while one is locked FOR UPDATE.           *)
(***************************************************************************)
Allocated(w) == {wh \in Warehouses : \E p \in Products : posted[w][<<p, wh>>] > 0}

\* A mistake: allocations do not reference their warehouse.
MayFlushAlways(w) == TRUE

MayFlush(w) == \A wh \in Allocated(w) : whLock[wh] \in {w, NoWorker}

(***************************************************************************)
(* The candidate rows of a product, most available first, then by id, as   *)
(* the statement finds them before it locks the first.                     *)
(***************************************************************************)
Candidates(w, p) == {r \in Rows : r[1] = p /\ Loaded(w, r).available > 0}

Before(w, r, s) ==
    \/ Loaded(w, r).available > Loaded(w, s).available
    \/ /\ Loaded(w, r).available = Loaded(w, s).available
       /\ InventoryId[r] < InventoryId[s]

NextItem(w) ==
    /\ pc[w] = "allocate"
    /\ job[w].queue = <<>> /\ job[w].remaining = 0 /\ job[w].todo # <<>>
    /\ MayFlush(w)
    /\ whShare' = [whShare EXCEPT ![w] = @ \cup Allocated(w)]
    /\ \E q \in SetToSeqs(Candidates(w, Head(job[w].todo).product)) :
          /\ \A i, j \in DOMAIN q : i < j => Before(w, q[i], q[j])
          /\ job' = [job EXCEPT ![w].queue = q,
                                ![w].remaining = Head(job[w].todo).quantity,
                                ![w].todo = Tail(@)]
    /\ UNCHANGED <<inventory, movements, rowLock, whLock, pc, image, posted,
                   requests, orders, answers>>

(***************************************************************************)
(* The next candidate is locked, re-read, and allocated from.  A candidate *)
(* that was emptied while the session waited gives nothing and stays       *)
(* locked, like those left over when the item is allocated.                *)
(***************************************************************************)
Least(a, b) == IF a < b THEN a ELSE b

ItemNumber(w) == Len(job[w].cart) - Len(job[w].todo)

Made(w, r, take) ==
    IF take = 0 THEN job[w].made
    ELSE Append(job[w].made, [item |-> ItemNumber(w), row |-> r, quantity |-> take])

\* A mistake: what remains is taken, whatever is available.
AllocateRemaining(w) ==
    /\ pc[w] = "allocate"
    /\ job[w].queue # <<>>
    /\ LET r == Head(job[w].queue)
           take == job[w].remaining
       IN  /\ LockAndChange(w, r, Take(Loaded(w, r), take), take)
           /\ job' = [job EXCEPT ![w].queue = Tail(@), ![w].remaining = 0,
                                ![w].made = Made(w, r, take)]
    /\ UNCHANGED <<inventory, movements, whLock, whShare, pc, requests, orders,
                   answers>>

\* A mistake: the allocation records what remains, not what is taken.
RecordRemaining(w) ==
    /\ pc[w] = "allocate"
    /\ job[w].queue # <<>>
    /\ LET r == Head(job[w].queue)
           take == Least(job[w].remaining, Loaded(w, r).available)
       IN  /\ LockAndChange(w, r, Take(Loaded(w, r), take), take)
           /\ job' = [job EXCEPT ![w].queue = Tail(@),
                                ![w].remaining = job[w].remaining - take,
                                ![w].made = Made(w, r, job[w].remaining)]
    /\ UNCHANGED <<inventory, movements, whLock, whShare, pc, requests, orders,
                   answers>>

AllocateFrom(w) ==
    /\ pc[w] = "allocate"
    /\ job[w].queue # <<>>
    /\ LET r == Head(job[w].queue)
           take == Least(job[w].remaining, Loaded(w, r).available)
       IN  /\ LockAndChange(w, r, Take(Loaded(w, r), take), take)
           /\ job' = [job EXCEPT ![w].queue = Tail(@),
                                ![w].remaining = job[w].remaining - take,
                                ![w].made = Made(w, r, take)]
    /\ UNCHANGED <<inventory, movements, whLock, whShare, pc, requests, orders,
                   answers>>

RejectOrder(w) ==
    /\ pc[w] = "allocate"
    /\ job[w].queue = <<>> /\ job[w].remaining > 0
    /\ Rollback(w)
    /\ EndJob(w)
    /\ UNCHANGED <<orders, answers>>

\* A mistake: an order is committed though an item is short.
CommitShortOrder(w) ==
    /\ pc[w] = "allocate"
    /\ job[w].queue = <<>> /\ job[w].todo = <<>>
    /\ MayFlush(w)
    /\ Commit(w, "RESERVATION")
    /\ orders' = Append(orders,
                        [key |-> job[w].key, cart |-> job[w].cart,
                         allocations |-> job[w].made, status |-> "ALLOCATED",
                         released |-> FALSE])
    /\ UNCHANGED answers
    /\ EndJob(w)

CommitOrder(w) ==
    /\ pc[w] = "allocate"
    /\ job[w].queue = <<>> /\ job[w].remaining = 0 /\ job[w].todo = <<>>
    /\ MayFlush(w)
    /\ Commit(w, "RESERVATION")
    /\ orders' = Append(orders,
                        [key |-> job[w].key, cart |-> job[w].cart,
                         allocations |-> job[w].made, status |-> "ALLOCATED",
                         released |-> FALSE])
    /\ answers' = IF job[w].key = NoKey THEN answers
                  ELSE answers \cup {[key |-> job[w].key, cart |-> job[w].cart,
                                      order |-> Len(orders) + 1]}
    /\ EndJob(w)

(***************************************************************************)
(* Cancelling reads the order, then its allocations, both without a lock,  *)
(* and releases the allocations in whatever order they are found.          *)
(***************************************************************************)
Cancelling(w, o) == pc[w] \in {"cancel", "release"} /\ job[w].target = o

\* A mistake: only a cancelled order is not cancelled.
CancelShipped(w, o) ==
    /\ OverlappingCancels \/ \A v \in Workers : ~ Cancelling(v, o)
    /\ orders[o].status # "CANCELLED"
    /\ Accept(w, "cancel")
    /\ job' = [job EXCEPT ![w].target = o]
    /\ UNCHANGED <<orders, answers>>

CancelOrder(w, o) ==
    /\ OverlappingCancels \/ \A v \in Workers : ~ Cancelling(v, o)
    /\ orders[o].status \notin {"SHIPPED", "DELIVERED", "CANCELLED"}
    /\ Accept(w, "cancel")
    /\ job' = [job EXCEPT ![w].target = o]
    /\ UNCHANGED <<orders, answers>>

\* The allocations of o with status ALLOCATED, by id.
Unreleased(o) == IF orders[o].released THEN <<>> ELSE orders[o].allocations

ReadAllocations(w) ==
    LET found == Unreleased(job[w].target)
    IN  /\ pc[w] = "cancel"
        /\ pc' = [pc EXCEPT ![w] = "release"]
        /\ \E s \in SetToSeqs(DOMAIN found) :
              job' = [job EXCEPT ![w].releasing = [n \in DOMAIN s |-> found[s[n]]]]
        /\ UNCHANGED <<inventory, movements, rowLock, whLock, whShare, image,
                       posted, requests, orders, answers>>

ReleaseStock(w) ==
    LET a == Head(job[w].releasing)
    IN  /\ pc[w] = "release"
        /\ job[w].releasing # <<>>
        /\ Loaded(w, a.row).reserved >= a.quantity
        /\ LockAndChange(w, a.row, GiveBack(Loaded(w, a.row), a.quantity), a.quantity)
        /\ job' = [job EXCEPT ![w].releasing = Tail(@)]
        /\ UNCHANGED <<inventory, movements, whLock, whShare, pc, requests, orders,
                       answers>>

RejectCancel(w) ==
    LET a == Head(job[w].releasing)
    IN  /\ pc[w] = "release"
        /\ job[w].releasing # <<>>
        /\ MayLock(w, a.row)
        /\ Loaded(w, a.row).reserved < a.quantity
        /\ Rollback(w)
        /\ EndJob(w)
        /\ UNCHANGED <<orders, answers>>

\* A mistake: the movement of a cancellation is posted as a reservation.
CommitCancelAsReservation(w) ==
    /\ pc[w] = "release"
    /\ job[w].releasing = <<>>
    /\ Commit(w, "RESERVATION")
    /\ orders' = [orders EXCEPT ![job[w].target] =
                      [@ EXCEPT !.status = "CANCELLED", !.released = TRUE]]
    /\ EndJob(w)
    /\ UNCHANGED answers

CommitCancel(w) ==
    /\ pc[w] = "release"
    /\ job[w].releasing = <<>>
    /\ Commit(w, "RELEASE")
    /\ orders' = [orders EXCEPT ![job[w].target] =
                      [@ EXCEPT !.status = "CANCELLED", !.released = TRUE]]
    /\ EndJob(w)
    /\ UNCHANGED answers

(***************************************************************************)
(* A lost connection, a killed process, a statement that fails or a        *)
(* deadlock PostgreSQL breaks: the transaction is rolled back.             *)
(***************************************************************************)
AbortOrder(w) ==
    /\ pc[w] \in OrderSteps
    /\ Rollback(w)
    /\ EndJob(w)
    /\ UNCHANGED <<orders, answers>>

Send(w) ==
    \/ \E k \in Keys, cart \in Carts : CreateOrder(w, k, cart)
    \/ \E o \in DOMAIN orders : CancelOrder(w, o)

OrderStep(w) ==
    \/ InsertOrder(w) \/ DuplicateOrder(w)
    \/ NextItem(w) \/ AllocateFrom(w) \/ RejectOrder(w) \/ CommitOrder(w)
    \/ ReadAllocations(w) \/ ReleaseStock(w) \/ RejectCancel(w)
    \/ CommitCancel(w)

OrdersNext ==
    \/ \E k \in Keys, cart \in Carts : ReplayOrder(k, cart)
    \/ \E w \in Workers : Send(w) \/ OrderStep(w) \/ AbortOrder(w)
=============================================================================
