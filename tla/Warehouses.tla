----------------------------- MODULE Warehouses -----------------------------
(***************************************************************************)
(* POST /warehouses/{id}/stock, the receipt of goods.  The handler loads   *)
(* the warehouse, then locks it with a second query.  The object it        *)
(* already holds is not refreshed by that query, so capacity is checked,   *)
(* and used_capacity computed, from what the first one read.  The          *)
(* inventory row is read without a lock.                                   *)
(***************************************************************************)
EXTENDS Store, Functions

CONSTANTS
    InitialUsed,          \* used_capacity when the model starts
    Deliveries,           \* the quantities that are received
    OverlappingReceipts   \* the warehouses that receive deliveries at the same time

\* The sum of what f has in the rows of a warehouse.
Total(f, wh) == SumFunctionOnSet(f, {r \in Rows : r[2] = wh})

ASSUME WarehousesAssumption ==
    /\ InitialUsed \in [Warehouses -> Nat]
    /\ \A wh \in Warehouses :
          /\ InitialUsed[wh] = Total(InitialStock, wh)
          /\ Capacity[wh] = 0 \/ InitialUsed[wh] <= Capacity[wh]
    /\ Deliveries \subseteq Nat \ {0}
    /\ OverlappingReceipts \subseteq Warehouses

VARIABLES
    used,     \* used_capacity of each warehouse
    receipt   \* the local variables of the handler each session runs

warehouseVars == <<used, receipt>>

NoReceipt == [at |-> <<>>, quantity |-> 0, seen |-> 0]

ReceiptSteps == {"receive", "store"}

Receipts == [at : Rows, quantity : Deliveries, seen : Nat]

WarehousesTypeOK ==
    /\ used \in [Warehouses -> Nat]
    /\ receipt \in [Workers -> Receipts \cup {NoReceipt}]

WarehousesInit ==
    /\ used = InitialUsed
    /\ receipt = [w \in Workers |-> NoReceipt]

EndReceipt(w) == receipt' = [receipt EXCEPT ![w] = NoReceipt]

Site(w) == receipt[w].at[2]

Receiving(w, wh) == pc[w] \in ReceiptSteps /\ Site(w) = wh

GetWarehouse(w, r, q) ==
    /\ r[2] \in OverlappingReceipts \/ \A v \in Workers : ~ Receiving(v, r[2])
    /\ Accept(w, "receive")
    /\ receipt' = [receipt EXCEPT ![w] =
                      [at |-> r, quantity |-> q, seen |-> used[r[2]]]]
    /\ UNCHANGED used

\* A mistake: the warehouse is read without FOR UPDATE.
NoLockHolders(w) == {}

(***************************************************************************)
(* FOR UPDATE of the warehouse waits for another FOR UPDATE and for the    *)
(* share locks of sessions that have flushed allocations in it.            *)
(***************************************************************************)
LockHolders(w) ==
    {v \in Workers \ {w} : whLock[Site(w)] = v \/ Site(w) \in whShare[v]}

\* A mistake: the delivery is not counted.
FitsWithout(w) ==
    \/ Capacity[Site(w)] = 0
    \/ receipt[w].seen < Capacity[Site(w)]

Fits(w) ==
    \/ Capacity[Site(w)] = 0
    \/ receipt[w].seen + receipt[w].quantity <= Capacity[Site(w)]

\* A mistake: the delivery is counted before it is stored.
LockAndCount(w) ==
    /\ pc[w] = "receive"
    /\ LockHolders(w) = {}
    /\ Fits(w)
    /\ pc' = [pc EXCEPT ![w] = "store"]
    /\ whLock' = [whLock EXCEPT ![Site(w)] = w]
    /\ LET r == receipt[w].at
           q == receipt[w].quantity
       IN  /\ image' = [image EXCEPT ![w][r] = Add(inventory[r], q)]
           /\ posted' = [posted EXCEPT ![w][r] = q]
    /\ used' = [used EXCEPT ![Site(w)] = receipt[w].seen + receipt[w].quantity]
    /\ UNCHANGED <<inventory, movements, rowLock, whShare, requests, receipt>>

LockWarehouse(w) ==
    /\ pc[w] = "receive"
    /\ LockHolders(w) = {}
    /\ Fits(w)
    /\ pc' = [pc EXCEPT ![w] = "store"]
    /\ whLock' = [whLock EXCEPT ![Site(w)] = w]
    /\ LET r == receipt[w].at
           q == receipt[w].quantity
       IN  /\ image' = [image EXCEPT ![w][r] = Add(inventory[r], q)]
           /\ posted' = [posted EXCEPT ![w][r] = q]
    /\ UNCHANGED <<inventory, movements, rowLock, whShare, requests, warehouseVars>>

RefuseReceipt(w) ==
    /\ pc[w] = "receive"
    /\ LockHolders(w) = {}
    /\ ~ Fits(w)
    /\ Rollback(w)
    /\ EndReceipt(w)
    /\ UNCHANGED used

(***************************************************************************)
(* The UPDATE waits for the lock of the inventory row.                     *)
(***************************************************************************)
AtRow(w) == pc[w] = "store" /\ rowLock[receipt[w].at] = NoWorker

\* A mistake: the delivery is not added to used_capacity.
CommitReceiptUncounted(w) ==
    /\ AtRow(w)
    /\ Commit(w, "RECEIPT")
    /\ UNCHANGED used
    /\ EndReceipt(w)

CommitReceipt(w) ==
    /\ AtRow(w)
    /\ Commit(w, "RECEIPT")
    /\ used' = [used EXCEPT ![Site(w)] = receipt[w].seen + receipt[w].quantity]
    /\ EndReceipt(w)

\* A CHECK constraint refuses the row: IntegrityError, answered with 409.
FailReceipt(w) ==
    /\ AtRow(w)
    /\ ~ PassesChecks(w, "RECEIPT")
    /\ Rollback(w)
    /\ EndReceipt(w)
    /\ UNCHANGED used

AbortReceipt(w) ==
    /\ pc[w] \in ReceiptSteps
    /\ Rollback(w)
    /\ EndReceipt(w)
    /\ UNCHANGED used

Deliver(w) == \E r \in Rows, q \in Deliveries : GetWarehouse(w, r, q)

ReceiptStep(w) ==
    \/ LockWarehouse(w) \/ RefuseReceipt(w)
    \/ CommitReceipt(w) \/ FailReceipt(w)

WarehousesNext == \E w \in Workers : Deliver(w) \/ ReceiptStep(w) \/ AbortReceipt(w)

-----------------------------------------------------------------------------

\* used_capacity is what the warehouse has received, if it receives one delivery
\* at a time (warehouses.py:91).
UsedMatchesReceipts ==
    \A wh \in Warehouses \ OverlappingReceipts :
        used[wh] = Total(movements["RECEIPT"], wh)

\* Such a warehouse receives no more than its capacity (warehouses.py:79), though
\* the capacity that is compared was read before the lock.
CapacityRespected ==
    \A wh \in Warehouses \ OverlappingReceipts :
        Capacity[wh] = 0 \/ Total(movements["RECEIPT"], wh) <= Capacity[wh]

\* However deliveries overlap, used_capacity claims no goods that were not
\* received, though a stale write may lower it and a staler one raise it again;
\* and the CHECK ck_warehouses_capacity_limit (models.py:39) never refuses a
\* delivery that passed the check of the handler (warehouses.py:77-91).
UsedNeverOverstated ==
    \A wh \in Warehouses :
        /\ used[wh] <= Total(movements["RECEIPT"], wh)
        /\ Capacity[wh] = 0 \/ used[wh] <= Capacity[wh]
=============================================================================
