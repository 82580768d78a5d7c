--------------------------- MODULE StockInvariant ---------------------------
(***************************************************************************)
(* The inductive invariant of Stock: what a session relies on between two  *)
(* of its steps, while the others run, and what the tables keep.           *)
(***************************************************************************)
EXTENDS Stock

\* A step of a handler relies on what its earlier steps left in its local
\* variables.
LocalsOK ==
    \A w \in Workers :
        /\ pc[w] \in {"insert", "allocate"} =>
              /\ job[w].key \in Keys /\ job[w].cart \in Carts
              /\ Len(job[w].todo) <= Len(job[w].cart)
        /\ pc[w] \in {"cancel", "release"} => job[w].target \in DOMAIN orders
        /\ pc[w] \in ReceiptSteps => receipt[w] \in Receipts

\* The types of all variables; other handlers may take sessions to steps of
\* their own.
Typed ==
    /\ StoreTypeOK
    /\ OrdersTypeOK
    /\ WarehousesTypeOK
    /\ pc = [w \in Workers |-> pc[w]]

TypeInv == Typed /\ LocalsOK

\* The steps at which a handler has rows locked FOR UPDATE; returns lock the
\* rows they restock.
LockingSteps == {"allocate", "release", "restock"}

\* Only the handlers that lock rows hold row locks, and only a session with
\* changes has movements pending; the rows it has them for are its own.
LocksOK(w) ==
    /\ pc[w] \notin LockingSteps => \A r \in Rows : rowLock[r] # w
    /\ pc[w] \in LockingSteps =>
          \A r \in Rows : posted[w][r] > 0 => rowLock[r] = w
    /\ pc[w] \notin LockingSteps \cup {"store"} =>
          \A r \in Rows : posted[w][r] = 0

\* What a session has in its identity map of the rows it locked is the
\* committed row with its own changes, and nothing else.
ImagesOK(w) ==
    \A r \in Rows : rowLock[r] = w =>
        /\ pc[w] = "allocate" => image[w][r] = Take(inventory[r], posted[w][r])
        /\ pc[w] = "release" => image[w][r] = GiveBack(inventory[r], posted[w][r])
        /\ pc[w] = "restock" => image[w][r] = Add(inventory[r], posted[w][r])

\* n units in row r are no less than it received and no more than it received
\* or got back.
Explained(r, n) ==
    /\ movements["RECEIPT"][r] <= n
    /\ n <= movements["RECEIPT"][r] + movements["RETURN"][r]

\* A receipt has its warehouse locked: nothing else is received in its row.  Of
\* what it read without a lock, available may be out of date, and so may be
\* on_hand, by what was returned since.
ReceiptOK(w) ==
    pc[w] = "store" =>
        /\ whLock[Site(w)] = w
        /\ \A r \in Rows : r # receipt[w].at => posted[w][r] = 0
        /\ posted[w][receipt[w].at] = receipt[w].quantity
        /\ Explained(receipt[w].at, image[w][receipt[w].at].on_hand - receipt[w].quantity)

SessionOK(w) == LocksOK(w) /\ ImagesOK(w) /\ ReceiptOK(w)

\* Until a row receives anything, receipts have overwritten nothing in it.
RowOK(r) ==
    /\ Balanced(inventory[r])
    /\ inventory[r].reserved + movements["RELEASE"][r] = movements["RESERVATION"][r]
    /\ Explained(r, inventory[r].on_hand)
    /\ InitialStock[r] <= movements["RECEIPT"][r]
    /\ movements["RECEIPT"][r] = InitialStock[r] =>
          /\ inventory[r].on_hand = InitialStock[r] + movements["RETURN"][r]
          /\ inventory[r].available + inventory[r].reserved = inventory[r].on_hand

\* What every session relies on and every row keeps, in all interleavings of
\* the handlers (orders.py:39-154, inventory.py:26-57, warehouses.py:67-95,
\* returns.py:79-102).
StockInv ==
    /\ \A w \in Workers : SessionOK(w)
    /\ \A r \in Rows : RowOK(r)

\* Stock has no returns.
NothingReturned == \A r \in Rows : movements["RETURN"][r] = 0
=============================================================================
