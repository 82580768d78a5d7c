---------------------------- MODULE StockProofs ----------------------------
(***************************************************************************)
(* StockInv is an invariant of Stock, and what follows from it: the ledger *)
(* and the stock agree, nothing is oversold, rows are changed by the owner *)
(* of their lock only, and the operations keep what StockAccount promises. *)
(***************************************************************************)
EXTENDS StockTypeProofs

\* Two changes of a row undo nothing and lose nothing.
LEMMA RowFacts ==
  ASSUME NEW row \in Quantities, NEW m \in Nat, NEW n \in Nat
  PROVE  /\ Take(row, 0) = row
         /\ GiveBack(row, 0) = row
         /\ Take(Take(row, m), n) = Take(row, m + n)
         /\ GiveBack(GiveBack(row, m), n) = GiveBack(row, m + n)
         /\ Add(row, 0) = row
         /\ Add(Add(row, m), n) = Add(row, m + n)
  BY DEF Quantities, Take, GiveBack, Add

-----------------------------------------------------------------------------
(***************************************************************************)
(* What a commit writes.                                                   *)
(***************************************************************************)

\* What an order commits: it takes what it has posted.
LEMMA WrittenByOrder ==
  ASSUME TypeInv, StockInv, NEW w \in Workers, pc[w] = "allocate"
  PROVE  Written(w, "RESERVATION") = [r \in Rows |-> Take(inventory[r], posted[w][r])]
<1>1. ASSUME NEW r \in Rows
      PROVE  Written(w, "RESERVATION")[r] = Take(inventory[r], posted[w][r])
  <2>1. inventory[r] \in Quantities /\ posted[w][r] \in Nat
    BY DEF TypeInv, Typed, StoreTypeOK
  <2>2. CASE posted[w][r] = 0
    BY <2>1, <2>2, RowFacts DEF Written
  <2>3. CASE posted[w][r] > 0
    <3>1. image[w][r] = Take(inventory[r], posted[w][r])
      BY <2>3 DEF StockInv, SessionOK, LocksOK, ImagesOK, LockingSteps
    <3>2. [image[w][r] EXCEPT !.on_hand = inventory[r].on_hand] = image[w][r]
      BY <3>1 DEF Take
    <3>. QED
      BY <2>3, <3>1, <3>2 DEF Written
  <2>. QED
    BY <2>1, <2>2, <2>3
<1>. QED
  BY <1>1 DEF Written

\* What a cancellation commits: it gives back what it has posted.
LEMMA WrittenByCancel ==
  ASSUME TypeInv, StockInv, NEW w \in Workers, pc[w] = "release"
  PROVE  Written(w, "RELEASE") = [r \in Rows |-> GiveBack(inventory[r], posted[w][r])]
<1>1. ASSUME NEW r \in Rows
      PROVE  Written(w, "RELEASE")[r] = GiveBack(inventory[r], posted[w][r])
  <2>1. inventory[r] \in Quantities /\ posted[w][r] \in Nat
    BY DEF TypeInv, Typed, StoreTypeOK
  <2>2. CASE posted[w][r] = 0
    BY <2>1, <2>2, RowFacts DEF Written
  <2>3. CASE posted[w][r] > 0
    <3>1. image[w][r] = GiveBack(inventory[r], posted[w][r])
      BY <2>3 DEF StockInv, SessionOK, LocksOK, ImagesOK, LockingSteps
    <3>2. [image[w][r] EXCEPT !.on_hand = inventory[r].on_hand] = image[w][r]
      BY <3>1 DEF GiveBack
    <3>. QED
      BY <2>3, <3>1, <3>2 DEF Written
  <2>. QED
    BY <2>1, <2>2, <2>3
<1>. QED
  BY <1>1 DEF Written

\* The row a receipt writes: reserved is what it is when the UPDATE is made.
Stored(w, r) ==
    [on_hand |-> image[w][r].on_hand, available |-> image[w][r].available,
     reserved |-> inventory[r].reserved]

\* What a receipt commits: its row is what it computed from what it had read.
LEMMA WrittenByReceipt ==
  ASSUME TypeInv, StockInv, NEW w \in Workers, pc[w] = "store"
  PROVE  /\ receipt[w] \in Receipts
         /\ receipt[w].quantity \in Nat \ {0}
         /\ Written(w, "RECEIPT") =
              [inventory EXCEPT ![receipt[w].at] = Stored(w, receipt[w].at)]
<1>1. receipt[w] \in Receipts
  BY DEF TypeInv, LocalsOK, ReceiptSteps
<1>2. receipt[w].at \in Rows /\ receipt[w].quantity \in Nat \ {0}
  BY <1>1, WarehousesAssumption DEF Receipts
<1>3. ReceiptOK(w)
  BY DEF StockInv, SessionOK
<1>4. /\ image[w][receipt[w].at] \in Quantities
      /\ inventory \in [Rows -> Quantities]
  BY <1>2 DEF TypeInv, Typed, StoreTypeOK
<1>5. [image[w][receipt[w].at] EXCEPT !.reserved = inventory[receipt[w].at].reserved]
        = Stored(w, receipt[w].at)
  BY <1>2, <1>4 DEF Stored, Quantities
<1>6. ASSUME NEW r \in Rows
      PROVE  Written(w, "RECEIPT")[r] =
               IF r = receipt[w].at THEN Stored(w, receipt[w].at) ELSE inventory[r]
  BY <1>2, <1>3, <1>5 DEF Written, ReceiptOK
<1>. QED
  BY <1>1, <1>2, <1>4, <1>6 DEF Written

-----------------------------------------------------------------------------
(***************************************************************************)
(* What the end of the session w does to the other sessions.               *)
(***************************************************************************)

\* Nothing is received in a row, and what was returned is not taken back.
StaysExplained(r) ==
    /\ movements'["RECEIPT"][r] = movements["RECEIPT"][r]
    /\ movements'["RETURN"][r] \in Nat /\ movements["RETURN"][r] \in Nat
    /\ movements["RETURN"][r] <= movements'["RETURN"][r]
    /\ movements["RECEIPT"][r] \in Nat

\* Then a number that the ledger explains stays explained.
LEMMA ExplainedStays ==
  ASSUME NEW r, NEW n \in Int, Explained(r, n), StaysExplained(r)
  PROVE  Explained(r, n)'
  BY DEF Explained, StaysExplained

\* The end of a transaction keeps what holds of the sessions, if the rows that
\* others have locked stay as they are.
LEMMA EndSessionInv ==
  ASSUME TypeInv, StockInv, NEW w \in Workers, EndSession(w),
         \A v \in Workers \ {w} : receipt'[v] = receipt[v],
         \A r \in Rows : rowLock[r] \notin {w, NoWorker} => inventory'[r] = inventory[r],
         \A v \in Workers \ {w} :
             pc[v] = "store" => StaysExplained(receipt[v].at)
  PROVE  \A v \in Workers : SessionOK(v)'
<1>1. SessionOK(w)'
  BY StoreAssumption
  DEF EndSession, SessionOK, LocksOK, ImagesOK, ReceiptOK, Nothing, TypeInv, Typed, StoreTypeOK,
      LockingSteps
<1>2. ASSUME NEW v \in Workers \ {w}
      PROVE  SessionOK(v)'
  <2>1. /\ SessionOK(v) /\ v # NoWorker
        /\ pc'[v] = pc[v] /\ posted'[v] = posted[v] /\ image'[v] = image[v]
        /\ receipt'[v] = receipt[v]
    BY StoreAssumption DEF EndSession, StockInv, TypeInv, Typed, StoreTypeOK
  <2>2. \A r \in Rows : rowLock'[r] = v <=> rowLock[r] = v
    BY <2>1 DEF EndSession
  <2>3. LocksOK(v)'
    BY <2>1, <2>2 DEF SessionOK, LocksOK
  <2>4. ImagesOK(v)'
    BY <2>1, <2>2 DEF SessionOK, ImagesOK
  <2>5. ReceiptOK(v)'
    <3>1. SUFFICES ASSUME pc[v] = "store"
                   PROVE  ReceiptOK(v)'
      BY <2>1 DEF ReceiptOK
    <3>2. receipt[v] \in Receipts
      BY <3>1 DEF TypeInv, LocalsOK, ReceiptSteps
    <3>3. Site(v) \in Warehouses
      BY <3>2 DEF Receipts, Rows, Site
    <3>4. ReceiptOK(v)
      BY <2>1 DEF SessionOK
    <3>. DEFINE at == receipt[v].at
                n == image[v][at].on_hand - receipt[v].quantity
    <3>5. at \in Rows /\ n \in Int /\ at' = at /\ n' = n
      BY <2>1, <3>2, WarehousesAssumption DEF Receipts, TypeInv, Typed, StoreTypeOK, Quantities
    <3>6. Explained(at, n)
      BY <3>1, <3>4 DEF ReceiptOK
    <3>7. Explained(at, n)'
      <4>1. PICK r \in Rows, m \in Int : r = at /\ m = n
        BY <3>5
      <4>2. Explained(r, m) /\ StaysExplained(r)
        BY <3>1, <3>6, <4>1
      <4>3. Explained(r, m)'
        BY <4>2, ExplainedStays
      <4>. QED
        BY <3>5, <4>1, <4>3 DEF Explained
    <3>8. /\ whLock'[Site(v)'] = v
          /\ \A r \in Rows : r # at' => posted'[v][r] = 0
          /\ posted'[v][at'] = receipt'[v].quantity
      BY <2>1, <3>1, <3>3, <3>4, <3>5 DEF ReceiptOK, EndSession, Site
    <3>. QED
      BY <3>7, <3>8 DEF ReceiptOK
  <2>. QED
    BY <2>3, <2>4, <2>5 DEF SessionOK
<1>. QED
  BY <1>1, <1>2

\* A rollback keeps the invariant.
LEMMA RollbackInv ==
  ASSUME TypeInv, StockInv, NEW w \in Workers, Rollback(w),
         \A v \in Workers \ {w} : receipt'[v] = receipt[v]
  PROVE  StockInv'
<1>1. \A r \in Rows : StaysExplained(r)
  BY DEF StaysExplained, Rollback, TypeInv, Typed, StoreTypeOK, MovementTypes
<1>2. \A v \in Workers \ {w} : pc[v] = "store" => receipt[v].at \in Rows
  BY DEF TypeInv, LocalsOK, ReceiptSteps, Receipts
<1>3. \A v \in Workers : SessionOK(v)'
  BY <1>1, <1>2, EndSessionInv DEF Rollback
<1>4. \A r \in Rows : RowOK(r)'
  BY DEF Rollback, StockInv, RowOK, Explained
<1>. QED
  BY <1>3, <1>4 DEF StockInv

\* So does the rollback of a request about orders,
LEMMA RejectInv ==
  ASSUME TypeInv, StockInv, NEW w \in Workers,
         \/ DuplicateOrder(w) \/ RejectOrder(w) \/ RejectCancel(w) \/ AbortOrder(w),
         UNCHANGED warehouseVars
  PROVE  StockInv'
<1>1. Rollback(w)
  BY DEF DuplicateOrder, RejectOrder, RejectCancel, AbortOrder
<1>. QED
  BY <1>1, RollbackInv DEF warehouseVars

\* and that of a receipt.
LEMMA RefuseInv ==
  ASSUME TypeInv, StockInv, NEW w \in Workers,
         RefuseReceipt(w) \/ FailReceipt(w) \/ AbortReceipt(w)
  PROVE  StockInv'
<1>1. Rollback(w) /\ EndReceipt(w)
  BY DEF RefuseReceipt, FailReceipt, AbortReceipt
<1>. QED
  BY <1>1, RollbackInv DEF EndReceipt, TypeInv, Typed, WarehousesTypeOK

-----------------------------------------------------------------------------
(***************************************************************************)
(* Commits.                                                                *)
(***************************************************************************)

\* Who has a row locked is the only one with a change of it pending.
LEMMA LockExcludes ==
  ASSUME TypeInv, StockInv, NEW w \in Workers, NEW r \in Rows,
         pc[w] \in LockingSteps, rowLock[r] \notin {w, NoWorker}
  PROVE  posted[w][r] = 0
  BY DEF TypeInv, Typed, StoreTypeOK, StockInv, SessionOK, LocksOK

\* What an order has pending of a row was available, and what a cancellation
\* has pending was reserved, and still is: the row has been locked since.
LEMMA PendingWithin ==
  ASSUME TypeInv, StockInv, NEW w \in Workers, NEW r \in Rows
  PROVE  /\ pc[w] = "allocate" => posted[w][r] <= inventory[r].available
         /\ pc[w] = "release" => posted[w][r] <= inventory[r].reserved
<1>1. /\ inventory[r] \in Quantities /\ image[w][r] \in Quantities
      /\ posted[w][r] \in Nat
  BY DEF TypeInv, Typed, StoreTypeOK
<1>2. SessionOK(w)
  BY DEF StockInv
<1>3. ASSUME pc[w] = "allocate", posted[w][r] > 0
      PROVE  posted[w][r] <= inventory[r].available
  <2>1. image[w][r] = Take(inventory[r], posted[w][r])
    BY <1>2, <1>3 DEF SessionOK, LocksOK, ImagesOK, LockingSteps
  <2>2. inventory[r].available - posted[w][r] \in Nat
    BY <1>1, <2>1 DEF Take, Quantities
  <2>. QED
    BY <1>1, <2>2 DEF Quantities
<1>4. ASSUME pc[w] = "release", posted[w][r] > 0
      PROVE  posted[w][r] <= inventory[r].reserved
  <2>1. image[w][r] = GiveBack(inventory[r], posted[w][r])
    BY <1>2, <1>4 DEF SessionOK, LocksOK, ImagesOK, LockingSteps
  <2>2. inventory[r].reserved - posted[w][r] \in Nat
    BY <1>1, <2>1 DEF GiveBack, Quantities
  <2>. QED
    BY <1>1, <2>2 DEF Quantities
<1>5. posted[w][r] = 0 => /\ posted[w][r] <= inventory[r].available
                         /\ posted[w][r] <= inventory[r].reserved
  BY <1>1 DEF Quantities
<1>. QED
  BY <1>1, <1>3, <1>4, <1>5

\* The commit of an order keeps the invariant.
LEMMA CommitOrderInv ==
  ASSUME TypeInv, StockInv, NEW w \in Workers, CommitOrder(w), UNCHANGED warehouseVars
  PROVE  StockInv'
<1>1. pc[w] = "allocate" /\ Commit(w, "RESERVATION")
  BY DEF CommitOrder
<1>2. inventory' = [r \in Rows |-> Take(inventory[r], posted[w][r])]
  BY <1>1, WrittenByOrder DEF Commit
<1>3. ASSUME NEW r \in Rows
      PROVE  /\ inventory[r] \in Quantities
             /\ posted[w][r] \in Nat
             /\ inventory'[r].on_hand = inventory[r].on_hand
             /\ rowLock[r] \notin {w, NoWorker} => inventory'[r] = inventory[r]
  <2>1. inventory[r] \in Quantities /\ posted[w][r] \in Nat
    BY DEF TypeInv, Typed, StoreTypeOK
  <2>2. inventory'[r] = Take(inventory[r], posted[w][r])
    BY <1>2
  <2>3. rowLock[r] \notin {w, NoWorker} => posted[w][r] = 0
    BY <1>1, LockExcludes DEF LockingSteps
  <2>4. Take(inventory[r], 0) = inventory[r]
    BY <2>1, RowFacts
  <2>5. inventory'[r].on_hand = inventory[r].on_hand
    BY <2>2 DEF Take
  <2>. QED
    BY <2>1, <2>2, <2>3, <2>4, <2>5
<1>4. \A v \in Workers : pc[v] = "store" => receipt[v].at \in Rows
  BY DEF TypeInv, LocalsOK, ReceiptSteps, Receipts
<1>5. \A v \in Workers : SessionOK(v)'
  <2>1. \A r \in Rows : StaysExplained(r)
    BY <1>1 DEF StaysExplained, Commit, TypeInv, Typed, StoreTypeOK, MovementTypes
  <2>. QED
    BY <1>1, <1>3, <1>4, <2>1, EndSessionInv DEF Commit, warehouseVars
<1>6. ASSUME NEW r \in Rows
      PROVE  RowOK(r)'
  <2>1. inventory'[r] = Take(inventory[r], posted[w][r])
    BY <1>2
  <2>2. /\ movements'["RESERVATION"][r] = movements["RESERVATION"][r] + posted[w][r]
        /\ movements'["RELEASE"][r] = movements["RELEASE"][r]
        /\ movements'["RECEIPT"][r] = movements["RECEIPT"][r]
        /\ movements'["RETURN"][r] = movements["RETURN"][r]
        /\ movements["RESERVATION"][r] \in Nat
        /\ movements["RELEASE"][r] \in Nat
    BY <1>1 DEF Commit, TypeInv, Typed, StoreTypeOK, MovementTypes
  <2>3. RowOK(r)
    BY DEF StockInv
  <2>. QED
    BY <1>1, <1>3, <2>1, <2>2, <2>3, PendingWithin
    DEF RowOK, Explained, Balanced, Take, Quantities
<1>. QED
  BY <1>5, <1>6 DEF StockInv

\* So does the commit of a cancellation,
LEMMA CommitCancelInv ==
  ASSUME TypeInv, StockInv, NEW w \in Workers, CommitCancel(w), UNCHANGED warehouseVars
  PROVE  StockInv'
<1>1. pc[w] = "release" /\ Commit(w, "RELEASE")
  BY DEF CommitCancel
<1>2. inventory' = [r \in Rows |-> GiveBack(inventory[r], posted[w][r])]
  BY <1>1, WrittenByCancel DEF Commit
<1>3. ASSUME NEW r \in Rows
      PROVE  /\ inventory[r] \in Quantities
             /\ posted[w][r] \in Nat
             /\ inventory'[r].on_hand = inventory[r].on_hand
             /\ rowLock[r] \notin {w, NoWorker} => inventory'[r] = inventory[r]
  <2>1. inventory[r] \in Quantities /\ posted[w][r] \in Nat
    BY DEF TypeInv, Typed, StoreTypeOK
  <2>2. inventory'[r] = GiveBack(inventory[r], posted[w][r])
    BY <1>2
  <2>3. rowLock[r] \notin {w, NoWorker} => posted[w][r] = 0
    BY <1>1, LockExcludes DEF LockingSteps
  <2>4. GiveBack(inventory[r], 0) = inventory[r]
    BY <2>1, RowFacts
  <2>5. inventory'[r].on_hand = inventory[r].on_hand
    BY <2>2 DEF GiveBack
  <2>. QED
    BY <2>1, <2>2, <2>3, <2>4, <2>5
<1>4. \A v \in Workers : pc[v] = "store" => receipt[v].at \in Rows
  BY DEF TypeInv, LocalsOK, ReceiptSteps, Receipts
<1>5. \A v \in Workers : SessionOK(v)'
  <2>1. \A r \in Rows : StaysExplained(r)
    BY <1>1 DEF StaysExplained, Commit, TypeInv, Typed, StoreTypeOK, MovementTypes
  <2>. QED
    BY <1>1, <1>3, <1>4, <2>1, EndSessionInv DEF Commit, warehouseVars
<1>6. ASSUME NEW r \in Rows
      PROVE  RowOK(r)'
  <2>1. inventory'[r] = GiveBack(inventory[r], posted[w][r])
    BY <1>2
  <2>2. /\ movements'["RELEASE"][r] = movements["RELEASE"][r] + posted[w][r]
        /\ movements'["RESERVATION"][r] = movements["RESERVATION"][r]
        /\ movements'["RECEIPT"][r] = movements["RECEIPT"][r]
        /\ movements'["RETURN"][r] = movements["RETURN"][r]
        /\ movements["RESERVATION"][r] \in Nat
        /\ movements["RELEASE"][r] \in Nat
    BY <1>1 DEF Commit, TypeInv, Typed, StoreTypeOK, MovementTypes
  <2>3. RowOK(r)
    BY DEF StockInv
  <2>. QED
    BY <1>1, <1>3, <2>1, <2>2, <2>3, PendingWithin
    DEF RowOK, Explained, Balanced, GiveBack, Quantities
<1>. QED
  BY <1>5, <1>6 DEF StockInv

\* and the commit of a receipt, which changes other columns.
LEMMA CommitReceiptInv ==
  ASSUME TypeInv, StockInv, NEW w \in Workers, CommitReceipt(w)
  PROVE  StockInv'
<1>. DEFINE at == receipt[w].at
            n == receipt[w].quantity
<1>1. /\ pc[w] = "store" /\ Commit(w, "RECEIPT") /\ EndReceipt(w)
      /\ rowLock[at] = NoWorker
  BY DEF CommitReceipt, AtRow
<1>2. /\ receipt[w] \in Receipts
      /\ n \in Nat \ {0}
      /\ inventory' = [inventory EXCEPT ![at] = Stored(w, at)]
  BY <1>1, WrittenByReceipt DEF Commit
<1>3. at \in Rows /\ inventory \in [Rows -> Quantities]
  BY <1>2 DEF Receipts, TypeInv, Typed, StoreTypeOK
<1>4. \A v \in Workers \ {w} : receipt'[v] = receipt[v]
  BY <1>1 DEF EndReceipt, TypeInv, Typed, WarehousesTypeOK
<1>5. ASSUME NEW r \in Rows
      PROVE  /\ posted[w][r] = IF r = at THEN n ELSE 0
             /\ movements'["RECEIPT"][r] = movements["RECEIPT"][r] + posted[w][r]
             /\ \A type \in {"RESERVATION", "RELEASE", "RETURN"} :
                   movements'[type][r] = movements[type][r]
             /\ \A type \in MovementTypes : movements[type][r] \in Nat
  <2>1. ReceiptOK(w)
    BY DEF StockInv, SessionOK
  <2>. QED
    BY <1>1, <1>3, <2>1 DEF ReceiptOK, Commit, TypeInv, Typed, StoreTypeOK, MovementTypes
<1>6. ASSUME NEW v \in Workers \ {w}, pc[v] = "store"
      PROVE  StaysExplained(receipt[v].at)
  <2>1. receipt[v].at \in Rows
    BY <1>6 DEF TypeInv, LocalsOK, ReceiptSteps, Receipts
  <2>2. ReceiptOK(v) /\ ReceiptOK(w)
    BY DEF StockInv, SessionOK
  <2>3. receipt[v].at # at
    BY <1>1, <1>6, <2>2 DEF ReceiptOK, Site
  <2>. QED
    BY <1>5, <2>1, <2>3 DEF StaysExplained, MovementTypes
<1>7. \A v \in Workers : SessionOK(v)'
  BY <1>1, <1>2, <1>3, <1>4, <1>6, EndSessionInv DEF Commit
<1>8. ASSUME NEW r \in Rows
      PROVE  RowOK(r)'
  <2>1. RowOK(r) /\ ReceiptOK(w) /\ inventory[r] \in Quantities
    BY <1>3 DEF StockInv, SessionOK
  <2>2. Balanced(inventory'[r])
    BY <1>1 DEF Commit, PassesChecks
  <2>3. CASE r = at
    <3>1. /\ inventory'[r].on_hand = image[w][at].on_hand
          /\ inventory'[r].reserved = inventory[r].reserved
      BY <1>2, <1>3, <2>3 DEF Stored
    <3>2. Explained(at, image[w][at].on_hand - n) /\ image[w][at].on_hand \in Nat
      BY <1>1, <1>3, <2>1 DEF ReceiptOK, TypeInv, Typed, StoreTypeOK, Quantities
    <3>3. InitialStock[r] \in Nat
      BY StoreAssumption
    <3>. HIDE DEF at, n
    <3>4. Explained(r, inventory[r].on_hand)' /\ InitialStock[r] < movements'["RECEIPT"][r]
      BY <1>2, <1>5, <2>1, <2>3, <3>1, <3>2, <3>3 DEF RowOK, Explained, MovementTypes
    <3>5. /\ movements'["RESERVATION"][r] = movements["RESERVATION"][r]
          /\ movements'["RELEASE"][r] = movements["RELEASE"][r]
          /\ movements'["RECEIPT"][r] \in Nat
      BY <1>2, <1>5, <2>3 DEF MovementTypes
    <3>6. /\ InitialStock[r] <= movements'["RECEIPT"][r]
          /\ movements'["RECEIPT"][r] # InitialStock[r]
      BY <3>3, <3>4, <3>5
    <3>. QED
      BY <2>1, <2>2, <3>1, <3>4, <3>5, <3>6 DEF RowOK
  <2>4. CASE r # at
    <3>1. inventory'[r] = inventory[r]
      BY <1>2, <1>3, <2>4
    <3>. HIDE DEF at, n
    <3>2. \A type \in MovementTypes : movements'[type][r] = movements[type][r]
      BY <1>5, <2>4 DEF MovementTypes
    <3>. QED
      BY <2>1, <3>1, <3>2 DEF RowOK, Explained, MovementTypes
  <2>. QED
    BY <2>3, <2>4
<1>. QED
  BY <1>7, <1>8 DEF StockInv

-----------------------------------------------------------------------------
(***************************************************************************)
(* Steps inside a transaction, and steps without one.                      *)
(***************************************************************************)

\* A step of w that commits nothing disturbs no other session.
LEMMA OthersInv ==
  ASSUME TypeInv, StockInv, NEW w \in Workers, UNCHANGED <<inventory, movements>>,
         \A v \in Workers \ {w} :
             /\ pc'[v] = pc[v] /\ posted'[v] = posted[v] /\ image'[v] = image[v]
             /\ receipt'[v] = receipt[v]
             /\ \A r \in Rows : rowLock'[r] = v <=> rowLock[r] = v
             /\ \A wh \in Warehouses : whLock[wh] = v => whLock'[wh] = v,
         SessionOK(w)'
  PROVE  StockInv'
<1>1. ASSUME NEW v \in Workers \ {w}
      PROVE  SessionOK(v)'
  <2>1. SessionOK(v)
    BY DEF StockInv
  <2>2. LocksOK(v)'
    BY <2>1 DEF SessionOK, LocksOK
  <2>3. ImagesOK(v)'
    BY <2>1 DEF SessionOK, ImagesOK
  <2>4. ReceiptOK(v)'
    <3>1. pc[v] = "store" => Site(v) \in Warehouses
      BY DEF TypeInv, LocalsOK, ReceiptSteps, Receipts, Rows, Site
    <3>. QED
      BY <2>1, <3>1 DEF SessionOK, ReceiptOK, Site, Explained
  <2>. QED
    BY <2>2, <2>3, <2>4 DEF SessionOK
<1>2. \A r \in Rows : RowOK(r)'
  BY DEF StockInv, RowOK, Explained
<1>. QED
  BY <1>1, <1>2 DEF StockInv

\* How a handler that locks rows changes them.
Changed(w, row, n) ==
    CASE pc[w] = "allocate" -> Take(row, n)
      [] pc[w] = "release" -> GiveBack(row, n)
      [] OTHER -> Add(row, n)

LEMMA ChangedFacts ==
  ASSUME TypeInv, StockInv, NEW w \in Workers, pc[w] \in LockingSteps, NEW r \in Rows, NEW n \in Nat
  PROVE  /\ Changed(w, inventory[r], 0) = inventory[r]
         /\ \A m \in Nat : Changed(w, Changed(w, inventory[r], m), n)
                              = Changed(w, inventory[r], m + n)
         /\ rowLock[r] = w => image[w][r] = Changed(w, inventory[r], posted[w][r])
<1>1. inventory[r] \in Quantities
  BY DEF TypeInv, Typed, StoreTypeOK
<1>2. Changed(w, inventory[r], 0) = inventory[r]
  BY <1>1, RowFacts DEF Changed
<1>3. ASSUME NEW m \in Nat
      PROVE  Changed(w, Changed(w, inventory[r], m), n) = Changed(w, inventory[r], m + n)
  BY <1>1, RowFacts DEF Changed
<1>4. rowLock[r] = w => image[w][r] = Changed(w, inventory[r], posted[w][r])
  BY DEF StockInv, SessionOK, ImagesOK, Changed, LockingSteps
<1>. QED
  BY <1>2, <1>3, <1>4

\* A row is locked and changed in the session only.
LEMMA LockAndChangeInv ==
  ASSUME TypeInv, StockInv, NEW w \in Workers, NEW r \in Rows, NEW n \in Nat,
         pc[w] \in LockingSteps,
         LockAndChange(w, r, Changed(w, Loaded(w, r), n), n),
         UNCHANGED <<inventory, movements, whLock, pc, receipt>>
  PROVE  StockInv'
<1>1. /\ inventory[r] \in Quantities /\ posted[w][r] \in Nat
      /\ rowLock \in [Rows -> Workers \cup {NoWorker}]
      /\ posted \in [Workers -> [Rows -> Nat]]
      /\ image \in [Workers -> [Rows -> Quantities]]
  BY DEF TypeInv, Typed, StoreTypeOK
<1>2. /\ SessionOK(w) /\ rowLock[r] \in {w, NoWorker}
      /\ rowLock' = [rowLock EXCEPT ![r] = w]
      /\ posted' = [posted EXCEPT ![w][r] = @ + n]
      /\ image' = [image EXCEPT ![w][r] = Changed(w, Loaded(w, r), n)]
  BY DEF StockInv, LockAndChange, MayLock
<1>3. LocksOK(w)'
  BY <1>1, <1>2 DEF SessionOK, LocksOK
<1>4. rowLock[r] # w => posted[w][r] = 0
  BY <1>1, <1>2 DEF SessionOK, LocksOK
<1>5. posted'[w][r] = posted[w][r] + n /\ image'[w][r] = Changed(w, Loaded(w, r), n)
  BY <1>1, <1>2
<1>6. ASSUME NEW s \in Rows, s # r
      PROVE  /\ posted'[w][s] = posted[w][s] /\ image'[w][s] = image[w][s]
             /\ rowLock'[s] = rowLock[s]
  BY <1>1, <1>2, <1>6
<1>7. Loaded(w, r) = Changed(w, inventory[r], posted[w][r])
  BY <1>1, <1>4, ChangedFacts DEF Loaded
<1>8. image'[w][r] = Changed(w, inventory[r], posted'[w][r])
  BY <1>1, <1>5, <1>7, ChangedFacts
<1>9. ImagesOK(w)'
  <2>1. ASSUME NEW s \in Rows, rowLock'[s] = w
        PROVE  image'[w][s] = Changed(w, inventory[s], posted'[w][s])
    <3>1. CASE s = r
      BY <1>8, <3>1
    <3>2. CASE s # r
      BY <1>6, <2>1, <3>2, ChangedFacts
    <3>. QED
      BY <3>1, <3>2
  <2>. QED
    BY <2>1 DEF ImagesOK, Changed
<1>10. ReceiptOK(w)'
  BY DEF ReceiptOK, LockingSteps
<1>11. \A v \in Workers \ {w} : /\ posted'[v] = posted[v] /\ image'[v] = image[v]
                               /\ \A s \in Rows : rowLock'[s] = v <=> rowLock[s] = v
  BY <1>1, <1>2, StoreAssumption
<1>. QED
  BY <1>3, <1>9, <1>10, <1>11, OthersInv DEF SessionOK

\* An allocation takes no more than there is.
LEMMA AllocateFromInv ==
  ASSUME TypeInv, StockInv, NEW w \in Workers, AllocateFrom(w), UNCHANGED warehouseVars
  PROVE  StockInv'
<1>. DEFINE r == Head(job[w].queue)
            take == Least(job[w].remaining, Loaded(w, r).available)
<1>1. r \in Rows /\ job[w].remaining \in Nat
  BY DEF AllocateFrom, TypeInv, Typed, OrdersTypeOK, Jobs
<1>2. Loaded(w, r) \in Quantities
  BY <1>1, LoadedType DEF StoreOK, TypeInv, Typed
<1>3. take \in Nat
  BY <1>1, <1>2 DEF Least, Quantities
<1>4. /\ pc[w] \in LockingSteps
      /\ LockAndChange(w, r, Changed(w, Loaded(w, r), take), take)
  BY DEF AllocateFrom, Changed, LockingSteps
<1>. HIDE DEF take
<1>. QED
  BY <1>1, <1>3, <1>4, LockAndChangeInv DEF AllocateFrom, warehouseVars

\* A release gives back no more than is reserved.
LEMMA ReleaseStockInv ==
  ASSUME TypeInv, StockInv, NEW w \in Workers, ReleaseStock(w), UNCHANGED warehouseVars
  PROVE  StockInv'
<1>. DEFINE r == Head(job[w].releasing).row
            n == Head(job[w].releasing).quantity
<1>1. Head(job[w].releasing) \in Allocations
  BY DEF ReleaseStock, TypeInv, Typed, OrdersTypeOK, Jobs
<1>3. r \in Rows /\ n \in Nat
  BY <1>1 DEF Allocations
<1>4. /\ pc[w] \in LockingSteps
      /\ LockAndChange(w, r, Changed(w, Loaded(w, r), n), n)
  BY DEF ReleaseStock, Changed, LockingSteps
<1>. HIDE DEF n, r
<1>. QED
  BY <1>1, <1>3, <1>4, LockAndChangeInv DEF ReleaseStock, warehouseVars

\* A receipt computes the new quantities from the committed row.
LEMMA LockWarehouseInv ==
  ASSUME TypeInv, StockInv, NEW w \in Workers, LockWarehouse(w)
  PROVE  StockInv'
<1>. DEFINE at == receipt[w].at
            n == receipt[w].quantity
<1>1. receipt[w] \in Receipts
  BY DEF LockWarehouse, TypeInv, LocalsOK, ReceiptSteps
<1>2. at \in Rows /\ n \in Nat /\ Site(w) \in Warehouses
  BY <1>1, WarehousesAssumption DEF Receipts, Rows, Site
<1>3. /\ inventory[at] \in Quantities
      /\ posted \in [Workers -> [Rows -> Nat]]
      /\ image \in [Workers -> [Rows -> Quantities]]
      /\ whLock \in [Warehouses -> Workers \cup {NoWorker}]
      /\ pc = [v \in Workers |-> pc[v]]
  BY <1>2 DEF TypeInv, Typed, StoreTypeOK
<1>4. /\ pc[w] = "receive" /\ pc' = [pc EXCEPT ![w] = "store"]
      /\ whLock' = [whLock EXCEPT ![Site(w)] = w]
      /\ image' = [image EXCEPT ![w][at] = Add(inventory[at], n)]
      /\ posted' = [posted EXCEPT ![w][at] = n]
      /\ UNCHANGED <<inventory, movements, rowLock, warehouseVars>>
  BY DEF LockWarehouse
<1>5. SessionOK(w)
  BY DEF StockInv
<1>6. LocksOK(w)'
  BY <1>3, <1>4, <1>5 DEF SessionOK, LocksOK, LockingSteps
<1>7. ImagesOK(w)'
  BY <1>3, <1>4 DEF ImagesOK
<1>8. ReceiptOK(w)'
  <2>1. Explained(at, inventory[at].on_hand)
    BY <1>2 DEF StockInv, RowOK
  <2>2. /\ whLock'[Site(w)'] = w
        /\ \A r \in Rows : r # at' => posted'[w][r] = 0
        /\ posted'[w][at'] = n' /\ at' = at /\ n' = n
    BY <1>2, <1>3, <1>4, <1>5 DEF SessionOK, LocksOK, LockingSteps, Site, warehouseVars
  <2>3. image'[w][at].on_hand - n = inventory[at].on_hand
    BY <1>2, <1>3, <1>4 DEF Add, Quantities
  <2>. QED
    BY <1>4, <2>1, <2>2, <2>3 DEF ReceiptOK, Explained
<1>9. \A wh \in Warehouses, v \in Workers \ {w} : whLock[wh] = v => whLock'[wh] = v
  BY <1>2, <1>3, <1>4 DEF LockWarehouse, LockHolders
<1>. QED
  BY <1>3, <1>4, <1>6, <1>7, <1>8, <1>9, OthersInv DEF SessionOK, warehouseVars

\* A step that changes neither rows nor locks nor pending changes.
LEMMA QuietInv ==
  ASSUME TypeInv, StockInv, NEW w \in Workers,
         UNCHANGED <<inventory, movements, rowLock, whLock, image, posted>>,
         \A v \in Workers \ {w} : pc'[v] = pc[v] /\ receipt'[v] = receipt[v],
         \/ pc'[w] = pc[w] /\ receipt'[w] = receipt[w]
         \/ pc[w] \notin LockingSteps \cup {"store"} /\ pc'[w] # "store"
  PROVE  StockInv'
<1>1. SessionOK(w)
  BY DEF StockInv
<1>2. SessionOK(w)'
  BY <1>1 DEF SessionOK, LocksOK, ImagesOK, ReceiptOK, Site, LockingSteps, Explained
<1>. QED
  BY <1>2, OthersInv

\* Steps that touch neither tables, locks nor images.
LEMMA QuietStepsInv ==
  ASSUME TypeInv, StockInv, NEW w \in Workers,
         \/ /\ \/ \E k \in Keys, cart \in Carts : CreateOrder(w, k, cart)
               \/ \E o \in DOMAIN orders : CancelOrder(w, o)
               \/ InsertOrder(w) \/ NextItem(w) \/ ReadAllocations(w)
            /\ UNCHANGED warehouseVars
         \/ Deliver(w)
  PROVE  StockInv'
<1>1. pc = [v \in Workers |-> pc[v]] /\ receipt \in [Workers -> Receipts \cup {NoReceipt}]
  BY DEF TypeInv, Typed, WarehousesTypeOK
<1>2. CASE /\ \/ \E k \in Keys, cart \in Carts : CreateOrder(w, k, cart)
              \/ \E o \in DOMAIN orders : CancelOrder(w, o)
           /\ UNCHANGED warehouseVars
  BY <1>1, <1>2, QuietInv DEF CreateOrder, CancelOrder, Accept, warehouseVars, LockingSteps
<1>3. CASE (InsertOrder(w) \/ NextItem(w) \/ ReadAllocations(w)) /\ UNCHANGED warehouseVars
  BY <1>1, <1>3, QuietInv
  DEF InsertOrder, NextItem, ReadAllocations, warehouseVars, orderVars, LockingSteps
<1>4. CASE Deliver(w)
  BY <1>1, <1>4, QuietInv DEF Deliver, GetWarehouse, Accept, LockingSteps
<1>. QED
  BY <1>2, <1>3, <1>4

\* A manual operation changes a row that nobody has locked.
LEMMA ManualInv ==
  ASSUME TypeInv, StockInv, NEW r \in Rows, NEW n \in ManualQuantities,
         Reserve(r, n) \/ Release(r, n), UNCHANGED <<orderVars, warehouseVars>>
  PROVE  StockInv'
<1>1. /\ n \in Nat /\ inventory[r] \in Quantities /\ rowLock[r] = NoWorker
      /\ inventory \in [Rows -> Quantities]
      /\ movements \in [MovementTypes -> [Rows -> Nat]]
  BY InventoryAssumption DEF Reserve, Release, TypeInv, Typed, StoreTypeOK
<1>2. /\ \A s \in Rows \ {r} : inventory'[s] = inventory[s]
      /\ inventory'[r].on_hand = inventory[r].on_hand
  BY <1>1 DEF Reserve, Release, Take, GiveBack
<1>3. UNCHANGED <<rowLock, whLock, pc, image, posted, receipt>>
  BY DEF Reserve, Release, warehouseVars
<1>4. ASSUME NEW v \in Workers
      PROVE  SessionOK(v)'
  <2>1. SessionOK(v)
    BY DEF StockInv
  <2>2. pc[v] = "store" => receipt[v].at \in Rows
    BY DEF TypeInv, LocalsOK, ReceiptSteps, Receipts
  <2>3. LocksOK(v)'
    BY <1>3, <2>1 DEF SessionOK, LocksOK
  <2>4. ImagesOK(v)'
    BY <1>1, <1>2, <1>3, <2>1, StoreAssumption DEF SessionOK, ImagesOK
  <2>5. ReceiptOK(v)'
    <3>1. \A s \in Rows : /\ movements'["RECEIPT"][s] = movements["RECEIPT"][s]
                         /\ movements'["RETURN"][s] = movements["RETURN"][s]
      BY <1>1 DEF Reserve, Release, MovementTypes
    <3>. QED
      BY <1>3, <2>1, <2>2, <3>1 DEF SessionOK, ReceiptOK, Site, Explained
  <2>. QED
    BY <2>3, <2>4, <2>5 DEF SessionOK
<1>5. ASSUME NEW s \in Rows
      PROVE  RowOK(s)'
  <2>1. RowOK(s)
    BY DEF StockInv
  <2>2. CASE Reserve(r, n)
    <3>1. inventory'[s] = IF s = r THEN Take(inventory[r], n) ELSE inventory[s]
      BY <1>1, <2>2 DEF Reserve
    <3>2. /\ movements'["RESERVATION"][s] =
               IF s = r THEN movements["RESERVATION"][s] + n ELSE movements["RESERVATION"][s]
          /\ movements'["RELEASE"][s] = movements["RELEASE"][s]
          /\ movements'["RECEIPT"][s] = movements["RECEIPT"][s]
          /\ movements'["RETURN"][s] = movements["RETURN"][s]
      BY <1>1, <2>2 DEF Reserve, MovementTypes
    <3>3. /\ inventory[s] \in Quantities
          /\ movements["RESERVATION"][s] \in Nat /\ movements["RELEASE"][s] \in Nat
      BY <1>1 DEF MovementTypes
    <3>. QED
      BY <1>1, <2>1, <2>2, <3>1, <3>2, <3>3
      DEF Reserve, RowOK, Explained, Balanced, Take, Quantities
  <2>3. CASE Release(r, n)
    <3>1. inventory'[s] = IF s = r THEN GiveBack(inventory[r], n) ELSE inventory[s]
      BY <1>1, <2>3 DEF Release
    <3>2. /\ movements'["RELEASE"][s] =
               IF s = r THEN movements["RELEASE"][s] + n ELSE movements["RELEASE"][s]
          /\ movements'["RESERVATION"][s] = movements["RESERVATION"][s]
          /\ movements'["RECEIPT"][s] = movements["RECEIPT"][s]
          /\ movements'["RETURN"][s] = movements["RETURN"][s]
      BY <1>1, <2>3 DEF Release, MovementTypes
    <3>3. /\ inventory[s] \in Quantities
          /\ movements["RESERVATION"][s] \in Nat /\ movements["RELEASE"][s] \in Nat
      BY <1>1 DEF MovementTypes
    <3>. QED
      BY <1>1, <2>1, <2>3, <3>1, <3>2, <3>3
      DEF Release, RowOK, Explained, Balanced, GiveBack, Quantities
  <2>. QED
    BY <2>2, <2>3
<1>. QED
  BY <1>4, <1>5 DEF StockInv

-----------------------------------------------------------------------------

\* The invariant holds at first, whatever is reserved of what is in stock.
LEMMA StockInvInit ==
  ASSUME NEW reserved, Opening(reserved),
         \A r \in Rows : reserved[r] \in Nat /\ reserved[r] <= InitialStock[r]
  PROVE  StockInv
<1>1. \A r \in Rows : InitialStock[r] \in Nat
  BY StoreAssumption
<1>2. \A w \in Workers : SessionOK(w)
  BY StoreAssumption
  DEF Opening, SessionOK, LocksOK, ImagesOK, ReceiptOK, Nothing, LockingSteps
<1>3. ASSUME NEW r \in Rows PROVE RowOK(r)
  <2>1. /\ inventory[r].on_hand = InitialStock[r] /\ inventory[r].reserved = reserved[r]
        /\ inventory[r].available = InitialStock[r] - reserved[r]
        /\ movements["RECEIPT"][r] = InitialStock[r] /\ movements["RESERVATION"][r] = reserved[r]
        /\ movements["RELEASE"][r] = 0 /\ movements["RETURN"][r] = 0
    BY DEF Opening, Nothing, MovementTypes
  <2>. QED
    BY <1>1, <2>1 DEF RowOK, Explained, Balanced
<1>. QED
  BY <1>2, <1>3 DEF StockInv

\* Every step keeps the invariant.
LEMMA StockInvStep ==
  ASSUME TypeInv, StockInv, [Next]_vars
  PROVE  StockInv'
<1>1. CASE InventoryNext /\ UNCHANGED <<orderVars, warehouseVars>>
  BY <1>1, ManualInv DEF InventoryNext
<1>2. CASE OrdersNext /\ UNCHANGED warehouseVars
  <2>1. ASSUME NEW k \in Keys, NEW cart \in Carts, ReplayOrder(k, cart)
        PROVE  StockInv'
    BY <1>2, <2>1 DEF ReplayOrder, warehouseVars, StockInv, SessionOK, LocksOK, ImagesOK,
         ReceiptOK, RowOK, Site, Explained
  <2>2. ASSUME NEW w \in Workers, Send(w) \/ OrderStep(w) \/ AbortOrder(w)
        PROVE  StockInv'
    BY <1>2, <2>2, QuietStepsInv, RejectInv, AllocateFromInv, ReleaseStockInv,
       CommitOrderInv, CommitCancelInv
    DEF Send, OrderStep
  <2>. QED
    BY <1>2, <2>1, <2>2 DEF OrdersNext
<1>3. CASE WarehousesNext /\ UNCHANGED orderVars
  BY <1>3, QuietStepsInv, LockWarehouseInv, CommitReceiptInv, RefuseInv
  DEF WarehousesNext, ReceiptStep
<1>4. CASE UNCHANGED vars
  BY <1>4 DEF vars, storeVars, warehouseVars, StockInv, SessionOK, LocksOK, ImagesOK,
     ReceiptOK, RowOK, Site, Explained
<1>. QED
  BY <1>1, <1>2, <1>3, <1>4 DEF Next

Kept == UNCHANGED <<inventory, movements>>

\* All other steps than manual operations and commits leave the stock alone.
LEMMA WhoChangesStock ==
  ASSUME [Next]_vars
  PROVE  \/ Kept
         \/ \E r \in Rows, n \in ManualQuantities : Reserve(r, n) \/ Release(r, n)
         \/ \E w \in Workers : CommitOrder(w) \/ CommitCancel(w) \/ CommitReceipt(w)
<1>1. CASE InventoryNext
  BY <1>1 DEF InventoryNext
<1>2. CASE OrdersNext
  BY <1>2, ZenonT(40) DEF OrdersNext, Send, OrderStep, ReplayOrder, CreateOrder, CancelOrder, Accept,
     InsertOrder, DuplicateOrder, NextItem, AllocateFrom, RejectOrder, ReadAllocations,
     ReleaseStock, RejectCancel, AbortOrder, Rollback, Kept
<1>3. CASE WarehousesNext
  BY <1>3 DEF WarehousesNext, Deliver, ReceiptStep, GetWarehouse, Accept, LockWarehouse,
     RefuseReceipt, FailReceipt, AbortReceipt, Rollback, Kept
<1>4. CASE UNCHANGED vars
  BY <1>4 DEF vars, storeVars, Kept
<1>. QED
  BY <1>1, <1>2, <1>3, <1>4 DEF Next

\* Nothing enters a return in the ledger.
LEMMA NothingReturnedStep ==
  ASSUME TypeInv, NothingReturned, [Next]_vars
  PROVE  NothingReturned'
<1>1. movements \in [MovementTypes -> [Rows -> Nat]]
  BY DEF TypeInv, Typed, StoreTypeOK
<1>2. \/ Kept
      \/ \E r \in Rows, n \in ManualQuantities, type \in {"RESERVATION", "RELEASE"} :
            movements' = [movements EXCEPT ![type][r] = @ + n]
      \/ \E w \in Workers, type \in {"RESERVATION", "RELEASE", "RECEIPT"} :
            movements' = [movements EXCEPT ![type] = [r \in Rows |-> @[r] + posted[w][r]]]
  BY WhoChangesStock DEF Reserve, Release, CommitOrder, CommitCancel, CommitReceipt, Commit
<1>3. movements'["RETURN"] = movements["RETURN"]
  BY <1>1, <1>2 DEF Kept, MovementTypes
<1>. QED
  BY <1>3 DEF NothingReturned

\* What a session relies on between its steps, and what the rows and the
\* ledger keep, holds in every interleaving of the handlers.
THEOREM StockInvariantHolds == Spec => [](TypeInv /\ StockInv /\ NothingReturned)
<1>1. Init => TypeInv /\ StockInv /\ NothingReturned
  <2>. SUFFICES ASSUME Init PROVE TypeInv /\ StockInv /\ NothingReturned
    OBVIOUS
  <2>1. Opening(Nothing) /\ \A r \in Rows : Nothing[r] \in Nat /\ Nothing[r] <= InitialStock[r]
    BY StoreAssumption DEF Init, StoreInit, Nothing
  <2>2. StockInv
    BY <2>1, StockInvInit
  <2>3. NothingReturned
    BY <2>1 DEF Opening, Nothing, MovementTypes, NothingReturned
  <2>. QED
    BY <2>2, <2>3, TypeInit
<1>2. TypeInv /\ StockInv /\ NothingReturned /\ [Next]_vars
        => (TypeInv /\ StockInv /\ NothingReturned)'
  BY TypeStep, StockInvStep, NothingReturnedStep
<1>. QED
  BY <1>1, <1>2, PTL DEF Spec

\* So on_hand is what was received, in the rows and in what receipts computed.
LEMMA OnHandReceived ==
  ASSUME TypeInv, StockInv, NothingReturned
  PROVE  /\ \A r \in Rows : inventory[r].on_hand = movements["RECEIPT"][r]
         /\ \A w \in Workers :
               pc[w] = "store" =>
                   image[w][receipt[w].at].on_hand =
                       inventory[receipt[w].at].on_hand + receipt[w].quantity
<1>1. ASSUME NEW r \in Rows
      PROVE  /\ movements["RECEIPT"][r] \in Nat
             /\ \A n \in Int : Explained(r, n) => n = movements["RECEIPT"][r]
  <2>1. movements["RECEIPT"][r] \in Nat /\ movements["RETURN"][r] = 0
    BY DEF TypeInv, Typed, StoreTypeOK, MovementTypes, NothingReturned
  <2>. QED
    BY <2>1 DEF Explained
<1>2. \A r \in Rows : inventory[r].on_hand \in Int /\ Explained(r, inventory[r].on_hand)
  BY DEF StockInv, RowOK, TypeInv, Typed, StoreTypeOK, Quantities
<1>3. ASSUME NEW w \in Workers, pc[w] = "store"
      PROVE  image[w][receipt[w].at].on_hand =
                 inventory[receipt[w].at].on_hand + receipt[w].quantity
  <2>0. receipt[w] \in Receipts
    BY <1>3 DEF TypeInv, LocalsOK, ReceiptSteps
  <2>1. receipt[w].at \in Rows /\ receipt[w].quantity \in Nat \ {0}
    BY <2>0, WarehousesAssumption DEF Receipts
  <2>2. image[w][receipt[w].at].on_hand \in Int
    BY <2>1 DEF TypeInv, Typed, StoreTypeOK, Quantities
  <2>3. Explained(receipt[w].at, image[w][receipt[w].at].on_hand - receipt[w].quantity)
    BY <1>3 DEF StockInv, SessionOK, ReceiptOK
  <2>. QED
    BY <1>1, <1>2, <2>1, <2>2, <2>3
<1>. QED
  BY <1>1, <1>2, <1>3

-----------------------------------------------------------------------------
(***************************************************************************)
(* What follows for the stock and its ledger.                              *)
(***************************************************************************)

\* Reservations minus releases of the ledger are what is reserved.
THEOREM ReservedCorrect == Spec => []ReservedMatchesMovements
<1>1. TypeInv /\ StockInv => ReservedMatchesMovements
  BY DEF StockInv, RowOK, ReservedMatchesMovements
<1>. QED
  BY <1>1, StockInvariantHolds, PTL

\* Receipts of the ledger are what is on hand: no receipt loses another.
THEOREM OnHandCorrect == Spec => []OnHandMatchesReceipts
<1>1. TypeInv /\ StockInv /\ NothingReturned => OnHandMatchesReceipts
  BY OnHandReceived DEF OnHandMatchesReceipts
<1>. QED
  BY <1>1, StockInvariantHolds, PTL

\* Never is more promised to customers than was received.
THEOREM NeverOversold == Spec => []NoOversell
<1>1. TypeInv /\ StockInv /\ NothingReturned => NoOversell
  <2>. SUFFICES ASSUME TypeInv, StockInv, NothingReturned, NEW r \in Rows
                PROVE  movements["RESERVATION"][r]
                         <= movements["RECEIPT"][r] + movements["RELEASE"][r]
    BY DEF NoOversell
  <2>1. RowOK(r) /\ inventory[r].on_hand = movements["RECEIPT"][r]
    BY OnHandReceived DEF StockInv
  <2>2. /\ inventory[r] \in Quantities
        /\ movements["RESERVATION"][r] \in Nat
        /\ movements["RELEASE"][r] \in Nat
        /\ movements["RECEIPT"][r] \in Nat
    BY DEF TypeInv, Typed, StoreTypeOK, MovementTypes
  <2>. QED
    BY <2>1, <2>2 DEF RowOK, Balanced, Quantities
<1>. QED
  BY <1>1, StockInvariantHolds, PTL

\* The handlers that lock before they validate never meet a CHECK constraint:
\* what they write is balanced because what they locked was.
THEOREM ValidationSuffices == Spec => []ValidatedBeforeChecks
<1>1. ASSUME NEW row \in Quantities, NEW n \in Nat, Balanced(row)
      PROVE  /\ n <= row.available => Balanced(Take(row, n))
             /\ n <= row.reserved => Balanced(GiveBack(row, n))
  BY <1>1 DEF Balanced, Take, GiveBack, Quantities
<1>2. TypeInv /\ StockInv => ValidatedBeforeChecks
  <2>. SUFFICES ASSUME TypeInv, StockInv, NEW w \in Workers
                PROVE  /\ pc[w] = "allocate" => PassesChecks(w, "RESERVATION")
                       /\ pc[w] = "release" => PassesChecks(w, "RELEASE")
    BY DEF ValidatedBeforeChecks
  <2>1. ASSUME NEW r \in Rows
        PROVE  /\ inventory[r] \in Quantities /\ posted[w][r] \in Nat
               /\ Balanced(inventory[r])
    BY DEF TypeInv, Typed, StoreTypeOK, StockInv, RowOK
  <2>2. CASE pc[w] = "allocate"
    BY <1>1, <2>1, <2>2, PendingWithin, WrittenByOrder DEF PassesChecks
  <2>3. CASE pc[w] = "release"
    BY <1>1, <2>1, <2>3, PendingWithin, WrittenByCancel DEF PassesChecks
  <2>. QED
    BY <2>2, <2>3
<1>. QED
  BY <1>2, StockInvariantHolds, PTL

-----------------------------------------------------------------------------
(***************************************************************************)
(* How a step changes the stock.                                           *)
(***************************************************************************)
Moved(type, Change(_, _), amount) ==
    /\ inventory' = [r \in Rows |-> Change(inventory[r], amount[r])]
    /\ movements' = [movements EXCEPT ![type] = [r \in Rows |-> @[r] + amount[r]]]

\* What is taken from a row, by whoever has it locked or has waited for its
\* lock, was available.
Reserving(amount) ==
    /\ Moved("RESERVATION", Take, amount)
    /\ \A r \in Rows : amount[r] <= inventory[r].available

Releasing(amount) ==
    /\ Moved("RELEASE", GiveBack, amount)
    /\ \A r \in Rows : amount[r] <= inventory[r].reserved

Only(r, n) == [s \in Rows |-> IF s = r THEN n ELSE 0]

\* What a manual operation changes in the tables.
LEMMA ManualChange ==
  ASSUME TypeInv, StockInv, NEW r \in Rows, NEW n \in ManualQuantities
  PROVE  /\ Only(r, n) \in [Rows -> Nat]
         /\ Reserve(r, n) => Reserving(Only(r, n))
         /\ Release(r, n) => Releasing(Only(r, n))
<1>1. /\ n \in Nat /\ inventory \in [Rows -> Quantities]
      /\ movements \in [MovementTypes -> [Rows -> Nat]]
  BY InventoryAssumption DEF TypeInv, Typed, StoreTypeOK
<1>2. Only(r, n) \in [Rows -> Nat]
  BY <1>1 DEF Only
<1>3. ASSUME NEW s \in Rows
      PROVE  /\ Take(inventory[s], 0) = inventory[s]
             /\ GiveBack(inventory[s], 0) = inventory[s]
             /\ inventory[s].available \in Nat /\ inventory[s].reserved \in Nat
  BY <1>1, RowFacts DEF Quantities
<1>4. ASSUME NEW type \in MovementTypes
      PROVE  [movements EXCEPT ![type][r] = @ + n]
               = [movements EXCEPT ![type] = [s \in Rows |-> @[s] + Only(r, n)[s]]]
  <2>1. [movements[type] EXCEPT ![r] = @ + n]
          = [s \in Rows |-> movements[type][s] + Only(r, n)[s]]
    BY <1>1 DEF Only
  <2>. QED
    BY <1>1, <2>1
<1>5. Reserve(r, n) => Reserving(Only(r, n))
  <2>1. SUFFICES ASSUME Reserve(r, n) PROVE Reserving(Only(r, n))
    OBVIOUS
  <2>2. inventory' = [s \in Rows |-> Take(inventory[s], Only(r, n)[s])]
    BY <1>1, <1>3, <2>1 DEF Reserve, Only
  <2>3. \A s \in Rows : Only(r, n)[s] <= inventory[s].available
    BY <1>1, <1>3, <2>1 DEF Reserve, Only
  <2>. QED
    BY <1>4, <2>1, <2>2, <2>3 DEF Reserve, Reserving, Moved, MovementTypes
<1>6. Release(r, n) => Releasing(Only(r, n))
  <2>1. SUFFICES ASSUME Release(r, n) PROVE Releasing(Only(r, n))
    OBVIOUS
  <2>2. inventory' = [s \in Rows |-> GiveBack(inventory[s], Only(r, n)[s])]
    BY <1>1, <1>3, <2>1 DEF Release, Only
  <2>3. \A s \in Rows : Only(r, n)[s] <= inventory[s].reserved
    BY <1>1, <1>3, <2>1 DEF Release, Only
  <2>. QED
    BY <1>4, <2>1, <2>2, <2>3 DEF Release, Releasing, Moved, MovementTypes
<1>. QED
  BY <1>2, <1>5, <1>6

\* What the commit of an order or a cancellation changes in the tables.
LEMMA CommitChange ==
  ASSUME TypeInv, StockInv, NEW w \in Workers
  PROVE  /\ posted[w] \in [Rows -> Nat]
         /\ CommitOrder(w) => Reserving(posted[w])
         /\ CommitCancel(w) => Releasing(posted[w])
<1>1. posted[w] \in [Rows -> Nat]
  BY DEF TypeInv, Typed, StoreTypeOK
<1>2. CommitOrder(w) => Reserving(posted[w])
  BY PendingWithin, WrittenByOrder DEF CommitOrder, Commit, Reserving, Moved
<1>3. CommitCancel(w) => Releasing(posted[w])
  BY PendingWithin, WrittenByCancel DEF CommitCancel, Commit, Releasing, Moved
<1>. QED
  BY <1>1, <1>2, <1>3

\* What the commit of a receipt changes in the tables.
LEMMA ReceiptChange ==
  ASSUME TypeInv, StockInv, NEW w \in Workers, CommitReceipt(w)
  PROVE  /\ receipt[w].at \in Rows /\ receipt[w].quantity \in Nat \ {0}
         /\ rowLock[receipt[w].at] = NoWorker
         /\ inventory' = [inventory EXCEPT ![receipt[w].at] = Stored(w, receipt[w].at)]
         /\ movements' = [movements EXCEPT !["RECEIPT"][receipt[w].at]
                                              = @ + receipt[w].quantity]
<1>1. /\ pc[w] = "store" /\ Commit(w, "RECEIPT")
      /\ rowLock[receipt[w].at] = NoWorker
  BY DEF CommitReceipt, AtRow
<1>2. /\ receipt[w].at \in Rows /\ receipt[w].quantity \in Nat \ {0}
      /\ inventory' = [inventory EXCEPT ![receipt[w].at] = Stored(w, receipt[w].at)]
  BY <1>1, WrittenByReceipt DEF Commit, Receipts
<1>3. movements \in [MovementTypes -> [Rows -> Nat]]
  BY DEF TypeInv, Typed, StoreTypeOK
<1>4. \A r \in Rows : posted[w][r] = IF r = receipt[w].at THEN receipt[w].quantity ELSE 0
  BY <1>1 DEF StockInv, SessionOK, ReceiptOK
<1>5. [r \in Rows |-> movements["RECEIPT"][r] + posted[w][r]]
        = [movements["RECEIPT"] EXCEPT ![receipt[w].at] = @ + receipt[w].quantity]
  BY <1>2, <1>3, <1>4 DEF MovementTypes
<1>6. movements' = [movements EXCEPT !["RECEIPT"][receipt[w].at] = @ + receipt[w].quantity]
  BY <1>1, <1>3, <1>5 DEF Commit, MovementTypes
<1>. QED
  BY <1>1, <1>2, <1>6

-----------------------------------------------------------------------------

\* A row one session has locked is changed by no other session.
THEOREM LocksRespected == Spec => LockedRowsStable
<1>. DEFINE Stable == \A r \in Rows :
                         rowLock[r] # NoWorker /\ inventory'[r] # inventory[r]
                             => pc'[rowLock[r]] = "idle"
<1>1. ASSUME TypeInv, StockInv, Next
      PROVE  Stable
  <2>1. CASE Kept
    BY <2>1 DEF Kept
  <2>2. ASSUME NEW r \in Rows, NEW n \in ManualQuantities, Reserve(r, n) \/ Release(r, n)
        PROVE  Stable
    <3>1. /\ rowLock[r] = NoWorker
          /\ \A s \in Rows \ {r} : inventory'[s] = inventory[s]
      BY <1>1, <2>2 DEF Reserve, Release, TypeInv, Typed, StoreTypeOK
    <3>. QED
      BY <3>1
  <2>3. ASSUME NEW w \in Workers, CommitOrder(w) \/ CommitCancel(w)
        PROVE  Stable
    <3>1. /\ \E type \in MovementTypes : Commit(w, type)
          /\ pc[w] \in LockingSteps
      BY <2>3 DEF CommitOrder, CommitCancel, MovementTypes, LockingSteps
    <3>2. pc'[w] = "idle"
      BY <1>1, <3>1 DEF Commit, EndSession, TypeInv, Typed
    <3>3. ASSUME NEW r \in Rows, rowLock[r] \notin {w, NoWorker}
          PROVE  inventory'[r] = inventory[r]
      BY <1>1, <3>1, <3>3, LockExcludes DEF Commit, Written
    <3>. QED
      BY <3>2, <3>3
  <2>4. ASSUME NEW w \in Workers, CommitReceipt(w)
        PROVE  Stable
    <3>1. /\ rowLock[receipt[w].at] = NoWorker
          /\ inventory' = [inventory EXCEPT ![receipt[w].at] = Stored(w, receipt[w].at)]
      BY <1>1, <2>4, ReceiptChange
    <3>. QED
      BY <1>1, <3>1 DEF TypeInv, Typed, StoreTypeOK
  <2>. QED
    BY <1>1, <2>1, <2>2, <2>3, <2>4, WhoChangesStock
<1>2. TypeInv /\ StockInv /\ [Next]_vars => [Stable]_vars
  BY <1>1
<1>. QED
  BY <1>2, StockInvariantHolds, PTL DEF Spec, LockedRowsStable

-----------------------------------------------------------------------------
(***************************************************************************)
(* The operations keep the promises of StockAccount.                       *)
(***************************************************************************)

\* A reservation is one of StockAccount.
LEMMA ReservingIsReserveStock ==
  ASSUME TypeInv, NEW amount \in [Rows -> Nat], Reserving(amount)
  PROVE  Account!ReserveStock
<1>. DEFINE taken == [r \in Rows |-> inventory'[r].reserved - inventory[r].reserved]
<1>1. ASSUME NEW r \in Rows
      PROVE  /\ inventory'[r] = Take(inventory[r], amount[r])
             /\ inventory[r] \in Quantities /\ amount[r] \in Nat
             /\ amount[r] <= inventory[r].available
  BY DEF Reserving, Moved, TypeInv, Typed, StoreTypeOK
<1>2. ASSUME NEW r \in Rows
      PROVE  inventory'[r].reserved - inventory[r].reserved = amount[r]
  <2>1. inventory'[r].reserved = inventory[r].reserved + amount[r]
    <3>1. inventory'[r] = Take(inventory[r], amount[r])
      BY <1>1
    <3>. QED
      BY <3>1 DEF Take
  <2>2. inventory[r].reserved \in Nat /\ amount[r] \in Nat
    BY <1>1 DEF Quantities
  <2>. QED
    BY <2>1, <2>2
<1>3. taken = amount
  BY <1>2
<1>4. \A r \in Rows : amount[r] \in 0..inventory[r].available
  BY <1>1 DEF Quantities
<1>5. inventory' = [r \in Rows |-> [on_hand |-> inventory[r].on_hand,
                                   available |-> inventory[r].available - amount[r],
                                   reserved |-> inventory[r].reserved + amount[r]]]
  BY DEF Reserving, Moved, Take
<1>. HIDE DEF taken
<1>6. /\ \A r \in Rows : taken[r] \in 0..inventory[r].available
      /\ inventory' = [r \in Rows |-> [on_hand |-> inventory[r].on_hand,
                                      available |-> inventory[r].available - taken[r],
                                      reserved |-> inventory[r].reserved + taken[r]]]
      /\ Account!Entered("RESERVATION", taken)
  BY <1>3, <1>4, <1>5 DEF Reserving, Moved, Account!Entered
<1>. QED
  BY <1>6 DEF Account!ReserveStock, taken

\* A release is one of StockAccount.
LEMMA ReleasingIsReleaseReserved ==
  ASSUME TypeInv, NEW amount \in [Rows -> Nat], Releasing(amount)
  PROVE  Account!ReleaseReserved
<1>. DEFINE given == [r \in Rows |-> inventory[r].reserved - inventory'[r].reserved]
<1>1. ASSUME NEW r \in Rows
      PROVE  /\ inventory'[r] = GiveBack(inventory[r], amount[r])
             /\ inventory[r] \in Quantities /\ amount[r] \in Nat
             /\ amount[r] <= inventory[r].reserved
  BY DEF Releasing, Moved, TypeInv, Typed, StoreTypeOK
<1>2. ASSUME NEW r \in Rows
      PROVE  inventory[r].reserved - inventory'[r].reserved = amount[r]
  <2>1. inventory'[r].reserved = inventory[r].reserved - amount[r]
    <3>1. inventory'[r] = GiveBack(inventory[r], amount[r])
      BY <1>1
    <3>. QED
      BY <3>1 DEF GiveBack
  <2>2. inventory[r].reserved \in Nat /\ amount[r] \in Nat
    BY <1>1 DEF Quantities
  <2>. QED
    BY <2>1, <2>2
<1>3. given = amount
  BY <1>2
<1>4. \A r \in Rows : amount[r] \in 0..inventory[r].reserved
  BY <1>1 DEF Quantities
<1>5. inventory' = [r \in Rows |-> [on_hand |-> inventory[r].on_hand,
                                   available |-> inventory[r].available + amount[r],
                                   reserved |-> inventory[r].reserved - amount[r]]]
  BY DEF Releasing, Moved, GiveBack
<1>. HIDE DEF given
<1>6. /\ \A r \in Rows : given[r] \in 0..inventory[r].reserved
      /\ inventory' = [r \in Rows |-> [on_hand |-> inventory[r].on_hand,
                                      available |-> inventory[r].available + given[r],
                                      reserved |-> inventory[r].reserved - given[r]]]
      /\ Account!Entered("RELEASE", given)
  BY <1>3, <1>4, <1>5 DEF Releasing, Moved, Account!Entered
<1>. QED
  BY <1>6 DEF Account!ReleaseReserved, given

\* A receipt is one of StockAccount.
LEMMA ReceiptIsReceiveGoods ==
  ASSUME TypeInv, StockInv, NothingReturned, NEW w \in Workers, CommitReceipt(w)
  PROVE  \E r \in Rows : Account!ReceiveGoods(r)
<1>. DEFINE at == receipt[w].at
            n == receipt[w].quantity
<1>1. /\ at \in Rows /\ n \in Nat \ {0}
      /\ inventory' = [inventory EXCEPT ![at] = Stored(w, at)]
      /\ movements' = [movements EXCEPT !["RECEIPT"][at] = @ + n]
  BY ReceiptChange
<1>2. /\ inventory[at] \in Quantities /\ image[w][at] \in Quantities
      /\ image[w][at].on_hand = inventory[at].on_hand + n
  BY <1>1, OnHandReceived DEF CommitReceipt, AtRow, TypeInv, Typed, StoreTypeOK
<1>3. inventory'[at] = Stored(w, at)
  BY <1>1 DEF TypeInv, Typed, StoreTypeOK
<1>4. Balanced(inventory'[at])
  BY <1>1 DEF CommitReceipt, Commit, PassesChecks
<1>5. /\ inventory'[at].on_hand - inventory[at].on_hand = n
      /\ inventory'[at].available = image[w][at].available
      /\ image[w][at].available \in 0..(inventory[at].on_hand + n - inventory[at].reserved)
  BY <1>1, <1>2, <1>3, <1>4 DEF Stored, Balanced, Quantities
<1>6. Stored(w, at) = [on_hand |-> inventory[at].on_hand + n,
                       available |-> inventory'[at].available,
                       reserved |-> inventory[at].reserved]
  BY <1>2, <1>5 DEF Stored
<1>. DEFINE added == inventory'[at].on_hand - inventory[at].on_hand
<1>7. added = n
  BY <1>5
<1>. HIDE DEF n, added
<1>8. added > 0
  BY <1>1, <1>7
<1>9. inventory'[at].available \in 0..(inventory[at].on_hand + added - inventory[at].reserved)
  BY <1>5, <1>7
<1>10. inventory' = [inventory EXCEPT ![at] = [on_hand |-> inventory[at].on_hand + added,
                                             available |-> inventory'[at].available,
                                             reserved |-> inventory[at].reserved]]
  BY <1>1, <1>6, <1>7
<1>11. movements' = [movements EXCEPT !["RECEIPT"][at] = @ + added]
  BY <1>1, <1>7
<1>12. Account!ReceiveGoods(at)
  BY <1>8, <1>9, <1>10, <1>11 DEF Account!ReceiveGoods, added
<1>. QED
  BY <1>1, <1>12

\* Reservations and releases are all-or-nothing over their rows, within what
\* is available and reserved, and entered in the ledger in the same step;
\* receipts add exactly what was delivered.
THEOREM AccountKept == Spec => KeepsAccount
<1>1. Init => Account!AccountInit
  <2>. SUFFICES ASSUME Init PROVE Account!AccountInit
    OBVIOUS
  <2>1. \A r \in Rows : InitialStock[r] - Nothing[r] = InitialStock[r] /\ Nothing[r] = 0
    BY StoreAssumption DEF Nothing
  <2>2. inventory = [r \in Rows |-> [on_hand |-> InitialStock[r],
                                    available |-> InitialStock[r], reserved |-> 0]]
    BY <2>1 DEF Init, StoreInit, Opening
  <2>3. movements = [t \in {"RECEIPT", "RESERVATION", "RELEASE", "RETURN"} |->
                        IF t = "RECEIPT" THEN InitialStock ELSE [r \in Rows |-> 0]]
    BY DEF Init, StoreInit, Opening, Nothing, MovementTypes
  <2>. QED
    BY <2>2, <2>3 DEF Account!AccountInit
<1>2. TypeInv /\ StockInv /\ NothingReturned /\ [Next]_vars
        => [Account!AccountNext]_(Account!accountVars)
  <2>. SUFFICES ASSUME TypeInv, StockInv, NothingReturned, [Next]_vars
                PROVE  Account!AccountNext \/ UNCHANGED Account!accountVars
    OBVIOUS
  <2>1. CASE Kept
    BY <2>1 DEF Kept, Account!accountVars
  <2>2. ASSUME NEW r \in Rows, NEW n \in ManualQuantities, Reserve(r, n) \/ Release(r, n)
        PROVE  Account!AccountNext
    BY <2>2, ManualChange, ReservingIsReserveStock, ReleasingIsReleaseReserved
    DEF Account!AccountNext
  <2>3. ASSUME NEW w \in Workers, CommitOrder(w) \/ CommitCancel(w)
        PROVE  Account!AccountNext
    BY <2>3, CommitChange, ReservingIsReserveStock, ReleasingIsReleaseReserved
    DEF Account!AccountNext
  <2>4. ASSUME NEW w \in Workers, CommitReceipt(w)
        PROVE  Account!AccountNext
    BY <2>4, ReceiptIsReceiveGoods DEF Account!AccountNext
  <2>. QED
    BY <2>1, <2>2, <2>3, <2>4, WhoChangesStock
<1>. QED
  BY <1>1, <1>2, StockInvariantHolds, PTL DEF Spec, KeepsAccount, Account!AccountSpec
=============================================================================
