--------------------------- MODULE CatalogProofs ---------------------------
(***************************************************************************)
(* Proofs about Catalog, for any sessions and rows: types, unique keys,    *)
(* and what the first receipt of a product in a warehouse relies on.       *)
(***************************************************************************)
EXTENDS Catalog, TLAPS

\* The keys that requests of their own create are no inventory rows.
LEMMA EntryFacts ==
    /\ \A e \in Created : e \in Entries /\ e[1] # "inventory"
    /\ \A r \in Rows : /\ InventoryRow(r) \in Entries /\ InventoryRow(r)[1] = "inventory"
                       /\ Unique(InventoryRow(r)) /\ InventoryRow(r) # NoEntry
    /\ \A r, s \in Rows : InventoryRow(r) = InventoryRow(s) => r = s
  BY CatalogAssumption DEF Created, Entries, InventoryRow, Unique

CatalogSteps == {"idle", "add", "save"} \cup ReceiptSteps

\* What the position of a session says about it.  In a receipt it has locked
\* the warehouse and is about to insert the row if there is none.
SessionOK(w) ==
    /\ pc[w] \in ReceiptSteps => receipt[w] \in Receipts
    /\ pc[w] \in {"add", "save"} => entry[w] \in Created
    /\ pc[w] \in {"idle", "receive"} => entry[w] = NoEntry
    /\ pc[w] = "save" => w \in inserted
    /\ w \in inserted => entry[w] # NoEntry
    /\ pc[w] = "store" =>
          /\ entry[w] \in {NoEntry, InventoryRow(receipt[w].at)}
          /\ whLock[Site(w)] = w
          /\ entry[w] = NoEntry <=> Exists(InventoryRow(receipt[w].at))

TypeInv == CatalogTypeOK /\ \A w \in Workers : SessionOK(w)

\* A step of the session w.
Act(w) ==
    \/ \E e \in Created : CreateEntry(w, e)
    \/ DeliverListed(w) \/ CatalogStep(w) \/ AbortEntry(w)

\* A step is one of a session, a manual operation, or changes nothing.
LEMMA Acts ==
    ASSUME [CatalogNext]_allVars
    PROVE  \/ \E w \in Workers : Act(w)
           \/ InventoryNext /\ UNCHANGED <<warehouseVars, catalogVars>>
           \/ UNCHANGED allVars
  BY DEF CatalogNext, Act

-----------------------------------------------------------------------------

\* The end of a transaction keeps the types.
LEMMA EndTypes ==
    ASSUME CatalogTypeOK, NEW w \in Workers, EndSession(w), EndEntry(w),
           EndReceipt(w) \/ UNCHANGED receipt,
           inventory' \in [Rows -> Quantities],
           movements' \in [MovementTypes -> [Rows -> Nat]],
           used' \in [Warehouses -> Nat],
           catalog' \in [Entries -> Nat]
    PROVE  CatalogTypeOK'
  <1>1. NoImage \in [Rows -> Quantities] /\ Nothing \in [Rows -> Nat]
    BY DEF NoImage, Nothing, Quantities
  <1>2. StoreTypeOK'
    BY <1>1 DEF CatalogTypeOK, StoreTypeOK, EndSession
  <1>3. WarehousesTypeOK'
    BY DEF CatalogTypeOK, WarehousesTypeOK, EndReceipt
  <1> QED  BY <1>2, <1>3 DEF CatalogTypeOK, EndSession, EndEntry

\* What a receipt writes.
LEMMA WrittenTypes ==
    ASSUME CatalogTypeOK, NEW w \in Workers
    PROVE  Written(w, "RECEIPT") \in [Rows -> Quantities]
  <1>1. ASSUME NEW x \in Quantities, NEW y \in Quantities
        PROVE  [x EXCEPT !.reserved = y.reserved] \in Quantities
    BY DEF Quantities
  <1>2. ASSUME NEW r \in Rows
        PROVE  inventory[r] \in Quantities /\ image[w][r] \in Quantities
    BY DEF CatalogTypeOK, StoreTypeOK
  <1> QED  BY <1>1, <1>2 DEF Written

\* A session with a receipt at work.
LEMMA ReceiptTypes ==
    ASSUME TypeInv, NEW w \in Workers, pc[w] \in ReceiptSteps
    PROVE  /\ receipt[w].at \in Rows /\ receipt[w].quantity \in Nat \ {0}
           /\ receipt[w].seen \in Nat /\ Site(w) \in Warehouses
  BY WarehousesAssumption DEF TypeInv, SessionOK, Receipts, Site, Rows

\* Every step of a session keeps the types.
LEMMA ActTypes ==
    ASSUME TypeInv, NEW w \in Workers, Act(w)
    PROVE  CatalogTypeOK'
  <1> USE DEF TypeInv
  <1>t. /\ inventory \in [Rows -> Quantities]
        /\ movements \in [MovementTypes -> [Rows -> Nat]]
        /\ image \in [Workers -> [Rows -> Quantities]]
        /\ posted \in [Workers -> [Rows -> Nat]]
        /\ used \in [Warehouses -> Nat] /\ catalog \in [Entries -> Nat]
        /\ requests \in Nat /\ requests <= MaxRequests
        /\ entry \in [Workers -> Entries \cup {NoEntry}]
    BY StoreAssumption DEF CatalogTypeOK, StoreTypeOK, WarehousesTypeOK
  <1>1. ASSUME NEW step \in CatalogSteps, Accept(w, step)
        PROVE  StoreTypeOK' /\ pc' \in [Workers -> CatalogSteps]
    BY <1>1, StoreAssumption DEF Accept, CatalogTypeOK, StoreTypeOK, CatalogSteps
  <1>2. ASSUME NEW e \in Created, CreateEntry(w, e) PROVE CatalogTypeOK'
    <2>1. StoreTypeOK' /\ pc' \in [Workers -> CatalogSteps]
      BY <1>1, <1>2 DEF CreateEntry, CatalogSteps
    <2> QED
      BY <1>2, <2>1, EntryFacts DEF CreateEntry, CatalogTypeOK, WarehousesTypeOK,
         warehouseVars, CatalogSteps
  <1>3. CASE DeliverListed(w)
    <2>1. PICK r \in Rows, q \in Deliveries : GetWarehouse(w, r, q) /\ UNCHANGED catalogVars
      BY <1>3 DEF DeliverListed
    <2>2. StoreTypeOK' /\ pc' \in [Workers -> CatalogSteps]
      BY <1>1, <2>1 DEF GetWarehouse, CatalogSteps, ReceiptSteps
    <2>3. [at |-> r, quantity |-> q, seen |-> used[r[2]]] \in Receipts
      BY <1>t DEF Receipts, Rows
    <2>4. WarehousesTypeOK'
      BY <2>1, <2>3 DEF GetWarehouse, CatalogTypeOK, WarehousesTypeOK
    <2> QED
      BY <2>1, <2>2, <2>4 DEF CatalogTypeOK, CatalogSteps, catalogVars
  <1>4. CASE InsertEntry(w)
    BY <1>4 DEF InsertEntry, CatalogTypeOK, StoreTypeOK, WarehousesTypeOK, storeVars,
       warehouseVars
  <1>5. CASE ReferenceEntry(w)
    <2>1. Sites(w) \subseteq Warehouses
      BY DEF Sites
    <2> QED
      BY <1>5, <2>1 DEF ReferenceEntry, CatalogTypeOK, StoreTypeOK, WarehousesTypeOK,
         warehouseVars, catalogVars
  <1>6. CASE CommitEntry(w)
    <2>1. entry[w] \in Entries
      BY <1>6, EntryFacts DEF CommitEntry, SessionOK
    <2>2. catalog' \in [Entries -> Nat]
      BY <1>6, <1>t, <2>1 DEF CommitEntry
    <2> QED  BY <1>6, <1>t, <2>2, EndTypes DEF CommitEntry, warehouseVars
  <1>7. CASE RefuseEntry(w) \/ AbortEntry(w)
    BY <1>7, <1>t, EndTypes DEF RefuseEntry, AbortEntry, Rollback
  <1>8. CASE RefuseStock(w)
    BY <1>8, <1>t, EndTypes DEF RefuseStock, RefuseReceipt, FailReceipt, Rollback
  <1>9. CASE FindRow(w)
    <2> DEFINE r == receipt[w].at
               q == receipt[w].quantity
    <2>1. pc[w] = "receive" /\ r \in Rows /\ q \in Nat /\ Site(w) \in Warehouses
      BY <1>9, ReceiptTypes DEF FindRow, LockWarehouse, ReceiptSteps
    <2>2. Add(inventory[r], q) \in Quantities
      BY <1>t, <2>1 DEF Add, Quantities
    <2>3. /\ image' \in [Workers -> [Rows -> Quantities]]
          /\ posted' \in [Workers -> [Rows -> Nat]]
      BY <1>9, <1>t, <2>1, <2>2 DEF FindRow, LockWarehouse
    <2>4. StoreTypeOK' /\ pc' \in [Workers -> CatalogSteps] /\ WarehousesTypeOK'
      BY <1>9, <2>3 DEF FindRow, LockWarehouse, CatalogTypeOK, StoreTypeOK, CatalogSteps,
         ReceiptSteps, WarehousesTypeOK, warehouseVars
    <2>5. entry' \in [Workers -> Entries \cup {NoEntry}]
      BY <1>9, <1>t, <2>1, EntryFacts DEF FindRow
    <2> QED  BY <1>9, <2>4, <2>5 DEF FindRow, CatalogTypeOK, CatalogSteps
  <1>10. CASE StoreReceipt(w)
    <2>1. pc[w] = "store" /\ Commit(w, "RECEIPT") /\ EndReceipt(w) /\ EndEntry(w)
      BY <1>10 DEF StoreReceipt, CommitReceipt, AtRow
    <2>2. inventory' \in [Rows -> Quantities]
      BY <2>1, WrittenTypes DEF Commit
    <2>3. movements' \in [MovementTypes -> [Rows -> Nat]]
      <3>1. ASSUME NEW type \in MovementTypes
            PROVE  [movements EXCEPT ![type] = [r \in Rows |-> @[r] + posted[w][r]]]
                       \in [MovementTypes -> [Rows -> Nat]]
        BY <1>t
      <3> QED  BY <2>1, <3>1 DEF Commit, MovementTypes
    <2>4. used' \in [Warehouses -> Nat]
      BY <1>10, <1>t, <2>1, ReceiptTypes DEF StoreReceipt, CommitReceipt, ReceiptSteps
    <2>5. catalog' \in [Entries -> Nat]
      BY <1>10, <1>t DEF StoreReceipt
    <2> QED  BY <2>1, <2>2, <2>3, <2>4, <2>5, EndTypes DEF Commit
  <1> QED
    BY <1>2, <1>3, <1>4, <1>5, <1>6, <1>7, <1>8, <1>9, <1>10 DEF Act, CatalogStep

\* So does a manual operation.
LEMMA ManualTypes ==
    ASSUME TypeInv, InventoryNext, UNCHANGED <<warehouseVars, catalogVars>>
    PROVE  /\ CatalogTypeOK'
           /\ UNCHANGED <<whLock, pc>>
  <1>1. PICK r \in Rows, q \in ManualQuantities : Reserve(r, q) \/ Release(r, q)
    BY DEF InventoryNext
  <1>2. q \in Nat
    BY InventoryAssumption
  <1>3. inventory[r] \in Quantities
    BY DEF TypeInv, CatalogTypeOK, StoreTypeOK
  <1>4. inventory' \in [Rows -> Quantities]
    <2>1. Reserve(r, q) => Take(inventory[r], q) \in Quantities
      BY <1>2, <1>3 DEF Reserve, Take, Quantities
    <2>2. Release(r, q) => GiveBack(inventory[r], q) \in Quantities
      BY <1>2, <1>3 DEF Release, GiveBack, Quantities
    <2> QED
      BY <1>1, <2>1, <2>2 DEF Reserve, Release, TypeInv, CatalogTypeOK, StoreTypeOK
  <1>5. movements' \in [MovementTypes -> [Rows -> Nat]]
    <2>1. ASSUME NEW type \in MovementTypes
          PROVE  [movements EXCEPT ![type][r] = @ + q] \in [MovementTypes -> [Rows -> Nat]]
      BY <1>2 DEF TypeInv, CatalogTypeOK, StoreTypeOK
    <2> QED  BY <1>1, <2>1 DEF Reserve, Release, MovementTypes
  <1>6. requests' \in 0..MaxRequests
    BY <1>1, StoreAssumption DEF Reserve, Release, TypeInv, CatalogTypeOK, StoreTypeOK
  <1>7. UNCHANGED <<rowLock, whLock, whShare, pc, image, posted>>
    BY <1>1 DEF Reserve, Release
  <1> QED
    BY <1>4, <1>5, <1>6, <1>7 DEF TypeInv, CatalogTypeOK, StoreTypeOK, WarehousesTypeOK,
       warehouseVars, catalogVars

-----------------------------------------------------------------------------

(***************************************************************************)
(* What a step of a session leaves alone: the others, the warehouses they  *)
(* have locked, and the rows whose key it has not.                         *)
(***************************************************************************)
Framed(w) ==
    /\ \A v \in Workers \ {w} :
          /\ pc'[v] = pc[v] /\ receipt'[v] = receipt[v] /\ entry'[v] = entry[v]
          /\ v \in inserted' <=> v \in inserted
    /\ \A wh \in Warehouses : whLock[wh] \in Workers \ {w} => whLock'[wh] = whLock[wh]
    /\ \A e \in Entries :
          \/ catalog'[e] = catalog[e]
          \/ /\ catalog'[e] = catalog[e] + 1
             /\ e = entry[w] /\ w \in inserted
             /\ CommitEntry(w) \/ StoreReceipt(w)

\* Every step of a session is framed.
LEMMA Frame ==
    ASSUME TypeInv, NEW w \in Workers, Act(w)
    PROVE  Framed(w)
  <1> USE DEF TypeInv
  <1>t. /\ pc \in [Workers -> CatalogSteps]
        /\ receipt \in [Workers -> Receipts \cup {NoReceipt}]
        /\ entry \in [Workers -> Entries \cup {NoEntry}] /\ inserted \subseteq Workers
        /\ whLock \in [Warehouses -> Workers \cup {NoWorker}]
        /\ catalog \in [Entries -> Nat]
    BY DEF CatalogTypeOK, StoreTypeOK, WarehousesTypeOK, CatalogSteps
  <1>1. EndSession(w) =>
            /\ \A v \in Workers \ {w} : pc'[v] = pc[v]
            /\ \A wh \in Warehouses : whLock[wh] # w => whLock'[wh] = whLock[wh]
    BY <1>t DEF EndSession
  <1>2. EndReceipt(w) => \A v \in Workers \ {w} : receipt'[v] = receipt[v]
    BY <1>t DEF EndReceipt
  <1>3. EndEntry(w) =>
            \A v \in Workers \ {w} : /\ entry'[v] = entry[v]
                                     /\ v \in inserted' <=> v \in inserted
    BY <1>t DEF EndEntry
  <1>4. CASE \E e \in Created : CreateEntry(w, e)
    BY <1>4, <1>t DEF CreateEntry, Accept, warehouseVars, Framed
  <1>5. CASE DeliverListed(w)
    BY <1>5, <1>t DEF DeliverListed, GetWarehouse, Accept, catalogVars, Framed
  <1>6. CASE InsertEntry(w)
    BY <1>6, <1>t DEF InsertEntry, storeVars, warehouseVars, Framed
  <1>7. CASE ReferenceEntry(w)
    BY <1>7, <1>t DEF ReferenceEntry, warehouseVars, catalogVars, Framed
  <1>8. CASE RefuseEntry(w) \/ AbortEntry(w) \/ RefuseStock(w)
    <2>1. EndSession(w) /\ EndReceipt(w) /\ EndEntry(w) /\ UNCHANGED catalog
      BY <1>8 DEF RefuseEntry, AbortEntry, RefuseStock, RefuseReceipt, FailReceipt, Rollback
    <2> QED  BY <1>1, <1>2, <1>3, <2>1 DEF Framed
  <1>9. CASE FindRow(w)
    <2>1. LockHolders(w) = {} /\ whLock' = [whLock EXCEPT ![Site(w)] = w]
      BY <1>9 DEF FindRow, LockWarehouse
    <2>2. \A wh \in Warehouses : whLock[wh] \in Workers \ {w} => whLock'[wh] = whLock[wh]
      BY <2>1, <1>t DEF LockHolders
    <2>3. \A v \in Workers \ {w} :
              /\ pc'[v] = pc[v] /\ receipt'[v] = receipt[v]
      BY <1>9, <1>t DEF FindRow, LockWarehouse, warehouseVars
    <2>4. /\ \A v \in Workers \ {w} : entry'[v] = entry[v]
          /\ UNCHANGED <<inserted, catalog>>
      BY <1>9, <1>t DEF FindRow
    <2> QED  BY <2>2, <2>3, <2>4 DEF Framed
  <1>10. CASE CommitEntry(w)
    <2>1. \A e \in Entries : catalog'[e] = IF e = entry[w] THEN catalog[e] + 1 ELSE catalog[e]
      BY <1>10, <1>t DEF CommitEntry
    <2>2. w \in inserted
      BY <1>10 DEF CommitEntry, SessionOK
    <2> QED
      BY <1>1, <1>3, <1>10, <2>1, <2>2 DEF CommitEntry, warehouseVars, Framed
  <1>11. CASE StoreReceipt(w)
    <2>1. EndSession(w) /\ EndReceipt(w) /\ EndEntry(w)
      BY <1>11 DEF StoreReceipt, CommitReceipt, Commit
    <2>2. \A e \in Entries :
              catalog'[e] = IF e = entry[w] THEN catalog[e] + 1 ELSE catalog[e]
      BY <1>11, <1>t, CatalogAssumption DEF StoreReceipt
    <2>3. entry[w] \in Entries => w \in inserted
      BY <1>11, CatalogAssumption DEF StoreReceipt
    <2> QED  BY <1>1, <1>2, <1>3, <1>11, <2>1, <2>2, <2>3 DEF Framed
  <1> QED
    BY <1>4, <1>5, <1>6, <1>7, <1>8, <1>9, <1>10, <1>11 DEF Act, CatalogStep

\* Two sessions cannot both store what the same warehouse receives.
LEMMA OneStores ==
    ASSUME TypeInv, NEW v \in Workers, NEW w \in Workers,
           pc[v] = "store", pc[w] = "store", Site(v) = Site(w)
    PROVE  v = w
  BY DEF TypeInv, SessionOK

\* A session that stores a new row is the only one at work on its key.
LEMMA OnlyInserter ==
    ASSUME TypeInv, NEW v \in Workers, NEW w \in Workers,
           pc[w] = "store", entry[w] # NoEntry, entry[v] = entry[w]
    PROVE  v = w
  <1>1. receipt[w].at \in Rows /\ entry[w] = InventoryRow(receipt[w].at)
    BY ReceiptTypes DEF TypeInv, SessionOK, ReceiptSteps
  <1>2. entry[v] \notin Created
    BY <1>1, EntryFacts
  <1>3. pc[v] = "store"
    BY <1>1, <1>2 DEF TypeInv, CatalogTypeOK, SessionOK, ReceiptSteps
  <1>4. receipt[v].at \in Rows /\ entry[v] = InventoryRow(receipt[v].at)
    BY <1>3, ReceiptTypes DEF TypeInv, SessionOK, ReceiptSteps
  <1>5. receipt[v].at = receipt[w].at
    BY <1>1, <1>4, EntryFacts
  <1> QED  BY <1>3, <1>5, OneStores DEF Site

\* The other sessions are not disturbed.
LEMMA OthersOK ==
    ASSUME TypeInv, NEW w \in Workers, Act(w), NEW v \in Workers \ {w}
    PROVE  SessionOK(v)'
  <1>1. Framed(w) /\ SessionOK(v)
    BY Frame DEF TypeInv
  <1>2. ASSUME pc[v] = "store"
        PROVE  /\ whLock'[Site(v)] = v
               /\ Exists(InventoryRow(receipt[v].at))'
                     <=> Exists(InventoryRow(receipt[v].at))
    <2>1. /\ receipt[v].at \in Rows /\ Site(v) \in Warehouses
          /\ InventoryRow(receipt[v].at) \in Entries
      BY <1>2, ReceiptTypes, EntryFacts DEF ReceiptSteps
    <2>2. whLock'[Site(v)] = v
      BY <1>1, <1>2, <2>1 DEF Framed, SessionOK
    <2> DEFINE e == InventoryRow(receipt[v].at)
    <2>3. catalog[e] \in Nat
      BY <2>1 DEF TypeInv, CatalogTypeOK
    <2>4. receipt'[v] = receipt[v]
      BY <1>1 DEF Framed
    <2>5. catalog'[e] = catalog[e]
      <3>1. SUFFICES ASSUME e = entry[w], CommitEntry(w) \/ StoreReceipt(w) PROVE FALSE
        BY <1>1, <2>1 DEF Framed
      <3>2. entry[w] \notin Created /\ entry[w] # NoEntry
        BY <3>1, <2>1, EntryFacts
      <3>3. StoreReceipt(w) /\ pc[w] = "store"
        BY <3>1, <3>2 DEF TypeInv, SessionOK, CommitEntry, StoreReceipt, CommitReceipt, AtRow
      <3>4. receipt[w].at \in Rows /\ e = InventoryRow(receipt[w].at)
        BY <3>1, <3>2, <3>3, ReceiptTypes DEF TypeInv, SessionOK, ReceiptSteps
      <3>5. receipt[w].at = receipt[v].at
        BY <2>1, <3>4, EntryFacts
      <3> QED  BY <1>2, <3>3, <3>5, OneStores DEF Site
    <2> QED  BY <2>2, <2>4, <2>5 DEF Exists
  <1>3. ASSUME pc[v] = "store" PROVE whLock'[Site(v)'] = v
    BY <1>1, <1>2, <1>3 DEF Framed, Site
  <1>4. ASSUME pc[v] = "store"
        PROVE  Exists(InventoryRow(receipt[v].at))'
                     <=> Exists(InventoryRow(receipt[v].at))
    BY <1>2, <1>4
  <1>5. /\ pc'[v] = pc[v] /\ receipt'[v] = receipt[v] /\ entry'[v] = entry[v]
        /\ v \in inserted' <=> v \in inserted
    BY <1>1 DEF Framed
  <1> QED  BY <1>1, <1>3, <1>4, <1>5 DEF SessionOK

\* A session that has ended is idle and has nothing left.
LEMMA EndedOK ==
    ASSUME TypeInv, NEW w \in Workers, EndSession(w), EndEntry(w)
    PROVE  SessionOK(w)'
  <1>1. /\ pc'[w] = "idle" /\ entry'[w] = NoEntry /\ w \notin inserted'
    BY DEF EndSession, EndEntry, TypeInv, CatalogTypeOK, StoreTypeOK
  <1> QED  BY <1>1 DEF SessionOK, ReceiptSteps

\* Nor is the session whose step it is.
LEMMA OwnOK ==
    ASSUME TypeInv, NEW w \in Workers, Act(w)
    PROVE  SessionOK(w)'
  <1>t. /\ pc \in [Workers -> CatalogSteps]
        /\ receipt \in [Workers -> Receipts \cup {NoReceipt}]
        /\ entry \in [Workers -> Entries \cup {NoEntry}]
        /\ whLock \in [Warehouses -> Workers \cup {NoWorker}]
        /\ catalog \in [Entries -> Nat]
        /\ used \in [Warehouses -> Nat]
        /\ SessionOK(w)
    BY DEF TypeInv, CatalogTypeOK, StoreTypeOK, WarehousesTypeOK, CatalogSteps
  <1>1. ASSUME NEW e \in Created, CreateEntry(w, e) PROVE SessionOK(w)'
    <2>1. /\ pc[w] = "idle" /\ pc'[w] = "add" /\ entry'[w] = e
          /\ UNCHANGED <<inserted>>
      BY <1>1, <1>t DEF CreateEntry, Accept
    <2> QED  BY <1>t, <2>1 DEF SessionOK, ReceiptSteps
  <1>2. CASE DeliverListed(w)
    <2>1. PICK r \in Rows, q \in Deliveries : GetWarehouse(w, r, q) /\ UNCHANGED catalogVars
      BY <1>2 DEF DeliverListed
    <2>2. [at |-> r, quantity |-> q, seen |-> used[r[2]]] \in Receipts
      BY <1>t DEF Receipts, Rows
    <2>3. /\ pc[w] = "idle" /\ pc'[w] = "receive" /\ receipt'[w] \in Receipts
          /\ UNCHANGED <<entry, inserted>>
      BY <1>t, <2>1, <2>2 DEF GetWarehouse, Accept, catalogVars
    <2> QED  BY <1>t, <2>3 DEF SessionOK, ReceiptSteps
  <1>3. CASE InsertEntry(w)
    <2>1. /\ UNCHANGED <<pc, receipt, entry, whLock, catalog>>
          /\ entry[w] # NoEntry
      BY <1>3 DEF InsertEntry, storeVars, warehouseVars
    <2>2. \A r \in Rows : Exists(InventoryRow(r))' <=> Exists(InventoryRow(r))
      BY <2>1 DEF Exists
    <2>3. pc[w] = "save" => w \in inserted'
      BY <1>3, <1>t DEF InsertEntry, SessionOK
    <2>4. Site(w)' = Site(w)
      BY <2>1 DEF Site
    <2> QED  BY <1>t, <2>1, <2>2, <2>3, <2>4 DEF SessionOK, Exists
  <1>4. CASE ReferenceEntry(w)
    <2>1. /\ pc[w] = "add" /\ pc'[w] = "save" /\ w \in inserted
          /\ UNCHANGED <<entry, inserted>>
      BY <1>4, <1>t DEF ReferenceEntry, catalogVars
    <2> QED  BY <1>t, <2>1 DEF SessionOK, ReceiptSteps
  <1>5. CASE \/ CommitEntry(w) \/ RefuseEntry(w) \/ StoreReceipt(w) \/ RefuseStock(w)
             \/ AbortEntry(w)
    BY <1>5, EndedOK DEF CommitEntry, RefuseEntry, StoreReceipt, RefuseStock, AbortEntry,
       CommitReceipt, RefuseReceipt, FailReceipt, Commit, Rollback
  <1>6. CASE FindRow(w)
    <2> DEFINE r == receipt[w].at
    <2>1. /\ r \in Rows /\ Site(w) \in Warehouses /\ receipt[w] \in Receipts
          /\ pc[w] = "receive"
      BY <1>6, <1>t, ReceiptTypes DEF FindRow, LockWarehouse, SessionOK, ReceiptSteps
    <2>2. /\ pc'[w] = "store" /\ whLock'[Site(w)] = w
          /\ UNCHANGED <<receipt, catalog, inserted>>
      BY <1>6, <1>t, <2>1 DEF FindRow, LockWarehouse, warehouseVars
    <2>3. entry'[w] = IF Exists(InventoryRow(r)) THEN NoEntry ELSE InventoryRow(r)
      BY <1>6, <1>t DEF FindRow
    <2>4. w \notin inserted'
      BY <1>t, <2>1, <2>2 DEF SessionOK
    <2>5. InventoryRow(r) # NoEntry
      BY <2>1, EntryFacts
    <2>6. Site(w)' = Site(w) /\ (Exists(InventoryRow(r))' <=> Exists(InventoryRow(r)))
      BY <2>2 DEF Site, Exists
    <2> QED
      BY <2>1, <2>2, <2>3, <2>4, <2>5, <2>6 DEF SessionOK, ReceiptSteps
  <1> QED
    BY <1>1, <1>2, <1>3, <1>4, <1>5, <1>6 DEF Act, CatalogStep

\* Types and positions hold always.
LEMMA TypesKept == CatalogSpec => []TypeInv
  <1>1. CatalogInit => TypeInv
    <2> SUFFICES ASSUME CatalogInit PROVE TypeInv
      OBVIOUS
    <2>1. StoreTypeOK
      BY StoreAssumption DEF CatalogInit, StoreInit, Opening, StoreTypeOK, NoImage,
         Nothing, Quantities, MovementTypes
    <2>2. WarehousesTypeOK
      BY WarehousesAssumption DEF CatalogInit, WarehousesInit, WarehousesTypeOK
    <2> QED
      BY <2>1, <2>2 DEF CatalogInit, StoreInit, Opening, TypeInv, CatalogTypeOK,
         SessionOK, Nothing, ReceiptSteps
  <1>2. TypeInv /\ [CatalogNext]_allVars => TypeInv'
    <2> SUFFICES ASSUME TypeInv, [CatalogNext]_allVars PROVE TypeInv'
      OBVIOUS
    <2>1. ASSUME NEW w \in Workers, Act(w) PROVE TypeInv'
      BY <2>1, ActTypes, OwnOK, OthersOK DEF TypeInv
    <2>2. CASE InventoryNext /\ UNCHANGED <<warehouseVars, catalogVars>>
      <3>1. CatalogTypeOK' /\ UNCHANGED <<whLock, pc, receipt, catalog, entry, inserted>>
        BY <2>2, ManualTypes DEF warehouseVars, catalogVars
      <3> QED  BY <3>1 DEF TypeInv, SessionOK, Site, Exists
    <2>3. CASE UNCHANGED allVars
      BY <2>3 DEF allVars, storeVars, warehouseVars, catalogVars, TypeInv, CatalogTypeOK,
         StoreTypeOK, WarehousesTypeOK, SessionOK, Site, Exists
    <2> QED  BY <2>1, <2>2, <2>3, Acts
  <1> QED  BY <1>1, <1>2, PTL DEF CatalogSpec

\* The variables of Catalog keep their types.
THEOREM CatalogTypeCorrect == CatalogSpec => []CatalogTypeOK
  <1>1. TypeInv => CatalogTypeOK
    BY DEF TypeInv
  <1> QED  BY <1>1, TypesKept, PTL

\* The first receipts of a product in a warehouse do not race: whoever found
\* the row missing is the only one to insert it.
THEOREM FirstReceiptsUnopposed == CatalogSpec => []FirstReceiptUnopposed
  <1>1. TypeInv => FirstReceiptUnopposed
    <2> SUFFICES ASSUME TypeInv, NEW w \in Workers, pc[w] = "store", entry[w] # NoEntry
                 PROVE  Inserters(w) = {} /\ ~ Taken(w)
      BY DEF FirstReceiptUnopposed
    <2>1. \A v \in inserted \ {w} : v \in Workers /\ entry[v] # entry[w]
      BY OnlyInserter DEF TypeInv, CatalogTypeOK
    <2>2. ~ Exists(entry[w])
      BY DEF TypeInv, SessionOK
    <2> QED  BY <2>1, <2>2 DEF Inserters, Taken
  <1> QED  BY <1>1, TypesKept, PTL

-----------------------------------------------------------------------------

\* A session that has inserted a unique key keeps the others from it until it
\* commits the row, which then is the only one of its key.
KeysInv ==
    /\ UniqueKeys
    /\ \A w \in inserted :
          Unique(entry[w]) =>
              /\ ~ Exists(entry[w])
              /\ \A v \in inserted \ {w} : entry[v] # entry[w]

\* Every step of a session keeps it so.
LEMMA KeysStep ==
    ASSUME TypeInv, TypeInv', KeysInv, NEW w \in Workers, Act(w)
    PROVE  KeysInv'
  <1>t. /\ Framed(w) /\ inserted \subseteq Workers /\ inserted' \subseteq Workers
        /\ catalog \in [Entries -> Nat]
        /\ entry \in [Workers -> Entries \cup {NoEntry}]
        /\ entry' \in [Workers -> Entries \cup {NoEntry}]
    BY Frame DEF TypeInv, CatalogTypeOK
  <1>1. UniqueKeys'
    BY <1>t DEF KeysInv, UniqueKeys, Framed, Exists
  <1>2. w \in inserted' =>
            \/ w \in inserted /\ entry'[w] = entry[w] /\ UNCHANGED catalog
            \/ InsertEntry(w)
    <2>1. CASE EndEntry(w)
      BY <2>1 DEF EndEntry
    <2>2. CASE (\E e \in Created : CreateEntry(w, e)) \/ FindRow(w)
      <3>1. pc[w] \in {"idle", "receive"} /\ UNCHANGED inserted
        BY <2>2 DEF CreateEntry, Accept, FindRow, LockWarehouse
      <3>2. w \notin inserted
        BY <3>1 DEF TypeInv, SessionOK
      <3> QED  BY <3>1, <3>2
    <2>3. CASE DeliverListed(w) \/ ReferenceEntry(w)
      BY <2>3 DEF DeliverListed, ReferenceEntry, catalogVars
    <2> QED
      BY <2>1, <2>2, <2>3 DEF Act, CatalogStep, CommitEntry, RefuseEntry, StoreReceipt,
         RefuseStock, AbortEntry
  <1>3. InsertEntry(w) =>
            /\ Unique(entry[w]) => ~ Exists(entry[w])
            /\ \A v \in inserted \ {w} : entry[v] = entry[w] => ~ Unique(entry[w])
            /\ UNCHANGED <<entry, catalog>>
    BY DEF InsertEntry, Inserters, Taken
  <1>4. ASSUME NEW v \in inserted', Unique(entry'[v])
        PROVE  /\ ~ Exists(entry[v])'
               /\ \A u \in inserted' \ {v} : entry'[u] # entry'[v]
    <2>1. CASE v = w
      BY <1>2, <1>3, <1>4, <1>t, <2>1 DEF KeysInv, Framed, Exists
    <2>2. CASE v # w
      <3>1. v \in inserted /\ entry'[v] = entry[v] /\ Unique(entry[v])
        BY <1>4, <1>t, <2>2 DEF Framed
      <3>2. ~ Exists(entry[v])
        BY <3>1 DEF KeysInv
      <3>3. w \in inserted => entry[w] # entry[v]
        BY <2>2, <3>1 DEF KeysInv
      <3>4. entry[v] \in Entries
        BY <3>1, <1>t DEF TypeInv, SessionOK
      <3>5. ~ Exists(entry[v])'
        BY <1>t, <3>1, <3>2, <3>3, <3>4 DEF Framed, Exists
      <3>6. ASSUME NEW u \in inserted' \ {v} PROVE entry'[u] # entry'[v]
        <4>1. CASE u = w
          BY <1>2, <1>3, <2>2, <3>1, <3>3, <3>6, <4>1
        <4>2. CASE u # w
          BY <1>t, <3>1, <3>6, <4>2 DEF Framed, KeysInv
        <4> QED  BY <4>1, <4>2
      <3> QED  BY <3>5, <3>6
    <2> QED  BY <2>1, <2>2
  <1> QED  BY <1>1, <1>4 DEF KeysInv

\* Whoever races whom, no two rows have the same unique key.
THEOREM KeysUnique == CatalogSpec => []UniqueKeys
  <1>1. CatalogInit => KeysInv
    BY DEF CatalogInit, KeysInv, UniqueKeys
  <1>2. TypeInv /\ TypeInv' /\ KeysInv /\ [CatalogNext]_allVars => KeysInv'
    <2> SUFFICES ASSUME TypeInv, TypeInv', KeysInv, [CatalogNext]_allVars PROVE KeysInv'
      OBVIOUS
    <2>1. CASE UNCHANGED catalogVars
      BY <2>1 DEF catalogVars, KeysInv, UniqueKeys, Exists
    <2> QED  BY <2>1, Acts, KeysStep DEF allVars
  <1>3. KeysInv => UniqueKeys
    BY DEF KeysInv
  <1> QED  BY <1>1, <1>2, <1>3, TypesKept, PTL DEF CatalogSpec
=============================================================================
