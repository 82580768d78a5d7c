------------------------------ MODULE Catalog ------------------------------
(***************************************************************************)
(* How rows come into being: users, products, warehouses, their locations  *)
(* and notifications are created by requests, the inventory row of a       *)
(* product in a warehouse by the first receipt.                            *)
(*                                                                         *)
(* Apart from the check for the email of a new user the handlers look for  *)
(* no duplicate: the unique indexes do, and a violation becomes a 409.     *)
(* An INSERT enters the index first and then share-locks what the row      *)
(* references, so it may wait twice.                                       *)
(***************************************************************************)
EXTENDS Inventory, Warehouses

CONSTANTS
    Emails,   \* of the users that register
    Bins,     \* codes of the places in a warehouse
    NoEntry,  \* a session that inserts no row
    Listed    \* the rows that exist when the model starts

(***************************************************************************)
(* A row is known by its table and its unique key.  Notifications have no  *)
(* unique key; here they are known by the user they reference.             *)
(***************************************************************************)
Created ==
    ({"users", "notifications"} \X Emails)
    \cup ({"products"} \X Products)
    \cup ({"warehouses"} \X Warehouses)
    \cup ({"warehouse_locations"} \X (Warehouses \X Bins))
Entries == Created \cup ({"inventory"} \X Rows)

Unique(e) == e[1] # "notifications"

InventoryRow(r) == <<"inventory", r>>

\* The rows that its foreign keys name.
References(e) ==
    CASE e[1] = "notifications" -> {<<"users", e[2]>>}
      [] e[1] = "warehouse_locations" -> {<<"warehouses", e[2][1]>>}
      [] e[1] = "inventory" -> {<<"products", e[2][1]>>, <<"warehouses", e[2][2]>>}
      [] OTHER -> {}

ASSUME CatalogAssumption ==
    /\ NoEntry \notin Entries
    /\ Listed \subseteq Entries
    /\ \A e \in Listed : References(e) \subseteq Listed
    /\ \A r \in Rows : InventoryRow(r) \in Listed <=> InitialStock[r] > 0

VARIABLES
    catalog,   \* how many committed rows have each key
    entry,     \* the row a session inserts
    inserted   \* the sessions that have inserted theirs and not committed

catalogVars == <<catalog, entry, inserted>>
allVars == <<storeVars, warehouseVars, catalogVars>>

CatalogTypeOK ==
    /\ StoreTypeOK
    /\ WarehousesTypeOK
    /\ pc \in [Workers -> {"idle", "add", "save"} \cup ReceiptSteps]
    /\ catalog \in [Entries -> Nat]
    /\ entry \in [Workers -> Entries \cup {NoEntry}]
    /\ inserted \subseteq Workers

CatalogInit ==
    /\ StoreInit
    /\ WarehousesInit
    /\ catalog = [e \in Entries |-> IF e \in Listed THEN 1 ELSE 0]
    /\ entry = [w \in Workers |-> NoEntry]
    /\ inserted = {}

Exists(e) == catalog[e] > 0

EndEntry(w) ==
    /\ entry' = [entry EXCEPT ![w] = NoEntry]
    /\ inserted' = inserted \ {w}

-----------------------------------------------------------------------------

(***************************************************************************)
(* create_user looks for the email, create_location for the warehouse, the *)
(* other handlers for nothing.                                             *)
(***************************************************************************)
Acceptable(e) ==
    /\ e[1] = "users" => ~ Exists(e)
    /\ e[1] = "warehouse_locations" => Exists(<<"warehouses", e[2][1]>>)

CreateEntry(w, e) ==
    /\ Acceptable(e)
    /\ Accept(w, "add")
    /\ entry' = [entry EXCEPT ![w] = e]
    /\ UNCHANGED <<catalog, inserted, warehouseVars>>

\* An INSERT waits for the sessions that have inserted its key.
Inserters(w) == {v \in inserted \ {w} : entry[v] = entry[w] /\ Unique(entry[w])}

\* A mistake: there is no unique index.
NeverTaken(w) == FALSE

Taken(w) == Unique(entry[w]) /\ Exists(entry[w])

InsertEntry(w) ==
    /\ entry[w] # NoEntry /\ w \notin inserted
    /\ Inserters(w) = {} /\ ~ Taken(w)
    /\ inserted' = inserted \cup {w}
    /\ UNCHANGED <<storeVars, warehouseVars, catalog, entry>>

\* The warehouse of a location; nobody locks users or products FOR UPDATE.
Sites(w) == {wh \in Warehouses : <<"warehouses", wh>> \in References(entry[w])}

ReferenceEntry(w) ==
    /\ pc[w] = "add" /\ w \in inserted
    /\ \A e \in References(entry[w]) : Exists(e)
    /\ \A wh \in Sites(w) : whLock[wh] = NoWorker
    /\ whShare' = [whShare EXCEPT ![w] = Sites(w)]
    /\ pc' = [pc EXCEPT ![w] = "save"]
    /\ UNCHANGED <<inventory, movements, rowLock, whLock, image, posted, requests,
                   warehouseVars, catalogVars>>

CommitEntry(w) ==
    /\ pc[w] = "save"
    /\ EndSession(w)
    /\ catalog' = [catalog EXCEPT ![entry[w]] = @ + 1]
    /\ EndEntry(w)
    /\ UNCHANGED <<inventory, movements, warehouseVars>>

\* IntegrityError: 409 "Database constraint violation".
RefuseEntry(w) ==
    /\ \/ pc[w] \in {"add", "store"} /\ entry[w] # NoEntry /\ w \notin inserted
          /\ Inserters(w) = {} /\ Taken(w)
       \/ pc[w] = "add" /\ w \in inserted
          /\ \E e \in References(entry[w]) : ~ Exists(e)
    /\ Rollback(w)
    /\ EndEntry(w)
    /\ EndReceipt(w)
    /\ UNCHANGED <<used, catalog>>

(***************************************************************************)
(* add_stock, with the row it may find missing.                            *)
(***************************************************************************)
DeliverListed(w) ==
    \E r \in Rows, q \in Deliveries :
        /\ \A e \in References(InventoryRow(r)) : Exists(e)
        /\ GetWarehouse(w, r, q)
        /\ UNCHANGED catalogVars

FindRow(w) ==
    LET row == InventoryRow(receipt[w].at)
    IN  /\ LockWarehouse(w)
        /\ entry' = [entry EXCEPT ![w] = IF Exists(row) THEN NoEntry ELSE row]
        /\ UNCHANGED <<catalog, inserted>>

StoreReceipt(w) ==
    /\ entry[w] # NoEntry => w \in inserted
    /\ CommitReceipt(w)
    /\ catalog' = IF entry[w] = NoEntry THEN catalog
                  ELSE [catalog EXCEPT ![entry[w]] = @ + 1]
    /\ EndEntry(w)

RefuseStock(w) ==
    /\ \/ RefuseReceipt(w)
       \/ FailReceipt(w) /\ (entry[w] # NoEntry => w \in inserted)
    /\ EndEntry(w)
    /\ UNCHANGED catalog

AbortEntry(w) ==
    /\ pc[w] # "idle"
    /\ Rollback(w)
    /\ EndEntry(w)
    /\ EndReceipt(w)
    /\ UNCHANGED <<used, catalog>>

-----------------------------------------------------------------------------

CatalogStep(w) ==
    \/ InsertEntry(w) \/ ReferenceEntry(w) \/ CommitEntry(w) \/ RefuseEntry(w)
    \/ FindRow(w) \/ StoreReceipt(w) \/ RefuseStock(w)

CatalogNext ==
    \/ InventoryNext /\ UNCHANGED <<warehouseVars, catalogVars>>
    \/ \E w \in Workers :
          \/ \E e \in Created : CreateEntry(w, e)
          \/ DeliverListed(w)
          \/ CatalogStep(w)
          \/ AbortEntry(w)

CatalogSpec == CatalogInit /\ [][CatalogNext]_allVars

(***************************************************************************)
(* A session that can go on goes on; unlike in OMS no deadlock needs to be *)
(* broken.                                                                 *)
(***************************************************************************)
CatalogFairSpec == CatalogSpec /\ \A w \in Workers : WF_allVars(CatalogStep(w))

-----------------------------------------------------------------------------

\* No two rows have the same unique key, whoever races whom: emails (users.py:29),
\* SKUs (products.py:22), codes of warehouses and of their bins (warehouses.py:34,
\* 50), and the inventory row of a product in a warehouse (warehouses.py:82).
UniqueKeys == \A e \in Entries : Unique(e) => catalog[e] <= 1

\* The first receipts of a product in a warehouse do not race one another: the
\* row one of them found missing is inserted by nobody else, so the receipt is
\* never refused because of it (warehouses.py:74-86).
FirstReceiptUnopposed ==
    \A w \in Workers :
        pc[w] = "store" /\ entry[w] # NoEntry => Inserters(w) = {} /\ ~ Taken(w)

\* Every request ends, and there are no deadlocks.
CatalogRequestsEnd ==
    \A w \in Workers : pc[w] # "idle" ~> pc[w] = "idle"
=============================================================================
