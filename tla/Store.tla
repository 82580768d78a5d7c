------------------------------- MODULE Store -------------------------------
(***************************************************************************)
(* The tables that hold stock, the row locks PostgreSQL keeps on them, and *)
(* what an SQLAlchemy session has loaded and changed but not committed.    *)
(*                                                                         *)
(* A worker is a request handler at work in a transaction of its own.  It  *)
(* reads the committed tables, except for the rows it has changed itself   *)
(* (READ COMMITTED, autoflush off), and publishes all of its changes in    *)
(* one step when it commits.  A row that nothing was ever received into    *)
(* does not exist in the table; here it is a row of zeros.                 *)
(***************************************************************************)
EXTENDS Integers, FiniteSets

CONSTANTS
    Workers,       \* sessions of the connection pool
    NoWorker,      \* the owner of a lock nobody holds
    Products,
    Warehouses,
    Capacity,      \* of each warehouse; 0 means unlimited
    InitialStock,  \* what each row had received when the model starts
    MaxRequests    \* bound: how many requests the clients send

Rows == Products \X Warehouses

ASSUME StoreAssumption ==
    /\ IsFiniteSet(Products) /\ IsFiniteSet(Warehouses)
    /\ NoWorker \notin Workers
    /\ Capacity \in [Warehouses -> Nat]
    /\ InitialStock \in [Rows -> Nat]
    /\ MaxRequests \in Nat

VARIABLES
    inventory,  \* the committed quantities of each row
    movements,  \* the ledger: the total of each movement type for each row
    rowLock,    \* the session that holds the FOR UPDATE lock of a row
    whLock,     \* the session that holds the FOR UPDATE lock of a warehouse
    whShare,    \* the warehouses whose key a session has share-locked
    pc,         \* where each session is
    image,      \* each session's identity map: the rows as it last saw or set
    posted,     \* the movement quantities a session has pending for each row
    requests    \* how many requests were sent

storeVars == <<inventory, movements, rowLock, whLock, whShare, pc, image,
               posted, requests>>

MovementTypes == {"RECEIPT", "RESERVATION", "RELEASE", "RETURN"}
Quantities == [on_hand : Nat, available : Nat, reserved : Nat]
Nothing == [r \in Rows |-> 0]
NoImage == [r \in Rows |-> [on_hand |-> 0, available |-> 0, reserved |-> 0]]

StoreTypeOK ==
    /\ inventory \in [Rows -> Quantities]
    /\ movements \in [MovementTypes -> [Rows -> Nat]]
    /\ rowLock \in [Rows -> Workers \cup {NoWorker}]
    /\ whLock \in [Warehouses -> Workers \cup {NoWorker}]
    /\ whShare \in [Workers -> SUBSET Warehouses]
    /\ image \in [Workers -> [Rows -> Quantities]]
    /\ posted \in [Workers -> [Rows -> Nat]]
    /\ requests \in 0..MaxRequests

\* Stock was received, some of it was reserved since, and nobody is at work.
Opening(reserved) ==
    /\ inventory = [r \in Rows |->
                        [on_hand |-> InitialStock[r],
                         available |-> InitialStock[r] - reserved[r],
                         reserved |-> reserved[r]]]
    /\ movements = [t \in MovementTypes |->
                        CASE t = "RECEIPT" -> InitialStock
                          [] t = "RESERVATION" -> reserved
                          [] OTHER -> Nothing]
    /\ rowLock = [r \in Rows |-> NoWorker]
    /\ whLock = [wh \in Warehouses |-> NoWorker]
    /\ whShare = [w \in Workers |-> {}]
    /\ pc = [w \in Workers |-> "idle"]
    /\ image = [w \in Workers |-> NoImage]
    /\ posted = [w \in Workers |-> Nothing]
    /\ requests = 0

StoreInit == Opening(Nothing)

(***************************************************************************)
(* What the handlers do to the quantities of a row.                        *)
(***************************************************************************)
Take(row, q) == [on_hand |-> row.on_hand, available |-> row.available - q,
                 reserved |-> row.reserved + q]

\* A mistake: what is given back is not available again.
GiveBackUnavailable(row, q) ==
    [on_hand |-> row.on_hand, available |-> row.available,
     reserved |-> row.reserved - q]

GiveBack(row, q) == [on_hand |-> row.on_hand, available |-> row.available + q,
                     reserved |-> row.reserved - q]

Add(row, q) == [on_hand |-> row.on_hand + q, available |-> row.available + q,
                reserved |-> row.reserved]

(***************************************************************************)
(* The CHECK constraints of a row; damaged stock is never recorded.        *)
(***************************************************************************)
Balanced(row) ==
    /\ row.on_hand >= 0 /\ row.available >= 0 /\ row.reserved >= 0
    /\ row.available + row.reserved <= row.on_hand

(***************************************************************************)
(* What the session w sees of row r.                                       *)
(***************************************************************************)
Loaded(w, r) == IF rowLock[r] = w THEN image[w][r] ELSE inventory[r]

\* A mistake: the row is read without FOR UPDATE.
MayLockAlways(w, r) == TRUE

MayLock(w, r) == rowLock[r] \in {w, NoWorker}

(***************************************************************************)
(* SELECT ... FOR UPDATE of r, then a change of the loaded object to row   *)
(* and a pending movement of q.                                            *)
(***************************************************************************)
LockAndChange(w, r, row, q) ==
    /\ MayLock(w, r)
    /\ rowLock' = [rowLock EXCEPT ![r] = w]
    /\ image' = [image EXCEPT ![w][r] = row]
    /\ posted' = [posted EXCEPT ![w][r] = @ + q]

\* A mistake: the session is not closed and its row locks stay.
LeakSession(w) ==
    /\ pc' = [pc EXCEPT ![w] = "idle"]
    /\ image' = [image EXCEPT ![w] = NoImage]
    /\ posted' = [posted EXCEPT ![w] = Nothing]
    /\ UNCHANGED <<rowLock, whLock, whShare, requests>>

(***************************************************************************)
(* The end of a transaction: its locks go, and so does the session.        *)
(***************************************************************************)
EndSession(w) ==
    /\ rowLock' = [r \in Rows |-> IF rowLock[r] = w THEN NoWorker ELSE rowLock[r]]
    /\ whLock' = [wh \in Warehouses |->
                      IF whLock[wh] = w THEN NoWorker ELSE whLock[wh]]
    /\ whShare' = [whShare EXCEPT ![w] = {}]
    /\ pc' = [pc EXCEPT ![w] = "idle"]
    /\ image' = [image EXCEPT ![w] = NoImage]
    /\ posted' = [posted EXCEPT ![w] = Nothing]
    /\ UNCHANGED requests

Rollback(w) ==
    /\ EndSession(w)
    /\ UNCHANGED <<inventory, movements>>

(***************************************************************************)
(* The UPDATE of a row writes the columns the session changed, with the    *)
(* values it computed: a reservation or a release changes available and    *)
(* reserved, a receipt and a return on_hand and available.                 *)
(***************************************************************************)
Written(w, type) ==
    [r \in Rows |->
        IF posted[w][r] = 0 THEN inventory[r]
        ELSE IF type \in {"RECEIPT", "RETURN"}
             THEN [image[w][r] EXCEPT !.reserved = inventory[r].reserved]
             ELSE [image[w][r] EXCEPT !.on_hand = inventory[r].on_hand]]

PassesChecks(w, type) == \A r \in Rows : Balanced(Written(w, type)[r])

(***************************************************************************)
(* COMMIT: the changed rows and their movements become visible together.   *)
(***************************************************************************)
Commit(w, type) ==
    /\ PassesChecks(w, type)
    /\ inventory' = Written(w, type)
    /\ movements' = [movements EXCEPT ![type] = 
                        [r \in Rows |-> @[r] + posted[w][r]]]
    /\ EndSession(w)

(***************************************************************************)
(* A client sends a request and session w takes it to its first step.      *)
(***************************************************************************)
Accept(w, step) ==
    /\ requests < MaxRequests
    /\ requests' = requests + 1
    /\ pc[w] = "idle"
    /\ pc' = [pc EXCEPT ![w] = step]
    /\ UNCHANGED <<inventory, movements, rowLock, whLock, whShare, image, posted>>
=============================================================================
