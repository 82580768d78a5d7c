---------------------------- MODULE OrderProofs ----------------------------
(***************************************************************************)
(* The orders of Stock: one for each Idempotency-Key, allocated in full,   *)
(* and covered by what is reserved.                                        *)
(***************************************************************************)
EXTENDS StockProofs, SumTheorems

-----------------------------------------------------------------------------
(***************************************************************************)
(* Idempotency-Keys: one order for each, and true answers.  A session that *)
(* has inserted an order keeps every other session from inserting its key  *)
(* until it ends, which is why the check of the key, made before the       *)
(* transaction, need not be right for the outcome to be.                   *)
(***************************************************************************)
KeysInv == KeyExclusive /\ OneOrderPerKey /\ KeyedAnswersRight

\* The orders keep what concerns their keys.
SameKeys ==
    /\ DOMAIN orders' = DOMAIN orders
    /\ \A o \in DOMAIN orders : /\ orders'[o].key = orders[o].key
                                /\ orders'[o].cart = orders[o].cart

\* No session comes to hold a key it did not hold.
NoNewHolder ==
    \A v \in Workers : pc'[v] = "allocate" => pc[v] = "allocate" /\ job'[v].key = job[v].key

\* So orders are found by key and payload as before.
LEMMA SameKeysFacts ==
  ASSUME SameKeys
  PROVE  /\ \A k : WithKey(k)' = WithKey(k)
         /\ \A k, cart : Same(k, cart)' = Same(k, cart)
         /\ OneOrderPerKey => OneOrderPerKey'
<1>1. \A k : WithKey(k)' = WithKey(k)
  BY DEF SameKeys, WithKey
<1>2. \A k, cart : Same(k, cart)' = Same(k, cart)
  BY DEF SameKeys, Same, WithKey
<1>3. OneOrderPerKey => OneOrderPerKey'
  BY DEF SameKeys, OneOrderPerKey
<1>. QED
  BY <1>1, <1>2, <1>3

\* An answer given from the orders as they are is right: the order has the
\* payload, or the key is taken by another payload.
RightAnswer(a) ==
    IF a.order = 0
    THEN \E o \in WithKey(a.key) : orders[o].cart # a.cart
    ELSE a.order \in Same(a.key, a.cart)

\* An answer from the orders of a key with a value is right.
LEMMA AnswerRight ==
  ASSUME orders \in Seq(PlacedOrders), NEW k, NEW cart, Truthy(k), WithKey(k) # {}
  PROVE  RightAnswer(Answer(k, cart))
<1>1. /\ Answer(k, cart).key = k /\ Answer(k, cart).cart = cart
      /\ Answer(k, cart).order = IF Same(k, cart) # {}
                                 THEN CHOOSE o \in Same(k, cart) : TRUE ELSE 0
  BY DEF Answer
<1>2. CASE Same(k, cart) = {}
  BY <1>1, <1>2 DEF Same, RightAnswer
<1>3. CASE Same(k, cart) # {}
  <2>1. Answer(k, cart).order \in Same(k, cart)
    BY <1>1, <1>3
  <2>2. 0 \notin Same(k, cart)
    BY DEF Same, WithKey
  <2>. QED
    BY <1>1, <2>1, <2>2 DEF RightAnswer
<1>. QED
  BY <1>2, <1>3

\* A step that gives no new answer and keeps the keys keeps the invariant,
\* unless a session comes to hold a key.
LEMMA QuietKeys ==
  ASSUME KeysInv, SameKeys, NoNewHolder,
         \A a \in answers' \ answers : Truthy(a.key) => RightAnswer(a)
  PROVE  KeysInv'
<1>1. KeyExclusive'
  BY SameKeysFacts DEF KeysInv, KeyExclusive, NoNewHolder
<1>2. OneOrderPerKey'
  BY SameKeysFacts DEF KeysInv
<1>3. ASSUME NEW a \in answers', Truthy(a.key)
      PROVE  RightAnswer(a)'
  <2>1. RightAnswer(a)
    BY <1>3 DEF KeysInv, KeyedAnswersRight, RightAnswer
  <2>2. /\ WithKey(a.key)' = WithKey(a.key)
        /\ Same(a.key, a.cart)' = Same(a.key, a.cart)
    BY SameKeysFacts
  <2>3. \A o \in WithKey(a.key) : orders'[o].cart = orders[o].cart
    BY DEF SameKeys, WithKey
  <2>. QED
    BY <2>1, <2>2, <2>3 DEF RightAnswer
<1>4. KeyedAnswersRight'
  BY <1>3 DEF KeyedAnswersRight, RightAnswer, Truthy
<1>. QED
  BY <1>1, <1>2, <1>4 DEF KeysInv

\* An insert goes through only if nobody holds or has the key.
LEMMA InsertOrderKeys ==
  ASSUME TypeInv, KeysInv, NEW w \in Workers, InsertOrder(w)
  PROVE  KeysInv'
<1>1. /\ pc' = [pc EXCEPT ![w] = "allocate"]
      /\ UNCHANGED <<orders, job, answers>>
      /\ KeyHolders(w) = {} /\ ~ KeyTaken(w)
  BY DEF InsertOrder, orderVars
<1>2. ASSUME NEW v \in Workers, pc'[v] = "allocate", job'[v].key # NoKey
      PROVE  /\ WithKey(job[v].key)' = {}
             /\ \A u \in Workers \ {v} : pc'[u] = "allocate" => job'[u].key # job'[v].key
  <2>1. pc = [u \in Workers |-> pc[u]]
    BY DEF TypeInv, Typed
  <2>2. CASE v = w
    BY <1>1, <1>2, <2>1, <2>2 DEF KeyHolders, KeyTaken, WithKey
  <2>3. CASE v # w
    BY <1>1, <1>2, <2>1, <2>3 DEF KeysInv, KeyExclusive, KeyHolders, WithKey
  <2>. QED
    BY <2>2, <2>3
<1>3. KeyExclusive'
  BY <1>2 DEF KeyExclusive
<1>4. OneOrderPerKey' /\ KeyedAnswersRight'
  BY <1>1 DEF KeysInv, OneOrderPerKey, KeyedAnswersRight, WithKey, Same, Truthy
<1>. QED
  BY <1>3, <1>4 DEF KeysInv

\* The order that is committed is the first of its key.
LEMMA CommitOrderKeys ==
  ASSUME TypeInv, KeysInv, NEW w \in Workers, CommitOrder(w)
  PROVE  KeysInv'
<1>. DEFINE k == job[w].key
            n == Len(orders) + 1
<1>1. /\ orders \in Seq(PlacedOrders) /\ job \in [Workers -> Jobs]
      /\ pc = [v \in Workers |-> pc[v]]
  BY DEF TypeInv, Typed, OrdersTypeOK
<1>2. /\ pc[w] = "allocate" /\ pc' = [pc EXCEPT ![w] = "idle"]
      /\ job' = [job EXCEPT ![w] = NoJob]
      /\ answers' = IF k = NoKey THEN answers
                    ELSE answers \cup {[key |-> k, cart |-> job[w].cart, order |-> n]}
  BY DEF CommitOrder, Commit, EndSession, EndJob
<1>3. /\ DOMAIN orders = 1..Len(orders) /\ DOMAIN orders' = 1..n
      /\ Len(orders) \in Nat
      /\ \A o \in DOMAIN orders : orders'[o] = orders[o]
      /\ orders'[n].key = k /\ orders'[n].cart = job[w].cart
  BY <1>1 DEF CommitOrder
<1>. HIDE DEF n, k
<1>4. n \notin DOMAIN orders /\ DOMAIN orders' = DOMAIN orders \cup {n} /\ n # 0
  BY <1>3 DEF n
<1>5. k # NoKey => /\ WithKey(k) = {}
                  /\ \A v \in Workers \ {w} : pc[v] = "allocate" => job[v].key # k
  BY <1>2 DEF KeysInv, KeyExclusive, k
<1>6. \A key : WithKey(key)' = IF key = k THEN WithKey(key) \cup {n} ELSE WithKey(key)
  BY <1>3, <1>4 DEF WithKey
<1>7. KeyExclusive'
  <2>. SUFFICES ASSUME NEW v \in Workers, pc'[v] = "allocate", job'[v].key # NoKey
                PROVE  /\ WithKey(job[v].key)' = {}
                       /\ \A u \in Workers \ {v} :
                             pc'[u] = "allocate" => job'[u].key # job'[v].key
    BY DEF KeyExclusive
  <2>1. v # w /\ pc[v] = "allocate" /\ job'[v] = job[v]
    BY <1>1, <1>2
  <2>2. \A u \in Workers : pc'[u] = "allocate" => pc[u] = "allocate" /\ job'[u] = job[u]
    BY <1>1, <1>2
  <2>3. job[v].key # k
    BY <1>5, <2>1
  <2>. QED
    BY <1>6, <2>1, <2>2, <2>3 DEF KeysInv, KeyExclusive
<1>8. OneOrderPerKey'
  BY <1>3, <1>4, <1>5 DEF KeysInv, OneOrderPerKey, WithKey
<1>9. KeyedAnswersRight'
  <2>. SUFFICES ASSUME NEW a \in answers', Truthy(a.key)
                PROVE  RightAnswer(a)'
    BY DEF KeyedAnswersRight, RightAnswer, Truthy
  <2>1. CASE a \in answers
    <3>1. RightAnswer(a)
      BY <2>1 DEF KeysInv, KeyedAnswersRight, RightAnswer
    <3>2. WithKey(a.key) \subseteq WithKey(a.key)'
      BY <1>6
    <3>3. Same(a.key, a.cart) \subseteq Same(a.key, a.cart)'
      BY <1>3, <1>4, <3>2 DEF Same, WithKey
    <3>4. \A o \in WithKey(a.key) : orders'[o] = orders[o]
      BY <1>3 DEF WithKey
    <3>. QED
      BY <3>1, <3>2, <3>3, <3>4 DEF RightAnswer
  <2>2. CASE a = [key |-> k, cart |-> job[w].cart, order |-> n]
    BY <1>3, <1>4, <2>2 DEF RightAnswer, Same, WithKey
  <2>. QED
    BY <1>2, <2>1, <2>2
<1>. QED
  BY <1>7, <1>8, <1>9 DEF KeysInv

\* A cancelled order keeps its key and its payload.
LEMMA CancelKeys ==
  ASSUME TypeInv, NEW w \in Workers, CommitCancel(w)
  PROVE  SameKeys
<1>1. orders \in Seq(PlacedOrders)
  BY DEF TypeInv, Typed, OrdersTypeOK
<1>2. ASSUME NEW x \in PlacedOrders
      PROVE  /\ [x EXCEPT !.status = "CANCELLED", !.released = TRUE].key = x.key
             /\ [x EXCEPT !.status = "CANCELLED", !.released = TRUE].cart = x.cart
  BY DEF PlacedOrders
<1>3. orders' = [orders EXCEPT ![job[w].target] =
                    [@ EXCEPT !.status = "CANCELLED", !.released = TRUE]]
  BY DEF CommitCancel
<1>4. \A o \in DOMAIN orders : orders[o] \in PlacedOrders
  BY <1>1
<1>. QED
  BY <1>1, <1>2, <1>3, <1>4 DEF SameKeys

\* The steps that insert no order and commit none.
LEMMA OtherKeys ==
  ASSUME TypeInv, KeysInv, NEW w \in Workers,
         \/ \E k \in Keys, cart \in Carts : CreateOrder(w, k, cart)
         \/ \E o \in DOMAIN orders : CancelOrder(w, o)
         \/ DuplicateOrder(w) \/ NextItem(w) \/ AllocateFrom(w) \/ RejectOrder(w)
         \/ ReadAllocations(w) \/ ReleaseStock(w) \/ RejectCancel(w) \/ CommitCancel(w)
         \/ AbortOrder(w)
  PROVE  KeysInv'
<1>1. /\ orders \in Seq(PlacedOrders) /\ job \in [Workers -> Jobs]
      /\ pc = [v \in Workers |-> pc[v]]
  BY DEF TypeInv, Typed, OrdersTypeOK
<1>2. SameKeys
  <2>1. CASE UNCHANGED orders
    BY <2>1 DEF SameKeys
  <2>2. CASE CommitCancel(w)
    BY <2>2, CancelKeys
  <2>. QED
    BY <2>1, <2>2 DEF CreateOrder, CancelOrder, DuplicateOrder, NextItem, AllocateFrom,
       RejectOrder, ReadAllocations, ReleaseStock, RejectCancel, AbortOrder
<1>3. NoNewHolder
  <2>1. CASE \E step \in {"insert", "cancel"} :
                /\ pc' = [pc EXCEPT ![w] = step]
                /\ \A v \in Workers \ {w} : job'[v] = job[v]
    BY <1>1, <2>1 DEF NoNewHolder
  <2>2. CASE pc' = [pc EXCEPT ![w] = "idle"] /\ EndJob(w)
    BY <1>1, <2>2 DEF NoNewHolder, EndJob
  <2>3. CASE /\ pc' = pc \/ pc' = [pc EXCEPT ![w] = "release"]
             /\ \A v \in Workers : job'[v].key = job[v].key
    BY <1>1, <2>3 DEF NoNewHolder
  <2>4. ASSUME NEW x \in Jobs, NEW s, NEW n, NEW t
        PROVE  /\ [x EXCEPT !.releasing = s].key = x.key
               /\ [x EXCEPT !.queue = s, !.remaining = n, !.made = t].key = x.key
               /\ [x EXCEPT !.queue = s, !.remaining = n, !.todo = t].key = x.key
    BY DEF Jobs
  <2>5. job[w] \in Jobs /\ \A v \in Workers : job[v] \in Jobs
    BY <1>1
  <2>6. CASE \E k \in Keys, cart \in Carts : CreateOrder(w, k, cart)
    BY <1>1, <2>1, <2>6 DEF CreateOrder, Accept
  <2>7. CASE \E o \in DOMAIN orders : CancelOrder(w, o)
    BY <1>1, <2>1, <2>7 DEF CancelOrder, Accept
  <2>8. CASE \/ DuplicateOrder(w) \/ RejectOrder(w) \/ RejectCancel(w) \/ CommitCancel(w)
             \/ AbortOrder(w)
    BY <2>2, <2>8 DEF DuplicateOrder, RejectOrder, RejectCancel, CommitCancel, AbortOrder,
       Commit, Rollback, EndSession
  <2>9. CASE NextItem(w)
    <3>1. PICK q : job' = [job EXCEPT ![w].queue = q,
                              ![w].remaining = Head(job[w].todo).quantity,
                              ![w].todo = Tail(@)]
      BY <2>9 DEF NextItem
    <3>2. \A v \in Workers : job'[v].key = job[v].key
      BY <1>1, <2>4, <2>5, <3>1
    <3>. QED
      BY <2>3, <2>9, <3>2 DEF NextItem
  <2>10. CASE AllocateFrom(w)
    <3>1. PICK n, made : job' = [job EXCEPT ![w].queue = Tail(@), ![w].remaining = n,
                                            ![w].made = made]
      BY <2>10 DEF AllocateFrom
    <3>2. \A v \in Workers : job'[v].key = job[v].key
      BY <1>1, <2>4, <2>5, <3>1
    <3>. QED
      BY <2>3, <2>10, <3>2 DEF AllocateFrom
  <2>11. CASE ReadAllocations(w)
    <3>1. PICK q : job' = [job EXCEPT ![w].releasing = q]
      BY <2>11 DEF ReadAllocations
    <3>2. \A v \in Workers : job'[v].key = job[v].key
      BY <1>1, <2>4, <2>5, <3>1
    <3>. QED
      BY <2>3, <2>11, <3>2 DEF ReadAllocations
  <2>12. CASE ReleaseStock(w)
    <3>1. job' = [job EXCEPT ![w].releasing = Tail(@)]
      BY <2>12 DEF ReleaseStock
    <3>2. \A v \in Workers : job'[v].key = job[v].key
      BY <1>1, <2>4, <2>5, <3>1
    <3>. QED
      BY <2>3, <2>12, <3>2 DEF ReleaseStock
  <2>. QED
    BY <2>6, <2>7, <2>8, <2>9, <2>10, <2>11, <2>12
<1>4. \A a \in answers' \ answers : Truthy(a.key) => RightAnswer(a)
  <2>1. CASE DuplicateOrder(w)
    <3>1. /\ answers' = answers \cup {Answer(job[w].key, job[w].cart)}
          /\ WithKey(job[w].key) # {}
      BY <2>1 DEF DuplicateOrder, KeyTaken
    <3>2. Answer(job[w].key, job[w].cart).key = job[w].key
      BY DEF Answer
    <3>. QED
      BY <1>1, <3>1, <3>2, AnswerRight
  <2>2. CASE UNCHANGED answers
    BY <2>2
  <2>. QED
    BY <2>1, <2>2 DEF CreateOrder, CancelOrder, NextItem, AllocateFrom,
       RejectOrder, ReadAllocations, ReleaseStock, RejectCancel, CommitCancel, AbortOrder
<1>. QED
  BY <1>2, <1>3, <1>4, QuietKeys

\* A replay only answers.
LEMMA ReplayKeys ==
  ASSUME TypeInv, KeysInv, NEW k \in Keys, NEW cart \in Carts, ReplayOrder(k, cart)
  PROVE  KeysInv'
<1>1. /\ answers' = answers \cup {Answer(k, cart)}
      /\ Truthy(k) /\ WithKey(k) # {}
      /\ UNCHANGED <<orders, job, pc>>
  BY DEF ReplayOrder
<1>2. RightAnswer(Answer(k, cart))
  BY <1>1, AnswerRight DEF TypeInv, Typed, OrdersTypeOK
<1>. QED
  BY <1>1, <1>2, QuietKeys DEF SameKeys, NoNewHolder

\* The other modules' steps leave the orders and their sessions alone.
LEMMA ForeignKeys ==
  ASSUME TypeInv, KeysInv, UNCHANGED orderVars, NoNewHolder
  PROVE  KeysInv'
  BY QuietKeys DEF orderVars, SameKeys

\* Every step keeps the invariant of the keys.
LEMMA KeysStep ==
  ASSUME TypeInv, KeysInv, [Next]_vars
  PROVE  KeysInv'
<1>0. pc = [v \in Workers |-> pc[v]]
  BY DEF TypeInv, Typed
<1>1. CASE InventoryNext /\ UNCHANGED <<orderVars, warehouseVars>>
  <2>1. UNCHANGED pc
    BY <1>1 DEF InventoryNext, Reserve, Release
  <2>. QED
    BY <1>1, <2>1, ForeignKeys DEF NoNewHolder, orderVars
<1>2. CASE OrdersNext
  BY <1>2, ReplayKeys, InsertOrderKeys, CommitOrderKeys, OtherKeys
  DEF OrdersNext, Send, OrderStep
<1>3. CASE WarehousesNext /\ UNCHANGED orderVars
  <2>1. PICK w \in Workers : Deliver(w) \/ ReceiptStep(w) \/ AbortReceipt(w)
    BY <1>3 DEF WarehousesNext
  <2>2. \E step \in {"receive", "store", "idle"} : pc' = [pc EXCEPT ![w] = step]
    BY <2>1 DEF Deliver, ReceiptStep, GetWarehouse, Accept, LockWarehouse, RefuseReceipt,
       CommitReceipt, FailReceipt, AbortReceipt, Commit, Rollback, EndSession
  <2>3. NoNewHolder
    BY <1>0, <1>3, <2>2 DEF NoNewHolder, orderVars
  <2>. QED
    BY <1>3, <2>3, ForeignKeys
<1>4. CASE UNCHANGED vars
  BY <1>4, ForeignKeys DEF vars, storeVars, orderVars, NoNewHolder
<1>. QED
  BY <1>1, <1>2, <1>3, <1>4 DEF Next

\* It holds always.
LEMMA KeysInvariant == Spec => []KeysInv
<1>1. Init => KeysInv
  BY DEF Init, StoreInit, Opening, OrdersInit, KeysInv, KeyExclusive, OneOrderPerKey, KeyedAnswersRight
<1>2. TypeInv /\ KeysInv /\ [Next]_vars => KeysInv'
  BY KeysStep
<1>. QED
  BY <1>1, <1>2, TypeInvariant, PTL DEF Spec

\* No two sessions ever hold the same Idempotency-Key in an order they have
\* inserted, nor one that a committed order has.
THEOREM KeysExclusive == Spec => []KeyExclusive
<1>1. KeysInv => KeyExclusive
  BY DEF KeysInv
<1>. QED
  BY <1>1, KeysInvariant, PTL

\* There is at most one order for each Idempotency-Key, for any number of
\* sessions, whatever was checked before the insert.
THEOREM KeysUnique == Spec => []OneOrderPerKey
<1>1. KeysInv => OneOrderPerKey
  BY DEF KeysInv
<1>. QED
  BY <1>1, KeysInvariant, PTL

\* Every answer a client was ever given about a key with a value is true.
THEOREM AnswersRight == Spec => []KeyedAnswersRight
<1>1. KeysInv => KeyedAnswersRight
  BY DEF KeysInv
<1>. QED
  BY <1>1, KeysInvariant, PTL

-----------------------------------------------------------------------------

\* What IdempotentOrders sees of a Stock.
Placed == {[key |-> orders[o].key, cart |-> orders[o].cart, order |-> o] :
              o \in {n \in DOMAIN orders : Truthy(orders[n].key)}}
Told == {a \in answers : Truthy(a.key)}

\* The orders keep their keys and clients are told nothing, which nobody sees.
LEMMA UntoldPlacing ==
  ASSUME SameKeys, UNCHANGED answers
  PROVE  UNCHANGED Idempotent!placing
<1>1. Placed' = Placed
  BY DEF SameKeys, Placed, Truthy
<1>2. Told' = Told
  BY DEF Told, Truthy
<1>. QED
  BY <1>1, <1>2 DEF Idempotent!placing, Placed, Told

\* A client that sends a key that is taken is told of its order.
LEMMA AnswerPlacing ==
  ASSUME TypeInv, TypeInv', NEW k, NEW cart, WithKey(k) # {}, UNCHANGED orders,
         answers' = answers \cup {Answer(k, cart)}
  PROVE  [Idempotent!PlacingNext]_(Idempotent!placing)
<1>. DEFINE a == Answer(k, cart)
<1>1. Placed' = Placed
  BY DEF Placed, Truthy
<1>2. /\ a.key = k /\ a.cart = cart
      /\ a \in Answers /\ cart \in Carts
  BY DEF Answer, TypeInv, Typed, OrdersTypeOK, Answers
<1>3. CASE Truthy(k)
  <2>1. PICK o \in WithKey(k) : Same(k, cart) # {} => o = CHOOSE n \in Same(k, cart) : TRUE
    BY DEF Same
  <2>. DEFINE p == [key |-> orders[o].key, cart |-> orders[o].cart, order |-> o]
  <2>2. p \in Placed /\ p.key = k
    BY <1>3, <2>1 DEF Placed, WithKey
  <2>3. (p.cart = cart) <=> (Same(k, cart) # {})
    BY <2>1 DEF Same
  <2>4. a = [key |-> p.key, cart |-> cart,
             order |-> IF p.cart = cart THEN p.order ELSE 0]
    BY <1>3, <2>1, <2>2, <2>3 DEF Answer
  <2>5. Told' = Told \cup {a}
    BY <1>2, <1>3 DEF Told, Truthy
  <2>. HIDE DEF p, a
  <2>6. Idempotent!Tell(p, cart)
    BY <1>1, <2>4, <2>5 DEF Idempotent!Tell, Placed, Told
  <2>. QED
    BY <1>2, <2>2, <2>6 DEF Idempotent!PlacingNext, Placed
<1>4. CASE ~ Truthy(k)
  <2>1. Told' = Told
    BY <1>2, <1>4 DEF Told, Truthy
  <2>. QED
    BY <1>1, <2>1 DEF Idempotent!placing, Placed, Told
<1>. QED
  BY <1>3, <1>4

\* A commit places the order of its key, if it has one.
LEMMA CommitPlacing ==
  ASSUME TypeInv, TypeInv', KeysInv, NEW w \in Workers, CommitOrder(w)
  PROVE  [Idempotent!PlacingNext]_(Idempotent!placing)
<1>. DEFINE k == job[w].key
            n == Len(orders) + 1
            p == [key |-> k, cart |-> job[w].cart, order |-> n]
<1>1. /\ pc[w] = "allocate"
      /\ answers' = IF k = NoKey THEN answers ELSE answers \cup {p}
  BY DEF CommitOrder
<1>2. /\ DOMAIN orders' = DOMAIN orders \cup {n} /\ n \notin DOMAIN orders
      /\ \A o \in DOMAIN orders : orders'[o] = orders[o]
      /\ orders'[n].key = k /\ orders'[n].cart = job[w].cart
  <2>1. orders \in Seq(PlacedOrders)
    BY DEF TypeInv, Typed, OrdersTypeOK
  <2>. QED
    BY <2>1 DEF CommitOrder
<1>3. k \in Keys /\ job[w].cart \in Carts
  <2>1. orders' \in Seq(PlacedOrders)
    BY DEF TypeInv, Typed, OrdersTypeOK
  <2>. HIDE DEF n
  <2>2. orders'[n] \in PlacedOrders
    BY <1>2, <2>1
  <2>. QED
    BY <1>2, <2>2 DEF PlacedOrders
<1>. HIDE DEF n
<1>4. CASE Truthy(k)
  <2>1. Placed' = Placed \cup {p}
    BY <1>2, <1>4 DEF Placed, Truthy
  <2>2. Told' = Told \cup {p}
    BY <1>1, <1>4 DEF Told, Truthy
  <2>3. \A q \in Placed : q.key # k /\ q.order # n
    BY <1>1, <1>2, <1>4 DEF Placed, KeysInv, KeyExclusive, WithKey, Truthy
  <2>4. p \in Placed' /\ p.key = k /\ p.cart = job[w].cart /\ p.order = n
    BY <2>1
  <2>. HIDE DEF p
  <2>5. Idempotent!Place(k, job[w].cart)
    BY <2>1, <2>2, <2>3, <2>4 DEF Idempotent!Place, Placed, Told
  <2>6. \E key \in Keys, cart \in Carts : Idempotent!Place(key, cart)
    BY <1>3, <2>5 DEF Idempotent!Place
  <2>. QED
    BY <2>6 DEF Idempotent!PlacingNext
<1>5. CASE ~ Truthy(k)
  <2>1. Placed' = Placed
    BY <1>2, <1>5 DEF Placed, Truthy
  <2>2. Told' = Told
    BY <1>1, <1>5 DEF Told, Truthy
  <2>. QED
    BY <2>1, <2>2 DEF Idempotent!placing, Placed, Told
<1>. QED
  BY <1>4, <1>5

\* Every step is one that IdempotentOrders allows.
LEMMA PlacingStep ==
  ASSUME TypeInv, TypeInv', KeysInv, [Next]_vars
  PROVE  [Idempotent!PlacingNext]_(Idempotent!placing)
<1>1. CASE UNCHANGED orderVars
  BY <1>1, UntoldPlacing DEF orderVars, SameKeys
<1>2. ASSUME NEW k \in Keys, NEW cart \in Carts, ReplayOrder(k, cart)
      PROVE  [Idempotent!PlacingNext]_(Idempotent!placing)
  BY <1>2, AnswerPlacing DEF ReplayOrder
<1>3. ASSUME NEW w \in Workers, DuplicateOrder(w)
      PROVE  [Idempotent!PlacingNext]_(Idempotent!placing)
  BY <1>3, AnswerPlacing DEF DuplicateOrder, KeyTaken
<1>4. ASSUME NEW w \in Workers, CommitCancel(w)
      PROVE  [Idempotent!PlacingNext]_(Idempotent!placing)
  BY <1>4, CancelKeys, UntoldPlacing DEF CommitCancel
<1>5. ASSUME NEW w \in Workers, UNCHANGED <<orders, answers>>
      PROVE  [Idempotent!PlacingNext]_(Idempotent!placing)
  BY <1>5, UntoldPlacing DEF SameKeys
<1>6. CASE OrdersNext
  BY <1>2, <1>3, <1>4, <1>5, <1>6, CommitPlacing, ZenonT(40)
  DEF OrdersNext, Send, OrderStep, CreateOrder, CancelOrder, InsertOrder, orderVars, NextItem,
      AllocateFrom, RejectOrder, ReadAllocations, ReleaseStock, RejectCancel, AbortOrder
<1>. QED
  BY <1>1, <1>6 DEF Next, vars

\* Stock implements IdempotentOrders: however requests with one key race, retry
\* and fail, one of them places the order and all are told of it.
THEOREM OrdersPlacedOnce == Spec => PlacesOnce
<1>1. Init => Idempotent!PlacingInit
  BY DEF Init, StoreInit, Opening, OrdersInit, Idempotent!PlacingInit
<1>2. TypeInv /\ TypeInv' /\ KeysInv /\ [Next]_vars
          => [Idempotent!PlacingNext]_(Idempotent!placing)
  BY PlacingStep
<1>. QED
  BY <1>1, <1>2, KeysInvariant, TypeInvariant, PTL DEF Spec, PlacesOnce, Idempotent!PlacingSpec


-----------------------------------------------------------------------------
(***************************************************************************)
(* What a sequence of allocations gives.                                   *)
(***************************************************************************)

\* The quantities of the records of s, and the places of those that are in P.
Counts(s) == [n \in DOMAIN s |-> s[n].quantity]
Places(s, P) == {n \in DOMAIN s : s[n] \in P}

\* The quantity of the records of s that are in P.
Part(s, P) == SumOf(s, {n \in DOMAIN s : s[n] \in P})

\* It is the sum of natural numbers over a finite set.
LEMMA PartType ==
  ASSUME NEW A, \A x \in A : x.quantity \in Nat, NEW s \in Seq(A), NEW P
  PROVE  /\ IsFiniteSet(Places(s, P))
         /\ \A n \in DOMAIN s : Counts(s)[n] \in Nat
         /\ Part(s, P) = SumFunctionOnSet(Counts(s), Places(s, P))
         /\ Part(s, P) \in Nat
<1>. DEFINE N == Places(s, P)
            f == Counts(s)
<1>1. DOMAIN s = 1..Len(s) /\ Len(s) \in Nat /\ \A n \in DOMAIN s : s[n] \in A
  OBVIOUS
<1>2. IsFiniteSet(N)
  <2>1. IsFiniteSet(1..Len(s))
    BY <1>1, FS_Interval
  <2>2. N \subseteq 1..Len(s)
    BY <1>1 DEF Places
  <2>. HIDE DEF N
  <2>. QED
    BY <2>1, <2>2, FS_Subset
<1>3. \A n \in DOMAIN s : f[n] \in Nat
  BY <1>1 DEF Counts
<1>4. SumFunctionOnSet(f, N) \in Nat
  <2>1. \A n \in N : f[n] \in Nat /\ f[n] \in Int
    BY <1>3 DEF Places
  <2>. HIDE DEF f, N
  <2>. QED
    BY <1>2, <2>1, SumInt
<1>. QED
  BY <1>2, <1>3, <1>4 DEF Part, SumOf, Counts, Places

\* Nothing is in the empty sequence.
LEMMA PartEmpty == ASSUME NEW P PROVE Part(<<>>, P) = 0
<1>1. {n \in DOMAIN <<>> : <<>>[n] \in P} = {}
  OBVIOUS
<1>. QED
  BY <1>1, SumEmpty DEF Part, SumOf

\* One more record adds its quantity, if it is in P.
LEMMA PartAppend ==
  ASSUME NEW A, \A x \in A : x.quantity \in Nat, NEW s \in Seq(A), NEW e \in A, NEW P
  PROVE  Part(Append(s, e), P) = Part(s, P) + (IF e \in P THEN e.quantity ELSE 0)
<1>. DEFINE t == Append(s, e)
            k == Len(s) + 1
            f == Counts(s)
            g == Counts(t)
            S == Places(s, P)
            T == Places(t, P)
<1>1. /\ t \in Seq(A) /\ Len(s) \in Nat /\ DOMAIN s = 1..Len(s) /\ DOMAIN t = 1..k
      /\ t[k] = e /\ \A n \in DOMAIN s : t[n] = s[n]
  OBVIOUS
<1>2. /\ IsFiniteSet(S) /\ \A n \in DOMAIN s : f[n] \in Nat
      /\ IsFiniteSet(T) /\ \A n \in DOMAIN t : g[n] \in Nat
      /\ Part(s, P) = SumFunctionOnSet(f, S) /\ Part(t, P) = SumFunctionOnSet(g, T)
  BY <1>1, PartType
<1>3. /\ k \in DOMAIN t /\ g[k] = e.quantity /\ k \notin S
      /\ \A n \in S : g[n] = f[n] /\ f[n] \in Int
      /\ \A n \in S \cup {k} : n \in DOMAIN t => g[n] \in Int
      /\ S \subseteq DOMAIN t
  BY <1>1, <1>2 DEF Places, Counts
<1>4. T = IF e \in P THEN S \cup {k} ELSE S
  BY <1>1 DEF Places
<1>. HIDE DEF t, k, f, g, S, T
<1>5. SumFunctionOnSet(g, S) = SumFunctionOnSet(f, S) /\ SumFunctionOnSet(f, S) \in Int
  BY <1>2, <1>3, SumEqual, SumInt
<1>6. CASE e \in P
  <2>1. T = S \cup {k} /\ \A n \in S \cup {k} : g[n] \in Int
    BY <1>3, <1>4, <1>6
  <2>2. SumFunctionOnSet(g, S \cup {k}) = SumFunctionOnSet(g, S) + g[k]
    BY <1>2, <1>3, <2>1, SumAdd
  <2>3. Part(t, P) = SumFunctionOnSet(g, S \cup {k})
    BY <1>2, <2>1
  <2>4. Part(t, P) = Part(s, P) + e.quantity
    BY <1>2, <1>3, <1>5, <2>2, <2>3
  <2>. QED
    BY <1>6, <2>4 DEF t
<1>7. CASE e \notin P
  <2>1. T = S
    BY <1>4, <1>7
  <2>2. Part(t, P) = SumFunctionOnSet(g, S)
    BY <1>2, <2>1
  <2>3. Part(t, P) = Part(s, P) + 0
    BY <1>2, <1>5, <2>2
  <2>. QED
    BY <1>7, <2>3 DEF t
<1>. QED
  BY <1>6, <1>7

\* b moves the records of s to other places, those of t, which has no other
\* records of P.
Moves(b, s, t, P) ==
    /\ \A n \in DOMAIN s : b[n] \in DOMAIN t /\ t[b[n]] = s[n]
    /\ \A m, n \in DOMAIN s : b[m] = b[n] => m = n
    /\ \A m \in DOMAIN t : t[m] \in P => \E n \in DOMAIN s : b[n] = m

\* Moving records changes nothing.
LEMMA PartMove ==
  ASSUME NEW A, \A x \in A : x.quantity \in Nat, NEW s \in Seq(A), NEW t \in Seq(A), NEW P,
         NEW b, Moves(b, s, t, P)
  PROVE  Part(s, P) = Part(t, P)
<1>. DEFINE f == Counts(s)
            g == Counts(t)
            S == Places(s, P)
            T == Places(t, P)
<1>1. /\ IsFiniteSet(S) /\ \A n \in DOMAIN s : f[n] \in Nat
      /\ Part(s, P) = SumFunctionOnSet(f, S) /\ Part(t, P) = SumFunctionOnSet(g, T)
  BY PartType
<1>2. Renames(b, S, f, g)
  BY <1>1 DEF Places, Counts, Moves, Renames
<1>3. T = {b[n] : n \in S}
  BY DEF Places, Moves
<1>4. SumFunctionOnSet(g, {b[n] : n \in S}) = SumFunctionOnSet(f, S)
  <2>. HIDE DEF f, g, S, T
  <2>. QED
    BY <1>1, <1>2, SumRename
<1>5. SumFunctionOnSet(g, T) = SumFunctionOnSet(f, S)
  <2>. HIDE DEF f, g, S, T
  <2>. QED
    BY <1>3, <1>4
<1>. QED
  BY <1>1, <1>5

\* The records of a sequence in another order.
LEMMA PartReorder ==
  ASSUME NEW A, \A x \in A : x.quantity \in Nat, NEW t \in Seq(A), NEW P,
         NEW b \in SetToSeqs(DOMAIN t)
  PROVE  Part([n \in DOMAIN b |-> t[b[n]]], P) = Part(t, P)
<1>. DEFINE s == [n \in DOMAIN b |-> t[b[n]]]
<1>1. s \in Seq(A)
  BY ReorderType
<1>2. /\ DOMAIN t = 1..Len(t) /\ Len(t) \in Nat
      /\ IsFiniteSet(DOMAIN t) /\ Cardinality(DOMAIN t) = Len(t)
  <2>1. DOMAIN t = 1..Len(t) /\ Len(t) \in Nat
    OBVIOUS
  <2>. QED
    BY <2>1, FS_Interval
<1>3. /\ DOMAIN b = DOMAIN t /\ b \in [DOMAIN t -> DOMAIN t]
      /\ \A m, n \in DOMAIN t : b[m] = b[n] => m = n
  BY <1>2 DEF SetToSeqs
<1>4. b \in Surjection(DOMAIN t, DOMAIN t)
  <2>1. b \in Injection(DOMAIN t, DOMAIN t)
    BY <1>3 DEF Injection, IsInjective
  <2>. QED
    BY <1>2, <2>1, FS_Injection
<1>5. \A m \in DOMAIN t : \E n \in DOMAIN t : b[n] = m
  BY <1>4 DEF Surjection
<1>6. Moves(b, s, t, P)
  BY <1>3, <1>5 DEF Moves
<1>. HIDE DEF s
<1>7. Part(s, P) = Part(t, P)
  BY <1>1, <1>6, PartMove
<1>. QED
  BY <1>7 DEF s

\* A sequence gives what its head and its tail give.
LEMMA PartTail ==
  ASSUME NEW A, \A x \in A : x.quantity \in Nat, NEW s \in Seq(A), s # <<>>, NEW P
  PROVE  Part(s, P) = (IF Head(s) \in P THEN Head(s).quantity ELSE 0) + Part(Tail(s), P)
<1>. DEFINE t == Tail(s)
            b == [n \in DOMAIN t |-> n + 1]
            f == Counts(s)
            g == Counts(t)
            S == Places(s, P)
            T == Places(t, P)
<1>1. /\ t \in Seq(A) /\ Len(s) \in Nat \ {0} /\ DOMAIN s = 1..Len(s)
      /\ DOMAIN t = 1..(Len(s) - 1) /\ \A n \in DOMAIN t : t[n] = s[n + 1]
      /\ Head(s) = s[1] /\ Head(s) \in A
  OBVIOUS
<1>2. /\ IsFiniteSet(S) /\ \A n \in DOMAIN s : f[n] \in Nat
      /\ IsFiniteSet(T) /\ \A n \in DOMAIN t : g[n] \in Nat
      /\ Part(s, P) = SumFunctionOnSet(f, S) /\ Part(t, P) = SumFunctionOnSet(g, T)
      /\ Part(t, P) \in Nat
  BY <1>1, PartType
<1>3. /\ Renames(b, T, g, f)
      /\ f[1] = Head(s).quantity /\ 1 \notin S \ {1}
  BY <1>1, <1>2 DEF Places, Counts, Renames
<1>4. S \ {1} = {b[n] : n \in T}
  <2>1. ASSUME NEW n \in S \ {1}
        PROVE  n \in {b[m] : m \in T}
    <3>1. n - 1 \in DOMAIN t /\ n \in 2..Len(s)
      BY <1>1 DEF Places
    <3>2. n - 1 \in T /\ b[n - 1] = n
      BY <1>1, <3>1 DEF Places
    <3>. QED
      BY <3>2
  <2>2. ASSUME NEW m \in T
        PROVE  b[m] \in S \ {1}
    BY <1>1 DEF Places
  <2>. QED
    BY <2>1, <2>2
<1>5. SumFunctionOnSet(f, {b[n] : n \in T}) = SumFunctionOnSet(g, T)
  <2>. HIDE DEF f, g, b, S, T
  <2>. QED
    BY <1>2, <1>3, SumRename
<1>6. SumFunctionOnSet(f, S \ {1}) = Part(t, P)
  <2>. HIDE DEF f, g, b, S, T
  <2>. QED
    BY <1>2, <1>4, <1>5
<1>7. CASE Head(s) \in P
  <2>1. 1 \in S /\ \A n \in S : f[n] \in Int
    BY <1>1, <1>2, <1>7 DEF Places
  <2>2. SumFunctionOnSet(f, S) = f[1] + SumFunctionOnSet(f, S \ {1})
    <3>1. IsFiniteSet(S)
      BY <1>2
    <3>. HIDE DEF f, S
    <3>. QED
      BY <2>1, <3>1, SumRemove
  <2>. HIDE DEF f, g, S, T, t
  <2>3. Part(s, P) = Head(s).quantity + Part(t, P)
    BY <1>2, <1>3, <1>6, <2>2
  <2>. QED
    BY <1>7, <2>3 DEF t
<1>8. CASE Head(s) \notin P
  <2>1. S \ {1} = S
    BY <1>1, <1>8 DEF Places
  <2>2. SumFunctionOnSet(f, S) = SumFunctionOnSet(f, S \ {1})
    <3>. HIDE DEF f, S
    <3>. QED
      BY <2>1
  <2>. HIDE DEF f, g, S, T, t
  <2>3. Part(s, P) = 0 + Part(t, P)
    BY <1>2, <1>6, <2>2
  <2>. QED
    BY <1>8, <2>3 DEF t
<1>. QED
  BY <1>7, <1>8
-----------------------------------------------------------------------------
(***************************************************************************)
(* The items of an order are allocated one after the other.                *)
(***************************************************************************)
OfItem(i) == {a \in Allocations : a.item = i}
FromRow(r) == {a \in Allocations : a.row = r}

\* The items before the k-th are allocated in full, the k-th but for what
\* remains of it, and the others are still to do; what was allocated, and the
\* rows yet to look at, have the products of the items.
CartOK(w) ==
    LET cart == job[w].cart
        made == job[w].made
        k == ItemNumber(w)
    IN  /\ \A j \in DOMAIN job[w].todo : job[w].todo[j] = cart[k + j]
        /\ k = 0 => job[w].remaining = 0 /\ job[w].queue = <<>>
        /\ \A n \in DOMAIN job[w].queue : job[w].queue[n][1] = cart[k].product
        /\ \A n \in DOMAIN made :
              made[n].item \in 1..k /\ made[n].row[1] = cart[made[n].item].product
        /\ \A i \in DOMAIN cart :
              Part(made, OfItem(i)) + (IF i = k THEN job[w].remaining ELSE 0)
                  = IF i <= k THEN cart[i].quantity ELSE 0

JobOK(w) ==
    /\ pc[w] \notin OrderSteps => job[w] = NoJob
    /\ pc[w] \in {"insert", "allocate"} => CartOK(w)
    /\ pc[w] = "insert" => job[w].made = <<>>

JobsInv == \A w \in Workers : JobOK(w)

\* The types these steps rely on.
Handlers ==
    /\ DOMAIN pc = Workers
    /\ job \in [Workers -> Jobs]
    /\ \A w \in Workers :
          pc[w] \in {"insert", "allocate"} =>
              /\ job[w].key \in Keys /\ job[w].cart \in Carts
              /\ Len(job[w].todo) <= Len(job[w].cart)

\* Allocations count.
LEMMA AllocationsCount == \A a \in Allocations : a.quantity \in Nat
  BY DEF Allocations

\* The payload of a request is a sequence of items.
LEMMA CartFacts ==
  ASSUME NEW cart \in Carts
  PROVE  /\ cart \in Seq(Items) /\ Len(cart) \in Nat \ {0} /\ DOMAIN cart = 1..Len(cart)
         /\ \A i \in DOMAIN cart : cart[i].quantity \in Nat /\ cart[i].product \in Products
<1>1. cart \in Seq(Items) \ {<<>>}
  BY OrdersAssumption
<1>2. /\ cart \in Seq(Items) /\ Len(cart) \in Nat \ {0} /\ DOMAIN cart = 1..Len(cart)
      /\ \A i \in DOMAIN cart : cart[i] \in Items
  BY <1>1
<1>3. \A x \in Items : x.quantity \in Nat /\ x.product \in Products
  BY DEF Items
<1>. QED
  BY <1>2, <1>3

\* A request that has just arrived has everything to do,
LEMMA CreateJob ==
  ASSUME Handlers, JobsInv, NEW w \in Workers, NEW k \in Keys, NEW cart \in Carts,
         CreateOrder(w, k, cart)
  PROVE  JobOK(w)'
<1>1. /\ job[w] = NoJob /\ pc'[w] = "insert"
      /\ job' = [job EXCEPT ![w].key = k, ![w].cart = cart, ![w].todo = cart]
  BY DEF CreateOrder, Accept, JobsInv, JobOK, OrderSteps, Handlers
<1>2. /\ job'[w].cart = cart /\ job'[w].todo = cart /\ job'[w].queue = <<>>
      /\ job'[w].remaining = 0 /\ job'[w].made = <<>>
  BY <1>1 DEF NoJob, Handlers
<1>3. Len(cart) \in Nat \ {0} /\ DOMAIN cart = 1..Len(cart)
  BY CartFacts
<1>4. ItemNumber(w)' = 0
  BY <1>2, <1>3 DEF ItemNumber
<1>5. CartOK(w)'
  BY <1>2, <1>3, <1>4, PartEmpty DEF CartOK
<1>. QED
  BY <1>1, <1>2, <1>5 DEF JobOK, OrderSteps

\* and still has when its order is inserted.
LEMMA InsertJob ==
  ASSUME Handlers, JobsInv, NEW w \in Workers, InsertOrder(w)
  PROVE  JobOK(w)'
<1>1. job' = job /\ pc[w] = "insert" /\ pc'[w] = "allocate"
  BY DEF InsertOrder, orderVars, Handlers
<1>2. CartOK(w)
  BY <1>1 DEF JobsInv, JobOK
<1>. QED
  BY <1>1, <1>2 DEF JobOK, CartOK, ItemNumber, OrderSteps

\* The next item is taken up when nothing remains of the one before.
LEMMA NextItemJob ==
  ASSUME Handlers, JobsInv, NEW w \in Workers, NextItem(w)
  PROVE  JobOK(w)'
<1>. DEFINE cart == job[w].cart
            todo == job[w].todo
            made == job[w].made
            n == ItemNumber(w)
<1>1. /\ pc[w] = "allocate" /\ pc'[w] = "allocate" /\ todo # <<>>
      /\ job[w].remaining = 0
  BY DEF NextItem
<1>2. PICK q \in SetToSeqs(Candidates(w, Head(todo).product)) :
          job' = [job EXCEPT ![w].queue = q, ![w].remaining = Head(todo).quantity,
                             ![w].todo = Tail(@)]
  BY DEF NextItem
<1>3. /\ cart \in Carts /\ Len(todo) <= Len(cart) /\ CartOK(w)
      /\ job[w] \in Jobs /\ todo \in Seq(Items)
  BY <1>1 DEF Handlers, JobsInv, JobOK, Jobs
<1>4. /\ Len(cart) \in Nat /\ DOMAIN cart = 1..Len(cart)
      /\ Len(todo) \in Nat \ {0} /\ Len(Tail(todo)) = Len(todo) - 1
      /\ Head(todo) = todo[1] /\ DOMAIN todo = 1..Len(todo)
      /\ DOMAIN Tail(todo) = 1..(Len(todo) - 1)
      /\ \A j \in DOMAIN Tail(todo) : Tail(todo)[j] = todo[j + 1]
  BY <1>1, <1>3, CartFacts
<1>5. /\ job'[w].cart = cart /\ job'[w].todo = Tail(todo) /\ job'[w].queue = q
      /\ job'[w].remaining = Head(todo).quantity /\ job'[w].made = made
  BY <1>2, <1>3 DEF Handlers, Jobs
<1>6. /\ n \in Nat /\ n + 1 \in 1..Len(cart) /\ ItemNumber(w)' = n + 1
      /\ \A j \in DOMAIN todo : todo[j] = cart[n + j]
      /\ Head(todo) = cart[n + 1]
  <2>1. \A j \in DOMAIN todo : todo[j] = cart[n + j]
    BY <1>3 DEF CartOK
  <2>2. n = Len(cart) - Len(todo) /\ ItemNumber(w)' = Len(cart) - Len(Tail(todo))
    BY <1>5 DEF ItemNumber
  <2>. HIDE DEF n, cart, todo
  <2>. QED
    BY <1>3, <1>4, <2>1, <2>2
<1>7. \A m \in DOMAIN q : q[m][1] = cart[n + 1].product
  <2>1. Candidates(w, Head(todo).product) \in SUBSET Rows
    BY DEF Candidates
  <2>2. q \in [1..Cardinality(Candidates(w, Head(todo).product))
                  -> Candidates(w, Head(todo).product)]
    BY DEF SetToSeqs
  <2>. QED
    BY <1>6, <2>2 DEF Candidates
<1>8. ASSUME NEW j \in DOMAIN Tail(todo)
      PROVE  Tail(todo)[j] = cart[n + 1 + j]
  <2>1. j \in Nat /\ j + 1 \in DOMAIN todo /\ Tail(todo)[j] = todo[j + 1]
    BY <1>4
  <2>2. n + (j + 1) = n + 1 + j
    BY <1>6, <2>1
  <2>. HIDE DEF n, cart, todo
  <2>. QED
    BY <1>6, <2>1, <2>2
<1>9. \A m \in DOMAIN made : made[m].item \in 1..(n + 1)
                                 /\ made[m].row[1] = cart[made[m].item].product
  BY <1>3, <1>6 DEF CartOK
<1>10. ASSUME NEW i \in DOMAIN cart
       PROVE  Part(made, OfItem(i)) + (IF i = n + 1 THEN Head(todo).quantity ELSE 0)
                  = IF i <= n + 1 THEN cart[i].quantity ELSE 0
  <2>1. Part(made, OfItem(i)) + (IF i = n THEN 0 ELSE 0)
            = IF i <= n THEN cart[i].quantity ELSE 0
    BY <1>1, <1>3 DEF CartOK
  <2>2. Part(made, OfItem(i)) \in Nat
    BY <1>3, AllocationsCount, PartType DEF Jobs
  <2>3. cart[i].quantity \in Nat /\ i \in Nat
    BY <1>3, <1>4, CartFacts
  <2>. HIDE DEF n, cart, todo, made
  <2>. QED
    BY <1>6, <2>1, <2>2, <2>3
<1>11. CartOK(w)'
  <2>. HIDE DEF n, cart, todo, made
  <2>. QED
    BY <1>5, <1>6, <1>7, <1>8, <1>9, <1>10 DEF CartOK
<1>. QED
  BY <1>1, <1>11 DEF JobOK, OrderSteps

\* What is taken from a row no longer remains.
LEMMA AllocateJob ==
  ASSUME Handlers, JobsInv, NEW w \in Workers, AllocateFrom(w),
         Loaded(w, Head(job[w].queue)).available \in Nat
  PROVE  /\ JobOK(w)'
         /\ LET take == Least(job[w].remaining, Loaded(w, Head(job[w].queue)).available)
                r == Head(job[w].queue)
            IN  /\ take \in Nat /\ r \in Rows
                /\ job'[w].made = Made(w, r, take)
                /\ \A P : Part(job'[w].made, P) = Part(job[w].made, P) +
                       (IF take # 0 /\ [item |-> ItemNumber(w), row |-> r, quantity |-> take]
                                           \in P THEN take ELSE 0)
<1>. DEFINE cart == job[w].cart
            todo == job[w].todo
            made == job[w].made
            queue == job[w].queue
            rem == job[w].remaining
            n == ItemNumber(w)
            r == Head(queue)
            take == Least(rem, Loaded(w, r).available)
            e == [item |-> n, row |-> r, quantity |-> take]
<1>1. /\ pc[w] = "allocate" /\ pc' = pc /\ queue # <<>>
      /\ job' = [job EXCEPT ![w].queue = Tail(@), ![w].remaining = rem - take,
                            ![w].made = Made(w, r, take)]
  BY DEF AllocateFrom
<1>2. /\ cart \in Carts /\ Len(todo) <= Len(cart) /\ CartOK(w) /\ job[w] \in Jobs
      /\ todo \in Seq(Items) /\ queue \in Seq(Rows) /\ made \in Seq(Allocations)
      /\ rem \in Nat
  BY <1>1 DEF Handlers, JobsInv, JobOK, Jobs
<1>3. /\ take \in Nat /\ rem - take \in Nat
      /\ r \in Rows /\ r = queue[1] /\ Tail(queue) \in Seq(Rows)
      /\ Len(queue) \in Nat \ {0} /\ DOMAIN queue = 1..Len(queue)
      /\ DOMAIN Tail(queue) = 1..(Len(queue) - 1)
      /\ \A j \in DOMAIN Tail(queue) : Tail(queue)[j] = queue[j + 1]
      /\ Len(todo) \in Nat
  BY <1>1, <1>2 DEF Least
<1>4. /\ job'[w].cart = cart /\ job'[w].todo = todo /\ job'[w].queue = Tail(queue)
      /\ job'[w].remaining = rem - take /\ job'[w].made = Made(w, r, take)
  BY <1>1, <1>2 DEF Handlers, Jobs
<1>5. /\ n \in Nat /\ n \in 1..Len(cart) /\ ItemNumber(w)' = n
      /\ Len(cart) \in Nat /\ DOMAIN cart = 1..Len(cart)
  <2>1. Len(cart) \in Nat /\ DOMAIN cart = 1..Len(cart)
    BY <1>2, CartFacts
  <2>2. n # 0
    BY <1>1, <1>2 DEF CartOK
  <2>3. n = Len(cart) - Len(todo) /\ ItemNumber(w)' = Len(cart) - Len(todo)
    BY <1>4 DEF ItemNumber
  <2>. HIDE DEF n, cart, todo
  <2>. QED
    BY <1>2, <1>3, <2>1, <2>2, <2>3
<1>6. Made(w, r, take) = IF take = 0 THEN made ELSE Append(made, e)
  BY DEF Made
<1>7. take # 0 => e \in Allocations
  BY <1>3, <1>5 DEF Allocations
<1>8. ASSUME NEW P
      PROVE  /\ Part(made, P) \in Nat
             /\ Part(Made(w, r, take), P)
                    = Part(made, P) + (IF take # 0 /\ e \in P THEN take ELSE 0)
  <2>1. Part(made, P) \in Nat
    BY <1>2, AllocationsCount, PartType
  <2>2. CASE take = 0
    BY <1>6, <2>1, <2>2
  <2>3. CASE take # 0
    <3>1. Part(Append(made, e), P) = Part(made, P) + (IF e \in P THEN e.quantity ELSE 0)
      <4>1. e \in Allocations
        BY <1>7, <2>3
      <4>. HIDE DEF e, made
      <4>. QED
        BY <1>2, <4>1, AllocationsCount, PartAppend
    <3>2. e.quantity = take
      OBVIOUS
    <3>. HIDE DEF e, made, take
    <3>. QED
      BY <1>6, <2>1, <2>3, <3>1, <3>2
  <2>. QED
    BY <2>1, <2>2, <2>3
<1>a. \A j \in DOMAIN queue : queue[j][1] = cart[n].product
  BY <1>2 DEF CartOK
<1>9. \A j \in DOMAIN Tail(queue) : Tail(queue)[j][1] = cart[n].product
  <2>. HIDE DEF n, cart, queue
  <2>. QED
    BY <1>3, <1>a
<1>10. \A m \in DOMAIN Made(w, r, take) :
          /\ Made(w, r, take)[m].item \in 1..n
          /\ Made(w, r, take)[m].row[1] = cart[Made(w, r, take)[m].item].product
  <2>1. \A m \in DOMAIN made : made[m].item \in 1..n
                                 /\ made[m].row[1] = cart[made[m].item].product
    BY <1>2 DEF CartOK
  <2>2. e.item \in 1..n /\ e.row[1] = cart[e.item].product
    <3>1. r[1] = cart[n].product
      BY <1>3, <1>a
    <3>2. e.item = n /\ e.row = r
      OBVIOUS
    <3>. HIDE DEF n, cart, queue, e, r
    <3>. QED
      BY <1>5, <3>1, <3>2
  <2>3. \A m \in DOMAIN Append(made, e) :
            \/ m \in DOMAIN made /\ Append(made, e)[m] = made[m]
            \/ Append(made, e)[m] = e
    <3>. HIDE DEF e, made
    <3>. QED
      BY <1>2
  <2>. HIDE DEF e, made, take, n, cart
  <2>. QED
    BY <1>6, <2>1, <2>2, <2>3
<1>11. ASSUME NEW i \in DOMAIN cart
       PROVE  Part(Made(w, r, take), OfItem(i)) + (IF i = n THEN rem - take ELSE 0)
                  = IF i <= n THEN cart[i].quantity ELSE 0
  <2>1. Part(made, OfItem(i)) + (IF i = n THEN rem ELSE 0)
            = IF i <= n THEN cart[i].quantity ELSE 0
    BY <1>2 DEF CartOK
  <2>2. take # 0 => (e \in OfItem(i) <=> i = n)
    BY <1>7 DEF OfItem
  <2>3. cart[i].quantity \in Nat
    BY <1>2, CartFacts
  <2>4. /\ Part(made, OfItem(i)) \in Nat
        /\ Part(Made(w, r, take), OfItem(i))
               = Part(made, OfItem(i)) + (IF take # 0 /\ e \in OfItem(i) THEN take ELSE 0)
    BY <1>8
  <2>. HIDE DEF e, made, take, n, cart, rem
  <2>. QED
    BY <1>2, <1>3, <2>1, <2>2, <2>3, <2>4
<1>12. CartOK(w)'
  <2>1. \A j \in DOMAIN todo : todo[j] = cart[n + j]
    BY <1>2 DEF CartOK
  <2>. HIDE DEF e, made, take, n, cart, rem, queue, todo, r
  <2>. QED
    BY <1>4, <1>5, <1>9, <1>10, <1>11, <2>1 DEF CartOK
<1>13. JobOK(w)'
  BY <1>1, <1>12 DEF JobOK, OrderSteps
<1>. QED
  BY <1>3, <1>4, <1>8, <1>13

\* A step of a handler that ends it, or works on a cancellation.
LEMMA OtherJob ==
  ASSUME Handlers, NEW w \in Workers,
         \/ DuplicateOrder(w) \/ RejectOrder(w) \/ CommitOrder(w)
         \/ \E o \in DOMAIN orders : CancelOrder(w, o)
         \/ ReadAllocations(w) \/ ReleaseStock(w) \/ RejectCancel(w) \/ CommitCancel(w)
         \/ AbortOrder(w)
  PROVE  JobOK(w)'
<1>1. CASE \/ DuplicateOrder(w) \/ RejectOrder(w) \/ CommitOrder(w)
           \/ RejectCancel(w) \/ CommitCancel(w) \/ AbortOrder(w)
  <2>1. EndSession(w) /\ EndJob(w)
    BY <1>1 DEF DuplicateOrder, RejectOrder, CommitOrder, RejectCancel, CommitCancel,
                AbortOrder, Commit, Rollback
  <2>2. pc'[w] = "idle" /\ job'[w] = NoJob
    BY <2>1 DEF EndSession, EndJob, Handlers
  <2>. QED
    BY <2>2 DEF JobOK, OrderSteps
<1>2. CASE \/ \E o \in DOMAIN orders : CancelOrder(w, o)
           \/ ReadAllocations(w) \/ ReleaseStock(w)
  <2>1. pc'[w] \in {"cancel", "release"}
    BY <1>2 DEF CancelOrder, Accept, ReadAllocations, ReleaseStock, Handlers
  <2>. QED
    BY <2>1 DEF JobOK, OrderSteps
<1>. QED
  BY <1>1, <1>2

\* The other sessions keep their jobs when w takes a step.
LEMMA OthersJobs ==
  ASSUME Handlers, NEW w \in Workers, Send(w) \/ OrderStep(w) \/ AbortOrder(w),
         NEW v \in Workers \ {w}
  PROVE  pc'[v] = pc[v] /\ job'[v] = job[v]
<1>1. CASE \/ DuplicateOrder(w) \/ RejectOrder(w) \/ CommitOrder(w)
           \/ RejectCancel(w) \/ CommitCancel(w) \/ AbortOrder(w)
  <2>1. EndSession(w) /\ EndJob(w)
    BY <1>1 DEF DuplicateOrder, RejectOrder, CommitOrder, RejectCancel, CommitCancel,
                AbortOrder, Commit, Rollback
  <2>. QED
    BY <2>1 DEF EndSession, EndJob, Handlers
<1>2. CASE Send(w)
  BY <1>2 DEF Send, CreateOrder, CancelOrder, Accept, Handlers
<1>3. CASE InsertOrder(w)
  BY <1>3 DEF InsertOrder, orderVars, Handlers
<1>4. CASE NextItem(w)
  BY <1>4 DEF NextItem, Handlers
<1>5. CASE AllocateFrom(w)
  BY <1>5 DEF AllocateFrom, Handlers
<1>6. CASE ReadAllocations(w)
  BY <1>6 DEF ReadAllocations, Handlers
<1>7. CASE ReleaseStock(w)
  BY <1>7 DEF ReleaseStock, Handlers
<1>. QED
  BY <1>1, <1>2, <1>3, <1>4, <1>5, <1>6, <1>7 DEF OrderStep

\* Sessions whose variables stay are where they were.
LEMMA SameJob ==
  ASSUME NEW v, JobOK(v), pc'[v] = pc[v], job'[v] = job[v]
  PROVE  JobOK(v)'
  BY DEF JobOK, CartOK, ItemNumber

\* The steps of the handlers of orders keep the jobs as they should be,
LEMMA JobsStep ==
  ASSUME Handlers, JobsInv, NEW w \in Workers, Send(w) \/ OrderStep(w) \/ AbortOrder(w),
         \A r \in Rows : Loaded(w, r).available \in Nat
  PROVE  JobsInv'
<1>1. ASSUME AllocateFrom(w) PROVE JobOK(w)'
  <2>1. pc[w] = "allocate" /\ job[w].queue # <<>> /\ job[w].queue \in Seq(Rows)
    BY <1>1 DEF AllocateFrom, Handlers, Jobs
  <2>2. Loaded(w, Head(job[w].queue)).available \in Nat
    BY <2>1
  <2>. QED
    BY <1>1, <2>2, AllocateJob
<1>2. JobOK(w)'
  BY <1>1, CreateJob, InsertJob, NextItemJob, OtherJob DEF Send, OrderStep
<1>3. ASSUME NEW v \in Workers \ {w} PROVE JobOK(v)'
  <2>1. pc'[v] = pc[v] /\ job'[v] = job[v]
    BY OthersJobs
  <2>. QED
    BY <2>1, SameJob DEF JobsInv
<1>. QED
  BY <1>2, <1>3 DEF JobsInv

\* and other steps have nothing to do with them.
LEMMA JobsKept ==
  ASSUME JobsInv, job' = job,
         \A w \in Workers : \/ pc'[w] = pc[w]
                            \/ pc[w] \notin OrderSteps /\ pc'[w] \notin OrderSteps
  PROVE  JobsInv'
<1>. SUFFICES ASSUME NEW w \in Workers PROVE JobOK(w)'
  BY DEF JobsInv
<1>1. CASE pc'[w] = pc[w]
  BY <1>1, SameJob DEF JobsInv
<1>2. CASE pc[w] \notin OrderSteps /\ pc'[w] \notin OrderSteps
  BY <1>2 DEF JobsInv, JobOK, OrderSteps
<1>. QED
  BY <1>1, <1>2

-----------------------------------------------------------------------------
(***************************************************************************)
(* Committed orders are allocated in full.                                 *)
(***************************************************************************)
OrderFull(o) ==
    LET cart == orders[o].cart
        al == orders[o].allocations
    IN  /\ \A i \in DOMAIN cart : Part(al, OfItem(i)) = cart[i].quantity
        /\ \A n \in DOMAIN al :
              al[n].item \in DOMAIN cart /\ al[n].row[1] = cart[al[n].item].product

FullInv == \A o \in DOMAIN orders : OrderFull(o)

\* The orders keep their items and allocations, and there are no new ones.
SameGoods ==
    /\ DOMAIN orders' = DOMAIN orders
    /\ \A o \in DOMAIN orders : /\ orders'[o].cart = orders[o].cart
                                /\ orders'[o].allocations = orders[o].allocations

\* What an order is allocated of an item, and what it holds of a row.
LEMMA OrderParts ==
  ASSUME orders \in Seq(PlacedOrders), NEW o \in DOMAIN orders
  PROVE  /\ \A i : Allotted(o, i) = Part(orders[o].allocations, OfItem(i))
         /\ \A r : Held(o, r) = Part(orders[o].allocations, FromRow(r))
         /\ \A P : Part(orders[o].allocations, P) \in Nat
<1>. DEFINE al == orders[o].allocations
<1>1. al \in Seq(Allocations)
  <2>1. orders[o] \in PlacedOrders
    OBVIOUS
  <2>. QED
    BY <2>1 DEF PlacedOrders
<1>2. \A n \in DOMAIN al : al[n] \in Allocations
  BY <1>1
<1>3. /\ \A i : {n \in DOMAIN al : al[n].item = i} = {n \in DOMAIN al : al[n] \in OfItem(i)}
      /\ \A r : {n \in DOMAIN al : al[n].row = r} = {n \in DOMAIN al : al[n] \in FromRow(r)}
  BY <1>2 DEF OfItem, FromRow
<1>4. \A P : Part(al, P) \in Nat
  BY <1>1, AllocationsCount, PartType
<1>5. ASSUME NEW i PROVE Allotted(o, i) = Part(al, OfItem(i))
  BY <1>3 DEF Allotted, Part
<1>6. ASSUME NEW r PROVE Held(o, r) = Part(al, FromRow(r))
  BY <1>3 DEF Held, Part
<1>. QED
  BY <1>4, <1>5, <1>6

\* A commit adds an order that is allocated in full.
LEMMA CommitFull ==
  ASSUME Handlers, JobsInv, FullInv, orders \in Seq(PlacedOrders),
         NEW w \in Workers, CommitOrder(w)
  PROVE  FullInv'
<1>. DEFINE new == [key |-> job[w].key, cart |-> job[w].cart, allocations |-> job[w].made,
                    status |-> "ALLOCATED", released |-> FALSE]
            cart == job[w].cart
            made == job[w].made
<1>1. /\ orders' = Append(orders, new) /\ pc[w] = "allocate"
      /\ job[w].remaining = 0 /\ job[w].todo = <<>>
  BY DEF CommitOrder
<1>2. /\ CartOK(w) /\ cart \in Carts /\ made \in Seq(Allocations)
  BY <1>1 DEF Handlers, JobsInv, JobOK, Jobs
<1>3. /\ Len(orders) \in Nat /\ DOMAIN orders = 1..Len(orders)
      /\ DOMAIN orders' = 1..(Len(orders) + 1)
      /\ \A o \in DOMAIN orders : orders'[o] = orders[o]
      /\ orders'[Len(orders) + 1] = new
  BY <1>1
<1>4. Len(cart) \in Nat /\ DOMAIN cart = 1..Len(cart) /\ ItemNumber(w) = Len(cart)
      /\ \A i \in DOMAIN cart : cart[i].quantity \in Nat
  <2>1. Len(cart) \in Nat /\ DOMAIN cart = 1..Len(cart)
        /\ \A i \in DOMAIN cart : cart[i].quantity \in Nat
    BY <1>2, CartFacts
  <2>2. ItemNumber(w) = Len(cart) - 0
    BY <1>1 DEF ItemNumber
  <2>. QED
    BY <2>1, <2>2
<1>5. ASSUME NEW i \in DOMAIN cart
      PROVE  Part(made, OfItem(i)) = cart[i].quantity
  <2>1. Part(made, OfItem(i)) + (IF i = Len(cart) THEN 0 ELSE 0)
            = IF i <= Len(cart) THEN cart[i].quantity ELSE 0
    BY <1>1, <1>2, <1>4 DEF CartOK
  <2>2. Part(made, OfItem(i)) \in Nat
    BY <1>2, AllocationsCount, PartType
  <2>. HIDE DEF cart, made
  <2>. QED
    BY <1>4, <2>1, <2>2
<1>6. \A n \in DOMAIN made :
          made[n].item \in DOMAIN cart /\ made[n].row[1] = cart[made[n].item].product
  BY <1>2, <1>4 DEF CartOK
<1>7. ASSUME NEW o, o = Len(orders) + 1
      PROVE  OrderFull(o)'
  <2>1. orders'[o].cart = cart /\ orders'[o].allocations = made
    BY <1>3, <1>7
  <2>. HIDE DEF new, cart, made
  <2>. QED
    BY <1>5, <1>6, <2>1 DEF OrderFull
<1>8. ASSUME NEW o \in DOMAIN orders PROVE OrderFull(o)'
  BY <1>3, <1>8 DEF FullInv, OrderFull
<1>9. DOMAIN orders' = DOMAIN orders \cup {Len(orders) + 1}
  BY <1>3
<1>. QED
  BY <1>7, <1>8, <1>9 DEF FullInv

\* The other steps add none.
LEMMA SameGoodsFull ==
  ASSUME FullInv, SameGoods
  PROVE  FullInv'
  BY DEF FullInv, OrderFull, SameGoods

\* They leave the items and allocations alone.
LEMMA OthersSameGoods ==
  ASSUME orders \in Seq(PlacedOrders), NEW w \in Workers,
         Send(w) \/ OrderStep(w) \/ AbortOrder(w), ~ CommitOrder(w)
  PROVE  SameGoods
<1>1. CASE CommitCancel(w)
  BY <1>1 DEF CommitCancel, SameGoods, PlacedOrders
<1>2. CASE ~ CommitCancel(w)
  <2>1. orders' = orders
    BY <1>2 DEF Send, CreateOrder, CancelOrder, OrderStep, InsertOrder, DuplicateOrder,
       NextItem, AllocateFrom, RejectOrder, ReadAllocations, ReleaseStock, RejectCancel,
       AbortOrder, orderVars
  <2>. QED
    BY <2>1 DEF SameGoods
<1>. QED
  BY <1>1, <1>2

\* The types of Stock are those these lemmas rely on.
LEMMA HandlersType ==
  ASSUME TypeInv
  PROVE  /\ Handlers /\ orders \in Seq(PlacedOrders)
         /\ \A w \in Workers, r \in Rows : Loaded(w, r).available \in Nat
<1>1. StoreOK
  BY DEF TypeInv, Typed, StoreOK
<1>2. \A w \in Workers, r \in Rows : Loaded(w, r) \in Quantities
  BY <1>1, LoadedType
<1>. QED
  BY <1>2 DEF Handlers, TypeInv, Typed, OrdersTypeOK, LocalsOK, Quantities

\* Both hold at first,
LEMMA FullInit == Init => JobsInv /\ FullInv
  BY DEF Init, StoreInit, Opening, OrdersInit, JobsInv, JobOK, FullInv, OrderSteps

\* and every step keeps them.
LEMMA FullStep ==
  ASSUME TypeInv, JobsInv, FullInv, [Next]_vars
  PROVE  JobsInv' /\ FullInv'
<1>1. ASSUME NEW w \in Workers, Send(w) \/ OrderStep(w) \/ AbortOrder(w)
      PROVE  JobsInv' /\ FullInv'
  <2>1. JobsInv'
    BY <1>1, HandlersType, JobsStep
  <2>2. FullInv'
    BY <1>1, HandlersType, CommitFull, OthersSameGoods, SameGoodsFull
  <2>. QED
    BY <2>1, <2>2
<1>2. ASSUME job' = job, orders' = orders,
             \A w \in Workers : \/ pc'[w] = pc[w]
                                \/ pc[w] \notin OrderSteps /\ pc'[w] \notin OrderSteps
      PROVE  JobsInv' /\ FullInv'
  <2>1. SameGoods
    BY <1>2 DEF SameGoods
  <2>. QED
    BY <1>2, <2>1, JobsKept, SameGoodsFull
<1>3. CASE InventoryNext /\ UNCHANGED <<orderVars, warehouseVars>>
  <2>1. pc' = pc
    BY <1>3 DEF InventoryNext, Reserve, Release
  <2>. QED
    BY <1>2, <1>3, <2>1 DEF orderVars
<1>4. CASE OrdersNext
  <2>1. ASSUME NEW k \in Keys, NEW cart \in Carts, ReplayOrder(k, cart)
        PROVE  pc' = pc /\ job' = job /\ orders' = orders
    BY <2>1 DEF ReplayOrder
  <2>. QED
    BY <1>1, <1>2, <1>4, <2>1 DEF OrdersNext
<1>5. CASE WarehousesNext /\ UNCHANGED orderVars
  <2>1. PICK w \in Workers : Deliver(w) \/ ReceiptStep(w) \/ AbortReceipt(w)
    BY <1>5 DEF WarehousesNext
  <2>2. pc[w] \in {"idle", "receive", "store"}
        /\ \E step \in {"idle", "receive", "store"} : pc' = [pc EXCEPT ![w] = step]
    BY <2>1 DEF Deliver, GetWarehouse, Accept, ReceiptStep, LockWarehouse, RefuseReceipt,
       CommitReceipt, FailReceipt, AbortReceipt, ReceiptSteps, Rollback, Commit, EndSession,
       AtRow
  <2>3. DOMAIN pc = Workers
    BY HandlersType DEF Handlers
  <2>4. ASSUME NEW v \in Workers
        PROVE  pc'[v] = pc[v] \/ (pc[v] \notin OrderSteps /\ pc'[v] \notin OrderSteps)
    BY <2>2, <2>3 DEF OrderSteps
  <2>. QED
    BY <1>2, <1>5, <2>4 DEF orderVars
<1>6. CASE UNCHANGED vars
  BY <1>2, <1>6 DEF vars, storeVars, orderVars
<1>. QED
  BY <1>3, <1>4, <1>5, <1>6 DEF Next

\* So they hold always.
LEMMA FullInvariant == Spec => [](TypeInv /\ JobsInv /\ FullInv)
<1>1. TypeInv /\ (JobsInv /\ FullInv) /\ [Next]_vars => (JobsInv /\ FullInv)'
  BY FullStep
<1>. QED
  BY <1>1, FullInit, TypeInvariant, PTL DEF Spec

\* Every committed order is allocated in full, item by item, from rows of the
\* products it asked for, whatever else happened while it waited for its rows:
\* stock that was gone when it got the lock, aborts, other orders and
\* cancellations (orders.py:60-82).
THEOREM AllocatedInFull == Spec => []OrdersFullyAllocated
<1>1. TypeInv /\ FullInv => OrdersFullyAllocated
  BY HandlersType, OrderParts DEF FullInv, OrderFull, OrdersFullyAllocated
<1>. QED
  BY <1>1, FullInvariant, PTL

-----------------------------------------------------------------------------
(***************************************************************************)
(* What is reserved is what the orders that are not cancelled hold, while  *)
(* no order is cancelled twice at once and nobody reserves by hand.        *)
(***************************************************************************)

\* What a session has pending is what its order has been allocated, or what
\* the order it cancels no longer has to give back.
SessionBacked(w) ==
    \A r \in Rows :
        /\ pc[w] = "allocate" => posted[w][r] = Part(job[w].made, FromRow(r))
        /\ pc[w] = "release" =>
              posted[w][r] + Part(job[w].releasing, FromRow(r))
                  = Part(Unreleased(job[w].target), FromRow(r))

\* No order is cancelled by two sessions.
Separate ==
    \A v, w \in Workers :
        v # w /\ pc[v] \in {"cancel", "release"} /\ pc[w] \in {"cancel", "release"}
            => job[v].target # job[w].target

\* What the orders that are not cancelled hold of a row.
Open == {o \in DOMAIN orders : ~ orders[o].released}
Backing(r) == SumFunctionOnSet([o \in DOMAIN orders |-> Held(o, r)], Open)

SessionsBacked == \A w \in Workers : SessionBacked(w)
Backed == \A r \in Rows : inventory[r].reserved = Backing(r)

\* The types and facts these steps rely on.
Pending ==
    /\ orders \in Seq(PlacedOrders)
    /\ posted \in [Workers -> [Rows -> Nat]]
    /\ \A w \in Workers : pc[w] \in {"cancel", "release"} => job[w].target \in DOMAIN orders
    /\ \A w \in Workers : pc[w] \in {"insert", "cancel"} => \A r \in Rows : posted[w][r] = 0

\* The allocations of an order that it still has to give back.
LEMMA UnreleasedType ==
  ASSUME orders \in Seq(PlacedOrders), NEW o \in DOMAIN orders
  PROVE  Unreleased(o) \in Seq(Allocations)
<1>1. orders[o] \in PlacedOrders
  OBVIOUS
<1>. QED
  BY <1>1 DEF Unreleased, PlacedOrders

\* A request that is inserted, takes up an item or has just arrived.
LEMMA QuietBacked ==
  ASSUME Handlers, JobsInv, Pending, SessionsBacked, NEW w \in Workers,
         InsertOrder(w) \/ NextItem(w) \/ Send(w)
  PROVE  SessionBacked(w)'
<1>1. CASE InsertOrder(w)
  <2>1. /\ pc[w] = "insert" /\ pc'[w] = "allocate" /\ posted' = posted /\ job' = job
        /\ job[w].made = <<>>
    BY <1>1 DEF InsertOrder, orderVars, Handlers, JobsInv, JobOK
  <2>2. \A r \in Rows : posted[w][r] = 0
    BY <2>1 DEF Pending
  <2>. QED
    BY <2>1, <2>2, PartEmpty DEF SessionBacked
<1>2. CASE NextItem(w)
  <2>1. /\ pc[w] = "allocate" /\ pc' = pc /\ posted' = posted /\ job'[w].made = job[w].made
    BY <1>2, ZenonT(40) DEF NextItem, Handlers, Jobs
  <2>. QED
    BY <2>1 DEF SessionBacked, SessionsBacked
<1>3. CASE Send(w)
  <2>1. pc'[w] \in {"insert", "cancel"}
    BY <1>3 DEF Send, CreateOrder, CancelOrder, Accept, Handlers
  <2>. QED
    BY <2>1 DEF SessionBacked
<1>. QED
  BY <1>1, <1>2, <1>3

\* An allocation is posted with the quantity that is taken.
LEMMA AllocateBacked ==
  ASSUME Handlers, JobsInv, Pending, SessionsBacked, NEW w \in Workers, AllocateFrom(w),
         Loaded(w, Head(job[w].queue)).available \in Nat
  PROVE  SessionBacked(w)'
<1>. DEFINE r == Head(job[w].queue)
            take == Least(job[w].remaining, Loaded(w, r).available)
            e == [item |-> ItemNumber(w), row |-> r, quantity |-> take]
<1>1. /\ take \in Nat /\ r \in Rows
      /\ \A P : Part(job'[w].made, P) = Part(job[w].made, P)
                                            + (IF take # 0 /\ e \in P THEN take ELSE 0)
  BY AllocateJob
<1>2. /\ pc[w] = "allocate" /\ pc' = pc
      /\ posted' = [posted EXCEPT ![w][r] = @ + take]
      /\ job'[w].made = Made(w, r, take)
  BY DEF AllocateFrom, LockAndChange, Handlers, Jobs
<1>3. take # 0 => e \in Allocations
  <2>1. take # 0 /\ take \in Nat => take \in Nat \ {0}
    OBVIOUS
  <2>2. ItemNumber(w) \in Nat
    <3>1. /\ job[w].cart \in Carts /\ Len(job[w].todo) <= Len(job[w].cart)
          /\ job[w].todo \in Seq(Items)
      BY <1>2 DEF Handlers, Jobs
    <3>2. Len(job[w].cart) \in Nat /\ Len(job[w].todo) \in Nat
      BY <3>1, CartFacts
    <3>. QED
      BY <3>1, <3>2 DEF ItemNumber
  <2>. HIDE DEF take, r
  <2>. QED
    BY <1>1, <2>1, <2>2 DEF Allocations
<1>4. \A s \in Rows : take # 0 => (e \in FromRow(s) <=> s = r)
  BY <1>3 DEF FromRow
<1>. SUFFICES ASSUME NEW s \in Rows
              PROVE  posted'[w][s] = Part(job'[w].made, FromRow(s))
  BY <1>2 DEF SessionBacked
<1>5. /\ posted[w][s] = Part(job[w].made, FromRow(s)) /\ posted[w][s] \in Nat
  BY <1>2 DEF SessionBacked, SessionsBacked, Pending
<1>6. Part(job'[w].made, FromRow(s)) = Part(job[w].made, FromRow(s))
                                         + (IF take # 0 /\ e \in FromRow(s) THEN take ELSE 0)
  BY <1>1
<1>7. posted'[w][s] = posted[w][s] + (IF s = r THEN take ELSE 0)
  <2>1. posted \in [Workers -> [Rows -> Nat]]
    BY DEF Pending
  <2>. HIDE DEF take, r
  <2>. QED
    BY <1>1, <1>2, <1>5, <2>1
<1>8. take # 0 => (e \in FromRow(s) <=> s = r)
  BY <1>4
<1>. HIDE DEF take, r, e
<1>. QED
  BY <1>1, <1>5, <1>6, <1>7, <1>8

\* What a cancellation finds is all it has to give back, in any order,
LEMMA ReadBacked ==
  ASSUME Handlers, Pending, NEW w \in Workers, ReadAllocations(w)
  PROVE  SessionBacked(w)'
<1>. DEFINE found == Unreleased(job[w].target)
<1>1. /\ pc[w] = "cancel" /\ pc'[w] = "release" /\ posted' = posted /\ orders' = orders
  BY DEF ReadAllocations, Handlers
<1>2. PICK s \in SetToSeqs(DOMAIN found) :
          job' = [job EXCEPT ![w].releasing = [n \in DOMAIN s |-> found[s[n]]]]
  BY DEF ReadAllocations
<1>3. /\ job'[w].releasing = [n \in DOMAIN s |-> found[s[n]]]
      /\ job'[w].target = job[w].target
  BY <1>2 DEF Handlers, Jobs
<1>4. found \in Seq(Allocations)
  BY <1>1, UnreleasedType DEF Pending
<1>5. Unreleased(job[w].target)' = found
  BY <1>1, <1>3 DEF Unreleased
<1>. SUFFICES ASSUME NEW r \in Rows
              PROVE  posted'[w][r] + Part(job'[w].releasing, FromRow(r))
                         = Part(Unreleased(job[w].target)', FromRow(r))
  BY <1>1 DEF SessionBacked
<1>6. Part(job'[w].releasing, FromRow(r)) = Part(found, FromRow(r))
  <2>. HIDE DEF found
  <2>. QED
    BY <1>3, <1>4, AllocationsCount, PartReorder
<1>7. posted'[w][r] = 0 /\ Part(found, FromRow(r)) \in Nat
  BY <1>1, <1>4, AllocationsCount, PartType DEF Pending
<1>. HIDE DEF found
<1>. QED
  BY <1>5, <1>6, <1>7

\* and what it gives back it no longer has to.
LEMMA ReleaseBacked ==
  ASSUME Handlers, Pending, SessionsBacked, NEW w \in Workers, ReleaseStock(w)
  PROVE  SessionBacked(w)'
<1>. DEFINE rel == job[w].releasing
            a == Head(rel)
<1>1. /\ pc[w] = "release" /\ pc' = pc /\ orders' = orders /\ rel # <<>>
      /\ posted' = [posted EXCEPT ![w][a.row] = @ + a.quantity]
      /\ job' = [job EXCEPT ![w].releasing = Tail(@)]
  BY DEF ReleaseStock, LockAndChange
<1>2. rel \in Seq(Allocations) /\ a \in Allocations
  BY <1>1 DEF Handlers, Jobs
<1>3. job'[w].releasing = Tail(rel) /\ job'[w].target = job[w].target
  BY <1>1 DEF Handlers, Jobs
<1>4. Unreleased(job[w].target)' = Unreleased(job[w].target)
  BY <1>1, <1>3 DEF Unreleased
<1>. SUFFICES ASSUME NEW r \in Rows
              PROVE  posted'[w][r] + Part(job'[w].releasing, FromRow(r))
                         = Part(Unreleased(job[w].target)', FromRow(r))
  BY <1>1 DEF SessionBacked
<1>5. posted[w][r] + Part(rel, FromRow(r)) = Part(Unreleased(job[w].target), FromRow(r))
  BY <1>1 DEF SessionBacked, SessionsBacked
<1>6. Part(rel, FromRow(r)) = (IF a \in FromRow(r) THEN a.quantity ELSE 0)
                                  + Part(Tail(rel), FromRow(r))
  BY <1>1, <1>2, AllocationsCount, PartTail
<1>7. a \in FromRow(r) <=> a.row = r
  BY <1>2 DEF FromRow
<1>8. Tail(rel) \in Seq(Allocations)
  BY <1>1, <1>2
<1>9. Part(Tail(rel), FromRow(r)) \in Nat
  BY <1>8, AllocationsCount, PartType
<1>10. /\ posted \in [Workers -> [Rows -> Nat]] /\ posted[w][r] \in Nat
       /\ a.row \in Rows /\ a.quantity \in Nat
  BY <1>2 DEF Pending, Allocations
<1>. HIDE DEF rel, a
<1>11. posted'[w][r] = posted[w][r] + (IF a.row = r THEN a.quantity ELSE 0)
  BY <1>1, <1>10
<1>. QED
  BY <1>3, <1>4, <1>5, <1>6, <1>7, <1>9, <1>10, <1>11

\* A session that is not at work on a row has nothing to back,
LEMMA IdleBacked ==
  ASSUME NEW w, pc'[w] \notin {"allocate", "release"}
  PROVE  SessionBacked(w)'
  BY DEF SessionBacked

\* and one that stays where it is keeps what it has, as long as nobody else
\* cancels its order.
LEMMA SameBacked ==
  ASSUME NEW w, SessionBacked(w), pc'[w] = pc[w], job'[w] = job[w], posted'[w] = posted[w],
         pc[w] = "release" => Unreleased(job[w].target)' = Unreleased(job[w].target)
  PROVE  SessionBacked(w)'
  BY DEF SessionBacked

-----------------------------------------------------------------------------
\* The quantities an order holds are those of its allocations.
LEMMA HeldKept ==
  ASSUME NEW o, NEW r, orders'[o].allocations = orders[o].allocations
  PROVE  Held(o, r)' = Held(o, r)
  BY DEF Held

\* What the orders hold is a sum of natural numbers.
LEMMA BackingType ==
  ASSUME orders \in Seq(PlacedOrders), NEW r
  PROVE  /\ IsFiniteSet(DOMAIN orders) /\ IsFiniteSet(Open)
         /\ \A o \in DOMAIN orders : Held(o, r) \in Nat
         /\ Backing(r) \in Nat
<1>1. DOMAIN orders = 1..Len(orders) /\ Len(orders) \in Nat
  OBVIOUS
<1>2. IsFiniteSet(DOMAIN orders)
  BY <1>1, FS_Interval
<1>3. IsFiniteSet(Open)
  BY <1>2, FS_Subset DEF Open
<1>4. \A o \in DOMAIN orders : Held(o, r) \in Nat
  BY OrderParts
<1>. DEFINE f == [o \in DOMAIN orders |-> Held(o, r)]
<1>5. \A o \in Open : f[o] \in Nat /\ f[o] \in Int
  BY <1>4 DEF Open
<1>. HIDE DEF f
<1>6. SumFunctionOnSet(f, Open) \in Nat
  BY <1>3, <1>5, SumInt
<1>. QED
  BY <1>2, <1>3, <1>4, <1>6 DEF Backing, f

\* A new order adds what it was allocated.
LEMMA BackingAdd ==
  ASSUME orders \in Seq(PlacedOrders), NEW new \in PlacedOrders, ~ new.released,
         orders' = Append(orders, new), NEW r
  PROVE  Backing(r)' = Backing(r) + Part(new.allocations, FromRow(r))
<1>. DEFINE n == Len(orders) + 1
            f == [o \in DOMAIN orders |-> Held(o, r)]
            g == [o \in DOMAIN orders' |-> Held(o, r)']
<1>1. /\ Len(orders) \in Nat /\ DOMAIN orders = 1..Len(orders)
      /\ DOMAIN orders' = 1..n /\ orders'[n] = new
      /\ \A o \in DOMAIN orders : orders'[o] = orders[o]
      /\ orders' \in Seq(PlacedOrders)
  OBVIOUS
<1>2. /\ IsFiniteSet(Open) /\ \A o \in DOMAIN orders : Held(o, r) \in Nat
  BY BackingType
<1>3. Open' = Open \cup {n} /\ n \notin Open
  BY <1>1 DEF Open
<1>4. \A o \in DOMAIN orders : Held(o, r)' = Held(o, r)
  BY <1>1, HeldKept
<1>5. /\ g[n] = Part(new.allocations, FromRow(r)) /\ g[n] \in Nat
  <2>1. new.allocations \in Seq(Allocations)
    BY DEF PlacedOrders
  <2>2. {m \in DOMAIN new.allocations : new.allocations[m].row = r}
          = {m \in DOMAIN new.allocations : new.allocations[m] \in FromRow(r)}
    BY <2>1 DEF FromRow
  <2>3. \A o : o = n => Held(o, r)' = Part(new.allocations, FromRow(r))
    BY <1>1, <2>2 DEF Held, Part
  <2>4. Part(new.allocations, FromRow(r)) \in Nat
    BY <2>1, AllocationsCount, PartType
  <2>5. n \in DOMAIN orders'
    BY <1>1
  <2>. QED
    BY <2>3, <2>4, <2>5
<1>6. \A o \in Open : f[o] \in Int /\ g[o] = f[o] /\ g[o] \in Int
  BY <1>1, <1>2, <1>4 DEF Open
<1>7. Backing(r) = SumFunctionOnSet(f, Open) /\ Backing(r)' = SumFunctionOnSet(g, Open')
  BY DEF Backing
<1>. HIDE DEF f, g, n
<1>8. SumFunctionOnSet(g, Open \cup {n}) = SumFunctionOnSet(g, Open) + g[n]
  BY <1>2, <1>3, <1>5, <1>6, SumAdd
<1>9. SumFunctionOnSet(g, Open) = SumFunctionOnSet(f, Open)
  BY <1>2, <1>6, SumEqual
<1>10. SumFunctionOnSet(g, Open') = SumFunctionOnSet(g, Open \cup {n})
  BY <1>3
<1>. QED
  BY <1>5, <1>7, <1>8, <1>9, <1>10

\* A cancelled order no longer counts.
LEMMA BackingRemove ==
  ASSUME orders \in Seq(PlacedOrders), NEW o \in DOMAIN orders, SameGoods,
         \A p \in DOMAIN orders \ {o} : orders'[p] = orders[p], orders'[o].released, NEW r
  PROVE  Backing(r)' = Backing(r) - Part(Unreleased(o), FromRow(r))
<1>. DEFINE f == [p \in DOMAIN orders |-> Held(p, r)]
            g == [p \in DOMAIN orders' |-> Held(p, r)']
<1>1. /\ IsFiniteSet(Open) /\ \A p \in DOMAIN orders : Held(p, r) \in Nat
      /\ Backing(r) \in Nat
  BY BackingType
<1>2. Open' = Open \ {o}
  BY DEF Open, SameGoods
<1>3. \A p \in DOMAIN orders : Held(p, r)' = Held(p, r)
  BY HeldKept DEF SameGoods
<1>4. DOMAIN orders' = DOMAIN orders
  BY DEF SameGoods
<1>5. /\ Backing(r) = SumFunctionOnSet(f, Open) /\ Backing(r)' = SumFunctionOnSet(g, Open')
      /\ \A p \in Open : f[p] \in Int /\ g[p] = f[p]
      /\ IsFiniteSet(Open \ {o})
  BY <1>1, <1>3, <1>4, FS_Subset DEF Backing, Open
<1>6. SumFunctionOnSet(g, Open') = SumFunctionOnSet(f, Open \ {o})
  <2>. HIDE DEF f, g
  <2>1. SumFunctionOnSet(g, Open \ {o}) = SumFunctionOnSet(f, Open \ {o})
    BY <1>5, SumEqual
  <2>. QED
    BY <1>2, <2>1
<1>7. CASE o \in Open
  <2>1. Unreleased(o) = orders[o].allocations /\ f[o] = Held(o, r)
    BY <1>7 DEF Unreleased, Open
  <2>2. f[o] = Part(Unreleased(o), FromRow(r)) /\ f[o] \in Nat
    BY <1>1, <2>1, OrderParts
  <2>. HIDE DEF f, g
  <2>3. SumFunctionOnSet(f, Open) = f[o] + SumFunctionOnSet(f, Open \ {o})
    BY <1>1, <1>5, <1>7, SumRemove
  <2>4. SumFunctionOnSet(f, Open \ {o}) \in Int
    BY <1>5, SumInt
  <2>. QED
    BY <1>5, <1>6, <2>2, <2>3, <2>4
<1>8. CASE o \notin Open
  <2>1. Unreleased(o) = <<>> /\ Part(<<>>, FromRow(r)) = 0
    BY <1>8, PartEmpty DEF Unreleased, Open
  <2>2. Open \ {o} = Open
    BY <1>8
  <2>. HIDE DEF f, g
  <2>3. SumFunctionOnSet(f, Open \ {o}) = SumFunctionOnSet(f, Open)
    BY <2>2
  <2>. QED
    BY <1>1, <1>5, <1>6, <2>1, <2>3
<1>. QED
  BY <1>7, <1>8

\* Nothing else changes what the orders hold.
LEMMA BackingKept ==
  ASSUME orders \in Seq(PlacedOrders), SameGoods,
         \A o \in DOMAIN orders : orders'[o].released = orders[o].released, NEW r
  PROVE  Backing(r)' = Backing(r)
<1>1. Open' = Open
  BY DEF Open, SameGoods
<1>2. \A o \in DOMAIN orders : Held(o, r)' = Held(o, r)
  BY HeldKept DEF SameGoods
<1>3. [o \in DOMAIN orders |-> Held(o, r)]' = [o \in DOMAIN orders |-> Held(o, r)]
  BY <1>2 DEF SameGoods
<1>. QED
  BY <1>1, <1>3 DEF Backing

-----------------------------------------------------------------------------
\* Nobody posts for another session, and only the session that cancels an
\* order takes back its allocations.
LEMMA OthersPosted ==
  ASSUME Handlers, Pending, NEW w \in Workers, Send(w) \/ OrderStep(w) \/ AbortOrder(w),
         NEW v \in Workers \ {w}
  PROVE  posted'[v] = posted[v]
<1>0. posted \in [Workers -> [Rows -> Nat]]
  BY DEF Pending
<1>1. CASE \/ DuplicateOrder(w) \/ RejectOrder(w) \/ CommitOrder(w)
           \/ RejectCancel(w) \/ CommitCancel(w) \/ AbortOrder(w)
  <2>1. EndSession(w)
    BY <1>1 DEF DuplicateOrder, RejectOrder, CommitOrder, RejectCancel, CommitCancel,
                AbortOrder, Commit, Rollback
  <2>. QED
    BY <1>0, <2>1 DEF EndSession
<1>2. CASE Send(w)
  BY <1>2 DEF Send, CreateOrder, CancelOrder, Accept
<1>3. CASE InsertOrder(w) \/ NextItem(w) \/ ReadAllocations(w)
  BY <1>3 DEF InsertOrder, NextItem, ReadAllocations
<1>4. CASE AllocateFrom(w) \/ ReleaseStock(w)
  BY <1>0, <1>4 DEF AllocateFrom, ReleaseStock, LockAndChange
<1>. QED
  BY <1>1, <1>2, <1>3, <1>4 DEF OrderStep

LEMMA OthersUnreleased ==
  ASSUME Handlers, Pending, NEW w \in Workers, Send(w) \/ OrderStep(w) \/ AbortOrder(w),
         NEW o \in DOMAIN orders, CommitCancel(w) => job[w].target # o
  PROVE  Unreleased(o)' = Unreleased(o)
<1>0. orders \in Seq(PlacedOrders)
  BY DEF Pending
<1>1. orders'[o] = orders[o]
  <2>1. CASE CommitCancel(w)
    BY <1>0, <2>1 DEF CommitCancel
  <2>2. CASE CommitOrder(w)
    BY <1>0, <2>2 DEF CommitOrder
  <2>3. CASE ~ CommitCancel(w) /\ ~ CommitOrder(w)
    BY <2>3 DEF Send, CreateOrder, CancelOrder, OrderStep, InsertOrder, DuplicateOrder,
       NextItem, AllocateFrom, RejectOrder, ReadAllocations, ReleaseStock, RejectCancel,
       AbortOrder, orderVars
  <2>. QED
    BY <2>1, <2>2, <2>3
<1>. QED
  BY <1>1 DEF Unreleased

\* The steps of the handlers of orders keep every session backed.
LEMMA SessionsBackedStep ==
  ASSUME Handlers, JobsInv, Pending, SessionsBacked, Separate,
         NEW w \in Workers, Send(w) \/ OrderStep(w) \/ AbortOrder(w),
         \A r \in Rows : Loaded(w, r).available \in Nat
  PROVE  SessionsBacked'
<1>1. ASSUME AllocateFrom(w) PROVE SessionBacked(w)'
  <2>1. pc[w] = "allocate" /\ job[w].queue # <<>> /\ job[w].queue \in Seq(Rows)
    BY <1>1 DEF AllocateFrom, Handlers, Jobs
  <2>2. Loaded(w, Head(job[w].queue)).available \in Nat
    BY <2>1
  <2>. QED
    BY <1>1, <2>2, AllocateBacked
<1>2. ASSUME \/ DuplicateOrder(w) \/ RejectOrder(w) \/ CommitOrder(w)
             \/ RejectCancel(w) \/ CommitCancel(w) \/ AbortOrder(w)
      PROVE  SessionBacked(w)'
  <2>1. EndSession(w)
    BY <1>2 DEF DuplicateOrder, RejectOrder, CommitOrder, RejectCancel, CommitCancel,
                AbortOrder, Commit, Rollback
  <2>2. pc'[w] = "idle"
    BY <2>1 DEF EndSession, Handlers
  <2>. QED
    BY <2>2, IdleBacked
<1>3. SessionBacked(w)'
  BY <1>1, <1>2, QuietBacked, ReadBacked, ReleaseBacked DEF OrderStep
<1>4. ASSUME NEW v \in Workers \ {w} PROVE SessionBacked(v)'
  <2>1. pc'[v] = pc[v] /\ job'[v] = job[v] /\ posted'[v] = posted[v]
    BY OthersJobs, OthersPosted
  <2>2. ASSUME pc[v] = "release"
        PROVE  Unreleased(job[v].target)' = Unreleased(job[v].target)
    <3>1. /\ job[v].target \in DOMAIN orders
          /\ CommitCancel(w) => job[w].target # job[v].target
      BY <2>2 DEF Pending, Separate, CommitCancel
    <3>2. \A o \in DOMAIN orders : o = job[v].target => Unreleased(o)' = Unreleased(o)
      BY <3>1, OthersUnreleased
    <3>3. job[v].target' = job[v].target
      BY <2>1
    <3>. QED
      BY <3>1, <3>2, <3>3 DEF Unreleased
  <2>. QED
    BY <2>1, <2>2, SameBacked DEF SessionsBacked
<1>. QED
  BY <1>3, <1>4 DEF SessionsBacked

\* What an order reserves is what it has been allocated, and what a
\* cancellation releases is all that its order held.
LEMMA BackedCommit ==
  ASSUME Handlers, Pending, SessionsBacked, Backed, NEW w \in Workers,
         \A r \in Rows : inventory[r].reserved \in Nat,
         \/ /\ CommitOrder(w)
            /\ \A r \in Rows : inventory'[r].reserved = inventory[r].reserved + posted[w][r]
         \/ /\ CommitCancel(w)
            /\ \A r \in Rows : inventory'[r].reserved = inventory[r].reserved - posted[w][r]
  PROVE  Backed'
<1>0. orders \in Seq(PlacedOrders)
  BY DEF Pending
<1>. SUFFICES ASSUME NEW r \in Rows
              PROVE  inventory'[r].reserved = Backing(r)'
  BY DEF Backed
<1>1. inventory[r].reserved = Backing(r) /\ Backing(r) \in Nat /\ posted[w][r] \in Nat
  BY <1>0, BackingType DEF Backed, Pending
<1>2. CASE /\ CommitOrder(w)
           /\ inventory'[r].reserved = inventory[r].reserved + posted[w][r]
  <2>. DEFINE new == [key |-> job[w].key, cart |-> job[w].cart,
                      allocations |-> job[w].made, status |-> "ALLOCATED",
                      released |-> FALSE]
  <2>1. orders' = Append(orders, new) /\ pc[w] = "allocate"
    BY <1>2 DEF CommitOrder
  <2>2. new \in PlacedOrders
    BY <2>1 DEF Handlers, Jobs, PlacedOrders, OrderStatus
  <2>3. new.allocations = job[w].made /\ ~ new.released
    OBVIOUS
  <2>. HIDE DEF new
  <2>4. Backing(r)' = Backing(r) + Part(job[w].made, FromRow(r))
    BY <1>0, <2>1, <2>2, <2>3, BackingAdd
  <2>5. posted[w][r] = Part(job[w].made, FromRow(r))
    BY <2>1 DEF SessionsBacked, SessionBacked
  <2>. QED
    BY <1>1, <1>2, <2>4, <2>5
<1>3. CASE /\ CommitCancel(w)
           /\ inventory'[r].reserved = inventory[r].reserved - posted[w][r]
  <2>. DEFINE o == job[w].target
  <2>1. /\ pc[w] = "release" /\ job[w].releasing = <<>> /\ o \in DOMAIN orders
        /\ orders' = [orders EXCEPT ![o] = [@ EXCEPT !.status = "CANCELLED",
                                                     !.released = TRUE]]
    BY <1>3 DEF CommitCancel, Pending
  <2>2. /\ SameGoods /\ orders'[o].released
        /\ \A p \in DOMAIN orders \ {o} : orders'[p] = orders[p]
    <3>1. /\ orders[o] \in PlacedOrders
          /\ orders'[o] = [orders[o] EXCEPT !.status = "CANCELLED", !.released = TRUE]
          /\ DOMAIN orders' = DOMAIN orders
          /\ \A p \in DOMAIN orders \ {o} : orders'[p] = orders[p]
      BY <1>0, <2>1
    <3>2. /\ orders'[o].released /\ orders'[o].cart = orders[o].cart
          /\ orders'[o].allocations = orders[o].allocations
      BY <3>1 DEF PlacedOrders
    <3>. HIDE DEF o
    <3>. QED
      BY <2>1, <3>1, <3>2 DEF SameGoods
  <2>3. posted[w][r] + Part(<<>>, FromRow(r)) = Part(Unreleased(o), FromRow(r))
    BY <2>1 DEF SessionsBacked, SessionBacked
  <2>4. Part(<<>>, FromRow(r)) = 0
    BY PartEmpty
  <2>. HIDE DEF o
  <2>5. Backing(r)' = Backing(r) - Part(Unreleased(o), FromRow(r))
    BY <1>0, <2>1, <2>2, BackingRemove
  <2>. QED
    BY <1>1, <1>3, <2>3, <2>4, <2>5
<1>. QED
  BY <1>2, <1>3

\* Steps that reserve nothing and cancel nothing.
LEMMA BackedKept ==
  ASSUME orders \in Seq(PlacedOrders), Backed, SameGoods,
         \A o \in DOMAIN orders : orders'[o].released = orders[o].released,
         \A r \in Rows : inventory'[r].reserved = inventory[r].reserved
  PROVE  Backed'
  BY BackingKept DEF Backed

BackedInv == SessionsBacked /\ Separate /\ Backed

\* The types and the invariant of Stock give what these lemmas rely on.
LEMMA PendingType ==
  ASSUME TypeInv, StockInv
  PROVE  Pending /\ \A r \in Rows : inventory[r].reserved \in Nat
  BY DEF TypeInv, Typed, StoreTypeOK, OrdersTypeOK, LocalsOK, StockInv, SessionOK, LocksOK,
         LockingSteps, Pending, Quantities

\* Nobody sends a request to cancel an order that is being cancelled.
LEMMA SeparateStep ==
  ASSUME OverlappingCancels = FALSE, Handlers, Separate, NEW w \in Workers,
         Send(w) \/ OrderStep(w) \/ AbortOrder(w)
  PROVE  Separate'
<1>1. \A v \in Workers \ {w} : pc'[v] = pc[v] /\ job'[v] = job[v]
  BY OthersJobs
<1>2. ASSUME NEW o \in DOMAIN orders, CancelOrder(w, o)
      PROVE  Separate'
  <2>1. /\ pc'[w] = "cancel" /\ job'[w].target = o
        /\ \A v \in Workers : ~ Cancelling(v, o)
    BY <1>2 DEF CancelOrder, Accept, Handlers, Jobs
  <2>. QED
    BY <1>1, <2>1 DEF Separate, Cancelling
<1>3. ASSUME \A o \in DOMAIN orders : ~ CancelOrder(w, o)
      PROVE  pc'[w] \in {"cancel", "release"} =>
                 pc[w] \in {"cancel", "release"} /\ job'[w].target = job[w].target
  <2>1. CASE \/ DuplicateOrder(w) \/ RejectOrder(w) \/ CommitOrder(w)
             \/ RejectCancel(w) \/ CommitCancel(w) \/ AbortOrder(w)
    <3>1. EndSession(w)
      BY <2>1 DEF DuplicateOrder, RejectOrder, CommitOrder, RejectCancel, CommitCancel,
                  AbortOrder, Commit, Rollback
    <3>. QED
      BY <3>1 DEF EndSession, Handlers
  <2>2. CASE \E k \in Keys, cart \in Carts : CreateOrder(w, k, cart)
    BY <2>2 DEF CreateOrder, Accept, Handlers
  <2>3. CASE InsertOrder(w) \/ NextItem(w) \/ AllocateFrom(w)
    BY <2>3 DEF InsertOrder, NextItem, AllocateFrom, Handlers
  <2>4. CASE ReadAllocations(w) \/ ReleaseStock(w)
    BY <2>4 DEF ReadAllocations, ReleaseStock, Handlers, Jobs
  <2>. QED
    BY <1>3, <2>1, <2>2, <2>3, <2>4 DEF Send, OrderStep
<1>4. ASSUME \A o \in DOMAIN orders : ~ CancelOrder(w, o)
      PROVE  Separate'
  BY <1>1, <1>3, <1>4 DEF Separate
<1>. QED
  BY <1>2, <1>4

\* The steps of orders,
LEMMA BackedStepOrders ==
  ASSUME OverlappingCancels = FALSE \/ Separate', TypeInv, StockInv, JobsInv, BackedInv,
         NEW w \in Workers, Send(w) \/ OrderStep(w) \/ AbortOrder(w)
  PROVE  BackedInv'
<1>1. /\ Handlers /\ Pending /\ \A r \in Rows : Loaded(w, r).available \in Nat
      /\ orders \in Seq(PlacedOrders) /\ \A r \in Rows : inventory[r].reserved \in Nat
      /\ inventory \in [Rows -> Quantities]
  BY HandlersType, PendingType DEF TypeInv, Typed, StoreTypeOK
<1>2. SessionsBacked'
  BY <1>1, SessionsBackedStep DEF BackedInv
<1>3. Separate'
  BY <1>1, SeparateStep DEF BackedInv
<1>4. CASE CommitOrder(w)
  <2>1. Reserving(posted[w])
    BY <1>4, CommitChange
  <2>2. \A r \in Rows : inventory'[r].reserved = inventory[r].reserved + posted[w][r]
    BY <2>1 DEF Reserving, Moved, Take
  <2>3. Backed'
    BY <1>1, <1>4, <2>2, BackedCommit DEF BackedInv
  <2>. QED
    BY <1>2, <1>3, <2>3 DEF BackedInv
<1>5. CASE CommitCancel(w)
  <2>1. Releasing(posted[w])
    BY <1>5, CommitChange
  <2>2. \A r \in Rows : inventory'[r].reserved = inventory[r].reserved - posted[w][r]
    BY <2>1 DEF Releasing, Moved, GiveBack
  <2>3. Backed'
    BY <1>1, <1>5, <2>2, BackedCommit DEF BackedInv
  <2>. QED
    BY <1>2, <1>3, <2>3 DEF BackedInv
<1>6. CASE ~ CommitOrder(w) /\ ~ CommitCancel(w)
  <2>1. inventory' = inventory /\ orders' = orders
    BY <1>6 DEF Send, CreateOrder, CancelOrder, Accept, OrderStep, InsertOrder,
       DuplicateOrder, NextItem, AllocateFrom, RejectOrder, ReadAllocations, ReleaseStock,
       RejectCancel, AbortOrder, Rollback, orderVars
  <2>2. Backed'
    BY <1>1, <2>1, BackedKept DEF BackedInv, SameGoods
  <2>. QED
    BY <1>2, <1>3, <2>2 DEF BackedInv
<1>. QED
  BY <1>4, <1>5, <1>6

\* and the steps of others, which change no order.
LEMMA BackedStepOthers ==
  ASSUME TypeInv, BackedInv, UNCHANGED <<orders, job>>,
         \A r \in Rows : inventory'[r].reserved = inventory[r].reserved,
         \A w \in Workers : \/ pc'[w] = pc[w] /\ posted'[w] = posted[w]
                            \/ pc'[w] \notin OrderSteps
  PROVE  BackedInv'
<1>1. ASSUME NEW w \in Workers PROVE SessionBacked(w)'
  <2>1. CASE pc'[w] = pc[w] /\ posted'[w] = posted[w]
    <3>1. job'[w] = job[w] /\ Unreleased(job[w].target)' = Unreleased(job[w].target)
      BY DEF Unreleased
    <3>. QED
      BY <2>1, <3>1, SameBacked DEF BackedInv, SessionsBacked
  <2>2. CASE pc'[w] \notin OrderSteps
    BY <2>2, IdleBacked DEF OrderSteps
  <2>. QED
    BY <2>1, <2>2
<1>2. Separate'
  BY DEF BackedInv, Separate, OrderSteps
<1>3. Backed'
  BY HandlersType, BackedKept DEF BackedInv, SameGoods
<1>. QED
  BY <1>1, <1>2, <1>3 DEF BackedInv, SessionsBacked

\* Receipts reserve nothing.
LEMMA BackedStepReceipts ==
  ASSUME TypeInv, StockInv, BackedInv, NEW w \in Workers,
         Deliver(w) \/ ReceiptStep(w) \/ AbortReceipt(w), UNCHANGED orderVars
  PROVE  BackedInv'
<1>1. /\ inventory \in [Rows -> Quantities] /\ DOMAIN pc = Workers
      /\ posted \in [Workers -> [Rows -> Nat]]
  BY DEF TypeInv, Typed, StoreTypeOK
<1>2. /\ pc'[w] \notin OrderSteps
      /\ \A v \in Workers \ {w} : pc'[v] = pc[v] /\ posted'[v] = posted[v]
  BY <1>1 DEF Deliver, GetWarehouse, Accept, ReceiptStep, LockWarehouse,
     RefuseReceipt, CommitReceipt, FailReceipt, AbortReceipt, Rollback, Commit, EndSession,
     AtRow, OrderSteps
<1>3. \A r \in Rows : inventory'[r].reserved = inventory[r].reserved
  <2>1. CASE CommitReceipt(w)
    <3>. DEFINE at == receipt[w].at
    <3>1. at \in Rows /\ inventory' = [inventory EXCEPT ![at] = Stored(w, at)]
      BY <2>1, ReceiptChange
    <3>2. Stored(w, at).reserved = inventory[at].reserved
      BY DEF Stored
    <3>. HIDE DEF at
    <3>. QED
      BY <1>1, <3>1, <3>2
  <2>2. CASE ~ CommitReceipt(w)
    BY <2>2 DEF Deliver, GetWarehouse, Accept, ReceiptStep, LockWarehouse,
       RefuseReceipt, FailReceipt, AbortReceipt, Rollback
  <2>. QED
    BY <2>1, <2>2
<1>. QED
  BY <1>2, <1>3, BackedStepOthers DEF orderVars

\* Every step keeps the invariant.
LEMMA BackedStep ==
  ASSUME ManualQuantities = {}, OverlappingCancels = FALSE,
         TypeInv, StockInv, JobsInv, BackedInv, [Next]_vars
  PROVE  BackedInv'
<1>1. CASE InventoryNext
  BY <1>1 DEF InventoryNext
<1>2. CASE OrdersNext
  <2>1. ASSUME NEW k \in Keys, NEW cart \in Carts, ReplayOrder(k, cart)
        PROVE  BackedInv'
    BY <2>1, BackedStepOthers DEF ReplayOrder
  <2>. QED
    BY <1>2, <2>1, BackedStepOrders DEF OrdersNext
<1>3. CASE UNCHANGED vars
  BY <1>3, BackedStepOthers DEF vars, storeVars, orderVars
<1>. QED
  BY <1>1, <1>2, <1>3, BackedStepReceipts DEF Next, WarehousesNext

\* At first there is nothing reserved and no order.
LEMMA BackedInit == Init => BackedInv
<1>. SUFFICES ASSUME Init PROVE BackedInv
  OBVIOUS
<1>1. /\ orders = <<>> /\ \A w \in Workers : pc[w] = "idle"
      /\ \A r \in Rows : inventory[r].reserved = 0
  BY DEF Init, StoreInit, Opening, OrdersInit, Nothing
<1>2. Open = {}
  BY <1>1 DEF Open
<1>3. \A r \in Rows : Backing(r) = 0
  BY <1>2, SumEmpty DEF Backing
<1>. QED
  BY <1>1, <1>3 DEF BackedInv, SessionsBacked, SessionBacked, Separate, Backed

\* The reservations of a row cover the allocations of the orders that are not
\* cancelled, and are nothing else, while nobody reserves or releases by hand
\* and no order is cancelled by two requests at once: a cancellation reads its
\* allocations and releases them row by row while orders are placed from the
\* same rows (orders.py:60-87, 128-150).  Two overlapping cancellations of one
\* order do release its allocations twice.
THEOREM AllocationsCovered ==
  ASSUME ManualQuantities = {}, OverlappingCancels = FALSE
  PROVE  Spec => []AllocationsBacked
<1>1. TypeInv /\ StockInv /\ JobsInv /\ BackedInv /\ [Next]_vars => BackedInv'
  BY BackedStep
<1>2. BackedInv /\ TypeInv => AllocationsBacked
  <2>. SUFFICES ASSUME BackedInv, TypeInv, NEW r \in Rows
                PROVE  Backing(r) <= inventory[r].reserved
    BY DEF AllocationsBacked, Backing, Open
  <2>1. Backing(r) = inventory[r].reserved /\ Backing(r) \in Nat
    BY HandlersType, BackingType DEF BackedInv, Backed
  <2>. QED
    BY <2>1
<1>. QED
  BY <1>1, <1>2, BackedInit, FullInvariant, StockInvariantHolds, PTL DEF Spec
=============================================================================
