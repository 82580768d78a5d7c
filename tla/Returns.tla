------------------------------ MODULE Returns ------------------------------
(***************************************************************************)
(* The returns of delivered orders: POST /returns, /returns/{id}/receive   *)
(* and /returns/{id}/refund.                                               *)
(*                                                                         *)
(* A request for a return is compared with the committed returns of the    *)
(* same items, whose rows it locks.  Receiving a return puts what can be   *)
(* sold again back where it was allocated.  Receiving and refunding read   *)
(* the status of the return without a lock.                                *)
(***************************************************************************)
EXTENDS Orders

CONSTANT ReturnRequests  \* the payloads of clients: sequences of lines

\* A line names an item of the order by its place in the cart.
Lines == [item : Nat \ {0}, quantity : Nat \ {0}, restockable : BOOLEAN]

ASSUME ReturnsAssumption == ReturnRequests \subseteq Seq(Lines) \ {<<>>}

VARIABLES
    returns,    \* the committed returns, by commit
    holds,      \* the returns whose rows a session has locked FOR UPDATE
    returning   \* the local variables of the handler each session runs

returnVars == <<returns, holds, returning>>

NoReturn == [id |-> 0, order |-> 0, lines |-> <<>>, todo |-> <<>>, queue |-> <<>>,
             returned |-> 0, plan |-> <<>>]

ReturnSteps == {"query", "lock", "restock", "refund"}

ReturnOrders == [order : Nat \ {0}, lines : ReturnRequests,
                 status : {"REQUESTED", "RECEIVED", "REFUNDED"}]
Takes == [row : Rows, quantity : Nat \ {0}]

ReturnsTypeOK ==
    /\ returns \in Seq(ReturnOrders)
    /\ holds \in [Workers -> SUBSET DOMAIN returns]
    /\ returning \in [Workers ->
            [id : {0} \cup DOMAIN returns, order : {0} \cup DOMAIN orders,
             lines : ReturnRequests \cup {<<>>}, todo : Seq(Nat \ {0}),
             queue : Seq(DOMAIN returns), returned : Nat, plan : Seq(Takes)]]

ReturnsInit ==
    /\ returns = <<>>
    /\ holds = [w \in Workers |-> {}]
    /\ returning = [w \in Workers |-> NoReturn]

\* A mistake: the locked rows of returns stay locked.
KeepHolding(w) ==
    /\ returning' = [returning EXCEPT ![w] = NoReturn]
    /\ UNCHANGED holds

EndReturn(w) ==
    /\ holds' = [holds EXCEPT ![w] = {}]
    /\ returning' = [returning EXCEPT ![w] = NoReturn]

(***************************************************************************)
(* create_return adds up what is requested of each item, then looks at one *)
(* item after the other, in the order in which they are first named.       *)
(***************************************************************************)
NamedItems(lines) == {lines[n].item : n \in DOMAIN lines}

NamedBefore(lines, i, j) ==
    \E n \in DOMAIN lines : lines[n].item = i /\ \A m \in 1..n : lines[m].item # j

RequestedItems(lines) ==
    {q \in SetToSeqs(NamedItems(lines)) :
        \A m, n \in DOMAIN q : m < n => NamedBefore(lines, q[m], q[n])}

Requested(lines, i) == SumOf(lines, {n \in DOMAIN lines : lines[n].item = i})

\* What the returns of order o say of its item i.
ReturnsOf(o, i) ==
    {k \in DOMAIN returns : returns[k].order = o /\ Requested(returns[k].lines, i) > 0}

Returned(o, i) ==
    SumFunctionOnSet([k \in DOMAIN returns |-> Requested(returns[k].lines, i)],
                      ReturnsOf(o, i))

\* A mistake: the status of the order does not matter.
RequestAnyReturn(w, o, lines) ==
    /\ NamedItems(lines) \subseteq DOMAIN orders[o].cart
    /\ Accept(w, "query")
    /\ \E items \in RequestedItems(lines) :
          returning' = [returning EXCEPT ![w].order = o, ![w].lines = lines,
                                         ![w].todo = items]
    /\ UNCHANGED <<returns, holds>>

RequestReturn(w, o, lines) ==
    /\ orders[o].status = "DELIVERED"
    /\ NamedItems(lines) \subseteq DOMAIN orders[o].cart
    /\ Accept(w, "query")
    /\ \E items \in RequestedItems(lines) :
          returning' = [returning EXCEPT ![w].order = o, ![w].lines = lines,
                                         ![w].todo = items]
    /\ UNCHANGED <<returns, holds>>

\* The returns that the statement finds are those committed when it starts.
QueryReturned(w) ==
    /\ pc[w] = "query"
    /\ returning[w].todo # <<>>
    /\ pc' = [pc EXCEPT ![w] = "lock"]
    /\ LET i == Head(returning[w].todo)
           o == returning[w].order
       IN  \E q \in SetToSeqs(ReturnsOf(o, i)) :
              returning' = [returning EXCEPT ![w].queue = q,
                                             ![w].returned = Returned(o, i)]
    /\ UNCHANGED <<inventory, movements, rowLock, whLock, whShare, image, posted,
                   requests, returns, holds>>

LockReturn(w) ==
    /\ pc[w] = "lock"
    /\ returning[w].queue # <<>>
    /\ \A v \in Workers \ {w} : Head(returning[w].queue) \notin holds[v]
    /\ holds' = [holds EXCEPT ![w] = @ \cup {Head(returning[w].queue)}]
    /\ returning' = [returning EXCEPT ![w].queue = Tail(@)]
    /\ UNCHANGED <<storeVars, returns>>

\* A mistake: lines of one item are compared one by one.
EachLineReturnable(w) ==
    LET i == Head(returning[w].todo)
        lines == returning[w].lines
    IN  \A n \in DOMAIN lines :
            lines[n].item = i =>
                lines[n].quantity <= orders[returning[w].order].cart[i].quantity
                                         - returning[w].returned

Returnable(w) ==
    LET i == Head(returning[w].todo)
    IN  Requested(returning[w].lines, i)
            <= orders[returning[w].order].cart[i].quantity - returning[w].returned

ItemReturnable(w) ==
    /\ pc[w] = "lock"
    /\ returning[w].queue = <<>>
    /\ Returnable(w)
    /\ pc' = [pc EXCEPT ![w] = "query"]
    /\ returning' = [returning EXCEPT ![w].todo = Tail(@), ![w].returned = 0]
    /\ UNCHANGED <<inventory, movements, rowLock, whLock, whShare, image, posted,
                   requests, returns, holds>>

RefuseReturn(w) ==
    /\ pc[w] = "lock"
    /\ returning[w].queue = <<>>
    /\ ~ Returnable(w)
    /\ Rollback(w)
    /\ EndReturn(w)
    /\ UNCHANGED returns

CommitReturn(w) ==
    /\ pc[w] = "query"
    /\ returning[w].todo = <<>>
    /\ returns' = Append(returns, [order |-> returning[w].order,
                                   lines |-> returning[w].lines, status |-> "REQUESTED"])
    /\ EndSession(w)
    /\ EndReturn(w)
    /\ UNCHANGED <<inventory, movements>>

(***************************************************************************)
(* receive_return: each line that can be restocked goes to the rows its    *)
(* item was allocated from, in the order of the allocations and up to what *)
(* was allocated.  The lines come in any order.                            *)
(***************************************************************************)
\* What remains of a line when the handler comes to the n-th allocation.
Remaining(o, line, n) ==
    LET al == orders[o].allocations
    IN  line.quantity - SumOf(al, {m \in 1..(n - 1) : al[m].item = line.item})

\* A mistake: what the first allocation cannot take back is dropped.
TakesFirst(o, line) ==
    LET al == orders[o].allocations
    IN  {n \in DOMAIN al : /\ al[n].item = line.item
                           /\ \A m \in 1..(n - 1) : al[m].item # line.item}

\* The allocations that take something of a line back.
TakesOf(o, line) ==
    LET al == orders[o].allocations
    IN  {n \in DOMAIN al : al[n].item = line.item /\ Remaining(o, line, n) > 0}

TakeBack(o, line, n) ==
    LET a == orders[o].allocations[n]
    IN  [row |-> a.row, quantity |-> Least(Remaining(o, line, n), a.quantity)]

Restockable(lines) == {n \in DOMAIN lines : lines[n].restockable}

\* Lines and the allocations that take them back; line by line, and those of a
\* line by id.
TakesFor(k) ==
    LET lines == returns[k].lines
        o == returns[k].order
    IN  {p \in Restockable(lines) \X DOMAIN orders[o].allocations :
            p[2] \in TakesOf(o, lines[p[1]])}

LineByLine(s) ==
    \A i, j \in DOMAIN s :
        i < j /\ s[i][1] = s[j][1] =>
            s[i][2] < s[j][2] /\ \A h \in i..j : s[h][1] = s[i][1]

Plans(k) ==
    {[n \in DOMAIN s |-> TakeBack(returns[k].order, returns[k].lines[s[n][1]], s[n][2])] :
        s \in {t \in SetToSeqs(TakesFor(k)) : LineByLine(t)}}

\* A mistake: the status of the return does not matter.
ReceiveAny(w, k) ==
    /\ Accept(w, "restock")
    /\ \E plan \in Plans(k) :
          returning' = [returning EXCEPT ![w].id = k, ![w].order = returns[k].order,
                                         ![w].plan = plan]
    /\ UNCHANGED <<returns, holds>>

ReadRequested(w, k) ==
    /\ returns[k].status = "REQUESTED"
    /\ Accept(w, "restock")
    /\ \E plan \in Plans(k) :
          returning' = [returning EXCEPT ![w].id = k, ![w].order = returns[k].order,
                                         ![w].plan = plan]
    /\ UNCHANGED <<returns, holds>>

Restock(w) ==
    /\ pc[w] = "restock"
    /\ returning[w].plan # <<>>
    /\ LET t == Head(returning[w].plan)
       IN  LockAndChange(w, t.row, Add(Loaded(w, t.row), t.quantity), t.quantity)
    /\ returning' = [returning EXCEPT ![w].plan = Tail(@)]
    /\ UNCHANGED <<inventory, movements, whLock, whShare, pc, requests, returns, holds>>

\* The UPDATE of the return waits for the sessions that have locked it.
MayUpdate(w) == \A v \in Workers \ {w} : returning[w].id \notin holds[v]

SetStatus(w, status) == returns' = [returns EXCEPT ![returning[w].id].status = status]

CommitRestock(w) ==
    /\ pc[w] = "restock"
    /\ returning[w].plan = <<>>
    /\ MayUpdate(w)
    /\ Commit(w, "RETURN")
    /\ SetStatus(w, "RECEIVED")
    /\ EndReturn(w)

(***************************************************************************)
(* refund_return.                                                          *)
(***************************************************************************)
\* A mistake: a return is refunded before it is received.
RefundAny(w, k) ==
    /\ Accept(w, "refund")
    /\ returning' = [returning EXCEPT ![w].id = k, ![w].order = returns[k].order]
    /\ UNCHANGED <<returns, holds>>

ReadReceived(w, k) ==
    /\ returns[k].status = "RECEIVED"
    /\ Accept(w, "refund")
    /\ returning' = [returning EXCEPT ![w].id = k, ![w].order = returns[k].order]
    /\ UNCHANGED <<returns, holds>>

CommitRefund(w) ==
    /\ pc[w] = "refund"
    /\ MayUpdate(w)
    /\ SetStatus(w, "REFUNDED")
    /\ EndSession(w)
    /\ EndReturn(w)
    /\ UNCHANGED <<inventory, movements>>

AbortReturn(w) ==
    /\ pc[w] \in ReturnSteps
    /\ Rollback(w)
    /\ EndReturn(w)
    /\ UNCHANGED returns

SendReturn(w) ==
    \/ \E o \in DOMAIN orders, lines \in ReturnRequests : RequestReturn(w, o, lines)
    \/ \E k \in DOMAIN returns : ReadRequested(w, k) \/ ReadReceived(w, k)

ReturnStep(w) ==
    \/ QueryReturned(w) \/ LockReturn(w) \/ ItemReturnable(w) \/ RefuseReturn(w)
    \/ CommitReturn(w)
    \/ Restock(w) \/ CommitRestock(w)
    \/ CommitRefund(w)

ReturnsNext == \E w \in Workers : SendReturn(w) \/ ReturnStep(w) \/ AbortReturn(w)
=============================================================================
