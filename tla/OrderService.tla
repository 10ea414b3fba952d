---------------------------- MODULE OrderService ----------------------------
(***************************************************************************)
(* Pay, Cancel and UpdateStatus of internal/application/order_service.go,  *)
(* at the grain of SQL statements, HTTP calls and connections.             *)
(*                                                                         *)
(* Each request is a goroutine.  Its transaction occupies one of the       *)
(* MaxConns connections of orders_db from pool.Begin to COMMIT or          *)
(* ROLLBACK; statements that the repositories run on the pool and not in   *)
(* the transaction need a connection of their own:                         *)
(*                                                                         *)
(*   new -> begun -> items -> refund -> write   (cancelling)               *)
(*          begun -> write                      (paying)                   *)
(*          write -> readOrder -> readClient -> readItems -> readProducts  *)
(*                                                                         *)
(* From items, or write, on the transaction holds the row lock of          *)
(* SELECT ... FOR UPDATE.  The last four labels are FindByID, which        *)
(* builds the response after the commit.                                   *)
(***************************************************************************)
EXTENDS Naturals, Sequences, FiniteSets

CONSTANTS
  Orders,
  Requests,
  Items,          \* the products of order_items, in the order of their ids
  MaxConns,       \* config.MaxConns of the pool of orders_db
  Faults          \* the faults that may happen, a subset of AllFaults

AllFaults == {"disconnect", "databaseError", "lostCommitAck", "httpError",
              "httpTimeout", "crash"}

ASSUME OrderServiceAssumption ==
  /\ MaxConns \in Nat \ {0}
  /\ Faults \subseteq AllFaults
  /\ DOMAIN Items = Orders
  /\ \A o \in Orders : Len(Items[o]) \in Nat /\ DOMAIN Items[o] = 1..Len(Items[o])

VARIABLES
  status,         \* orders.status; "NONE" while the row does not exist
  call,           \* the operation and the order of each request
  answer,         \* what a request was answered; "none" while it runs
  pc,
  at,             \* the item refundItemsStock works on
  seen,           \* the status FindByID read for the response
  returned,       \* reservations <<order, product>> of stock_db now RELEASED
  swept,          \* those of them that no Cancel asked for
  late            \* Release requests given up that the stock-service still has

vars == <<status, call, answer, pc, at, seen, returned, swept, late>>

Locking == {"items", "refund", "write"}
InTransaction == {"begun"} \cup Locking
Reading == {"readOrder", "readClient", "readItems", "readProducts"}

Running(r) == pc[r] # "done"

AbstractAnswer ==
  [r \in Requests |-> IF pc[r] \in Reading THEN "accepted" ELSE answer[r]]

Lifecycle == INSTANCE OrderLifecycle WITH answer <- AbstractAnswer

Target(op) == Lifecycle!Target(op)
Order(r) == call[r].order
Op(r) == call[r].op

May(fault) == fault \in Faults

-----------------------------------------------------------------------------
(* Connections and row locks.                                              *)

InUse == {r \in Requests : pc[r] \in InTransaction}

(* pool.Acquire waits while every connection is taken.                     *)
FreeConnection == Cardinality(InUse) < MaxConns

LocksRowNever(r) == FALSE

LocksRowForEver(r) == pc[r] \in Locking \cup {"done"}

LocksRow(r) == pc[r] \in Locking

RowFree(o) == \A r \in Requests : Order(r) = o => ~ LocksRow(r)

GoTo(r, l) == pc' = [pc EXCEPT ![r] = l]

(* The handler returns; the deferred Rollback ends what is still open.     *)
Finish(r, a) ==
  /\ GoTo(r, "done")
  /\ answer' = [answer EXCEPT ![r] = a]

ReleaseKey(r) == <<Order(r), Items[Order(r)][at[r]]>>

(* The reservations of an order, and of all: Create makes one per product. *)
KeysOf(o) == {<<o, Items[o][i]>> : i \in DOMAIN Items[o]}

Keys == UNION {KeysOf(o) : o \in Orders}

-----------------------------------------------------------------------------
(* The handlers.                                                           *)

(* Create's transaction commits a new order: see OrderSaga.                *)
InsertOrder(o) ==
  /\ status[o] = "NONE"
  /\ status' = [status EXCEPT ![o] = "PENDING"]
  /\ UNCHANGED <<call, answer, pc, at, seen, returned, swept, late>>

(* UpdateStatus turns other statuses away before it asks for a connection. *)
RejectStatus(r) ==
  /\ pc[r] = "new" /\ Op(r) = "setOther"
  /\ Finish(r, "invalidStatus")
  /\ UNCHANGED <<status, call, at, seen, returned, swept, late>>

Begin(r) ==
  /\ pc[r] = "new" /\ Op(r) # "setOther"
  /\ FreeConnection
  /\ GoTo(r, "begun")
  /\ UNCHANGED <<status, call, answer, at, seen, returned, swept, late>>

RefusalOfPaidOnly(r, st) ==
  IF st \in {"PENDING", "CANCELED"} THEN "none" ELSE Lifecycle!Refusal(Op(r), st)

(* Order.Pay, Order.Cancel, Order.ChangeStatus; ErrOrderNotFound.          *)
DomainCheck(r, st) ==
  IF st = "PENDING" THEN "none" ELSE Lifecycle!Refusal(Op(r), st)

AfterLock(r) == IF Target(Op(r)) = "CANCELED" THEN "items" ELSE "write"

(* SELECT ... FOR UPDATE waits for the transaction that locks the row and  *)
(* then sees what it committed; the domain method decides on that.         *)
LockOrder(r) ==
  /\ pc[r] = "begun"
  /\ RowFree(Order(r))
  /\ LET refusal == DomainCheck(r, status[Order(r)])
     IN  \/ refusal # "none" /\ Finish(r, refusal)
         \/ refusal = "none" /\ GoTo(r, AfterLock(r)) /\ UNCHANGED answer
  /\ UNCHANGED <<status, call, at, seen, returned, swept, late>>

(* itemRepo.FindByOrderID runs on the pool: a second connection.           *)
ReadRefundItems(r) ==
  /\ pc[r] = "items"
  /\ FreeConnection
  /\ GoTo(r, "refund")
  /\ at' = [at EXCEPT ![r] = 1]
  /\ UNCHANGED <<status, call, answer, seen, returned, swept, late>>

RefundFailedGoOn(r) ==
  /\ at' = [at EXCEPT ![r] = @ + 1]
  /\ UNCHANGED <<pc, answer>>

(* refundItemsStock returns the first error, and the handler with it.      *)
RefundFailed(r) ==
  /\ Finish(r, "error")
  /\ UNCHANGED at

(* One Release over HTTP.  It succeeds; it fails, and the stock-service    *)
(* may have committed it all the same; or the 5 seconds of the HTTP client *)
(* are over and the stock-service is still at work.                        *)
RefundItem(r) ==
  /\ pc[r] = "refund" /\ at[r] <= Len(Items[Order(r)])
  /\ \/ /\ returned' = returned \cup {ReleaseKey(r)}
        /\ at' = [at EXCEPT ![r] = @ + 1]
        /\ UNCHANGED <<pc, answer, late>>
     \/ /\ May("httpError")
        /\ returned' \in {returned, returned \cup {ReleaseKey(r)}}
        /\ RefundFailed(r) /\ UNCHANGED late
     \/ /\ May("httpTimeout")
        /\ late' = late \cup {ReleaseKey(r)}
        /\ RefundFailed(r) /\ UNCHANGED returned
  /\ UNCHANGED <<status, call, seen, swept>>

RefundDone(r) ==
  /\ pc[r] = "refund" /\ at[r] = Len(Items[Order(r)]) + 1
  /\ GoTo(r, "write")
  /\ UNCHANGED <<status, call, answer, at, seen, returned, swept, late>>

(* UPDATE orders SET status and COMMIT, which frees the connection.        *)
Commit(r) ==
  /\ pc[r] = "write"
  /\ status' = [status EXCEPT ![Order(r)] = Target(Op(r))]
  /\ \/ GoTo(r, "readOrder") /\ UNCHANGED answer
     \/ May("lostCommitAck") /\ Finish(r, "error")
  /\ UNCHANGED <<call, at, seen, returned, swept, late>>

(* FindByID: order, client and items, one connection at a time.            *)
ReadOrder(r) ==
  /\ pc[r] = "readOrder" /\ FreeConnection
  /\ seen' = [seen EXCEPT ![r] = status[Order(r)]]
  /\ GoTo(r, "readClient")
  /\ UNCHANGED <<status, call, answer, at, returned, swept, late>>

ReadClient(r) ==
  /\ pc[r] = "readClient" /\ FreeConnection
  /\ GoTo(r, "readItems")
  /\ UNCHANGED <<status, call, answer, at, seen, returned, swept, late>>

ReadItems(r) ==
  /\ pc[r] = "readItems" /\ FreeConnection
  /\ GoTo(r, "readProducts")
  /\ UNCHANGED <<status, call, answer, at, seen, returned, swept, late>>

(* A GET /produtos/{id} per item: an error turns the answer into a 500.    *)
ReadProducts(r) ==
  /\ pc[r] = "readProducts"
  /\ \/ Finish(r, seen[r])
     \/ May("httpError") /\ Finish(r, "error")
  /\ UNCHANGED <<status, call, at, seen, returned, swept, late>>

HandlerStep(r) ==
  \/ RejectStatus(r) \/ Begin(r) \/ LockOrder(r)
  \/ ReadRefundItems(r) \/ RefundItem(r) \/ RefundDone(r) \/ Commit(r)
  \/ ReadOrder(r) \/ ReadClient(r) \/ ReadItems(r) \/ ReadProducts(r)

-----------------------------------------------------------------------------
(* What else may happen.                                                   *)

(* A statement fails, COMMIT included.                                     *)
DatabaseError(r) ==
  /\ May("databaseError") /\ Op(r) # "setOther"
  /\ pc[r] \in {"new", "begun", "items", "write", "readOrder", "readClient",
                "readItems"}
  /\ Finish(r, "error")
  /\ UNCHANGED <<status, call, at, seen, returned, swept, late>>

(* The Release requests that requests rs have under way.                   *)
UnderWay(rs) ==
  {ReleaseKey(r) : r \in {q \in rs : /\ pc[q] = "refund"
                                     /\ at[q] <= Len(Items[Order(q)])}}

(* The HTTP client goes away, which cancels the context of the request.    *)
Disconnect(r) ==
  /\ May("disconnect") /\ Running(r)
  /\ late' = late \cup UnderWay({r})
  /\ Finish(r, "error")
  /\ UNCHANGED <<status, call, at, seen, returned, swept>>

(* The process dies, and its connections with it: everything rolls back.   *)
Crash ==
  /\ May("crash") /\ \E r \in Requests : Running(r)
  /\ late' = late \cup UnderWay(Requests)
  /\ pc' = [r \in Requests |-> "done"]
  /\ answer' = [r \in Requests |-> IF Running(r) THEN "error" ELSE answer[r]]
  /\ UNCHANGED <<status, call, at, seen, returned, swept>>

(* The stock-service finishes a Release nobody waits for, or drops it.     *)
LateRelease(key) ==
  /\ key \in late
  /\ late' = late \ {key}
  /\ returned' \in {returned, returned \cup {key}}
  /\ UNCHANGED <<status, call, answer, pc, at, seen, swept>>

(* The reconciliation of the stock-service releases a reservation because  *)
(* it is old, whatever has become of the order.                            *)
Reconcile(key) ==
  /\ key \notin returned
  /\ returned' = returned \cup {key}
  /\ swept' = swept \cup {key}
  /\ UNCHANGED <<status, call, answer, pc, at, seen, late>>

-----------------------------------------------------------------------------

Init ==
  /\ status \in [Orders -> {"NONE", "PENDING"}]
  /\ call \in [Requests -> Lifecycle!CallTypes]
  /\ answer = [r \in Requests |-> "none"]
  /\ pc = [r \in Requests |-> "new"]
  /\ at = [r \in Requests |-> 1]
  /\ seen = [r \in Requests |-> "NONE"]
  /\ returned = {}
  /\ swept = {}
  /\ late = {}

Next ==
  \/ \E o \in Orders : InsertOrder(o)
  \/ \E r \in Requests : HandlerStep(r) \/ DatabaseError(r) \/ Disconnect(r)
  \/ Crash
  \/ \E key \in late : LateRelease(key)
  \/ \E key \in Keys : Reconcile(key)

Spec == Init /\ [][Next]_vars

(* Every goroutine is scheduled; PostgreSQL grants a row lock and the pool *)
(* a connection to whoever can have it.                                    *)
FairSpec == Spec /\ \A r \in Requests : WF_vars(HandlerStep(r))

-----------------------------------------------------------------------------

TypeOK ==
  /\ status \in [Orders -> Lifecycle!Statuses]
  /\ call \in [Requests -> Lifecycle!CallTypes]
  /\ answer \in [Requests -> Lifecycle!Answers]
  /\ pc \in [Requests -> {"new", "done"} \cup InTransaction \cup Reading]
  /\ at \in [Requests -> Nat \ {0}]
  /\ seen \in [Requests -> Lifecycle!Statuses]
  /\ returned \subseteq Keys /\ swept \subseteq returned
  /\ late \subseteq Keys

(* The row lock works: one request at a time is between its SELECT ... FOR *)
(* UPDATE and its COMMIT, and all that time the order stays PENDING.       *)
LockProtectsOrder ==
  /\ \A r1, r2 \in Requests :
       LocksRow(r1) /\ LocksRow(r2) /\ Order(r1) = Order(r2) => r1 = r2
  /\ \A r \in Requests : LocksRow(r) => status[Order(r)] = "PENDING"

(* What the label of a handler says of its order.                          *)
HandlerSound(r) ==
  /\ pc[r] \notin {"new", "done"} => Op(r) # "setOther"
  /\ Running(r) => answer[r] = "none"
  /\ answer[r] # "accepted"
  /\ pc[r] \in {"items", "refund"} => Target(Op(r)) = "CANCELED"
  /\ pc[r] = "refund" =>
       /\ at[r] <= Len(Items[Order(r)]) + 1
       /\ \A i \in 1..(at[r] - 1) : <<Order(r), Items[Order(r)][i]>> \in returned
  /\ pc[r] = "write" /\ Target(Op(r)) = "CANCELED" => KeysOf(Order(r)) \subseteq returned
  /\ pc[r] \in Reading => status[Order(r)] = Target(Op(r))
  /\ pc[r] \in {"readClient", "readItems", "readProducts"} =>
       seen[r] = Target(Op(r))

HandlerInv == \A r \in Requests : HandlerSound(r)

(* An order is CANCELED only when the stock-service has taken every item   *)
(* of it back, whatever failed in how many attempts before.                *)
CanceledMeansReturned ==
  \A o \in Orders : status[o] = "CANCELED" => KeysOf(o) \subseteq returned

(* Of all calls that want an order changed, one wins: two calls are never  *)
(* both told that they did it, and whoever is told sees it in the row.     *)
OneWinner == Lifecycle!OneWinner

Inv == TypeOK /\ LockProtectsOrder /\ HandlerInv
       /\ CanceledMeansReturned /\ OneWinner

(* The order-service implements its contract: calls are decided as if one  *)
(* after the other, although each is spread over several statements,       *)
(* several connections and calls to the other service.                     *)
RefinesLifecycle == Lifecycle!LifecycleSpec

(* An order that is paid for has its units, as far as Cancel is concerned: *)
(* a cancellation that came to nothing has given none of them back.        *)
PaidKeepsUnits ==
  \A o \in Orders :
    status[o] = "PAID" => KeysOf(o) \cap returned \subseteq swept

(* If a paid order has lost units, not by the reconciliation, then someone *)
(* who canceled it was told of an error: a Cancel that is refused, comes   *)
(* second or loses to a Pay has given nothing back, and no request that    *)
(* failed for another reason has.                                          *)
LossesWereReported ==
  \A o \in Orders :
    status[o] = "PAID" /\ ~ (KeysOf(o) \cap returned \subseteq swept) =>
      \E r \in Requests :
        Order(r) = o /\ Target(Op(r)) = "CANCELED" /\ answer[r] = "error"

(* Every call is answered: nobody waits for a connection or a row lock for *)
(* ever.                                                                   *)
EveryCallAnswered == \A r \in Requests : <>(pc[r] = "done")
=============================================================================
