---------------------------- MODULE StockService ----------------------------
(***************************************************************************)
(* The stock-service: internal/application/product_service.go over the     *)
(* repositories of stock_db, at the grain of SQL statements.               *)
(*                                                                         *)
(* A handler is one goroutine serving POST /reservar, POST /liberar, PUT   *)
(* or a stock.reserve.requested command, or the reconciliation job.  It    *)
(* runs a READ COMMITTED transaction whose SELECT ... FOR UPDATE takes row *)
(* locks that last until COMMIT or ROLLBACK; nothing it writes is visible  *)
(* before COMMIT.  Which locks a handler holds follows from its pc:        *)
(*                                                                         *)
(*   idle -> called -> begun -> missing (no reservation row seen, no lock) *)
(*                           -> locked  (holds the reservation row)        *)
(*           begun, missing, locked -> write (holds the product row)       *)
(*           any of these -> done                                          *)
(*                                                                         *)
(* From begun to write the transaction occupies one of the MaxConns        *)
(* connections of the pool.                                                *)
(***************************************************************************)
EXTENDS StockLedger

CONSTANTS
  Requests,       \* handler goroutines of HTTP requests and commands
  Direct,         \* those whose caller is not stockclient and waits for ever
  Sweeper,        \* the goroutine of runReservationReconciliation
  Quantities,     \* quantities (and stocks) that callers send
  MaxConns,       \* config.MaxConns of the connection pool
  NoCall

ASSUME ServiceAssumption ==
  /\ Sweeper \notin Requests
  /\ Direct \subseteq Requests
  /\ Quantities \subseteq Int
  /\ MaxConns \in Nat \ {0}

VARIABLES
  pc,
  call,           \* the operation a handler executes and its arguments
  draft,          \* the stock value its UPDATE products will write
  answer,         \* what it answered
  stale           \* the listing of FindStaleReserved left to process

handlerVars == <<pc, call, draft, answer, stale>>
vars == <<ledgerVars, handlerVars>>

Handlers == Requests \cup {Sweeper}

Calls == [op : {"reserve", "release", "update"}, saga : Sagas,
          product : Products, quantity : Int]

Arrivals == [op : {"reserve", "release", "update"}, saga : Sagas,
             product : Products, quantity : Quantities]

Answers == {"none", "ok", "notFound", "insufficient", "invalid", "error"}

Op(h) == call[h].op
Prod(h) == call[h].product
Row(h) == reservation[call[h].product][call[h].saga]

-----------------------------------------------------------------------------
(* Row locks.                                                              *)

HoldsProduct(h, p) == pc[h] = "write" /\ Prod(h) = p

HoldsReservation(h, p, s) ==
  /\ pc[h] = "locked" \/ (pc[h] = "write" /\ Op(h) = "release")
  /\ Prod(h) = p /\ call[h].saga = s

ProductFreeNoForUpdate(p) == TRUE

ProductFreeNoRollback(p) ==
  \A h \in Handlers : ~ HoldsProduct(h, p) /\ ~ (pc[h] = "done" /\ answer[h] = "invalid" /\ Prod(h) = p)

ProductFree(p) == \A h \in Handlers : ~ HoldsProduct(h, p)

ReservationFree(p, s) == \A h \in Handlers : ~ HoldsReservation(h, p, s)

(* The connections that transactions occupy, and whether one is left.      *)
InTransaction == {h \in Handlers : pc[h] \in {"begun", "missing", "locked", "write"}}

ConnectionFree == Cardinality(InTransaction) < MaxConns

(* The end of a transaction: the handler returns and its locks are gone.   *)
(* The reconciliation goes on with its listing.                            *)
Finish(h, a) ==
  /\ pc' = [pc EXCEPT ![h] = IF h = Sweeper THEN "idle" ELSE "done"]
  /\ answer' = [answer EXCEPT ![h] = a]
  /\ draft' = [draft EXCEPT ![h] = 0]
  /\ UNCHANGED <<call, stale>>

FinishUnchanged(h, a) == Finish(h, a) /\ UNCHANGED ledgerVars

(* The handler holds the product row and knows what it will write to it.   *)
PrepareWrite(h, n) ==
  /\ pc' = [pc EXCEPT ![h] = "write"]
  /\ draft' = [draft EXCEPT ![h] = n]
  /\ UNCHANGED <<ledgerVars, call, answer, stale>>

-----------------------------------------------------------------------------
(* Arrivals.                                                               *)

(* A request or a command reaches a handler goroutine.                     *)
Receive(h, c) ==
  /\ pc[h] = "idle"
  /\ pc' = [pc EXCEPT ![h] = "called"]
  /\ call' = [call EXCEPT ![h] = c]
  /\ UNCHANGED <<ledgerVars, draft, answer, stale>>

(* FindStaleReserved: the job lists rows RESERVED at that moment.  Which   *)
(* of them are older than the cutoff is left open.                         *)
ListStale ==
  /\ pc[Sweeper] = "idle" /\ stale = {} /\ ConnectionFree
  /\ \E S \in SUBSET {k \in Products \X Sagas :
                        reservation[k[1]][k[2]].status = "RESERVED"} :
       S # {} /\ stale' = S
  /\ UNCHANGED <<ledgerVars, pc, call, draft, answer>>

(* The job calls Release for the next row of its (by now maybe outdated)   *)
(* listing.                                                                *)
ReconcileNext ==
  /\ pc[Sweeper] = "idle"
  /\ \E k \in stale :
       /\ stale' = stale \ {k}
       /\ call' = [call EXCEPT ![Sweeper] =
                     [op |-> "release", product |-> k[1], saga |-> k[2],
                      quantity |-> reservation[k[1]][k[2]].quantity]]
  /\ pc' = [pc EXCEPT ![Sweeper] = "called"]
  /\ UNCHANGED <<ledgerVars, draft, answer>>

-----------------------------------------------------------------------------
(* The statements of Reserve, Release and Update.                          *)

(* Release refuses quantities <= 0 and Update a negative stock before they *)
(* BEGIN; Reserve leaves its quantity to domain.Product.Reserve.           *)
ValidArguments(h) ==
  /\ Op(h) = "release" => call[h].quantity > 0
  /\ Op(h) = "update" => call[h].quantity >= 0

RejectArguments(h) ==
  /\ pc[h] = "called" /\ ~ ValidArguments(h)
  /\ FinishUnchanged(h, "invalid")

(* pool.Begin waits for a connection.                                      *)
Begin(h) ==
  /\ pc[h] = "called" /\ ValidArguments(h) /\ ConnectionFree
  /\ pc' = [pc EXCEPT ![h] = "begun"]
  /\ UNCHANGED <<ledgerVars, call, draft, answer, stale>>

(* SELECT ... FROM stock_reservations ... FOR UPDATE.  A row that another  *)
(* transaction has not committed yet is simply not found.                  *)
FindReservation(h) ==
  /\ pc[h] = "begun" /\ Op(h) \in {"reserve", "release"}
  /\ \/ /\ Row(h) = NoRow
        /\ pc' = [pc EXCEPT ![h] = "missing"]
     \/ /\ Row(h) # NoRow
        /\ ReservationFree(Prod(h), call[h].saga)
        /\ pc' = [pc EXCEPT ![h] = "locked"]
  /\ UNCHANGED <<ledgerVars, call, draft, answer, stale>>

ProductAnswer(p) == IF p \in present THEN "ok" ELSE "notFound"

(* Reserve of a saga that has a row already (RESERVED or RELEASED), and    *)
(* Release of a row RELEASED already: only read the product, and commit.   *)
AnswerSettled(h) ==
  /\ pc[h] = "locked"
  /\ Op(h) = "reserve" \/ Row(h).status = "RELEASED"
  /\ ProductFree(Prod(h))
  /\ FinishUnchanged(h, ProductAnswer(Prod(h)))

(* Release without a reservation row changes nothing and answers ok.  It   *)
(* reads the product over the pool, not over its transaction: for that it  *)
(* needs a second connection while it keeps the first.                     *)
AnswerMissing(h) ==
  /\ pc[h] = "missing" /\ Op(h) = "release" /\ ConnectionFree
  /\ FinishUnchanged(h, ProductAnswer(Prod(h)))

EnoughOffByOne(p, q) == q <= stock[p] + 1

Enough(p, q) == q <= stock[p]

(* FindByIDForUpdate and domain.Product.Reserve.                           *)
LockToReserve(h) ==
  LET p == Prod(h)
      q == call[h].quantity
  IN  /\ pc[h] = "missing" /\ Op(h) = "reserve"
      /\ ProductFree(p)
      /\ \/ p \notin present /\ FinishUnchanged(h, "notFound")
         \/ p \in present /\ q <= 0 /\ FinishUnchanged(h, "invalid")
         \/ p \in present /\ q > 0 /\ ~ Enough(p, q)
              /\ FinishUnchanged(h, "insufficient")
         \/ p \in present /\ q > 0 /\ Enough(p, q)
              /\ PrepareWrite(h, stock[p] - q)

StockAfterReleaseOfRequest(h) == stock[Prod(h)] + call[h].quantity

StockAfterRelease(h) == stock[Prod(h)] + Row(h).quantity

(* FindByIDForUpdate and domain.Product.Release: what returns is the       *)
(* quantity of the row, not the one of the request.                        *)
LockToRelease(h) ==
  /\ pc[h] = "locked" /\ Op(h) = "release" /\ Row(h).status = "RESERVED"
  /\ ProductFree(Prod(h))
  /\ \/ Prod(h) \notin present /\ FinishUnchanged(h, "notFound")
     \/ Prod(h) \in present /\ PrepareWrite(h, StockAfterRelease(h))

(* FindByIDForUpdate of Update: the stock to write comes from the request. *)
LockToUpdate(h) ==
  /\ pc[h] = "begun" /\ Op(h) = "update"
  /\ ProductFree(Prod(h))
  /\ \/ Prod(h) \notin present /\ FinishUnchanged(h, "notFound")
     \/ Prod(h) \in present /\ PrepareWrite(h, call[h].quantity)

InsertableUpsert(h) == TRUE

(* The primary key (saga_id, product_id) of stock_reservations.            *)
Insertable(h) == Row(h) = NoRow

RowAfterReserveForgotten(h) == Row(h)

RowAfterReserve(h) == ReservedRow(call[h].quantity)

(* UPDATE products, INSERT INTO stock_reservations, COMMIT.  An error at   *)
(* COMMIT may hide that it took effect.                                    *)
CommitReserve(h) ==
  /\ pc[h] = "write" /\ Op(h) = "reserve" /\ Insertable(h)
  /\ stock' = [stock EXCEPT ![Prod(h)] = draft[h]]
  /\ reservation' = [reservation EXCEPT ![Prod(h)][call[h].saga] =
                       RowAfterReserve(h)]
  /\ UNCHANGED present
  /\ \E a \in {"ok", "error"} : Finish(h, a)

(* UPDATE products, UPDATE stock_reservations, COMMIT.                     *)
CommitRelease(h) ==
  /\ pc[h] = "write" /\ Op(h) = "release" /\ draft[h] <= MaxInt4
  /\ stock' = [stock EXCEPT ![Prod(h)] = draft[h]]
  /\ reservation' = [reservation EXCEPT ![Prod(h)][call[h].saga] =
                       ReleasedRow(@)]
  /\ UNCHANGED present
  /\ \E a \in {"ok", "error"} : Finish(h, a)

(* UPDATE products, COMMIT.                                                *)
CommitUpdate(h) ==
  /\ pc[h] = "write" /\ Op(h) = "update" /\ draft[h] <= MaxInt4
  /\ stock' = [stock EXCEPT ![Prod(h)] = draft[h]]
  /\ UNCHANGED <<present, reservation>>
  /\ \E a \in {"ok", "error"} : Finish(h, a)

(* PostgreSQL refuses the write: a duplicate key, or a stock beyond the    *)
(* INTEGER column.  The deferred Rollback undoes the transaction.          *)
RejectWrite(h) ==
  /\ pc[h] = "write"
  /\ \/ Op(h) = "reserve" /\ ~ Insertable(h)
     \/ Op(h) # "reserve" /\ draft[h] > MaxInt4
  /\ FinishUnchanged(h, "error")

(* A statement fails, the caller disconnects (which cancels the context)   *)
(* or the process dies: the transaction is rolled back.                    *)
Abort(h) ==
  /\ pc[h] \in {"called", "begun", "missing", "locked", "write"}
  /\ FinishUnchanged(h, "error")

(* stockclient, through which the order-service calls POST /liberar, gives *)
(* up after its 5 s; its disconnection cancels the wait for the second     *)
(* connection.                                                             *)
GiveUp(h) == pc[h] = "missing" /\ Op(h) = "release" /\ Abort(h)

(* DELETE FROM products, a transaction of a single statement.              *)
Delete(p) ==
  /\ p \in present
  /\ ConnectionFree /\ ProductFree(p)
  /\ Unreferenced(p)
  /\ present' = present \ {p}
  /\ stock' = [stock EXCEPT ![p] = 0]
  /\ UNCHANGED <<reservation, handlerVars>>

-----------------------------------------------------------------------------

Init ==
  /\ LedgerInit
  /\ pc = [h \in Handlers |-> "idle"]
  /\ call = [h \in Handlers |-> NoCall]
  /\ draft = [h \in Handlers |-> 0]
  /\ answer = [h \in Handlers |-> "none"]
  /\ stale = {}

(* One statement of handler h that does not fail for outside reasons.      *)
Step(h) ==
  \/ RejectArguments(h) \/ Begin(h) \/ FindReservation(h)
  \/ AnswerSettled(h) \/ AnswerMissing(h)
  \/ LockToReserve(h) \/ LockToRelease(h) \/ LockToUpdate(h)
  \/ CommitReserve(h) \/ CommitRelease(h) \/ CommitUpdate(h)
  \/ RejectWrite(h)

Next ==
  \/ \E h \in Requests, c \in Arrivals : Receive(h, c)
  \/ ListStale \/ ReconcileNext
  \/ \E h \in Handlers : Step(h) \/ Abort(h)
  \/ \E p \in Products : Delete(p)

Spec == Init /\ [][Next]_vars

(* PostgreSQL queues the transactions that wait for a row lock, so a       *)
(* waiter is not overtaken for ever: a statement that can run again and    *)
(* again finally runs; the pool hands out its connections in the order of  *)
(* the calls.  The reconciliation runs on a ticker.  Only stockclient      *)
(* limits how long it waits: neither the server nor the pool does.         *)
Fairness ==
  /\ \A h \in Handlers : SF_vars(Step(h))
  /\ \A h \in Requests \ Direct : WF_vars(GiveUp(h))
  /\ WF_vars(ReconcileNext)

FairSpec == Spec /\ Fairness

-----------------------------------------------------------------------------

TypeOK ==
  /\ LedgerTypeOK
  /\ pc \in [Handlers ->
               {"idle", "called", "begun", "missing", "locked", "write", "done"}]
  /\ call \in [Handlers -> Calls \cup {NoCall}]
  /\ draft \in [Handlers -> Int]
  /\ answer \in [Handlers -> Answers]
  /\ stale \subseteq Products \X Sagas

(* Whoever was told that its Reserve succeeded finds the row of its saga   *)
(* in stock_reservations: the answer is never ahead of the commit, and the *)
(* shortcut for a repeated Reserve only answers for a row that exists.     *)
OkMeansRecorded ==
  \A h \in Requests :
    answer[h] = "ok" /\ Op(h) = "reserve" => Row(h) # NoRow

(* A row is locked by one transaction at a time, although the locks of a   *)
(* handler are only a consequence of how far it has come.                  *)
LocksExclude ==
  \A g, h \in Handlers : g # h =>
    \A p \in Products :
      /\ ~ (HoldsProduct(g, p) /\ HoldsProduct(h, p))
      /\ \A s \in Sagas :
           ~ (HoldsReservation(g, p, s) /\ HoldsReservation(h, p, s))

(* What a handler has read before its UPDATE is still true when it writes: *)
(* no lost update, no second release of the same row, no sale of units     *)
(* that are gone.                                                          *)
DraftsAreCurrent ==
  \A h \in Handlers : pc[h] = "write" =>
    /\ Prod(h) \in present
    /\ Op(h) = "reserve" => /\ call[h].quantity \in 1..stock[Prod(h)]
                            /\ draft[h] = stock[Prod(h)] - call[h].quantity
    /\ Op(h) = "release" => /\ Row(h).status = "RESERVED"
                            /\ draft[h] = stock[Prod(h)] + Row(h).quantity
    /\ Op(h) = "update"  => draft[h] \in Nat

(* What the progress of a handler says about its call and its answer.      *)
ProgressSound ==
  \A h \in Handlers :
    /\ pc[h] # "idle" => call[h] \in Calls
    /\ pc[h] \in {"missing", "locked"} => Op(h) \in {"reserve", "release"}
    /\ pc[h] = "begun" => ValidArguments(h)
    /\ pc[h] = "locked" => Row(h) # NoRow
    /\ h \in Requests /\ answer[h] = "ok" => pc[h] = "done"

(* The inductive invariant: everything a transaction relies on between two *)
(* of its statements.                                                      *)
Inv ==
  /\ TypeOK
  /\ ReservationPinsProduct
  /\ ProgressSound
  /\ LocksExclude
  /\ DraftsAreCurrent
  /\ OkMeansRecorded

(* Reservations, releases, repetitions of both, reconciliation and failed  *)
(* transactions move units between shelf and reservations and never create *)
(* or lose one; only PUT (an absolute value) and DELETE change the supply. *)
UnitsConserved ==
  [][\A p \in Products :
       \/ Supply(p)' = Supply(p)
       \/ \E h \in Handlers : CommitUpdate(h) /\ Prod(h) = p
       \/ Delete(p)]_vars

(* No cycle of row locks and connections: every request that arrived is    *)
(* answered, even when all of them meet on the same rows and when releases *)
(* of stockclient that hold all connections wait for a second one.  It     *)
(* takes fewer direct callers of POST /liberar than connections: as many   *)
(* releases without a row (one without saga_id never has one) can hold     *)
(* them all and wait for another, which nothing ends.                      *)
EveryRequestAnswered ==
  \A h \in Requests : pc[h] = "called" ~> pc[h] = "done"
=============================================================================
