------------------------- MODULE StockServiceProofs -------------------------
(***************************************************************************)
(* The transactions of ProductService implement the ledger, for any number *)
(* of handlers, products, sagas and connections.  The argument: row locks  *)
(* keep what a transaction has read true until it writes (Inv), hence each *)
(* COMMIT is one of the ledger's atomic steps and every other statement is *)
(* invisible in stock_db.                                                  *)
(***************************************************************************)
EXTENDS StockService, StockLedgerProofs

USE LedgerAssumption, ServiceAssumption

-----------------------------------------------------------------------------
(* The kinds of steps.  Besides the arrivals, the three COMMITs and Delete *)
(* a statement either ends its transaction or prepares a write.            *)

Active == {"called", "begun", "missing", "locked", "write"}

Finishes(h) ==
  /\ pc[h] \in Active
  /\ \E a \in Answers :
       /\ FinishUnchanged(h, a)
       /\ a = "ok" /\ Op(h) = "reserve" => Row(h) # NoRow

Prepares(h) ==
  /\ pc[h] \in {"begun", "missing", "locked"}
  /\ pc[h] = "locked" \/ Op(h) # "release"
  /\ ProductFree(Prod(h))
  /\ Prod(h) \in present
  /\ \E n \in Int :
       /\ PrepareWrite(h, n)
       /\ Op(h) = "reserve" => /\ call[h].quantity \in 1..stock[Prod(h)]
                               /\ n = stock[Prod(h)] - call[h].quantity
       /\ Op(h) = "release" => /\ Row(h).status = "RESERVED"
                               /\ n = stock[Prod(h)] + Row(h).quantity
       /\ Op(h) = "update"  => n \in Nat

Commits(h) == CommitReserve(h) \/ CommitRelease(h) \/ CommitUpdate(h)

LEMMA CallTypes ==
  ASSUME Inv, NEW h \in Handlers, pc[h] # "idle"
  PROVE  /\ call[h] \in Calls
         /\ Prod(h) \in Products /\ call[h].saga \in Sagas
         /\ Op(h) \in {"reserve", "release", "update"}
         /\ call[h].quantity \in Int
         /\ stock[Prod(h)] \in 0..MaxInt4
         /\ Row(h).quantity \in 0..MaxInt4
<1>1. call[h] \in Calls
  BY DEF Inv, ProgressSound
<1>2. Prod(h) \in Products /\ call[h].saga \in Sagas
      /\ Op(h) \in {"reserve", "release", "update"} /\ call[h].quantity \in Int
  BY <1>1 DEF Calls, Prod, Op
<1>3. LedgerTypeOK
  BY DEF Inv, TypeOK
<1> QED
  BY <1>1, <1>2, <1>3, RowTypes DEF LedgerTypeOK, Row, Prod

LEMMA StepKinds ==
  ASSUME Inv, NEW h \in Handlers, Step(h) \/ Abort(h)
  PROVE  Begin(h) \/ FindReservation(h) \/ Finishes(h) \/ Prepares(h) \/ Commits(h)
<1> DEFINE Goal == Begin(h) \/ FindReservation(h) \/ Finishes(h) \/ Prepares(h)
                   \/ Commits(h)
<1>1. CASE RejectArguments(h)
  BY <1>1 DEF RejectArguments, Finishes, Active, Answers
<1>2. CASE AnswerSettled(h)
  BY <1>2 DEF AnswerSettled, ProductAnswer, Finishes, Active, Answers, Inv, ProgressSound
<1>3. CASE AnswerMissing(h)
  BY <1>3 DEF AnswerMissing, ProductAnswer, Finishes, Active, Answers
<1>4. CASE LockToReserve(h)
  <2>1. pc[h] = "missing" /\ Op(h) = "reserve" /\ ProductFree(Prod(h))
    BY <1>4 DEF LockToReserve
  <2>2. stock[Prod(h)] \in Int /\ call[h].quantity \in Int
    BY <2>1, CallTypes
  <2>3. CASE \E a \in {"notFound", "invalid", "insufficient"} : FinishUnchanged(h, a)
    BY <2>1, <2>3 DEF Finishes, Active, Answers
  <2>4. CASE /\ Prod(h) \in present /\ call[h].quantity > 0
             /\ Enough(Prod(h), call[h].quantity)
             /\ PrepareWrite(h, stock[Prod(h)] - call[h].quantity)
    BY <2>1, <2>2, <2>4 DEF Prepares, Enough
  <2> QED
    BY <1>4, <2>3, <2>4 DEF LockToReserve
<1>5. CASE LockToRelease(h)
  <2>1. /\ pc[h] = "locked" /\ Op(h) = "release" /\ Row(h).status = "RESERVED"
        /\ ProductFree(Prod(h))
    BY <1>5 DEF LockToRelease
  <2>2. StockAfterRelease(h) \in Int
    BY <2>1, CallTypes DEF StockAfterRelease
  <2>3. CASE FinishUnchanged(h, "notFound")
    BY <2>1, <2>3 DEF Finishes, Active, Answers
  <2>4. CASE Prod(h) \in present /\ PrepareWrite(h, StockAfterRelease(h))
    BY <2>1, <2>2, <2>4 DEF Prepares, StockAfterRelease
  <2> QED
    BY <1>5, <2>3, <2>4 DEF LockToRelease
<1>6. CASE LockToUpdate(h)
  <2>1. pc[h] = "begun" /\ Op(h) = "update" /\ ProductFree(Prod(h))
    BY <1>6 DEF LockToUpdate
  <2>2. call[h].quantity \in Nat
    BY <2>1, CallTypes DEF Inv, ProgressSound, ValidArguments
  <2>3. CASE FinishUnchanged(h, "notFound")
    BY <2>1, <2>3 DEF Finishes, Active, Answers
  <2>4. CASE Prod(h) \in present /\ PrepareWrite(h, call[h].quantity)
    BY <2>1, <2>2, <2>4 DEF Prepares
  <2> QED
    BY <1>6, <2>3, <2>4 DEF LockToUpdate
<1>7. CASE RejectWrite(h)
  BY <1>7 DEF RejectWrite, Finishes, Active, Answers
<1>8. CASE Abort(h)
  BY <1>8 DEF Abort, Finishes, Active, Answers
<1> QED
  BY <1>1, <1>2, <1>3, <1>4, <1>5, <1>6, <1>7, <1>8 DEF Step, Commits

-----------------------------------------------------------------------------
(* COMMIT is a step of the ledger.                                         *)

LEMMA CommitIsLedgerStep ==
  ASSUME Inv, NEW h \in Handlers, Commits(h)
  PROVE  \/ CommitReserve(h) /\ call[h].quantity \in 1..MaxInt4
              /\ ReserveUnits(call[h].saga, Prod(h), call[h].quantity)
         \/ CommitRelease(h) /\ ReleaseUnits(call[h].saga, Prod(h))
         \/ CommitUpdate(h) /\ draft[h] \in 0..MaxInt4 /\ SetStock(Prod(h), draft[h])
<1>1. pc[h] = "write" /\ Prod(h) \in present
  BY DEF Commits, CommitReserve, CommitRelease, CommitUpdate, Inv, DraftsAreCurrent
<1>2. stock[Prod(h)] \in 0..MaxInt4
  BY <1>1, CallTypes
<1>3. CASE CommitReserve(h)
  <2>1. /\ call[h].quantity \in 1..stock[Prod(h)]
        /\ draft[h] = stock[Prod(h)] - call[h].quantity
    BY <1>3 DEF CommitReserve, Inv, DraftsAreCurrent
  <2>2. stock' = [stock EXCEPT ![Prod(h)] = @ - call[h].quantity]
    BY <1>3, <2>1 DEF CommitReserve
  <2>3. call[h].quantity \in 1..MaxInt4
    BY <1>2, <2>1
  <2>4. reservation[Prod(h)][call[h].saga] = NoRow
    BY <1>3 DEF CommitReserve, Insertable, Row, Prod
  <2>5. reservation' = [reservation EXCEPT ![Prod(h)][call[h].saga] =
                          ReservedRow(call[h].quantity)]
    BY <1>3 DEF CommitReserve, RowAfterReserve
  <2>6. UNCHANGED present
    BY <1>3 DEF CommitReserve
  <2>7. ReserveUnits(call[h].saga, Prod(h), call[h].quantity)
    BY <1>1, <2>1, <2>2, <2>4, <2>5, <2>6 DEF ReserveUnits, Takeable
  <2> QED
    BY <1>3, <2>3, <2>7
<1>4. CASE CommitRelease(h)
  <2>1. Row(h).status = "RESERVED" /\ draft[h] = stock[Prod(h)] + Row(h).quantity
    BY <1>4 DEF CommitRelease, Inv, DraftsAreCurrent
  <2>2. stock' = [stock EXCEPT ![Prod(h)] = @ + Row(h).quantity]
    BY <1>4, <2>1 DEF CommitRelease
  <2>3. stock[Prod(h)] + Row(h).quantity <= MaxInt4
    BY <1>4, <2>1 DEF CommitRelease
  <2>4. reservation' = [reservation EXCEPT ![Prod(h)][call[h].saga] =
                          ReleasedRow(Row(h))]
    BY <1>4 DEF CommitRelease, Row, Prod
  <2> QED
    BY <1>4, <2>1, <2>2, <2>3, <2>4 DEF CommitRelease, ReleaseUnits, Row, Prod
<1>5. CASE CommitUpdate(h)
  <2>1. draft[h] \in 0..MaxInt4
    BY <1>5 DEF CommitUpdate, Inv, DraftsAreCurrent
  <2> QED
    BY <1>1, <1>5, <2>1 DEF CommitUpdate, SetStock
<1> QED
  BY <1>3, <1>4, <1>5 DEF Commits

(* Every step of the service is a step of the ledger or invisible there.   *)
LEMMA ServiceStep == Inv /\ [Next]_vars => [LedgerNext]_ledgerVars
<1> SUFFICES ASSUME Inv, [Next]_vars PROVE [LedgerNext]_ledgerVars
  OBVIOUS
<1>1. CASE UNCHANGED vars
  BY <1>1 DEF vars
<1>2. ASSUME NEW h \in Requests, NEW c \in Arrivals, Receive(h, c)
      PROVE  UNCHANGED ledgerVars
  BY <1>2 DEF Receive
<1>3. CASE ListStale \/ ReconcileNext
  BY <1>3 DEF ListStale, ReconcileNext
<1>4. ASSUME NEW h \in Handlers, Begin(h) \/ FindReservation(h)
      PROVE  UNCHANGED ledgerVars
  BY <1>4 DEF Begin, FindReservation
<1>5. ASSUME NEW h \in Handlers, Finishes(h) \/ Prepares(h)
      PROVE  UNCHANGED ledgerVars
  BY <1>5 DEF Finishes, FinishUnchanged, Prepares, PrepareWrite
<1>6. ASSUME NEW h \in Handlers, Commits(h)
      PROVE  LedgerNext
  <2>1. pc[h] # "idle"
    BY <1>6 DEF Commits, CommitReserve, CommitRelease, CommitUpdate
  <2>2. Prod(h) \in Products /\ call[h].saga \in Sagas
    BY <2>1, CallTypes
  <2> QED
    BY <1>6, <2>2, CommitIsLedgerStep DEF LedgerNext
<1>7. ASSUME NEW p \in Products, Delete(p)
      PROVE  LedgerNext
  BY <1>7 DEF Delete, RemoveProduct, LedgerNext
<1> QED
  BY <1>1, <1>2, <1>3, <1>4, <1>5, <1>6, <1>7, StepKinds DEF Next

-----------------------------------------------------------------------------
(* The inductive invariant.                                                *)

HandlerTypeOK ==
  /\ pc \in [Handlers ->
               {"idle", "called", "begun", "missing", "locked", "write", "done"}]
  /\ call \in [Handlers -> Calls \cup {NoCall}]
  /\ draft \in [Handlers -> Int]
  /\ answer \in [Handlers -> Answers]
  /\ stale \subseteq Products \X Sagas

LEMMA TypeParts == TypeOK <=> LedgerTypeOK /\ HandlerTypeOK
BY DEF TypeOK, HandlerTypeOK

(* Rows do not disappear while a handler works with them.                  *)
LEMMA RowsStay ==
  ASSUME Inv, [Next]_vars, NEW p \in Products, NEW s \in Sagas,
         reservation[p][s] # NoRow
  PROVE  reservation'[p][s] # NoRow
<1>1. RowKept(p, s) /\ LedgerTypeOK
  BY ServiceStep, RowsKeptStep DEF Inv, TypeOK
<1>2. [reservation[p][s] EXCEPT !.status = "RELEASED"].status = "RELEASED"
  BY <1>1, RowTypes DEF ReservationRows
<1> QED
  BY <1>1, <1>2 DEF RowKept, NoRow

(* A new call: the handler has no lock and no answer yet.                  *)
LEMMA ArrivalPreserves ==
  ASSUME Inv, NEW h \in Handlers, NEW c \in Calls,
         pc[h] = "idle", h \in Requests => answer[h] # "ok",
         pc' = [pc EXCEPT ![h] = "called"],
         call' = [call EXCEPT ![h] = c],
         stale' \subseteq stale,
         UNCHANGED <<ledgerVars, draft, answer>>
  PROVE  HandlerTypeOK' /\ ProgressSound' /\ LocksExclude' /\ DraftsAreCurrent'
         /\ OkMeansRecorded'
<1> USE DEF ledgerVars, Prod, Op, Row
<1>1. HandlerTypeOK /\ HandlerTypeOK'
  BY TypeParts DEF Inv, HandlerTypeOK
<1>2. ProgressSound'
  BY <1>1 DEF Inv, ProgressSound, HandlerTypeOK, ValidArguments
<1>3. LocksExclude'
  BY <1>1 DEF Inv, LocksExclude, HandlerTypeOK, HoldsProduct, HoldsReservation
<1>4. DraftsAreCurrent'
  BY <1>1 DEF Inv, DraftsAreCurrent, HandlerTypeOK
<1>5. OkMeansRecorded'
  BY <1>1 DEF Inv, OkMeansRecorded, HandlerTypeOK, Handlers
<1> QED
  BY <1>1, <1>2, <1>3, <1>4, <1>5

(* The end of a transaction that wrote nothing.                            *)
LEMMA FinishPreserves ==
  ASSUME Inv, NEW h \in Handlers, Finishes(h)
  PROVE  HandlerTypeOK' /\ ProgressSound' /\ LocksExclude' /\ DraftsAreCurrent'
         /\ OkMeansRecorded'
<1> USE DEF ledgerVars, Prod, Op, Row
<1>1. PICK a \in Answers : /\ FinishUnchanged(h, a)
                           /\ a = "ok" /\ Op(h) = "reserve" => Row(h) # NoRow
  BY DEF Finishes
<1>2. /\ pc' = [pc EXCEPT ![h] = IF h = Sweeper THEN "idle" ELSE "done"]
      /\ answer' = [answer EXCEPT ![h] = a]
      /\ draft' = [draft EXCEPT ![h] = 0]
      /\ UNCHANGED <<call, stale, present, stock, reservation>>
  BY <1>1 DEF FinishUnchanged, Finish
<1>3. pc[h] \in Active
  BY DEF Finishes
<1>4. HandlerTypeOK /\ HandlerTypeOK'
  BY <1>2, TypeParts DEF Inv, HandlerTypeOK
<1>5. ProgressSound'
  BY <1>2, <1>3, <1>4 DEF Inv, ProgressSound, HandlerTypeOK, ValidArguments, Active
<1>6. LocksExclude'
  BY <1>2, <1>4 DEF Inv, LocksExclude, HandlerTypeOK, HoldsProduct, HoldsReservation
<1>7. DraftsAreCurrent'
  BY <1>2, <1>4 DEF Inv, DraftsAreCurrent, HandlerTypeOK
<1>8. OkMeansRecorded'
  BY <1>1, <1>2, <1>4 DEF Inv, OkMeansRecorded, HandlerTypeOK, Handlers
<1> QED
  BY <1>4, <1>5, <1>6, <1>7, <1>8

(* pool.Begin                                                              *)
LEMMA BeginPreserves ==
  ASSUME Inv, NEW h \in Handlers, Begin(h)
  PROVE  HandlerTypeOK' /\ ProgressSound' /\ LocksExclude' /\ DraftsAreCurrent'
         /\ OkMeansRecorded'
<1> USE DEF ledgerVars, Prod, Op, Row, Begin
<1>1. HandlerTypeOK /\ HandlerTypeOK'
  BY TypeParts DEF Inv, HandlerTypeOK
<1>2. ProgressSound'
  BY <1>1 DEF Inv, ProgressSound, HandlerTypeOK, ValidArguments
<1>3. LocksExclude'
  BY <1>1 DEF Inv, LocksExclude, HandlerTypeOK, HoldsProduct, HoldsReservation
<1>4. DraftsAreCurrent'
  BY <1>1 DEF Inv, DraftsAreCurrent, HandlerTypeOK
<1>5. OkMeansRecorded'
  BY <1>1 DEF Inv, OkMeansRecorded, HandlerTypeOK
<1> QED
  BY <1>1, <1>2, <1>3, <1>4, <1>5

(* The reservation row is locked only when nobody else holds it.           *)
LEMMA FindReservationPreserves ==
  ASSUME Inv, NEW h \in Handlers, FindReservation(h)
  PROVE  HandlerTypeOK' /\ ProgressSound' /\ LocksExclude' /\ DraftsAreCurrent'
         /\ OkMeansRecorded'
<1> USE DEF ledgerVars, Prod, Op, Row, FindReservation
<1>1. HandlerTypeOK /\ HandlerTypeOK'
  BY TypeParts DEF Inv, HandlerTypeOK
<1>2. ProgressSound'
  BY <1>1 DEF Inv, ProgressSound, HandlerTypeOK, ValidArguments
<1>3. LocksExclude'
  BY <1>1 DEF Inv, LocksExclude, HandlerTypeOK, HoldsProduct, HoldsReservation,
              ReservationFree
<1>4. DraftsAreCurrent'
  BY <1>1 DEF Inv, DraftsAreCurrent, HandlerTypeOK
<1>5. OkMeansRecorded'
  BY <1>1 DEF Inv, OkMeansRecorded, HandlerTypeOK
<1> QED
  BY <1>1, <1>2, <1>3, <1>4, <1>5

(* The product row is locked only when nobody else holds it, and the draft *)
(* is computed from what it says.                                          *)
LEMMA PreparePreserves ==
  ASSUME Inv, NEW h \in Handlers, Prepares(h)
  PROVE  HandlerTypeOK' /\ ProgressSound' /\ LocksExclude' /\ DraftsAreCurrent'
         /\ OkMeansRecorded'
<1> USE DEF ledgerVars, Prod, Op, Row
<1>1. PICK n \in Int :
        /\ PrepareWrite(h, n)
        /\ Op(h) = "reserve" => /\ call[h].quantity \in 1..stock[Prod(h)]
                                /\ n = stock[Prod(h)] - call[h].quantity
        /\ Op(h) = "release" => /\ Row(h).status = "RESERVED"
                                /\ n = stock[Prod(h)] + Row(h).quantity
        /\ Op(h) = "update"  => n \in Nat
  BY DEF Prepares
<1>2. /\ pc' = [pc EXCEPT ![h] = "write"]
      /\ draft' = [draft EXCEPT ![h] = n]
      /\ UNCHANGED <<present, stock, reservation, call, answer, stale>>
  BY <1>1 DEF PrepareWrite
<1>3. /\ pc[h] \in {"begun", "missing", "locked"}
      /\ pc[h] = "locked" \/ Op(h) # "release"
      /\ ProductFree(Prod(h)) /\ Prod(h) \in present
  BY DEF Prepares
<1>4. HandlerTypeOK /\ HandlerTypeOK'
  BY <1>2, TypeParts DEF Inv, HandlerTypeOK
<1>5. ProgressSound'
  BY <1>2, <1>3, <1>4 DEF Inv, ProgressSound, HandlerTypeOK, ValidArguments
<1>6. LocksExclude'
  BY <1>2, <1>3, <1>4 DEF Inv, LocksExclude, HandlerTypeOK, HoldsProduct,
                          HoldsReservation, ProductFree
<1>7. DraftsAreCurrent'
  BY <1>1, <1>2, <1>3, <1>4 DEF Inv, DraftsAreCurrent, HandlerTypeOK
<1>8. OkMeansRecorded'
  BY <1>2, <1>4 DEF Inv, OkMeansRecorded, HandlerTypeOK
<1> QED
  BY <1>4, <1>5, <1>6, <1>7, <1>8

(* COMMIT: no other handler holds the product row, so no other draft and   *)
(* no locked row is touched.                                               *)
LEMMA CommitPreserves ==
  ASSUME Inv, NEW h \in Handlers, Commits(h)
  PROVE  HandlerTypeOK' /\ ProgressSound' /\ LocksExclude' /\ DraftsAreCurrent'
         /\ OkMeansRecorded'
<1> DEFINE p == Prod(h)
           s == call[h].saga
<1>1. PICK a \in {"ok", "error"} :
        /\ pc' = [pc EXCEPT ![h] = IF h = Sweeper THEN "idle" ELSE "done"]
        /\ answer' = [answer EXCEPT ![h] = a]
        /\ draft' = [draft EXCEPT ![h] = 0]
        /\ UNCHANGED <<call, stale, present>>
  BY DEF Commits, CommitReserve, CommitRelease, CommitUpdate, Finish
<1>2. pc[h] = "write" /\ HoldsProduct(h, p)
  BY DEF Commits, CommitReserve, CommitRelease, CommitUpdate, HoldsProduct
<1>3. HandlerTypeOK /\ HandlerTypeOK' /\ LedgerTypeOK
  BY <1>1, TypeParts DEF Inv, HandlerTypeOK, Answers
<1>4. p \in Products /\ s \in Sagas
  BY <1>2, CallTypes
<1>5. \A r \in Products : r # p => stock'[r] = stock[r] /\ reservation'[r] = reservation[r]
  BY <1>3 DEF Commits, CommitReserve, CommitRelease, CommitUpdate, LedgerTypeOK, Prod
<1>6. Next
  BY DEF Next, Step, Commits
<1>7. ASSUME NEW r \in Products, NEW t \in Sagas, reservation[r][t] # NoRow
      PROVE  reservation'[r][t] # NoRow
  BY <1>6, <1>7, RowsStay
<1>8. ASSUME NEW g \in Handlers, pc[g] # "idle"
      PROVE  Prod(g) \in Products /\ call[g].saga \in Sagas
  BY <1>8, CallTypes
<1>9. ProgressSound'
  BY <1>1, <1>2, <1>3, <1>7, <1>8
  DEF Inv, ProgressSound, HandlerTypeOK, ValidArguments, Op, Row, Prod
<1>10. LocksExclude'
  BY <1>1, <1>3 DEF Inv, LocksExclude, HandlerTypeOK, HoldsProduct,
                    HoldsReservation, Prod, Op
<1>11. DraftsAreCurrent'
  <2> SUFFICES ASSUME NEW g \in Handlers, pc'[g] = "write"
               PROVE  /\ Prod(g)' \in present'
                      /\ Op(g)' = "reserve" =>
                           /\ call'[g].quantity \in 1..stock'[Prod(g)']
                           /\ draft'[g] = stock'[Prod(g)'] - call'[g].quantity
                      /\ Op(g)' = "release" =>
                           /\ Row(g)'.status = "RESERVED"
                           /\ draft'[g] = stock'[Prod(g)'] + Row(g)'.quantity
                      /\ Op(g)' = "update"  => draft'[g] \in Nat
    BY DEF DraftsAreCurrent
  <2>1. g # h /\ pc[g] = "write" /\ draft'[g] = draft[g] /\ call' = call
    BY <1>1, <1>3 DEF HandlerTypeOK
  <2>2. Prod(g) \in Products /\ call[g].saga \in Sagas
    BY <1>8, <2>1
  <2>3. Prod(g) # p
    BY <1>2, <1>4, <2>1 DEF Inv, LocksExclude, HoldsProduct
  <2>4. stock'[Prod(g)] = stock[Prod(g)] /\ reservation'[Prod(g)] = reservation[Prod(g)]
    BY <1>5, <2>2, <2>3
  <2>5. Prod(g)' = Prod(g) /\ Op(g)' = Op(g) /\ Row(g)' = Row(g)
    BY <2>1, <2>4 DEF Prod, Op, Row
  <2> QED
    BY <1>1, <2>1, <2>4, <2>5 DEF Inv, DraftsAreCurrent
<1>12. OkMeansRecorded'
  <2> SUFFICES ASSUME NEW g \in Requests, answer'[g] = "ok", Op(g)' = "reserve"
               PROVE  Row(g)' # NoRow
    BY DEF OkMeansRecorded
  <2>1. g \in Handlers /\ Prod(g)' = Prod(g) /\ Op(g)' = Op(g) /\ call' = call
    BY <1>1 DEF Handlers, Prod, Op
  <2>2. CASE g = h
    <3>1. CommitReserve(h)
      BY <2>1, <2>2 DEF Commits, CommitReserve, CommitRelease, CommitUpdate
    <3>2. reservation'[p][s] = ReservedRow(call[h].quantity)
      BY <1>3, <1>4, <3>1 DEF CommitReserve, RowAfterReserve, LedgerTypeOK
    <3> QED
      BY <2>1, <2>2, <3>2 DEF Row, Prod, ReservedRow, NoRow
  <2>3. CASE g # h
    <3>1. answer[g] = "ok"
      BY <1>1, <1>3, <2>1, <2>3 DEF HandlerTypeOK
    <3>2. pc[g] = "done"
      BY <2>1, <3>1 DEF Inv, ProgressSound
    <3>3. Row(g) # NoRow
      BY <2>1, <3>1 DEF Inv, OkMeansRecorded
    <3> QED
      BY <1>7, <1>8, <2>1, <3>2, <3>3 DEF Row, Prod
  <2> QED
    BY <2>2, <2>3
<1> QED
  BY <1>3, <1>9, <1>10, <1>11, <1>12

(* A deleted product has no reservations and no writer.                    *)
LEMMA DeletePreserves ==
  ASSUME Inv, NEW p \in Products, Delete(p)
  PROVE  HandlerTypeOK' /\ ProgressSound' /\ LocksExclude' /\ DraftsAreCurrent'
         /\ OkMeansRecorded'
<1> USE DEF Delete, handlerVars
<1>1. HandlerTypeOK /\ HandlerTypeOK' /\ LedgerTypeOK
  BY TypeParts DEF Inv, HandlerTypeOK
<1>2. ProgressSound'
  BY DEF Inv, ProgressSound, ValidArguments, Op, Row
<1>3. LocksExclude'
  BY DEF Inv, LocksExclude, HoldsProduct, HoldsReservation, Prod, Op
<1>4. DraftsAreCurrent'
  <2> SUFFICES ASSUME NEW g \in Handlers, pc[g] = "write"
               PROVE  Prod(g) # p /\ stock'[Prod(g)] = stock[Prod(g)]
    BY DEF Inv, DraftsAreCurrent, Prod, Op, Row
  <2>1. Prod(g) # p
    BY DEF ProductFree, HoldsProduct
  <2>2. Prod(g) \in Products
    BY CallTypes
  <2> QED
    BY <1>1, <2>1, <2>2 DEF LedgerTypeOK
<1>5. OkMeansRecorded'
  BY DEF Inv, OkMeansRecorded, Row, Op
<1> QED
  BY <1>1, <1>2, <1>3, <1>4, <1>5

LEMMA InvInit == Init => Inv
<1> SUFFICES ASSUME Init PROVE Inv
  OBVIOUS
<1>1. LedgerTypeOK /\ ReservationPinsProduct
  BY LedgerTypeInit, PinInit DEF Init
<1>2. HandlerTypeOK
  BY DEF Init, HandlerTypeOK, Answers
<1>3. ProgressSound /\ LocksExclude /\ DraftsAreCurrent
  BY DEF Init, ProgressSound, LocksExclude, DraftsAreCurrent, HoldsProduct,
         HoldsReservation
<1>4. OkMeansRecorded
  BY DEF Init, OkMeansRecorded, Handlers
<1> QED
  BY <1>1, <1>2, <1>3, <1>4, TypeParts DEF Inv

(* Steps that concern no handler.                                          *)
LEMMA IdlePreserves ==
  ASSUME Inv, UNCHANGED <<ledgerVars, pc, call, draft, answer>>,
         stale' \subseteq Products \X Sagas
  PROVE  HandlerTypeOK' /\ ProgressSound' /\ LocksExclude' /\ DraftsAreCurrent'
         /\ OkMeansRecorded'
<1> USE DEF ledgerVars, Op, Prod, Row
<1>1. HandlerTypeOK'
  BY TypeParts DEF Inv, HandlerTypeOK
<1>2. ProgressSound'
  BY DEF Inv, ProgressSound, ValidArguments
<1>3. LocksExclude'
  BY DEF Inv, LocksExclude, HoldsProduct, HoldsReservation
<1>4. DraftsAreCurrent'
  BY DEF Inv, DraftsAreCurrent
<1>5. OkMeansRecorded'
  BY DEF Inv, OkMeansRecorded
<1> QED
  BY <1>1, <1>2, <1>3, <1>4, <1>5

LEMMA InvStep == Inv /\ [Next]_vars => Inv'
<1> SUFFICES ASSUME Inv, [Next]_vars PROVE Inv'
  OBVIOUS
<1> DEFINE Rest == /\ HandlerTypeOK' /\ ProgressSound' /\ LocksExclude'
                   /\ DraftsAreCurrent' /\ OkMeansRecorded'
<1>1. LedgerTypeOK' /\ ReservationPinsProduct'
  BY ServiceStep, LedgerTypeStep, PinStep DEF Inv, TypeOK
<1> SUFFICES Rest
  BY <1>1, TypeParts DEF Inv, TypeOK, HandlerTypeOK
<1>2. CASE UNCHANGED vars
  <2>1. stale \subseteq Products \X Sagas
    BY DEF Inv, TypeOK
  <2> QED
    BY <1>2, <2>1, IdlePreserves DEF vars, handlerVars
<1>3. ASSUME NEW h \in Requests, NEW c \in Arrivals, Receive(h, c)
      PROVE  Rest
  <2>1. h \in Handlers /\ c \in Calls
    BY DEF Handlers, Arrivals, Calls
  <2>2. h \in Requests => answer[h] # "ok"
    BY <1>3, <2>1 DEF Receive, Inv, ProgressSound
  <2> QED
    BY <1>3, <2>1, <2>2, ArrivalPreserves DEF Receive
<1>4. CASE ListStale
  <2>1. UNCHANGED <<ledgerVars, pc, call, draft, answer>>
    BY <1>4 DEF ListStale
  <2>2. stale' \subseteq Products \X Sagas
    BY <1>4 DEF ListStale
  <2> QED
    BY <2>1, <2>2, IdlePreserves
<1>5. CASE ReconcileNext
  <2>1. PICK k \in stale :
          /\ stale' = stale \ {k}
          /\ call' = [call EXCEPT ![Sweeper] =
                        [op |-> "release", product |-> k[1], saga |-> k[2],
                         quantity |-> reservation[k[1]][k[2]].quantity]]
    BY <1>5 DEF ReconcileNext
  <2>2. k[1] \in Products /\ k[2] \in Sagas
    BY DEF Inv, TypeOK
  <2>3. reservation[k[1]][k[2]].quantity \in Int
    BY <2>2, RowTypes DEF Inv, TypeOK
  <2>4. [op |-> "release", product |-> k[1], saga |-> k[2],
         quantity |-> reservation[k[1]][k[2]].quantity] \in Calls
    BY <2>2, <2>3 DEF Calls
  <2>5. Sweeper \in Handlers /\ Sweeper \notin Requests
    BY DEF Handlers
  <2> DEFINE c == [op |-> "release", product |-> k[1], saga |-> k[2],
                   quantity |-> reservation[k[1]][k[2]].quantity]
  <2>6. call' = [call EXCEPT ![Sweeper] = c] /\ c \in Calls /\ stale' \subseteq stale
    BY <2>1, <2>4
  <2>7. /\ pc[Sweeper] = "idle" /\ pc' = [pc EXCEPT ![Sweeper] = "called"]
        /\ UNCHANGED <<ledgerVars, draft, answer>>
    BY <1>5 DEF ReconcileNext
  <2> HIDE DEF c
  <2> QED
    BY <2>5, <2>6, <2>7, ArrivalPreserves
<1>6. ASSUME NEW h \in Handlers, Step(h) \/ Abort(h)
      PROVE  Rest
  BY <1>6, StepKinds, BeginPreserves, FindReservationPreserves, FinishPreserves,
     PreparePreserves, CommitPreserves
<1>7. ASSUME NEW p \in Products, Delete(p)
      PROVE  Rest
  BY <1>7, DeletePreserves
<1> HIDE DEF Rest
<1> QED
  BY <1>2, <1>3, <1>4, <1>5, <1>6, <1>7 DEF Next

-----------------------------------------------------------------------------
(* The theorems.                                                           *)

(* Between any two statements of any transactions, row locks are exclusive *)
(* and what the transactions have read is still true.                      *)
THEOREM InvCorrect == Spec => []Inv
BY InvInit, InvStep, PTL DEF Spec

(* The stock never leaves the range of its column, in every interleaving.  *)
THEOREM TypeCorrect == Spec => []TypeOK
<1>1. Inv => TypeOK
  BY DEF Inv
<1> QED
  BY <1>1, InvCorrect, PTL

(* A caller told "ok" by Reserve has its row, in every interleaving.       *)
THEOREM OkAnswersAreRecorded == Spec => []OkMeansRecorded
<1>1. Inv => OkMeansRecorded
  BY DEF Inv
<1> QED
  BY <1>1, InvCorrect, PTL

(* The interleaved transactions implement the ledger's atomic steps.       *)
THEOREM ImplementsLedger == Spec => LedgerSpec
<1>1. Init => LedgerInit
  BY DEF Init
<1> QED
  BY <1>1, InvCorrect, ServiceStep, PTL DEF Spec, LedgerSpec

(* Products with a reservation keep their row, whatever runs concurrently. *)
THEOREM ProductsArePinned == Spec => []ReservationPinsProduct
BY ImplementsLedger, LedgerPinsProducts, PTL

(* Redelivered commands, repeated releases and the reconciliation never    *)
(* reopen or rewrite a reservation.                                        *)
THEOREM RowsStayFinal == Spec => RowsAreFinal
BY ImplementsLedger, LedgerRowsAreFinal, PTL

Conserves ==
  \A p \in Products :
    \/ Supply(p)' = Supply(p)
    \/ \E h \in Handlers : CommitUpdate(h) /\ Prod(h) = p
    \/ Delete(p)

LEMMA QuietSteps ==
  ASSUME UNCHANGED ledgerVars
  PROVE  \A p \in Products : Supply(p)' = Supply(p)
BY DEF ledgerVars, Supply, ReservedUnits

LEMMA ConservesStep == Inv /\ [Next]_vars => [Conserves]_vars
<1> SUFFICES ASSUME Inv, Next, NEW p \in Products
             PROVE  \/ Supply(p)' = Supply(p)
                    \/ \E h \in Handlers : CommitUpdate(h) /\ Prod(h) = p
                    \/ Delete(p)
  BY DEF Conserves
<1>1. LedgerTypeOK
  BY DEF Inv, TypeOK
<1>2. CASE UNCHANGED ledgerVars
  BY <1>2, QuietSteps
<1>3. ASSUME NEW h \in Handlers, Commits(h)
      PROVE  \/ Supply(p)' = Supply(p)
             \/ CommitUpdate(h) /\ Prod(h) = p
  <2>1. pc[h] # "idle"
    BY <1>3 DEF Commits, CommitReserve, CommitRelease, CommitUpdate
  <2>2. Prod(h) \in Products /\ call[h].saga \in Sagas
    BY <2>1, CallTypes
  <2>3. CASE call[h].quantity \in 1..MaxInt4
             /\ ReserveUnits(call[h].saga, Prod(h), call[h].quantity)
    BY <1>1, <2>2, <2>3, ReserveConserves
  <2>4. CASE ReleaseUnits(call[h].saga, Prod(h))
    BY <1>1, <2>2, <2>4, ReleaseConserves
  <2>5. CASE CommitUpdate(h) /\ SetStock(Prod(h), draft[h]) /\ Prod(h) # p
    BY <1>1, <2>5 DEF SetStock, Supply, ReservedUnits, LedgerTypeOK
  <2> QED
    BY <1>3, <2>3, <2>4, <2>5, CommitIsLedgerStep
<1>4. ASSUME NEW r \in Products, Delete(r)
      PROVE  Supply(p)' = Supply(p) \/ Delete(p)
  <2>1. CASE r = p
    BY <1>4, <2>1
  <2>2. CASE r # p
    BY <1>1, <1>4, <2>2 DEF Delete, Supply, ReservedUnits, LedgerTypeOK
  <2> QED
    BY <2>1, <2>2
<1>5. ASSUME NEW h \in Handlers, Step(h) \/ Abort(h), ~ Commits(h)
      PROVE  UNCHANGED ledgerVars
  BY <1>5, StepKinds
  DEF Begin, FindReservation, Finishes, FinishUnchanged, Prepares, PrepareWrite
<1>6. ASSUME NEW h \in Requests, NEW c \in Arrivals, Receive(h, c)
      PROVE  UNCHANGED ledgerVars
  BY <1>6 DEF Receive
<1>7. CASE ListStale \/ ReconcileNext
  BY <1>2, <1>7 DEF ListStale, ReconcileNext
<1> QED
  BY <1>2, <1>3, <1>4, <1>5, <1>6, <1>7 DEF Next

(* No interleaving of any number of transactions creates or loses a unit.  *)
THEOREM ServiceConservesUnits == Spec => UnitsConserved
<1>1. [Conserves]_vars =>
        [\A p \in Products :
           \/ Supply(p)' = Supply(p)
           \/ \E h \in Handlers : CommitUpdate(h) /\ Prod(h) = p
           \/ Delete(p)]_vars
  BY DEF Conserves
<1> QED
  BY <1>1, ConservesStep, InvCorrect, PTL DEF Spec, UnitsConserved
=============================================================================
