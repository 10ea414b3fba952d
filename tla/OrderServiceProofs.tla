------------------------- MODULE OrderServiceProofs -------------------------
(***************************************************************************)
(* Pay, Cancel and UpdateStatus implement the contract of OrderLifecycle,  *)
(* for any number of requests, orders, items and connections.  The         *)
(* argument: SELECT ... FOR UPDATE gives a request its order alone until   *)
(* COMMIT, so that the status it has read is the one it changes.           *)
(***************************************************************************)
EXTENDS OrderService, TLAPS

USE OrderServiceAssumption

USE DEF Lifecycle!Target, Lifecycle!Refusal, Lifecycle!Already, Target, Order, Op,
        GoTo, Finish, LocksRow, Locking, InTransaction, Reading, Running

LEMMA CallFacts ==
  ASSUME TypeOK, NEW r \in Requests
  PROVE  /\ call[r].order \in Orders
         /\ call[r].op \in {"pay", "cancel", "setPaid", "setCanceled", "setOther"}
BY DEF TypeOK, Lifecycle!CallTypes, Lifecycle!Operations

LEMMA RefusalFacts ==
  ASSUME NEW op \in {"pay", "cancel", "setPaid", "setCanceled", "setOther"},
         NEW st \in Lifecycle!Statuses
  PROVE  Lifecycle!Refusal(op, st) \in Lifecycle!Refusals
BY DEF Lifecycle!Statuses, Lifecycle!Refusals

LEMMA KeyTypes ==
  ASSUME NEW o \in Orders, NEW i \in DOMAIN Items[o]
  PROVE  <<o, Items[o][i]>> \in Keys
<1> DEFINE KeysIn(q) == {<<q, Items[q][j]>> : j \in DOMAIN Items[q]}
<1>1. <<o, Items[o][i]>> \in KeysIn(o)
  OBVIOUS
<1>2. KeysIn(o) \in {KeysIn(q) : q \in Orders}
  OBVIOUS
<1> QED
  BY <1>1, <1>2 DEF Keys, KeysOf

LEMMA ItemDomain ==
  ASSUME NEW o \in Orders
  PROVE  Len(Items[o]) \in Nat /\ DOMAIN Items[o] = 1..Len(Items[o])
OBVIOUS

LEMMA InitInv == Init => Inv
<1> SUFFICES ASSUME Init PROVE Inv
  OBVIOUS
<1>1. TypeOK
  BY DEF Init, TypeOK, Keys, Lifecycle!Statuses, Lifecycle!Answers, Lifecycle!Refusals
<1>2. LockProtectsOrder
  BY DEF Init, LockProtectsOrder
<1>3. HandlerInv
  BY DEF Init, HandlerInv, HandlerSound
<1>4. CanceledMeansReturned
  BY DEF Init, CanceledMeansReturned
<1>5. OneWinner
  BY DEF Init, OneWinner, Lifecycle!OneWinner, Lifecycle!Told, AbstractAnswer
<1> QED
  BY <1>1, <1>2, <1>3, <1>4, <1>5 DEF Inv

LEMMA TypeStep == Inv /\ [Next]_vars => TypeOK'
<1> SUFFICES ASSUME Inv, [Next]_vars PROVE TypeOK'
  OBVIOUS
<1> USE DEF TypeOK
<1>0. TypeOK
  BY DEF Inv
<1>1. ASSUME NEW o \in Orders, InsertOrder(o) PROVE TypeOK'
  BY <1>0, <1>1 DEF InsertOrder, Lifecycle!Statuses
<1>2. ASSUME NEW r \in Requests, HandlerStep(r) PROVE TypeOK'
  <2> USE <1>0 DEF Lifecycle!Answers, Lifecycle!Refusals, Lifecycle!Statuses
  <2>0. /\ call[r].order \in Orders
        /\ status[Order(r)] \in Lifecycle!Statuses
        /\ Op(r) \in {"pay", "cancel", "setPaid", "setCanceled", "setOther"}
    BY CallFacts
  <2>1. CASE RejectStatus(r)
    BY <2>1 DEF RejectStatus
  <2>2. CASE Begin(r)
    BY <2>2 DEF Begin
  <2>3. CASE LockOrder(r)
    <3>1. DomainCheck(r, status[Order(r)]) \in Lifecycle!Answers
      BY <2>0, RefusalFacts DEF DomainCheck
    <3>2. AfterLock(r) \in {"items", "write"}
      BY DEF AfterLock
    <3>3. CASE Finish(r, DomainCheck(r, status[Order(r)]))
               /\ UNCHANGED <<status, call, at, seen, returned, swept, late>>
      BY <3>1, <3>3
    <3>4. CASE GoTo(r, AfterLock(r)) /\ UNCHANGED answer
               /\ UNCHANGED <<status, call, at, seen, returned, swept, late>>
      BY <3>2, <3>4
    <3> QED
      BY <2>3, <3>3, <3>4 DEF LockOrder
  <2>4. CASE ReadRefundItems(r)
    BY <2>4 DEF ReadRefundItems
  <2>5. CASE RefundItem(r)
    <3>1. ReleaseKey(r) \in Keys
      <4>1. Len(Items[Order(r)]) \in Nat
        BY <2>0, ItemDomain
      <4>2. at[r] \in 1..Len(Items[Order(r)])
        BY <2>5, <4>1 DEF RefundItem
      <4> QED
        BY <4>2, <2>0, KeyTypes, ItemDomain DEF ReleaseKey
    <3>2. /\ at' = at \/ at' = [at EXCEPT ![r] = @ + 1]
          /\ pc' = pc \/ pc' = [pc EXCEPT ![r] = "done"]
          /\ answer' = answer \/ answer' = [answer EXCEPT ![r] = "error"]
          /\ UNCHANGED <<status, call, seen, swept>> /\ returned \subseteq returned'
      BY <2>5 DEF RefundItem, RefundFailed
    <3>3. returned' \subseteq Keys /\ late' \subseteq Keys
      BY <2>5, <3>1 DEF RefundItem
    <3>4. at' \in [Requests -> Nat \ {0}]
      <4>1. at \in [Requests -> Nat \ {0}] /\ at[r] + 1 \in Nat \ {0}
        OBVIOUS
      <4>2. [at EXCEPT ![r] = @ + 1] \in [Requests -> Nat \ {0}]
        BY <4>1
      <4> QED
        BY <3>2, <4>1, <4>2
    <3>5. pc' \in [Requests -> {"new", "done"} \cup InTransaction \cup Reading]
          /\ answer' \in [Requests -> Lifecycle!Answers]
      BY <3>2
    <3> QED
      BY <3>2, <3>3, <3>4, <3>5
  <2>6. CASE RefundDone(r)
    BY <2>6 DEF RefundDone
  <2>7. CASE Commit(r)
    BY <2>7, <2>0 DEF Commit
  <2>8. CASE ReadOrder(r)
    BY <2>8, <2>0 DEF ReadOrder
  <2>9. CASE ReadClient(r)
    BY <2>9 DEF ReadClient
  <2>10. CASE ReadItems(r)
    BY <2>10 DEF ReadItems
  <2>11. CASE ReadProducts(r)
    <3>1. seen[r] \in Lifecycle!Answers
      BY <2>11, CallFacts DEF ReadProducts, Inv, HandlerInv, HandlerSound
    <3> QED
      BY <2>11, <3>1 DEF ReadProducts
  <2> QED
    BY <1>2, <2>1, <2>2, <2>3, <2>4, <2>5, <2>6, <2>7, <2>8, <2>9, <2>10, <2>11
       DEF HandlerStep
<1>3. ASSUME NEW r \in Requests, DatabaseError(r) PROVE TypeOK'
  BY <1>0, <1>3 DEF DatabaseError, Lifecycle!Answers
<1>4. ASSUME NEW rs \in SUBSET Requests PROVE UnderWay(rs) \subseteq Keys
  <2>1. ASSUME NEW q \in rs, at[q] <= Len(Items[Order(q)])
        PROVE  ReleaseKey(q) \in Keys
    <3>1. call[q].order \in Orders
      BY <1>0, CallFacts
    <3>2. Len(Items[Order(q)]) \in Nat
      BY <3>1, ItemDomain
    <3>3. at[q] \in 1..Len(Items[Order(q)])
      BY <1>0, <2>1, <3>2
    <3> QED
      BY <3>1, <3>3, KeyTypes, ItemDomain DEF ReleaseKey
  <2> QED
    BY <2>1 DEF UnderWay
<1>5. ASSUME NEW r \in Requests, Disconnect(r) PROVE TypeOK'
  <2>1. UnderWay({r}) \subseteq Keys
    BY <1>4
  <2> QED
    BY <1>0, <1>5, <2>1 DEF Disconnect, Lifecycle!Answers
<1>6. CASE Crash
  <2>1. UnderWay(Requests) \subseteq Keys
    BY <1>4
  <2> QED
    BY <1>0, <1>6, <2>1 DEF Crash, Lifecycle!Answers
<1>7. ASSUME NEW key \in Keys, LateRelease(key) \/ Reconcile(key) PROVE TypeOK'
  BY <1>0, <1>7 DEF LateRelease, Reconcile
<1>8. CASE UNCHANGED vars
  BY <1>0, <1>8 DEF vars
<1> QED
  BY <1>0, <1>1, <1>2, <1>3, <1>5, <1>6, <1>7, <1>8 DEF Next

LEMMA LockStep == Inv /\ [Next]_vars => LockProtectsOrder'
<1> SUFFICES ASSUME Inv, [Next]_vars PROVE LockProtectsOrder'
  OBVIOUS
<1> USE DEF LockProtectsOrder
<1>0. TypeOK /\ LockProtectsOrder
  BY DEF Inv
<1> USE <1>0 DEF TypeOK
<1>1. ASSUME NEW o \in Orders, InsertOrder(o) PROVE LockProtectsOrder'
  BY <1>1 DEF InsertOrder
<1>2. ASSUME NEW r \in Requests, HandlerStep(r) PROVE LockProtectsOrder'
  <2>1. CASE RejectStatus(r) \/ Begin(r) \/ ReadRefundItems(r) \/ RefundItem(r)
             \/ RefundDone(r) \/ ReadOrder(r) \/ ReadClient(r) \/ ReadItems(r)
             \/ ReadProducts(r)
    <3>1. UNCHANGED <<status, call>>
      BY <2>1 DEF RejectStatus, Begin, ReadRefundItems, RefundItem, RefundDone,
         ReadOrder, ReadClient, ReadItems, ReadProducts
    <3>2. \E l : pc' = [pc EXCEPT ![r] = l] /\ (l \in Locking => pc[r] \in Locking)
      BY <2>1 DEF RejectStatus, Begin, ReadRefundItems, RefundItem, RefundFailed,
         RefundDone, ReadOrder, ReadClient, ReadItems, ReadProducts
    <3> QED
      BY <3>1, <3>2
  <2>2. CASE LockOrder(r)
    <3>1. status[Order(r)] = "PENDING" \/ pc' = [pc EXCEPT ![r] = "done"]
      BY <2>2, CallFacts DEF LockOrder, DomainCheck
    <3>2. UNCHANGED <<status, call>> /\ RowFree(Order(r))
      BY <2>2 DEF LockOrder
    <3>3. \E l : pc' = [pc EXCEPT ![r] = l]
      BY <2>2 DEF LockOrder
    <3> QED
      BY <3>1, <3>2, <3>3 DEF RowFree
  <2>3. CASE Commit(r)
    <3>1. \A q \in Requests \ {r} : LocksRow(q) => Order(q) # Order(r)
      BY <2>3 DEF Commit
    <3>2. \E l \in {"readOrder", "done"} : pc' = [pc EXCEPT ![r] = l]
      BY <2>3 DEF Commit
    <3>3. call' = call /\ status' = [status EXCEPT ![Order(r)] = Target(Op(r))]
      BY <2>3 DEF Commit
    <3> QED
      BY <3>1, <3>2, <3>3
  <2> QED
    BY <1>2, <2>1, <2>2, <2>3 DEF HandlerStep
<1>3. ASSUME NEW r \in Requests, DatabaseError(r) \/ Disconnect(r)
      PROVE  LockProtectsOrder'
  <2>1. pc' = [pc EXCEPT ![r] = "done"] /\ UNCHANGED <<status, call>>
    BY <1>3 DEF DatabaseError, Disconnect
  <2> QED
    BY <2>1
<1>4. CASE Crash
  BY <1>4 DEF Crash
<1>5. ASSUME NEW key, LateRelease(key) \/ Reconcile(key) PROVE LockProtectsOrder'
  BY <1>5 DEF LateRelease, Reconcile
<1>6. CASE UNCHANGED vars
  BY <1>6 DEF vars
<1> QED
  BY <1>1, <1>2, <1>3, <1>4, <1>5, <1>6 DEF Next

-----------------------------------------------------------------------------
(* A handler changes nothing of the others but what its COMMIT shows.      *)

LEMMA OnlyItself ==
  ASSUME TypeOK, NEW r \in Requests, HandlerStep(r) \/ DatabaseError(r) \/ Disconnect(r),
         NEW q \in Requests, q # r
  PROVE  /\ pc'[q] = pc[q] /\ at'[q] = at[q]
         /\ answer'[q] = answer[q] /\ seen'[q] = seen[q]
         /\ call' = call /\ returned \subseteq returned'
         /\ status' = status \/ Commit(r)
<1> USE DEF TypeOK
<1>1. CASE RejectStatus(r) \/ Begin(r) \/ LockOrder(r) \/ ReadRefundItems(r) \/ RefundDone(r)
  BY <1>1 DEF RejectStatus, Begin, LockOrder, ReadRefundItems, RefundDone
<1>2. CASE RefundItem(r)
  BY <1>2 DEF RefundItem, RefundFailed
<1>3. CASE Commit(r)
  BY <1>3 DEF Commit
<1>4. CASE ReadOrder(r) \/ ReadClient(r) \/ ReadItems(r) \/ ReadProducts(r)
  BY <1>4 DEF ReadOrder, ReadClient, ReadItems, ReadProducts
<1>5. CASE DatabaseError(r) \/ Disconnect(r)
  BY <1>5 DEF DatabaseError, Disconnect
<1> QED
  BY <1>1, <1>2, <1>3, <1>4, <1>5 DEF HandlerStep

LEMMA OthersStaySound ==
  ASSUME NEW q \in Requests, HandlerSound(q),
         pc'[q] = pc[q], at'[q] = at[q], answer'[q] = answer[q], seen'[q] = seen[q],
         call' = call, returned \subseteq returned',
         pc[q] \in Reading => status'[Order(q)] = status[Order(q)]
  PROVE  HandlerSound(q)'
BY DEF HandlerSound, KeysOf

LEMMA DoneIsSound ==
  ASSUME NEW q \in Requests, pc'[q] = "done", answer'[q] # "accepted"
  PROVE  HandlerSound(q)'
BY DEF HandlerSound

(* COMMIT changes an order that nobody else works on and nobody reads.     *)
LEMMA CommitAlone ==
  ASSUME Inv, NEW r \in Requests, Commit(r)
  PROVE  /\ status[Order(r)] = "PENDING" /\ Order(r) \in Orders
         /\ status' = [status EXCEPT ![Order(r)] = Target(Op(r))]
         /\ \A q \in Requests : pc[q] \in Reading => Order(q) # Order(r)
<1>1. status[Order(r)] = "PENDING" /\ Order(r) \in Orders
  BY CallFacts DEF Commit, Inv, LockProtectsOrder
<1>2. ASSUME NEW q \in Requests, pc[q] \in Reading PROVE status[Order(q)] # "PENDING"
  BY <1>2 DEF Inv, HandlerInv, HandlerSound
<1> QED
  BY <1>1, <1>2 DEF Commit

LEMMA OwnStep ==
  ASSUME Inv, NEW r \in Requests, HandlerStep(r)
  PROVE  HandlerSound(r)'
<1>0. TypeOK /\ HandlerSound(r) /\ Order(r) \in Orders /\ Op(r) \in Lifecycle!Operations
  BY CallFacts DEF Inv, HandlerInv, TypeOK, Lifecycle!CallTypes
<1>a. Len(Items[Order(r)]) \in Nat /\ DOMAIN Items[Order(r)] = 1..Len(Items[Order(r)])
  BY <1>0, ItemDomain
<1> USE DEF TypeOK
<1>1. CASE RejectStatus(r)
  BY <1>0, <1>1, DoneIsSound DEF RejectStatus
<1>2. CASE Begin(r)
  BY <1>0, <1>2 DEF Begin, HandlerSound
<1>3. CASE LockOrder(r)
  <2>1. CASE Finish(r, DomainCheck(r, status[Order(r)])) /\ UNCHANGED call
    <3>1. DomainCheck(r, status[Order(r)]) # "accepted"
      BY DEF DomainCheck
    <3> QED
      BY <1>0, <2>1, <3>1, DoneIsSound
  <2>2. CASE GoTo(r, AfterLock(r)) /\ UNCHANGED <<status, call, answer, at, seen, returned>>
    BY <1>0, <1>3, <2>2 DEF AfterLock, HandlerSound, LockOrder
  <2> QED
    BY <1>3, <2>1, <2>2 DEF LockOrder
<1>4. CASE ReadRefundItems(r)
  BY <1>0, <1>a, <1>4 DEF ReadRefundItems, HandlerSound
<1>5. CASE RefundItem(r)
  <2>1. CASE RefundFailed(r)
    BY <1>0, <2>1, DoneIsSound DEF RefundFailed
  <2>2. CASE /\ returned' = returned \cup {ReleaseKey(r)}
             /\ at' = [at EXCEPT ![r] = @ + 1]
             /\ UNCHANGED <<status, call, pc, answer, seen>>
    <3>1. pc[r] = "refund" /\ at[r] <= Len(Items[Order(r)])
      BY <1>5 DEF RefundItem
    <3>2. at'[r] = at[r] + 1 /\ at'[r] <= Len(Items[Order(r)]) + 1
      BY <1>0, <1>a, <2>2, <3>1
    <3>3. ASSUME NEW i \in 1..(at'[r] - 1)
          PROVE  <<Order(r), Items[Order(r)][i]>> \in returned'
      <4>1. i \in 1..(at[r] - 1) \/ i = at[r]
        BY <1>0, <3>2, <3>3
      <4> QED
        BY <1>0, <2>2, <3>1, <4>1 DEF ReleaseKey, HandlerSound
    <3> QED
      BY <1>0, <2>2, <3>1, <3>2, <3>3 DEF HandlerSound
  <2> QED
    BY <1>5, <2>1, <2>2 DEF RefundItem
<1>6. CASE RefundDone(r)
  <2>1. ASSUME NEW i \in DOMAIN Items[Order(r)]
        PROVE  <<Order(r), Items[Order(r)][i]>> \in returned
    BY <1>0, <1>a, <1>6 DEF RefundDone, HandlerSound
  <2>2. KeysOf(Order(r)) \subseteq returned
    BY <2>1 DEF KeysOf
  <2> QED
    BY <1>0, <1>6, <2>2 DEF RefundDone, HandlerSound, KeysOf
<1>7. CASE Commit(r)
  <2>1. status'[Order(r)] = Target(Op(r)) /\ UNCHANGED call
    BY <1>0, <1>7 DEF Commit
  <2>2. CASE Finish(r, "error")
    BY <1>0, <2>2, DoneIsSound
  <2>3. CASE GoTo(r, "readOrder") /\ UNCHANGED answer
    BY <1>0, <1>7, <2>1, <2>3 DEF Commit, HandlerSound
  <2> QED
    BY <1>7, <2>2, <2>3 DEF Commit
<1>8. CASE ReadOrder(r)
  BY <1>0, <1>8 DEF ReadOrder, HandlerSound
<1>9. CASE ReadClient(r) \/ ReadItems(r)
  BY <1>0, <1>9 DEF ReadClient, ReadItems, HandlerSound
<1>10. CASE ReadProducts(r)
  <2>1. seen[r] # "accepted"
    BY <1>0, <1>10 DEF ReadProducts, HandlerSound
  <2> QED
    BY <1>0, <1>10, <2>1, DoneIsSound DEF ReadProducts
<1> QED
  BY <1>1, <1>2, <1>3, <1>4, <1>5, <1>6, <1>7, <1>8, <1>9, <1>10
     DEF HandlerStep

LEMMA HandlerInvStep == Inv /\ [Next]_vars => HandlerInv'
<1> SUFFICES ASSUME Inv, [Next]_vars, NEW q \in Requests PROVE HandlerSound(q)'
  BY DEF HandlerInv
<1>0. TypeOK /\ HandlerSound(q) /\ Order(q) \in Orders
  BY CallFacts DEF Inv, HandlerInv
<1>1. ASSUME NEW o \in Orders, InsertOrder(o) PROVE HandlerSound(q)'
  <2>1. pc[q] \in Reading => Order(q) # o
    BY <1>0, <1>1 DEF InsertOrder, HandlerSound
  <2> QED
    BY <1>0, <1>1, <2>1, OthersStaySound DEF InsertOrder, TypeOK
<1>2. ASSUME NEW r \in Requests, HandlerStep(r), q # r PROVE HandlerSound(q)'
  <2>1. pc[q] \in Reading => status'[Order(q)] = status[Order(q)]
    <3>1. CASE Commit(r)
      BY <1>0, <3>1, CommitAlone DEF TypeOK
    <3>2. CASE status' = status
      BY <3>2
    <3> QED
      BY <1>0, <1>2, <3>1, <3>2, OnlyItself
  <2> QED
    BY <1>0, <1>2, <2>1, OnlyItself, OthersStaySound
<1>3. ASSUME HandlerStep(q) PROVE HandlerSound(q)'
  BY <1>3, OwnStep
<1>4. ASSUME NEW r \in Requests, DatabaseError(r) \/ Disconnect(r)
      PROVE  HandlerSound(q)'
  <2>1. CASE q = r
    BY <1>0, <1>4, <2>1, DoneIsSound DEF DatabaseError, Disconnect, TypeOK
  <2>2. CASE q # r
    <3>1. status' = status
      BY <1>4 DEF DatabaseError, Disconnect
    <3> QED
      BY <1>0, <1>4, <2>2, <3>1, OnlyItself, OthersStaySound
  <2> QED
    BY <2>1, <2>2
<1>5. CASE Crash
  <2>1. pc'[q] = "done" /\ answer'[q] # "accepted"
    BY <1>0, <1>5 DEF Crash, HandlerSound
  <2> QED
    BY <2>1, DoneIsSound
<1>6. ASSUME NEW key, LateRelease(key) \/ Reconcile(key) PROVE HandlerSound(q)'
  BY <1>0, <1>6, OthersStaySound DEF LateRelease, Reconcile
<1>7. CASE UNCHANGED vars
  BY <1>0, <1>7, OthersStaySound DEF vars
<1> QED
  BY <1>1, <1>2, <1>3, <1>4, <1>5, <1>6, <1>7 DEF Next

LEMMA CanceledStep == Inv /\ [Next]_vars => CanceledMeansReturned'
<1> SUFFICES ASSUME Inv, [Next]_vars, NEW o \in Orders, status'[o] = "CANCELED"
             PROVE  KeysOf(o) \subseteq returned'
  BY DEF CanceledMeansReturned, KeysOf
<1>0. TypeOK /\ (status[o] = "CANCELED" => KeysOf(o) \subseteq returned)
  BY DEF Inv, CanceledMeansReturned
<1>1. ASSUME NEW p \in Orders, InsertOrder(p) PROVE KeysOf(o) \subseteq returned'
  BY <1>0, <1>1 DEF InsertOrder, TypeOK
<1>2. ASSUME NEW r \in Requests, HandlerStep(r), ~ Commit(r)
      PROVE  KeysOf(o) \subseteq returned'
  <2>1. status' = status /\ returned \subseteq returned'
    BY <1>2 DEF HandlerStep, RejectStatus, Begin, LockOrder, ReadRefundItems,
       RefundItem, RefundDone, ReadOrder, ReadClient, ReadItems, ReadProducts
  <2> QED
    BY <1>0, <2>1
<1>3. ASSUME NEW r \in Requests, Commit(r) PROVE KeysOf(o) \subseteq returned'
  <2>1. CASE o = Order(r)
    <3>1. Target(Op(r)) = "CANCELED"
      BY <1>0, <1>3, <2>1, CommitAlone DEF TypeOK
    <3> QED
      BY <1>3, <2>1, <3>1 DEF Inv, HandlerInv, HandlerSound, Commit
  <2>2. CASE o # Order(r)
    BY <1>0, <1>3, <2>2, CommitAlone DEF TypeOK, Commit
  <2> QED
    BY <2>1, <2>2
<1>4. ASSUME NEW r \in Requests, DatabaseError(r) \/ Disconnect(r)
      PROVE  KeysOf(o) \subseteq returned'
  BY <1>0, <1>4 DEF DatabaseError, Disconnect
<1>5. CASE Crash \/ UNCHANGED vars
  BY <1>0, <1>5 DEF Crash, vars
<1>6. ASSUME NEW key, LateRelease(key) \/ Reconcile(key) PROVE KeysOf(o) \subseteq returned'
  BY <1>0, <1>6 DEF LateRelease, Reconcile
<1> QED
  BY <1>1, <1>2, <1>3, <1>4, <1>5, <1>6 DEF Next

-----------------------------------------------------------------------------
(* Who has been told of a success, in terms of the handlers.               *)

HasWon(r) == pc[r] \in Reading \/ answer[r] \in {"PAID", "CANCELED"}

LEMMA ToldMeansWon ==
  ASSUME HandlerInv, NEW r \in Requests
  PROVE  Lifecycle!Told(r) <=> HasWon(r)
BY DEF Lifecycle!Told, AbstractAnswer, HasWon, HandlerInv, HandlerSound

(* Only its COMMIT makes a request a winner.                               *)
LEMMA WinnersCommit ==
  ASSUME Inv, [Next]_vars, NEW q \in Requests, HasWon(q)'
  PROVE  HasWon(q) \/ Commit(q)
<1>0. TypeOK /\ HandlerSound(q) /\ status[Order(q)] \in Lifecycle!Statuses
  BY CallFacts DEF Inv, HandlerInv, TypeOK
<1> USE DEF HasWon, TypeOK
<1>1. ASSUME NEW r \in Requests, r # q,
             HandlerStep(r) \/ DatabaseError(r) \/ Disconnect(r)
      PROVE  HasWon(q)
  BY <1>0, <1>1, OnlyItself
<1>2. CASE HandlerStep(q)
  <2>1. CASE RejectStatus(q) \/ Begin(q) \/ ReadRefundItems(q) \/ RefundItem(q) \/ RefundDone(q)
    BY <1>0, <2>1 DEF RejectStatus, Begin, ReadRefundItems, RefundItem, RefundFailed,
       RefundDone
  <2>2. CASE LockOrder(q)
    <3>1. DomainCheck(q, status[Order(q)]) \notin {"PAID", "CANCELED"}
      BY DEF DomainCheck
    <3> QED
      BY <1>0, <2>2, <3>1 DEF LockOrder, AfterLock
  <2>3. CASE ReadOrder(q) \/ ReadClient(q) \/ ReadItems(q) \/ ReadProducts(q)
    BY <2>3 DEF ReadOrder, ReadClient, ReadItems, ReadProducts
  <2> QED
    BY <1>2, <2>1, <2>2, <2>3 DEF HandlerStep
<1>3. CASE DatabaseError(q) \/ Disconnect(q)
  BY <1>0, <1>3 DEF DatabaseError, Disconnect
<1>4. CASE Crash
  BY <1>0, <1>4 DEF Crash
<1>5. CASE \/ \E o \in Orders : InsertOrder(o)
           \/ \E key \in late : LateRelease(key)
           \/ \E key \in Keys : Reconcile(key)
           \/ UNCHANGED vars
  BY <1>5 DEF InsertOrder, LateRelease, Reconcile, vars
<1> QED
  BY <1>1, <1>2, <1>3, <1>4, <1>5 DEF Next

LEMMA StatusStep ==
  ASSUME Inv, [Next]_vars
  PROVE  /\ UNCHANGED call
         /\ \/ UNCHANGED status
            \/ \E o \in Orders : InsertOrder(o)
            \/ \E r \in Requests : Commit(r)
BY DEF Next, InsertOrder, HandlerStep, RejectStatus, Begin, LockOrder, ReadRefundItems,
   RefundItem, RefundDone, Commit, ReadOrder, ReadClient, ReadItems, ReadProducts,
   DatabaseError, Disconnect, Crash, LateRelease, Reconcile, vars

LEMMA WinnerStep == Inv /\ [Next]_vars => OneWinner'
<1> SUFFICES ASSUME Inv, [Next]_vars PROVE OneWinner'
  OBVIOUS
<1>0. TypeOK /\ HandlerInv' /\ UNCHANGED call
  BY HandlerInvStep, StatusStep DEF Inv
<1>1. ASSUME NEW r \in Requests, HasWon(r)
      PROVE  status[Order(r)] = Target(Op(r)) /\ status'[Order(r)] = status[Order(r)]
  <2>1. status[Order(r)] = Target(Op(r)) /\ status[Order(r)] \notin {"NONE", "PENDING"}
    BY <1>1, ToldMeansWon DEF Inv, OneWinner, Lifecycle!OneWinner
  <2>2. ASSUME NEW o \in Orders, InsertOrder(o) PROVE status'[Order(r)] = status[Order(r)]
    BY <1>0, <2>1, <2>2, CallFacts DEF InsertOrder, TypeOK
  <2>3. ASSUME NEW q \in Requests, Commit(q) PROVE status'[Order(r)] = status[Order(r)]
    BY <1>0, <2>1, <2>3, CallFacts, CommitAlone DEF TypeOK
  <2> QED
    BY <2>1, <2>2, <2>3, StatusStep
<1>2. ASSUME NEW r \in Requests, HasWon(r)' PROVE (status[Order(r)] = Target(Op(r)))'
  <2>1. CASE HasWon(r)
    BY <1>0, <1>1, <2>1
  <2>2. CASE Commit(r)
    BY <1>0, <2>2, CommitAlone DEF TypeOK
  <2> QED
    BY <1>2, <2>1, <2>2, WinnersCommit
<1>3. ASSUME NEW r1 \in Requests, NEW r2 \in Requests, HasWon(r1)', HasWon(r2)',
             Order(r1) = Order(r2)
      PROVE  r1 = r2
  <2>1. CASE HasWon(r1) /\ HasWon(r2)
    BY <1>3, <2>1, ToldMeansWon DEF Inv, OneWinner, Lifecycle!OneWinner
  <2>2. ASSUME NEW r \in Requests, NEW q \in Requests, Commit(r), HasWon(q),
               Order(r) = Order(q)
        PROVE  FALSE
    BY <2>2, <1>1, CommitAlone
  <2>3. ASSUME Commit(r1), Commit(r2), r1 # r2 PROVE FALSE
    BY <1>3, <2>3, CommitAlone DEF Commit, Inv, LockProtectsOrder
  <2> QED
    BY <1>3, <2>1, <2>2, <2>3, WinnersCommit
<1> QED
  <2>1. ASSUME NEW r \in Requests PROVE Lifecycle!Told(r)' <=> HasWon(r)'
    BY <1>0 DEF Lifecycle!Told, AbstractAnswer, HasWon, HandlerInv, HandlerSound
  <2> QED
    BY <1>0, <1>2, <1>3, <2>1 DEF OneWinner, Lifecycle!OneWinner

(* The invariant: whatever calls come in whatever order.                   *)
THEOREM OrderInvCorrect == Spec => []Inv
<1>1. Inv /\ [Next]_vars => Inv'
  BY TypeStep, LockStep, HandlerInvStep, CanceledStep, WinnerStep DEF Inv
<1> QED
  BY InitInv, <1>1, PTL DEF Spec

(* A CANCELED order has all its units back, however often cancelling it    *)
(* failed before.                                                          *)
THEOREM CanceledIsReturned == Spec => []CanceledMeansReturned
<1>1. Inv => CanceledMeansReturned
  BY DEF Inv
<1> QED
  BY OrderInvCorrect, <1>1, PTL

(* Two requests are never both told that they paid or canceled an order.   *)
THEOREM OneRequestWins == Spec => []OneWinner
<1>1. Inv => OneWinner
  BY DEF Inv
<1> QED
  BY OrderInvCorrect, <1>1, PTL

-----------------------------------------------------------------------------
(* The refinement.                                                         *)

LEMMA AnswerOfOne ==
  ASSUME Inv, NEW r \in Requests, HandlerStep(r) \/ DatabaseError(r) \/ Disconnect(r)
  PROVE  AbstractAnswer' = [AbstractAnswer EXCEPT ![r] = AbstractAnswer'[r]]
BY OnlyItself DEF AbstractAnswer, Inv

LEMMA LifecycleInitially == Init => Lifecycle!LifecycleInit
BY DEF Init, Lifecycle!LifecycleInit, AbstractAnswer

(* A request that fails, or is lost, is a Lose of the contract.            *)
LEMMA LosingOne ==
  ASSUME Inv, NEW r \in Requests, pc[r] # "done", pc'[r] = "done",
         answer'[r] = "error", UNCHANGED <<status, call>>,
         AbstractAnswer' = [AbstractAnswer EXCEPT ![r] = AbstractAnswer'[r]]
  PROVE  Lifecycle!Lose
<1> DEFINE lost == {r}
<1>1. AbstractAnswer'[r] = "error" /\ AbstractAnswer[r] \in {"none", "accepted"}
  BY DEF AbstractAnswer, Inv, HandlerInv, HandlerSound
<1>2. lost \in SUBSET {q \in Requests : AbstractAnswer[q] \in {"none", "accepted"}}
  BY <1>1
<1>3. AbstractAnswer' = [q \in Requests |-> IF q \in lost THEN "error" ELSE AbstractAnswer[q]]
  BY <1>1 DEF AbstractAnswer
<1> QED
  BY <1>2, <1>3 DEF Lifecycle!Lose

LEMMA HandlerRefines ==
  ASSUME Inv, Inv', NEW r \in Requests, HandlerStep(r)
  PROVE  Lifecycle!LifecycleNext \/ UNCHANGED Lifecycle!lifecycleVars
<1>0. /\ TypeOK /\ HandlerSound(r) /\ Order(r) \in Orders
      /\ Op(r) \in {"pay", "cancel", "setPaid", "setCanceled", "setOther"}
  BY CallFacts DEF Inv, HandlerInv
<1>1. AbstractAnswer' = [AbstractAnswer EXCEPT ![r] = AbstractAnswer'[r]]
  BY AnswerOfOne
<1>2. AbstractAnswer[r] = IF pc[r] \in Reading THEN "accepted" ELSE answer[r]
  BY DEF AbstractAnswer
<1>3. AbstractAnswer'[r] = IF pc'[r] \in Reading THEN "accepted" ELSE answer'[r]
  BY DEF AbstractAnswer
<1>4. ASSUME AbstractAnswer'[r] = AbstractAnswer[r], UNCHANGED <<status, call>>
      PROVE  UNCHANGED Lifecycle!lifecycleVars
  <2>1. AbstractAnswer' = AbstractAnswer
    BY <1>1, <1>4 DEF AbstractAnswer
  <2> QED
    BY <1>4, <2>1 DEF Lifecycle!lifecycleVars
<1> USE DEF TypeOK
<1>5. CASE RejectStatus(r)
  <2>1. Lifecycle!Refuse(r)
    BY <1>0, <1>1, <1>2, <1>3, <1>5 DEF RejectStatus, Lifecycle!Refuse, HandlerSound
  <2> QED
    BY <2>1 DEF Lifecycle!LifecycleNext
<1>6. CASE Begin(r) \/ ReadRefundItems(r) \/ RefundDone(r) \/ ReadOrder(r)
           \/ ReadClient(r) \/ ReadItems(r)
  BY <1>0, <1>2, <1>3, <1>4, <1>6 DEF Begin, ReadRefundItems, RefundDone, ReadOrder,
     ReadClient, ReadItems
<1>7. CASE LockOrder(r)
  <2>1. CASE status[Order(r)] = "PENDING"
    <3>1. GoTo(r, AfterLock(r)) /\ UNCHANGED <<answer, status, call>>
      BY <1>7, <2>1 DEF LockOrder, DomainCheck
    <3> QED
      BY <1>0, <1>2, <1>3, <1>4, <1>7, <3>1 DEF AfterLock, LockOrder
  <2>2. CASE status[Order(r)] # "PENDING"
    <3>1. /\ pc[r] = "begun" /\ UNCHANGED <<status, call>>
          /\ Finish(r, Lifecycle!Refusal(Op(r), status[Order(r)]))
      BY <1>7, <2>2 DEF LockOrder, DomainCheck
    <3>2. Lifecycle!Refuse(r)
      BY <1>0, <1>1, <1>2, <1>3, <2>2, <3>1 DEF Lifecycle!Refuse, HandlerSound
    <3> QED
      BY <3>2 DEF Lifecycle!LifecycleNext
  <2> QED
    BY <2>1, <2>2
<1>8. CASE RefundItem(r)
  <2>1. CASE RefundFailed(r)
    <3>1. pc[r] # "done" /\ pc'[r] = "done" /\ answer'[r] = "error"
          /\ UNCHANGED <<status, call>>
      BY <1>0, <1>8, <2>1 DEF RefundItem, RefundFailed
    <3> QED
      BY <1>1, <3>1, LosingOne DEF Lifecycle!LifecycleNext
  <2>2. CASE UNCHANGED <<pc, answer, status, call>>
    BY <1>2, <1>3, <1>4, <2>2
  <2> QED
    BY <1>8, <2>1, <2>2 DEF RefundItem
<1>9. CASE Commit(r)
  <2>1. AbstractAnswer'[r] \in {"accepted", "error"}
    BY <1>0, <1>3, <1>9 DEF Commit
  <2>2. Lifecycle!Accept(r)
    BY <1>0, <1>1, <1>2, <1>9, <2>1, CommitAlone DEF Commit, Lifecycle!Accept, HandlerSound
  <2> QED
    BY <2>2 DEF Lifecycle!LifecycleNext
<1>10. CASE ReadProducts(r)
  <2>1. Lifecycle!Tell(r)
    BY <1>0, <1>1, <1>2, <1>3, <1>10 DEF ReadProducts, Lifecycle!Tell, HandlerSound
  <2> QED
    BY <2>1 DEF Lifecycle!LifecycleNext
<1> QED
  BY <1>5, <1>6, <1>7, <1>8, <1>9, <1>10 DEF HandlerStep

LEMMA StepRefines ==
  ASSUME Inv, Inv', [Next]_vars
  PROVE  Lifecycle!LifecycleNext \/ UNCHANGED Lifecycle!lifecycleVars
<1>1. ASSUME NEW o \in Orders, InsertOrder(o) PROVE Lifecycle!LifecycleNext
  <2>1. AbstractAnswer' = AbstractAnswer
    BY <1>1 DEF InsertOrder, AbstractAnswer
  <2>2. Lifecycle!Open(o)
    BY <1>1, <2>1 DEF InsertOrder, Lifecycle!Open
  <2> QED
    BY <2>2 DEF Lifecycle!LifecycleNext
<1>2. ASSUME NEW r \in Requests, DatabaseError(r) \/ Disconnect(r)
      PROVE  Lifecycle!LifecycleNext
  <2>1. pc[r] # "done" /\ pc'[r] = "done" /\ answer'[r] = "error"
        /\ UNCHANGED <<status, call>>
    BY <1>2 DEF DatabaseError, Disconnect, Inv, TypeOK
  <2> QED
    BY <1>2, <2>1, AnswerOfOne, LosingOne DEF Lifecycle!LifecycleNext
<1>3. CASE Crash
  <2> DEFINE lost == {r \in Requests : pc[r] # "done"}
  <2>1. lost \in SUBSET {r \in Requests : AbstractAnswer[r] \in {"none", "accepted"}}
    BY DEF AbstractAnswer, Inv, HandlerInv, HandlerSound
  <2>2. AbstractAnswer' = [r \in Requests |-> IF r \in lost THEN "error" ELSE AbstractAnswer[r]]
    BY <1>3 DEF Crash, AbstractAnswer
  <2>3. UNCHANGED <<status, call>>
    BY <1>3 DEF Crash
  <2>4. Lifecycle!Lose
    BY <2>1, <2>2, <2>3 DEF Lifecycle!Lose
  <2> QED
    BY <2>4 DEF Lifecycle!LifecycleNext
<1>4. CASE \/ \E key \in late : LateRelease(key)
           \/ \E key \in Keys : Reconcile(key)
           \/ UNCHANGED vars
  BY <1>4 DEF LateRelease, Reconcile, vars, AbstractAnswer, Lifecycle!lifecycleVars
<1> QED
  BY HandlerRefines, <1>1, <1>2, <1>3, <1>4 DEF Next

(* The order-service keeps its contract: every call of Pay, Cancel and     *)
(* UpdateStatus is decided as if in one atomic step.                       *)
THEOREM ImplementsLifecycle == Spec => RefinesLifecycle
<1>1. Inv /\ Inv' /\ [Next]_vars => [Lifecycle!LifecycleNext]_(Lifecycle!lifecycleVars)
  BY StepRefines
<1> QED
  BY LifecycleInitially, <1>1, OrderInvCorrect, PTL
     DEF Spec, RefinesLifecycle, Lifecycle!LifecycleSpec

-----------------------------------------------------------------------------
(* Units leave an order, as far as Cancel is concerned, only towards       *)
(* CANCELED, or by a request that is told of its failure.                  *)

Explained(o) ==
  \/ status[o] = "CANCELED"
  \/ \E r \in Requests : /\ Order(r) = o /\ Target(Op(r)) = "CANCELED"
                         /\ pc[r] \in {"refund", "write"} \/ answer[r] = "error"

ReturnsExplained ==
  \A key \in (returned \cup late) \ swept : Explained(key[1])

(* A request on its way to CANCELED gets there or fails.                   *)
LEMMA ExplainedStays ==
  ASSUME Inv, [Next]_vars, NEW o \in Orders, Explained(o)
  PROVE  Explained(o)'
<1>0. TypeOK /\ HandlerInv /\ UNCHANGED call
  BY StatusStep DEF Inv
<1> USE <1>0 DEF TypeOK
<1>1. CASE status[o] = "CANCELED"
  <2>1. ASSUME NEW p \in Orders, InsertOrder(p) PROVE status'[o] = "CANCELED"
    BY <1>1, <2>1 DEF InsertOrder
  <2>2. ASSUME NEW r \in Requests, Commit(r) PROVE status'[o] = "CANCELED"
    BY <1>1, <2>2, CommitAlone
  <2> QED
    BY <1>1, <2>1, <2>2, StatusStep DEF Explained
<1>2. ASSUME NEW r \in Requests, Order(r) = o, Target(Op(r)) = "CANCELED",
             pc[r] \in {"refund", "write"} \/ answer[r] = "error"
      PROVE  Explained(o)'
  <2>0. HandlerSound(r)
    BY DEF HandlerInv
  <2>1. ASSUME NEW q \in Requests, q # r,
               HandlerStep(q) \/ DatabaseError(q) \/ Disconnect(q)
        PROVE  pc'[r] = pc[r] /\ answer'[r] = answer[r]
    BY <2>1, OnlyItself
  <2>2. ASSUME HandlerStep(r), ~ Commit(r)
        PROVE  pc'[r] \in {"refund", "write"} \/ answer'[r] = "error"
    <3>1. pc[r] = "refund" /\ (RefundItem(r) \/ RefundDone(r))
      BY <1>2, <2>0, <2>2 DEF HandlerSound, HandlerStep, RejectStatus, Begin, LockOrder,
         ReadRefundItems, RefundItem, RefundDone, Commit, ReadOrder, ReadClient,
         ReadItems, ReadProducts
    <3> QED
      BY <3>1 DEF RefundItem, RefundFailed, RefundDone
  <2>3. ASSUME Commit(r) PROVE status'[o] = "CANCELED"
    BY <1>2, <2>3, CommitAlone
  <2>4. ASSUME DatabaseError(r) \/ Disconnect(r) PROVE answer'[r] = "error"
    BY <2>4 DEF DatabaseError, Disconnect
  <2>5. ASSUME Crash PROVE answer'[r] = "error"
    BY <1>2, <2>5 DEF Crash
  <2>6. ASSUME \/ \E p \in Orders : InsertOrder(p)
               \/ \E key \in late : LateRelease(key)
               \/ \E key \in Keys : Reconcile(key)
               \/ UNCHANGED vars
        PROVE  pc'[r] = pc[r] /\ answer'[r] = answer[r]
    BY <2>6 DEF InsertOrder, LateRelease, Reconcile, vars
  <2>7. \/ status'[o] = "CANCELED"
        \/ pc'[r] \in {"refund", "write"} \/ answer'[r] = "error"
    BY <1>2, <2>1, <2>2, <2>3, <2>4, <2>5, <2>6 DEF Next
  <2> QED
    BY <1>2, <2>7 DEF Explained
<1> QED
  BY <1>1, <1>2 DEF Explained

(* Only a request that cancels asks for a release of its order.            *)
LEMMA NewReturnsExplained ==
  ASSUME Inv, [Next]_vars, NEW key \in (returned' \cup late') \ swept',
         key \notin (returned \cup late) \ swept
  PROVE  Explained(key[1])'
<1>0. TypeOK /\ HandlerInv /\ UNCHANGED call
  BY StatusStep DEF Inv
<1> USE <1>0 DEF TypeOK
<1>a. ASSUME NEW r \in Requests, pc[r] = "refund", key = ReleaseKey(r),
             pc'[r] = "refund" \/ answer'[r] = "error"
      PROVE  Explained(key[1])'
  <2>1. Order(r) = key[1] /\ Target(Op(r)) = "CANCELED"
    BY <1>a DEF ReleaseKey, HandlerInv, HandlerSound
  <2> QED
    BY <1>a, <2>1 DEF Explained
<1>1. ASSUME NEW r \in Requests, HandlerStep(r) PROVE Explained(key[1])'
  <2>1. CASE RefundItem(r)
    <3>1. key = ReleaseKey(r) /\ pc[r] = "refund"
      BY <2>1 DEF RefundItem
    <3>2. pc'[r] = "refund" \/ answer'[r] = "error"
      BY <2>1 DEF RefundItem, RefundFailed
    <3> QED
      BY <1>a, <3>1, <3>2
  <2>2. CASE ~ RefundItem(r)
    <3>1. UNCHANGED <<returned, swept, late>>
      BY <1>1, <2>2 DEF HandlerStep, RejectStatus, Begin, LockOrder, ReadRefundItems,
         RefundDone, Commit, ReadOrder, ReadClient, ReadItems, ReadProducts
    <3> QED
      BY <3>1
  <2> QED
    BY <2>1, <2>2
<1>2. ASSUME NEW r \in Requests, Disconnect(r) PROVE Explained(key[1])'
  <2>1. key \in UnderWay({r}) /\ answer'[r] = "error"
    BY <1>2 DEF Disconnect
  <2> QED
    BY <1>a, <2>1 DEF UnderWay
<1>3. ASSUME Crash PROVE Explained(key[1])'
  <2>1. key \in UnderWay(Requests)
    BY <1>3 DEF Crash
  <2>2. PICK r \in Requests : pc[r] = "refund" /\ key = ReleaseKey(r)
    BY <2>1 DEF UnderWay
  <2>3. answer'[r] = "error"
    BY <1>3, <2>2 DEF Crash
  <2> QED
    BY <1>a, <2>2, <2>3
<1>4. CASE \/ \E o \in Orders : InsertOrder(o)
           \/ \E r \in Requests : DatabaseError(r)
           \/ UNCHANGED vars
  BY <1>4 DEF InsertOrder, DatabaseError, vars
<1>5. CASE \/ \E k \in late : LateRelease(k)
           \/ \E k \in Keys : Reconcile(k)
  BY <1>5 DEF LateRelease, Reconcile
<1> QED
  BY <1>1, <1>2, <1>3, <1>4, <1>5 DEF Next

(* Under every fault: a paid order that has lost units other than by the   *)
(* reconciliation has lost them by a cancellation that was answered with   *)
(* an error.  No Cancel that was refused, came too late or lost against a  *)
(* Pay has given anything back.                                            *)
THEOREM PaidLossesAreReported == Spec => []LossesWereReported
<1>1. Init => ReturnsExplained
  BY DEF Init, ReturnsExplained
<1>2. Inv /\ ReturnsExplained /\ [Next]_vars => ReturnsExplained'
  <2> SUFFICES ASSUME Inv, ReturnsExplained, [Next]_vars,
                      NEW key \in (returned' \cup late') \ swept'
               PROVE  Explained(key[1])'
    BY DEF ReturnsExplained
  <2>1. CASE key \in (returned \cup late) \ swept
    <3>1. key[1] \in Orders
      BY <2>1 DEF Inv, TypeOK, Keys, KeysOf
    <3>2. Explained(key[1])
      BY <2>1 DEF ReturnsExplained
    <3> QED
      BY <3>1, <3>2, ExplainedStays
  <2> QED
    BY <2>1, NewReturnsExplained
<1>3. Inv /\ ReturnsExplained => LossesWereReported
  <2> SUFFICES ASSUME Inv, ReturnsExplained, NEW o \in Orders, status[o] = "PAID",
                      NEW key \in KeysOf(o) \cap returned, key \notin swept
               PROVE  \E r \in Requests :
                        /\ Order(r) = o /\ Target(Op(r)) = "CANCELED"
                        /\ answer[r] = "error"
    BY DEF LossesWereReported
  <2>1. key[1] = o
    BY DEF KeysOf
  <2>2. PICK r \in Requests : /\ Order(r) = o /\ Target(Op(r)) = "CANCELED"
                              /\ pc[r] \in {"refund", "write"} \/ answer[r] = "error"
    BY <2>1 DEF ReturnsExplained, Explained
  <2>3. pc[r] \notin {"refund", "write"}
    BY <2>2 DEF Inv, LockProtectsOrder
  <2> QED
    BY <2>2, <2>3
<1> QED
  BY <1>1, <1>2, <1>3, OrderInvCorrect, PTL DEF Spec

=============================================================================
