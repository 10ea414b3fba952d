--------------------------- MODULE CatalogProofs ---------------------------
(***************************************************************************)
(* The handlers of the product catalogue, with whatever reservations go on *)
(* beside them, implement the registry, for any number of requests,        *)
(* products and names.  The argument: a transaction that has entered its   *)
(* name in the index keeps it to itself until COMMIT, and the row lock     *)
(* keeps what Reserve and Release have read true until they write it back. *)
(***************************************************************************)
EXTENDS Catalog, TLAPS

USE CatalogAssumption

USE DEF Row, Op, Exists, GoTo, Finish, LocksRow

LEMMA CallFacts ==
  ASSUME TypeOK, NEW r \in Requests
  PROVE  /\ Row(r) \in Rows
         /\ Op(r) \in {"create", "put", "delete", "restock"}
         /\ call[r].key \in Keys /\ call[r].price \in Int
         /\ draft[r].key \in Keys /\ draft[r].price \in Int
BY DEF TypeOK, Calls, Drafts, Registry!Operations

-----------------------------------------------------------------------------
(* The kinds of steps.                                                     *)

(* The request is answered, or lost, and nothing is written.               *)
Ends(r) ==
  /\ pc[r] # "done"
  /\ \E a \in Registry!Answers \ {"none", "ok"} : Finish(r, a)
  /\ UNCHANGED <<key, price, call, draft>>

(* The transaction goes on and nothing is visible yet.                     *)
Prepares(r) ==
  /\ \/ FindByName(r) /\ pc'[r] = "insert"
     \/ Begin(r)
     \/ WriteRow(r) /\ pc'[r] = "indexing"
  /\ UNCHANGED <<key, price, call, draft, answer>>
  /\ \E l \in {"insert", "begun", "indexing"} : GoTo(r, l)

Locks(r) == LockProduct(r) /\ Exists(Row(r))
Enters(r) == EnterIndex(r) /\ ~ ViolatesUnique(Row(r), draft[r].key)

Writes(r) ==
  \/ \E i \in Rows :
       /\ pc[r] = "insert" /\ Writers(r, call[r].key) = {}
       /\ key[i] = NoKey /\ ~ ViolatesUnique(i, call[r].key)
       /\ key' = [key EXCEPT ![i] = call[r].key]
       /\ price' = [price EXCEPT ![i] = StoredPrice(call[r].price)]
  \/ /\ pc[r] = "new" /\ Op(r) = "delete" /\ RowFree(Row(r)) /\ Exists(Row(r))
     /\ key' = [key EXCEPT ![Row(r)] = Gone]
     /\ UNCHANGED price
  \/ /\ pc[r] = "written"
     /\ key' = [key EXCEPT ![Row(r)] = draft[r].key]
     /\ price' = [price EXCEPT ![Row(r)] = draft[r].price]

WritesAndEnds(r) ==
  /\ Writes(r)
  /\ \E a \in {"ok", "error"} : Finish(r, a)
  /\ UNCHANGED <<call, draft>>

LEMMA StepKinds ==
  ASSUME TypeOK, NEW r \in Requests, HandlerStep(r) \/ Abort(r)
  PROVE  Ends(r) \/ Prepares(r) \/ Locks(r) \/ Enters(r) \/ WritesAndEnds(r)
<1> USE DEF TypeOK, Registry!Answers
<1>1. CASE RejectPrice(r) \/ BreakDeadlock(r) \/ Abort(r)
  <2>1. BreakDeadlock(r) => pc[r] = "indexing"
    BY DEF BreakDeadlock, Deadlocked, WaitsFor
  <2> QED
    BY <1>1, <2>1 DEF RejectPrice, BreakDeadlock, Abort, Ends
<1>2. CASE FindByName(r)
  BY <1>2 DEF FindByName, Ends, Prepares
<1>3. CASE Insert(r)
  <2>1. PICK i \in Rows :
          /\ key[i] = NoKey
          /\ \/ Finish(r, "error") /\ UNCHANGED <<key, price>>
             \/ Finish(r, "exists") /\ UNCHANGED <<key, price>>
             \/ /\ ~ ViolatesUnique(i, call[r].key)
                /\ key' = [key EXCEPT ![i] = call[r].key]
                /\ price' = [price EXCEPT ![i] = StoredPrice(call[r].price)]
                /\ Finish(r, "ok") \/ Finish(r, "error")
    BY <1>3 DEF Insert
  <2>2. pc[r] = "insert" /\ Writers(r, call[r].key) = {} /\ UNCHANGED <<call, draft>>
    BY <1>3 DEF Insert
  <2> QED
    BY <2>1, <2>2 DEF Ends, WritesAndEnds, Writes
<1>4. CASE DeleteProduct(r)
  BY <1>4 DEF DeleteProduct, Ends, WritesAndEnds, Writes
<1>5. CASE Begin(r)
  BY <1>5 DEF Begin, Prepares
<1>6. CASE LockProduct(r)
  BY <1>6 DEF LockProduct, Ends, Locks
<1>7. CASE WriteRow(r)
  BY <1>7 DEF WriteRow, Ends, Prepares
<1>8. CASE EnterIndex(r)
  BY <1>8 DEF EnterIndex, Ends, Enters
<1>9. CASE Commit(r)
  BY <1>9 DEF Commit, WritesAndEnds, Writes
<1> QED
  BY <1>1, <1>2, <1>3, <1>4, <1>5, <1>6, <1>7, <1>8, <1>9 DEF HandlerStep
-----------------------------------------------------------------------------
(* The invariant.                                                          *)

LEMMA StoredPriceType == ASSUME NEW p \in Int PROVE StoredPrice(p) \in Int
BY DEF StoredPrice

LEMMA InitInv == Init => Inv
<1> SUFFICES ASSUME Init PROVE Inv
  OBVIOUS
<1>1. call \in [Requests -> Calls]
  BY DEF Init, Calls, Registry!Operations
<1>2. TypeOK
  BY <1>1 DEF Init, TypeOK, Calls, Drafts, Registry!Answers
<1>3. HandlerInv
  BY DEF Init, HandlerInv, Sound, Apart
<1> QED
  BY <1>2, <1>3 DEF Inv, Init

LEMMA TypeStep ==
  ASSUME TypeOK, NEW r \in Requests,
         Ends(r) \/ Prepares(r) \/ Locks(r) \/ Enters(r) \/ WritesAndEnds(r)
  PROVE  TypeOK'
<1> USE CallFacts, StoredPriceType DEF TypeOK, Registry!Answers
<1>1. CASE Ends(r)
  BY <1>1 DEF Ends
<1>2. CASE Prepares(r)
  BY <1>2 DEF Prepares
<1>3. CASE Locks(r)
  <2>1. PICK d \in Drafts : draft' = [draft EXCEPT ![r] = d]
    <3>1. [key |-> call[r].key, price |-> StoredPrice(call[r].price)] \in Drafts
      BY DEF Drafts
    <3>2. [key |-> key[Row(r)], price |-> price[Row(r)]] \in Drafts
      BY <1>3 DEF Drafts, Locks
    <3> QED
      BY <1>3, <3>1, <3>2 DEF Locks, LockProduct
  <2>2. pc' = [pc EXCEPT ![r] = "locked"] /\ UNCHANGED <<key, price, call, answer>>
    BY <1>3 DEF Locks, LockProduct
  <2> QED
    BY <2>1, <2>2
<1>4. CASE Enters(r)
  BY <1>4 DEF Enters, EnterIndex
<1>5. CASE WritesAndEnds(r)
  <2>1. key' \in [Rows -> Keys \cup {NoKey, Gone}] /\ price' \in [Rows -> Int]
    BY <1>5 DEF WritesAndEnds, Writes
  <2>2. /\ pc' = [pc EXCEPT ![r] = "done"] /\ UNCHANGED <<call, draft>>
        /\ \E a \in {"ok", "error"} : answer' = [answer EXCEPT ![r] = a]
    BY <1>5 DEF WritesAndEnds
  <2> QED
    BY <2>1, <2>2
<1> QED
  BY <1>1, <1>2, <1>3, <1>4, <1>5

(* What a write leaves alone: the products that others have locked, and    *)
(* the names they have entered in the index.                               *)
LEMMA WriteSpares ==
  ASSUME Inv, NEW r \in Requests, Writes(r), NEW q \in Requests, q # r, LocksRow(q)
  PROVE  /\ key'[Row(q)] = key[Row(q)] /\ price'[Row(q)] = price[Row(q)]
         /\ pc[q] = "written" =>
              \A j \in Rows : key'[j] = draft[q].key => key[j] = draft[q].key
<1>0. TypeOK /\ Sound(r) /\ Sound(q) /\ Apart(r, q)
  BY DEF Inv, HandlerInv
<1> USE DEF TypeOK
<1>1. ASSUME NEW i \in Rows, pc[r] = "insert", Writers(r, call[r].key) = {},
             key[i] = NoKey, key' = [key EXCEPT ![i] = call[r].key],
             price' = [price EXCEPT ![i] = StoredPrice(call[r].price)]
      PROVE  /\ key'[Row(q)] = key[Row(q)] /\ price'[Row(q)] = price[Row(q)]
             /\ pc[q] = "written" => draft[q].key # call[r].key
  <2>1. Row(q) # i /\ Row(q) \in Rows
    BY <1>0, <1>1, CallFacts DEF Sound
  <2> QED
    BY <1>0, <1>1, <2>1 DEF Writers
<1>2. ASSUME pc[r] = "new", RowFree(Row(r)), key' = [key EXCEPT ![Row(r)] = Gone],
             UNCHANGED price
      PROVE  /\ key'[Row(q)] = key[Row(q)] /\ price'[Row(q)] = price[Row(q)]
             /\ draft[q].key # Gone
  BY <1>0, <1>2, CallFacts DEF RowFree
<1>3. ASSUME pc[r] = "written", key' = [key EXCEPT ![Row(r)] = draft[r].key],
             price' = [price EXCEPT ![Row(r)] = draft[r].price]
      PROVE  /\ key'[Row(q)] = key[Row(q)] /\ price'[Row(q)] = price[Row(q)]
             /\ pc[q] = "written" => draft[q].key # draft[r].key
  BY <1>0, <1>3, CallFacts DEF Apart
<1> QED
  BY <1>0, <1>1, <1>2, <1>3, CallFacts DEF Writes

LEMMA UniqueStep ==
  ASSUME Inv, NEW r \in Requests, Writes(r)
  PROVE  Registry!Unique'
<1>0. TypeOK /\ Sound(r) /\ Registry!Unique
  BY DEF Inv, HandlerInv
<1> USE DEF TypeOK, Registry!Unique, Registry!Live, ViolatesUnique
<1>1. ASSUME NEW i \in Rows, NEW k \in Keys, ~ ViolatesUnique(i, k),
             key' = [key EXCEPT ![i] = k]
      PROVE  Registry!Unique'
  BY <1>0, <1>1
<1>2. ASSUME NEW i \in Rows, key' = [key EXCEPT ![i] = Gone] PROVE Registry!Unique'
  BY <1>0, <1>2
<1> HIDE DEF Registry!Unique
<1> QED
  BY <1>0, <1>1, <1>2, CallFacts DEF Writes, Sound

LEMMA SoundStep ==
  ASSUME Inv, NEW r \in Requests,
         Ends(r) \/ Prepares(r) \/ Locks(r) \/ Enters(r) \/ WritesAndEnds(r),
         NEW q \in Requests
  PROVE  Sound(q)'
<1>0. TypeOK /\ Sound(q) /\ Sound(r)
  BY DEF Inv, HandlerInv
<1> USE DEF TypeOK
<1>1. CASE Ends(r)
  BY <1>0, <1>1 DEF Ends, Sound, ViolatesUnique
<1>2. CASE Prepares(r)
  BY <1>0, <1>2 DEF Prepares, Sound, ViolatesUnique, FindByName, Begin, WriteRow
<1>3. CASE Locks(r)
  <2>1. /\ pc' = [pc EXCEPT ![r] = "locked"] /\ UNCHANGED <<key, price, call, answer>>
        /\ draft' = [draft EXCEPT ![r] =
             IF Op(r) = "put"
             THEN [key |-> call[r].key, price |-> StoredPrice(call[r].price)]
             ELSE [key |-> key[Row(r)], price |-> price[Row(r)]]]
        /\ pc[r] = "begun" /\ Exists(Row(r))
    BY <1>3 DEF Locks, LockProduct
  <2>2. CASE q = r
    BY <1>0, <2>1, <2>2 DEF Sound
  <2>3. CASE q # r
    BY <1>0, <2>1, <2>3 DEF Sound, ViolatesUnique
  <2> QED
    BY <2>2, <2>3
<1>4. CASE Enters(r)
  BY <1>0, <1>4 DEF Enters, EnterIndex, Sound, ViolatesUnique
<1>5. CASE WritesAndEnds(r)
  <2>1. /\ pc' = [pc EXCEPT ![r] = "done"] /\ UNCHANGED <<call, draft>>
        /\ \E a \in {"ok", "error"} : answer' = [answer EXCEPT ![r] = a]
    BY <1>5 DEF WritesAndEnds
  <2>2. CASE q = r
    BY <1>0, <2>1, <2>2 DEF Sound
  <2>3. CASE q # r /\ ~ LocksRow(q)
    BY <1>0, <2>1, <2>3 DEF Sound
  <2>4. CASE q # r /\ LocksRow(q)
    <3>1. /\ key'[Row(q)] = key[Row(q)] /\ price'[Row(q)] = price[Row(q)]
          /\ pc[q] = "written" =>
               \A j \in Rows : key'[j] = draft[q].key => key[j] = draft[q].key
      BY <1>5, <2>4, WriteSpares DEF WritesAndEnds
    <3>2. pc'[q] = pc[q] /\ answer'[q] = answer[q]
      BY <1>0, <2>1, <2>4
    <3> QED
      BY <1>0, <2>1, <2>4, <3>1, <3>2 DEF Sound, ViolatesUnique
  <2> QED
    BY <2>2, <2>3, <2>4
<1> QED
  BY <1>1, <1>2, <1>3, <1>4, <1>5

LEMMA ApartStep ==
  ASSUME Inv, NEW r \in Requests,
         Ends(r) \/ Prepares(r) \/ Locks(r) \/ Enters(r) \/ WritesAndEnds(r),
         NEW q \in Requests, NEW t \in Requests \ {q}
  PROVE  Apart(q, t)'
<1>0. TypeOK /\ Apart(q, t)
  BY DEF Inv, HandlerInv
<1> USE DEF TypeOK, Apart
<1>1. CASE Ends(r)
  BY <1>0, <1>1 DEF Ends
<1>2. CASE Prepares(r)
  BY <1>0, <1>2 DEF Prepares, WriteRow, FindByName, Begin
<1>3. CASE Locks(r)
  <2>1. /\ pc' = [pc EXCEPT ![r] = "locked"] /\ UNCHANGED call /\ RowFree(Row(r))
        /\ \A u \in Requests : u # r => draft'[u] = draft[u]
    BY <1>0, <1>3 DEF Locks, LockProduct
  <2> QED
    BY <1>0, <2>1 DEF RowFree
<1>4. CASE Enters(r)
  <2>1. /\ pc' = [pc EXCEPT ![r] = "written"] /\ UNCHANGED <<call, draft>>
        /\ pc[r] = "indexing" /\ Writers(r, draft[r].key) = {}
    BY <1>4 DEF Enters, EnterIndex
  <2>2. \A u \in Requests \ {r} : pc[u] = "written" => draft[u].key # draft[r].key
    BY <2>1 DEF Writers
  <2> QED
    BY <1>0, <2>1, <2>2
<1>5. CASE WritesAndEnds(r)
  BY <1>0, <1>5 DEF WritesAndEnds
<1> QED
  BY <1>1, <1>2, <1>3, <1>4, <1>5

(* The catalogue's invariant: names are unique, row locks exclude, and     *)
(* what a transaction is about to write is still true.                     *)
THEOREM CatalogInvCorrect == Spec => []Inv
<1>1. ASSUME Inv, [Next]_vars PROVE Inv'
  <2>1. ASSUME NEW r \in Requests, HandlerStep(r) \/ Abort(r) PROVE Inv'
    <3>1. Ends(r) \/ Prepares(r) \/ Locks(r) \/ Enters(r) \/ WritesAndEnds(r)
      BY <1>1, <2>1, StepKinds DEF Inv
    <3>2. TypeOK'
      BY <1>1, <3>1, TypeStep DEF Inv
    <3>3. Registry!Unique'
      <4>1. CASE WritesAndEnds(r)
        BY <1>1, <4>1, UniqueStep DEF WritesAndEnds
      <4>2. CASE key' = key
        BY <1>1, <4>2 DEF Inv, Registry!Unique, Registry!Live
      <4> QED
        BY <3>1, <4>1, <4>2 DEF Ends, Prepares, Locks, LockProduct, Enters, EnterIndex
    <3>4. HandlerInv'
      BY <1>1, <3>1, SoundStep, ApartStep DEF HandlerInv
    <3> QED
      BY <3>2, <3>3, <3>4 DEF Inv
  <2>2. CASE Crash
    BY <1>1, <2>2 DEF Crash, Inv, TypeOK, Registry!Answers, Registry!Unique,
       Registry!Live, HandlerInv, Sound, Apart
  <2>3. CASE UNCHANGED vars
    BY <1>1, <2>3 DEF vars, Inv, TypeOK, Registry!Unique, Registry!Live, HandlerInv,
       Sound, Apart, ViolatesUnique
  <2> QED
    BY <1>1, <2>1, <2>2, <2>3 DEF Next
<1> QED
  BY InitInv, <1>1, PTL DEF Spec

-----------------------------------------------------------------------------
(* The refinement.                                                         *)

RegistryStep ==
  Registry!RegistryNext \/ UNCHANGED Registry!registryVars

LEMMA LosingOne ==
  ASSUME TypeOK, NEW r \in Requests, answer[r] = "none",
         answer' = [answer EXCEPT ![r] = "error"], UNCHANGED <<key, call>>
  PROVE  RegistryStep
<1> DEFINE lost == {r}
<1>1. lost \in SUBSET {q \in Requests : answer[q] = "none"}
  OBVIOUS
<1>2. answer' = [q \in Requests |-> IF q \in lost THEN "error" ELSE answer[q]]
  BY DEF TypeOK
<1>3. Registry!Lose
  BY <1>1, <1>2 DEF Registry!Lose
<1> QED
  BY <1>3 DEF RegistryStep, Registry!RegistryNext

(* Every reason for a refusal holds in the state that it is given in.      *)
LEMMA RefusalJustified ==
  ASSUME Inv, NEW r \in Requests, HandlerStep(r),
         NEW a \in {"exists", "notFound", "invalid"}, Finish(r, a)
  PROVE  /\ Registry!Refuse(r)
         /\ UNCHANGED <<key, call>>
<1>0. TypeOK /\ Sound(r) /\ Registry!Unique /\ Row(r) \in Rows
  BY CallFacts DEF Inv, HandlerInv
<1>1. answer[r] = "none" /\ answer'[r] = a /\ pc'[r] = "done"
      /\ answer' = [answer EXCEPT ![r] = a]
  <2>1. pc[r] # "done"
    BY DEF HandlerStep, RejectPrice, FindByName, Insert, DeleteProduct, Begin,
       LockProduct, WriteRow, EnterIndex, Commit, BreakDeadlock, Deadlocked, WaitsFor
  <2> QED
    BY <1>0, <2>1 DEF TypeOK, Sound
<1> USE DEF TypeOK, Registry!Refuse, Registry!Reply, Registry!Live,
            Registry!TakenByOther
<1>2. CASE RejectPrice(r)
  BY <1>0, <1>1, <1>2 DEF RejectPrice
<1>3. CASE FindByName(r)
  BY <1>0, <1>1, <1>3, CallFacts DEF FindByName
<1>4. CASE Insert(r)
  <2>1. PICK i \in Rows : ViolatesUnique(i, call[r].key)
    BY <1>0, <1>1, <1>4 DEF Insert
  <2> QED
    BY <1>0, <1>1, <1>4, <2>1, CallFacts DEF Insert, Sound, ViolatesUnique
<1>5. CASE DeleteProduct(r)
  BY <1>0, <1>1, <1>5 DEF DeleteProduct
<1>6. CASE LockProduct(r)
  BY <1>0, <1>1, <1>6 DEF LockProduct, Sound
<1>7. CASE EnterIndex(r)
  <2>1. Exists(Row(r)) /\ ViolatesUnique(Row(r), draft[r].key) /\ a = "exists"
        /\ UNCHANGED <<key, call>>
    BY <1>0, <1>1, <1>7 DEF EnterIndex, Sound
  <2>2. PICK j \in Rows \ {Row(r)} : key[j] = draft[r].key
    BY <2>1 DEF ViolatesUnique
  <2>3. j \in Registry!Live /\ Row(r) \in Registry!Live
    BY <1>0, <2>1, <2>2, CallFacts
  <2>4. Op(r) = "put" /\ draft[r].key = call[r].key
    BY <1>0, <1>7, <2>2, <2>3 DEF EnterIndex, Sound, Registry!Unique
  <2> QED
    BY <1>1, <2>1, <2>2, <2>3, <2>4
<1>8. CASE Begin(r) \/ WriteRow(r) \/ Commit(r) \/ BreakDeadlock(r)
  BY <1>0, <1>1, <1>8 DEF Begin, WriteRow, Commit, BreakDeadlock
<1> QED
  BY <1>2, <1>3, <1>4, <1>5, <1>6, <1>7, <1>8 DEF HandlerStep

LEMMA WriteRefines ==
  ASSUME Inv, NEW r \in Requests, WritesAndEnds(r)
  PROVE  RegistryStep
<1>0. TypeOK /\ Sound(r) /\ Registry!Unique /\ Row(r) \in Rows
  BY CallFacts DEF Inv, HandlerInv
<1> USE DEF TypeOK
<1>1. Registry!Reply(r, Registry!Done)
  BY <1>0 DEF WritesAndEnds, Writes, Sound, Registry!Reply, Registry!Done
<1> USE DEF Registry!Live, Registry!TakenByOther, ViolatesUnique
<1>2. CASE pc[r] = "insert"
  <2>1. Registry!Create(r)
    BY <1>0, <1>1, <1>2 DEF WritesAndEnds, Writes, Sound, Registry!Create
  <2> QED
    BY <2>1 DEF RegistryStep, Registry!RegistryNext
<1>3. CASE pc[r] = "new"
  <2>1. Registry!Delete(r)
    BY <1>0, <1>1, <1>3 DEF WritesAndEnds, Writes, Registry!Delete
  <2> QED
    BY <2>1 DEF RegistryStep, Registry!RegistryNext
<1>4. CASE pc[r] = "written"
  <2>1. /\ key' = [key EXCEPT ![Row(r)] = draft[r].key]
        /\ Exists(Row(r)) /\ ~ ViolatesUnique(Row(r), draft[r].key)
    BY <1>0, <1>4 DEF WritesAndEnds, Writes, Sound
  <2>2. CASE Op(r) = "put"
    <3>1. draft[r].key = call[r].key
      BY <1>0, <1>4, <2>2 DEF Sound
    <3>2. Registry!Rename(r)
      BY <1>0, <1>1, <2>1, <2>2, <3>1 DEF Registry!Rename
    <3> QED
      BY <3>2 DEF RegistryStep, Registry!RegistryNext
  <2>3. CASE Op(r) = "restock"
    <3>1. draft[r].key = key[Row(r)]
      BY <1>0, <1>4, <2>3 DEF Sound
    <3>2. key' = key
      BY <1>0, <2>1, <3>1
    <3>3. Registry!Restock(r)
      BY <1>0, <1>1, <2>1, <2>3, <3>2 DEF Registry!Restock
    <3> QED
      BY <3>3 DEF RegistryStep, Registry!RegistryNext
  <2> QED
    BY <1>0, <1>4, <2>2, <2>3 DEF Sound
<1> QED
  BY <1>2, <1>3, <1>4 DEF WritesAndEnds, Writes

LEMMA StepRefines ==
  ASSUME Inv, [Next]_vars
  PROVE  RegistryStep
<1>0. TypeOK /\ HandlerInv
  BY DEF Inv
<1>1. ASSUME NEW r \in Requests, HandlerStep(r) \/ Abort(r) PROVE RegistryStep
  <2>1. CASE Ends(r)
    <3>1. PICK a \in Registry!Answers \ {"none", "ok"} : Finish(r, a)
      BY <2>1 DEF Ends
    <3>2. answer[r] = "none" /\ UNCHANGED <<key, call>>
      BY <1>0, <2>1 DEF Ends, HandlerInv, Sound
    <3>3. CASE a = "error"
      BY <1>0, <3>1, <3>2, <3>3, LosingOne
    <3>4. CASE a # "error"
      <4>1. a \in {"exists", "notFound", "invalid"}
        BY <3>4 DEF Registry!Answers
      <4>2. answer'[r] # "error"
        BY <1>0, <3>1, <4>1 DEF TypeOK
      <4>3. HandlerStep(r)
        BY <1>0, <1>1, <4>2 DEF Abort, TypeOK
      <4>4. Registry!Refuse(r)
        BY <3>1, <4>1, <4>3, RefusalJustified
      <4> QED
        BY <4>4 DEF RegistryStep, Registry!RegistryNext
    <3> QED
      BY <3>3, <3>4
  <2>2. CASE Prepares(r) \/ Locks(r) \/ Enters(r)
    BY <2>2 DEF Prepares, Locks, LockProduct, Enters, EnterIndex, RegistryStep,
       Registry!registryVars
  <2>3. CASE WritesAndEnds(r)
    BY <2>3, WriteRefines
  <2> QED
    BY <1>0, <1>1, <2>1, <2>2, <2>3, StepKinds
<1>2. CASE Crash
  <2> DEFINE lost == {r \in Requests : pc[r] # "done"}
  <2>1. lost \in SUBSET {r \in Requests : answer[r] = "none"}
    BY <1>0 DEF HandlerInv, Sound
  <2>2. answer' = [r \in Requests |-> IF r \in lost THEN "error" ELSE answer[r]]
    BY <1>2 DEF Crash
  <2>3. Registry!Lose
    BY <1>2, <2>1, <2>2 DEF Crash, Registry!Lose
  <2> QED
    BY <2>3 DEF RegistryStep, Registry!RegistryNext
<1>3. CASE UNCHANGED vars
  BY <1>3 DEF vars, RegistryStep, Registry!registryVars
<1> QED
  BY <1>1, <1>2, <1>3 DEF Next

(* The catalogue implements the registry: every request is decided as if   *)
(* in one atomic step, by the products of that moment.                     *)
THEOREM ImplementsRegistry == Spec => RefinesRegistry
<1>1. Init => Registry!RegistryInit
  BY DEF Init, Registry!RegistryInit
<1>2. Inv /\ [Next]_vars => [Registry!RegistryNext]_(Registry!registryVars)
  BY StepRefines DEF RegistryStep
<1> QED
  BY <1>1, <1>2, CatalogInvCorrect, PTL
     DEF Spec, RefinesRegistry, Registry!RegistrySpec

(* Only a PUT changes a price: no reservation that was reading the product *)
(* meanwhile takes the change back.                                        *)
THEOREM OnlyPutsReprice == Spec => OnlyPutReprices
<1> DEFINE Repriced ==
      \A i \in Rows : key[i] \in Keys /\ price'[i] # price[i] =>
        \E r \in Requests :
          /\ Op(r) = "put" /\ Row(r) = i
          /\ answer[r] = "none" /\ answer'[r] # "none"
          /\ price'[i] = StoredPrice(call[r].price)
<1>1. ASSUME Inv, NEW r \in Requests, HandlerStep(r) \/ Abort(r) PROVE Repriced
  <2>0. TypeOK /\ Sound(r)
    BY <1>1 DEF Inv, HandlerInv
  <2>1. CASE UNCHANGED price
    BY <2>1
  <2>2. CASE WritesAndEnds(r)
    <3>1. answer[r] = "none" /\ answer'[r] # "none"
      BY <2>0, <2>2 DEF WritesAndEnds, Writes, Sound, TypeOK
    <3>2. SUFFICES ASSUME NEW i \in Rows, key[i] \in Keys, price'[i] # price[i]
                   PROVE  /\ Op(r) = "put" /\ Row(r) = i
                          /\ price'[i] = StoredPrice(call[r].price)
      BY <3>1
    <3>3. /\ pc[r] = "written" /\ Row(r) = i
          /\ price' = [price EXCEPT ![Row(r)] = draft[r].price]
      BY <2>0, <2>2, <3>2 DEF WritesAndEnds, Writes, TypeOK
    <3> QED
      BY <2>0, <3>2, <3>3 DEF Sound, TypeOK
  <2> QED
    BY <1>1, <2>0, <2>1, <2>2, StepKinds DEF Ends, Prepares, Locks, LockProduct,
       Enters, EnterIndex
<1>2. Inv /\ [Next]_vars => [Repriced]_vars
  BY <1>1 DEF Next, Crash
<1> QED
  BY <1>2, CatalogInvCorrect, PTL DEF Spec, OnlyPutReprices

=============================================================================
