------------------------------ MODULE Catalog ------------------------------
(***************************************************************************)
(* The product catalogue of the stock-service: POST, PUT and DELETE of     *)
(* /produtos in internal/application/product_service.go, beside the        *)
(* transactions of Reserve and Release that get as far as their UPDATE     *)
(* ("restock"), which writes the whole row back.                           *)
(*                                                                         *)
(* PostgreSQL keeps names unique with the index products_name_key: an      *)
(* INSERT, or an UPDATE that has already written its new row version,      *)
(* looks the name up in the index, waits for a transaction that is writing *)
(* a row with that name, and fails if a live row has it:                   *)
(*                                                                         *)
(*   POST                  new -> insert -> done                           *)
(*   DELETE                new -> done                                     *)
(*   PUT, Reserve, Release new -> begun -> locked -> indexing -> written   *)
(*                             -> done                                     *)
(*                                                                         *)
(* From locked on the transaction holds the row lock of its product.       *)
(***************************************************************************)
EXTENDS Integers, FiniteSets

CONSTANTS
  Requests,
  Rows,           \* product ids
  Keys,           \* product names
  Arrivals,       \* the calls that may come, prices in thousandths
  MaxCents,       \* the largest price of NUMERIC(10,2)
  Faults,         \* the faults that may happen, a subset of AllFaults
  NoKey, Gone

AllFaults == {"abort", "lostCommitAck", "crash"}

ASSUME CatalogAssumption ==
  /\ Faults \subseteq AllFaults
  /\ Arrivals \subseteq [op : {"create", "put", "delete", "restock"}, row : Rows,
                          key : Keys, price : Int]
  /\ MaxCents \in Nat
  /\ NoKey \notin Keys /\ Gone \notin Keys \cup {NoKey}

VARIABLES
  key,            \* products.name
  price,          \* products.price, in hundredths
  call,           \* what each request asks for
  answer,
  pc,
  draft           \* name and price that the UPDATE of a request writes

vars == <<key, price, call, answer, pc, draft>>

Registry == INSTANCE UniqueRegistry

Row(r) == call[r].row
Op(r) == call[r].op
Exists(i) == key[i] \in Keys
May(fault) == fault \in Faults

Calls == [op : Registry!Operations, row : Rows, key : Keys, price : Int]
Drafts == [key : Keys, price : Int]

GoTo(r, l) == pc' = [pc EXCEPT ![r] = l]

Finish(r, a) ==
  /\ GoTo(r, "done")
  /\ answer' = [answer EXCEPT ![r] = a]

-----------------------------------------------------------------------------
(* PostgreSQL                                                              *)

(* NUMERIC(10,2) rounds halves away from zero.                             *)
StoredPrice(p) == (p + 5) \div 10

LocksRowNever(r) == FALSE

LocksRowForEver(r) ==
  pc[r] \in {"locked", "indexing", "written", "done"}

LocksRow(r) == pc[r] \in {"locked", "indexing", "written"}

RowFree(i) == \A r \in Requests : Row(r) = i => ~ LocksRow(r)

(* Transactions r waits for to know whether a row has name k: the old      *)
(* version of their row has it, or they have entered it in the index.      *)
Writers(r, k) ==
  {t \in Requests \ {r} :
     \/ pc[t] \in {"indexing", "written"} /\ key[Row(t)] = k
     \/ pc[t] = "written" /\ draft[t].key = k}

NoUniqueIndex(i, k) == FALSE

(* products_name_key                                                       *)
ViolatesUnique(i, k) == \E j \in Rows \ {i} : key[j] = k

Fits(cents) == cents <= MaxCents

WaitsFor(r, t) == pc[r] = "indexing" /\ t \in Writers(r, draft[r].key)

(* r is on a cycle of requests each waiting for the next.                  *)
Deadlocked(r) ==
  \E S \in SUBSET Requests :
    /\ r \in S
    /\ \A t \in S : (\E u \in S : WaitsFor(t, u)) /\ (\E u \in S : WaitsFor(u, t))

-----------------------------------------------------------------------------
(* The handlers.                                                           *)

PriceValid(r) == call[r].price > 0

(* Create and Update check their request before they touch the database;   *)
(* the other required fields end a request like the price does.            *)
RejectPrice(r) ==
  /\ pc[r] = "new" /\ Op(r) \in {"create", "put"}
  /\ ~ PriceValid(r)
  /\ Finish(r, "invalid")
  /\ UNCHANGED <<key, price, call, draft>>

(* Create asks FindByName first; others may register the name meanwhile.   *)
FindByName(r) ==
  /\ pc[r] = "new" /\ Op(r) = "create" /\ PriceValid(r)
  /\ \/ (\E i \in Rows : key[i] = call[r].key) /\ Finish(r, "exists")
     \/ (\A i \in Rows : key[i] # call[r].key) /\ GoTo(r, "insert") /\ UNCHANGED answer
  /\ UNCHANGED <<key, price, call, draft>>

(* ProductRepository.Create: one statement that commits itself; an error   *)
(* 23505 becomes ErrProductNameExists.                                     *)
Insert(r) ==
  LET k == call[r].key
      cents == StoredPrice(call[r].price)
  IN  /\ pc[r] = "insert"
      /\ Writers(r, k) = {}
      /\ \E i \in Rows :
           /\ key[i] = NoKey
           /\ \/ ~ Fits(cents) /\ Finish(r, "error") /\ UNCHANGED <<key, price>>
              \/ /\ Fits(cents) /\ ViolatesUnique(i, k)
                 /\ Finish(r, "exists") /\ UNCHANGED <<key, price>>
              \/ /\ Fits(cents) /\ ~ ViolatesUnique(i, k)
                 /\ key' = [key EXCEPT ![i] = k]
                 /\ price' = [price EXCEPT ![i] = cents]
                 /\ \/ Finish(r, "ok")
                    \/ May("lostCommitAck") /\ Finish(r, "error")
      /\ UNCHANGED <<call, draft>>

(* DELETE waits for the row lock; the foreign key of stock_reservations    *)
(* may forbid it.                                                          *)
DeleteProduct(r) ==
  /\ pc[r] = "new" /\ Op(r) = "delete" /\ RowFree(Row(r))
  /\ \/ ~ Exists(Row(r)) /\ Finish(r, "notFound") /\ UNCHANGED key
     \/ Exists(Row(r)) /\ Finish(r, "error") /\ UNCHANGED key
     \/ /\ Exists(Row(r))
        /\ key' = [key EXCEPT ![Row(r)] = Gone]
        /\ Finish(r, "ok") \/ (May("lostCommitAck") /\ Finish(r, "error"))
  /\ UNCHANGED <<price, call, draft>>

Begin(r) ==
  /\ pc[r] = "new"
  /\ Op(r) = "restock" \/ (Op(r) = "put" /\ PriceValid(r))
  /\ GoTo(r, "begun")
  /\ UNCHANGED <<key, price, call, answer, draft>>

(* FindByIDForUpdate: Update ignores the row it reads, Reserve and Release *)
(* will write its name and price back.                                     *)
LockProduct(r) ==
  /\ pc[r] = "begun" /\ RowFree(Row(r))
  /\ \/ ~ Exists(Row(r)) /\ Finish(r, "notFound") /\ UNCHANGED draft
     \/ /\ Exists(Row(r))
        /\ draft' = [draft EXCEPT ![r] =
             IF Op(r) = "put"
             THEN [key |-> call[r].key, price |-> StoredPrice(call[r].price)]
             ELSE [key |-> key[Row(r)], price |-> price[Row(r)]]]
        /\ GoTo(r, "locked") /\ UNCHANGED answer
  /\ UNCHANGED <<key, price, call>>

(* UPDATE products: the new version of the row ...                         *)
WriteRow(r) ==
  /\ pc[r] = "locked"
  /\ \/ ~ Fits(draft[r].price) /\ Finish(r, "error")
     \/ Fits(draft[r].price) /\ GoTo(r, "indexing") /\ UNCHANGED answer
  /\ UNCHANGED <<key, price, call, draft>>

(* ... and its entry in the index.                                         *)
EnterIndex(r) ==
  /\ pc[r] = "indexing"
  /\ Writers(r, draft[r].key) = {}
  /\ \/ ViolatesUnique(Row(r), draft[r].key) /\ Finish(r, "exists")
     \/ ~ ViolatesUnique(Row(r), draft[r].key) /\ GoTo(r, "written") /\ UNCHANGED answer
  /\ UNCHANGED <<key, price, call, draft>>

Commit(r) ==
  /\ pc[r] = "written"
  /\ key' = [key EXCEPT ![Row(r)] = draft[r].key]
  /\ price' = [price EXCEPT ![Row(r)] = draft[r].price]
  /\ Finish(r, "ok") \/ (May("lostCommitAck") /\ Finish(r, "error"))
  /\ UNCHANGED <<call, draft>>

(* Two PUTs that swap names wait for each other until PostgreSQL aborts    *)
(* one of them with 40P01, which is answered with 500.                     *)
BreakDeadlock(r) ==
  /\ Deadlocked(r)
  /\ Finish(r, "error")
  /\ UNCHANGED <<key, price, call, draft>>

HandlerStep(r) ==
  \/ RejectPrice(r) \/ FindByName(r) \/ Insert(r) \/ DeleteProduct(r)
  \/ Begin(r) \/ LockProduct(r) \/ WriteRow(r) \/ EnterIndex(r) \/ Commit(r)
  \/ BreakDeadlock(r)

(* A statement fails or the caller goes away: the transaction rolls back.  *)
Abort(r) ==
  /\ May("abort") /\ pc[r] # "done"
  /\ Finish(r, "error")
  /\ UNCHANGED <<key, price, call, draft>>

Crash ==
  /\ May("crash") /\ \E r \in Requests : pc[r] # "done"
  /\ pc' = [r \in Requests |-> "done"]
  /\ answer' = [r \in Requests |-> IF pc[r] = "done" THEN answer[r] ELSE "error"]
  /\ UNCHANGED <<key, price, call, draft>>

-----------------------------------------------------------------------------

(* Ids are never used up.                                                  *)
Init ==
  /\ key \in [Rows -> Keys \cup {NoKey}] /\ Registry!Unique
  /\ price = [i \in Rows |-> MaxCents]
  /\ call \in [Requests -> Arrivals]
  /\ Cardinality({r \in Requests : call[r].op = "create"})
       <= Cardinality({i \in Rows : key[i] = NoKey})
  /\ answer = [r \in Requests |-> "none"]
  /\ pc = [r \in Requests |-> "new"]
  /\ draft = [r \in Requests |-> [key |-> call[r].key, price |-> 0]]

Next == (\E r \in Requests : HandlerStep(r) \/ Abort(r)) \/ Crash

Spec == Init /\ [][Next]_vars

(* Goroutines are scheduled, PostgreSQL hands locks on to who waits for    *)
(* them and looks for deadlocks every deadlock_timeout.                    *)
FairSpec == Spec /\ \A r \in Requests : WF_vars(HandlerStep(r))

-----------------------------------------------------------------------------

TypeOK ==
  /\ key \in [Rows -> Keys \cup {NoKey, Gone}]
  /\ price \in [Rows -> Int]
  /\ call \in [Requests -> Calls]
  /\ answer \in [Requests -> Registry!Answers]
  /\ pc \in [Requests -> {"new", "insert", "begun", "locked", "indexing",
                          "written", "done"}]
  /\ draft \in [Requests -> Drafts]

(* What a handler knows of its product: Reserve and Release hold the       *)
(* values they will write back, and no row has the name that has been      *)
(* entered in the index ...                                                *)
Sound(r) ==
  /\ pc[r] # "done" => answer[r] = "none"
  /\ pc[r] = "insert" => Op(r) = "create"
  /\ pc[r] = "begun" => Op(r) \in {"put", "restock"}
  /\ LocksRow(r) =>
       /\ Exists(Row(r))
       /\ \/ /\ Op(r) = "put"
             /\ draft[r] = [key |-> call[r].key,
                            price |-> StoredPrice(call[r].price)]
          \/ /\ Op(r) = "restock"
             /\ draft[r] = [key |-> key[Row(r)], price |-> price[Row(r)]]
  /\ pc[r] = "written" => ~ ViolatesUnique(Row(r), draft[r].key)

(* ... and nobody else works on its row or is about to have that name.     *)
Apart(r, t) ==
  /\ LocksRow(r) /\ LocksRow(t) => Row(r) # Row(t)
  /\ pc[r] = "written" /\ pc[t] = "written" => draft[r].key # draft[t].key

HandlerInv ==
  \A r \in Requests : Sound(r) /\ \A t \in Requests \ {r} : Apart(r, t)

Inv == TypeOK /\ Registry!Unique /\ HandlerInv

(* The catalogue implements the registry: of two registrations or renames  *)
(* that pass the check for the same name one is refused, whatever the      *)
(* order of their statements, and no reservation undoes a rename by the    *)
(* name it writes back.                                                    *)
RefinesRegistry == Registry!RegistrySpec

(* A price only changes to the one that a PUT asks for: Reserve and        *)
(* Release, which write the price back that they have read, never undo a   *)
(* change of price.                                                        *)
OnlyPutReprices ==
  [][\A i \in Rows : key[i] \in Keys /\ price'[i] # price[i] =>
       \E r \in Requests :
         /\ Op(r) = "put" /\ Row(r) = i
         /\ answer[r] = "none" /\ answer'[r] # "none"
         /\ price'[i] = StoredPrice(call[r].price)]_vars

(* Every request is answered: PUTs that wait for each other's names do not *)
(* wait for ever.                                                          *)
EveryRequestAnswered == \A r \in Requests : <>(pc[r] = "done")
=============================================================================
