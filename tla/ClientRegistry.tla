--------------------------- MODULE ClientRegistry ---------------------------
(***************************************************************************)
(* POST /clientes of the order-service: ClientService.Create looks the     *)
(* e-mail up, hashes the password (bcrypt, a long time) and inserts, with  *)
(* no transaction around; clients.email is UNIQUE.  Clients are neither    *)
(* changed nor deleted by any handler.                                     *)
(***************************************************************************)
EXTENDS Naturals, FiniteSets

CONSTANTS
  Requests,
  Rows,           \* client ids
  Keys,           \* e-mails
  Faults,         \* the faults that may happen, a subset of AllFaults
  NoKey, Gone

AllFaults == {"abort", "lostCommitAck", "crash"}

ASSUME ClientAssumption ==
  /\ Faults \subseteq AllFaults
  /\ NoKey \notin Keys /\ Gone \notin Keys \cup {NoKey}

VARIABLES
  key,            \* clients.email
  call,           \* the request; "complete": no required field is empty
  answer,
  pc

vars == <<key, call, answer, pc>>

Registry == INSTANCE UniqueRegistry

Calls == [op : {"create"}, key : Keys, complete : BOOLEAN]

May(fault) == fault \in Faults

GoTo(r, l) == pc' = [pc EXCEPT ![r] = l]

Finish(r, a) ==
  /\ GoTo(r, "done")
  /\ answer' = [answer EXCEPT ![r] = a]

NoUniqueColumn(k) == FALSE

ViolatesUnique(k) == \E i \in Rows : key[i] = k

-----------------------------------------------------------------------------

RejectIncomplete(r) ==
  /\ pc[r] = "new" /\ ~ call[r].complete
  /\ Finish(r, "invalid")
  /\ UNCHANGED <<key, call>>

FindByEmail(r) ==
  /\ pc[r] = "new" /\ call[r].complete
  /\ \/ (\E i \in Rows : key[i] = call[r].key) /\ Finish(r, "exists")
     \/ (\A i \in Rows : key[i] # call[r].key) /\ GoTo(r, "hash") /\ UNCHANGED answer
  /\ UNCHANGED <<key, call>>

(* HashPassword fails for passwords of more than 72 bytes.                 *)
Hash(r) ==
  /\ pc[r] = "hash"
  /\ (GoTo(r, "insert") /\ UNCHANGED answer) \/ Finish(r, "error")
  /\ UNCHANGED <<key, call>>

(* ClientRepository.Create; mapDatabaseError turns 23505 into              *)
(* ErrClientEmailAlreadyExists.                                            *)
Insert(r) ==
  /\ pc[r] = "insert"
  /\ \E i \in Rows :
       /\ key[i] = NoKey
       /\ \/ ViolatesUnique(call[r].key) /\ Finish(r, "exists") /\ UNCHANGED key
          \/ /\ ~ ViolatesUnique(call[r].key)
             /\ key' = [key EXCEPT ![i] = call[r].key]
             /\ Finish(r, "ok") \/ (May("lostCommitAck") /\ Finish(r, "error"))
  /\ UNCHANGED call

HandlerStep(r) ==
  RejectIncomplete(r) \/ FindByEmail(r) \/ Hash(r) \/ Insert(r)

(* A statement fails or the caller goes away.                              *)
Abort(r) ==
  /\ May("abort") /\ pc[r] # "done"
  /\ Finish(r, "error")
  /\ UNCHANGED <<key, call>>

Crash ==
  /\ May("crash") /\ \E r \in Requests : pc[r] # "done"
  /\ pc' = [r \in Requests |-> "done"]
  /\ answer' = [r \in Requests |-> IF pc[r] = "done" THEN answer[r] ELSE "error"]
  /\ UNCHANGED <<key, call>>

-----------------------------------------------------------------------------

(* Ids are never used up.                                                  *)
Init ==
  /\ key \in [Rows -> Keys \cup {NoKey}] /\ Registry!Unique
  /\ Cardinality(Requests) <= Cardinality({i \in Rows : key[i] = NoKey})
  /\ call \in [Requests -> Calls]
  /\ answer = [r \in Requests |-> "none"]
  /\ pc = [r \in Requests |-> "new"]

Next == (\E r \in Requests : HandlerStep(r) \/ Abort(r)) \/ Crash

Spec == Init /\ [][Next]_vars

-----------------------------------------------------------------------------

TypeOK ==
  /\ key \in [Rows -> Keys \cup {NoKey, Gone}]
  /\ call \in [Requests -> Calls]
  /\ answer \in [Requests -> Registry!Answers]
  /\ pc \in [Requests -> {"new", "hash", "insert", "done"}]

(* No two clients have the same e-mail, and no two registrations of the    *)
(* same e-mail are both told that they succeeded; a success is in the      *)
(* table.                                                                  *)
OneClientPerEmail ==
  /\ Registry!Unique
  /\ \A r \in Requests : answer[r] = "ok" => \E i \in Rows : key[i] = call[r].key
  /\ \A r1, r2 \in Requests :
       answer[r1] = "ok" /\ answer[r2] = "ok" /\ call[r1].key = call[r2].key
         => r1 = r2

Inv ==
  /\ TypeOK
  /\ OneClientPerEmail
  /\ \A r \in Requests : pc[r] # "done" => answer[r] = "none"

(* Client registration implements the registry: of requests that pass the  *)
(* check with the same e-mail, one client comes out, and whoever is told   *)
(* that the e-mail is taken is told the truth.                             *)
RefinesRegistry == Registry!RegistrySpec
=============================================================================
