--------------------------- MODULE UniqueRegistry ---------------------------
(***************************************************************************)
(* What a table with a unique column promises to the callers of the API:   *)
(* the names of products in stock_db, the e-mails of clients in orders_db. *)
(* Every request is carried out, or refused for a reason that holds, in    *)
(* one atomic step; an error leaves open whether it was carried out.       *)
(* Catalog and ClientRegistry implement this specification.                *)
(***************************************************************************)
CONSTANTS
  Requests,
  Rows,           \* ids, never used twice
  Keys,           \* values of the unique column
  NoKey,          \* the row has not been inserted
  Gone            \* the row has been deleted

VARIABLES
  key,            \* the unique column
  call,           \* the request: its operation, row (but for "create") and key
  answer

registryVars == <<key, call, answer>>

Operations == {"create", "put", "delete", "restock"}
Answers == {"none", "ok", "exists", "notFound", "invalid", "error"}

Live == {i \in Rows : key[i] \in Keys}

TakenByOther(i, k) == \E j \in Live : j # i /\ key[j] = k

Unique == \A i, j \in Live : key[i] = key[j] => i = j

-----------------------------------------------------------------------------

RegistryInit ==
  /\ key \in [Rows -> Keys \cup {NoKey}] /\ Unique
  /\ answer = [r \in Requests |-> "none"]

Reply(r, answers) ==
  /\ answer[r] = "none"
  /\ \E a \in answers : answer' = [answer EXCEPT ![r] = a]
  /\ UNCHANGED call

Done == {"ok", "error"}

Create(r) ==
  /\ call[r].op = "create"
  /\ \E i \in Rows :
       /\ key[i] = NoKey /\ ~ TakenByOther(i, call[r].key)
       /\ key' = [key EXCEPT ![i] = call[r].key]
  /\ Reply(r, Done)

Rename(r) ==
  /\ call[r].op = "put" /\ call[r].row \in Live
  /\ ~ TakenByOther(call[r].row, call[r].key)
  /\ key' = [key EXCEPT ![call[r].row] = call[r].key]
  /\ Reply(r, Done)

Delete(r) ==
  /\ call[r].op = "delete" /\ call[r].row \in Live
  /\ key' = [key EXCEPT ![call[r].row] = Gone]
  /\ Reply(r, Done)

(* A change of other columns.                                              *)
Restock(r) ==
  /\ call[r].op = "restock" /\ call[r].row \in Live
  /\ Reply(r, Done) /\ UNCHANGED key

(* A conflict is only ever reported while another row has that key, and    *)
(* a missing row only while it is missing.                                 *)
Refuse(r) ==
  /\ \/ Reply(r, {"invalid"})
     \/ /\ call[r].op = "create" /\ \E i \in Live : key[i] = call[r].key
        /\ Reply(r, {"exists"})
     \/ /\ call[r].op = "put" /\ TakenByOther(call[r].row, call[r].key)
        /\ Reply(r, {"exists"})
     \/ /\ call[r].op # "create" /\ call[r].row \notin Live
        /\ Reply(r, {"notFound"})
  /\ UNCHANGED key

(* The process dies, or a request fails before it has done anything.       *)
Lose ==
  /\ \E lost \in SUBSET {r \in Requests : answer[r] = "none"} :
       answer' = [r \in Requests |-> IF r \in lost THEN "error" ELSE answer[r]]
  /\ UNCHANGED <<key, call>>

RegistryNext ==
  \/ \E r \in Requests :
       Create(r) \/ Rename(r) \/ Delete(r) \/ Restock(r) \/ Refuse(r)
  \/ Lose

RegistrySpec == RegistryInit /\ [][RegistryNext]_registryVars
=============================================================================
