----------------------- MODULE ClientRegistryProofs -----------------------
(***************************************************************************)
(* Client registration implements the registry, for any number of          *)
(* requests and e-mails: whatever happens between the check of the e-mail  *)
(* and the INSERT, the unique column has the last word.                    *)
(***************************************************************************)
EXTENDS ClientRegistry, TLAPS

USE ClientAssumption

USE DEF GoTo, Finish, ViolatesUnique, Registry!Unique, Registry!Live

-----------------------------------------------------------------------------
(* The kinds of steps.                                                     *)

Prepares(r) ==
  /\ pc[r] # "done"
  /\ \E l \in {"hash", "insert"} : pc' = [pc EXCEPT ![r] = l]
  /\ UNCHANGED <<key, call, answer>>

(* The reason of a refusal holds in this state.                            *)
Refuses(r) ==
  /\ pc[r] # "done"
  /\ \/ \E i \in Rows : key[i] = call[r].key /\ Finish(r, "exists")
     \/ Finish(r, "invalid")
     \/ Finish(r, "error")
  /\ UNCHANGED <<key, call>>

Registers(r) ==
  /\ pc[r] = "insert"
  /\ \E i \in Rows : key[i] = NoKey /\ key' = [key EXCEPT ![i] = call[r].key]
  /\ \A i \in Rows : key[i] # call[r].key
  /\ Finish(r, "ok") \/ Finish(r, "error")
  /\ UNCHANGED call

LEMMA StepKinds ==
  ASSUME TypeOK, NEW r \in Requests, HandlerStep(r) \/ Abort(r)
  PROVE  Prepares(r) \/ Refuses(r) \/ Registers(r)
BY DEF HandlerStep, Abort, RejectIncomplete, FindByEmail, Hash, Insert,
   Prepares, Refuses, Registers, TypeOK

LEMMA RegistersInv == ASSUME Inv, NEW r \in Requests, Registers(r) PROVE Inv'
<1>0. TypeOK /\ OneClientPerEmail /\ call[r].key \in Keys
  BY DEF Inv, TypeOK, Calls
<1> USE DEF TypeOK, Registry!Answers
<1>1. PICK i \in Rows : key[i] = NoKey /\ key' = [key EXCEPT ![i] = call[r].key]
  BY DEF Registers
<1>2. PICK a \in {"ok", "error"} : answer' = [answer EXCEPT ![r] = a]
  BY DEF Registers
<1>3. TypeOK'
  BY <1>0, <1>1, <1>2 DEF Registers
<1>4. Registry!Unique'
  BY <1>0, <1>1 DEF Registers, OneClientPerEmail
<1>5. ASSUME NEW q \in Requests, answer'[q] = "ok"
      PROVE  \E j \in Rows : key'[j] = call[q].key
  <2>1. CASE q = r
    BY <1>0, <1>1, <2>1
  <2>2. CASE q # r
    <3>1. PICK j \in Rows : key[j] = call[q].key
      BY <1>0, <1>2, <1>5, <2>2 DEF OneClientPerEmail
    <3>2. j # i
      BY <1>0, <1>1, <3>1 DEF Calls
    <3> QED
      BY <1>0, <1>1, <3>1, <3>2
  <2> QED
    BY <2>1, <2>2
<1>6. ASSUME NEW q \in Requests \ {r}, answer'[q] = "ok"
      PROVE  call[q].key # call[r].key
  BY <1>0, <1>2, <1>6 DEF Registers, OneClientPerEmail
<1>7. OneClientPerEmail'
  <2>1. call' = call
    BY DEF Registers
  <2> QED
    BY <1>0, <1>2, <1>4, <1>5, <1>6, <2>1 DEF OneClientPerEmail
<1>8. \A q \in Requests : pc'[q] # "done" => answer'[q] = "none"
  BY <1>0, <1>2 DEF Inv, Registers
<1> QED
  BY <1>3, <1>7, <1>8 DEF Inv

(* One client per e-mail, and one successful registration.                 *)
THEOREM RegistrationInvCorrect == Spec => []Inv
<1>1. Init => Inv
  BY DEF Init, Inv, TypeOK, OneClientPerEmail, Registry!Answers
<1>2. ASSUME Inv, [Next]_vars PROVE Inv'
  <2>1. ASSUME NEW r \in Requests, Prepares(r) \/ Refuses(r) PROVE Inv'
    <3>1. TypeOK'
      BY <1>2, <2>1 DEF Inv, TypeOK, Registry!Answers, Prepares, Refuses
    <3>2. UNCHANGED <<key, call>> /\ pc[r] # "done"
      BY <2>1 DEF Prepares, Refuses
    <3>3. \A q \in Requests :
            /\ answer'[q] = "ok" => answer[q] = "ok"
            /\ pc'[q] # "done" => answer'[q] = "none"
      BY <1>2, <2>1 DEF Inv, TypeOK, Prepares, Refuses
    <3> QED
      BY <1>2, <3>1, <3>2, <3>3 DEF Inv, OneClientPerEmail
  <2>2. CASE Crash
    BY <1>2, <2>2 DEF Crash, Inv, TypeOK, OneClientPerEmail, Registry!Answers
  <2>3. CASE UNCHANGED vars
    BY <1>2, <2>3 DEF vars, Inv, TypeOK, OneClientPerEmail
  <2> QED
    BY <1>2, <2>1, <2>2, <2>3, StepKinds, RegistersInv DEF Next, Inv
<1> QED
  BY <1>1, <1>2, PTL DEF Spec

-----------------------------------------------------------------------------

LEMMA StepRefines ==
  ASSUME Inv, [Next]_vars
  PROVE  Registry!RegistryNext \/ UNCHANGED Registry!registryVars
<1>0. TypeOK /\ \A q \in Requests : pc[q] # "done" => answer[q] = "none"
  BY DEF Inv
<1> USE DEF TypeOK
<1>1. ASSUME NEW lost \in SUBSET Requests, \A q \in lost : answer[q] = "none",
             answer' = [q \in Requests |-> IF q \in lost THEN "error" ELSE answer[q]],
             UNCHANGED <<key, call>>
      PROVE  Registry!RegistryNext
  <2>1. Registry!Lose
    BY <1>1 DEF Registry!Lose
  <2> QED
    BY <2>1 DEF Registry!RegistryNext
<1>2. ASSUME NEW r \in Requests, Refuses(r) PROVE Registry!RegistryNext
  <2>0. call[r].op = "create" /\ call[r].key \in Keys /\ answer[r] = "none"
    BY <1>0, <1>2 DEF Refuses, Calls
  <2>1. CASE Finish(r, "error")
    <3> DEFINE lost == {r}
    <3>1. answer' = [q \in Requests |-> IF q \in lost THEN "error" ELSE answer[q]]
      BY <1>0, <2>1
    <3>2. lost \in SUBSET Requests /\ \A q \in lost : answer[q] = "none"
      BY <2>0
    <3>3. UNCHANGED <<key, call>>
      BY <1>2 DEF Refuses
    <3> HIDE DEF lost
    <3> QED
      BY <1>1, <3>1, <3>2, <3>3
  <2>2. CASE ~ Finish(r, "error")
    <3>1. Registry!Refuse(r)
      BY <1>2, <2>0, <2>2 DEF Refuses, Registry!Refuse, Registry!Reply
    <3> QED
      BY <3>1 DEF Registry!RegistryNext
  <2> QED
    BY <2>1, <2>2
<1>3. ASSUME NEW r \in Requests, Registers(r) PROVE Registry!RegistryNext
  <2>1. Registry!Create(r)
    BY <1>0, <1>3 DEF Registers, Registry!Create, Registry!Reply, Registry!Done,
       Registry!TakenByOther, Calls
  <2> QED
    BY <2>1 DEF Registry!RegistryNext
<1>4. CASE Crash
  <2> DEFINE lost == {r \in Requests : pc[r] # "done"}
  <2>1. lost \in SUBSET Requests /\ \A q \in lost : answer[q] = "none"
    BY <1>0
  <2>2. answer' = [q \in Requests |-> IF q \in lost THEN "error" ELSE answer[q]]
    BY <1>4 DEF Crash
  <2> QED
    BY <1>1, <1>4, <2>1, <2>2 DEF Crash
<1>5. CASE (\E r \in Requests : Prepares(r)) \/ UNCHANGED vars
  BY <1>5 DEF Prepares, vars, Registry!registryVars
<1> QED
  BY <1>0, <1>2, <1>3, <1>4, <1>5, StepKinds DEF Next

(* Registration implements the registry: who is refused for an e-mail that *)
(* is taken is refused while it is taken.                                  *)
THEOREM ImplementsRegistry == Spec => RefinesRegistry
<1>1. Init => Registry!RegistryInit
  BY DEF Init, Registry!RegistryInit
<1>2. Inv /\ [Next]_vars => [Registry!RegistryNext]_(Registry!registryVars)
  BY StepRefines
<1> QED
  BY <1>1, <1>2, RegistrationInvCorrect, PTL
     DEF Spec, RefinesRegistry, Registry!RegistrySpec

=============================================================================
