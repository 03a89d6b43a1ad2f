---------------------- MODULE UserProvisioning_proofs ----------------------
(***************************************************************************)
(* Proofs about UserProvisioning, for every set of registrations, every    *)
(* tolerance and every length of time.                                     *)
(***************************************************************************)
EXTENDS UserProvisioning, TLAPS

(* Registrations for one user and provider exclude each other from the     *)
(* link to the COMMIT.                                                     *)
Holds(r) == pc[r] \in {"account", "newaccount", "commit"}

OneHolds ==
  \A q, r \in Request : Holds(q) /\ Holds(r) /\ Pair(q) = Pair(r) => q = r

(* An account row belongs to the registrations of one user and provider.   *)
PairsKept ==
  /\ \A r \in Request : got[r] # None => Pair(got[r]) = Pair(r)
  /\ \A p \in Nid \X Provider : account[p] # None => Pair(account[p]) = p

(* What a registration has found or made is what its COMMIT leaves.        *)
GotIsStored ==
  \A r \in Request :
    /\ pc[r] = "newaccount" => account[Pair(r)] = None
    /\ pc[r] = "commit" => account[Pair(r)] \in {None, got[r]}
    /\ pc[r] \in {"provision", "adrift"} => account[Pair(r)] = got[r]

RowInv == TypeOK /\ OneHolds /\ PairsKept /\ GotIsStored /\ NoOrphan

-----------------------------------------------------------------------------
LEMMA PairType == \A r \in Request : Pair(r) \in Nid \X Provider
  BY UserAssumption DEF Pair

LEMMA InitType == Init => TypeOK
  BY UserAssumption DEF Init, TypeOK, Row, InTransaction

LEMMA TypeStep == TypeOK /\ [Next]_vars => TypeOK'
<1> SUFFICES ASSUME TypeOK, [Next]_vars PROVE TypeOK'
  OBVIOUS
<1> USE UserAssumption, PairType
<1>1. ASSUME NEW r \in Request, Arrive(r) PROVE TypeOK'
  <2>1. clock + Skew \in 0 .. (MaxTime + Skew)
    BY DEF TypeOK
  <2> QED
    BY <1>1, <2>1 DEF TypeOK, Arrive, Goto
<1>2. ASSUME NEW r \in Request, Begin(r) PROVE TypeOK'
  BY <1>2 DEF TypeOK, Begin, Goto, InTransaction
<1>3. ASSUME NEW r \in Request, FindUser(r) PROVE TypeOK'
  BY <1>3 DEF TypeOK, FindUser, Goto, InTransaction
<1>4. ASSUME NEW r \in Request, InsertUser(r) PROVE TypeOK'
  <2>1. /\ \E l \in {"link", "done"} : pc' = [pc EXCEPT ![r] = l]
        /\ response' = response \/ \E what \in {"ERROR"} :
                                     response' = [response EXCEPT ![r] = what]
    BY <1>4 DEF InsertUser, Goto, Respond
  <2>2. found' \in [Request -> Row]
    BY <1>4 DEF TypeOK, InsertUser, Row
  <2>3. pc' \in [Request -> InTransaction \cup
                            {"new", "begin", "provision", "adrift", "done", "gone"}]
    BY <2>1 DEF TypeOK, InTransaction
  <2>4. response' \in [Request -> {"none", "CREATED", "ERROR"}]
    BY <2>1 DEF TypeOK
  <2>5. \A q \in Request : pc'[q] \in {"commit", "provision", "adrift"} => got'[q] # None
    BY <1>4, <2>1 DEF TypeOK, InsertUser
  <2> QED
    BY <1>4, <2>2, <2>3, <2>4, <2>5 DEF TypeOK, InsertUser
<1>5. ASSUME NEW r \in Request, Link(r) PROVE TypeOK'
  BY <1>5 DEF TypeOK, Link, Goto, InTransaction
<1>6. ASSUME NEW r \in Request, FindAccount(r) PROVE TypeOK'
  <2>1. account[Pair(r)] \in Row
    BY DEF TypeOK
  <2>2. /\ \E l \in {"newaccount", "commit"} : pc' = [pc EXCEPT ![r] = l]
        /\ pc'[r] = "commit" => account[Pair(r)] # None
        /\ got' = [got EXCEPT ![r] = account[Pair(r)]]
    BY <1>6 DEF TypeOK, FindAccount, Missing, Goto
  <2>3. pc' \in [Request -> InTransaction \cup
                            {"new", "begin", "provision", "adrift", "done", "gone"}]
    BY <2>2 DEF TypeOK, InTransaction
  <2>4. got' \in [Request -> Row]
    BY <2>1, <2>2 DEF TypeOK
  <2>5. \A q \in Request : pc'[q] \in {"commit", "provision", "adrift"} => got'[q] # None
    BY <2>2 DEF TypeOK
  <2> QED
    BY <1>6, <2>3, <2>4, <2>5 DEF TypeOK, FindAccount, Goto
<1>7. ASSUME NEW r \in Request, InsertAccount(r) PROVE TypeOK'
  <2>1. \/ /\ pc' = [pc EXCEPT ![r] = "commit"] /\ UNCHANGED response
           /\ got' = [got EXCEPT ![r] = r]
        \/ /\ pc' = [pc EXCEPT ![r] = "done"] /\ UNCHANGED got
           /\ response' = [response EXCEPT ![r] = "ERROR"]
    BY <1>7 DEF InsertAccount, Goto, Respond
  <2>2. pc' \in [Request -> InTransaction \cup
                            {"new", "begin", "provision", "adrift", "done", "gone"}]
    BY <2>1 DEF TypeOK, InTransaction
  <2>3. got' \in [Request -> Row]
    BY <2>1 DEF TypeOK, Row
  <2>4. response' \in [Request -> {"none", "CREATED", "ERROR"}]
    BY <2>1 DEF TypeOK
  <2>5. \A q \in Request : pc'[q] \in {"commit", "provision", "adrift"} => got'[q] # None
    BY <2>1 DEF TypeOK
  <2> QED
    BY <1>7, <2>2, <2>3, <2>4, <2>5 DEF TypeOK, InsertAccount
<1>8. ASSUME NEW r \in Request, Commit(r) PROVE TypeOK'
  <2>1. /\ \E l \in {"provision", "done"} : pc' = [pc EXCEPT ![r] = l]
        /\ response' = response \/ \E what \in {"CREATED", "ERROR"} :
                                     response' = [response EXCEPT ![r] = what]
    BY <1>8 DEF Commit, Goto, Respond
  <2>2. pc' \in [Request -> InTransaction \cup
                            {"new", "begin", "provision", "adrift", "done", "gone"}]
    BY <2>1 DEF TypeOK
  <2>3. response' \in [Request -> {"none", "CREATED", "ERROR"}]
    BY <2>1 DEF TypeOK
  <2>4. user' \in [Nid -> Row] /\ account' \in [Nid \X Provider -> Row]
    <3>1. NidOf[r] \in Nid /\ found[r] \in Row /\ got[r] \in Row
      BY DEF TypeOK
    <3> QED
      BY <1>8, <3>1 DEF TypeOK, Commit
  <2>5. \A q \in Request : pc'[q] \in {"commit", "provision", "adrift"} => got'[q] # None
    BY <1>8, <2>1 DEF TypeOK, Commit
  <2> QED
    BY <1>8, <2>2, <2>3, <2>4, <2>5 DEF TypeOK, Commit
<1>9. ASSUME NEW r \in Request, Provision(r) PROVE TypeOK'
  <2>1. got[r] \in Request
    BY <1>9 DEF TypeOK, Provision, Row
  <2>2. ledger' \in SUBSET Request
    BY <1>9, <2>1 DEF TypeOK, Provision, AccountId
  <2>3. /\ pc' = [pc EXCEPT ![r] = "done"]
        /\ \E what \in {"CREATED", "ERROR"} : response' = [response EXCEPT ![r] = what]
    BY <1>9 DEF Provision, Respond
  <2>4. /\ response' \in [Request -> {"none", "CREATED", "ERROR"}]
        /\ pc' \in [Request -> InTransaction \cup
                              {"new", "begin", "provision", "adrift", "done", "gone"}]
    BY <2>3 DEF TypeOK
  <2>5. \A q \in Request : pc'[q] \in {"commit", "provision", "adrift"} => got'[q] # None
    BY <1>9, <2>3 DEF TypeOK, Provision
  <2> QED
    BY <1>9, <2>2, <2>4, <2>5 DEF TypeOK, Provision
<1>10. ASSUME NEW r \in Request, RollBack(r) PROVE TypeOK'
  BY <1>10 DEF TypeOK, RollBack, Respond
<1>11. ASSUME NEW r \in Request, HangUp(r) PROVE TypeOK'
  BY <1>11 DEF TypeOK, HangUp, Goto
<1>12. ASSUME NEW r \in Request, ProvisionLate(r) PROVE TypeOK'
  BY <1>12 DEF TypeOK, ProvisionLate, AccountId, Goto, Row
<1>13. CASE Tick
  <2>1. clock' \in 0 .. MaxTime
    BY <1>13 DEF TypeOK, Tick
  <2> QED
    BY <1>13, <2>1 DEF TypeOK, Tick
<1>14. CASE UNCHANGED vars
  BY <1>14 DEF TypeOK, vars
<1> QED
  BY <1>1, <1>2, <1>3, <1>4, <1>5, <1>6, <1>7, <1>8, <1>9, <1>10, <1>11, <1>12, <1>13,
     <1>14 DEF Next

-----------------------------------------------------------------------------
(* A step of r that writes no row and no account keeps what is said of      *)
(* rows, if it brings r neither to the link's lock nor past the COMMIT.     *)
LEMMA QuietStep ==
  ASSUME RowInv, TypeOK', NEW r \in Request, UNCHANGED <<got, account, ledger>>,
         \A q \in Request :
           pc'[q] = pc[q] \/ pc'[q] \in {"begin", "user", "newuser", "link", "done", "gone"}
                          \/ (pc[q] = "provision" /\ pc'[q] = "adrift")
  PROVE  RowInv'
<1>1. OneHolds'
  BY DEF RowInv, OneHolds, Holds, Pair
<1>2. PairsKept' /\ NoOrphan'
  BY DEF RowInv, PairsKept, NoOrphan, Pair
<1>3. GotIsStored'
  BY DEF RowInv, GotIsStored, Pair
<1> QED
  BY <1>1, <1>2, <1>3 DEF RowInv

LEMMA LinkStep ==
  ASSUME RowInv, TypeOK', NEW r \in Request, Link(r)
  PROVE  RowInv'
<1>1. pc' = [pc EXCEPT ![r] = "account"] /\ UNCHANGED <<got, account, ledger>>
  BY DEF Link, Goto
<1>2. OneHolds'
  BY <1>1 DEF RowInv, OneHolds, Holds, Link, LinkFree, TypeOK, Pair
<1>3. PairsKept' /\ NoOrphan' /\ GotIsStored'
  BY <1>1 DEF RowInv, PairsKept, NoOrphan, GotIsStored, TypeOK, Pair
<1> QED
  BY <1>2, <1>3 DEF RowInv

LEMMA FindAccountStep ==
  ASSUME RowInv, TypeOK', NEW r \in Request, FindAccount(r)
  PROVE  RowInv'
<1> USE PairType
<1>1. /\ \E l \in {"newaccount", "commit"} : pc' = [pc EXCEPT ![r] = l]
      /\ pc'[r] = "newaccount" => account[Pair(r)] = None
      /\ got' = [got EXCEPT ![r] = account[Pair(r)]]
      /\ UNCHANGED <<account, ledger>> /\ pc[r] = "account"
  BY DEF FindAccount, Missing, Goto, RowInv, TypeOK
<1>2. OneHolds'
  BY <1>1 DEF RowInv, OneHolds, Holds, TypeOK, Pair
<1>3. PairsKept'
  <2>1. \A q \in Request : got'[q] = IF q = r THEN account[Pair(r)] ELSE got[q]
    BY <1>1 DEF RowInv, TypeOK
  <2>2. account[Pair(r)] # None => Pair(account[Pair(r)]) = Pair(r)
    BY DEF RowInv, PairsKept
  <2> QED
    BY <1>1, <2>1, <2>2 DEF RowInv, PairsKept
<1>4. GotIsStored'
  BY <1>1 DEF RowInv, GotIsStored, TypeOK, Pair
<1>5. NoOrphan'
  BY <1>1 DEF RowInv, NoOrphan
<1> QED
  BY <1>2, <1>3, <1>4, <1>5 DEF RowInv

LEMMA InsertAccountStep ==
  ASSUME RowInv, TypeOK', NEW r \in Request, InsertAccount(r)
  PROVE  RowInv'
<1> USE PairType
<1>1. account[Pair(r)] = None
  BY DEF InsertAccount, RowInv, GotIsStored
<1>2. /\ pc' = [pc EXCEPT ![r] = "commit"] /\ got' = [got EXCEPT ![r] = r]
      /\ UNCHANGED <<account, ledger>> /\ pc[r] = "newaccount"
  BY <1>1 DEF InsertAccount, Goto
<1>3. OneHolds'
  BY <1>2 DEF RowInv, OneHolds, Holds, TypeOK, Pair
<1>4. PairsKept' /\ NoOrphan'
  BY <1>2 DEF RowInv, PairsKept, NoOrphan, TypeOK, Pair
<1>5. GotIsStored'
  BY <1>1, <1>2 DEF RowInv, GotIsStored, TypeOK, Pair
<1> QED
  BY <1>3, <1>4, <1>5 DEF RowInv

(* The COMMIT writes the row of its own pair, where there was none or the   *)
(* same; nobody else holds the pair.                                        *)
LEMMA CommitStep ==
  ASSUME RowInv, TypeOK', NEW r \in Request, Commit(r)
  PROVE  RowInv'
<1> USE PairType, UserAssumption
<1>1. /\ \E l \in {"provision", "done"} : pc' = [pc EXCEPT ![r] = l]
      /\ account' = [account EXCEPT ![Pair(r)] = got[r]]
      /\ UNCHANGED <<got, ledger>> /\ pc[r] = "commit"
  BY DEF Commit, Goto, Respond
<1>2. account[Pair(r)] \in {None, got[r]} /\ got[r] \in Request
  BY <1>1 DEF RowInv, GotIsStored, TypeOK, Row
<1>3. OneHolds'
  BY <1>1 DEF RowInv, OneHolds, Holds, TypeOK, Pair
<1>4. \A p \in Nid \X Provider : account'[p] = IF p = Pair(r) THEN got[r] ELSE account[p]
  BY <1>1 DEF RowInv, TypeOK
<1>5. PairsKept'
  BY <1>1, <1>2, <1>4 DEF RowInv, PairsKept, Pair
<1>6. NoOrphan'
  <2> SUFFICES ASSUME NEW i \in ledger PROVE account'[Pair(i)] = i
    BY <1>1 DEF NoOrphan, Pair
  <2>1. i \in Request /\ account[Pair(i)] = i
    BY DEF RowInv, NoOrphan, TypeOK
  <2> QED
    BY <1>2, <1>4, <2>1
<1>7. GotIsStored'
  <2> SUFFICES ASSUME NEW q \in Request
               PROVE  /\ pc'[q] = "newaccount" => account'[Pair(q)] = None
                      /\ pc'[q] = "commit" => account'[Pair(q)] \in {None, got[q]}
                      /\ pc'[q] \in {"provision", "adrift"} => account'[Pair(q)] = got[q]
    BY <1>1 DEF GotIsStored, Pair
  <2>1. CASE q = r
    BY <1>1, <1>4, <2>1 DEF RowInv, TypeOK
  <2>2. CASE q # r /\ Pair(q) # Pair(r)
    BY <1>1, <1>4, <2>2 DEF RowInv, TypeOK, GotIsStored
  <2>3. CASE q # r /\ Pair(q) = Pair(r)
    <3>1. pc'[q] = pc[q] /\ ~Holds(q)
      BY <1>1, <2>3 DEF RowInv, TypeOK, OneHolds, Holds
    <3>2. pc[q] \in {"provision", "adrift"} => got[q] # None
      BY DEF RowInv, TypeOK
    <3> QED
      BY <1>2, <1>4, <2>3, <3>1, <3>2 DEF RowInv, GotIsStored, Holds
  <2> QED
    BY <2>1, <2>2, <2>3
<1> QED
  BY <1>3, <1>5, <1>6, <1>7 DEF RowInv

(* An account is made under the id of a committed row.                      *)
LEMMA ProvisionStep ==
  ASSUME RowInv, TypeOK', NEW r \in Request, Provision(r) \/ ProvisionLate(r)
  PROVE  RowInv'
<1> USE PairType, UserAssumption
<1>1. /\ \E l \in {"done", "gone"} : pc' = [pc EXCEPT ![r] = l]
      /\ ledger' \subseteq ledger \cup {got[r]}
      /\ UNCHANGED <<got, account>> /\ pc[r] \in {"provision", "adrift"}
  BY DEF Provision, ProvisionLate, AccountId, Goto, Respond
<1>2. account[Pair(r)] = got[r] /\ got[r] \in Request /\ Pair(got[r]) = Pair(r)
  BY <1>1 DEF RowInv, GotIsStored, PairsKept, TypeOK, Row
<1>3. NoOrphan'
  BY <1>1, <1>2 DEF RowInv, NoOrphan, Pair
<1>4. OneHolds' /\ PairsKept' /\ GotIsStored'
  BY <1>1 DEF RowInv, OneHolds, Holds, PairsKept, GotIsStored, TypeOK, Pair
<1> QED
  BY <1>3, <1>4 DEF RowInv

LEMMA RowStep == RowInv /\ [Next]_vars => RowInv'
<1> SUFFICES ASSUME RowInv, [Next]_vars PROVE RowInv'
  OBVIOUS
<1>1. TypeOK /\ TypeOK'
  BY TypeStep DEF RowInv
<1>2. ASSUME NEW r \in Request,
             Arrive(r) \/ Begin(r) \/ FindUser(r) \/ InsertUser(r) \/ RollBack(r) \/ HangUp(r)
      PROVE  RowInv'
  <2>1. UNCHANGED <<got, account, ledger>>
    BY <1>2 DEF Arrive, Begin, FindUser, InsertUser, RollBack, HangUp
  <2>2. /\ \E l \in {"begin", "user", "newuser", "link", "done", "gone", "adrift"} :
             pc' = [pc EXCEPT ![r] = l]
        /\ pc'[r] = "adrift" => pc[r] = "provision"
    BY <1>1, <1>2 DEF Arrive, Begin, FindUser, InsertUser, RollBack, HangUp, Goto, Respond,
                      TypeOK
  <2> QED
    BY <1>1, <2>1, <2>2, QuietStep DEF TypeOK
<1>3. ASSUME NEW r \in Request,
             Link(r) \/ FindAccount(r) \/ InsertAccount(r) \/ Commit(r) \/ Provision(r)
               \/ ProvisionLate(r)
      PROVE  RowInv'
  BY <1>1, <1>3, LinkStep, FindAccountStep, InsertAccountStep, CommitStep, ProvisionStep
<1>4. CASE Tick \/ UNCHANGED vars
  BY <1>1, <1>4
  DEF Tick, vars, RowInv, OneHolds, Holds, PairsKept, GotIsStored, NoOrphan, Pair
<1> QED
  BY <1>2, <1>3, <1>4 DEF Next

THEOREM RowsHold == Spec => []RowInv
<1>1. Init => RowInv
  BY InitType, UserAssumption
  DEF Init, RowInv, OneHolds, Holds, PairsKept, GotIsStored, NoOrphan, TypeOK
<1> QED
  BY <1>1, RowStep, PTL DEF Spec

(* Every variable of create_user keeps its type, and a request that is past  *)
(* its INSERTs knows the account row it has found or made.                   *)
THEOREM TypesHold == Spec => []TypeOK
<1>1. RowInv => TypeOK
  BY DEF RowInv
<1> QED
  BY <1>1, RowsHold, PTL

(* Two registrations of one user with one provider never race for the       *)
(* account row: the lock of the link orders them.                           *)
THEOREM AccountInsertSafe == Spec => []AccountInsertNeverConflicts
<1>1. RowInv => AccountInsertNeverConflicts
  BY DEF RowInv, GotIsStored, AccountInsertNeverConflicts
<1> QED
  BY <1>1, RowsHold, PTL

(* A ledger account is never left without its row.                          *)
THEOREM LedgerHasRows == Spec => []NoOrphan
<1>1. RowInv => NoOrphan
  BY DEF RowInv
<1> QED
  BY <1>1, RowsHold, PTL

-----------------------------------------------------------------------------
(* The rule of one second.                                                  *)

(* A transaction begins after its request has arrived, by the service's     *)
(* clock at most Skew later than by the database's.                         *)
ArrivedBefore ==
  \A r \in Request :
    /\ pc[r] = "begin" => arrived[r] <= clock + Skew
    /\ pc[r] \in InTransaction => arrived[r] <= began[r] + Skew

(* Only finished requests are answered.                                     *)
AnsweredLast == \A r \in Request : response[r] # "none" => pc[r] = "done"

TimeInv == TypeOK /\ ArrivedBefore /\ AnsweredLast /\ InsertedIsProvisioned

LEMMA OwnRowIsNew ==
  ASSUME Skew <= Tolerance, TimeInv, NEW r \in Request, pc[r] = "commit", got[r] = r
  PROVE  IsNew(r)
<1>1. arrived[r] <= began[r] + Skew
  BY DEF TimeInv, ArrivedBefore, InTransaction
<1>2. arrived[r] \in Nat /\ began[r] \in Nat /\ Skew \in Nat /\ Tolerance \in Nat
  BY UserAssumption DEF TimeInv, TypeOK
<1> QED
  BY <1>1, <1>2 DEF IsNew

(* A step of r that does not tell it "CREATED".                             *)
LEMMA UntoldStep ==
  ASSUME TimeInv, TypeOK', NEW r \in Request, pc[r] # "done",
         \E l : pc' = [pc EXCEPT ![r] = l] /\ l \notin {"begin", "user"},
         pc'[r] \in InTransaction => pc[r] \in InTransaction,
         UNCHANGED <<clock, arrived, began>>,
         ledger \subseteq ledger',
         \A q \in Request \ {r} : got'[q] = got[q],
         \/ UNCHANGED response
         \/ pc'[r] = "done" /\ response' = [response EXCEPT ![r] = "ERROR"]
         \/ /\ pc'[r] = "done" /\ response' = [response EXCEPT ![r] = "CREATED"]
            /\ got'[r] = r => r \in ledger'
  PROVE  TimeInv'
<1>1. \A q \in Request \ {r} : pc'[q] = pc[q] /\ response'[q] = response[q]
  BY DEF TimeInv, TypeOK
<1>2. ArrivedBefore'
  BY <1>1 DEF TimeInv, ArrivedBefore, TypeOK, InTransaction
<1>3. response[r] = "none"
  BY DEF TimeInv, AnsweredLast
<1>4. AnsweredLast' /\ InsertedIsProvisioned'
  BY <1>1, <1>3 DEF TimeInv, AnsweredLast, InsertedIsProvisioned, TypeOK
<1> QED
  BY <1>2, <1>4 DEF TimeInv

LEMMA TimeStep ==
  ASSUME Skew <= Tolerance, TimeInv, [Next]_vars
  PROVE  TimeInv'
<1> USE UserAssumption
<1>1. TypeOK /\ TypeOK'
  BY TypeStep DEF TimeInv
<1>2. ASSUME NEW r \in Request, Arrive(r) PROVE TimeInv'
  <2>1. arrived'[r] <= clock' + Skew /\ pc' = [pc EXCEPT ![r] = "begin"]
    BY <1>1, <1>2 DEF Arrive, Goto, TypeOK
  <2>2. ArrivedBefore'
    BY <1>1, <1>2, <2>1 DEF Arrive, TimeInv, ArrivedBefore, TypeOK, InTransaction
  <2> QED
    BY <1>1, <1>2, <2>1, <2>2 DEF Arrive, Goto, TimeInv, AnsweredLast, InsertedIsProvisioned,
                                  TypeOK
<1>3. ASSUME NEW r \in Request, Begin(r) PROVE TimeInv'
  <2>1. arrived[r] <= began'[r] + Skew /\ pc' = [pc EXCEPT ![r] = "user"]
    BY <1>1, <1>3 DEF Begin, Goto, TypeOK, TimeInv, ArrivedBefore
  <2>2. ArrivedBefore'
    BY <1>1, <1>3, <2>1 DEF Begin, TimeInv, ArrivedBefore, TypeOK, InTransaction
  <2> QED
    BY <1>1, <1>3, <2>1, <2>2 DEF Begin, Goto, TimeInv, AnsweredLast, InsertedIsProvisioned,
                                  TypeOK
<1>4. ASSUME NEW r \in Request, FindUser(r) \/ Link(r) PROVE TimeInv'
  BY <1>1, <1>4, UntoldStep DEF FindUser, Link, Goto, TypeOK, InTransaction
<1>5. ASSUME NEW r \in Request, InsertUser(r) PROVE TimeInv'
  BY <1>1, <1>5, UntoldStep DEF InsertUser, Goto, Respond, TypeOK, InTransaction
<1>6. ASSUME NEW r \in Request, FindAccount(r) PROVE TimeInv'
  BY <1>1, <1>6, UntoldStep DEF FindAccount, Goto, TypeOK, InTransaction
<1>7. ASSUME NEW r \in Request, InsertAccount(r) PROVE TimeInv'
  BY <1>1, <1>7, UntoldStep DEF InsertAccount, Goto, Respond, TypeOK, InTransaction
<1>8. ASSUME NEW r \in Request, Commit(r) PROVE TimeInv'
  <2>1. IsNew(r) \/ got[r] # r
    BY <1>8, OwnRowIsNew DEF Commit
  <2> QED
    BY <1>1, <1>8, <2>1, UntoldStep DEF Commit, Goto, Respond, TypeOK, InTransaction
<1>9. ASSUME NEW r \in Request, Provision(r) PROVE TimeInv'
  BY <1>1, <1>9, UntoldStep DEF Provision, AccountId, Respond, TypeOK, InTransaction
<1>10. ASSUME NEW r \in Request, RollBack(r) \/ HangUp(r) \/ ProvisionLate(r) PROVE TimeInv'
  BY <1>1, <1>10, UntoldStep
  DEF RollBack, HangUp, ProvisionLate, AccountId, Goto, Respond, TypeOK, InTransaction
<1>11. CASE Tick
  <2>1. ArrivedBefore'
    BY <1>1, <1>11 DEF Tick, TimeInv, ArrivedBefore, TypeOK
  <2> QED
    BY <1>1, <1>11, <2>1 DEF Tick, TimeInv, AnsweredLast, InsertedIsProvisioned
<1>12. CASE UNCHANGED vars
  BY <1>1, <1>12 DEF vars, TimeInv, ArrivedBefore, AnsweredLast, InsertedIsProvisioned
<1> QED
  BY <1>2, <1>3, <1>4, <1>5, <1>6, <1>7, <1>8, <1>9, <1>10, <1>11, <1>12 DEF Next

(* As long as the clocks differ by no more than the tolerance, whoever made *)
(* a row and was answered 201 has its ledger account.                       *)
THEOREM InsertedHasAccount ==
  ASSUME Skew <= Tolerance
  PROVE  Spec => []InsertedIsProvisioned
<1>1. Init => TimeInv
  BY InitType DEF Init, TimeInv, ArrivedBefore, AnsweredLast, InsertedIsProvisioned,
                  InTransaction
<1>2. TimeInv /\ [Next]_vars => TimeInv'
  BY TimeStep
<1>3. TimeInv => InsertedIsProvisioned
  BY DEF TimeInv
<1> QED
  BY <1>1, <1>2, <1>3, PTL DEF Spec

-----------------------------------------------------------------------------
(* A registration that is about to insert its user has not done so.          *)
NothingFound == TypeOK /\ \A r \in Request : pc[r] = "newuser" => found[r] = None

LEMMA NothingFoundStep == NothingFound /\ [Next]_vars => NothingFound'
<1> SUFFICES ASSUME NothingFound, [Next]_vars,
                    NEW r \in Request, pc'[r] = "newuser"
             PROVE  found'[r] = None
  BY TypeStep DEF NothingFound
<1>1. CASE pc[r] = "newuser" /\ found'[r] = found[r]
  BY <1>1 DEF NothingFound
<1>2. CASE FindUser(r)
  BY <1>2 DEF FindUser, Missing, Goto, NothingFound, TypeOK
<1> QED
  BY <1>1, <1>2
  DEF Next, vars, NothingFound, TypeOK, Arrive, Begin, FindUser, InsertUser, Link, FindAccount,
      InsertAccount, Commit, Provision, RollBack, HangUp, ProvisionLate, Tick, Goto, Respond

(* The user comes before the link, the link before the account, and the last *)
(* of them waits for nobody.                                                 *)
LEMMA LinkedGoesOn ==
  ASSUME TypeOK, NEW r \in Request, pc[r] \in {"link", "account", "newaccount", "commit"}
  PROVE  \E q \in Request : pc[q] \in InTransaction /\ ~Waits(q)
<1>1. ASSUME NEW q \in Request, pc[q] \in {"account", "newaccount", "commit"}
      PROVE  \E s \in Request : pc[s] \in InTransaction /\ ~Waits(s)
  <2>1. CASE ~Waits(q)
    BY <1>1, <2>1 DEF InTransaction
  <2>2. CASE Waits(q)
    <3>1. PICK s \in Request : pc[s] = "commit"
      BY <1>1, <2>2 DEF Waits, PairFree
    <3> QED
      BY <3>1 DEF Waits, InTransaction
  <2> QED
    BY <2>1, <2>2
<1>2. CASE pc[r] = "link" /\ Waits(r)
  <2>1. PICK q \in Request : pc[q] \in {"account", "newaccount", "commit"}
    BY <1>2 DEF Waits, LinkFree
  <2> QED
    BY <1>1, <2>1
<1>3. CASE pc[r] = "link" /\ ~Waits(r)
  BY <1>3 DEF InTransaction
<1> QED
  BY <1>1, <1>2, <1>3

(* However many registrations of one person overlap in create_or_link_user,  *)
(* by whatever providers, one of the open transactions can go on: the locks  *)
(* are taken in one order.                                                   *)
THEOREM SomebodyGoesOnHolds == Spec => []SomebodyGoesOn
<1>1. Init => NothingFound
  BY InitType DEF Init, NothingFound
<1>2. ASSUME NothingFound, NEW r \in Request, pc[r] \in InTransaction
      PROVE  \E q \in Request : pc[q] \in InTransaction /\ ~Waits(q)
  <2>1. CASE ~Waits(r)
    BY <1>2, <2>1
  <2>2. CASE pc[r] \in {"link", "account", "newaccount", "commit"}
    BY <1>2, <2>2, LinkedGoesOn DEF NothingFound
  <2>3. CASE pc[r] = "newuser" /\ ~NidFree(r)
    <3>1. PICK q \in Request : pc[q] \in InTransaction /\ found[q] = q
      BY <2>3 DEF NidFree
    <3>2. pc[q] # "newuser"
      BY <1>2, <3>1, UserAssumption DEF NothingFound
    <3>3. pc[q] = "user" => ~Waits(q)
      BY DEF Waits
    <3> QED
      BY <1>2, <3>1, <3>2, <3>3, LinkedGoesOn DEF InTransaction, NothingFound
  <2> QED
    BY <1>2, <2>1, <2>2, <2>3 DEF Waits
<1>3. NothingFound => SomebodyGoesOn
  BY <1>2 DEF SomebodyGoesOn
<1> QED
  BY <1>1, <1>3, NothingFoundStep, PTL DEF Spec
=============================================================================
