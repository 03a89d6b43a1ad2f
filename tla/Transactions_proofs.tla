------------------------ MODULE Transactions_proofs ------------------------
(***************************************************************************)
(* Proofs about Transactions: what the table says is what the ledger did,  *)
(* for every set of requests and keys, every amount and every group size.  *)
(*                                                                         *)
(* The chain of the argument: the ledger gives an id to one request for    *)
(* ever (OwnedById); only that request is told "accepted" (TakenAreOwned,  *)
(* ToldAreOwners); so only that request reaches the insert                 *)
(* (RecordersOwn), and it leaves the insert when the row is there          *)
(* (RecordedByOwner).                                                      *)
(***************************************************************************)
EXTENDS Transactions, TLAPS

(* A key belongs to a request that carries it.                             *)
OwnedById ==
  \A i \in Id : PostedBy(i) # Nobody => TargetOf[PostedBy(i)] = i

(* A group whose answer is "accepted" was taken whole.                     *)
TakenAreOwned ==
  flight.verdict = "accepted" => \A r \in flight.members : PostedBy(TargetOf[r]) = r

(* A caller told "accepted" is the one that moved the money.               *)
ToldAreOwners ==
  \A r \in Request : verdict[r] = "accepted" => PostedBy(TargetOf[r]) = r

RecordersOwn ==
  \A a \in Request : pc[a] \in {"inserting", "reading"} => PostedBy(TargetOf[a]) = a

(* A row was written by the owner of its key, which is past its insert.    *)
RecordedByOwner ==
  \A i \in Id : row[i] # NoRow =>
    /\ PostedBy(i) # Nobody
    /\ pc[PostedBy(i)] \in {"reading", "done", "gone"}
    /\ row[i] = RowOf(PostedBy(i))

(* Whoever reads the balance has recorded its transfer.                    *)
ReadersRecorded ==
  \A a \in Request : pc[a] = "reading" => row[TargetOf[a]] = RowOf(a)

IInv ==
  /\ TypeOK
  /\ OwnedById /\ TakenAreOwned /\ ToldAreOwners
  /\ RecordersOwn /\ RecordedByOwner /\ ReadersRecorded
  /\ SuccessIsPosted

-----------------------------------------------------------------------------
(* A stored row says what the request asked for: a wrapped amount is       *)
(* negative and the CHECK of the table refuses it.                         *)
LEMMA RowOfPositive ==
  ASSUME NEW a \in Request, RowOf(a).amount > 0
  PROVE  /\ RowOf(a) \in Row
         /\ RowOf(a) = [type |-> TypeOf[a], amount |-> AmountOf[a]]
<1>1. /\ AmountOf[a] \in 0 .. (2 * MaxSigned + 1) /\ MaxSigned \in Nat
      /\ TypeOf[a] \in {"CREDIT", "DEBIT"}
  BY TransactionsAssumption
<1>2. AsI64(AmountOf[a]) > 0
  BY DEF RowOf
<1>3. AsI64(AmountOf[a]) = AmountOf[a] /\ AmountOf[a] \in 1 .. MaxSigned
  BY <1>1, <1>2 DEF AsI64
<1> QED
  BY <1>1, <1>3 DEF RowOf, Row

LEMMA InitInv == Init => IInv
<1> SUFFICES ASSUME Init PROVE IInv
  OBVIOUS
<1>1. TypeOK
  BY ServiceAssumption
  DEF Init, ServiceInit, TypeOK, ServiceTypeOK, NoFlight, Verdict, Response
<1> QED
  BY <1>1, ServiceAssumption
  DEF Init, ServiceInit, IInv, OwnedById, TakenAreOwned, ToldAreOwners, RecordersOwn,
      RecordedByOwner, ReadersRecorded, SuccessIsPosted, PostedBy, NoFlight, Creates

-----------------------------------------------------------------------------
(* The steps of the service.                                               *)

(* A property of the service part of the invariant, and of the types.      *)
ServiceInv ==
  ServiceTypeOK /\ OwnedById /\ TakenAreOwned /\ ToldAreOwners

(* An owner is never replaced.                                             *)
OwnersStay == \A i \in Id : PostedBy(i) # Nobody => PostedBy(i)' = PostedBy(i)

LEMMA SubmitKeeps ==
  ASSUME ServiceInv, NEW r \in Request, Submit(r)
  PROVE  ServiceInv' /\ OwnersStay
<1>1. ServiceTypeOK'
  BY DEF ServiceInv, ServiceTypeOK, Submit
<1> QED
  BY <1>1 DEF ServiceInv, Submit, OwnedById, TakenAreOwned, ToldAreOwners, PostedBy, OwnersStay

LEMMA AcceptKeeps ==
  ASSUME ServiceInv, NEW r \in Request, Accept(r)
  PROVE  ServiceInv' /\ OwnersStay
<1>1. ServiceTypeOK'
  BY DEF ServiceInv, ServiceTypeOK, Accept
<1> QED
  BY <1>1 DEF ServiceInv, Accept, OwnedById, TakenAreOwned, ToldAreOwners, PostedBy, OwnersStay

LEMMA DropKeeps ==
  ASSUME ServiceInv, NEW r \in Request, Drop(r)
  PROVE  ServiceInv' /\ OwnersStay
<1>1. ServiceTypeOK'
  BY DEF ServiceInv, ServiceTypeOK, Drop
<1> QED
  BY <1>1 DEF ServiceInv, Drop, OwnedById, TakenAreOwned, ToldAreOwners, PostedBy, OwnersStay

LEMMA LoseKeeps ==
  ASSUME ServiceInv, Lose
  PROVE  ServiceInv' /\ OwnersStay
<1>1. ServiceTypeOK'
  BY DEF ServiceInv, ServiceTypeOK, Lose, NoFlight, Verdict
<1>2. TakenAreOwned'
  BY DEF Lose, NoFlight, TakenAreOwned
<1> QED
  BY <1>1, <1>2 DEF ServiceInv, Lose, OwnedById, ToldAreOwners, PostedBy, OwnersStay

LEMMA AnswerKeeps ==
  ASSUME ServiceInv, Answer
  PROVE  ServiceInv' /\ OwnersStay
<1>1. ServiceTypeOK'
  BY DEF ServiceInv, ServiceTypeOK, Answer, NoFlight, Verdict
<1>2. TakenAreOwned'
  BY DEF Answer, NoFlight, TakenAreOwned
<1>3. ToldAreOwners'
  BY DEF ServiceInv, ServiceTypeOK, Answer, TakenAreOwned, ToldAreOwners, PostedBy
<1> QED
  BY <1>1, <1>2, <1>3 DEF ServiceInv, Answer, OwnedById, PostedBy, OwnersStay

(* The members the ledger takes become the owners of their ids, which      *)
(* nobody owned.                                                           *)
LEMMA ExecuteKeeps ==
  ASSUME ServiceInv, NEW G \in SUBSET Request, Execute(G)
  PROVE  ServiceInv' /\ OwnersStay
<1> USE ServiceAssumption, TransactionsAssumption
<1>1. PICK k \in Creates, T \in SUBSET G :
        /\ \A r \in G : KindOf[r] = k
        /\ Takeable(k, T)
        /\ owner' = [owner EXCEPT ![k] = [i \in Id |->
                       IF \E r \in T : TargetOf[r] = i
                       THEN CHOOSE r \in T : TargetOf[r] = i
                       ELSE owner[k][i]]]
        /\ \E v \in {IF T = G THEN "accepted" ELSE "refused", "error"} :
             flight' = [members |-> G, verdict |-> v]
  BY DEF Execute, Creates, Lookups
<1>2. k = "CreateTransfer"
  BY <1>1 DEF Execute
<1>3. \A i \in Id : PostedBy(i)' = IF \E r \in T : TargetOf[r] = i
                                   THEN CHOOSE r \in T : TargetOf[r] = i
                                   ELSE PostedBy(i)
  BY <1>1, <1>2 DEF PostedBy, ServiceInv, ServiceTypeOK
<1>4. \A r \in T : PostedBy(TargetOf[r])' = r
  BY <1>1, <1>3 DEF Takeable
<1>5. \A i \in Id : PostedBy(i)' \in Request \cup {Nobody}
  BY <1>3, <1>2 DEF PostedBy, ServiceInv, ServiceTypeOK, Creates
<1>6. OwnersStay
  BY <1>1, <1>2, <1>3 DEF OwnersStay, Takeable, PostedBy
<1>7. ServiceTypeOK'
  <2>1. owner' \in [Creates -> [Id -> Request \cup {Nobody}]]
    BY <1>1, <1>2, <1>5 DEF PostedBy, ServiceInv, ServiceTypeOK, Creates
  <2>2. flight' \in [members : SUBSET Request, verdict : Verdict]
    BY <1>1 DEF Verdict
  <2> QED
    BY <2>1, <2>2 DEF Execute, ServiceInv, ServiceTypeOK
<1>8. OwnedById'
  BY <1>3 DEF OwnedById, ServiceInv
<1>9. TakenAreOwned'
  BY <1>1, <1>4 DEF TakenAreOwned
<1>10. ToldAreOwners'
  BY <1>6 DEF ToldAreOwners, OwnersStay, ServiceInv, Execute
<1> QED
  BY <1>6, <1>7, <1>8, <1>9, <1>10 DEF ServiceInv

-----------------------------------------------------------------------------
(* A service step that leaves the handlers alone keeps the whole invariant. *)
LEMMA ServiceKeeps ==
  ASSUME IInv, ServiceInv', OwnersStay, UNCHANGED handlerVars
  PROVE  IInv'
<1> USE ServiceAssumption
<1>1. TypeOK'
  BY DEF IInv, TypeOK, ServiceInv, handlerVars
<1>2. \A a \in Request : TargetOf[a] \in Id /\ a # Nobody
  OBVIOUS
<1>3. RecordersOwn'
  BY <1>2 DEF IInv, RecordersOwn, OwnersStay, handlerVars
<1>4. RecordedByOwner'
  BY DEF IInv, RecordedByOwner, OwnersStay, handlerVars, RowOf
<1>5. ReadersRecorded' /\ SuccessIsPosted'
  BY <1>2 DEF IInv, ReadersRecorded, SuccessIsPosted, OwnersStay, handlerVars, RowOf
<1> QED
  BY <1>1, <1>3, <1>4, <1>5 DEF IInv, ServiceInv

(* A handler step that leaves the table alone, tells nobody SUCCESS and     *)
(* takes a request to a place that is neither the insert nor the balance.   *)
LEMMA HandlerKeeps ==
  ASSUME IInv, ServiceInv', OwnersStay, UNCHANGED row,
         pc' \in [Request -> {"new", "checking", "preparing", "calling", "inserting",
                              "reading", "done", "gone"}],
         response' \in [Request -> Response],
         \A a \in Request : /\ pc'[a] \in {"inserting", "reading"} => pc'[a] = pc[a]
                            /\ pc[a] \in {"done", "gone", "reading"}
                                 => pc'[a] \in {"reading", "done", "gone"}
                            /\ response'[a] = "SUCCESS" => response[a] = "SUCCESS"
  PROVE  IInv'
<1> USE ServiceAssumption
<1>1. TypeOK'
  BY DEF IInv, TypeOK, ServiceInv
<1>2. \A a \in Request : TargetOf[a] \in Id /\ a # Nobody
  OBVIOUS
<1>3. RecordersOwn'
  BY <1>2 DEF IInv, RecordersOwn, OwnersStay
<1>4. RecordedByOwner'
  <2>1. \A i \in Id : PostedBy(i) \in Request \cup {Nobody}
    BY DEF IInv, TypeOK, ServiceTypeOK, PostedBy, Creates
  <2> QED
    BY <2>1 DEF IInv, RecordedByOwner, OwnersStay, RowOf
<1>5. ReadersRecorded' /\ SuccessIsPosted'
  BY <1>2 DEF IInv, ReadersRecorded, SuccessIsPosted, OwnersStay, RowOf
<1> QED
  BY <1>1, <1>3, <1>4, <1>5 DEF IInv, ServiceInv

(* The steps of a handler that write nothing and do not pass the ledger.    *)
LEMMA EarlyStep ==
  ASSUME IInv, NEW a \in Request, FetchAccount(a) \/ CheckKey(a) \/ CallLedger(a)
  PROVE  IInv'
<1>1. ServiceInv
  BY DEF IInv, ServiceInv, TypeOK
<1>2. ServiceInv' /\ OwnersStay
  <2>1. CASE UNCHANGED serviceVars
    BY <1>1, <2>1 DEF ServiceInv, ServiceTypeOK, OwnedById, TakenAreOwned,
                      ToldAreOwners, PostedBy, OwnersStay, serviceVars
  <2>2. CASE Submit(a)
    BY <1>1, <2>2, SubmitKeeps
  <2> QED
    BY <2>1, <2>2 DEF FetchAccount, CheckKey, CallLedger
<1>3. /\ pc[a] \notin {"done", "gone", "reading"}
      /\ UNCHANGED row
      /\ \E l \in {"checking", "preparing", "calling", "done"} : pc' = [pc EXCEPT ![a] = l]
      /\ response' = response \/ \E what \in Response \ {"SUCCESS"} :
                                   response' = [response EXCEPT ![a] = what]
  BY DEF FetchAccount, CheckKey, CallLedger, Goto, Reply, Response
<1> QED
  BY <1>2, <1>3, HandlerKeeps DEF IInv, TypeOK

LEMMA TakeResultStep ==
  ASSUME IInv, NEW a \in Request, TakeResult(a)
  PROVE  IInv'
<1> USE ServiceAssumption
<1>1. UNCHANGED <<serviceVars, row>> /\ pc[a] = "calling"
  BY DEF TakeResult
<1>2. ServiceInv' /\ OwnersStay
  BY <1>1 DEF IInv, TypeOK, ServiceInv, ServiceTypeOK, OwnedById, TakenAreOwned,
              ToldAreOwners, PostedBy, OwnersStay, serviceVars
<1>3. CASE Success(a)
  <2>1. pc' = [pc EXCEPT ![a] = "inserting"] /\ UNCHANGED response
    BY <1>3 DEF TakeResult, Goto
  <2>2. PostedBy(TargetOf[a]) = a /\ TargetOf[a] \in Id
    BY <1>3 DEF Success, IInv, ToldAreOwners
  <2>3. \A i \in Id : PostedBy(i)' = PostedBy(i)
    BY <1>1 DEF PostedBy, serviceVars
  <2>4. TypeOK'
    BY <1>1, <1>2, <2>1 DEF IInv, TypeOK, ServiceInv
  <2>5. RecordersOwn'
    BY <2>1, <2>2, <2>3 DEF IInv, TypeOK, RecordersOwn
  <2>6. RecordedByOwner'
    BY <1>1, <2>1, <2>3 DEF IInv, TypeOK, RecordedByOwner, RowOf
  <2>7. ReadersRecorded' /\ SuccessIsPosted'
    BY <1>1, <2>1, <2>3 DEF IInv, TypeOK, ReadersRecorded, SuccessIsPosted, RowOf
  <2> QED
    BY <1>2, <2>4, <2>5, <2>6, <2>7 DEF IInv, ServiceInv
<1>4. CASE ~Success(a)
  <2>1. \E what \in {"ERROR", "BAD_REQUEST"} :
          pc' = [pc EXCEPT ![a] = "done"] /\ response' = [response EXCEPT ![a] = what]
    BY <1>4 DEF TakeResult, Reply
  <2> QED
    BY <1>1, <1>2, <2>1, HandlerKeeps DEF IInv, TypeOK, Response
<1> QED
  BY <1>3, <1>4

(* The owner of a key records its transfer while no other request can be    *)
(* at the insert with the same key.                                         *)
LEMMA InsertStep ==
  ASSUME IInv, NEW a \in Request, Insert(a)
  PROVE  IInv'
<1> USE ServiceAssumption
<1>1. UNCHANGED serviceVars /\ pc[a] = "inserting"
  BY DEF Insert
<1>2. ServiceInv' /\ OwnersStay
  BY <1>1 DEF IInv, TypeOK, ServiceInv, ServiceTypeOK, OwnedById, TakenAreOwned,
              ToldAreOwners, PostedBy, OwnersStay, serviceVars
<1>3. PostedBy(TargetOf[a]) = a /\ TargetOf[a] \in Id /\ a # Nobody
  BY <1>1 DEF IInv, RecordersOwn
<1>4. \A i \in Id : PostedBy(i)' = PostedBy(i)
  BY <1>1 DEF PostedBy, serviceVars
<1>5. CASE UNCHANGED row /\ Reply(a, "ERROR")
  BY <1>1, <1>2, <1>5, HandlerKeeps DEF Reply, IInv, TypeOK, Response
<1>6. CASE /\ Storable(a) /\ row' = [row EXCEPT ![TargetOf[a]] = RowOf(a)]
           /\ Goto(a, "reading") \/ Reply(a, "ERROR")
  <2>1. RowOf(a) \in Row
    BY <1>6, RowOfPositive DEF Storable
  <2>2. /\ \E l \in {"reading", "done"} : pc' = [pc EXCEPT ![a] = l]
        /\ response' = response \/ response' = [response EXCEPT ![a] = "ERROR"]
    BY <1>6 DEF Goto, Reply
  <2>3. TypeOK'
    BY <1>2, <1>6, <2>1, <2>2 DEF IInv, TypeOK, ServiceInv, Response
  <2>4. RecordersOwn'
    BY <1>3, <1>4, <2>2 DEF IInv, TypeOK, RecordersOwn
  <2>5. RecordedByOwner'
    BY <1>3, <1>4, <1>6, <2>2 DEF IInv, TypeOK, RecordedByOwner, RowOf
  <2>6. \A b \in Request : TargetOf[b] = TargetOf[a] /\ b # a
          => pc[b] # "reading" /\ response[b] # "SUCCESS"
    BY <1>3, <1>6 DEF IInv, RecordersOwn, SuccessIsPosted
  <2>7. ReadersRecorded'
    BY <1>3, <1>6, <2>2, <2>6 DEF IInv, TypeOK, ReadersRecorded, RowOf
  <2>8. SuccessIsPosted'
    BY <1>3, <1>4, <1>6, <2>2, <2>6 DEF IInv, TypeOK, SuccessIsPosted, RowOf
  <2> QED
    BY <1>2, <2>3, <2>4, <2>5, <2>7, <2>8 DEF IInv, ServiceInv
<1> QED
  BY <1>5, <1>6 DEF Insert

LEMMA ReadBalanceStep ==
  ASSUME IInv, NEW a \in Request, ReadBalance(a)
  PROVE  IInv'
<1> USE ServiceAssumption
<1>1. UNCHANGED <<serviceVars, row>> /\ pc[a] = "reading"
  BY DEF ReadBalance
<1>2. ServiceInv' /\ OwnersStay
  BY <1>1 DEF IInv, TypeOK, ServiceInv, ServiceTypeOK, OwnedById, TakenAreOwned,
              ToldAreOwners, PostedBy, OwnersStay, serviceVars
<1>3. PostedBy(TargetOf[a]) = a /\ row[TargetOf[a]] = RowOf(a) /\ TargetOf[a] \in Id
  BY <1>1 DEF IInv, RecordersOwn, ReadersRecorded
<1>4. \A i \in Id : PostedBy(i)' = PostedBy(i)
  BY <1>1 DEF PostedBy, serviceVars
<1>5. /\ pc' = [pc EXCEPT ![a] = "done"]
      /\ \E what \in {"SUCCESS", "ERROR"} : response' = [response EXCEPT ![a] = what]
  BY DEF ReadBalance, Reply
<1>6. TypeOK'
  BY <1>1, <1>2, <1>5 DEF IInv, TypeOK, ServiceInv, Response
<1>7. RecordersOwn' /\ ReadersRecorded'
  BY <1>1, <1>4, <1>5 DEF IInv, TypeOK, RecordersOwn, ReadersRecorded, RowOf
<1>8. RecordedByOwner'
  BY <1>1, <1>4, <1>5 DEF IInv, TypeOK, RecordedByOwner, RowOf
<1>9. SuccessIsPosted'
  BY <1>1, <1>3, <1>4, <1>5 DEF IInv, TypeOK, SuccessIsPosted, RowOf
<1> QED
  BY <1>2, <1>6, <1>7, <1>8, <1>9 DEF IInv, ServiceInv

-----------------------------------------------------------------------------
(* Every step of the system keeps the invariant.                            *)
LEMMA NextInv == IInv /\ [Next]_vars => IInv'
<1> SUFFICES ASSUME IInv, [Next]_vars PROVE IInv'
  OBVIOUS
<1>0. ServiceInv
  BY DEF IInv, ServiceInv, TypeOK
<1>1. ASSUME NEW a \in Request, Step(a) PROVE IInv'
  BY <1>1, EarlyStep, TakeResultStep, InsertStep, ReadBalanceStep DEF Step
<1>2. ASSUME NEW a \in Request, HangUp(a) PROVE IInv'
  <2>1. ServiceInv' /\ OwnersStay
    <3>1. CASE Drop(a)
      BY <1>0, <3>1, DropKeeps
    <3>2. CASE UNCHANGED serviceVars
      BY <1>0, <3>2 DEF ServiceInv, ServiceTypeOK, OwnedById, TakenAreOwned,
                        ToldAreOwners, PostedBy, OwnersStay, serviceVars
    <3> QED
      BY <1>2, <3>1, <3>2 DEF HangUp
  <2>2. /\ pc' = [pc EXCEPT ![a] = "gone"] /\ UNCHANGED <<row, response>>
    BY <1>2 DEF HangUp, Goto
  <2> QED
    BY <2>1, <2>2, HandlerKeeps DEF IInv, TypeOK
<1>3. CASE Crash
  <2>1. ServiceInv' /\ OwnersStay
    BY <1>0, <1>3, LoseKeeps DEF Crash
  <2> QED
    BY <1>3, <2>1, HandlerKeeps DEF Crash, Live, IInv, TypeOK
<1>4. CASE ServiceStep
  <2>1. ServiceInv' /\ OwnersStay
    BY <1>0, <1>4, AcceptKeeps, ExecuteKeeps, AnswerKeeps DEF ServiceStep
  <2> QED
    BY <1>4, <2>1, ServiceKeeps DEF ServiceStep
<1>5. CASE UNCHANGED vars
  <2>1. ServiceInv' /\ OwnersStay
    BY <1>0, <1>5 DEF ServiceInv, ServiceTypeOK, OwnedById, TakenAreOwned,
                      ToldAreOwners, PostedBy, OwnersStay, serviceVars, vars
  <2> QED
    BY <1>5, <2>1, ServiceKeeps DEF vars
<1> QED
  BY <1>1, <1>2, <1>3, <1>4, <1>5 DEF Next

(* The inductive invariant, which holds the type invariant.                 *)
THEOREM InvariantHolds == Spec => []IInv
  BY InitInv, NextInv, PTL DEF Spec

(* Every variable of the transaction handlers keeps its type; so the amounts *)
(* of the rows respect the CHECK of the table.                               *)
THEOREM TypesHold == Spec => []TypeOK
<1>1. IInv => TypeOK
  BY DEF IInv
<1> QED
  BY <1>1, InvariantHolds, PTL

(* The table never says what the ledger did not do: no row without its      *)
(* transfer, no other direction, no wrapped amount, whatever fails between  *)
(* the ledger and the database.                                             *)
THEOREM RowsAreTransfers == Spec => []RowMatchesLedger
<1>1. IInv => RowMatchesLedger
  <2> SUFFICES ASSUME IInv, NEW i \in Id, row[i] # NoRow
               PROVE  /\ PostedBy(i) # Nobody
                      /\ row[i] = [type |-> TypeOf[PostedBy(i)],
                                   amount |-> AmountOf[PostedBy(i)]]
    BY DEF RowMatchesLedger
  <2>1. PostedBy(i) \in Request /\ PostedBy(i) # Nobody /\ row[i] = RowOf(PostedBy(i))
    BY DEF IInv, TypeOK, ServiceTypeOK, RecordedByOwner, PostedBy, Creates
  <2>2. row[i].amount > 0
    BY DEF IInv, TypeOK, Row
  <2> QED
    BY <2>1, <2>2, RowOfPositive
<1> QED
  BY <1>1, InvariantHolds, PTL

(* The UNIQUE key of the table is never the one that refuses an insert.     *)
THEOREM KeysNeverConflict == Spec => []InsertNeverConflicts
<1>1. IInv => InsertNeverConflicts
  BY ServiceAssumption DEF IInv, InsertNeverConflicts, RecordersOwn, RecordedByOwner
<1> QED
  BY <1>1, InvariantHolds, PTL

(* SUCCESS is told to the request whose transfer was posted and recorded,   *)
(* so to one request per key at most.                                       *)
THEOREM SuccessHolds == Spec => []SuccessIsPosted
<1>1. IInv => SuccessIsPosted
  BY DEF IInv
<1> QED
  BY <1>1, InvariantHolds, PTL

(* Only the request that posted a key ever writes its row.                  *)
THEOREM OwnersRecord == Spec => OnlyOwnerRecords
<1>1. IInv /\ [Next]_vars =>
        [\A i \in Id : row'[i] # row[i] =>
           \E a \in Request : a = PostedBy(i) /\ pc[a] = "inserting"]_vars
  <2> SUFFICES ASSUME IInv, [Next]_vars, NEW i \in Id, row'[i] # row[i]
               PROVE  \E a \in Request : a = PostedBy(i) /\ pc[a] = "inserting"
    OBVIOUS
  <2>1. row' # row
    OBVIOUS
  <2>2. PICK a \in Request : Insert(a)
    BY <2>1 DEF Next, Step, FetchAccount, CheckKey, CallLedger, TakeResult, ReadBalance,
                HangUp, Crash, ServiceStep, handlerVars, vars
  <2>3. i = TargetOf[a] /\ pc[a] = "inserting"
    BY <2>1, <2>2 DEF Insert, IInv, TypeOK
  <2> QED
    BY <2>3 DEF IInv, RecordersOwn
<1> QED
  BY <1>1, InvariantHolds, PTL DEF Spec, OnlyOwnerRecords

-----------------------------------------------------------------------------
(* What a client was told is final.                                          *)

(* A call is over when its handler goes on: a handler waits only while it is *)
(* at the call, has called only past it, and is answered only when the       *)
(* ledger is done with its transfer.                                         *)
CallInv ==
  /\ \A a \in Request :
       /\ pc[a] \in {"new", "checking", "preparing"} => caller[a] = "idle"
       /\ pc[a] \in {"inserting", "reading", "done"} => caller[a] \in {"idle", "answered"}
       /\ response[a] # "none" => pc[a] = "done"
       /\ caller[a] = "idle" => work[a] = "none"
       /\ caller[a] = "answered" => work[a] = "executed"
  /\ \A a \in flight.members : work[a] = "executed"

LEMMA CallInit == Init => CallInv
  BY DEF Init, ServiceInit, CallInv, NoFlight

LEMMA CallStep == TypeOK /\ CallInv /\ [Next]_vars => CallInv'
<1> SUFFICES ASSUME TypeOK, CallInv, [Next]_vars PROVE CallInv'
  OBVIOUS
<1>1. ASSUME NEW a \in Request, FetchAccount(a) \/ CheckKey(a) \/ ReadBalance(a) PROVE CallInv'
  BY <1>1 DEF FetchAccount, CheckKey, ReadBalance, Goto, Reply, TypeOK, CallInv, serviceVars
<1>2. ASSUME NEW a \in Request, CallLedger(a) PROVE CallInv'
  BY <1>2 DEF CallLedger, Submit, Goto, Reply, TypeOK, ServiceTypeOK, CallInv, serviceVars
<1>3. ASSUME NEW a \in Request, TakeResult(a) \/ Insert(a) PROVE CallInv'
  BY <1>3 DEF TakeResult, Answered, Insert, Goto, Reply, TypeOK, CallInv, serviceVars
<1>4. ASSUME NEW a \in Request, HangUp(a) PROVE CallInv'
  BY <1>4 DEF HangUp, Live, Drop, Goto, TypeOK, ServiceTypeOK, CallInv, serviceVars
<1>5. CASE Crash
  BY <1>5 DEF Crash, Lose, NoFlight, Live, TypeOK, ServiceTypeOK, CallInv
<1>6. CASE ServiceStep
  <2>1. ASSUME NEW a \in Request, Accept(a), UNCHANGED handlerVars PROVE CallInv'
    BY <2>1 DEF Accept, handlerVars, TypeOK, ServiceTypeOK, CallInv
  <2>2. ASSUME NEW G \in SUBSET Request, Execute(G), UNCHANGED handlerVars PROVE CallInv'
    <3>1. /\ flight'.members = G /\ UNCHANGED caller
          /\ work' = [r \in Request |-> IF r \in G THEN "executed" ELSE work[r]]
          /\ \A r \in G : work[r] = "queued"
      BY <2>2 DEF Execute
    <3> QED
      BY <2>2, <3>1 DEF handlerVars, TypeOK, ServiceTypeOK, CallInv
  <2>3. ASSUME Answer, UNCHANGED handlerVars PROVE CallInv'
    <3>1. /\ UNCHANGED work /\ flight'.members = {}
          /\ \A r \in Request : \/ caller'[r] = caller[r]
                                \/ r \in flight.members /\ caller[r] = "waiting"
                                   /\ caller'[r] = "answered"
      BY <2>3 DEF Answer, NoFlight
    <3> QED
      BY <2>3, <3>1 DEF handlerVars, CallInv
  <2> QED
    BY <1>6, <2>1, <2>2, <2>3 DEF ServiceStep
<1>7. CASE UNCHANGED vars
  BY <1>7 DEF vars, serviceVars, handlerVars, CallInv
<1> QED
  BY <1>1, <1>2, <1>3, <1>4, <1>5, <1>6, <1>7 DEF Next, Step

(* After its answer no request posts a transfer: only a queued command is    *)
(* executed, and the command of a client that was answered is not queued.    *)
THEOREM AnsweredIsDecidedHolds == Spec => AnsweredIsDecided
<1> DEFINE NotAfterAnswer ==
             \A a \in Request :
               PostedBy(TargetOf[a]) # a /\ PostedBy(TargetOf[a])' = a => response[a] = "none"
<1>1. IInv /\ CallInv /\ [Next]_vars => [NotAfterAnswer]_vars
  <2> SUFFICES ASSUME IInv, CallInv, Next, NEW a \in Request,
                      PostedBy(TargetOf[a]) # a, PostedBy(TargetOf[a])' = a
               PROVE  response[a] = "none"
    OBVIOUS
  <2> USE ServiceAssumption
  <2>1. owner' # owner
    BY DEF PostedBy
  <2>2. PICK G \in SUBSET Request : Execute(G)
    BY <2>1 DEF Next, Step, FetchAccount, CheckKey, CallLedger, TakeResult, Insert, ReadBalance,
                HangUp, Crash, ServiceStep, serviceVars, Submit, Drop, Lose, Accept, Answer
  <2>3. a \in G
    <3>1. PICK k \in Creates, T \in SUBSET G :
            owner' = [owner EXCEPT ![k] = [i \in Id |->
                        IF \E r \in T : TargetOf[r] = i
                        THEN CHOOSE r \in T : TargetOf[r] = i
                        ELSE owner[k][i]]]
      BY <2>1, <2>2 DEF Execute
    <3>2. \/ PostedBy(TargetOf[a])' = PostedBy(TargetOf[a])
          \/ /\ \E r \in T : TargetOf[r] = TargetOf[a]
             /\ PostedBy(TargetOf[a])' = CHOOSE r \in T : TargetOf[r] = TargetOf[a]
      BY <3>1 DEF PostedBy, IInv, TypeOK, ServiceTypeOK
    <3> QED
      BY <3>2
  <2>4. work[a] = "queued"
    BY <2>2, <2>3 DEF Execute
  <2> QED
    BY <2>4 DEF CallInv
<1>2. IInv => TypeOK
  BY DEF IInv
<1> QED
  BY <1>1, <1>2, CallInit, CallStep, InvariantHolds, PTL DEF Spec, AnsweredIsDecided
=============================================================================
