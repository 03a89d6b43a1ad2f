--------------------------- MODULE TbWorker_proofs ---------------------------
(***************************************************************************)
(* Proofs about TbWorker, for every set of requests, every batch size and  *)
(* every channel capacity: types and bounds, what an answer is worth, and  *)
(* the order in which commands reach the ledger.                           *)
(***************************************************************************)
EXTENDS TbWorker, TLAPS

(* What Restart and Exit leave of the worker is well typed.                  *)
LEMMA EmptyType == Empty \in [Kind -> Seq(Request)]
  BY DEF Empty

LEMMA InitType == Init => TypeOK
  BY EmptyType, WorkerAssumption DEF Init, TypeOK

(* Every action keeps every variable in its type.                            *)
LEMMA TypeStep == TypeOK /\ [Next]_vars => TypeOK'
<1> SUFFICES ASSUME TypeOK, [Next]_vars PROVE TypeOK'
  OBVIOUS
<1> USE WorkerAssumption
<1>1. ASSUME NEW r \in Request, Submit(r) PROVE TypeOK'
  BY <1>1 DEF TypeOK, Submit, workerVars
<1>2. ASSUME NEW r \in Request, Enqueue(r) PROVE TypeOK'
  BY <1>2 DEF TypeOK, Enqueue, HasSlot
<1>3. ASSUME NEW r \in Request, Cancel(r) PROVE TypeOK'
  BY <1>3 DEF TypeOK, Cancel, workerVars
<1>4. CASE Receive
  <2>1. Head(channel) \in Request /\ Tail(channel) \in Seq(Request)
    BY <1>4 DEF TypeOK, Receive
  <2>2. KindOf[Head(channel)] \in Kind
    BY <2>1
  <2>3. /\ batch' \in [Kind -> Seq(Request)]
        /\ responders' \in [Kind -> Seq(Request)]
    BY <1>4, <2>1, <2>2 DEF TypeOK, Receive, Collected
  <2>4. todo' \in SUBSET Kind
    BY <1>4, <2>2 DEF Receive
  <2> QED
    BY <1>4, <2>1, <2>3, <2>4 DEF TypeOK, Receive
<1>5. CASE Tick
  BY <1>5 DEF TypeOK, Tick, Pending, Kind
<1>6. ASSUME NEW k \in Kind, Execute(k) PROVE TypeOK'
  <2>1. batch[k] \in Seq(Request) /\ Positions(k) \in SUBSET Nat
    BY DEF TypeOK, Positions
  <2>2. \A i \in Positions(k) : batch[k][i] \in Request /\ TargetAt(k, i) \in Id
    BY <2>1 DEF Positions, TargetAt
  <2>3. Failed \in Reply
    BY DEF Failed, Reply
  <2>4. executed' \in Seq(Request)
    BY <1>6, <2>1 DEF TypeOK, Execute
  <2>5. CASE k \in Creates
    <3>1. PICK A \in SUBSET Positions(k) :
            /\ ledger' = LedgerWith(k, A)
            /\ result' \in {Outcome(Positions(k) \ A, {}), Failed}
      BY <1>6, <2>5 DEF Execute
    <3>2. Outcome(Positions(k) \ A, {}) \in Reply
      BY <2>1 DEF Outcome, Reply
    <3>3. \A d \in Id : (IF \E i \in A : TargetAt(k, i) = d
                         THEN batch[k][CHOOSE i \in A : TargetAt(k, i) = d]
                         ELSE ledger[k][d]) \in Request \cup {Nobody}
      BY <2>2, <2>5 DEF TypeOK
    <3>4. ledger' \in [Creates -> [Id -> Request \cup {Nobody}]]
      BY <3>1, <3>3 DEF TypeOK, LedgerWith
    <3> QED
      BY <1>6, <2>3, <2>4, <3>1, <3>2, <3>4 DEF TypeOK, Execute
  <2>6. CASE k \notin Creates
    <3>1. Found(k) \in SUBSET (Nat \X Id)
      BY <2>1, <2>2 DEF Found
    <3>2. Outcome({}, Found(k)) \in Reply
      BY <3>1 DEF Outcome, Reply
    <3> QED
      BY <1>6, <2>3, <2>4, <2>6, <3>2 DEF TypeOK, Execute
  <2> QED
    BY <2>5, <2>6
<1>7. ASSUME NEW k \in Kind, Respond(k) PROVE TypeOK'
  <2>1. result \in Reply
    BY <1>7 DEF TypeOK, Respond
  <2>2. /\ batch' \in [Kind -> Seq(Request)]
        /\ responders' \in [Kind -> Seq(Request)]
    BY <1>7 DEF TypeOK, Respond, Cleared
  <2> QED
    BY <1>7, <2>1, <2>2 DEF TypeOK, Respond
<1>8. CASE Close
  BY <1>8 DEF TypeOK, Close, workerVars
<1>9. CASE Exit
  BY <1>9, EmptyType DEF TypeOK, Exit, MemoryLost
<1>10. CASE Restart
  BY <1>10, EmptyType DEF TypeOK, Restart, MemoryLost
<1>11. CASE UNCHANGED vars
  BY <1>11 DEF TypeOK, vars
<1> QED
  BY <1>1, <1>2, <1>3, <1>4, <1>5, <1>6, <1>7, <1>8, <1>9, <1>10, <1>11 DEF Next

(* Type correctness of the client and the worker.                            *)
THEOREM TypeCorrect == Spec => []TypeOK
  BY InitType, TypeStep, PTL DEF Spec

-----------------------------------------------------------------------------
(* BatchBound is inductive once it says, of a worker that is processing,     *)
(* that only the buffers being processed may be full.                        *)

RoomLeft ==
  \A k \in Kind : /\ Len(batch[k]) <= Limit(k)
                  /\ k \notin todo => Len(batch[k]) < Limit(k)

LEMMA LimitPositive == \A k \in Kind : Limit(k) \in Nat /\ Limit(k) > 0
  BY WorkerAssumption DEF Limit

LEMMA EmptyHasRoom == \A k \in Kind : Len(Empty[k]) < Limit(k)
  BY LimitPositive DEF Empty

(* A command joins a buffer that has room; a buffer that is full is taken    *)
(* up at once, or by a tick, and nothing joins it until it is cleared.       *)
LEMMA RoomStep == TypeOK /\ RoomLeft /\ [Next]_vars => RoomLeft'
<1> SUFFICES ASSUME TypeOK, RoomLeft, [Next]_vars PROVE RoomLeft'
  OBVIOUS
<1> USE WorkerAssumption, LimitPositive
<1>1. ASSUME UNCHANGED <<batch, todo>> PROVE RoomLeft'
  BY <1>1 DEF RoomLeft, Limit
<1>2. ASSUME NEW r \in Request, Submit(r) \/ Enqueue(r) \/ Cancel(r) PROVE RoomLeft'
  BY <1>1, <1>2 DEF Submit, Enqueue, Cancel, workerVars
<1>3. CASE Receive
  <2> DEFINE r == Head(channel)
             k == KindOf[r]
  <2>1. r \in Request /\ k \in Kind
    BY <1>3 DEF TypeOK, Receive
  <2>2. batch[k] \in Seq(Request) /\ Len(batch[k]) < Limit(k)
    BY <1>3, <2>1 DEF TypeOK, RoomLeft, Receive, Selecting
  <2>3. batch' = [batch EXCEPT ![k] = Append(@, r)]
    BY <1>3 DEF Receive, Collected
  <2>4. Len(batch'[k]) = Len(batch[k]) + 1
    BY <2>1, <2>2, <2>3 DEF TypeOK
  <2>5. \A j \in Kind \ {k} : batch'[j] = batch[j] /\ Len(batch[j]) < Limit(j)
    BY <1>3, <2>3 DEF TypeOK, RoomLeft, Receive, Selecting
  <2>6. todo' = IF Len(batch[k]) + 1 >= Limit(k) THEN {k} ELSE {}
    BY <1>3 DEF Receive, Full
  <2>7. Len(batch[k]) \in Nat /\ \A j \in Kind : Limit(j)' = Limit(j)
    BY <2>2 DEF Limit
  <2>8. Len(batch'[k]) <= Limit(k) /\ (k \notin todo' => Len(batch'[k]) < Limit(k))
    BY <2>1, <2>2, <2>4, <2>6, <2>7
  <2>9. \A j \in Kind \ {k} : Len(batch'[j]) < Limit(j) /\ Len(batch[j]) \in Nat
    BY <2>5 DEF TypeOK
  <2> QED
    BY <2>1, <2>7, <2>8, <2>9, <2>5 DEF RoomLeft
<1>4. CASE Tick
  <2>1. batch' = batch /\ todo = {}
    BY <1>4 DEF Tick, Selecting
  <2> QED
    BY <2>1 DEF RoomLeft, Limit
<1>5. ASSUME NEW k \in Kind, Execute(k) PROVE RoomLeft'
  BY <1>1, <1>5 DEF Execute
<1>6. ASSUME NEW k \in Kind, Respond(k) PROVE RoomLeft'
  <2>1. batch' = [batch EXCEPT ![k] = <<>>] /\ todo' = todo \ {k}
    BY <1>6 DEF Respond, Cleared
  <2>2. Len(batch'[k]) = 0
    BY <2>1 DEF TypeOK
  <2>3. \A j \in Kind \ {k} : batch'[j] = batch[j] /\ (j \in todo' <=> j \in todo)
    BY <2>1 DEF TypeOK
  <2> QED
    BY <2>2, <2>3 DEF RoomLeft, Limit
<1>7. CASE Close
  BY <1>1, <1>7 DEF Close, workerVars
<1>8. CASE Exit \/ Restart
  <2>1. batch' = Empty
    BY <1>8 DEF Exit, Restart, MemoryLost
  <2>2. \A k \in Kind : Len(Empty[k]) = 0
    BY DEF Empty
  <2> QED
    BY <2>1, <2>2 DEF RoomLeft, Limit
<1>9. CASE UNCHANGED vars
  BY <1>1, <1>9 DEF vars
<1> QED
  BY <1>2, <1>3, <1>4, <1>5, <1>6, <1>7, <1>8, <1>9 DEF Next

(* The ledger never gets more than BatchMaxSize commands in one call, and    *)
(* select! always has room for the command it is about to receive.           *)
THEOREM BatchesBounded == Spec => []BatchBound
<1>1. Init => RoomLeft
  BY EmptyHasRoom, LimitPositive DEF Init, RoomLeft, Empty
<1>2. TypeOK /\ RoomLeft => BatchBound
  BY DEF RoomLeft, BatchBound
<1> QED
  BY <1>1, <1>2, InitType, TypeStep, RoomStep, PTL DEF Spec

-----------------------------------------------------------------------------
(* AcceptedOwns.  Between the call to the ledger and the answers, what the   *)
(* callers are about to be told must already be true of every one of them:   *)
(* the oneshots are those of the commands in the batch, all of one kind, and *)
(* a result that came back empty means that each of them owns its id.        *)

Aligned == responders = batch

KindsApart == \A k \in Kind : \A i \in DOMAIN batch[k] : KindOf[batch[k][i]] = k

ResultInProcess == result # NoReply => todo # {}

EmptyMeansTaken ==
  result # NoReply /\ result.ok /\ result.rejected = {}
    => \A k \in Creates : Current(k) =>
         \A i \in DOMAIN batch[k] : ledger[k][TargetAt(k, i)] = batch[k][i]

AnswerInv ==
  Aligned /\ KindsApart /\ ResultInProcess /\ EmptyMeansTaken /\ AcceptedOwns

(* At most one creation kind is being processed.                             *)
LEMMA CurrentUnique ==
  ASSUME NEW k \in Creates, NEW j \in Kind, todo \in SUBSET Kind, Current(k), Current(j)
  PROVE  j = k
<1>1. FlushRank[k] = FlushRank[j]
  <2>1. \A m \in Kind : FlushRank[m] \in Nat
    BY DEF FlushRank
  <2> QED
    BY <2>1 DEF Current, Kind, Batched
<1> QED
  BY <1>1 DEF FlushRank, Kind, Batched, Creates, BatchedLookups, DirectLookups

(* An id that has an owner keeps it, whatever the ledger takes.              *)
LEMMA OwnersStay ==
  ASSUME NEW k \in Creates, NEW A \in SUBSET Positions(k), Acceptable(k, A), TypeOK,
         NEW j \in Creates, NEW d \in Id, ledger[j][d] # Nobody
  PROVE  LedgerWith(k, A)[j][d] = ledger[j][d]
<1>1. j # k => LedgerWith(k, A)[j] = ledger[j]
  BY DEF TypeOK, LedgerWith
<1>2. j = k => \A i \in A : TargetAt(k, i) # d
  BY DEF Acceptable
<1>3. j = k => LedgerWith(k, A)[j][d] = ledger[j][d]
  BY <1>2 DEF TypeOK, LedgerWith
<1> QED
  BY <1>1, <1>3

(* What the ledger takes is owned by the command that named it.              *)
LEMMA TakenAreOwned ==
  ASSUME NEW k \in Creates, NEW A \in SUBSET Positions(k), Acceptable(k, A), TypeOK,
         NEW i \in A
  PROVE  LedgerWith(k, A)[k][TargetAt(k, i)] = batch[k][i]
<1> DEFINE d == TargetAt(k, i)
<1>1. k \in Kind /\ batch[k] \in Seq(Request)
  BY DEF TypeOK, Kind, Batched
<1>2. d \in Id
  BY <1>1, WorkerAssumption DEF TargetAt, Positions
<1>3. (CHOOSE n \in A : TargetAt(k, n) = d) = i
  BY DEF Acceptable
<1> QED
  BY <1>2, <1>3 DEF TypeOK, LedgerWith

(* Steps that touch neither what the worker holds nor what was answered.     *)
LEMMA AnswerUntouched ==
  AnswerInv /\ UNCHANGED <<batch, responders, todo, result, ledger, reply>> => AnswerInv'
  BY DEF AnswerInv, Aligned, KindsApart, ResultInProcess, EmptyMeansTaken, AcceptedOwns,
         Accepted, Current, TargetAt

(* While the worker is in select! there is no result to answer with, so      *)
(* collecting a command and a tick leave nothing to be false.                *)
LEMMA AnswerSelecting ==
  TypeOK /\ AnswerInv /\ (Receive \/ Tick) => AnswerInv'
<1> SUFFICES ASSUME TypeOK, AnswerInv, Receive \/ Tick PROVE AnswerInv'
  OBVIOUS
<1>1. result = NoReply /\ result' = NoReply
  BY DEF AnswerInv, ResultInProcess, Receive, Tick, Selecting
<1>2. ResultInProcess' /\ EmptyMeansTaken'
  BY <1>1 DEF ResultInProcess, EmptyMeansTaken
<1>3. AcceptedOwns'
  BY DEF AnswerInv, AcceptedOwns, Accepted, Receive, Tick
<1>4. CASE Tick
  BY <1>2, <1>3, <1>4 DEF AnswerInv, Aligned, KindsApart, Tick
<1>5. CASE Receive
  <2> DEFINE r == Head(channel)
             k == KindOf[r]
  <2>1. r \in Request /\ k \in Kind
    BY <1>5, WorkerAssumption DEF TypeOK, Receive
  <2>2. /\ batch' = [batch EXCEPT ![k] = Append(@, r)]
        /\ responders' = [responders EXCEPT ![k] = Append(@, r)]
    BY <1>5 DEF Receive, Collected
  <2>3. Aligned'
    BY <2>2 DEF AnswerInv, Aligned
  <2>4. KindsApart'
    <3> SUFFICES ASSUME NEW j \in Kind, NEW i \in DOMAIN batch'[j]
                 PROVE  KindOf[batch'[j][i]] = j
      BY DEF KindsApart
    <3>1. CASE j # k
      BY <2>1, <2>2, <3>1 DEF TypeOK, AnswerInv, KindsApart
    <3>2. CASE j = k
      <4>1. batch[k] \in Seq(Request) /\ batch'[k] = Append(batch[k], r)
        BY <2>1, <2>2 DEF TypeOK
      <4>2. CASE i \in DOMAIN batch[k]
        BY <2>1, <3>2, <4>1, <4>2 DEF AnswerInv, KindsApart
      <4>3. CASE i = Len(batch[k]) + 1
        BY <3>2, <4>1, <4>3
      <4> QED
        BY <3>2, <4>1, <4>2, <4>3
    <3> QED
      BY <3>1, <3>2
  <2> QED
    BY <1>2, <1>3, <2>3, <2>4 DEF AnswerInv
<1> QED
  BY <1>4, <1>5

(* The call to the ledger.  An empty result means A is all of the batch.     *)
LEMMA AnswerExecute ==
  ASSUME NEW k \in Kind, TypeOK, AnswerInv, Execute(k) PROVE AnswerInv'
<1>1. UNCHANGED <<batch, responders, todo, reply>> /\ Current(k)
  BY DEF Execute
<1>2. Aligned' /\ KindsApart' /\ ResultInProcess'
  BY <1>1 DEF AnswerInv, Aligned, KindsApart, ResultInProcess, Current
<1>3. CASE k \in Creates
  <2>1. PICK A \in SUBSET Positions(k) :
          /\ Acceptable(k, A)
          /\ ledger' = LedgerWith(k, A)
          /\ result' \in {Outcome(Positions(k) \ A, {}), Failed}
    BY <1>3 DEF Execute
  <2>2. EmptyMeansTaken'
    <3> SUFFICES ASSUME result'.ok, result'.rejected = {},
                        NEW j \in Creates, Current(j)', NEW i \in DOMAIN batch'[j]
                 PROVE  ledger'[j][TargetAt(j, i)'] = batch'[j][i]
      BY DEF EmptyMeansTaken
    <3>1. result' = Outcome(Positions(k) \ A, {})
      BY <2>1 DEF Failed
    <3>2. A = Positions(k)
      BY <3>1 DEF Outcome
    <3>3. Current(j)
      BY <1>1 DEF Current
    <3>4. j = k
      BY <1>1, <3>3, CurrentUnique DEF TypeOK
    <3>5. i \in A /\ TargetAt(j, i)' = TargetAt(k, i) /\ batch'[j] = batch[k]
      BY <1>1, <3>2, <3>4 DEF Positions, TargetAt
    <3> QED
      BY <1>3, <2>1, <3>4, <3>5, TakenAreOwned
  <2>3. AcceptedOwns'
    <3> SUFFICES ASSUME NEW r \in Request, KindOf[r] \in Creates, Accepted(r)'
                 PROVE  ledger'[KindOf[r]][TargetOf[r]] = r
      BY DEF AcceptedOwns
    <3>1. ledger[KindOf[r]][TargetOf[r]] = r
      BY <1>1 DEF AnswerInv, AcceptedOwns, Accepted
    <3>2. TargetOf[r] \in Id /\ r # Nobody
      BY WorkerAssumption
    <3> QED
      BY <1>3, <2>1, <3>1, <3>2, OwnersStay
  <2> QED
    BY <1>2, <2>2, <2>3 DEF AnswerInv
<1>4. CASE k \notin Creates
  <2>1. ledger' = ledger
    BY <1>4 DEF Execute
  <2>2. AcceptedOwns'
    BY <1>1, <2>1 DEF AnswerInv, AcceptedOwns, Accepted
  <2>3. \A j \in Creates : ~Current(j)'
    <3> SUFFICES ASSUME NEW j \in Creates, Current(j) PROVE FALSE
      BY <1>1 DEF Current
    <3> QED
      BY <1>1, <1>4, CurrentUnique DEF TypeOK
  <2> QED
    BY <1>2, <2>2, <2>3 DEF AnswerInv, EmptyMeansTaken
<1> QED
  BY <1>3, <1>4

(* The answers.  Those told are callers of the batch, hence owners of their  *)
(* ids if the result is empty.                                               *)
LEMMA AnswerRespond ==
  ASSUME NEW k \in Kind, TypeOK, AnswerInv, Respond(k) PROVE AnswerInv'
<1>1. /\ batch' = [batch EXCEPT ![k] = <<>>]
      /\ responders' = [responders EXCEPT ![k] = <<>>]
      /\ reply' = [r \in Request |-> IF r \in Told(k) THEN result ELSE reply[r]]
      /\ result # NoReply /\ result' = NoReply
      /\ ledger' = ledger /\ Current(k)
  BY DEF Respond, Cleared
<1>2. Aligned' /\ ResultInProcess' /\ EmptyMeansTaken'
  BY <1>1 DEF AnswerInv, Aligned, ResultInProcess, EmptyMeansTaken
<1>3. KindsApart'
  <2> SUFFICES ASSUME NEW j \in Kind, NEW i \in DOMAIN batch'[j]
               PROVE  KindOf[batch'[j][i]] = j
    BY DEF KindsApart
  <2>1. j # k
    BY <1>1 DEF TypeOK
  <2> QED
    BY <1>1, <2>1 DEF TypeOK, AnswerInv, KindsApart
<1>4. AcceptedOwns'
  <2> SUFFICES ASSUME NEW r \in Request, KindOf[r] \in Creates, Accepted(r)'
               PROVE  ledger[KindOf[r]][TargetOf[r]] = r
    BY <1>1 DEF AcceptedOwns
  <2>1. CASE r \in Told(k)
    <3>1. PICK i \in DOMAIN batch[k] : r = batch[k][i]
      BY <2>1 DEF Told, Elements, AnswerInv, Aligned
    <3>2. KindOf[r] = k
      BY <3>1 DEF AnswerInv, KindsApart
    <3>3. reply'[r] = result
      BY <1>1, <2>1
    <3>4. result.ok /\ result.rejected = {}
      BY <3>3 DEF Accepted
    <3> QED
      BY <1>1, <3>1, <3>2, <3>4 DEF AnswerInv, EmptyMeansTaken, TargetAt
  <2>2. CASE r \notin Told(k)
    BY <1>1, <2>2 DEF AnswerInv, AcceptedOwns, Accepted
  <2> QED
    BY <2>1, <2>2
<1> QED
  BY <1>2, <1>3, <1>4 DEF AnswerInv

(* A process that stops forgets its batches and results, not the ledger.     *)
LEMMA AnswerStopped ==
  AnswerInv /\ (Exit \/ Restart) => AnswerInv'
<1> SUFFICES ASSUME AnswerInv, Exit \/ Restart PROVE AnswerInv'
  OBVIOUS
<1>1. /\ batch' = Empty /\ responders' = Empty /\ result' = NoReply
      /\ ledger' = ledger /\ reply' = reply
  BY DEF Exit, Restart, MemoryLost
<1>2. KindsApart'
  BY <1>1 DEF KindsApart, Empty
<1> QED
  BY <1>1, <1>2 DEF AnswerInv, Aligned, ResultInProcess, EmptyMeansTaken, AcceptedOwns,
                    Accepted

LEMMA AnswerStep == TypeOK /\ AnswerInv /\ [Next]_vars => AnswerInv'
<1> SUFFICES ASSUME TypeOK, AnswerInv, [Next]_vars PROVE AnswerInv'
  OBVIOUS
<1>1. ASSUME NEW r \in Request, Submit(r) \/ Enqueue(r) \/ Cancel(r) PROVE AnswerInv'
  BY <1>1, AnswerUntouched DEF Submit, Enqueue, Cancel, workerVars
<1>2. CASE Receive \/ Tick
  BY <1>2, AnswerSelecting
<1>3. ASSUME NEW k \in Kind, Execute(k) \/ Respond(k) PROVE AnswerInv'
  BY <1>3, AnswerExecute, AnswerRespond
<1>4. CASE Close
  BY <1>4, AnswerUntouched DEF Close, workerVars
<1>5. CASE Exit \/ Restart
  BY <1>5, AnswerStopped
<1>6. CASE UNCHANGED vars
  BY <1>6, AnswerUntouched DEF vars
<1> QED
  BY <1>1, <1>2, <1>3, <1>4, <1>5, <1>6 DEF Next

(* An empty answer to a create call is never wrong: the caller's own request *)
(* is the one that created the id.                                           *)
THEOREM AcceptedAreOwners == Spec => []AcceptedOwns
<1>1. Init => AnswerInv
  BY DEF Init, AnswerInv, Aligned, KindsApart, ResultInProcess,
                   EmptyMeansTaken, AcceptedOwns, Accepted, Empty
<1>2. AnswerInv => AcceptedOwns
  BY DEF AnswerInv
<1> QED
  BY <1>1, <1>2, InitType, TypeStep, AnswerStep, PTL DEF Spec

-----------------------------------------------------------------------------
(* Order.  A command moves from the channel to the buffer of its kind and    *)
(* from there to the ledger.  Commands of one kind are in the order of       *)
(* "sent" within each of the three, and those further on come before those   *)
(* behind.  As nothing comes before itself, no command is in two places, or  *)
(* twice in one.                                                             *)

(* The order in which a sequence like "sent" has two commands.               *)
Before(o, r, q) == \A m, n \in DOMAIN o : o[m] = r /\ o[n] = q => m < n

Sorted(o, s) ==
  \A i, j \in DOMAIN s : i < j /\ KindOf[s[i]] = KindOf[s[j]] => Before(o, s[i], s[j])

Precede(o, R, Q) == \A r \in R, q \in Q : KindOf[r] = KindOf[q] => Before(o, r, q)

(* The batch that is being processed has been executed already, and waits    *)
(* only for its answers.                                                     *)
InFlight(k) == result # NoReply /\ Current(k)

SentKnown ==
  \A r \in Elements(sent) : r \in Request /\ status[r] \notin {"idle", "sending"}

AllSent ==
  /\ Elements(channel) \subseteq Elements(sent)
  /\ \A k \in Kind : Elements(batch[k]) \subseteq Elements(sent)
  /\ Elements(executed) \subseteq Elements(sent)

(* A tick takes up batched kinds only, and each has a rank of its own.       *)
TodoRanked == todo \subseteq Batched \/ \E k \in Kind : todo = {k}

InOrder ==
  /\ Sorted(sent, channel) /\ Sorted(sent, executed)
  /\ Precede(sent, Elements(executed), Elements(channel))
  /\ \A k \in Kind :
       /\ Sorted(sent, batch[k])
       /\ Precede(sent, Elements(batch[k]), Elements(channel))
       /\ ~InFlight(k) => Precede(sent, Elements(executed), Elements(batch[k]))

OrderInv == SentKnown /\ AllSent /\ TodoRanked /\ InOrder

-----------------------------------------------------------------------------
(* Sequences. *)

LEMMA ElementsOfAppend ==
  ASSUME NEW S, NEW s \in Seq(S), NEW r \in S
  PROVE  Elements(Append(s, r)) = Elements(s) \cup {r}
<1>1. \A i \in DOMAIN s : Append(s, r)[i] = s[i] /\ i \in DOMAIN Append(s, r)
  OBVIOUS
<1>2. Append(s, r)[Len(s) + 1] = r /\ Len(s) + 1 \in DOMAIN Append(s, r)
  OBVIOUS
<1>3. \A i \in DOMAIN Append(s, r) : i \in DOMAIN s \/ i = Len(s) + 1
  OBVIOUS
<1> QED
  BY <1>1, <1>2, <1>3 DEF Elements

LEMMA ElementsOfTail ==
  ASSUME NEW S, NEW s \in Seq(S), s # <<>>
  PROVE  /\ Head(s) \in Elements(s) /\ Elements(Tail(s)) \subseteq Elements(s)
         /\ \A i \in DOMAIN Tail(s) : i + 1 \in DOMAIN s /\ Tail(s)[i] = s[i + 1]
<1>1. \A i \in DOMAIN Tail(s) : i + 1 \in DOMAIN s /\ Tail(s)[i] = s[i + 1]
  OBVIOUS
<1>2. 1 \in DOMAIN s /\ Head(s) = s[1]
  OBVIOUS
<1> QED
  BY <1>1, <1>2 DEF Elements

LEMMA ElementsOfConcat ==
  ASSUME NEW S, NEW s \in Seq(S), NEW t \in Seq(S)
  PROVE  /\ Elements(s \o t) = Elements(s) \cup Elements(t)
         /\ \A i \in DOMAIN (s \o t) :
              \/ i \in DOMAIN s /\ (s \o t)[i] = s[i]
              \/ i - Len(s) \in DOMAIN t /\ (s \o t)[i] = t[i - Len(s)] /\ i > Len(s)
<1>1. \A i \in DOMAIN (s \o t) :
        \/ i \in DOMAIN s /\ (s \o t)[i] = s[i]
        \/ i - Len(s) \in DOMAIN t /\ (s \o t)[i] = t[i - Len(s)] /\ i > Len(s)
  OBVIOUS
<1>2. \A i \in DOMAIN s : i \in DOMAIN (s \o t) /\ (s \o t)[i] = s[i]
  OBVIOUS
<1>3. \A i \in DOMAIN t : i + Len(s) \in DOMAIN (s \o t) /\ (s \o t)[i + Len(s)] = t[i]
  OBVIOUS
<1> DEFINE u == s \o t
<1> HIDE DEF u
<1>4. Elements(u) \subseteq Elements(s) \cup Elements(t)
  BY <1>1 DEF Elements, u
<1>5. Elements(s) \subseteq Elements(u) /\ Elements(t) \subseteq Elements(u)
  <2>1. \A i \in DOMAIN s : s[i] \in Elements(u)
    BY <1>2 DEF Elements, u
  <2>2. \A i \in DOMAIN t : t[i] \in Elements(u)
    BY <1>3 DEF Elements, u
  <2> QED
    BY <2>1, <2>2 DEF Elements
<1> QED
  BY <1>1, <1>4, <1>5 DEF u

LEMMA SortedAppend ==
  ASSUME NEW o, NEW s \in Seq(Request), NEW r \in Request, Sorted(o, s), Precede(o, Elements(s), {r})
  PROVE  Sorted(o, Append(s, r))
<1> SUFFICES ASSUME NEW i \in DOMAIN Append(s, r), NEW j \in DOMAIN Append(s, r), i < j,
                    KindOf[Append(s, r)[i]] = KindOf[Append(s, r)[j]]
             PROVE  Before(o, Append(s, r)[i], Append(s, r)[j])
  BY DEF Sorted
<1>1. i \in DOMAIN s /\ Append(s, r)[i] = s[i] /\ s[i] \in Elements(s)
  BY DEF Elements
<1>2. CASE j \in DOMAIN s
  BY <1>1, <1>2 DEF Sorted
<1>3. CASE j = Len(s) + 1
  BY <1>1, <1>3 DEF Precede
<1> QED
  BY <1>2, <1>3

LEMMA SortedConcat ==
  ASSUME NEW o, NEW s \in Seq(Request), NEW t \in Seq(Request), Sorted(o, s), Sorted(o, t),
         Precede(o, Elements(s), Elements(t))
  PROVE  Sorted(o, s \o t)
<1> DEFINE u == s \o t
<1> SUFFICES ASSUME NEW i \in DOMAIN u, NEW j \in DOMAIN u, i < j, KindOf[u[i]] = KindOf[u[j]]
             PROVE  Before(o, u[i], u[j])
  BY DEF Sorted
<1>1. /\ \/ i \in DOMAIN s /\ u[i] = s[i]
         \/ i - Len(s) \in DOMAIN t /\ u[i] = t[i - Len(s)] /\ i > Len(s)
      /\ \/ j \in DOMAIN s /\ u[j] = s[j]
         \/ j - Len(s) \in DOMAIN t /\ u[j] = t[j - Len(s)] /\ j > Len(s)
  BY ElementsOfConcat
<1> HIDE DEF u
<1>2. CASE i \in DOMAIN s /\ u[i] = s[i] /\ j \in DOMAIN s /\ u[j] = s[j]
  BY <1>2 DEF Sorted
<1>3. CASE /\ i \in DOMAIN s /\ u[i] = s[i]
           /\ j - Len(s) \in DOMAIN t /\ u[j] = t[j - Len(s)]
  <2>1. u[i] \in Elements(s) /\ u[j] \in Elements(t)
    BY <1>3 DEF Elements
  <2> QED
    BY <2>1 DEF Precede
<1>4. CASE /\ i - Len(s) \in DOMAIN t /\ u[i] = t[i - Len(s)]
           /\ j - Len(s) \in DOMAIN t /\ u[j] = t[j - Len(s)]
  <2>1. i - Len(s) < j - Len(s)
    BY <1>4 DEF u
  <2> QED
    BY <1>4, <2>1 DEF Sorted
<1>5. ~(i > Len(s) /\ j \in DOMAIN s)
  BY DEF u
<1> QED
  BY <1>1, <1>2, <1>3, <1>4, <1>5

LEMMA SortedTail ==
  ASSUME NEW o, NEW s \in Seq(Request), s # <<>>, Sorted(o, s)
  PROVE  Sorted(o, Tail(s)) /\ Precede(o, {Head(s)}, Elements(Tail(s)))
<1>1. \A i \in DOMAIN Tail(s) : i + 1 \in DOMAIN s /\ Tail(s)[i] = s[i + 1] /\ i \in Nat /\ i > 0
  BY ElementsOfTail
<1>2. 1 \in DOMAIN s /\ Head(s) = s[1]
  OBVIOUS
<1>3. Sorted(o, Tail(s))
  BY <1>1 DEF Sorted
<1>4. Precede(o, {Head(s)}, Elements(Tail(s)))
  <2> SUFFICES ASSUME NEW i \in DOMAIN Tail(s), KindOf[s[1]] = KindOf[Tail(s)[i]]
               PROVE  Before(o, s[1], Tail(s)[i])
    BY <1>2 DEF Precede, Elements
  <2>1. 1 < i + 1
    BY <1>1
  <2> QED
    BY <1>1, <1>2, <2>1 DEF Sorted
<1> QED
  BY <1>3, <1>4

-----------------------------------------------------------------------------
(* The steps. *)

LEMMA CurrentOne ==
  ASSUME TodoRanked, NEW k \in Kind, NEW j \in Kind, Current(k), Current(j)
  PROVE  j = k
<1>1. CASE \E i \in Kind : todo = {i}
  BY <1>1 DEF Current
<1>2. CASE todo \subseteq Batched
  <2>1. k \in Batched /\ j \in Batched
    BY <1>2 DEF Current
  <2>2. FlushRank[k] = FlushRank[j]
    <3>1. \A m \in Kind : FlushRank[m] \in Nat
      BY DEF FlushRank
    <3> QED
      BY <3>1 DEF Current
  <2> QED
    BY <2>1, <2>2 DEF FlushRank, Kind, Batched, Creates, BatchedLookups, DirectLookups
<1> QED
  BY <1>1, <1>2 DEF TodoRanked

LEMMA OrderUntouched ==
  ASSUME OrderInv, SentKnown', UNCHANGED <<channel, batch, todo, result, sent, executed>>
  PROVE  OrderInv'
  BY DEF OrderInv, AllSent, TodoRanked, InOrder, InFlight, Current, Sorted, Precede, Before

(* A caller that has not sent yet is not among those that have.              *)
LEMMA OrderCallers ==
  ASSUME TypeOK, OrderInv, NEW r \in Request, Submit(r) \/ Cancel(r) PROVE OrderInv'
<1>1. UNCHANGED <<channel, batch, todo, result, sent, executed>>
  BY DEF Submit, Cancel, workerVars
<1>2. SentKnown'
  BY <1>1 DEF OrderInv, SentKnown, Submit, Cancel, TypeOK
<1> QED
  BY <1>1, <1>2, OrderUntouched

(* A command that is sent comes after all that were sent before.             *)
LEMMA OrderEnqueue ==
  ASSUME TypeOK, OrderInv, NEW r \in Request, Enqueue(r) PROVE OrderInv'
<1>1. /\ channel' = Append(channel, r) /\ sent' = Append(sent, r)
      /\ UNCHANGED <<batch, todo, result, executed>>
      /\ status' = [status EXCEPT ![r] = "waiting"] /\ status[r] = "sending"
      /\ channel \in Seq(Request) /\ sent \in Seq(Request)
  BY DEF Enqueue, TypeOK
<1>2. /\ Elements(channel') = Elements(channel) \cup {r}
      /\ Elements(sent') = Elements(sent) \cup {r}
  BY <1>1, ElementsOfAppend
<1>3. r \notin Elements(sent)
  BY <1>1 DEF OrderInv, SentKnown
<1>4. \A n \in DOMAIN sent' : \/ n \in DOMAIN sent /\ sent'[n] = sent[n] /\ n <= Len(sent)
                              \/ n = Len(sent) + 1 /\ sent'[n] = r
  BY <1>1
<1>5. \A x, y \in Elements(sent) : Before(sent, x, y) => Before(sent', x, y)
  BY <1>3, <1>4 DEF Before
<1>6. \A x \in Elements(sent) : Before(sent', x, r)
  <2> SUFFICES ASSUME NEW x \in Elements(sent), NEW m \in DOMAIN sent', NEW n \in DOMAIN sent',
                      sent'[m] = x, sent'[n] = r
               PROVE  m < n
    BY DEF Before
  <2>1. m \in DOMAIN sent /\ m <= Len(sent)
    BY <1>3, <1>4
  <2>2. n = Len(sent) + 1
    BY <1>3, <1>4 DEF Elements
  <2>3. m \in Nat /\ Len(sent) \in Nat
    BY <1>1, <2>1
  <2> QED
    BY <2>1, <2>2, <2>3
<1>7. SentKnown' /\ AllSent' /\ TodoRanked'
  BY <1>1, <1>2 DEF OrderInv, SentKnown, AllSent, TodoRanked, TypeOK
<1>8. \A s : Elements(s) \subseteq Elements(sent) /\ Sorted(sent, s) => Sorted(sent', s)
  BY <1>5 DEF Sorted, Elements
<1>9. \A R, Q : R \subseteq Elements(sent) /\ Q \subseteq Elements(sent) /\ Precede(sent, R, Q)
                => Precede(sent', R, Q) /\ Precede(sent', R, Q \cup {r})
  BY <1>5, <1>6 DEF Precede
<1>10. Elements(channel) \subseteq Elements(sent)
  BY DEF OrderInv, AllSent
<1>11. Sorted(sent', channel')
  <2>1. Sorted(sent', channel)
    BY <1>8, <1>10 DEF OrderInv, InOrder
  <2>2. Precede(sent', Elements(channel), {r})
    BY <1>6, <1>10 DEF Precede
  <2> QED
    BY <1>1, <2>1, <2>2, SortedAppend
<1>12. Sorted(sent', executed') /\ Precede(sent', Elements(executed'), Elements(channel'))
  BY <1>1, <1>2, <1>8, <1>9 DEF OrderInv, AllSent, InOrder
<1>13. ASSUME NEW k \in Kind
       PROVE  /\ Sorted(sent', batch'[k])
              /\ Precede(sent', Elements(batch'[k]), Elements(channel'))
              /\ ~InFlight(k)' => Precede(sent', Elements(executed'), Elements(batch'[k]))
  <2>1. ~InFlight(k)' => ~InFlight(k)
    BY <1>1 DEF InFlight, Current
  <2> QED
    BY <1>1, <1>2, <1>8, <1>9, <2>1 DEF OrderInv, AllSent, InOrder
<1> QED
  BY <1>7, <1>11, <1>12, <1>13 DEF OrderInv, InOrder

(* The command at the head of the channel joins the buffer of its kind,      *)
(* behind what came before it and before what is behind it.                  *)
LEMMA OrderReceive ==
  ASSUME TypeOK, OrderInv, Receive PROVE OrderInv'
<1> DEFINE r == Head(channel)
           k == KindOf[r]
<1>1. /\ channel \in Seq(Request) /\ channel # <<>> /\ r \in Request /\ k \in Kind
      /\ channel' = Tail(channel) /\ batch' = [batch EXCEPT ![k] = Append(@, r)]
      /\ UNCHANGED <<status, result, sent, executed>>
      /\ todo = {} /\ (todo' = {k} \/ todo' = {})
  BY WorkerAssumption DEF TypeOK, Receive, Collected, Selecting
<1>2. r \in Elements(channel) /\ Elements(channel') \subseteq Elements(channel)
  BY <1>1, ElementsOfTail
<1>3. Sorted(sent, channel') /\ Precede(sent, {r}, Elements(channel'))
  BY <1>1, SortedTail DEF OrderInv, InOrder
<1>4. \A j \in Kind : batch[j] \in Seq(Request)
                      /\ batch'[j] = IF j = k THEN Append(batch[k], r) ELSE batch[j]
  BY <1>1 DEF TypeOK
<1> HIDE DEF r, k
<1>5. Elements(batch'[k]) = Elements(batch[k]) \cup {r}
  BY <1>1, <1>4, ElementsOfAppend
<1>6. SentKnown' /\ AllSent' /\ TodoRanked'
  BY <1>1, <1>2, <1>4, <1>5 DEF OrderInv, SentKnown, AllSent, TodoRanked
<1>7. Sorted(sent, executed) /\ Precede(sent, Elements(executed), Elements(channel'))
  BY <1>2 DEF OrderInv, InOrder, Precede
<1>8. ASSUME NEW j \in Kind
      PROVE  /\ Sorted(sent, batch'[j])
             /\ Precede(sent, Elements(batch'[j]), Elements(channel'))
             /\ Precede(sent, Elements(executed), Elements(batch'[j]))
  <2>1. ~InFlight(j)
    BY <1>1 DEF InFlight, Current
  <2>2. /\ Sorted(sent, batch[j]) /\ Precede(sent, Elements(batch[j]), Elements(channel))
        /\ Precede(sent, Elements(executed), Elements(batch[j]))
        /\ Precede(sent, Elements(executed), Elements(channel))
    BY <2>1 DEF OrderInv, InOrder
  <2>3. CASE j # k
    BY <1>2, <1>4, <2>2, <2>3 DEF Precede
  <2>4. CASE j = k
    <3>1. Precede(sent, Elements(batch[k]), {r})
      BY <1>2, <2>2, <2>4 DEF Precede
    <3>2. Sorted(sent, batch'[k])
      BY <1>1, <1>4, <2>2, <2>4, <3>1, SortedAppend
    <3>3. Precede(sent, Elements(batch'[k]), Elements(channel'))
      BY <1>2, <1>3, <1>5, <2>2, <2>4 DEF Precede
    <3>4. Precede(sent, Elements(executed), Elements(batch'[k]))
      BY <1>2, <1>5, <2>2, <2>4 DEF Precede
    <3> QED
      BY <2>4, <3>2, <3>3, <3>4
  <2> QED
    BY <2>3, <2>4
<1> QED
  BY <1>1, <1>3, <1>6, <1>7, <1>8 DEF OrderInv, InOrder

LEMMA OrderTick ==
  ASSUME TypeOK, OrderInv, Tick PROVE OrderInv'
<1>1. /\ UNCHANGED <<status, channel, batch, result, sent, executed>>
      /\ todo = {} /\ todo' \subseteq Batched
  BY DEF Tick, Pending, Selecting
<1>2. \A k \in Kind : ~InFlight(k)
  BY <1>1 DEF InFlight, Current
<1> QED
  BY <1>1, <1>2 DEF OrderInv, SentKnown, AllSent, TodoRanked, InOrder

(* The ledger always returns something.                                      *)
LEMMA ExecuteReplies ==
  ASSUME TypeOK, NEW k \in Kind, Execute(k) PROVE result' # NoReply
<1>1. Positions(k) \subseteq Nat /\ \A i \in Positions(k) : TargetAt(k, i) \in Id
  BY WorkerAssumption DEF TypeOK, Positions, TargetAt
<1>2. \A R \in SUBSET Nat : Outcome(R, {}) \in Reply
  BY DEF Outcome, Reply
<1>3. Found(k) \in SUBSET (Nat \X Id)
  BY <1>1 DEF Found
<1>4. Outcome({}, Found(k)) \in Reply /\ Failed \in Reply
  BY <1>3 DEF Outcome, Failed, Reply
<1>5. \A A \in SUBSET Positions(k) : Outcome(Positions(k) \ A, {}) \in Reply
  BY <1>1, <1>2
<1>6. result' \in Reply
  BY <1>4, <1>5 DEF Execute
<1> QED
  BY <1>6, WorkerAssumption

(* The batch follows what was executed before, and nothing of its kind that  *)
(* waits comes before it.                                                    *)
LEMMA OrderExecute ==
  ASSUME TypeOK, OrderInv, KindsApart, NEW k \in Kind, Execute(k) PROVE OrderInv'
<1>1. /\ UNCHANGED <<status, channel, batch, todo, sent>>
      /\ executed' = executed \o batch[k] /\ result = NoReply /\ Current(k)
      /\ executed \in Seq(Request) /\ batch[k] \in Seq(Request)
  BY DEF Execute, TypeOK
<1>2. result' # NoReply
  BY ExecuteReplies
<1>3. Elements(executed') = Elements(executed) \cup Elements(batch[k])
  BY <1>1, ElementsOfConcat
<1>4. SentKnown' /\ AllSent' /\ TodoRanked'
  BY <1>1, <1>3 DEF OrderInv, SentKnown, AllSent, TodoRanked
<1>5. \A j \in Kind : /\ Sorted(sent, batch[j])
                      /\ Precede(sent, Elements(batch[j]), Elements(channel))
                      /\ Precede(sent, Elements(executed), Elements(batch[j]))
  BY <1>1 DEF OrderInv, InOrder, InFlight
<1>6. Sorted(sent, executed')
  BY <1>1, <1>5, SortedConcat DEF OrderInv, InOrder
<1>7. Precede(sent, Elements(executed'), Elements(channel))
  BY <1>3, <1>5 DEF OrderInv, InOrder, Precede
<1>8. ASSUME NEW j \in Kind, ~InFlight(j)'
      PROVE  Precede(sent, Elements(executed'), Elements(batch[j]))
  <2>1. j # k
    BY <1>1, <1>2, <1>8 DEF InFlight, Current
  <2>2. \A r \in Elements(batch[k]), q \in Elements(batch[j]) : KindOf[r] # KindOf[q]
    BY <2>1 DEF KindsApart, Elements
  <2> QED
    BY <1>3, <1>5, <2>2 DEF Precede
<1> QED
  BY <1>1, <1>4, <1>5, <1>6, <1>7, <1>8 DEF OrderInv, InOrder

LEMMA OrderRespond ==
  ASSUME TypeOK, OrderInv, NEW k \in Kind, Respond(k) PROVE OrderInv'
<1>1. /\ UNCHANGED <<channel, sent, executed>> /\ todo' = todo \ {k}
      /\ \A j \in Kind : batch'[j] = IF j = k THEN <<>> ELSE batch[j]
      /\ Current(k)
  BY DEF Respond, Cleared, TypeOK
<1>2. Elements(<<>>) = {} /\ Sorted(sent, <<>>)
  BY DEF Elements, Sorted
<1>3. SentKnown'
  BY <1>1 DEF OrderInv, SentKnown, Respond
<1>4. AllSent' /\ TodoRanked'
  BY <1>1, <1>2 DEF OrderInv, AllSent, TodoRanked
<1>5. \A j \in Kind \ {k} : ~InFlight(j)
  BY <1>1, CurrentOne DEF InFlight, OrderInv
<1> QED
  BY <1>1, <1>2, <1>3, <1>4, <1>5 DEF OrderInv, InOrder, Precede

(* What a process that stops forgets leaves no gap that matters.             *)
LEMMA OrderStopped ==
  ASSUME TypeOK, OrderInv, Exit \/ Restart PROVE OrderInv'
<1>1. /\ channel' = <<>> /\ batch' = Empty /\ todo' = {} /\ UNCHANGED <<sent, executed>>
  BY DEF Exit, Restart, MemoryLost
<1>2. \A k \in Kind : Empty[k] = <<>>
  BY DEF Empty
<1>3. Elements(<<>>) = {} /\ Sorted(sent, <<>>)
  BY DEF Elements, Sorted
<1>4. SentKnown'
  BY <1>1 DEF OrderInv, SentKnown, Exit, Restart
<1>5. AllSent' /\ TodoRanked'
  BY <1>1, <1>2, <1>3 DEF OrderInv, AllSent, TodoRanked
<1> QED
  BY <1>1, <1>2, <1>3, <1>4, <1>5 DEF OrderInv, InOrder, Precede

LEMMA OrderStep == TypeOK /\ AnswerInv /\ OrderInv /\ [Next]_vars => OrderInv'
<1> SUFFICES ASSUME TypeOK, AnswerInv, OrderInv, [Next]_vars PROVE OrderInv'
  OBVIOUS
<1>1. ASSUME NEW k \in Kind, Execute(k) PROVE OrderInv'
  BY <1>1, OrderExecute DEF AnswerInv
<1>2. CASE Close \/ UNCHANGED vars
  <2>1. UNCHANGED <<status, channel, batch, todo, result, sent, executed>>
    BY <1>2 DEF Close, workerVars, vars
  <2> QED
    BY <2>1, OrderUntouched DEF OrderInv, SentKnown
<1> QED
  BY <1>1, <1>2, OrderCallers, OrderEnqueue, OrderReceive, OrderTick, OrderRespond,
     OrderStopped
  DEF Next

(* The invariants that the order of the commands rests on hold in every      *)
(* state, whatever callers hang up and however often the process restarts.   *)
THEOREM OrderHolds == Spec => [](TypeOK /\ AnswerInv /\ OrderInv)
<1>1. Init => AnswerInv
  BY DEF Init, AnswerInv, Aligned, KindsApart, ResultInProcess, EmptyMeansTaken,
         AcceptedOwns, Accepted, Empty
<1>2. Init => OrderInv
  BY DEF Init, OrderInv, SentKnown, AllSent, TodoRanked, InOrder, Sorted, Precede, Elements,
         Empty
<1> QED
  BY <1>1, <1>2, InitType, TypeStep, AnswerStep, OrderStep, PTL DEF Spec

(* Commands of one kind reach the ledger in the order they were sent.        *)
THEOREM FifoHolds == Spec => []FifoPerKind
<1>1. OrderInv => FifoPerKind
  BY DEF OrderInv, InOrder, Sorted, Before, FifoPerKind
<1> QED
  BY <1>1, OrderHolds, PTL

(* A command is handed to the ledger once, whatever batch it ends up in: a   *)
(* command executed twice would have been sent before itself.                *)
THEOREM ExecutedOnceHolds == Spec => []ExecutedOnce
<1>1. TypeOK /\ OrderInv => ExecutedOnce
  <2> SUFFICES ASSUME TypeOK, OrderInv, NEW i \in DOMAIN executed, NEW j \in DOMAIN executed,
                      executed[i] = executed[j], i < j
               PROVE  FALSE
    <3>1. DOMAIN executed \subseteq Nat
      BY DEF TypeOK
    <3>2. \A m, n \in Nat : m = n \/ m < n \/ n < m
      OBVIOUS
    <3> QED
      BY <3>1, <3>2 DEF ExecutedOnce
  <2>1. Before(sent, executed[i], executed[i])
    BY DEF OrderInv, InOrder, Sorted
  <2>2. PICK m \in DOMAIN sent : sent[m] = executed[i]
    BY DEF OrderInv, AllSent, Elements
  <2>3. m < m /\ m \in Nat
    BY <2>1, <2>2 DEF Before, TypeOK
  <2> QED
    BY <2>3
<1> QED
  BY <1>1, OrderHolds, PTL
=============================================================================
