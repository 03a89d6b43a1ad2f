----------------------- MODULE TbWorkerService_proofs -----------------------
(***************************************************************************)
(* The proof that TbWorker implements BatchService: what the handlers are  *)
(* built on (Transactions) is what the channel, the buffers and the timer  *)
(* do, for every set of requests and every setting.                        *)
(***************************************************************************)
EXTENDS TbWorker_proofs, FiniteSetTheorems

(* A batch is taken up only when there is something in it, and an answer is  *)
(* only there for a batch that was executed.                                 *)
FlightInv ==
  /\ \A k \in todo : batch[k] # <<>>
  /\ \A k \in Kind : InFlight(k) => Elements(batch[k]) \subseteq Elements(executed)

ServiceInv == TypeOK /\ RoomLeft /\ AnswerInv /\ OrderInv /\ FlightInv

-----------------------------------------------------------------------------
LEMMA FlightStep == ServiceInv /\ [Next]_vars => FlightInv'
<1> SUFFICES ASSUME ServiceInv, [Next]_vars PROVE FlightInv'
  OBVIOUS
<1>1. CASE UNCHANGED <<batch, todo, result, executed>>
  BY <1>1 DEF ServiceInv, FlightInv, InFlight, Current
<1>2. CASE Receive
  <2> DEFINE r == Head(channel)
             k == KindOf[r]
  <2>1. /\ r \in Request /\ k \in Kind /\ batch[k] \in Seq(Request)
        /\ batch'[k] = Append(batch[k], r) /\ todo' \subseteq {k}
        /\ result' = NoReply
    BY <1>2, WorkerAssumption
    DEF ServiceInv, TypeOK, AnswerInv, ResultInProcess, Receive, Collected, Selecting
  <2>2. batch'[k] # <<>>
    BY <2>1
  <2> QED
    BY <2>1, <2>2 DEF FlightInv, InFlight
<1>3. CASE Tick
  BY <1>3 DEF ServiceInv, AnswerInv, ResultInProcess, Tick, Selecting, Pending, FlightInv,
              InFlight
<1>4. ASSUME NEW k \in Kind, Execute(k) PROVE FlightInv'
  <2>1. /\ UNCHANGED <<batch, todo>> /\ executed' = executed \o batch[k] /\ Current(k)
        /\ executed \in Seq(Request) /\ batch[k] \in Seq(Request)
    BY <1>4 DEF ServiceInv, TypeOK, Execute
  <2>2. Elements(executed') = Elements(executed) \cup Elements(batch[k])
    BY <2>1, ElementsOfConcat
  <2>3. \A j \in Kind : InFlight(j)' => j = k
    BY <2>1, CurrentOne DEF ServiceInv, OrderInv, InFlight, Current
  <2> QED
    BY <2>1, <2>2, <2>3 DEF ServiceInv, FlightInv
<1>5. ASSUME NEW k \in Kind, Respond(k) PROVE FlightInv'
  BY <1>5 DEF ServiceInv, TypeOK, FlightInv, InFlight, Respond, Cleared
<1>6. CASE Exit \/ Restart
  BY <1>6 DEF Exit, Restart, MemoryLost, FlightInv, InFlight
<1> QED
  BY <1>1, <1>2, <1>3, <1>4, <1>5, <1>6
  DEF Next, Submit, Enqueue, Cancel, Close, workerVars, vars

LEMMA ServiceInvHolds == Spec => []ServiceInv
<1>1. Init => RoomLeft /\ FlightInv
  BY EmptyHasRoom, LimitPositive DEF Init, RoomLeft, FlightInv, InFlight, Empty
<1>2. TypeOK /\ AnswerInv /\ OrderInv /\ RoomLeft /\ FlightInv <=> ServiceInv
  BY DEF ServiceInv
<1> QED
  BY <1>1, <1>2, OrderHolds, RoomStep, FlightStep, PTL DEF Spec

-----------------------------------------------------------------------------
(* Each step of the worker is one of the service, or none. *)

(* Whoever is at the worker has sent, and whoever has not sent is nowhere.   *)
LEMMA OnlySenders ==
  ASSUME ServiceInv
  PROVE  \A r \in Queued \cup Elements(executed) :
           r \in Request /\ status[r] \notin {"idle", "sending"}
  BY DEF ServiceInv, OrderInv, SentKnown, AllSent, Queued

LEMMA SubmitIsSubmit ==
  ASSUME ServiceInv, NEW r \in Request, Submit(r) PROVE Service!Submit(r)
<1>1. /\ status[r] = "idle" /\ status' = [status EXCEPT ![r] = "sending"]
      /\ UNCHANGED <<channel, batch, todo, result, ledger, reply, executed>>
      /\ status \in [Request -> {"idle", "sending", "waiting", "answered", "dropped"}]
  BY DEF Submit, workerVars, ServiceInv, TypeOK
<1>2. Queued' = Queued /\ FlightOf' = FlightOf
  BY <1>1 DEF Queued, FlightOf, Current
<1>3. \A q \in Request : WorkOf(q)' = WorkOf(q)
  BY <1>1, <1>2 DEF WorkOf
<1>4. CallerOf(r) = "idle" /\ CallerOf(r)' = "waiting"
      /\ \A q \in Request \ {r} : CallerOf(q)' = CallerOf(q)
  BY <1>1 DEF CallerOf
<1> QED
  BY <1>1, <1>2, <1>3, <1>4 DEF Service!Submit

LEMMA EnqueueIsAccept ==
  ASSUME ServiceInv, NEW r \in Request, Enqueue(r) PROVE Service!Accept(r)
<1>1. /\ status[r] = "sending" /\ status' = [status EXCEPT ![r] = "waiting"]
      /\ channel' = Append(channel, r) /\ channel \in Seq(Request)
      /\ UNCHANGED <<batch, todo, result, ledger, reply, executed>>
      /\ status \in [Request -> {"idle", "sending", "waiting", "answered", "dropped"}]
  BY DEF Enqueue, ServiceInv, TypeOK
<1>2. Queued' = Queued \cup {r} /\ FlightOf' = FlightOf
  <2>1. Elements(channel') = Elements(channel) \cup {r}
    BY <1>1, ElementsOfAppend
  <2> QED
    BY <1>1, <2>1 DEF Queued, FlightOf, Current
<1>3. r \notin Queued /\ r \notin Elements(executed)
  BY <1>1, OnlySenders
<1>4. WorkOf(r) = "none" /\ WorkOf(r)' = "queued"
      /\ \A q \in Request \ {r} : WorkOf(q)' = WorkOf(q)
  BY <1>1, <1>2, <1>3 DEF WorkOf
<1>5. CallerOf(r) = "waiting" /\ \A q \in Request : CallerOf(q)' = CallerOf(q)
  BY <1>1 DEF CallerOf
<1> QED
  BY <1>1, <1>2, <1>4, <1>5 DEF Service!Accept

LEMMA CancelIsDrop ==
  ASSUME ServiceInv, NEW r \in Request, Cancel(r) PROVE Service!Drop(r)
<1>1. /\ status[r] \in {"sending", "waiting"} /\ status' = [status EXCEPT ![r] = "dropped"]
      /\ UNCHANGED <<channel, batch, todo, result, ledger, reply, executed>>
      /\ status \in [Request -> {"idle", "sending", "waiting", "answered", "dropped"}]
  BY DEF Cancel, workerVars, ServiceInv, TypeOK
<1>2. Queued' = Queued /\ FlightOf' = FlightOf
  BY <1>1 DEF Queued, FlightOf, Current
<1>3. /\ WorkOf(r)' = IF WorkOf(r) = "none" THEN "lost" ELSE WorkOf(r)
      /\ \A q \in Request \ {r} : WorkOf(q)' = WorkOf(q)
  BY <1>1, <1>2 DEF WorkOf
<1>4. CallerOf(r) = "waiting" /\ CallerOf(r)' = "dropped"
      /\ \A q \in Request \ {r} : CallerOf(q)' = CallerOf(q)
  BY <1>1 DEF CallerOf
<1> QED
  BY <1>1, <1>2, <1>3, <1>4 DEF Service!Drop

(* Collecting a command and taking up the buffers is the service's own       *)
(* affair.                                                                   *)
LEMMA SelectingIsStutter ==
  ASSUME ServiceInv, Receive \/ Tick PROVE UNCHANGED Service!serviceVars
<1>1. /\ UNCHANGED <<status, result, ledger, reply, executed>> /\ result = NoReply
  BY DEF Receive, Tick, Selecting, ServiceInv, AnswerInv, ResultInProcess
<1>2. Queued' = Queued
  <2>1. CASE Tick
    BY <2>1 DEF Tick, Queued
  <2>2. CASE Receive
    <3> DEFINE r == Head(channel)
               k == KindOf[r]
    <3>1. /\ channel \in Seq(Request) /\ channel # <<>> /\ r \in Request /\ k \in Kind
          /\ channel' = Tail(channel)
          /\ \A j \in Kind : batch'[j] = IF j = k THEN Append(batch[j], r) ELSE batch[j]
          /\ batch[k] \in Seq(Request)
      BY <2>2, WorkerAssumption DEF ServiceInv, TypeOK, Receive, Collected
    <3> HIDE DEF r, k
    <3>2. Elements(channel) = {r} \cup Elements(channel')
      <4>1. \A i \in DOMAIN channel : i = 1 \/ (i - 1 \in DOMAIN channel'
                                                 /\ channel'[i - 1] = channel[i])
        BY <3>1
      <4>2. r = channel[1]
        BY <3>1 DEF r
      <4>3. r \in Elements(channel) /\ Elements(channel') \subseteq Elements(channel)
        BY <3>1, ElementsOfTail DEF r
      <4> QED
        BY <4>1, <4>2, <4>3 DEF Elements
    <3>3. Elements(batch'[k]) = Elements(batch[k]) \cup {r}
      BY <3>1, ElementsOfAppend
    <3>4. \A q : (\E j \in Kind : q \in Elements(batch'[j]))
                   <=> (\E j \in Kind : q \in Elements(batch[j])) \/ q = r
      BY <3>1, <3>3
    <3> QED
      BY <3>2, <3>4 DEF Queued
  <2> QED
    BY <2>1, <2>2
<1>3. FlightOf' = FlightOf
  BY <1>1 DEF FlightOf
<1> QED
  BY <1>1, <1>2, <1>3 DEF Service!serviceVars, WorkOf, CallerOf

(* The processes that stop. *)
LEMMA StopIsLose ==
  ASSUME ServiceInv, Exit \/ Restart PROVE Service!Lose
<1>1. /\ channel' = <<>> /\ batch' = Empty /\ result' = NoReply
      /\ UNCHANGED <<ledger, reply, executed>>
  BY DEF Exit, Restart, MemoryLost
<1>2. Queued' = {}
  BY <1>1 DEF Queued, Empty, Elements
<1>3. FlightOf' = Service!NoFlight
  BY <1>1 DEF FlightOf, Service!NoFlight
<1>4. ASSUME NEW r \in Request
      PROVE  /\ status'[r] = IF status[r] \in {"sending", "waiting"} THEN "dropped" ELSE status[r]
             /\ r \in Queued => status[r] \notin {"idle", "sending"}
             /\ r \in Elements(executed) => status[r] \notin {"idle", "sending"}
  BY OnlySenders DEF Exit, Restart
<1>5. \A r \in Request :
        CallerOf(r)' = IF CallerOf(r) = "waiting" THEN "dropped" ELSE CallerOf(r)
  BY <1>4 DEF CallerOf
<1>6. \A r \in Request :
        WorkOf(r)' = IF WorkOf(r) = "queued" \/ (WorkOf(r) = "none" /\ CallerOf(r) = "waiting")
                     THEN "lost" ELSE WorkOf(r)
  BY <1>1, <1>2, <1>4 DEF WorkOf, CallerOf
<1> QED
  BY <1>1, <1>3, <1>5, <1>6 DEF Service!Lose

-----------------------------------------------------------------------------
(* The call to the ledger and the answers. *)

(* The flight is the batch that is being processed.                          *)
LEMMA FlightOfCurrent ==
  ASSUME TodoRanked, todo \subseteq Kind, NEW k \in Kind, Current(k)
  PROVE  (CHOOSE j \in todo : Current(j)) = k
<1>1. k \in todo /\ \A j \in todo : Current(j) => j = k
  BY CurrentOne DEF Current
<1> QED
  BY <1>1

(* The commands of a batch are different requests, no more than fit it.      *)
LEMMA BatchIsGroup ==
  ASSUME ServiceInv, NEW k \in Kind, k \in todo, result = NoReply
  PROVE  /\ \A i, j \in DOMAIN batch[k] : batch[k][i] = batch[k][j] => i = j
         /\ Elements(batch[k]) # {} /\ Cardinality(Elements(batch[k])) <= BatchMaxSize
         /\ \A r \in Elements(batch[k]) :
              r \in Request /\ KindOf[r] = k /\ WorkOf(r) = "queued"
<1> DEFINE b == batch[k]
<1>1. /\ b \in Seq(Request) /\ b # <<>> /\ Len(b) <= Limit(k)
      /\ Sorted(sent, b) /\ Elements(b) \subseteq Elements(sent)
      /\ \A i \in DOMAIN b : KindOf[b[i]] = k
      /\ Precede(sent, Elements(executed), Elements(b))
      /\ sent \in Seq(Request)
  BY DEF ServiceInv, TypeOK, FlightInv, RoomLeft, OrderInv, AllSent, InOrder, InFlight,
         AnswerInv, KindsApart
<1> HIDE DEF b
<1>2. \A r \in Elements(sent) : ~Before(sent, r, r)
  <2> SUFFICES ASSUME NEW m \in DOMAIN sent, Before(sent, sent[m], sent[m]) PROVE FALSE
    BY DEF Elements
  <2>1. m < m /\ m \in Nat
    BY <1>1 DEF Before
  <2> QED
    BY <2>1
<1>3. \A i, j \in DOMAIN b : b[i] = b[j] => i = j
  <2> SUFFICES ASSUME NEW i \in DOMAIN b, NEW j \in DOMAIN b, b[i] = b[j], i < j PROVE FALSE
    <3>1. DOMAIN b \subseteq Nat /\ \A m, n \in Nat : m = n \/ m < n \/ n < m
      BY <1>1
    <3> QED
      BY <3>1
  <2>1. Before(sent, b[i], b[i]) /\ b[i] \in Elements(sent)
    BY <1>1 DEF Sorted, Elements
  <2> QED
    BY <1>2, <2>1
<1>4. Elements(b) # {} /\ Cardinality(Elements(b)) <= BatchMaxSize
  <2>1. DOMAIN b = 1 .. Len(b) /\ Len(b) \in Nat /\ 1 \in DOMAIN b
    BY <1>1
  <2>2. b \in Surjection(1 .. Len(b), Elements(b))
    <3>1. b \in [1 .. Len(b) -> Elements(b)]
      BY <1>1, <2>1 DEF Elements
    <3> QED
      BY <2>1, <3>1 DEF Surjection, Elements
  <2>3. IsFiniteSet(1 .. Len(b)) /\ Cardinality(1 .. Len(b)) = Len(b)
    BY <2>1, FS_Interval
  <2>4. Cardinality(Elements(b)) <= Len(b) /\ IsFiniteSet(Elements(b))
    BY <2>2, <2>3, FS_Surjection
  <2>5. Cardinality(Elements(b)) \in Nat
    BY <2>4, FS_CardinalityType
  <2>6. Limit(k) <= BatchMaxSize /\ Limit(k) \in Nat /\ BatchMaxSize \in Nat
    BY WorkerAssumption DEF Limit
  <2>7. Elements(b) # {}
    BY <2>1 DEF Elements
  <2> QED
    BY <1>1, <2>1, <2>4, <2>5, <2>6, <2>7
<1>5. ASSUME NEW r \in Elements(b)
      PROVE  r \in Request /\ KindOf[r] = k /\ WorkOf(r) = "queued"
  <2>1. r \in Request /\ KindOf[r] = k
    BY <1>1 DEF Elements
  <2>2. r \notin Elements(executed)
    BY <1>1, <1>2, <2>1 DEF Precede
  <2>3. r \in Queued
    BY DEF Queued, b
  <2> QED
    BY <2>1, <2>2, <2>3 DEF WorkOf
<1> QED
  BY <1>3, <1>4, <1>5 DEF b

(* What the ledger takes of a batch is what it may take of the group, and it *)
(* turns down no position exactly if it takes all of the group.              *)
LEMMA TakenOfGroup ==
  ASSUME ServiceInv, NEW k \in Creates, k \in todo, result = NoReply,
         NEW A \in SUBSET Positions(k), Acceptable(k, A)
  PROVE  \E T :
         /\ T \subseteq Elements(batch[k])
         /\ \A r \in T : ledger[k][TargetOf[r]] = Nobody
         /\ \A r, q \in T : TargetOf[r] = TargetOf[q] => r = q
         /\ T = Elements(batch[k]) <=> Positions(k) \ A = {}
         /\ \A d \in Id :
              (IF \E i \in A : TargetAt(k, i) = d
               THEN batch[k][CHOOSE i \in A : TargetAt(k, i) = d] ELSE ledger[k][d])
            = (IF \E r \in T : TargetOf[r] = d
               THEN CHOOSE r \in T : TargetOf[r] = d ELSE ledger[k][d])
<1> DEFINE T == {batch[k][i] : i \in A}
<1>0. k \in Kind
  BY DEF Kind, Batched
<1>1. T \subseteq Elements(batch[k])
  BY DEF Positions, Elements
<1>2. /\ \A r \in T : ledger[k][TargetOf[r]] = Nobody
      /\ \A r, q \in T : TargetOf[r] = TargetOf[q] => r = q
  BY DEF Acceptable, TargetAt
<1>3. T = Elements(batch[k]) <=> Positions(k) \ A = {}
  <2>1. \A i, j \in DOMAIN batch[k] : batch[k][i] = batch[k][j] => i = j
    BY <1>0, BatchIsGroup
  <2>2. ASSUME T = Elements(batch[k]), NEW i \in Positions(k) PROVE i \in A
    <3>1. batch[k][i] \in T
      BY <2>2 DEF Positions, Elements
    <3>2. PICK j \in A : batch[k][j] = batch[k][i]
      BY <3>1
    <3> QED
      BY <2>1, <3>2 DEF Positions
  <2>3. ASSUME Positions(k) \ A = {} PROVE Elements(batch[k]) \subseteq T
    BY <2>3 DEF Positions, Elements
  <2> QED
    BY <1>1, <2>2, <2>3
<1>4. ASSUME NEW d \in Id, NEW i \in A, TargetAt(k, i) = d
      PROVE  batch[k][CHOOSE j \in A : TargetAt(k, j) = d] = CHOOSE r \in T : TargetOf[r] = d
  <2>1. (CHOOSE j \in A : TargetAt(k, j) = d) = i
    BY <1>4 DEF Acceptable
  <2>2. batch[k][i] \in T /\ TargetOf[batch[k][i]] = d
    BY <1>4 DEF TargetAt
  <2>3. (CHOOSE r \in T : TargetOf[r] = d) = batch[k][i]
    BY <1>2, <2>2
  <2> QED
    BY <2>1, <2>3
<1>5. \A d \in Id : (\E i \in A : TargetAt(k, i) = d) <=> (\E r \in T : TargetOf[r] = d)
  BY DEF TargetAt
<1> HIDE DEF T
<1> QED
  BY <1>1, <1>2, <1>3, <1>4, <1>5

LEMMA SameCardinality == \A S : Service!Cardinality(S) = Cardinality(S)
  BY DEF Service!Cardinality, Cardinality

LEMMA ExecuteIsExecute ==
  ASSUME ServiceInv, NEW k \in Kind, Execute(k)
  PROVE  Service!Execute(Elements(batch[k]))
<1> DEFINE G == Elements(batch[k])
<1>1. /\ UNCHANGED <<status, channel, batch, todo, reply>> /\ result = NoReply
      /\ Current(k) /\ k \in todo /\ result' # NoReply
      /\ executed' = executed \o batch[k]
      /\ executed \in Seq(Request) /\ batch[k] \in Seq(Request)
      /\ TodoRanked /\ todo \subseteq Kind
  BY ExecuteReplies DEF Execute, Current, ServiceInv, OrderInv, TypeOK
<1>2. /\ G # {} /\ Cardinality(G) <= BatchMaxSize
      /\ \A r \in G : r \in Request /\ KindOf[r] = k /\ WorkOf(r) = "queued"
  BY <1>1, BatchIsGroup
<1>3. FlightOf = Service!NoFlight
  BY <1>1 DEF FlightOf, Service!NoFlight
<1>4. FlightOf' = [members |-> G, verdict |-> VerdictOf(result')]
  <2>1. (CHOOSE j \in todo : Current(j)) = k
    BY <1>1, FlightOfCurrent
  <2>2. (CHOOSE j \in todo : Current(j))' = k
    BY <1>1, <2>1 DEF Current
  <2> QED
    BY <1>1, <2>2 DEF FlightOf, VerdictOf
<1>5. \A r \in Request : WorkOf(r)' = IF r \in G THEN "executed" ELSE WorkOf(r)
  <2>1. Elements(executed') = Elements(executed) \cup G
    BY <1>1, ElementsOfConcat
  <2>2. Queued' = Queued
    BY <1>1 DEF Queued
  <2> QED
    BY <1>1, <2>1, <2>2 DEF WorkOf
<1>6. \A r \in Request : CallerOf(r)' = CallerOf(r)
  BY <1>1 DEF CallerOf
<1> HIDE DEF G
<1>7. CASE k \in Creates
  <2>1. PICK A \in SUBSET Positions(k) :
          /\ Acceptable(k, A)
          /\ ledger' = LedgerWith(k, A)
          /\ result' \in {Outcome(Positions(k) \ A, {}), Failed}
    BY <1>7 DEF Execute
  <2>2. PICK T :
          /\ T \subseteq G
          /\ \A r \in T : ledger[k][TargetOf[r]] = Nobody
          /\ \A r, q \in T : TargetOf[r] = TargetOf[q] => r = q
          /\ T = G <=> Positions(k) \ A = {}
          /\ \A d \in Id :
               (IF \E i \in A : TargetAt(k, i) = d
                THEN batch[k][CHOOSE i \in A : TargetAt(k, i) = d] ELSE ledger[k][d])
             = (IF \E r \in T : TargetOf[r] = d
                THEN CHOOSE r \in T : TargetOf[r] = d ELSE ledger[k][d])
    BY <1>1, <1>7, <2>1, TakenOfGroup, Zenon DEF G
  <2>3. ledger' = [ledger EXCEPT ![k] = [d \in Id |->
                     IF \E r \in T : TargetOf[r] = d
                     THEN CHOOSE r \in T : TargetOf[r] = d ELSE ledger[k][d]]]
    <3> DEFINE ByPosition(d) ==
                 IF \E i \in A : TargetAt(k, i) = d
                 THEN batch[k][CHOOSE i \in A : TargetAt(k, i) = d] ELSE ledger[k][d]
               ByRequest(d) ==
                 IF \E r \in T : TargetOf[r] = d
                 THEN CHOOSE r \in T : TargetOf[r] = d ELSE ledger[k][d]
    <3>1. ledger' = [ledger EXCEPT ![k] = [d \in Id |-> ByPosition(d)]]
      BY <2>1 DEF LedgerWith
    <3>2. \A d \in Id : ByPosition(d) = ByRequest(d)
      BY <2>2
    <3>3. ledger' = [ledger EXCEPT ![k] = [d \in Id |-> ByRequest(d)]]
      <4> HIDE DEF ByPosition, ByRequest
      <4>1. [d \in Id |-> ByPosition(d)] = [d \in Id |-> ByRequest(d)]
        BY <3>2
      <4> QED
        BY <3>1, <4>1
    <3> QED
      BY <3>3
  <2>4. VerdictOf(result') \in {IF T = G THEN "accepted" ELSE "refused", "error"}
    BY <2>1, <2>2 DEF VerdictOf, Outcome, Failed
  <2>5. \E v \in {IF T = G THEN "accepted" ELSE "refused", "error"} :
          FlightOf' = [members |-> G, verdict |-> v]
    BY <1>4, <2>4
  <2>6. T \in SUBSET G /\ Service!Takeable(k, T) /\ k \in Service!Creates
        /\ \A r \in G : KindOf[r] = k
    BY <1>2, <1>7, <2>2 DEF Service!Takeable, Service!Creates, Creates
  <2> QED
    BY <1>1, <1>2, <1>3, <1>5, <1>6, <2>3, <2>5, <2>6, SameCardinality
    DEF Service!Execute, G
<1>8. CASE k \notin Creates
  <2>1. result' \in {Outcome({}, Found(k)), Failed} /\ ledger' = ledger
    BY <1>8 DEF Execute
  <2>2. VerdictOf(result') \in {"accepted", "error"}
    BY <2>1 DEF VerdictOf, Outcome, Failed
  <2>3. k \in Service!Lookups
    BY <1>8 DEF Service!Lookups, Kind, Batched, BatchedLookups, DirectLookups
  <2> QED
    BY <1>1, <1>2, <1>3, <1>4, <1>5, <1>6, <2>1, <2>2, <2>3, SameCardinality
    DEF Service!Execute, G
<1> QED
  BY <1>7, <1>8

LEMMA RespondIsAnswer ==
  ASSUME ServiceInv, NEW k \in Kind, Respond(k) PROVE Service!Answer
<1> DEFINE G == Elements(batch[k])
           told == {r \in G : CallerOf(r) = "waiting"}
<1>1. /\ UNCHANGED <<channel, ledger, executed>> /\ result # NoReply /\ result' = NoReply
      /\ \A j \in Kind : batch'[j] = IF j = k THEN <<>> ELSE batch[j]
      /\ Current(k) /\ k \in todo /\ TodoRanked /\ todo \subseteq Kind
      /\ responders[k] = batch[k] /\ batch[k] # <<>> /\ batch[k] \in Seq(Request)
      /\ G \subseteq Elements(executed)
  BY DEF Respond, Cleared, Current, ServiceInv, TypeOK, OrderInv, AnswerInv, Aligned,
         FlightInv, InFlight
<1>2. FlightOf = [members |-> G, verdict |-> VerdictOf(result)]
  BY <1>1, FlightOfCurrent DEF FlightOf
<1>3. FlightOf' = Service!NoFlight /\ FlightOf # Service!NoFlight
  <2>1. batch[k][1] \in G
    BY <1>1 DEF Elements
  <2> QED
    BY <1>1, <1>2, <2>1 DEF FlightOf, Service!NoFlight
<1>4. Told(k) = told
  <2>1. \A r \in G : r \in Request /\ status[r] \notin {"idle", "sending"}
    BY <1>1, OnlySenders
  <2> QED
    BY <1>1, <2>1 DEF Told, CallerOf
<1>5. /\ status' = [r \in Request |-> IF r \in told THEN "answered" ELSE status[r]]
      /\ reply' = [r \in Request |-> IF r \in told THEN result ELSE reply[r]]
  BY <1>4 DEF Respond
<1>6. \A r \in Request : WorkOf(r)' = WorkOf(r)
  <2>1. Elements(<<>>) = {}
    BY DEF Elements
  <2>2. \A r \in Queued : r \in Queued' \/ r \in Elements(executed)
    BY <1>1, <2>1 DEF Queued
  <2>3. Queued' \subseteq Queued
    BY <1>1, <2>1 DEF Queued
  <2>4. \A r \in Request : r \in Elements(executed) \/
          (status'[r] \in {"idle", "sending"} <=> status[r] \in {"idle", "sending"})
    BY <1>1, <1>5
  <2> QED
    BY <1>1, <2>2, <2>3, <2>4 DEF WorkOf
<1> HIDE DEF G
<1>7. \A r \in Request : CallerOf(r)' = IF r \in told THEN "answered" ELSE CallerOf(r)
  BY <1>5 DEF CallerOf
<1>8. \A r \in Request :
        (IF reply'[r] = NoReply THEN "none" ELSE VerdictOf(reply'[r]))
          = IF r \in told THEN VerdictOf(result)
            ELSE IF reply[r] = NoReply THEN "none" ELSE VerdictOf(reply[r])
  BY <1>1, <1>5
<1>9. told = {r \in FlightOf.members : [q \in Request |-> CallerOf(q)][r] = "waiting"}
      /\ FlightOf.verdict = VerdictOf(result)
  <2>1. G \subseteq Request
    BY <1>1 DEF G, Elements
  <2> QED
    BY <1>2, <2>1
<1> HIDE DEF told
<1> QED
  BY <1>1, <1>3, <1>6, <1>7, <1>8, <1>9 DEF Service!Answer, VerdictOf

-----------------------------------------------------------------------------
LEMMA ServiceStep == ServiceInv /\ [Next]_vars => [Service!ServiceNext]_(Service!serviceVars)
<1> SUFFICES ASSUME ServiceInv, [Next]_vars
             PROVE  [Service!ServiceNext]_(Service!serviceVars)
  OBVIOUS
<1>1. ASSUME NEW r \in Request, Submit(r) \/ Enqueue(r) \/ Cancel(r)
      PROVE  Service!ServiceNext
  BY <1>1, SubmitIsSubmit, EnqueueIsAccept, CancelIsDrop DEF Service!ServiceNext
<1>2. CASE Receive \/ Tick
  BY <1>2, SelectingIsStutter
<1>3. ASSUME NEW k \in Kind, Execute(k) PROVE Service!ServiceNext
  <2>1. Elements(batch[k]) \subseteq Request
    BY DEF ServiceInv, TypeOK, Elements
  <2> QED
    BY <1>3, <2>1, ExecuteIsExecute DEF Service!ServiceNext
<1>4. ASSUME NEW k \in Kind, Respond(k) PROVE Service!ServiceNext
  BY <1>4, RespondIsAnswer DEF Service!ServiceNext
<1>5. CASE Exit \/ Restart
  BY <1>5, StopIsLose DEF Service!ServiceNext
<1>6. CASE Close \/ UNCHANGED vars
  BY <1>6
  DEF Close, workerVars, vars, Service!serviceVars, CallerOf, WorkOf, Queued, FlightOf,
      Current, VerdictOf
<1> QED
  BY <1>1, <1>2, <1>3, <1>4, <1>5, <1>6 DEF Next

(* The channel, the buffers, the timer, hang-ups, shutdowns and crashes of   *)
(* AppTbClient and its worker are behaviours of BatchService: each request   *)
(* is handed to the ledger at most once, in a group of its kind, and the     *)
(* members of a group that still wait get one shared verdict.                *)
THEOREM ServiceImplemented == Spec => ImplementsService
<1>1. Init => Service!ServiceInit
  <2> SUFFICES ASSUME Init PROVE Service!ServiceInit
    OBVIOUS
  <2>1. Queued = {} /\ Elements(executed) = {}
    BY DEF Init, Queued, Empty, Elements
  <2>2. FlightOf = Service!NoFlight
    BY DEF Init, FlightOf, Service!NoFlight
  <2> QED
    BY <2>1, <2>2 DEF Init, Service!ServiceInit, CallerOf, WorkOf, Service!Creates, Creates
<1> QED
  BY <1>1, ServiceInvHolds, ServiceStep, PTL DEF Spec, ImplementsService, Service!ServiceSpec
=============================================================================
