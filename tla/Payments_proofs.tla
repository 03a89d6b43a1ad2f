--------------------------- MODULE Payments_proofs ---------------------------
(***************************************************************************)
(* The proof that Payments implements Transactions: the handlers of        *)
(* credits and debits cannot tell the real client and worker, shared with  *)
(* all other calls, from the service they are specified on, for every set  *)
(* of requests, every batch size and every capacity of the channel.        *)
(*                                                                         *)
(* TbWorkerService_proofs has each step of the worker as a step of the     *)
(* service of ALL requests.  Here such a step is looked at by the payments *)
(* alone: it is the same step of the service of the payments, or nothing.  *)
(***************************************************************************)
EXTENDS Payments, TbWorkerService_proofs

(* A handler has one call under way at most, and is where it awaits it.      *)
UnderWay == {"sending", "waiting"}
AwaitedInv ==
  \A a \in Payment : /\ status[a] \in UnderWay => pc[a] = "calling"
                     /\ status[LookupOf[a]] \in UnderWay => pc[a] = "reading"

PcType == pc \in [Payment -> {"new", "checking", "preparing", "calling", "inserting",
                              "reading", "done", "gone"}]

-----------------------------------------------------------------------------
(* Payments is TbWorker with some of its callers spelled out.                *)

(* A payment and a lookup are different requests.                            *)
LEMMA CallsApart ==
  /\ \A a \in Payment : /\ a \in Request /\ KindOf[a] = "CreateTransfer"
                        /\ LookupOf[a] \in Request /\ KindOf[LookupOf[a]] = "LookupAccount"
  /\ \A a, b \in Payment : a # LookupOf[b]
  /\ \A r \in Request : KindOf[r] = "CreateTransfer" => r \in Payment
<1>1. /\ Payment = {r \in Request : KindOf[r] = "CreateTransfer"}
      /\ LookupOf \in [Payment -> {r \in Request : KindOf[r] = "LookupAccount"}]
  BY PaymentsAssumption
<1>2. \A a \in Payment : LookupOf[a] \in {r \in Request : KindOf[r] = "LookupAccount"}
  BY <1>1
<1> QED
  BY <1>1, <1>2

LEMMA HandlerStepIsQuiet ==
  ASSUME NEW a \in Payment,
         Begin(a) \/ AtDatabase(a) \/ TakeResult(a) \/ TakeBalance(a)
  PROVE  UNCHANGED vars
  BY DEF Begin, AtDatabase, TakeResult, TakeBalance

LEMMA StepOfWorker == [PaymentsNext]_allVars => [Next]_vars
<1> SUFFICES ASSUME PaymentsNext, vars' # vars PROVE Next
  BY DEF allVars
<1> USE CallsApart
<1>1. ASSUME NEW a \in Payment, Begin(a) \/ Proceed(a) \/ HangUp(a) PROVE Next
  <2>1. CASE CallLedger(a)
    BY <2>1 DEF CallLedger, Next
  <2>2. CASE AskBalance(a)
    BY <2>2 DEF AskBalance, Next
  <2>3. CASE HangUp(a)
    BY <2>3 DEF HangUp, Next
  <2> QED
    BY <1>1, <2>1, <2>2, <2>3, HandlerStepIsQuiet DEF Proceed
<1>2. ASSUME NEW r \in Request, Worker(Enqueue(r)) PROVE Next
  BY <1>2 DEF Worker, Next
<1>3. ASSUME NEW r \in Others, OtherCall(r) PROVE Next
  BY <1>3 DEF Others, OtherCall, Worker, Next
<1>4. CASE Worker(Receive) \/ Worker(Tick) \/ Worker(Close) \/ Shutdown \/ Crash
  BY <1>4 DEF Worker, Shutdown, Crash, Next
<1>5. ASSUME NEW k \in Kind, Worker(Execute(k)) \/ Worker(Respond(k)) PROVE Next
  BY <1>5 DEF Worker, Next
<1> QED
  BY <1>1, <1>2, <1>3, <1>4, <1>5 DEF PaymentsNext

(* So what holds of the worker holds here.                                   *)
LEMMA WorkerHolds == PaymentsSpec => []ServiceInv
<1>1. PaymentsInit => Init
  BY DEF PaymentsInit
<1> QED
  BY <1>1, StepOfWorker, ServiceInvHolds, PTL DEF PaymentsSpec, Spec

-----------------------------------------------------------------------------
(* What the payments see of a step of the service.                           *)

LEMMA NothingSeen ==
  ASSUME \A a \in Payment : /\ CallerOf(a)' = CallerOf(a) /\ WorkOf(a)' = WorkOf(a)
                            /\ VerdictFor(a)' = VerdictFor(a),
         Transfers' = Transfers, TransfersInFlight' = TransfersInFlight
  PROVE  UNCHANGED Handlers!serviceVars
  BY DEF Handlers!serviceVars

LEMMA StutterSeen ==
  ASSUME UNCHANGED Service!serviceVars PROVE UNCHANGED Handlers!serviceVars
<1>1. /\ ledger' = ledger /\ FlightOf' = FlightOf
      /\ \A r \in Request : /\ CallerOf(r)' = CallerOf(r) /\ WorkOf(r)' = WorkOf(r)
                            /\ VerdictFor(r)' = VerdictFor(r)
  <2>1. /\ [r \in Request |-> CallerOf(r)]' = [r \in Request |-> CallerOf(r)]
        /\ [r \in Request |-> WorkOf(r)]' = [r \in Request |-> WorkOf(r)]
        /\ [r \in Request |-> VerdictFor(r)]' = [r \in Request |-> VerdictFor(r)]
    BY DEF Service!serviceVars, VerdictFor
  <2> QED
    BY <2>1 DEF Service!serviceVars
<1>2. Transfers' = Transfers /\ TransfersInFlight' = TransfersInFlight
  BY <1>1 DEF Transfers, TransfersInFlight
<1> QED
  BY <1>1, <1>2, CallsApart, NothingSeen

LEMMA QuietSeen == UNCHANGED vars => UNCHANGED Handlers!serviceVars
<1>1. UNCHANGED vars => UNCHANGED Service!serviceVars
  BY DEF vars, Service!serviceVars, CallerOf, WorkOf, Queued, FlightOf, Current, VerdictOf
<1> QED
  BY <1>1, StutterSeen

(* A step of the service that is about one request.                          *)
LEMMA CallSeen ==
  ASSUME NEW r \in Request, Service!Submit(r) \/ Service!Accept(r) \/ Service!Drop(r)
  PROVE  /\ Service!Submit(r) /\ r \in Payment => Handlers!Submit(r)
         /\ Service!Accept(r) /\ r \in Payment => Handlers!Accept(r)
         /\ Service!Drop(r) /\ r \in Payment => Handlers!Drop(r)
         /\ r \notin Payment => UNCHANGED Handlers!serviceVars
<1>1. /\ ledger' = ledger /\ FlightOf' = FlightOf
      /\ \A q \in Request : VerdictFor(q)' = VerdictFor(q)
      /\ \A q \in Request \ {r} : CallerOf(q)' = CallerOf(q) /\ WorkOf(q)' = WorkOf(q)
  <2>1. ledger' = ledger /\ FlightOf' = FlightOf
    BY DEF Service!Submit, Service!Accept, Service!Drop
  <2>2. [q \in Request |-> VerdictFor(q)]' = [q \in Request |-> VerdictFor(q)]
    BY DEF Service!Submit, Service!Accept, Service!Drop, VerdictFor
  <2>3. /\ \/ [q \in Request |-> CallerOf(q)]' = [q \in Request |-> CallerOf(q)]
           \/ \E c : [q \in Request |-> CallerOf(q)]'
                       = [[q \in Request |-> CallerOf(q)] EXCEPT ![r] = c]
        /\ \/ [q \in Request |-> WorkOf(q)]' = [q \in Request |-> WorkOf(q)]
           \/ \E c : [q \in Request |-> WorkOf(q)]'
                       = [[q \in Request |-> WorkOf(q)] EXCEPT ![r] = c]
    BY DEF Service!Submit, Service!Accept, Service!Drop
  <2> QED
    BY <2>1, <2>2, <2>3
<1>2. Transfers' = Transfers /\ TransfersInFlight' = TransfersInFlight
  BY <1>1 DEF Transfers, TransfersInFlight
<1>3. Payment \subseteq Request
  BY CallsApart
<1>4. /\ Service!Submit(r) =>
           CallerOf(r) = "idle" /\ CallerOf(r)' = "waiting" /\ WorkOf(r)' = WorkOf(r)
      /\ Service!Accept(r) =>
           /\ CallerOf(r) = "waiting" /\ CallerOf(r)' = CallerOf(r)
           /\ WorkOf(r) = "none" /\ WorkOf(r)' = "queued"
      /\ Service!Drop(r) =>
           /\ CallerOf(r) = "waiting" /\ CallerOf(r)' = "dropped"
           /\ WorkOf(r)' = IF WorkOf(r) = "none" THEN "lost" ELSE WorkOf(r)
  BY DEF Service!Submit, Service!Accept, Service!Drop
<1>5. ASSUME r \in Payment, Service!Submit(r) PROVE Handlers!Submit(r)
  BY <1>1, <1>2, <1>3, <1>4, <1>5 DEF Handlers!Submit
<1>6. ASSUME r \in Payment, Service!Accept(r) PROVE Handlers!Accept(r)
  BY <1>1, <1>2, <1>3, <1>4, <1>6 DEF Handlers!Accept
<1>7. ASSUME r \in Payment, Service!Drop(r) PROVE Handlers!Drop(r)
  BY <1>1, <1>2, <1>3, <1>4, <1>7 DEF Handlers!Drop
<1>8. ASSUME r \notin Payment PROVE UNCHANGED Handlers!serviceVars
  BY <1>1, <1>2, <1>3, <1>8, NothingSeen
<1> QED
  BY <1>5, <1>6, <1>7, <1>8

LEMMA LoseSeen == ASSUME Service!Lose PROVE Handlers!Lose
<1>1. /\ \A r \in Request :
           CallerOf(r)' = IF CallerOf(r) = "waiting" THEN "dropped" ELSE CallerOf(r)
      /\ \A r \in Request :
           WorkOf(r)' = IF WorkOf(r) = "queued" \/ (WorkOf(r) = "none" /\ CallerOf(r) = "waiting")
                        THEN "lost" ELSE WorkOf(r)
      /\ \A r \in Request : VerdictFor(r)' = VerdictFor(r)
      /\ ledger' = ledger /\ FlightOf' = NoFlight
  BY DEF Service!Lose, Service!NoFlight, NoFlight, VerdictFor
<1>2. Transfers' = Transfers /\ TransfersInFlight' = NoFlight
  BY <1>1 DEF Transfers, TransfersInFlight, NoFlight
<1>3. Payment \subseteq Request
  BY CallsApart
<1> QED
  BY <1>1, <1>2, <1>3 DEF Handlers!Lose, Handlers!NoFlight, NoFlight

-----------------------------------------------------------------------------
(* A group is of one kind: all payments, or none.                            *)

LEMMA GroupSeen ==
  ASSUME NEW k \in Kind, NEW G \in SUBSET Request, G # {}, \A r \in G : KindOf[r] = k
  PROVE  /\ k = "CreateTransfer" => G \subseteq Payment
         /\ k # "CreateTransfer" => ~(G \subseteq Payment) /\ \A a \in Payment : a \notin G
  BY CallsApart

LEMMA SameCardinalities == \A S : Handlers!Cardinality(S) = Service!Cardinality(S)
  BY DEF Handlers!Cardinality, Service!Cardinality

LEMMA ExecuteOfPayments ==
  ASSUME TypeOK, NEW G \in SUBSET Request, Service!Execute(G), G \subseteq Payment
  PROVE  Handlers!Execute(G)
<1>1. /\ FlightOf = NoFlight /\ G # {} /\ Handlers!Cardinality(G) <= BatchMaxSize
      /\ \A r \in G : WorkOf(r) = "queued"
      /\ \A r \in Request : /\ WorkOf(r)' = IF r \in G THEN "executed" ELSE WorkOf(r)
                            /\ CallerOf(r)' = CallerOf(r) /\ VerdictFor(r)' = VerdictFor(r)
  <2>1. /\ [r \in Request |-> CallerOf(r)]' = [r \in Request |-> CallerOf(r)]
        /\ [r \in Request |-> VerdictFor(r)]' = [r \in Request |-> VerdictFor(r)]
        /\ [r \in Request |-> WorkOf(r)]' =
             [r \in Request |-> IF r \in G THEN "executed"
                                ELSE [q \in Request |-> WorkOf(q)][r]]
        /\ \A r \in G : [q \in Request |-> WorkOf(q)][r] = "queued"
        /\ FlightOf = NoFlight /\ G # {} /\ Service!Cardinality(G) <= BatchMaxSize
    BY DEF Service!Execute, Service!NoFlight, NoFlight, VerdictFor
  <2> QED
    BY <2>1, SameCardinalities
<1>2. PICK T \in SUBSET G :
        /\ \A r \in T : ledger["CreateTransfer"][TargetOf[r]] = Nobody
        /\ \A r, q \in T : TargetOf[r] = TargetOf[q] => r = q
        /\ ledger' = [ledger EXCEPT !["CreateTransfer"] = [i \in Id |->
                        IF \E r \in T : TargetOf[r] = i
                        THEN CHOOSE r \in T : TargetOf[r] = i
                        ELSE ledger["CreateTransfer"][i]]]
        /\ \E v \in {IF T = G THEN "accepted" ELSE "refused", "error"} :
             FlightOf' = [members |-> G, verdict |-> v]
  <2>1. \A r \in G : KindOf[r] = "CreateTransfer"
    BY CallsApart
  <2>2. "CreateTransfer" \notin Service!Lookups
    BY DEF Service!Lookups
  <2> QED
    BY <1>1, <2>1, <2>2 DEF Service!Execute, Service!Takeable
<1>3. TransfersInFlight = NoFlight /\ TransfersInFlight' = FlightOf'
  BY <1>1, <1>2 DEF TransfersInFlight, NoFlight
<1>4. Transfers' = [Transfers EXCEPT !["CreateTransfer"] = [i \in Id |->
                      IF \E r \in T : TargetOf[r] = i
                      THEN CHOOSE r \in T : TargetOf[r] = i
                      ELSE Transfers["CreateTransfer"][i]]]
  <2> DEFINE New == [i \in Id |-> IF \E r \in T : TargetOf[r] = i
                                  THEN CHOOSE r \in T : TargetOf[r] = i
                                  ELSE ledger["CreateTransfer"][i]]
  <2>1. ledger' = [ledger EXCEPT !["CreateTransfer"] = New] /\ DOMAIN ledger = Creates
    BY <1>2 DEF TypeOK
  <2>2. Transfers["CreateTransfer"] = ledger["CreateTransfer"]
    BY DEF Transfers, Creates
  <2> HIDE DEF New
  <2>3. ledger'["CreateTransfer"] = New
    BY <2>1 DEF Creates
  <2>4. Transfers' = [Transfers EXCEPT !["CreateTransfer"] = New]
    BY <2>3 DEF Transfers
  <2> QED
    BY <2>2, <2>4 DEF New
<1>5. /\ \A r \in T : Transfers["CreateTransfer"][[a \in Payment |-> TargetOf[a]][r]] = Nobody
      /\ \A r, q \in T : [a \in Payment |-> TargetOf[a]][r] = [a \in Payment |-> TargetOf[a]][q]
                           => r = q
  BY <1>2 DEF Transfers, Creates
<1>6. \A i \in Id :
        (IF \E r \in T : TargetOf[r] = i
         THEN CHOOSE r \in T : TargetOf[r] = i ELSE Transfers["CreateTransfer"][i])
      = (IF \E r \in T : [a \in Payment |-> TargetOf[a]][r] = i
         THEN CHOOSE r \in T : [a \in Payment |-> TargetOf[a]][r] = i
         ELSE Transfers["CreateTransfer"][i])
  <2>1. \A r \in T : [a \in Payment |-> TargetOf[a]][r] = TargetOf[r]
    OBVIOUS
  <2>2. ASSUME NEW i \in Id, NEW r \in T, TargetOf[r] = i
        PROVE  /\ (CHOOSE q \in T : TargetOf[q] = i) = r
               /\ (CHOOSE q \in T : [a \in Payment |-> TargetOf[a]][q] = i) = r
    BY <1>2, <1>5, <2>1, <2>2
  <2> QED
    BY <2>1, <2>2
<1>7. Transfers' = [Transfers EXCEPT !["CreateTransfer"] = [i \in Id |->
                      IF \E r \in T : [a \in Payment |-> TargetOf[a]][r] = i
                      THEN CHOOSE r \in T : [a \in Payment |-> TargetOf[a]][r] = i
                      ELSE Transfers["CreateTransfer"][i]]]
  <2> DEFINE Old(i) == IF \E r \in T : TargetOf[r] = i
                       THEN CHOOSE r \in T : TargetOf[r] = i ELSE Transfers["CreateTransfer"][i]
             New(i) == IF \E r \in T : [a \in Payment |-> TargetOf[a]][r] = i
                       THEN CHOOSE r \in T : [a \in Payment |-> TargetOf[a]][r] = i
                       ELSE Transfers["CreateTransfer"][i]
  <2>1. Transfers' = [Transfers EXCEPT !["CreateTransfer"] = [i \in Id |-> Old(i)]]
    BY <1>4
  <2>2. \A i \in Id : Old(i) = New(i)
    BY <1>6
  <2>3. Transfers' = [Transfers EXCEPT !["CreateTransfer"] = [i \in Id |-> New(i)]]
    <3> HIDE DEF Old, New
    <3>1. [i \in Id |-> Old(i)] = [i \in Id |-> New(i)]
      BY <2>2
    <3> QED
      BY <2>1, <3>1
  <2> QED
    BY <2>3
<1>8. /\ "CreateTransfer" \in Handlers!Creates
      /\ \A r \in G : [a \in Payment |-> KindOf[a]][r] = "CreateTransfer"
      /\ Handlers!Takeable("CreateTransfer", T)
  BY <1>5, CallsApart DEF Handlers!Creates, Handlers!Takeable
<1>9. /\ TransfersInFlight = Handlers!NoFlight
      /\ \E v \in {IF T = G THEN "accepted" ELSE "refused", "error"} :
           TransfersInFlight' = [members |-> G, verdict |-> v]
  BY <1>2, <1>3 DEF Handlers!NoFlight, NoFlight
<1>10. Payment \subseteq Request
  BY CallsApart
<1> QED
  BY <1>1, <1>7, <1>8, <1>9, <1>10 DEF Handlers!Execute

LEMMA ExecuteOfOthers ==
  ASSUME TypeOK, NEW k \in Kind, k # "CreateTransfer", NEW G \in SUBSET Request,
         Service!Execute(G), \A r \in G : KindOf[r] = k
  PROVE  UNCHANGED Handlers!serviceVars
<1>1. /\ [r \in Request |-> CallerOf(r)]' = [r \in Request |-> CallerOf(r)]
      /\ [r \in Request |-> VerdictFor(r)]' = [r \in Request |-> VerdictFor(r)]
      /\ [r \in Request |-> WorkOf(r)]' =
           [r \in Request |-> IF r \in G THEN "executed" ELSE [q \in Request |-> WorkOf(q)][r]]
      /\ FlightOf = NoFlight /\ G # {} /\ FlightOf'.members = G
  BY DEF Service!Execute, Service!NoFlight, NoFlight, VerdictFor
<1>2. ~(G \subseteq Payment) /\ \A a \in Payment : a \in Request /\ a \notin G
  BY <1>1, GroupSeen, CallsApart
<1>3. TransfersInFlight = NoFlight /\ TransfersInFlight' = NoFlight
  BY <1>1, <1>2 DEF TransfersInFlight, NoFlight
<1>4. Transfers' = Transfers
  <2>1. \/ ledger' = ledger
        \/ \E j \in Creates : \E f :
             j # "CreateTransfer" /\ ledger' = [ledger EXCEPT ![j] = f]
    <3>1. \/ ledger' = ledger
          \/ \E j \in Service!Creates : \E f :
               (\A r \in G : KindOf[r] = j) /\ ledger' = [ledger EXCEPT ![j] = f]
      BY DEF Service!Execute
    <3>2. \A j : (\A r \in G : KindOf[r] = j) => j = k
      BY <1>1
    <3> QED
      BY <3>1, <3>2 DEF Service!Creates, Creates
  <2>2. DOMAIN ledger = Creates /\ "CreateTransfer" \in Creates
    BY DEF TypeOK, Creates
  <2>3. ledger'["CreateTransfer"] = ledger["CreateTransfer"]
    BY <2>1, <2>2
  <2> QED
    BY <2>3 DEF Transfers
<1>5. \A a \in Payment : /\ CallerOf(a)' = CallerOf(a) /\ WorkOf(a)' = WorkOf(a)
                         /\ VerdictFor(a)' = VerdictFor(a)
  BY <1>1, <1>2
<1> QED
  BY <1>3, <1>4, <1>5, NothingSeen

(* An answer is an answer to the payments, or to none of them.               *)
LEMMA AnswerSeen ==
  ASSUME NEW k \in Kind, NEW G \in SUBSET Request, G # {}, \A r \in G : KindOf[r] = k,
         FlightOf.members = G, Service!Answer
  PROVE  /\ k = "CreateTransfer" => Handlers!Answer
         /\ k # "CreateTransfer" => UNCHANGED Handlers!serviceVars
<1> DEFINE told == {r \in G : CallerOf(r) = "waiting"}
<1>1. told = {r \in FlightOf.members : [q \in Request |-> CallerOf(q)][r] = "waiting"}
  OBVIOUS
<1> HIDE DEF told
<1>2. /\ FlightOf # NoFlight /\ FlightOf' = NoFlight /\ ledger' = ledger
      /\ \A r \in Request :
           /\ CallerOf(r)' = IF r \in told THEN "answered" ELSE CallerOf(r)
           /\ VerdictFor(r)' = IF r \in told THEN FlightOf.verdict ELSE VerdictFor(r)
           /\ WorkOf(r)' = WorkOf(r)
  <2>1. /\ [r \in Request |-> CallerOf(r)]' =
             [r \in Request |-> IF r \in told THEN "answered" ELSE [q \in Request |-> CallerOf(q)][r]]
        /\ [r \in Request |-> VerdictFor(r)]' =
             [r \in Request |-> IF r \in told THEN FlightOf.verdict
                                ELSE [q \in Request |-> VerdictFor(q)][r]]
        /\ [r \in Request |-> WorkOf(r)]' = [r \in Request |-> WorkOf(r)]
        /\ FlightOf # NoFlight /\ FlightOf' = NoFlight /\ ledger' = ledger
    BY <1>1 DEF Service!Answer, Service!NoFlight, NoFlight, VerdictFor
  <2> QED
    BY <2>1
<1>3. Transfers' = Transfers /\ TransfersInFlight' = NoFlight
  BY <1>2 DEF Transfers, TransfersInFlight, NoFlight
<1>4. Payment \subseteq Request
  BY CallsApart
<1>5. CASE k = "CreateTransfer"
  <2>1. G \subseteq Payment /\ TransfersInFlight = FlightOf
    BY <1>5, GroupSeen DEF TransfersInFlight
  <2>2. told = {r \in TransfersInFlight.members : [a \in Payment |-> CallerOf(a)][r] = "waiting"}
    BY <2>1 DEF told
  <2> QED
    BY <1>2, <1>3, <1>4, <1>5, <2>1, <2>2 DEF Handlers!Answer, Handlers!NoFlight, NoFlight
<1>6. CASE k # "CreateTransfer"
  <2>1. ~(G \subseteq Payment) /\ \A a \in Payment : a \notin told
    BY <1>6, GroupSeen DEF told
  <2>2. TransfersInFlight = NoFlight
    BY <2>1 DEF TransfersInFlight
  <2> QED
    BY <1>2, <1>3, <1>4, <1>6, <2>1, <2>2, NothingSeen
<1> QED
  BY <1>5, <1>6

(* The worker executes and answers a batch.                                  *)
LEMMA ExecuteSeen ==
  ASSUME ServiceInv, NEW k \in Kind, Execute(k)
  PROVE  \/ \E G \in SUBSET Payment : Handlers!Execute(G)
         \/ UNCHANGED Handlers!serviceVars
<1> DEFINE G == Elements(batch[k])
<1>1. Service!Execute(G)
  BY ExecuteIsExecute
<1>2. /\ TypeOK /\ k \in todo /\ result = NoReply
  BY DEF ServiceInv, Execute, Current
<1>3. G \in SUBSET Request /\ G # {} /\ \A r \in G : KindOf[r] = k
  BY <1>2, BatchIsGroup
<1> HIDE DEF G
<1>4. CASE k = "CreateTransfer"
  BY <1>1, <1>2, <1>3, <1>4, GroupSeen, ExecuteOfPayments
<1>5. CASE k # "CreateTransfer"
  BY <1>1, <1>2, <1>3, <1>5, ExecuteOfOthers
<1> QED
  BY <1>4, <1>5

LEMMA RespondSeen ==
  ASSUME ServiceInv, NEW k \in Kind, Respond(k)
  PROVE  Handlers!Answer \/ UNCHANGED Handlers!serviceVars
<1> DEFINE G == Elements(batch[k])
<1>1. Service!Answer
  BY RespondIsAnswer
<1>2. /\ result # NoReply /\ Current(k) /\ k \in todo /\ TodoRanked /\ todo \subseteq Kind
      /\ batch[k] # <<>> /\ batch[k] \in Seq(Request)
      /\ \A i \in DOMAIN batch[k] : KindOf[batch[k][i]] = k
  BY DEF Respond, Current, ServiceInv, TypeOK, OrderInv, AnswerInv, KindsApart, FlightInv
<1>3. FlightOf.members = G
  BY <1>2, FlightOfCurrent DEF FlightOf
<1>4. G \in SUBSET Request /\ G # {} /\ \A r \in G : KindOf[r] = k
  <2>1. batch[k][1] \in G
    BY <1>2 DEF Elements
  <2> QED
    BY <1>2, <2>1 DEF Elements
<1> HIDE DEF G
<1> QED
  BY <1>1, <1>3, <1>4, AnswerSeen

-----------------------------------------------------------------------------
(* What a handler awaits.                                                    *)

LEMMA AwaitedInit == PaymentsInit => PcType /\ AwaitedInv
  BY CallsApart DEF PaymentsInit, Init, PcType, AwaitedInv, UnderWay

LEMMA PcStep == PcType /\ [PaymentsNext]_allVars => PcType'
<1> SUFFICES ASSUME PcType, [PaymentsNext]_allVars PROVE PcType'
  OBVIOUS
<1>1. ASSUME NEW a \in Payment, Begin(a) \/ Proceed(a) \/ HangUp(a) PROVE PcType'
  <2>1. \/ UNCHANGED pc
        \/ \E l \in {"checking", "preparing", "calling", "inserting", "reading", "done", "gone"} :
             pc' = [pc EXCEPT ![a] = l]
    BY <1>1 DEF Begin, Proceed, AtDatabase, CallLedger, TakeResult, AskBalance, TakeBalance, HangUp,
                handlerVars, Handlers!FetchAccount, Handlers!CheckKey, Handlers!Insert,
                Handlers!TakeResult, Handlers!Goto, Handlers!Reply
  <2> QED
    BY <2>1 DEF PcType
<1>2. CASE Crash
  BY <1>2 DEF Crash, PcType
<1> QED
  BY <1>1, <1>2
  DEF PaymentsNext, PcType, Worker, OtherCall, Shutdown, handlerVars, allVars

LEMMA AwaitedStep ==
  TypeOK /\ PcType /\ AwaitedInv /\ [PaymentsNext]_allVars => AwaitedInv'
<1> SUFFICES ASSUME TypeOK, PcType, AwaitedInv, [PaymentsNext]_allVars PROVE AwaitedInv'
  OBVIOUS
<1> USE CallsApart DEF UnderWay, AwaitedInv
<1>0. /\ status \in [Request -> {"idle", "sending", "waiting", "answered", "dropped"}]
      /\ \A a, b \in Payment : LookupOf[a] = LookupOf[b] => a = b
  BY PaymentsAssumption DEF TypeOK
<1>1. ASSUME NEW a \in Payment, Begin(a) \/ AtDatabase(a) PROVE AwaitedInv'
  BY <1>1 DEF Begin, AtDatabase, vars, Handlers!FetchAccount, Handlers!CheckKey, Handlers!Insert,
              Handlers!Goto, Handlers!Reply, PcType
<1>2. ASSUME NEW a \in Payment, CallLedger(a) PROVE AwaitedInv'
  BY <1>0, <1>2 DEF CallLedger, Submit, vars, Handlers!Goto, Handlers!Reply, PcType
<1>3. ASSUME NEW a \in Payment, TakeResult(a) PROVE AwaitedInv'
  <2>1. CallerOf(a) = "answered" /\ UNCHANGED status
    BY <1>3 DEF TakeResult, vars, Handlers!TakeResult, Handlers!Answered
  <2>2. status[a] = "answered"
    BY <2>1 DEF CallerOf
  <2> QED
    BY <1>3, <2>1, <2>2
    DEF TakeResult, Handlers!TakeResult, Handlers!Goto, Handlers!Reply, PcType
<1>4. ASSUME NEW a \in Payment, AskBalance(a) PROVE AwaitedInv'
  BY <1>0, <1>4 DEF AskBalance, Submit, handlerVars
<1>5. ASSUME NEW a \in Payment, TakeBalance(a) PROVE AwaitedInv'
  BY <1>0, <1>5 DEF TakeBalance, vars, Handlers!Reply, PcType
<1>6. ASSUME NEW a \in Payment, HangUp(a) PROVE AwaitedInv'
  <2>1. pc' = [pc EXCEPT ![a] = "gone"]
    BY <1>6 DEF HangUp, Handlers!Goto
  <2>2. ASSUME status[a] \notin UnderWay, status[LookupOf[a]] \notin UnderWay, UNCHANGED status
        PROVE  AwaitedInv'
    BY <2>1, <2>2 DEF PcType
  <2>3. ASSUME NEW r \in {a, LookupOf[a]}, status[r] \in UnderWay, Cancel(r) PROVE AwaitedInv'
    BY <1>0, <2>1, <2>3 DEF Cancel, PcType
  <2>4. \/ UNCHANGED vars /\ status[a] \notin UnderWay /\ status[LookupOf[a]] \notin UnderWay
        \/ \E r \in {a, LookupOf[a]} : status[r] \in UnderWay /\ Cancel(r)
    BY <1>6 DEF HangUp
  <2> QED
    BY <2>2, <2>3, <2>4 DEF vars
<1>7. ASSUME NEW r \in Request, Worker(Enqueue(r)) PROVE AwaitedInv'
  BY <1>0, <1>7 DEF Worker, Enqueue, handlerVars
<1>8. ASSUME NEW r \in Others, OtherCall(r) PROVE AwaitedInv'
  <2>1. \A a \in Payment : a # r /\ LookupOf[a] # r
    BY DEF Others
  <2>2. UNCHANGED pc /\ \E c : status' = [status EXCEPT ![r] = c]
    BY <1>8 DEF OtherCall, Worker, Submit, Cancel, handlerVars
  <2> QED
    BY <1>0, <2>1, <2>2
<1>9. CASE Worker(Receive) \/ Worker(Tick) \/ Worker(Close) \/ Shutdown
  BY <1>9 DEF Worker, Receive, Tick, Close, Shutdown, Exit, handlerVars
<1>10. ASSUME NEW k \in Kind, Worker(Execute(k)) \/ Worker(Respond(k)) PROVE AwaitedInv'
  BY <1>0, <1>10 DEF Worker, Execute, Respond, handlerVars
<1>11. CASE Crash
  BY <1>0, <1>11 DEF Crash, Restart
<1>12. CASE UNCHANGED allVars
  BY <1>12 DEF allVars, vars, handlerVars
<1> QED
  BY <1>1, <1>2, <1>3, <1>4, <1>5, <1>6, <1>7, <1>8, <1>9, <1>10, <1>11, <1>12
  DEF PaymentsNext, Proceed

-----------------------------------------------------------------------------
(* Each step of Payments is one of Transactions, or none.                    *)

LEMMA CallLedgerIsStep ==
  ASSUME ServiceInv, NEW a \in Payment, CallLedger(a) PROVE Handlers!Step(a)
<1>1. CASE Submit(a) /\ Handlers!Goto(a, "calling")
  BY <1>1, CallsApart, SubmitIsSubmit, CallSeen DEF CallLedger, Handlers!CallLedger, Handlers!Step
<1>2. CASE UNCHANGED vars /\ Handlers!Reply(a, "ERROR")
  BY <1>2, QuietSeen DEF CallLedger, Handlers!CallLedger, Handlers!Step
<1> QED
  BY <1>1, <1>2 DEF CallLedger

LEMMA ProceedIsStep ==
  ASSUME ServiceInv, NEW a \in Payment, Begin(a) \/ Proceed(a)
  PROVE  Handlers!Step(a) \/ UNCHANGED Handlers!vars
<1>1. CASE Begin(a) \/ AtDatabase(a) \/ TakeResult(a)
  BY <1>1 DEF Begin, AtDatabase, TakeResult, Handlers!Step
<1>2. CASE AskBalance(a)
  <2>1. Service!Submit(LookupOf[a]) /\ LookupOf[a] \in Request /\ LookupOf[a] \notin Payment
    BY <1>2, CallsApart, SubmitIsSubmit DEF AskBalance
  <2> QED
    BY <1>2, <2>1, CallSeen DEF AskBalance, handlerVars, Handlers!vars, Handlers!handlerVars
<1>3. CASE TakeBalance(a)
  BY <1>3, QuietSeen DEF TakeBalance, Handlers!ReadBalance, Handlers!Step
<1> QED
  BY <1>1, <1>2, <1>3, CallLedgerIsStep DEF Proceed

LEMMA HangUpIsHangUp ==
  ASSUME ServiceInv, AwaitedInv, NEW a \in Payment, HangUp(a)
  PROVE  Handlers!HangUp(a)
<1> USE CallsApart
<1>1. /\ Handlers!Live(a) /\ Handlers!Goto(a, "gone") /\ UNCHANGED row
      /\ \/ UNCHANGED vars /\ status[a] \notin UnderWay
         \/ \E r \in {a, LookupOf[a]} : status[r] \in UnderWay /\ Cancel(r)
  BY DEF HangUp, UnderWay
<1>2. CASE UNCHANGED vars /\ status[a] \notin UnderWay
  <2>1. CallerOf(a) # "waiting"
    BY <1>2 DEF CallerOf, UnderWay
  <2> QED
    BY <1>1, <1>2, <2>1, QuietSeen DEF Handlers!HangUp
<1>3. CASE Cancel(a)
  <2>1. Service!Drop(a) /\ CallerOf(a) = "waiting"
    BY <1>3, CancelIsDrop DEF Cancel, CallerOf
  <2> QED
    BY <1>1, <2>1, CallSeen DEF Handlers!HangUp
<1>4. CASE status[LookupOf[a]] \in UnderWay /\ Cancel(LookupOf[a])
  <2>1. Service!Drop(LookupOf[a]) /\ LookupOf[a] \notin Payment
    BY <1>4, CancelIsDrop
  <2>2. pc[a] = "reading" /\ status[a] \notin UnderWay
    BY <1>4 DEF AwaitedInv
  <2>3. CallerOf(a) # "waiting"
    BY <2>2 DEF CallerOf, UnderWay
  <2> QED
    BY <1>1, <2>1, <2>3, CallSeen DEF Handlers!HangUp
<1> QED
  BY <1>1, <1>2, <1>3, <1>4

LEMMA WorkerIsService ==
  ASSUME ServiceInv, UNCHANGED handlerVars,
         \/ \E r \in Request : Enqueue(r)
         \/ \E r \in Others : Submit(r) \/ Cancel(r)
         \/ Receive \/ Tick \/ Close
         \/ \E k \in Kind : Execute(k) \/ Respond(k)
  PROVE  Handlers!ServiceStep \/ UNCHANGED Handlers!vars
<1> SUFFICES ASSUME ~UNCHANGED Handlers!serviceVars
             PROVE  \/ \E a \in Payment : Handlers!Accept(a)
                    \/ \E G \in SUBSET Payment : Handlers!Execute(G)
                    \/ Handlers!Answer
  BY DEF Handlers!ServiceStep, Handlers!vars, Handlers!handlerVars, handlerVars
<1>1. ASSUME NEW r \in Request, Enqueue(r) PROVE \E a \in Payment : Handlers!Accept(a)
  BY <1>1, EnqueueIsAccept, CallSeen
<1>2. ASSUME NEW r \in Others, Submit(r) \/ Cancel(r) PROVE FALSE
  <2>1. r \in Request /\ r \notin Payment
    BY DEF Others
  <2> QED
    BY <1>2, <2>1, SubmitIsSubmit, CancelIsDrop, CallSeen
<1>3. ASSUME Receive \/ Tick PROVE FALSE
  BY <1>3, SelectingIsStutter, StutterSeen
<1>4. ASSUME Close PROVE FALSE
  <2>1. UNCHANGED Service!serviceVars
    BY <1>4 DEF Close, workerVars, Service!serviceVars, CallerOf, WorkOf, Queued, FlightOf, Current,
                VerdictOf
  <2> QED
    BY <2>1, StutterSeen
<1> QED
  BY <1>1, <1>2, <1>3, <1>4, ExecuteSeen, RespondSeen

LEMMA StopIsCrash ==
  ASSUME ServiceInv, PcType, Shutdown \/ Crash PROVE Handlers!Crash
<1>1. Handlers!Lose
  BY StopIsLose, LoseSeen DEF Shutdown, Crash, Worker
<1>2. pc' = [a \in Payment |-> IF Handlers!Live(a) THEN "gone" ELSE pc[a]]
      /\ UNCHANGED <<row, response>>
  <2>1. CASE Crash
    BY <2>1 DEF Crash
  <2>2. CASE Shutdown
    BY <2>2 DEF Shutdown, Finished, Worker, handlerVars, PcType
  <2> QED
    BY <2>1, <2>2
<1> QED
  BY <1>1, <1>2 DEF Handlers!Crash

LEMMA PaymentsStep ==
  ServiceInv /\ PcType /\ AwaitedInv /\ [PaymentsNext]_allVars
    => [Handlers!Next]_(Handlers!vars)
<1> SUFFICES ASSUME ServiceInv, PcType, AwaitedInv, [PaymentsNext]_allVars
             PROVE  Handlers!Next \/ UNCHANGED Handlers!vars
  OBVIOUS
<1>1. ASSUME NEW a \in Payment, Begin(a) \/ Proceed(a) \/ HangUp(a)
      PROVE  Handlers!Next \/ UNCHANGED Handlers!vars
  BY <1>1, ProceedIsStep, HangUpIsHangUp DEF Handlers!Next
<1>2. CASE Shutdown \/ Crash
  BY <1>2, StopIsCrash DEF Handlers!Next
<1>3. CASE UNCHANGED allVars
  BY <1>3, QuietSeen DEF allVars, Handlers!vars, Handlers!handlerVars, handlerVars
<1>4. CASE /\ UNCHANGED handlerVars
           /\ \/ \E r \in Request : Enqueue(r)
              \/ \E r \in Others : Submit(r) \/ Cancel(r)
              \/ Receive \/ Tick \/ Close
              \/ \E k \in Kind : Execute(k) \/ Respond(k)
  BY <1>4, WorkerIsService DEF Handlers!Next
<1> QED
  BY <1>1, <1>2, <1>3, <1>4 DEF PaymentsNext, Worker, OtherCall

(* On the real client and worker, which they share with every other call,    *)
(* credit_user and debit_user behave as Transactions says.                   *)
THEOREM HandlersImplemented == PaymentsSpec => ImplementsHandlers
<1>1. PaymentsInit => Handlers!Init
  <2> SUFFICES ASSUME PaymentsInit PROVE Handlers!Init
    OBVIOUS
  <2>1. Queued = {} /\ Elements(executed) = {}
    BY DEF PaymentsInit, Init, Queued, Empty, Elements
  <2>2. FlightOf = NoFlight /\ TransfersInFlight = NoFlight
    BY DEF PaymentsInit, Init, FlightOf, TransfersInFlight, NoFlight
  <2>3. \A a \in Payment : CallerOf(a) = "idle" /\ WorkOf(a) = "none" /\ VerdictFor(a) = "none"
    BY <2>1, CallsApart DEF PaymentsInit, Init, CallerOf, WorkOf, VerdictFor
  <2>4. Transfers = [k \in Handlers!Creates |-> [i \in Id |-> Nobody]]
    BY DEF PaymentsInit, Init, Transfers, Creates, Handlers!Creates
  <2> QED
    BY <2>2, <2>3, <2>4
    DEF PaymentsInit, Handlers!Init, Handlers!ServiceInit, Handlers!NoFlight, NoFlight
<1>2. ServiceInv => TypeOK
  BY DEF ServiceInv
<1>3. PaymentsSpec => [](PcType /\ AwaitedInv)
  BY <1>2, WorkerHolds, AwaitedInit, PcStep, AwaitedStep, PTL DEF PaymentsSpec
<1> QED
  BY <1>1, <1>3, WorkerHolds, PaymentsStep, PTL DEF PaymentsSpec, ImplementsHandlers, Handlers!Spec
=============================================================================
