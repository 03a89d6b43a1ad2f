------------------------------ MODULE Payments ------------------------------
(***************************************************************************)
(* credit_user and debit_user on the real client and worker.               *)
(*                                                                         *)
(* Transactions has these handlers on top of BatchService.  Here they call *)
(* AppTbClient as TbWorker has it, next to all the other calls that share  *)
(* its channel, buffers and ticks: their own lookup_account calls, and the *)
(* calls of other handlers.  A graceful shutdown waits for the handlers.   *)
(* The claim is that nothing is seen of all this: Payments implements      *)
(* Transactions.                                                           *)
(***************************************************************************)
EXTENDS TbWorker, Integers

CONSTANTS
  Payment,    \* HTTP requests for a credit or a debit; each gives its name to
              \* its create_transfer call
  LookupOf,   \* [Payment -> Request]: its lookup_account call
  TypeOf, AmountOf, MaxSigned, NoRow     \* as in Transactions

ASSUME PaymentsAssumption ==
  /\ Payment = {r \in Request : KindOf[r] = "CreateTransfer"}
  /\ LookupOf \in [Payment -> {r \in Request : KindOf[r] = "LookupAccount"}]
  /\ \A a, b \in Payment : LookupOf[a] = LookupOf[b] => a = b
  /\ TypeOf \in [Payment -> {"CREDIT", "DEBIT"}]
  /\ MaxSigned \in Nat
  /\ AmountOf \in [Payment -> 0 .. (2 * MaxSigned + 1)]

VARIABLES
  pc,        \* the step each handler is at
  row,       \* the transactions table, by idempotency key
  response   \* what each HTTP client was told

handlerVars == <<pc, row, response>>
allVars == <<vars, handlerVars>>

-----------------------------------------------------------------------------
(* What the handlers see of the worker: their own transfers.                 *)

Transfers == [k \in Creates |->
  IF k = "CreateTransfer" THEN ledger[k] ELSE [i \in Id |-> Nobody]]

NoFlight == [members |-> {}, verdict |-> "error"]
TransfersInFlight == IF FlightOf.members \subseteq Payment THEN FlightOf ELSE NoFlight

VerdictFor(r) == IF reply[r] = NoReply THEN "none" ELSE VerdictOf(reply[r])

Handlers == INSTANCE Transactions WITH
  Request <- Payment,
  KindOf <- [a \in Payment |-> KindOf[a]],
  TargetOf <- [a \in Payment |-> TargetOf[a]],
  MaxGroup <- BatchMaxSize,
  MayFail <- TRUE,
  caller <- [a \in Payment |-> CallerOf(a)],
  work <- [a \in Payment |-> WorkOf(a)],
  owner <- Transfers,
  flight <- TransfersInFlight,
  verdict <- [a \in Payment |-> VerdictFor(a)]

Others == Request \ (Payment \cup {LookupOf[a] : a \in Payment})

PaymentsInit ==
  /\ Init
  /\ pc = [a \in Payment |-> "new"]
  /\ row = [i \in Id |-> NoRow]
  /\ response = [a \in Payment |-> "none"]

-----------------------------------------------------------------------------
(* The handlers.  A step that Transactions takes without the ledger is the   *)
(* same step here, and the worker has no part in it.                         *)

(* A server that is closing takes no new requests. *)
Begin(a) ==
  /\ mode = "serving"
  /\ UNCHANGED vars
  /\ Handlers!FetchAccount(a)

AtDatabase(a) ==
  /\ UNCHANGED vars
  /\ Handlers!CheckKey(a) \/ Handlers!Insert(a)

(* create_transfer(..).await, behind the last queries that may fail. *)
CallLedger(a) ==
  /\ pc[a] = "preparing"
  /\ \/ Submit(a) /\ Handlers!Goto(a, "calling")
     \/ UNCHANGED vars /\ Handlers!Reply(a, "ERROR")
  /\ UNCHANGED row

TakeResult(a) ==
  /\ UNCHANGED vars
  /\ Handlers!TakeResult(a)

(* lookup_account(..).await, for the balance in the response. *)
AskBalance(a) ==
  /\ pc[a] = "reading"
  /\ Submit(LookupOf[a])
  /\ UNCHANGED handlerVars

TakeBalance(a) ==
  /\ pc[a] = "reading" /\ status[LookupOf[a]] = "answered"
  /\ Handlers!Reply(a, IF reply[LookupOf[a]].ok THEN "SUCCESS" ELSE "ERROR")
  /\ UNCHANGED <<vars, row>>

Proceed(a) ==
  AtDatabase(a) \/ CallLedger(a) \/ TakeResult(a) \/ AskBalance(a) \/ TakeBalance(a)

(* The client hangs up: the handler goes, with the call it awaits. *)
HangUp(a) ==
  LET awaited == {r \in {a, LookupOf[a]} : status[r] \in {"sending", "waiting"}}
  IN /\ Handlers!Live(a)
     /\ \/ awaited = {} /\ UNCHANGED vars
        \/ \E r \in awaited : Cancel(r)
     /\ Handlers!Goto(a, "gone")
     /\ UNCHANGED row

-----------------------------------------------------------------------------
(* The worker, the other handlers and the process. *)

Worker(A) == A /\ UNCHANGED handlerVars

OtherCall(r) == Worker(Submit(r) \/ Cancel(r))

(* with_graceful_shutdown waits for the handlers, not only for their calls.  *)
NoCallPending == TRUE                                       \* mutant of Finished
Finished == \A a \in Payment : ~Handlers!Live(a)
Shutdown == Finished /\ Worker(Exit)

Crash ==
  /\ Restart
  /\ pc' = [a \in Payment |-> IF Handlers!Live(a) THEN "gone" ELSE pc[a]]
  /\ UNCHANGED <<row, response>>

PaymentsNext ==
  \/ \E a \in Payment : Begin(a) \/ Proceed(a) \/ HangUp(a)
  \/ \E r \in Request : Worker(Enqueue(r))
  \/ \E r \in Others : OtherCall(r)
  \/ Worker(Receive) \/ Worker(Tick)
  \/ \E k \in Kind : Worker(Execute(k)) \/ Worker(Respond(k))
  \/ Worker(Close)
  \/ Shutdown
  \/ Crash

PaymentsSpec == PaymentsInit /\ [][PaymentsNext]_allVars

(* As in TbWorker; and a handler that has begun goes on: the database        *)
(* answers, be it with an error.                                             *)
PaymentsFairness ==
  /\ \A a \in Payment : WF_allVars(Proceed(a))
  /\ \A r \in Request : WF_allVars(Worker(Enqueue(r)))
  /\ WF_allVars(Worker(Receive)) /\ WF_allVars(Worker(Tick))
  /\ \A k \in Kind : WF_allVars(Worker(Execute(k))) /\ WF_allVars(Worker(Respond(k)))
  /\ WF_allVars(Shutdown)

PaymentsFairSpec == PaymentsSpec /\ PaymentsFairness

-----------------------------------------------------------------------------
(* Properties. *)

(* The handlers cannot tell the worker from BatchService: what other calls   *)
(* are batched, flushed or lost next to theirs, in what order, and when the  *)
(* process stops, makes no behaviour that Transactions does not have.  So    *)
(* all that is proved of Transactions holds of them on the real worker.      *)
ImplementsHandlers == Handlers!Spec

(* A request that was taken is answered, unless its client or the process    *)
(* goes away: neither of its two calls waits for others to fill a batch.     *)
EveryPaymentEnds == \A a \in Payment : Handlers!Live(a) ~> ~Handlers!Live(a)
=============================================================================
