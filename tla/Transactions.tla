---------------------------- MODULE Transactions ----------------------------
(***************************************************************************)
(* credit_user and debit_user (src/src/api/handlers/transaction.rs): money *)
(* moves in the ledger first and is recorded in the transactions table     *)
(* second, both under one idempotency key.                                 *)
(*                                                                         *)
(* A member of Request is one HTTP request; it makes at most one           *)
(* create_transfer call, through the service that BatchService specifies   *)
(* and TbWorker implements, and the id of its transfer is the idempotency  *)
(* key: TargetOf[a].  Requests with one key are a client's retries, or its *)
(* duplicates, and may run at the same time.                               *)
(***************************************************************************)
EXTENDS BatchService, Integers

CONSTANTS
  TypeOf,     \* [Request -> {"CREDIT", "DEBIT"}]
  AmountOf,   \* [Request -> u64]: payload.amount
  MaxSigned,  \* i64::MAX; u64::MAX is 2 * MaxSigned + 1
  NoRow,      \* "no row has this idempotency key"
  MayFail     \* may the database, the ledger, the client or the process fail?

Row == [type : {"CREDIT", "DEBIT"}, amount : 1 .. MaxSigned]

ASSUME TransactionsAssumption ==
  /\ \A a \in Request : KindOf[a] = "CreateTransfer"
  /\ TypeOf \in [Request -> {"CREDIT", "DEBIT"}]
  /\ MaxSigned \in Nat
  /\ AmountOf \in [Request -> 0 .. (2 * MaxSigned + 1)]
  /\ MayFail \in BOOLEAN
  /\ NoRow \notin Row

VARIABLES
  pc,        \* the step each handler is at
  row,       \* the transactions table, by idempotency key
  response   \* what each HTTP client was told

handlerVars == <<pc, row, response>>
vars == <<serviceVars, handlerVars>>

Response == {"none", "SUCCESS", "ALREADY_PROCESSED", "BAD_REQUEST", "ERROR"}

TypeOK ==
  /\ ServiceTypeOK
  /\ pc \in [Request -> {"new", "checking", "preparing", "calling", "inserting",
                         "reading", "done", "gone"}]
  /\ row \in [Id -> Row \cup {NoRow}]
  /\ response \in [Request -> Response]

Init ==
  /\ ServiceInit
  /\ pc = [a \in Request |-> "new"]
  /\ row = [i \in Id |-> NoRow]
  /\ response = [a \in Request |-> "none"]

-----------------------------------------------------------------------------
(* The handlers, one action per await. *)

Goto(a, l) == pc' = [pc EXCEPT ![a] = l] /\ UNCHANGED response
Reply(a, what) ==
  /\ pc' = [pc EXCEPT ![a] = "done"]
  /\ response' = [response EXCEPT ![a] = what]

(* get_user_provider_details: there is an account, or 404 or 500. *)
FetchAccount(a) ==
  /\ pc[a] = "new"
  /\ Goto(a, "checking") \/ (MayFail /\ Reply(a, "ERROR"))
  /\ UNCHANGED <<serviceVars, row>>

(* "if let Ok(Some(existing))": a failed query counts as "not there". *)
CheckKey(a) ==
  /\ pc[a] = "checking"
  /\ \/ row[TargetOf[a]] # NoRow /\ Reply(a, "ALREADY_PROCESSED")
     \/ (row[TargetOf[a]] = NoRow \/ MayFail) /\ Goto(a, "preparing")
  /\ UNCHANGED <<serviceVars, row>>

(* The provider is fetched, a debit disables the user's priority (Priority    *)
(* models that), and create_transfer is called.                              *)
CallLedger(a) ==
  /\ pc[a] = "preparing"
  /\ \/ Submit(a) /\ Goto(a, "calling")
     \/ MayFail /\ Reply(a, "ERROR") /\ UNCHANGED serviceVars
  /\ UNCHANGED row

(* "if tb_result.is_empty()" *)
NotAnError(a) == verdict[a] # "error"                   \* mutant of Success
Success(a) == verdict[a] = "accepted"

(* resp_rx.await: there is no timeout. *)
AnsweredOrLate(a) == caller[a] # "idle"                 \* mutant of Answered
Answered(a) == caller[a] = "answered"

TakeResult(a) ==
  /\ pc[a] = "calling" /\ Answered(a)
  /\ IF Success(a) THEN Goto(a, "inserting")
     ELSE Reply(a, IF verdict[a] = "error" THEN "ERROR" ELSE "BAD_REQUEST")
  /\ UNCHANGED <<serviceVars, row>>

(* payload.amount as i64 *)
AsI64(n) == IF n <= MaxSigned THEN n ELSE n - 2 * (MaxSigned + 1)

RowOf(a) == [type |-> TypeOf[a], amount |-> AsI64(AmountOf[a])]

(* The UNIQUE key and CHECK (amount > 0) of the table. *)
StorableUnchecked(a) == row[TargetOf[a]] = NoRow        \* mutant of Storable
Storable(a) == row[TargetOf[a]] = NoRow /\ RowOf(a).amount > 0

(* execute_credit_transfer, execute_debit_transfer: one database transaction. *)
(* An error may be reported although the commit took place.                  *)
Insert(a) ==
  /\ pc[a] = "inserting"
  /\ \/ /\ Storable(a)
        /\ row' = [row EXCEPT ![TargetOf[a]] = RowOf(a)]
        /\ Goto(a, "reading") \/ (MayFail /\ Reply(a, "ERROR"))
     \/ /\ ~Storable(a) \/ MayFail
        /\ Reply(a, "ERROR")
        /\ UNCHANGED row
  /\ UNCHANGED serviceVars

(* lookup_account, for the balance in the response. *)
ReadBalance(a) ==
  /\ pc[a] = "reading"
  /\ Reply(a, "SUCCESS") \/ (MayFail /\ Reply(a, "ERROR"))
  /\ UNCHANGED <<serviceVars, row>>

-----------------------------------------------------------------------------
(* The client and the process. *)

Live(a) == pc[a] \notin {"new", "done", "gone"}

(* The client hangs up: axum drops the handler at the await it is in. *)
HangUp(a) ==
  /\ MayFail /\ Live(a)
  /\ IF caller[a] = "waiting" THEN Drop(a) ELSE UNCHANGED serviceVars
  /\ Goto(a, "gone")
  /\ UNCHANGED row

(* The process stops and is started again. *)
Crash ==
  /\ MayFail
  /\ Lose
  /\ pc' = [a \in Request |-> IF Live(a) THEN "gone" ELSE pc[a]]
  /\ UNCHANGED <<row, response>>

(* A step of the service between the handlers and the ledger. *)
ServiceStep ==
  /\ \/ \E a \in Request : Accept(a)
     \/ \E G \in SUBSET Request : Execute(G)
     \/ Answer
  /\ ~MayFail => flight'.verdict # "error" \/ flight'.members = {}
  /\ UNCHANGED handlerVars

Step(a) == FetchAccount(a) \/ CheckKey(a) \/ CallLedger(a) \/ TakeResult(a)
           \/ Insert(a) \/ ReadBalance(a)

Next ==
  \/ \E a \in Request : Step(a) \/ HangUp(a)
  \/ Crash
  \/ ServiceStep

Spec == Init /\ [][Next]_vars

-----------------------------------------------------------------------------
(* Properties. *)

PostedBy(i) == owner["CreateTransfer"][i]

(* What the table says of a key is what the ledger did under that key: same  *)
(* direction, same amount (no wrapped or zero amount), never a row for a     *)
(* transfer that was not posted.                                             *)
RowMatchesLedger ==
  \A i \in Id : row[i] # NoRow =>
    /\ PostedBy(i) # Nobody
    /\ row[i] = [type |-> TypeOf[PostedBy(i)], amount |-> AmountOf[PostedBy(i)]]

(* A request that got past the ledger finds no row under its key, although   *)
(* the check for one was made long before and may have failed: the UNIQUE    *)
(* constraint never fires, and no two requests of a key record at once.      *)
InsertNeverConflicts ==
  \A a \in Request : pc[a] = "inserting" => row[TargetOf[a]] = NoRow

(* SUCCESS is told to one request per key, the one whose transfer was posted *)
(* and recorded.                                                             *)
SuccessIsPosted ==
  \A a \in Request : response[a] = "SUCCESS" =>
    PostedBy(TargetOf[a]) = a /\ row[TargetOf[a]] = RowOf(a)

(* The row of a key is written by the request that posted it and by no       *)
(* other: once that request has ended without a row, no retry repairs it.    *)
OnlyOwnerRecords ==
  [][\A i \in Id : row'[i] # row[i] =>
       \E a \in Request : a = PostedBy(i) /\ pc[a] = "inserting"]_vars

(* Whatever a client was told, an error included, is the end of the matter:  *)
(* its own transfer is not posted later, out of a channel, a buffer or a     *)
(* batch in flight.  Only who was told nothing may still move money.         *)
AnsweredIsDecided ==
  [][\A a \in Request :
       PostedBy(TargetOf[a]) # a /\ PostedBy(TargetOf[a])' = a => response[a] = "none"]_vars

(* The documented meaning of status 400 of a debit, "Insufficient funds or   *)
(* bad request": a request so answered did not move money.                   *)
RejectedNotPosted ==
  \A a \in Request : TypeOf[a] = "DEBIT" /\ response[a] = "BAD_REQUEST"
    => PostedBy(TargetOf[a]) # a
=============================================================================
