------------------------------ MODULE TbWorker ------------------------------
(***************************************************************************)
(* The TigerBeetle client and worker of wurzburg (src/src/tigerbeetle).    *)
(*                                                                         *)
(* A handler that calls AppTbClient makes a oneshot channel, sends a       *)
(* command on a bounded mpsc channel and awaits the oneshot.  One worker   *)
(* task takes the commands in order and collects them in a buffer per      *)
(* kind; a buffer is handed to the ledger in ONE call when it holds        *)
(* BatchMaxSize commands or at the next tick of a timer, and what that     *)
(* call returns is cloned to every oneshot of the batch.                   *)
(*                                                                         *)
(* A member of Request is one call of AppTbClient, made at most once.  The *)
(* ledger itself is outside src/: a creation succeeds at most once per id, *)
(* and may be turned down for any other reason (balance, bad account).     *)
(***************************************************************************)
EXTENDS Naturals, Sequences, FiniteSets

CONSTANTS
  Request,          \* the calls made to AppTbClient
  Id,               \* ledger ids (u128 made from a UUID)
  KindOf,           \* [Request -> Kind]: the TbCommand variant of a call
  TargetOf,         \* [Request -> Id]: the id of the transfer or account it names
  BatchMaxSize,     \* tigerbeetle.batch_max_size
  ChannelCapacity,  \* tigerbeetle.channel_capacity
  Nobody,           \* "no request has created this id"
  NoReply           \* "no result yet"

Creates == {"CreateTransfer", "CreateAccount"}
BatchedLookups == {"LookupAccount", "LookupTransfer"}
DirectLookups == {"LookupAccounts", "GetAccountBalances"}
Batched == Creates \cup BatchedLookups
Kind == Batched \cup DirectLookups

(* What a call to the ledger returns: an error, or, for a creation, the     *)
(* positions it turned down, and for a lookup what it found at which        *)
(* position.  All of it goes to every caller of the batch.                  *)
Reply == [ok : BOOLEAN, rejected : SUBSET Nat, found : SUBSET (Nat \X Id)]

ASSUME WorkerAssumption ==
  /\ KindOf \in [Request -> Kind]
  /\ TargetOf \in [Request -> Id]
  /\ BatchMaxSize \in Nat \ {0}
  /\ ChannelCapacity \in Nat \ {0}
  /\ Nobody \notin Request
  /\ NoReply \notin Reply

VARIABLES
  status,      \* what each call is doing
  channel,     \* the mpsc channel between the callers and the worker
  batch,       \* per kind, the commands collected (transfer_batch, ...)
  responders,  \* per kind, their oneshot senders (transfer_responders, ...)
  todo,        \* the kinds the worker is processing before its next select!
  result,      \* what the ledger returned for the batch being processed
  ledger,      \* which request created an id, per table of the ledger
  reply,       \* what each caller received on its oneshot
  mode,        \* the process: serving, closing (graceful shutdown) or stopped
  sent,        \* history: the order in which commands entered the channel
  executed     \* history: the order in which commands were handed to the ledger

workerVars == <<channel, batch, responders, todo, result>>
vars == <<status, channel, batch, responders, todo, result, ledger, reply,
          mode, sent, executed>>

Elements(s) == {s[i] : i \in DOMAIN s}
Empty == [k \in Kind |-> <<>>]

TypeOK ==
  /\ status \in [Request -> {"idle", "sending", "waiting", "answered", "dropped"}]
  /\ channel \in Seq(Request) /\ Len(channel) <= ChannelCapacity
  /\ batch \in [Kind -> Seq(Request)]
  /\ responders \in [Kind -> Seq(Request)]
  /\ todo \in SUBSET Kind
  /\ result \in Reply \cup {NoReply}
  /\ ledger \in [Creates -> [Id -> Request \cup {Nobody}]]
  /\ reply \in [Request -> Reply \cup {NoReply}]
  /\ mode \in {"serving", "closing", "stopped"}
  /\ sent \in Seq(Request)
  /\ executed \in Seq(Request)

Init ==
  /\ status = [r \in Request |-> "idle"]
  /\ channel = <<>>
  /\ batch = Empty
  /\ responders = Empty
  /\ todo = {}
  /\ result = NoReply
  /\ ledger = [k \in Creates |-> [i \in Id |-> Nobody]]
  /\ reply = [r \in Request |-> NoReply]
  /\ mode = "serving"
  /\ sent = <<>>
  /\ executed = <<>>

-----------------------------------------------------------------------------
(* The callers. *)

(* A handler calls AppTbClient; its send() may have to wait for a free slot. *)
(* During a shutdown the handlers in flight go on, with calls of their own.  *)
Submit(r) ==
  /\ mode # "stopped"
  /\ status[r] = "idle"
  /\ status' = [status EXCEPT ![r] = "sending"]
  /\ UNCHANGED <<workerVars, ledger, reply, mode, sent, executed>>

(* send() finds a free slot; the caller goes on to await its oneshot. *)
HasSlotTooMany == Len(channel) <= ChannelCapacity           \* mutant of HasSlot
HasSlot == Len(channel) < ChannelCapacity

Enqueue(r) ==
  /\ status[r] = "sending"
  /\ HasSlot
  /\ status' = [status EXCEPT ![r] = "waiting"]
  /\ channel' = Append(channel, r)
  /\ sent' = Append(sent, r)
  /\ UNCHANGED <<batch, responders, todo, result, ledger, reply, mode, executed>>

(* The client hangs up and axum drops the handler's future, in send() or     *)
(* while it awaits the oneshot.  A command already sent stays where it is.   *)
Cancel(r) ==
  /\ status[r] \in {"sending", "waiting"}
  /\ status' = [status EXCEPT ![r] = "dropped"]
  /\ UNCHANGED <<workerVars, ledger, reply, mode, sent, executed>>

-----------------------------------------------------------------------------
(* The worker. *)

(* A direct lookup is answered as soon as it is received: a batch of one. *)
Limit(k) == IF k \in Batched THEN BatchMaxSize ELSE 1
FullTooLate(k, n) == n > BatchMaxSize                       \* mutant of Full
Full(k, n) == n >= Limit(k)

CollectedInFront(buffer, k, r) == [buffer EXCEPT ![k] = <<r>> \o @]    \* mutant
Collected(buffer, k, r) == [buffer EXCEPT ![k] = Append(@, r)]
Kept(buffer, k) == buffer                                   \* mutant of Cleared
Cleared(buffer, k) == [buffer EXCEPT ![k] = <<>>]

(* The worker is in select!, with nothing being processed. *)
Selecting == mode # "stopped" /\ todo = {}

(* receiver.recv(): the command joins its buffer, a full buffer is processed. *)
Receive ==
  /\ Selecting
  /\ channel # <<>>
  /\ LET r == Head(channel)
         k == KindOf[r]
     IN /\ batch' = Collected(batch, k, r)
        /\ responders' = Collected(responders, k, r)
        /\ todo' = IF Full(k, Len(batch[k]) + 1) THEN {k} ELSE {}
  /\ channel' = Tail(channel)
  /\ UNCHANGED <<status, result, ledger, reply, mode, sent, executed>>

(* timer.tick(): every buffer that is not empty is processed.  A tick that   *)
(* finds all buffers empty changes nothing.                                  *)
PendingCreates == {k \in Creates : batch[k] # <<>>}         \* mutant of Pending
PendingFull == {k \in Batched : Len(batch[k]) >= BatchMaxSize}       \* another
Pending == {k \in Batched : batch[k] # <<>>}

Tick ==
  /\ Selecting
  /\ Pending # {}
  /\ todo' = Pending
  /\ UNCHANGED <<status, channel, batch, responders, result, ledger, reply,
                 mode, sent, executed>>

(* The order of the four ifs of a tick. *)
FlushRank == [k \in Kind |->
  CASE k = "CreateTransfer" -> 1
    [] k = "CreateAccount" -> 2
    [] k = "LookupAccount" -> 3
    [] OTHER -> 4]

Current(k) == k \in todo /\ \A j \in todo : FlushRank[k] <= FlushRank[j]

TableOf(k) ==
  IF k \in {"CreateTransfer", "LookupTransfer"} THEN "CreateTransfer" ELSE "CreateAccount"

Positions(k) == DOMAIN batch[k]
TargetAt(k, i) == TargetOf[batch[k][i]]

(* The positions the ledger may take together: new and distinct ids. *)
Acceptable(k, A) ==
  /\ \A i \in A : ledger[k][TargetAt(k, i)] = Nobody
  /\ \A i, j \in A : TargetAt(k, i) = TargetAt(k, j) => i = j

LedgerWith(k, A) == [ledger EXCEPT ![k] = [d \in Id |->
  IF \E i \in A : TargetAt(k, i) = d
  THEN batch[k][CHOOSE i \in A : TargetAt(k, i) = d]
  ELSE ledger[k][d]]]

FailedAsEmpty == [ok |-> TRUE, rejected |-> {}, found |-> {}]    \* mutant
Failed == [ok |-> FALSE, rejected |-> {}, found |-> {}]
Outcome(rejected, found) == [ok |-> TRUE, rejected |-> rejected, found |-> found]

Found(k) == {<<i, TargetAt(k, i)>> :
               i \in {j \in Positions(k) : ledger[TableOf(k)][TargetAt(k, j)] # Nobody}}

(* The one call to the ledger for the whole batch.  When it returns an       *)
(* error, nobody here knows whether it took effect.                          *)
Execute(k) ==
  /\ mode # "stopped"
  /\ Current(k)
  /\ result = NoReply
  /\ executed' = executed \o batch[k]
  /\ \/ /\ k \in Creates
        /\ \E A \in SUBSET Positions(k) :
             /\ Acceptable(k, A)
             /\ ledger' = LedgerWith(k, A)
             /\ result' \in {Outcome(Positions(k) \ A, {}), Failed}
     \/ /\ k \notin Creates
        /\ result' \in {Outcome({}, Found(k)), Failed}
        /\ UNCHANGED ledger
  /\ UNCHANGED <<status, channel, batch, responders, todo, reply, mode, sent>>

(* responders.drain(..): the whole result goes to every oneshot; a caller    *)
(* that is gone is passed over.  Then the buffer is cleared.                 *)
ToldFirst(k) ==                                             \* mutant of Told
  {r \in Elements(responders[k]) : r = Head(responders[k]) /\ status[r] = "waiting"}
Told(k) == {r \in Elements(responders[k]) : status[r] = "waiting"}

Respond(k) ==
  /\ mode # "stopped"
  /\ Current(k)
  /\ result # NoReply
  /\ status' = [r \in Request |-> IF r \in Told(k) THEN "answered" ELSE status[r]]
  /\ reply' = [r \in Request |-> IF r \in Told(k) THEN result ELSE reply[r]]
  /\ batch' = Cleared(batch, k)
  /\ responders' = Cleared(responders, k)
  /\ todo' = todo \ {k}
  /\ result' = NoReply
  /\ UNCHANGED <<channel, ledger, mode, sent, executed>>

-----------------------------------------------------------------------------
(* The process. *)

(* Everything the worker holds in memory goes with the process. *)
MemoryLost ==
  /\ channel' = <<>>
  /\ batch' = Empty
  /\ responders' = Empty
  /\ todo' = {}
  /\ result' = NoReply

(* CTRL-C: no new request is accepted, those in flight are waited for. *)
Close ==
  /\ mode = "serving"
  /\ mode' = "closing"
  /\ UNCHANGED <<status, workerVars, ledger, reply, sent, executed>>

(* The last handler is done: main returns and the worker goes with it.       *)
Exit ==
  /\ mode = "closing"
  /\ \A r \in Request : status[r] \notin {"sending", "waiting"}
  /\ mode' = "stopped"
  /\ MemoryLost
  /\ UNCHANGED <<status, ledger, reply, sent, executed>>

(* A crash at any moment, or a start after a shutdown. *)
Restart ==
  /\ mode' = "serving"
  /\ status' = [r \in Request |->
       IF status[r] \in {"sending", "waiting"} THEN "dropped" ELSE status[r]]
  /\ MemoryLost
  /\ UNCHANGED <<ledger, reply, sent, executed>>

Next ==
  \/ \E r \in Request : Submit(r) \/ Enqueue(r) \/ Cancel(r)
  \/ Receive
  \/ Tick
  \/ \E k \in Kind : Execute(k) \/ Respond(k)
  \/ Close
  \/ Exit
  \/ Restart

Spec == Init /\ [][Next]_vars

(* The tokio runtime polls every ready task; the timer keeps ticking, and    *)
(* select! picks at random among its ready branches, so each is taken in the *)
(* end; the ledger answers.  Nothing makes a caller submit, cancel, or the   *)
(* process stop.                                                             *)
Fairness ==
  /\ \A r \in Request : WF_vars(Enqueue(r))
  /\ WF_vars(Receive)
  /\ WF_vars(Tick)
  /\ \A k \in Kind : WF_vars(Execute(k)) /\ WF_vars(Respond(k))
  /\ WF_vars(Exit)

FairSpec == Spec /\ Fairness

-----------------------------------------------------------------------------
(* Properties. *)

(* What the handlers take for success: "if tb_result.is_empty()". *)
Accepted(r) == reply[r] # NoReply /\ reply[r].ok /\ reply[r].rejected = {}

(* A caller whose create call came back empty did create its id, whatever    *)
(* was batched with it, whoever else names the same id, and whether or not   *)
(* the ledger call failed: two callers of one id are never both accepted.    *)
AcceptedOwns ==
  \A r \in Request : KindOf[r] \in Creates /\ Accepted(r)
    => ledger[KindOf[r]][TargetOf[r]] = r

(* No command is handed to the ledger twice, across full batches, ticks and  *)
(* restarts.                                                                 *)
ExecutedOnce ==
  \A i, j \in DOMAIN executed : executed[i] = executed[j] => i = j

(* Commands of one kind reach the ledger in the order they were sent.        *)
FifoPerKind ==
  \A i, j \in DOMAIN executed : \A m, n \in DOMAIN sent :
    /\ i < j /\ KindOf[executed[i]] = KindOf[executed[j]]
    /\ executed[i] = sent[m] /\ executed[j] = sent[n]
    => m < n

(* The ledger never sees a batch above its limit, and between two polls of   *)
(* select! there is room for one more command in every buffer.               *)
BatchBound ==
  \A k \in Kind : /\ Len(batch[k]) <= Limit(k)
                  /\ todo = {} => Len(batch[k]) < Limit(k)

(* A call that was made is answered, unless its caller or the process goes   *)
(* away: a partial batch does not wait for others to fill it.                *)
EveryCallEnds ==
  \A r \in Request : status[r] = "sending" ~> status[r] \in {"answered", "dropped"}

(* A graceful shutdown comes to its end (or the process is started anew).    *)
ShutdownEnds == mode = "closing" ~> mode # "closing"

(* The account the handlers read from a lookup: tb_accounts.first(). *)
First(found) == CHOOSE p \in found : \A q \in found : p[1] <= q[1]

(* The documented contract of lookup_account, "Looks up a single account by  *)
(* ID (batched internally) and awaits its data": the account is the one      *)
(* asked for.                                                                *)
OwnAccount ==
  \A r \in Request :
    /\ KindOf[r] = "LookupAccount"
    /\ reply[r] # NoReply /\ reply[r].found # {}
    => First(reply[r].found)[2] = TargetOf[r]

-----------------------------------------------------------------------------
(* The worker implements BatchService: the channel and the buffers are one   *)
(* set of queued requests, the batch being processed is the group in flight. *)

Queued == Elements(channel) \cup UNION {Elements(batch[k]) : k \in Kind}

CallerOf(r) == IF status[r] = "sending" THEN "waiting" ELSE status[r]

WorkOf(r) ==
  IF r \in Elements(executed) THEN "executed"
  ELSE IF r \in Queued THEN "queued"
  ELSE IF status[r] \in {"idle", "sending"} THEN "none"
  ELSE "lost"

VerdictOf(res) ==
  IF ~res.ok THEN "error" ELSE IF res.rejected = {} THEN "accepted" ELSE "refused"

FlightOf ==
  IF result = NoReply THEN [members |-> {}, verdict |-> "error"]
  ELSE LET k == CHOOSE j \in todo : Current(j)
       IN [members |-> Elements(batch[k]), verdict |-> VerdictOf(result)]

Service == INSTANCE BatchService WITH
  MaxGroup <- BatchMaxSize,
  caller <- [r \in Request |-> CallerOf(r)],
  work <- [r \in Request |-> WorkOf(r)],
  owner <- ledger,
  flight <- FlightOf,
  verdict <- [r \in Request |-> IF reply[r] = NoReply THEN "none" ELSE VerdictOf(reply[r])]

(* Every behaviour of channel, buffers and timer is one of BatchService: one *)
(* ledger call per request, one shared verdict per group.                    *)
ImplementsService == Service!ServiceSpec
=============================================================================
