--------------------------- MODULE BatchService ---------------------------
(***************************************************************************)
(* What the TigerBeetle client of wurzburg promises to its callers, with   *)
(* the channel, the buffers and the timer of the worker left out:          *)
(*                                                                         *)
(*   - a request is handed to the ledger at most once;                     *)
(*   - the ledger sees groups of at most MaxGroup requests of one kind;    *)
(*   - the members of a group that still wait get ONE shared verdict:      *)
(*     "accepted" only if the ledger took every member of the group,       *)
(*     "refused" as soon as it turned down one of them;                    *)
(*   - a request may be lost: its caller went away before it was queued,   *)
(*     or the process stopped before it was executed.                      *)
(*                                                                         *)
(* TbWorker implements this specification; Transactions is built on it.    *)
(***************************************************************************)
EXTENDS Naturals, FiniteSets

CONSTANTS
  Request,   \* the calls made to AppTbClient, each with its oneshot channel
  Id,        \* ledger ids (u128 made from a UUID)
  KindOf,    \* [Request -> Kind]: the TbCommand variant of a request
  TargetOf,  \* [Request -> Id]: the id of the transfer or account it names
  Nobody,    \* "no request has created this id"
  MaxGroup   \* batch_max_size

Creates == {"CreateTransfer", "CreateAccount"}
Lookups == {"LookupAccount", "LookupTransfer", "LookupAccounts", "GetAccountBalances"}
Kind == Creates \cup Lookups

ASSUME ServiceAssumption ==
  /\ KindOf \in [Request -> Kind]
  /\ TargetOf \in [Request -> Id]
  /\ Nobody \notin Request
  /\ MaxGroup \in Nat \ {0}

VARIABLES
  caller,    \* what the calling handler does
  work,      \* where the request is
  owner,     \* the ledger: which request created an id, per table
  flight,    \* the group the ledger has executed and not yet answered
  verdict    \* what each caller was told

serviceVars == <<caller, work, owner, flight, verdict>>

Verdict == {"accepted", "refused", "error"}
NoFlight == [members |-> {}, verdict |-> "error"]

ServiceTypeOK ==
  /\ caller \in [Request -> {"idle", "waiting", "answered", "dropped"}]
  /\ work \in [Request -> {"none", "queued", "executed", "lost"}]
  /\ owner \in [Creates -> [Id -> Request \cup {Nobody}]]
  /\ flight \in [members : SUBSET Request, verdict : Verdict]
  /\ verdict \in [Request -> Verdict \cup {"none"}]

ServiceInit ==
  /\ caller = [r \in Request |-> "idle"]
  /\ work = [r \in Request |-> "none"]
  /\ owner = [k \in Creates |-> [i \in Id |-> Nobody]]
  /\ flight = NoFlight
  /\ verdict = [r \in Request |-> "none"]

(* A handler calls AppTbClient and starts to wait. *)
Submit(r) ==
  /\ caller[r] = "idle"
  /\ caller' = [caller EXCEPT ![r] = "waiting"]
  /\ UNCHANGED <<work, owner, flight, verdict>>

(* The command of a waiting caller enters the service. *)
Accept(r) ==
  /\ caller[r] = "waiting" /\ work[r] = "none"
  /\ work' = [work EXCEPT ![r] = "queued"]
  /\ UNCHANGED <<caller, owner, flight, verdict>>

(* The caller goes away; a command that is already queued stays queued. *)
Drop(r) ==
  /\ caller[r] = "waiting"
  /\ caller' = [caller EXCEPT ![r] = "dropped"]
  /\ work' = [work EXCEPT ![r] = IF @ = "none" THEN "lost" ELSE @]
  /\ UNCHANGED <<owner, flight, verdict>>

(* Members of G the ledger may take together: their ids are new and distinct. *)
Takeable(k, T) ==
  /\ \A r \in T : owner[k][TargetOf[r]] = Nobody
  /\ \A r, s \in T : TargetOf[r] = TargetOf[s] => r = s

(* One call to the ledger.  On an error nobody learns whether it took effect. *)
Execute(G) ==
  /\ flight = NoFlight
  /\ G # {} /\ Cardinality(G) <= MaxGroup
  /\ \A r \in G : work[r] = "queued"
  /\ work' = [r \in Request |-> IF r \in G THEN "executed" ELSE work[r]]
  /\ \/ \E k \in Creates : \E T \in SUBSET G :
          /\ \A r \in G : KindOf[r] = k
          /\ Takeable(k, T)
          /\ owner' = [owner EXCEPT ![k] = [i \in Id |->
                         IF \E r \in T : TargetOf[r] = i
                         THEN CHOOSE r \in T : TargetOf[r] = i
                         ELSE owner[k][i]]]
          /\ \E v \in {IF T = G THEN "accepted" ELSE "refused", "error"} :
               flight' = [members |-> G, verdict |-> v]
     \/ \E k \in Lookups : \E v \in {"accepted", "error"} :
          /\ \A r \in G : KindOf[r] = k
          /\ flight' = [members |-> G, verdict |-> v]
          /\ UNCHANGED owner
  /\ UNCHANGED <<caller, verdict>>

(* The verdict of the call goes to every member that still waits. *)
Answer ==
  /\ flight # NoFlight
  /\ LET told == {r \in flight.members : caller[r] = "waiting"}
     IN /\ caller' = [r \in Request |-> IF r \in told THEN "answered" ELSE caller[r]]
        /\ verdict' = [r \in Request |-> IF r \in told THEN flight.verdict ELSE verdict[r]]
  /\ flight' = NoFlight
  /\ UNCHANGED <<work, owner>>

(* The process stops: waiting callers go away with it, queued requests are lost. *)
Lose ==
  /\ caller' = [r \in Request |-> IF caller[r] = "waiting" THEN "dropped" ELSE caller[r]]
  /\ work' = [r \in Request |->
       IF work[r] = "queued" \/ (work[r] = "none" /\ caller[r] = "waiting")
       THEN "lost" ELSE work[r]]
  /\ flight' = NoFlight
  /\ UNCHANGED <<owner, verdict>>

ServiceNext ==
  \/ \E r \in Request : Submit(r) \/ Accept(r) \/ Drop(r)
  \/ \E G \in SUBSET Request : Execute(G)
  \/ Answer
  \/ Lose

ServiceSpec == ServiceInit /\ [][ServiceNext]_serviceVars
=============================================================================
