-------------------------- MODULE UserProvisioning --------------------------
(***************************************************************************)
(* create_or_link (src/src/api/handlers/user.rs) and its SQL               *)
(* (db/postgres/user.rs): a user is found or made in PostgreSQL, linked to *)
(* a provider and given an account row; a ledger account is made after the *)
(* commit, but only if the row is "new", which two clocks decide.          *)
(*                                                                         *)
(* A member of Request is one POST /api/v1/users.  The ledger account id   *)
(* and the rows that a request makes have the name of the request; the     *)
(* created_at of its rows is the time its transaction began.               *)
(***************************************************************************)
EXTENDS Naturals

CONSTANTS
  Request,     \* registrations
  Nid,         \* national ids
  Provider,
  NidOf,       \* [Request -> Nid]: payload.nid
  ProviderOf,  \* [Request -> Provider]: payload.provider_id
  Tolerance,   \* chrono::Duration::seconds(1)
  Skew,        \* how far PostgreSQL's clock is behind the service's
  MaxTime,     \* bound of the clock
  None,        \* "no row"
  MayFail      \* may the database, the ledger or the client fail?

ASSUME UserAssumption ==
  /\ NidOf \in [Request -> Nid]
  /\ ProviderOf \in [Request -> Provider]
  /\ Tolerance \in Nat /\ Skew \in Nat /\ MaxTime \in Nat
  /\ None \notin Request
  /\ MayFail \in BOOLEAN

VARIABLES
  pc,        \* the step each request is at
  clock,     \* PostgreSQL's time
  arrived,   \* request_time of each request
  began,     \* when the transaction of each request began
  found,     \* the user row of each request, found or inserted
  got,       \* the account row of each request, found or inserted
  user,      \* the users table as committed, by nid
  account,   \* the user_accounts table as committed, by nid and provider
  ledger,    \* the ledger accounts
  response   \* what each client was told

vars == <<pc, clock, arrived, began, found, got, user, account, ledger, response>>

Row == Request \cup {None}
Pair(r) == <<NidOf[r], ProviderOf[r]>>
InTransaction == {"user", "newuser", "link", "account", "newaccount", "commit"}

TypeOK ==
  /\ pc \in [Request -> InTransaction \cup
                        {"new", "begin", "provision", "adrift", "done", "gone"}]
  /\ clock \in 0 .. MaxTime
  /\ arrived \in [Request -> 0 .. (MaxTime + Skew)]
  /\ began \in [Request -> 0 .. MaxTime]
  /\ found \in [Request -> Row] /\ got \in [Request -> Row]
  /\ user \in [Nid -> Row]
  /\ account \in [Nid \X Provider -> Row]
  /\ ledger \in SUBSET Request
  /\ response \in [Request -> {"none", "CREATED", "ERROR"}]
  /\ \A r \in Request : pc[r] \in {"commit", "provision", "adrift"} => got[r] # None

Init ==
  /\ pc = [r \in Request |-> "new"]
  /\ clock = 0
  /\ arrived = [r \in Request |-> 0]
  /\ began = [r \in Request |-> 0]
  /\ found = [r \in Request |-> None]
  /\ got = [r \in Request |-> None]
  /\ user = [n \in Nid |-> None]
  /\ account = [p \in Nid \X Provider |-> None]
  /\ ledger = {}
  /\ response = [r \in Request |-> "none"]

Goto(r, l) == pc' = [pc EXCEPT ![r] = l] /\ UNCHANGED response
Respond(r, what) ==
  /\ pc' = [pc EXCEPT ![r] = "done"]
  /\ response' = [response EXCEPT ![r] = what]

-----------------------------------------------------------------------------
(* request_time = Utc::now(), on the clock of the service. *)
Arrive(r) ==
  /\ pc[r] = "new"
  /\ arrived' = [arrived EXCEPT ![r] = clock + Skew]
  /\ Goto(r, "begin")
  /\ UNCHANGED <<clock, began, found, got, user, account, ledger>>

(* A connection is free: BEGIN, which fixes NOW() for the transaction. *)
Begin(r) ==
  /\ pc[r] = "begin"
  /\ began' = [began EXCEPT ![r] = clock]
  /\ Goto(r, "user")
  /\ UNCHANGED <<clock, arrived, found, got, user, account, ledger>>

Present(row) == row # None                              \* mutant of Missing
Missing(row) == row = None

(* SELECT FROM users: only what is committed. *)
FindUser(r) ==
  /\ pc[r] = "user"
  /\ found' = [found EXCEPT ![r] = user[NidOf[r]]]
  /\ Goto(r, IF Missing(user[NidOf[r]]) THEN "newuser" ELSE "link")
  /\ UNCHANGED <<clock, arrived, began, got, user, account, ledger>>

(* INSERT INTO users: waits for an open transaction that inserted the nid,   *)
(* and fails if it is committed.                                             *)
NidFree(r) == \A q \in Request \ {r} :
  pc[q] \in InTransaction /\ found[q] = q => NidOf[q] # NidOf[r]

InsertUser(r) ==
  /\ pc[r] = "newuser"
  /\ NidFree(r)
  /\ IF user[NidOf[r]] = None
     THEN found' = [found EXCEPT ![r] = r] /\ Goto(r, "link")
     ELSE Respond(r, "ERROR") /\ UNCHANGED found
  /\ UNCHANGED <<clock, arrived, began, got, user, account, ledger>>

(* INSERT INTO user_providers .. ON CONFLICT DO UPDATE: waits for an open    *)
(* transaction that has inserted or updated the row of the pair.             *)
HeldByNobody(r) == TRUE                                 \* mutant of LinkFree
FreeToUpgrade(r) == \A q \in Request \ {r} :            \* another: FOR SHARE first
  pc[q] \in {"link", "account", "newaccount", "commit"} => Pair(q) # Pair(r)
LinkFree(r) == \A q \in Request \ {r} :
  pc[q] \in {"account", "newaccount", "commit"} => Pair(q) # Pair(r)

Link(r) ==
  /\ pc[r] = "link"
  /\ LinkFree(r)
  /\ Goto(r, "account")
  /\ UNCHANGED <<clock, arrived, began, found, got, user, account, ledger>>

(* SELECT FROM user_accounts. *)
FindAccount(r) ==
  /\ pc[r] = "account"
  /\ got' = [got EXCEPT ![r] = account[Pair(r)]]
  /\ Goto(r, IF Missing(account[Pair(r)]) THEN "newaccount" ELSE "commit")
  /\ UNCHANGED <<clock, arrived, began, found, user, account, ledger>>

(* INSERT INTO user_accounts, with its UNIQUE (user_id, provider_id). *)
PairFree(r) == \A q \in Request \ {r} :
  pc[q] = "commit" /\ got[q] = q => Pair(q) # Pair(r)

InsertAccount(r) ==
  /\ pc[r] = "newaccount"
  /\ PairFree(r)
  /\ IF account[Pair(r)] = None
     THEN got' = [got EXCEPT ![r] = r] /\ Goto(r, "commit")
     ELSE Respond(r, "ERROR") /\ UNCHANGED got
  /\ UNCHANGED <<clock, arrived, began, found, user, account, ledger>>

(* account.created_at >= request_time - 1 second: the row counts as new. *)
IsNewExactly(r) == began[got[r]] >= arrived[r]          \* mutant of IsNew
IsNew(r) == began[got[r]] + Tolerance >= arrived[r]

(* COMMIT, and the decision; an error may be reported although it took place. *)
Commit(r) ==
  /\ pc[r] = "commit"
  /\ user' = [user EXCEPT ![NidOf[r]] = found[r]]
  /\ account' = [account EXCEPT ![Pair(r)] = got[r]]
  /\ \/ IsNew(r) /\ Goto(r, "provision")
     \/ ~IsNew(r) /\ Respond(r, "CREATED")
     \/ MayFail /\ Respond(r, "ERROR")
  /\ UNCHANGED <<clock, arrived, began, found, got, ledger>>

(* The id that create_account is given: account.ledger_account_id, not the   *)
(* one generated for the request.  Creating it again changes nothing.        *)
FreshId(r) == r                                         \* mutant of AccountId
AccountId(r) == got[r]

(* create_account; a refusal (the account exists) is not looked at. *)
Provision(r) ==
  /\ pc[r] = "provision"
  /\ \/ ledger' = ledger \cup {AccountId(r)} /\ Respond(r, "CREATED")
     \/ /\ MayFail
        /\ ledger' \in {ledger, ledger \cup {AccountId(r)}}
        /\ Respond(r, "ERROR")
  /\ UNCHANGED <<clock, arrived, began, found, got, user, account>>

-----------------------------------------------------------------------------
(* The database fails before COMMIT: the transaction is rolled back. *)
RollBack(r) ==
  /\ MayFail
  /\ pc[r] \in {"begin"} \cup InTransaction
  /\ Respond(r, "ERROR")
  /\ UNCHANGED <<clock, arrived, began, found, got, user, account, ledger>>

(* The client hangs up, or the process stops.  A command that was sent to    *)
(* the worker may still be executed.                                         *)
HangUp(r) ==
  /\ MayFail
  /\ pc[r] \in {"begin", "provision"} \cup InTransaction
  /\ Goto(r, IF pc[r] = "provision" THEN "adrift" ELSE "gone")
  /\ UNCHANGED <<clock, arrived, began, found, got, user, account, ledger>>

ProvisionLate(r) ==
  /\ pc[r] = "adrift"
  /\ ledger' = ledger \cup {AccountId(r)}
  /\ Goto(r, "gone")
  /\ UNCHANGED <<clock, arrived, began, found, got, user, account>>

Tick ==
  /\ clock < MaxTime
  /\ clock' = clock + 1
  /\ UNCHANGED <<pc, arrived, began, found, got, user, account, ledger, response>>

Next ==
  \/ \E r \in Request :
       \/ Arrive(r) \/ Begin(r) \/ FindUser(r) \/ InsertUser(r) \/ Link(r)
       \/ FindAccount(r) \/ InsertAccount(r) \/ Commit(r) \/ Provision(r)
       \/ RollBack(r) \/ HangUp(r) \/ ProvisionLate(r)
  \/ Tick

Spec == Init /\ [][Next]_vars

-----------------------------------------------------------------------------
(* Properties. *)

(* A request that made the account row and was answered 201 has made the     *)
(* ledger account: the rule of one second recognises a request's own row,    *)
(* as long as the clocks differ by no more than that.                        *)
InsertedIsProvisioned ==
  \A r \in Request : response[r] = "CREATED" /\ got[r] = r => r \in ledger

(* The row lock of the link makes the search for an account row and its      *)
(* insertion one step: of two requests for one user and provider, the second *)
(* finds the row of the first, and UNIQUE never turns a registration down.   *)
AccountInsertNeverConflicts ==
  \A r \in Request : pc[r] = "newaccount" => account[Pair(r)] = None

(* Registrations of one person wait for one another three times within a     *)
(* transaction: for the row of the user, of the link and of the account.     *)
(* They never all do: some open transaction waits for nobody.                *)
Waits(r) ==
  \/ pc[r] = "newuser" /\ ~NidFree(r)
  \/ pc[r] = "link" /\ ~LinkFree(r)
  \/ pc[r] = "newaccount" /\ ~PairFree(r)
SomebodyGoesOn ==
  LET open == {r \in Request : pc[r] \in InTransaction}
  IN open # {} => \E r \in open : ~Waits(r)

(* Every ledger account has its row: none is left behind by a transaction    *)
(* that was rolled back or by an id that was never stored.                   *)
NoOrphan ==
  \A i \in ledger : account[Pair(i)] = i

(* The assumption in the comment of create_or_link, "We only need to create  *)
(* the ledger account if a new UserAccount was provisioned": whoever is      *)
(* answered 201 has a ledger account.                                        *)
CreatedHasAccount ==
  \A r \in Request : response[r] = "CREATED" => got[r] \in ledger
=============================================================================
