------------------------------ MODULE Priority ------------------------------
(***************************************************************************)
(* The priority configurations of users: create_user_priority and          *)
(* cancel_active_user_priority (src/src/api/handlers/priority.rs), the     *)
(* cancellation in debit_user (handlers/transaction.rs), their SQL         *)
(* (db/postgres/priority.rs) and the copy kept in Redis.                   *)
(*                                                                         *)
(* PostgreSQL runs at READ COMMITTED.  An UPDATE finds its row in the      *)
(* snapshot taken when it starts, waits for a transaction that holds the   *)
(* row, and then looks again at its WHERE clause.  An INSERT enters the    *)
(* unique indexes one after the other; at each it waits for an open        *)
(* transaction that may give it a duplicate, and fails on one that is      *)
(* committed.  Transactions that wait for one another in a circle are      *)
(* found by PostgreSQL, which makes one of them fail.  Requests run at the *)
(* same time and may be dropped at any await; a crash is the dropping of   *)
(* all of them.  A transaction holds a connection of the database pool, a  *)
(* create holds one of the Redis pool from its DEL to its SET; an idle     *)
(* connection is what a request waits for.                                 *)
(***************************************************************************)
EXTENDS Naturals, FiniteSets

CONSTANTS
  User,
  UserOf,     \* [Request -> User]: the user in the path of the request
  Creator,    \* POST priorities; the configuration it makes has the same name
  Canceller,  \* DELETE priorities/active
  Debit,      \* POST debit
  KeyOf,      \* [Creator -> key]: the Idempotency-Key header
  Expiring,   \* the configurations with expires_at
  Matching,   \* the configurations that name the provider of the debits
  NoConfig,   \* "no configuration"
  DbPool,     \* max_connections of PostgreSQL
  RedisPool,  \* pool_max_open of Redis
  Frail       \* the requests that a failure of PostgreSQL or Redis may hit, or
              \* whose client may hang up

Config == Creator
Request == Creator \cup Canceller \cup Debit

ASSUME PriorityAssumption ==
  /\ Creator \cap Canceller = {} /\ Creator \cap Debit = {} /\ Canceller \cap Debit = {}
  /\ UserOf \in [Request -> User]
  /\ DOMAIN KeyOf = Creator
  /\ Expiring \subseteq Config /\ Matching \subseteq Config
  /\ NoConfig \notin Request
  /\ DbPool \in Nat \ {0} /\ RedisPool \in Nat \ {0}
  /\ Frail \subseteq Request

VARIABLES
  pc,        \* the step each request is at
  snap,      \* the row an UPDATE found in its snapshot
  mine,      \* the row that the open transaction of a request has cancelled
  seen,      \* the active configuration a debit was shown
  status,    \* user_priority_configs as committed
  cache,     \* the Redis key priority:active:{user:...} of each user
  response,  \* what each client was told, if it was still there
  took       \* history: the configurations each request has cancelled

vars == <<pc, snap, mine, seen, status, cache, response, took>>

Step == {"new", "purge", "look", "cancel", "cancelling", "cancelled", "replace",
         "replacing", "insert", "placed", "commit", "set", "delete", "transfer", "done"}
Response == {"none", "CREATED", "IDEMPOTENT", "CANCELLED", "NOT_FOUND", "DEBITED",
             "ERROR"}

TypeOK ==
  /\ pc \in [Request -> Step]
  /\ snap \in [Request -> Config \cup {NoConfig}]
  /\ mine \in [Request -> Config \cup {NoConfig}]
  /\ seen \in [Debit -> Matching \cup {NoConfig}]
  /\ status \in [Config -> {"none", "ACTIVE", "CANCELLED"}]
  /\ cache \in [User -> Config \cup {NoConfig}]
  /\ response \in [Request -> Response]
  /\ took \in [Request -> SUBSET Config]

Init ==
  /\ pc = [p \in Request |-> "new"]
  /\ snap = [p \in Request |-> NoConfig]
  /\ mine = [p \in Request |-> NoConfig]
  /\ seen = [p \in Debit |-> NoConfig]
  /\ status = [c \in Config |-> "none"]
  /\ cache = [u \in User |-> NoConfig]
  /\ response = [p \in Request |-> "none"]
  /\ took = [p \in Request |-> {}]

Goto(p, l) == pc' = [pc EXCEPT ![p] = l] /\ UNCHANGED response
Respond(p, what) ==
  /\ pc' = [pc EXCEPT ![p] = "done"]
  /\ response' = [response EXCEPT ![p] = what]

Stored == {c \in Config : status[c] # "none"}

ActiveOfAnyone(u) == {c \in Config : status[c] = "ACTIVE"}    \* mutant of Active
Active(u) == {c \in Config : status[c] = "ACTIVE" /\ UserOf[c] = u}
ActiveOrNone(u) == IF Active(u) = {} THEN NoConfig ELSE CHOOSE c \in Active(u) : TRUE

Live(p) == pc[p] \notin {"new", "done"}

(* The transaction of a request ends, by COMMIT or because its "tx" is       *)
(* dropped: the rows it has updated are released.                            *)
LeftOpen(p) == mine                                     \* mutant of Released
Released(p) == [mine EXCEPT ![p] = NoConfig]

(* The pools. "tx" keeps its connection until it ends, a single statement    *)
(* returns it at once; "redis_conn" of a create lives until its SET.         *)
UntilDelete(p) ==                                       \* mutant of InTransaction
  pc[p] \in {"cancelling", "cancelled", "replacing", "insert", "placed", "commit", "delete"}
InTransaction(p) ==
  pc[p] \in {"cancelling", "cancelled", "replacing", "insert", "placed", "commit"}
KeepsRedis(p) ==
  p \in Creator /\ pc[p] \in {"look", "cancel", "cancelling", "cancelled", "replace",
                              "replacing", "insert", "placed", "commit", "set"}
DbFree == Cardinality({p \in Request : InTransaction(p)}) < DbPool
RedisFree == Cardinality({p \in Request : KeepsRedis(p)}) < RedisPool

-----------------------------------------------------------------------------
(* What the requests do before their transactions. *)

(* "if let Ok(Some(existing))": the key is looked up whoever used it; then    *)
(* the providers are resolved and the balances validated, which may end in   *)
(* 422 or 500.                                                               *)
KeyTaken(p) == \E c \in Stored : KeyOf[c] = KeyOf[p]

Check(p) ==
  /\ p \in Creator /\ pc[p] = "new" /\ DbFree
  /\ \/ KeyTaken(p) /\ Respond(p, "IDEMPOTENT")
     \/ (KeyTaken(p) => p \in Frail) /\ Goto(p, "purge")
     \/ p \in Frail /\ Respond(p, "ERROR")
  /\ UNCHANGED <<snap, mine, seen, status, cache, took>>

(* A connection of the Redis pool, and DEL before the database is touched.   *)
Purge(p) ==
  /\ pc[p] = "purge" /\ RedisFree
  /\ cache' = [cache EXCEPT ![UserOf[p]] = NoConfig]
  /\ Goto(p, "look") \/ (p \in Frail /\ Respond(p, "ERROR"))
  /\ UNCHANGED <<snap, mine, seen, status, took>>

(* get_active_priority_config, of a create. *)
Look(p) ==
  /\ pc[p] = "look" /\ DbFree
  /\ Goto(p, IF Active(UserOf[p]) = {} THEN "replace" ELSE "cancel")
  /\ UNCHANGED <<snap, mine, seen, status, cache, took>>

StartCancel(p) ==
  /\ p \in Canceller /\ pc[p] = "new"
  /\ Goto(p, "cancel")
  /\ UNCHANGED <<snap, mine, seen, status, cache, took>>

(* get_active_priority_config, of a debit, and its any(item.provider_id = ...) *)
AnyActive(u) == Active(u) # {}                          \* mutant of NamesProvider
NamesProvider(u) == Active(u) \cap Matching # {}

StartDebit(p) ==
  /\ p \in Debit /\ pc[p] = "new" /\ DbFree
  /\ \/ /\ NamesProvider(UserOf[p])
        /\ seen' = [seen EXCEPT ![p] = ActiveOrNone(UserOf[p])]
        /\ Goto(p, "cancel")
     \/ /\ ~NamesProvider(UserOf[p])
        /\ Goto(p, "transfer")
        /\ UNCHANGED seen
     \/ p \in Frail /\ Respond(p, "ERROR") /\ UNCHANGED seen
  /\ UNCHANGED <<snap, mine, status, cache, took>>

-----------------------------------------------------------------------------
(* What a statement of an open transaction waits for: the holder of the row  *)
(* it found; at the index of the keys, a transaction that has entered its    *)
(* key or holds the row with it; at the index of the active configurations,  *)
(* a transaction that has entered one of the user or holds the user's row.   *)
RowHeld(p, q) == snap[p] # NoConfig /\ mine[q] = snap[p]
KeyHeld(p, q) ==
  \/ pc[q] \in {"placed", "commit"} /\ KeyOf[q] = KeyOf[p]
  \/ mine[q] # NoConfig /\ KeyOf[mine[q]] = KeyOf[p]
UserHeld(p, q) == UserOf[q] = UserOf[p] /\ (pc[q] = "commit" \/ mine[q] # NoConfig)

WaitsFor(p, q) ==
  /\ q # p
  /\ \/ pc[p] \in {"cancelling", "replacing"} /\ RowHeld(p, q)
     \/ pc[p] = "insert" /\ KeyHeld(p, q)
     \/ pc[p] = "placed" /\ UserHeld(p, q)
Blocked(p) == \E q \in Request : WaitsFor(p, q)

(* Transactions none of which can go on because each waits for another of    *)
(* them; if no fewer do, they are a circle.                                  *)
Stuck(D) == D # {} /\ \A p \in D : \E q \in D : WaitsFor(p, q)
InCircle(p) ==
  /\ Blocked(p)
  /\ \E D \in SUBSET {q \in Request : Blocked(q)} :
       /\ p \in D /\ Stuck(D)
       /\ \A E \in SUBSET D : Stuck(E) => E = D

-----------------------------------------------------------------------------
(* The two transactions. *)

(* A connection of the pool, BEGIN, and the UPDATE of                        *)
(* cancel_active_priority_config or of create_priority_config takes its      *)
(* snapshot.                                                                 *)
UpdateStarts(p) ==
  /\ pc[p] \in {"cancel", "replace"} /\ DbFree
  /\ snap' = [snap EXCEPT ![p] = ActiveOrNone(UserOf[p])]
  /\ Goto(p, IF pc[p] = "cancel" THEN "cancelling" ELSE "replacing")
  /\ UNCHANGED <<mine, seen, status, cache, took>>

(* Once nobody else holds the row, the WHERE clause is evaluated again.      *)
MatchesUnchecked(p) == snap[p] # NoConfig               \* mutant of StillMatches
MatchesUnexpired(p) == snap[p] \in Active(UserOf[p]) \ Expiring    \* another
StillMatches(p) == snap[p] \in Active(UserOf[p])

(* What a handler does after its cancellation found nothing. *)
AfterNothing(p) ==
  IF p \in Canceller THEN Respond(p, "NOT_FOUND")
  ELSE Goto(p, IF p \in Creator THEN "replace" ELSE "delete")

UpdateEnds(p) ==
  /\ pc[p] \in {"cancelling", "replacing"}
  /\ ~Blocked(p)
  /\ snap' = [snap EXCEPT ![p] = NoConfig]
  /\ IF StillMatches(p)
     THEN /\ mine' = [mine EXCEPT ![p] = snap[p]]
          /\ Goto(p, IF pc[p] = "cancelling" THEN "cancelled" ELSE "insert")
     ELSE /\ UNCHANGED mine
          /\ IF pc[p] = "cancelling" THEN AfterNothing(p) ELSE Goto(p, "insert")
  /\ UNCHANGED <<seen, status, cache, took>>

(* COMMIT of cancel_active_priority_config; an error may come after it.      *)
CommitCancel(p) ==
  /\ pc[p] = "cancelled"
  /\ status' = [status EXCEPT ![mine[p]] = "CANCELLED"]
  /\ took' = [took EXCEPT ![p] = @ \cup {mine[p]}]
  /\ mine' = Released(p)
  /\ Goto(p, IF p \in Creator THEN "replace" ELSE "delete")
     \/ (p \in Frail /\ Respond(p, "ERROR"))
  /\ UNCHANGED <<snap, seen, cache>>

(* "duplicate key value" is looked for in the outermost message of the       *)
(* error, which is the context that create_priority_config has put around    *)
(* it: the answer is 500, never 409.                                         *)
TakenForDone(p) == Goto(p, "set")                       \* mutant of AfterDuplicate
AfterDuplicate(p) == Respond(p, "ERROR")

(* The INSERT of create_priority_config.  The key is UNIQUE, among all       *)
(* users, and is entered first: its index is as old as the table.            *)
PlaceKey(p) ==
  /\ pc[p] = "insert" /\ ~Blocked(p)
  /\ IF KeyTaken(p) THEN mine' = Released(p) /\ AfterDuplicate(p)
                    ELSE Goto(p, "placed") /\ UNCHANGED mine
  /\ UNCHANGED <<snap, seen, status, cache, took>>

(* With its key in place it enters the index of the active configurations,   *)
(* of which a user has one.                                                  *)
Unchecked(p) == TRUE                                    \* mutant of Unique
Unique(p) == Active(UserOf[p]) \subseteq {mine[p]}

PlaceUser(p) ==
  /\ pc[p] = "placed" /\ ~Blocked(p)
  /\ IF Unique(p) THEN Goto(p, "commit") /\ UNCHANGED mine
                  ELSE mine' = Released(p) /\ AfterDuplicate(p)
  /\ UNCHANGED <<snap, seen, status, cache, took>>

(* The items are inserted, and COMMIT; an error may come after it.           *)
Replaced(p) == [c \in Config |->
  IF c = p THEN "ACTIVE" ELSE IF c = mine[p] THEN "CANCELLED" ELSE status[c]]

CommitCreate(p) ==
  /\ pc[p] = "commit"
  /\ status' = Replaced(p)
  /\ took' = [took EXCEPT ![p] = @ \cup ({mine[p]} \ {NoConfig})]
  /\ mine' = Released(p)
  /\ Goto(p, "set") \/ (p \in Frail /\ Respond(p, "ERROR"))
  /\ UNCHANGED <<snap, seen, cache>>

-----------------------------------------------------------------------------
(* What the requests do after their transactions. *)

(* SET, with EX if the configuration expires; an error may come after it     *)
(* took effect.                                                              *)
SetCache(p) ==
  /\ pc[p] = "set"
  /\ cache' = [cache EXCEPT ![UserOf[p]] = p]
  /\ Respond(p, "CREATED") \/ (p \in Frail /\ Respond(p, "ERROR"))
  /\ UNCHANGED <<snap, mine, seen, status, took>>

(* A connection of the Redis pool, and DEL, of a cancellation; a debit       *)
(* ignores a failure of either.                                              *)
DeleteCache(p) ==
  /\ pc[p] = "delete" /\ RedisFree
  /\ cache' = [cache EXCEPT ![UserOf[p]] = NoConfig] \/ (p \in Frail /\ UNCHANGED cache)
  /\ IF p \in Debit THEN Goto(p, "transfer")
     ELSE (cache'[UserOf[p]] = NoConfig /\ Respond(p, "CANCELLED"))
          \/ (p \in Frail /\ Respond(p, "ERROR"))
  /\ UNCHANGED <<snap, mine, seen, status, took>>

(* create_transfer and the rest of the debit: Transactions. *)
Transfer(p) ==
  /\ pc[p] = "transfer"
  /\ Respond(p, "DEBITED")
  /\ UNCHANGED <<snap, mine, seen, status, cache, took>>

-----------------------------------------------------------------------------
(* PostgreSQL or Redis fails before a statement takes effect, an item of a   *)
(* create names a provider twice, the wait for a connection times out, or    *)
(* the client hangs up: an open transaction is rolled back, and whoever is   *)
(* still there is answered 500.                                              *)
Abandon(p) ==
  /\ p \in Frail /\ Live(p)
  /\ snap' = [snap EXCEPT ![p] = NoConfig]
  /\ mine' = Released(p)
  /\ Respond(p, "ERROR")
  /\ UNCHANGED <<seen, status, cache, took>>

(* PostgreSQL finds a circle of waits and makes one of its statements fail:  *)
(* "deadlock detected".                                                      *)
BreakDeadlock(p) ==
  /\ InCircle(p)
  /\ snap' = [snap EXCEPT ![p] = NoConfig]
  /\ mine' = Released(p)
  /\ Respond(p, "ERROR")
  /\ UNCHANGED <<seen, status, cache, took>>

(* The key expires in Redis; the row stays ACTIVE.  (A configuration that has *)
(* already expired when it is SET gets no EX, and stays.)                    *)
Expire(u) ==
  /\ cache[u] \in Expiring
  /\ cache' = [cache EXCEPT ![u] = NoConfig]
  /\ UNCHANGED <<pc, snap, mine, seen, status, response, took>>

Work(p) ==
  \/ Purge(p) \/ Look(p)
  \/ UpdateStarts(p) \/ UpdateEnds(p) \/ CommitCancel(p)
  \/ PlaceKey(p) \/ PlaceUser(p) \/ CommitCreate(p)
  \/ SetCache(p) \/ DeleteCache(p) \/ Transfer(p)

(* What the steps of Work wait for: a connection of a pool, or what the      *)
(* database makes them wait for.                                             *)
Ready(p) ==
  \/ pc[p] \in {"look", "cancel", "replace"} /\ DbFree
  \/ pc[p] \in {"purge", "delete"} /\ RedisFree
  \/ pc[p] \in {"cancelling", "replacing", "insert", "placed"} /\ ~Blocked(p)
  \/ pc[p] \in {"cancelled", "commit", "set", "transfer"}

Next ==
  \/ \E p \in Request : \/ Check(p) \/ StartCancel(p) \/ StartDebit(p)
                        \/ Work(p) \/ Abandon(p) \/ BreakDeadlock(p)
  \/ \E u \in User : Expire(u)

Spec == Init /\ [][Next]_vars

(* tokio runs the handlers on; the database answers, grants the lock of a    *)
(* transaction that has ended and breaks a deadlock, and a pool hands a      *)
(* connection that is free to a request that waits.  That some handler goes  *)
(* on as long as one can is enough, no other failure and no timeout of a     *)
(* pool is relied upon.                                                      *)
FairSpec == Spec /\ WF_vars(\E p \in Request : Work(p) \/ BreakDeadlock(p))

-----------------------------------------------------------------------------
(* Properties. *)

(* A user never has two active configurations, not even when creates overlap *)
(* and their UPDATEs do not see each other's rows.                           *)
OneActive == \A u \in User : Cardinality(Active(u)) <= 1

(* Redis never shows a user a configuration that the database does not have  *)
(* or that is another user's, in spite of creates that fail late.            *)
CacheWasCommitted ==
  \A u \in User : cache[u] # NoConfig => cache[u] \in Stored /\ UserOf[cache[u]] = u

(* A configuration is cancelled by one request: of two cancellations, or a   *)
(* cancellation and a debit, that race for it, the other finds nothing.      *)
CancelledOnce ==
  \A p, q \in Request : p # q => took[p] \cap took[q] = {}

(* The configuration that was active when a debit looked is disabled before  *)
(* the debit moves money, whoever disabled it.                               *)
DebitDisables ==
  \A p \in Debit : seen[p] # NoConfig /\ pc[p] = "transfer" => status[seen[p]] = "CANCELLED"

(* Row locks, entries of the two unique indexes and the connections of the   *)
(* two pools are each held while waiting for another.  When no request under *)
(* way can go on, transactions wait for one another alone, which PostgreSQL  *)
(* sees and breaks, and never a pool for a pool, which nobody would see; and *)
(* one of them carries a key that another create carries too.                *)
OnlyRepeatedKeysDeadlock ==
  (\E p \in Request : Live(p)) =>
    \/ \E p \in Request : Ready(p)
    \/ \E D \in SUBSET {q \in Request : Blocked(q)} :
         /\ Stuck(D)
         /\ \E p \in D : pc[p] = "insert" /\ \E c \in Creator \ {p} : KeyOf[c] = KeyOf[p]

(* The statements, locks and unique indexes of overlapping requests of all   *)
(* users amount to one register per user that is replaced and cleared at     *)
(* once: keys are stored once, and nothing comes back.                       *)
Store == INSTANCE PriorityStore WITH
  active <- [u \in User |-> ActiveOrNone(u)],
  stored <- Stored
ImplementsStore == Store!Spec

(* In the end every request that was made has ended, once PostgreSQL has     *)
(* broken the circles of waits that it finds: nobody waits for ever for a    *)
(* connection that others hold, although a create keeps one of Redis across  *)
(* four waits for the database.                                              *)
EveryRequestEnds == <>[](\A p \in Request : ~Live(p))

(* The documented purpose of the Idempotency-Key, "Unique key for safe       *)
(* retries": a retry of a create that was answered CREATED, with nobody else *)
(* around, leaves its configuration active.                                  *)
RetryIsSafe == \A p \in Creator : response[p] = "CREATED" => status[p] = "ACTIVE"

(* The comment in cancel_active_user_priority, "we MUST purge the cached     *)
(* state to prevent the system from applying stale priority rules": what a   *)
(* request cancelled with success is not in Redis.                           *)
CancelledNotCached ==
  \A p \in Canceller : response[p] = "CANCELLED" => cache[UserOf[p]] \notin took[p]
=============================================================================
