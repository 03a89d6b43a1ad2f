---------------------------- MODULE Provisioning ----------------------------
(***************************************************************************)
(* What makes accounts for others: the seeding at the start of a process   *)
(* (src/src/main.rs, bootstrap.rs) and the creation of providers           *)
(* (api/handlers/provider.rs, db/postgres/provider.rs), each first in the  *)
(* ledger, then in PostgreSQL, then in Kafka (kafka/admin.rs).             *)
(*                                                                         *)
(* Several processes may start at the same time, stop anywhere and start   *)
(* again; nothing that was done is undone.                                 *)
(***************************************************************************)
EXTENDS Naturals, Sequences

CONSTANTS
  Process,
  SeedAt,    \* the system accounts, in the order they are seeded
  Provider,  \* requests to create a provider; each names its ledger account
  Core,      \* those with is_core
  Platform,  \* the owner of the Kafka objects made at the start
  Nowhere    \* "no process serves this request"

System == {SeedAt[i] : i \in DOMAIN SeedAt}
KafkaObject == {"topic", "scram", "acl", "group"}   \* "group": the ACL on consumer groups
ProducerObject == KafkaObject \ {"group"}           \* all that a producer needs

ASSUME ProvisioningAssumption ==
  /\ SeedAt \in Seq(System) /\ SeedAt # <<>>
  /\ Core \subseteq Provider
  /\ Platform \notin Provider /\ Nowhere \notin Process
  /\ System \cap Provider = {}

VARIABLES
  phase,      \* the step of main() each process is at
  at,         \* the system account it is seeding
  failed,     \* did this start meet an error or a stop?
  pc,         \* the step of each request to create a provider
  host,       \* the process that serves it
  response,   \* what its client was told
  ledger,     \* the ledger accounts
  systemRow,  \* the system_accounts table
  provider,   \* the providers table
  kafka       \* the topics, users and ACLs, by owner

bootVars == <<phase, at, failed>>
requestVars == <<pc, host, response>>
storeVars == <<ledger, systemRow, provider, kafka>>
vars == <<bootVars, requestVars, storeVars>>

TypeOK ==
  /\ phase \in [Process -> {"down", "ledger", "table", "serving"} \cup ProducerObject]
  /\ at \in [Process -> DOMAIN SeedAt]
  /\ failed \in [Process -> BOOLEAN]
  /\ pc \in [Provider -> {"new", "ledger", "table", "done", "gone"} \cup KafkaObject]
  /\ host \in [Provider -> Process \cup {Nowhere}]
  /\ response \in [Provider -> {"none", "CREATED", "ERROR", "unheard"}]
  /\ ledger \in SUBSET (System \cup Provider)
  /\ systemRow \in SUBSET System
  /\ provider \in SUBSET Provider
  /\ kafka \in SUBSET ((Provider \cup {Platform}) \X KafkaObject)

Init ==
  /\ phase = [p \in Process |-> "down"]
  /\ at = [p \in Process |-> 1]
  /\ failed = [p \in Process |-> FALSE]
  /\ pc = [q \in Provider |-> "new"]
  /\ host = [q \in Provider |-> Nowhere]
  /\ response = [q \in Provider |-> "none"]
  /\ ledger = {} /\ systemRow = {} /\ provider = {} /\ kafka = {}

-----------------------------------------------------------------------------
(* A process starts. *)

Enter(p, l) == phase' = [phase EXCEPT ![p] = l]

Start(p) ==
  /\ phase[p] = "down"
  /\ Enter(p, "ledger")
  /\ at' = [at EXCEPT ![p] = 1]
  /\ failed' = [failed EXCEPT ![p] = FALSE]
  /\ UNCHANGED <<requestVars, storeVars>>

(* create_account; the result "exists" is logged and passed over. *)
ExistsIsFatal(p) ==                                     \* mutant of AfterExists
  Enter(p, IF SeedAt[at[p]] \in ledger THEN "down" ELSE "table")
AfterExists(p) == Enter(p, "table")

SeedLedger(p) ==
  /\ phase[p] = "ledger"
  /\ ledger' = ledger \cup {SeedAt[at[p]]}
  /\ AfterExists(p)
  /\ UNCHANGED <<at, failed, systemRow, provider, kafka, requestVars>>

(* The next account of the loop, or Kafka after the last. *)
LastTwice(p) == at[p] <= Len(SeedAt)                    \* mutant of MoreSeeds
MoreSeeds(p) == at[p] < Len(SeedAt)
NextSeed(p) ==
  IF MoreSeeds(p) THEN Enter(p, "ledger") /\ at' = [at EXCEPT ![p] = @ + 1]
  ELSE Enter(p, "topic") /\ UNCHANGED at

(* INSERT .. ON CONFLICT (code) DO NOTHING, in a transaction of its own. *)
SeedTable(p) ==
  /\ phase[p] = "table"
  /\ systemRow' = systemRow \cup {SeedAt[at[p]]}
  /\ NextSeed(p)
  /\ UNCHANGED <<failed, ledger, provider, kafka, requestVars>>

(* kafka-topics.sh, kafka-configs.sh, kafka-acls.sh: what exists is passed    *)
(* over or overwritten.  After the last the listener is bound.               *)
AclsFirst == [o \in KafkaObject |->                     \* mutant of AfterScript
  CASE o = "topic" -> "acl" [] o = "acl" -> "scram" [] OTHER -> "group"]
AfterScript == [o \in KafkaObject |->
  CASE o = "topic" -> "scram" [] o = "scram" -> "acl" [] OTHER -> "group"]

SeedKafka(p) ==
  /\ phase[p] \in ProducerObject
  /\ kafka' = kafka \cup {<<Platform, phase[p]>>}
  /\ Enter(p, IF phase[p] = "acl" THEN "serving" ELSE AfterScript[phase[p]])
  /\ UNCHANGED <<at, failed, ledger, systemRow, provider, requestVars>>

(* An error while seeding ends the process, at whatever step it occurs. *)
OnlyLogged(p) ==                                        \* mutant of AfterError
  IF phase[p] = "table" THEN NextSeed(p) ELSE Enter(p, "down") /\ UNCHANGED at
AfterError(p) == Enter(p, "down") /\ UNCHANGED at

Fail(p) ==
  /\ phase[p] \notin {"down", "serving"}
  /\ AfterError(p)
  /\ failed' = [failed EXCEPT ![p] = TRUE]
  /\ UNCHANGED <<requestVars, storeVars>>

(* The process is stopped; the requests it serves go with it. *)
Stop(p) ==
  /\ phase[p] # "down"
  /\ Enter(p, "down")
  /\ failed' = [failed EXCEPT ![p] = TRUE]
  /\ pc' = [q \in Provider |->
       IF host[q] = p /\ pc[q] # "done" THEN "gone" ELSE pc[q]]
  /\ UNCHANGED <<at, host, response, storeVars>>

-----------------------------------------------------------------------------
(* The creation of a provider. *)

Goto(q, l) == pc' = [pc EXCEPT ![q] = l] /\ UNCHANGED response
Respond(q, what) ==
  /\ pc' = [pc EXCEPT ![q] = "done"]
  /\ response' = [response EXCEPT ![q] = IF @ = "none" THEN what ELSE @]

Accept(q, p) ==
  /\ pc[q] = "new"
  /\ phase[p] = "serving"
  /\ host' = [host EXCEPT ![q] = p]
  /\ Goto(q, "ledger") \/ Respond(q, "ERROR")           \* 400: validation
  /\ UNCHANGED <<bootVars, storeVars>>

(* create_account; an error is answered 500, whether or not it took effect. *)
LoggedOnly(q) == Goto(q, "table")                       \* mutant of AfterRefusal
AfterRefusal(q) == Respond(q, "ERROR")

MakeAccount(q) ==
  /\ pc[q] = "ledger"
  /\ \/ ledger' = ledger \cup {q} /\ Goto(q, "table")
     \/ ledger' \in {ledger, ledger \cup {q}} /\ AfterRefusal(q)
  /\ UNCHANGED <<host, systemRow, provider, kafka, bootVars>>

(* idx_only_one_core_provider: the INSERT of a second one is refused. *)
CoreFree(q) == q \in Core => provider \cap Core = {}

(* create_provider: one transaction, which may report an error after COMMIT. *)
InsertProvider(q) ==
  /\ pc[q] = "table"
  /\ \/ CoreFree(q) /\ provider' = provider \cup {q}
        /\ (Goto(q, "topic") \/ Respond(q, "ERROR"))
     \/ Respond(q, "ERROR") /\ UNCHANGED provider
  /\ UNCHANGED <<host, ledger, systemRow, kafka, bootVars>>

(* One script; the first that fails ends them, and 201 is answered all the   *)
(* same.                                                                     *)
RunScript(q) ==
  /\ pc[q] \in KafkaObject
  /\ \/ /\ kafka' = kafka \cup {<<q, pc[q]>>}
        /\ IF pc[q] = "group" THEN Respond(q, "CREATED") ELSE Goto(q, AfterScript[pc[q]])
     \/ Respond(q, "CREATED") /\ UNCHANGED kafka
  /\ UNCHANGED <<host, ledger, systemRow, provider, bootVars>>

(* The client hangs up: the handler is dropped, but the blocking thread that *)
(* runs the scripts is not.  (An account made after the hang-up is the same  *)
(* as one made just before.)                                                 *)
HangUp(q) ==
  /\ \/ pc[q] \in {"ledger", "table"} /\ Goto(q, "gone")
     \/ /\ pc[q] \in KafkaObject
        /\ response' = [response EXCEPT ![q] = "unheard"]
        /\ UNCHANGED pc
  /\ UNCHANGED <<host, bootVars, storeVars>>

Boot(p) == SeedLedger(p) \/ SeedTable(p) \/ SeedKafka(p)

Next ==
  \/ \E p \in Process : Start(p) \/ Boot(p) \/ Fail(p) \/ Stop(p)
  \/ \E q \in Provider :
       \/ \E p \in Process : Accept(q, p)
       \/ MakeAccount(q) \/ InsertProvider(q) \/ RunScript(q) \/ HangUp(q)

Spec == Init /\ [][Next]_vars

(* main() runs on as long as ledger, database and scripts answer. *)
FairSpec == Spec /\ \A p \in Process : WF_vars(Boot(p))

-----------------------------------------------------------------------------
(* Properties. *)

(* A process that serves has everything it relies on, whatever other starts  *)
(* and stops left behind.                                                    *)
ServingIsSeeded ==
  \A p \in Process : phase[p] = "serving" =>
    /\ System \subseteq ledger /\ System \subseteq systemRow
    /\ {Platform} \X ProducerObject \subseteq kafka

(* What the database lists exists in the ledger: ledger errors, stops and    *)
(* hang-ups leave accounts without a row, never a row without an account.    *)
RowHasAccount == systemRow \cup provider \subseteq ledger

(* Whatever stops the scripts, nobody is left with a permission and no user  *)
(* that has it, or with a user and no topic, and what Kafka has for a        *)
(* provider belongs to one that is in the database.                          *)
KafkaInOrder ==
  \A o \in Provider \cup {Platform} :
    /\ <<o, "group">> \in kafka => <<o, "acl">> \in kafka
    /\ <<o, "acl">> \in kafka => <<o, "scram">> \in kafka
    /\ <<o, "scram">> \in kafka => <<o, "topic">> \in kafka
    /\ <<o, "topic">> \in kafka => o \in provider \cup {Platform}

(* A start that meets no error and is not stopped ends in service: seeding   *)
(* can be repeated over anything an interrupted start has done.              *)
StartSucceeds ==
  \A p \in Process :
    phase[p] \notin {"down", "serving"} ~> phase[p] = "serving" \/ failed[p]
=============================================================================
