------------------------ MODULE Provisioning_proofs ------------------------
(***************************************************************************)
(* Proofs about Provisioning, for every number of processes, of system     *)
(* accounts and of providers.                                              *)
(***************************************************************************)
EXTENDS Provisioning, TLAPS

(* The system accounts a process has seeded, by the step it is at.         *)
SeededBelow(S, n) == \A j \in DOMAIN SeedAt : j < n => SeedAt[j] \in S
SeededUpTo(S, n) == \A j \in DOMAIN SeedAt : j <= n => SeedAt[j] \in S

SeedsDone ==
  \A p \in Process :
    /\ phase[p] = "ledger" => SeededBelow(ledger, at[p]) /\ SeededBelow(systemRow, at[p])
    /\ phase[p] = "table" => SeededUpTo(ledger, at[p]) /\ SeededBelow(systemRow, at[p])
    /\ phase[p] \in ProducerObject \cup {"serving"}
         => System \subseteq ledger /\ System \subseteq systemRow

(* The Kafka objects it has made.                                          *)
ScriptsDone ==
  \A p \in Process :
    /\ phase[p] \in {"scram", "acl", "serving"} => <<Platform, "topic">> \in kafka
    /\ phase[p] \in {"acl", "serving"} => <<Platform, "scram">> \in kafka
    /\ phase[p] = "serving" => <<Platform, "acl">> \in kafka

(* A request for a provider reaches the database with its account made.    *)
AccountFirst == \A q \in Provider : pc[q] = "table" => q \in ledger

(* It reaches a script with its row stored and the scripts before it run.   *)
ScriptsInOrder ==
  \A q \in Provider :
    /\ pc[q] \in KafkaObject => q \in provider
    /\ pc[q] = "scram" => <<q, "topic">> \in kafka
    /\ pc[q] = "acl" => <<q, "scram">> \in kafka
    /\ pc[q] = "group" => <<q, "acl">> \in kafka

IInv ==
  /\ TypeOK /\ SeedsDone /\ ScriptsDone /\ AccountFirst /\ RowHasAccount
  /\ ScriptsInOrder /\ KafkaInOrder

-----------------------------------------------------------------------------
LEMMA SeedFacts ==
  /\ DOMAIN SeedAt = 1 .. Len(SeedAt) /\ Len(SeedAt) \in Nat /\ 1 \in DOMAIN SeedAt
  /\ \A i \in DOMAIN SeedAt : SeedAt[i] \in System
  BY ProvisioningAssumption DEF System

LEMMA InitInv == Init => IInv
  BY SeedFacts, ProvisioningAssumption
  DEF Init, IInv, TypeOK, SeedsDone, ScriptsDone, AccountFirst, RowHasAccount,
      ScriptsInOrder, KafkaInOrder, KafkaObject, ProducerObject

LEMMA TypeStep ==
  ASSUME TypeOK, [Next]_vars
  PROVE  TypeOK'
<1> USE SeedFacts
<1>1. ASSUME NEW p \in Process, Start(p) PROVE TypeOK'
  BY <1>1 DEF TypeOK, Start, Enter, requestVars, storeVars
<1>2. ASSUME NEW p \in Process, SeedLedger(p) PROVE TypeOK'
  BY <1>2 DEF TypeOK, SeedLedger, AfterExists, Enter, requestVars
<1>3. ASSUME NEW p \in Process, SeedTable(p) PROVE TypeOK'
  <2>1. at[p] \in DOMAIN SeedAt /\ SeedAt[at[p]] \in System
    BY DEF TypeOK
  <2>2. systemRow' \in SUBSET System
    BY <1>3, <2>1 DEF TypeOK, SeedTable
  <2>3. at' \in [Process -> DOMAIN SeedAt]
    <3>1. MoreSeeds(p) => at[p] + 1 \in DOMAIN SeedAt
      BY <2>1 DEF MoreSeeds
    <3> QED
      BY <1>3, <3>1 DEF TypeOK, SeedTable, NextSeed
  <2>4. \E l \in {"ledger", "topic"} : phase' = [phase EXCEPT ![p] = l]
    BY <1>3 DEF SeedTable, NextSeed, Enter
  <2> QED
    BY <1>3, <2>2, <2>3, <2>4 DEF TypeOK, SeedTable, requestVars, KafkaObject, ProducerObject
<1>4. ASSUME NEW p \in Process, SeedKafka(p) PROVE TypeOK'
  BY <1>4 DEF TypeOK, SeedKafka, AfterScript, Enter, requestVars, KafkaObject, ProducerObject
<1>5. ASSUME NEW p \in Process, Fail(p) PROVE TypeOK'
  BY <1>5 DEF TypeOK, Fail, AfterError, Enter, requestVars, storeVars
<1>6. ASSUME NEW p \in Process, Stop(p) PROVE TypeOK'
  BY <1>6 DEF TypeOK, Stop, Enter, storeVars
<1>7. ASSUME NEW q \in Provider, NEW p \in Process, Accept(q, p) PROVE TypeOK'
  BY <1>7 DEF TypeOK, Accept, Goto, Respond, bootVars, storeVars
<1>8. ASSUME NEW q \in Provider, MakeAccount(q) PROVE TypeOK'
  BY <1>8 DEF TypeOK, MakeAccount, AfterRefusal, Goto, Respond, bootVars
<1>9. ASSUME NEW q \in Provider, InsertProvider(q) PROVE TypeOK'
  BY <1>9 DEF TypeOK, InsertProvider, Goto, Respond, bootVars, KafkaObject
<1>10. ASSUME NEW q \in Provider, RunScript(q) PROVE TypeOK'
  <2>1. /\ kafka' = kafka \/ kafka' = kafka \cup {<<q, pc[q]>>}
        /\ pc[q] \in KafkaObject
        /\ UNCHANGED <<host, ledger, systemRow, provider, bootVars>>
    BY <1>10 DEF RunScript
  <2>2. /\ \E l \in {"done", "scram", "acl", "group"} : pc' = [pc EXCEPT ![q] = l]
        /\ response' = response \/ \E what \in {"none", "CREATED", "ERROR", "unheard"} :
                                     response' = [response EXCEPT ![q] = what]
    BY <1>10 DEF TypeOK, RunScript, AfterScript, Goto, Respond, KafkaObject
  <2>3. kafka' \in SUBSET ((Provider \cup {Platform}) \X KafkaObject)
    BY <2>1 DEF TypeOK
  <2> QED
    BY <2>1, <2>2, <2>3 DEF TypeOK, bootVars, KafkaObject
<1>11. ASSUME NEW q \in Provider, HangUp(q) PROVE TypeOK'
  BY <1>11 DEF TypeOK, HangUp, Goto, bootVars, storeVars
<1>12. CASE UNCHANGED vars
  BY <1>12 DEF TypeOK, vars, bootVars, requestVars, storeVars
<1> QED
  BY <1>1, <1>2, <1>3, <1>4, <1>5, <1>6, <1>7, <1>8, <1>9, <1>10, <1>11, <1>12
  DEF Next, Boot

-----------------------------------------------------------------------------
(* Nothing in the stores is ever undone, so what a process has seeded stays *)
(* seeded while it does not move itself.                                    *)
Grows ==
  /\ ledger \subseteq ledger' /\ systemRow \subseteq systemRow'
  /\ provider \subseteq provider' /\ kafka \subseteq kafka'

LEMMA StoresGrow ==
  ASSUME [Next]_vars
  PROVE  Grows
  BY DEF Next, Start, Boot, SeedLedger, SeedTable, SeedKafka, Fail, Stop, Accept, MakeAccount,
         InsertProvider, RunScript, HangUp, storeVars, vars, Grows

LEMMA UnmovedKeeps ==
  ASSUME SeedsDone, ScriptsDone, Grows, NEW p \in Process,
         phase'[p] = phase[p], at'[p] = at[p]
  PROVE  /\ phase'[p] = "ledger" =>
              SeededBelow(ledger', at'[p]) /\ SeededBelow(systemRow', at'[p])
         /\ phase'[p] = "table" =>
              SeededUpTo(ledger', at'[p]) /\ SeededBelow(systemRow', at'[p])
         /\ phase'[p] \in ProducerObject \cup {"serving"}
              => System \subseteq ledger' /\ System \subseteq systemRow'
         /\ phase'[p] \in {"scram", "acl", "serving"} => <<Platform, "topic">> \in kafka'
         /\ phase'[p] \in {"acl", "serving"} => <<Platform, "scram">> \in kafka'
         /\ phase'[p] = "serving" => <<Platform, "acl">> \in kafka'
  BY DEF SeedsDone, ScriptsDone, Grows, SeededBelow, SeededUpTo

(* Up to the last is all of them.                                           *)
LEMMA LastIsAll ==
  ASSUME NEW S, SeededUpTo(S, Len(SeedAt))
  PROVE  System \subseteq S
  BY SeedFacts DEF System, SeededUpTo

-----------------------------------------------------------------------------
LEMMA SeedsStep ==
  ASSUME TypeOK, SeedsDone, ScriptsDone, [Next]_vars
  PROVE  SeedsDone' /\ ScriptsDone'
<1> USE SeedFacts, StoresGrow
<1> SUFFICES ASSUME NEW p \in Process, phase'[p] # phase[p] \/ at'[p] # at[p]
             PROVE  /\ phase'[p] = "ledger" =>
                         SeededBelow(ledger', at'[p]) /\ SeededBelow(systemRow', at'[p])
                    /\ phase'[p] = "table" =>
                         SeededUpTo(ledger', at'[p]) /\ SeededBelow(systemRow', at'[p])
                    /\ phase'[p] \in ProducerObject \cup {"serving"}
                         => System \subseteq ledger' /\ System \subseteq systemRow'
                    /\ phase'[p] \in {"scram", "acl", "serving"}
                         => <<Platform, "topic">> \in kafka'
                    /\ phase'[p] \in {"acl", "serving"} => <<Platform, "scram">> \in kafka'
                    /\ phase'[p] = "serving" => <<Platform, "acl">> \in kafka'
  BY UnmovedKeeps DEF SeedsDone, ScriptsDone, SeededBelow, SeededUpTo
<1>1. CASE Start(p)
  BY <1>1 DEF Start, Enter, TypeOK, ProducerObject, KafkaObject, SeededBelow
<1>2. CASE SeedLedger(p)
  <2>1. phase'[p] = "table" /\ at'[p] = at[p] /\ SeedAt[at[p]] \in ledger'
    BY <1>2 DEF SeedLedger, AfterExists, Enter, TypeOK
  <2>2. SeededUpTo(ledger', at'[p]) /\ SeededBelow(systemRow', at'[p])
    BY <1>2, <2>1 DEF SeedLedger, SeedsDone, SeededBelow, SeededUpTo, TypeOK, Grows
  <2> QED
    BY <2>1, <2>2 DEF ProducerObject, KafkaObject
<1>3. CASE SeedTable(p)
  <2>1. SeededUpTo(ledger', at[p]) /\ SeededUpTo(systemRow', at[p])
    BY <1>3 DEF SeedTable, SeedsDone, SeededBelow, SeededUpTo, TypeOK, Grows
  <2>2. CASE MoreSeeds(p)
    <3>1. phase'[p] = "ledger" /\ at'[p] = at[p] + 1
      BY <1>3, <2>2 DEF SeedTable, NextSeed, Enter, TypeOK
    <3> QED
      BY <2>1, <3>1 DEF SeededUpTo, SeededBelow, ProducerObject, KafkaObject, TypeOK
  <2>3. CASE ~MoreSeeds(p)
    <3>1. phase'[p] = "topic" /\ at[p] = Len(SeedAt)
      BY <1>3, <2>3 DEF SeedTable, NextSeed, MoreSeeds, Enter, TypeOK
    <3> QED
      BY <2>1, <3>1, LastIsAll
  <2> QED
    BY <2>2, <2>3
<1>4. CASE SeedKafka(p)
  <2>1. /\ phase[p] \in ProducerObject /\ <<Platform, phase[p]>> \in kafka'
        /\ phase'[p] = IF phase[p] = "acl" THEN "serving" ELSE AfterScript[phase[p]]
    BY <1>4 DEF SeedKafka, Enter, TypeOK
  <2>2. \/ phase[p] = "topic" /\ phase'[p] = "scram"
        \/ phase[p] = "scram" /\ phase'[p] = "acl"
        \/ phase[p] = "acl" /\ phase'[p] = "serving"
    BY <2>1 DEF AfterScript, ProducerObject, KafkaObject
  <2>3. System \subseteq ledger' /\ System \subseteq systemRow'
    BY <2>1 DEF SeedsDone, Grows
  <2> QED
    BY <2>1, <2>2, <2>3 DEF ScriptsDone, Grows
<1>5. CASE Fail(p) \/ Stop(p)
  BY <1>5 DEF Fail, AfterError, Stop, Enter, TypeOK, ProducerObject, KafkaObject
<1>6. Start(p) \/ Boot(p) \/ Fail(p) \/ Stop(p)
  BY DEF Next, Start, Boot, SeedLedger, AfterExists, SeedTable, NextSeed, SeedKafka, Fail,
         AfterError, Stop, Enter, Accept, MakeAccount, InsertProvider, RunScript, HangUp,
         bootVars, vars, TypeOK
<1> QED
  BY <1>1, <1>2, <1>3, <1>4, <1>5, <1>6 DEF Boot

LEMMA RowStep ==
  ASSUME IInv, [Next]_vars
  PROVE  AccountFirst' /\ RowHasAccount'
<1> USE StoresGrow, SeedFacts
<1>1. ASSUME NEW p \in Process, Start(p) \/ Fail(p) PROVE AccountFirst' /\ RowHasAccount'
  BY <1>1 DEF Start, Fail, IInv, AccountFirst, RowHasAccount, requestVars, storeVars
<1>2. ASSUME NEW p \in Process, SeedLedger(p) \/ SeedKafka(p)
      PROVE  AccountFirst' /\ RowHasAccount'
  BY <1>2 DEF SeedLedger, SeedKafka, IInv, AccountFirst, RowHasAccount, requestVars
<1>3. ASSUME NEW p \in Process, SeedTable(p) PROVE AccountFirst' /\ RowHasAccount'
  <2>1. SeedAt[at[p]] \in ledger
    BY <1>3 DEF SeedTable, IInv, SeedsDone, SeededUpTo, TypeOK
  <2> QED
    BY <1>3, <2>1 DEF SeedTable, IInv, AccountFirst, RowHasAccount, requestVars
<1>4. ASSUME NEW p \in Process, Stop(p) PROVE AccountFirst' /\ RowHasAccount'
  BY <1>4 DEF Stop, IInv, TypeOK, AccountFirst, RowHasAccount, storeVars
<1>5. ASSUME NEW q \in Provider, NEW p \in Process, Accept(q, p)
      PROVE  AccountFirst' /\ RowHasAccount'
  BY <1>5 DEF Accept, Goto, Respond, IInv, TypeOK, AccountFirst, RowHasAccount, storeVars
<1>6. ASSUME NEW q \in Provider, MakeAccount(q) PROVE AccountFirst' /\ RowHasAccount'
  BY <1>6 DEF MakeAccount, AfterRefusal, Goto, Respond, IInv, TypeOK, AccountFirst,
              RowHasAccount
<1>7. ASSUME NEW q \in Provider, InsertProvider(q) PROVE AccountFirst' /\ RowHasAccount'
  BY <1>7 DEF InsertProvider, Goto, Respond, IInv, TypeOK, AccountFirst, RowHasAccount
<1>8. ASSUME NEW q \in Provider, RunScript(q) PROVE AccountFirst' /\ RowHasAccount'
  BY <1>8 DEF RunScript, AfterScript, KafkaObject, Goto, Respond, IInv, TypeOK, AccountFirst,
              RowHasAccount
<1>9. ASSUME NEW q \in Provider, HangUp(q) PROVE AccountFirst' /\ RowHasAccount'
  BY <1>9 DEF HangUp, Goto, IInv, TypeOK, AccountFirst, RowHasAccount, storeVars
<1>10. CASE UNCHANGED vars
  BY <1>10 DEF vars, requestVars, storeVars, IInv, AccountFirst, RowHasAccount
<1> QED
  BY <1>1, <1>2, <1>3, <1>4, <1>5, <1>6, <1>7, <1>8, <1>9, <1>10 DEF Next, Boot

(* The scripts of requests and of starts extend what Kafka has in order.    *)
LEMMA OrderStep ==
  ASSUME IInv, [Next]_vars
  PROVE  ScriptsInOrder' /\ KafkaInOrder'
<1> USE ProvisioningAssumption
<1>1. ASSUME NEW p \in Process, Start(p) \/ Fail(p) \/ SeedLedger(p) \/ SeedTable(p)
      PROVE  ScriptsInOrder' /\ KafkaInOrder'
  BY <1>1 DEF Start, Fail, SeedLedger, SeedTable, IInv, ScriptsInOrder, KafkaInOrder,
              requestVars, storeVars
<1>2. ASSUME NEW p \in Process, SeedKafka(p) PROVE ScriptsInOrder' /\ KafkaInOrder'
  <2>1. /\ phase[p] \in {"topic", "scram", "acl"}
        /\ kafka' = kafka \cup {<<Platform, phase[p]>>}
        /\ UNCHANGED <<provider, pc>>
    BY <1>2 DEF SeedKafka, ProducerObject, KafkaObject, requestVars
  <2> QED
    BY <2>1 DEF IInv, ScriptsDone, ScriptsInOrder, KafkaInOrder
<1>3. ASSUME NEW p \in Process, Stop(p) PROVE ScriptsInOrder' /\ KafkaInOrder'
  BY <1>3 DEF Stop, IInv, TypeOK, ScriptsInOrder, KafkaInOrder, KafkaObject, storeVars
<1>4. ASSUME NEW q \in Provider, NEW p \in Process, Accept(q, p)
      PROVE  ScriptsInOrder' /\ KafkaInOrder'
  BY <1>4 DEF Accept, Goto, Respond, IInv, TypeOK, ScriptsInOrder, KafkaInOrder, KafkaObject,
              storeVars
<1>5. ASSUME NEW q \in Provider, MakeAccount(q) PROVE ScriptsInOrder' /\ KafkaInOrder'
  BY <1>5 DEF MakeAccount, AfterRefusal, Goto, Respond, IInv, TypeOK, ScriptsInOrder,
              KafkaInOrder, KafkaObject
<1>6. ASSUME NEW q \in Provider, InsertProvider(q) PROVE ScriptsInOrder' /\ KafkaInOrder'
  BY <1>6 DEF InsertProvider, Goto, Respond, IInv, TypeOK, ScriptsInOrder, KafkaInOrder,
              KafkaObject
<1>7. ASSUME NEW q \in Provider, RunScript(q) PROVE ScriptsInOrder' /\ KafkaInOrder'
  <2>1. /\ pc[q] \in KafkaObject /\ UNCHANGED provider
        /\ \/ kafka' = kafka \cup {<<q, pc[q]>>}
           \/ kafka' = kafka
        /\ \/ pc' = [pc EXCEPT ![q] = "done"]
           \/ /\ kafka' = kafka \cup {<<q, pc[q]>>} /\ pc[q] # "group"
              /\ pc' = [pc EXCEPT ![q] = AfterScript[pc[q]]]
    BY <1>7 DEF RunScript, Goto, Respond
  <2>2. KafkaInOrder'
    <3>1. CASE kafka' = kafka
      BY <2>1, <3>1 DEF IInv, KafkaInOrder
    <3>2. CASE kafka' = kafka \cup {<<q, pc[q]>>}
      <4>1. /\ pc[q] \in {"topic", "scram", "acl", "group"} /\ q \in provider
            /\ pc[q] = "scram" => <<q, "topic">> \in kafka
            /\ pc[q] = "acl" => <<q, "scram">> \in kafka
            /\ pc[q] = "group" => <<q, "acl">> \in kafka
        BY <2>1 DEF IInv, ScriptsInOrder, KafkaObject
      <4>2. KafkaInOrder /\ provider' = provider
        BY <2>1 DEF IInv
      <4> QED
        BY <3>2, <4>1, <4>2 DEF KafkaInOrder
    <3> QED
      BY <2>1, <3>1, <3>2
  <2>3. CASE pc' = [pc EXCEPT ![q] = "done"]
    BY <2>1, <2>2, <2>3 DEF IInv, TypeOK, ScriptsInOrder, KafkaObject
  <2>4. CASE /\ kafka' = kafka \cup {<<q, pc[q]>>} /\ pc[q] # "group"
             /\ pc' = [pc EXCEPT ![q] = AfterScript[pc[q]]]
    <3>1. \/ pc[q] = "topic" /\ AfterScript[pc[q]] = "scram"
          \/ pc[q] = "scram" /\ AfterScript[pc[q]] = "acl"
          \/ pc[q] = "acl" /\ AfterScript[pc[q]] = "group"
      BY <2>1, <2>4 DEF AfterScript, KafkaObject
    <3> QED
      BY <2>1, <2>2, <2>4, <3>1 DEF IInv, TypeOK, ScriptsInOrder, KafkaObject
  <2> QED
    BY <2>1, <2>3, <2>4
<1>8. ASSUME NEW q \in Provider, HangUp(q) PROVE ScriptsInOrder' /\ KafkaInOrder'
  BY <1>8 DEF HangUp, Goto, IInv, TypeOK, ScriptsInOrder, KafkaInOrder, KafkaObject, storeVars
<1>9. CASE UNCHANGED vars
  BY <1>9 DEF vars, requestVars, storeVars, IInv, ScriptsInOrder, KafkaInOrder
<1> QED
  BY <1>1, <1>2, <1>3, <1>4, <1>5, <1>6, <1>7, <1>8, <1>9 DEF Next, Boot

THEOREM InvariantHolds == Spec => []IInv
<1>1. IInv /\ [Next]_vars => IInv'
  BY TypeStep, SeedsStep, RowStep, OrderStep DEF IInv
<1> QED
  BY <1>1, InitInv, PTL DEF Spec

-----------------------------------------------------------------------------
(* Every variable of the start and of the provider handlers keeps its type,  *)
(* so only providers and seeds ever get rows and Kafka objects.              *)
THEOREM TypesHold == Spec => []TypeOK
<1>1. IInv => TypeOK
  BY DEF IInv
<1> QED
  BY <1>1, InvariantHolds, PTL

(* The database never lists an account that the ledger does not have.       *)
THEOREM RowsHaveAccounts == Spec => []RowHasAccount
<1>1. IInv => RowHasAccount
  BY DEF IInv
<1> QED
  BY <1>1, InvariantHolds, PTL

(* A process that serves requests finds all that main() is to prepare,      *)
(* wherever earlier or concurrent starts were interrupted.                  *)
THEOREM ServersAreSeeded == Spec => []ServingIsSeeded
<1>1. IInv => ServingIsSeeded
  BY DEF IInv, ServingIsSeeded, SeedsDone, ScriptsDone, ProducerObject, KafkaObject
<1> QED
  BY <1>1, InvariantHolds, PTL

(* No failure, hang-up or stop leaves a permission without its user or a     *)
(* user without its topic, nor Kafka objects of an unknown provider.        *)
THEOREM KafkaStaysInOrder == Spec => []KafkaInOrder
<1>1. IInv => KafkaInOrder
  BY DEF IInv
<1> QED
  BY <1>1, InvariantHolds, PTL
=============================================================================
