-------------------------- MODULE Priority_proofs --------------------------
(***************************************************************************)
(* Proofs about Priority, for every set of users and of requests, every    *)
(* key, every size of the pools.                                           *)
(***************************************************************************)
EXTENDS Priority, FiniteSetTheorems, TLAPS

CreateSteps == {"purge", "look", "replace", "replacing", "insert", "placed", "commit",
                "set"}
BeforeCommit == {"new", "purge", "look", "cancel", "cancelling", "cancelled", "replace",
                 "replacing", "insert", "placed", "commit"}

(* Only a create is at a step of a create, and its row is stored when it    *)
(* reaches its SET, and no sooner than its COMMIT.                          *)
Placed ==
  /\ \A p \in Request : pc[p] \in CreateSteps => p \in Creator
  /\ \A c \in Creator : /\ pc[c] \in BeforeCommit => status[c] = "none"
                        /\ pc[c] = "set" => status[c] # "none"

(* A row has one holder, of the user it belongs to, and is not changed by   *)
(* anybody else.                                                            *)
Locks ==
  \A p \in Request :
    /\ mine[p] # NoConfig =>
         /\ status[mine[p]] = "ACTIVE" /\ UserOf[mine[p]] = UserOf[p]
         /\ pc[p] \in {"cancelled", "insert", "placed", "commit"}
         /\ \A q \in Request : mine[q] = mine[p] => q = p
    /\ pc[p] = "cancelled" => mine[p] # NoConfig

(* What the INSERT of a create has found at an index stays so until its     *)
(* COMMIT.                                                                  *)
KeyReserved(p) ==
  /\ ~KeyTaken(p)
  /\ \A q \in Request \ {p} : pc[q] \in {"placed", "commit"} => KeyOf[q] # KeyOf[p]
UserReserved(p) == Unique(p) /\ \A q \in Request \ {p} : ~UserHeld(p, q)
Reserved ==
  \A p \in Request : /\ pc[p] \in {"placed", "commit"} => KeyReserved(p)
                     /\ pc[p] = "commit" => UserReserved(p)

AtMostOne ==
  \A c, d \in Config :
    status[c] = "ACTIVE" /\ status[d] = "ACTIVE" /\ UserOf[c] = UserOf[d] => c = d

History == \A p \in Request : \A c \in took[p] : status[c] = "CANCELLED"

(* A debit follows the configuration it was shown, or that is cancelled.    *)
Follows ==
  \A p \in Debit : seen[p] # NoConfig =>
    /\ status[seen[p]] # "none" /\ UserOf[seen[p]] = UserOf[p] /\ pc[p] # "new"
    /\ \/ status[seen[p]] = "CANCELLED"
       \/ /\ pc[p] \notin {"delete", "transfer"}
          /\ pc[p] = "cancelling" => snap[p] = seen[p]
          /\ pc[p] = "cancelled" => mine[p] = seen[p]

IInv ==
  /\ TypeOK /\ Placed /\ Locks /\ Reserved /\ AtMostOne
  /\ History /\ CancelledOnce /\ CacheWasCommitted /\ Follows
-----------------------------------------------------------------------------
LEMMA Sorts ==
  /\ Config = Creator /\ Creator \subseteq Request /\ Canceller \subseteq Request
  /\ Debit \subseteq Request /\ NoConfig \notin Request /\ NoConfig \notin Config
  /\ Matching \subseteq Config
  /\ \A p \in Request : UserOf[p] \in User
  /\ \A p \in Debit : p \notin Creator /\ p \notin Canceller
  /\ \A p \in Canceller : p \notin Creator
  BY PriorityAssumption DEF Config, Request

(* The one active configuration of a user, if there is one.                 *)
LEMMA TheActive ==
  ASSUME NEW u \in User
  PROVE  /\ ActiveOrNone(u) \in Config \cup {NoConfig}
         /\ ActiveOrNone(u) # NoConfig => ActiveOrNone(u) \in Active(u)
         /\ AtMostOne => \A c \in Active(u) : ActiveOrNone(u) = c
<1>1. CASE Active(u) = {}
  BY <1>1, Sorts DEF ActiveOrNone
<1>2. CASE Active(u) # {}
  <2>1. ActiveOrNone(u) \in Active(u)
    BY <1>2 DEF ActiveOrNone
  <2>2. Active(u) \subseteq Config
    BY DEF Active
  <2>3. AtMostOne => \A c \in Active(u) : ActiveOrNone(u) = c
    BY <2>1 DEF AtMostOne, Active
  <2> QED
    BY <2>1, <2>2, <2>3
<1> QED
  BY <1>1, <1>2

LEMMA InitInv == Init => IInv
  BY Sorts
  DEF Init, IInv, TypeOK, Placed, Locks, Reserved, AtMostOne, History, CancelledOnce,
      CacheWasCommitted, Follows, CreateSteps, BeforeCommit, Step, Response

-----------------------------------------------------------------------------
LEMMA TypeStep ==
  ASSUME TypeOK, Placed, AtMostOne, Locks, [Next]_vars
  PROVE  TypeOK'
<1> USE Sorts DEF TypeOK, Goto, Respond, Step, Response
<1>1. ASSUME NEW p \in Request, Check(p) PROVE TypeOK'
  BY <1>1 DEF Check
<1>2. ASSUME NEW p \in Request, StartCancel(p) PROVE TypeOK'
  BY <1>2 DEF StartCancel
<1>3. ASSUME NEW p \in Request, StartDebit(p) PROVE TypeOK'
  <2>1. NamesProvider(UserOf[p]) => ActiveOrNone(UserOf[p]) \in Matching
    BY TheActive DEF NamesProvider
  <2> QED
    BY <1>3, <2>1 DEF StartDebit
<1>4. ASSUME NEW p \in Request, Purge(p) PROVE TypeOK'
  BY <1>4 DEF Purge
<1>5. ASSUME NEW p \in Request, Look(p) PROVE TypeOK'
  BY <1>5 DEF Look
<1>6. ASSUME NEW p \in Request, UpdateStarts(p) PROVE TypeOK'
  BY <1>6, TheActive DEF UpdateStarts
<1>7. ASSUME NEW p \in Request, UpdateEnds(p) PROVE TypeOK'
  BY <1>7 DEF UpdateEnds, AfterNothing
<1>8. ASSUME NEW p \in Request, CommitCancel(p) PROVE TypeOK'
  <2>1. mine[p] \in Config
    BY <1>8 DEF CommitCancel, Locks
  <2> QED
    BY <1>8, <2>1 DEF CommitCancel, Released
<1>9. ASSUME NEW p \in Request, PlaceKey(p) \/ PlaceUser(p) PROVE TypeOK'
  BY <1>9 DEF PlaceKey, PlaceUser, AfterDuplicate, Released
<1>10. ASSUME NEW p \in Request, CommitCreate(p) PROVE TypeOK'
  <2>1. took[p] \cup ({mine[p]} \ {NoConfig}) \subseteq Config
    OBVIOUS
  <2>2. took' \in [Request -> SUBSET Config]
    BY <1>10, <2>1 DEF CommitCreate
  <2>3. status' \in [Config -> {"none", "ACTIVE", "CANCELLED"}]
    BY <1>10 DEF CommitCreate, Replaced
  <2>4. mine' \in [Request -> Config \cup {NoConfig}]
    BY <1>10 DEF CommitCreate, Released
  <2>5. /\ pc' \in [Request -> Step] /\ response' \in [Request -> Response]
        /\ UNCHANGED <<snap, seen, cache>>
    BY <1>10 DEF CommitCreate
  <2> QED
    BY <2>2, <2>3, <2>4, <2>5
<1>11. ASSUME NEW p \in Request, SetCache(p) PROVE TypeOK'
  BY <1>11 DEF SetCache, Placed, CreateSteps
<1>12. ASSUME NEW p \in Request, DeleteCache(p) PROVE TypeOK'
  BY <1>12 DEF DeleteCache
<1>13. ASSUME NEW p \in Request, Transfer(p) PROVE TypeOK'
  BY <1>13 DEF Transfer
<1>14. ASSUME NEW p \in Request, Abandon(p) \/ BreakDeadlock(p) PROVE TypeOK'
  BY <1>14 DEF Abandon, BreakDeadlock, Released
<1>15. ASSUME NEW u \in User, Expire(u) PROVE TypeOK'
  BY <1>15 DEF Expire
<1>16. CASE UNCHANGED vars
  BY <1>16 DEF vars
<1> QED
  BY <1>1, <1>2, <1>3, <1>4, <1>5, <1>6, <1>7, <1>8, <1>9, <1>10, <1>11, <1>12, <1>13,
     <1>14, <1>15, <1>16
  DEF Next, Work
-----------------------------------------------------------------------------
(* Only the COMMIT of a create makes a row.                                 *)
LEMMA PlacedStep ==
  ASSUME IInv, [Next]_vars
  PROVE  Placed'
<1> USE Sorts DEF IInv, TypeOK, Placed, CreateSteps, BeforeCommit, Goto, Respond
<1>1. ASSUME NEW p \in Request, Check(p) PROVE Placed'
  BY <1>1 DEF Check
<1>2. ASSUME NEW p \in Request, StartCancel(p) PROVE Placed'
  BY <1>2 DEF StartCancel
<1>3. ASSUME NEW p \in Request, StartDebit(p) PROVE Placed'
  BY <1>3 DEF StartDebit
<1>4. ASSUME NEW p \in Request, Purge(p) PROVE Placed'
  BY <1>4 DEF Purge
<1>5. ASSUME NEW p \in Request, Look(p) PROVE Placed'
  BY <1>5 DEF Look
<1>6. ASSUME NEW p \in Request, UpdateStarts(p) PROVE Placed'
  BY <1>6 DEF UpdateStarts
<1>7. ASSUME NEW p \in Request, UpdateEnds(p) PROVE Placed'
  BY <1>7 DEF UpdateEnds, AfterNothing
<1>8. ASSUME NEW p \in Request, CommitCancel(p) PROVE Placed'
  <2>1. mine[p] \in Config /\ status[mine[p]] = "ACTIVE"
    BY <1>8 DEF CommitCancel, Locks
  <2>2. \A c \in Creator : (status'[c] = "none") <=> (status[c] = "none")
    BY <1>8, <2>1 DEF CommitCancel
  <2> QED
    BY <1>8, <2>2 DEF CommitCancel
<1>9. ASSUME NEW p \in Request, PlaceKey(p) \/ PlaceUser(p) PROVE Placed'
  BY <1>9 DEF PlaceKey, PlaceUser, AfterDuplicate
<1>10. ASSUME NEW p \in Request, CommitCreate(p) PROVE Placed'
  <2>1. \A c \in Creator : c # p => ((status'[c] = "none") <=> (status[c] = "none"))
    BY <1>10 DEF CommitCreate, Replaced, Locks
  <2>2. p \in Creator /\ status'[p] = "ACTIVE"
    BY <1>10 DEF CommitCreate, Replaced
  <2>3. \E l \in {"set", "done"} : pc' = [pc EXCEPT ![p] = l]
    BY <1>10 DEF CommitCreate
  <2> QED
    BY <2>1, <2>2, <2>3
<1>11. ASSUME NEW p \in Request, SetCache(p) PROVE Placed'
  BY <1>11 DEF SetCache
<1>12. ASSUME NEW p \in Request, DeleteCache(p) PROVE Placed'
  BY <1>12 DEF DeleteCache
<1>13. ASSUME NEW p \in Request, Transfer(p) PROVE Placed'
  BY <1>13 DEF Transfer
<1>14. ASSUME NEW p \in Request, Abandon(p) \/ BreakDeadlock(p) PROVE Placed'
  BY <1>14 DEF Abandon, BreakDeadlock
<1>15. ASSUME NEW u \in User, Expire(u) PROVE Placed'
  BY <1>15 DEF Expire
<1>16. CASE UNCHANGED vars
  BY <1>16 DEF vars
<1> QED
  BY <1>1, <1>2, <1>3, <1>4, <1>5, <1>6, <1>7, <1>8, <1>9, <1>10, <1>11, <1>12, <1>13,
     <1>14, <1>15, <1>16
  DEF Next, Work

-----------------------------------------------------------------------------
(* What the rows, their holders and the reservations have to do with each   *)
(* other.                                                                   *)
RowInv == Locks /\ Reserved /\ AtMostOne /\ History /\ CancelledOnce

(* A step that touches neither rows nor locks and takes a request that      *)
(* holds nothing to where nothing is held.                                  *)
LEMMA QuietStep ==
  ASSUME TypeOK, RowInv, NEW p \in Request, mine[p] = NoConfig,
         NEW l \in Step, l \notin {"cancelled", "placed", "commit"}, pc' = [pc EXCEPT ![p] = l],
         UNCHANGED <<mine, status, took>>
  PROVE  RowInv'
<1>1. \A q \in Request : pc'[q] \in {"cancelled", "placed", "commit"} =>
        q # p /\ pc[q] = pc'[q]
  BY DEF TypeOK
<1>2. \A q \in Request : mine[q] # NoConfig => pc[q] = pc'[q]
  BY DEF TypeOK
<1>3. Locks'
  BY <1>1, <1>2 DEF RowInv, Locks
<1>4. Reserved'
  BY <1>1 DEF RowInv, Reserved, KeyReserved, UserReserved, UserHeld,
      KeyTaken, Stored, Unique, Active
<1>5. AtMostOne' /\ History' /\ CancelledOnce'
  BY DEF RowInv, AtMostOne, History, CancelledOnce
<1> QED
  BY <1>3, <1>4, <1>5 DEF RowInv

(* A transaction that is rolled back gives up its locks and reservations.   *)
LEMMA RollBackStep ==
  ASSUME TypeOK, RowInv, NEW p \in Request, mine' = Released(p),
         pc' = [pc EXCEPT ![p] = "done"], UNCHANGED <<status, took>>
  PROVE  RowInv'
<1>1. \A q \in Request : pc'[q] \in {"cancelled", "placed", "commit"} =>
        q # p /\ pc[q] = pc'[q] /\ mine'[q] = mine[q]
  BY DEF TypeOK, Released
<1>2. \A q \in Request : mine'[q] # NoConfig =>
        q # p /\ pc[q] = pc'[q] /\ mine'[q] = mine[q]
  BY DEF TypeOK, Released
<1>3. Locks'
  BY <1>1, <1>2 DEF RowInv, Locks
<1>4. Reserved'
  BY <1>1, <1>2 DEF RowInv, Reserved, KeyReserved, UserReserved, UserHeld,
      KeyTaken, Stored, Unique, Active
<1>5. AtMostOne' /\ History' /\ CancelledOnce'
  BY DEF RowInv, AtMostOne, History, CancelledOnce
<1> QED
  BY <1>3, <1>4, <1>5 DEF RowInv

(* An UPDATE takes the lock of a row that nobody holds and that is active.  *)
LEMMA LockStep ==
  ASSUME TypeOK, RowInv, NEW p \in Request, NEW c \in Active(UserOf[p]),
         \A q \in Request \ {p} : mine[q] # c,
         mine[p] = NoConfig, mine' = [mine EXCEPT ![p] = c],
         NEW l \in {"cancelled", "insert"}, pc' = [pc EXCEPT ![p] = l],
         pc[p] \in {"cancelling", "replacing"}, UNCHANGED <<status, took>>
  PROVE  RowInv'
<1>0. c \in Config /\ c # NoConfig /\ status[c] = "ACTIVE" /\ UserOf[c] = UserOf[p]
  BY Sorts DEF Active
<1>1. \A q \in Request : mine[q] # c
  BY <1>0 DEF TypeOK
<1>2. mine'[p] = c /\ \A q \in Request : q # p => mine'[q] = mine[q] /\ pc'[q] = pc[q]
  BY DEF TypeOK
<1>3. pc'[p] = l
  BY DEF TypeOK
<1>4. Locks'
  BY <1>0, <1>1, <1>2, <1>3 DEF RowInv, Locks
<1>5. \A q \in Request : pc'[q] = "commit" => q # p /\ UserOf[q] # UserOf[p]
  BY <1>0, <1>1, <1>2, <1>3 DEF RowInv, Reserved, UserReserved, Unique, Active
<1>6. Reserved'
  BY <1>2, <1>3, <1>5 DEF RowInv, Reserved, KeyReserved, UserReserved, UserHeld,
      KeyTaken, Stored, Unique, Active
<1>7. AtMostOne' /\ History' /\ CancelledOnce'
  BY DEF RowInv, AtMostOne, History, CancelledOnce
<1> QED
  BY <1>4, <1>6, <1>7 DEF RowInv
-----------------------------------------------------------------------------
(* COMMIT of a cancellation: the row that was held becomes CANCELLED.       *)
LEMMA CommitCancelStep ==
  ASSUME IInv, RowInv, NEW p \in Request, CommitCancel(p)
  PROVE  RowInv'
<1> DEFINE c == mine[p]
<1>1. /\ c \in Config /\ c # NoConfig /\ status[c] = "ACTIVE" /\ UserOf[c] = UserOf[p]
      /\ \A q \in Request : mine[q] = c => q = p
  BY DEF CommitCancel, IInv, TypeOK, Locks
<1>2. /\ status' = [status EXCEPT ![c] = "CANCELLED"]
      /\ took' = [took EXCEPT ![p] = @ \cup {c}]
      /\ mine' = [mine EXCEPT ![p] = NoConfig]
      /\ \E l \in {"replace", "delete", "done"} : pc' = [pc EXCEPT ![p] = l]
  BY DEF CommitCancel, Released, Goto, Respond
<1>3. /\ \A q \in Request \ {p} : pc'[q] = pc[q] /\ mine'[q] = mine[q] /\ took'[q] = took[q]
      /\ mine'[p] = NoConfig /\ took'[p] = took[p] \cup {c}
      /\ pc'[p] \in {"replace", "delete", "done"}
  BY <1>2 DEF IInv, TypeOK
<1>4. \A d \in Config : status'[d] = IF d = c THEN "CANCELLED" ELSE status[d]
  BY <1>1, <1>2 DEF IInv, TypeOK
<1> HIDE DEF c
<1>0. /\ Locks /\ Reserved /\ AtMostOne /\ History /\ CancelledOnce
      /\ mine \in [Request -> Config \cup {NoConfig}] /\ took \in [Request -> SUBSET Config]
  BY DEF IInv, TypeOK
<1>5. Locks'
  <2> SUFFICES ASSUME NEW q \in Request, q # p
               PROVE  /\ mine[q] # NoConfig =>
                           /\ status'[mine[q]] = "ACTIVE" /\ UserOf[mine[q]] = UserOf[q]
                           /\ pc[q] \in {"cancelled", "insert", "placed", "commit"}
                           /\ \A r \in Request : mine'[r] = mine[q] => r = q
                      /\ pc[q] = "cancelled" => mine[q] # NoConfig
    BY <1>3 DEF Locks
  <2>1. mine[q] # NoConfig => mine[q] \in Config /\ mine[q] # c
    BY <1>0, <1>1
  <2>2. \A r \in Request : mine'[r] = mine[r] \/ mine'[r] = NoConfig
    BY <1>3
  <2> QED
    BY <1>0, <1>4, <2>1, <2>2 DEF Locks
<1>6. Reserved'
  <2> SUFFICES ASSUME NEW q \in Request
               PROVE  /\ pc'[q] \in {"placed", "commit"} => KeyReserved(q)'
                      /\ pc'[q] = "commit" => UserReserved(q)'
    BY DEF Reserved
  <2>1. pc'[q] \in {"placed", "commit"} => q # p /\ pc[q] = pc'[q] /\ mine'[q] = mine[q]
    BY <1>3
  <2>2. Stored' = Stored
    BY <1>1, <1>4 DEF Stored
  <2>3. \A u : Active(u)' \subseteq Active(u)
    BY <1>4 DEF Active
  <2>4. pc'[q] \in {"placed", "commit"} => KeyReserved(q)'
    BY <1>0, <1>3, <2>1, <2>2 DEF Reserved, KeyReserved, KeyTaken
  <2>5. pc'[q] = "commit" => UserReserved(q)'
    BY <1>0, <1>3, <2>1, <2>3 DEF Reserved, UserReserved, UserHeld, Unique
  <2> QED
    BY <2>4, <2>5
<1>7. AtMostOne'
  BY <1>4 DEF IInv, AtMostOne
<1>8. History'
  <2> SUFFICES ASSUME NEW q \in Request, NEW d \in took'[q] PROVE status'[d] = "CANCELLED"
    BY DEF History
  <2>1. d \in Config /\ (d = c \/ status[d] = "CANCELLED")
    BY <1>0, <1>1, <1>3 DEF History
  <2> QED
    BY <1>1, <1>4, <2>1
<1>9. CancelledOnce'
  <2>1. \A q \in Request : c \notin took[q]
    BY <1>0, <1>1 DEF History
  <2> QED
    BY <1>0, <1>3, <2>1 DEF CancelledOnce
<1> QED
  BY <1>5, <1>6, <1>7, <1>8, <1>9 DEF RowInv

(* COMMIT of a create: the row it holds gives way to its own, and no other  *)
(* row of the user is active.                                               *)
LEMMA CommitCreateStep ==
  ASSUME IInv, RowInv, NEW p \in Request, CommitCreate(p)
  PROVE  RowInv'
<1> USE Sorts
<1> DEFINE c == mine[p]
<1>1. /\ p \in Config /\ status[p] = "none" /\ c # p
      /\ KeyReserved(p) /\ UserReserved(p) /\ pc[p] = "commit"
      /\ c # NoConfig => /\ c \in Config /\ status[c] = "ACTIVE" /\ UserOf[c] = UserOf[p]
                         /\ \A q \in Request : mine[q] = c => q = p
  BY DEF CommitCreate, IInv, TypeOK, Locks, Placed, Reserved, CreateSteps, BeforeCommit
<1>2. /\ took' = [took EXCEPT ![p] = @ \cup ({c} \ {NoConfig})]
      /\ mine' = [mine EXCEPT ![p] = NoConfig]
      /\ \E l \in {"set", "done"} : pc' = [pc EXCEPT ![p] = l]
  BY DEF CommitCreate, Released, Goto, Respond
<1>3. /\ \A q \in Request \ {p} : pc'[q] = pc[q] /\ mine'[q] = mine[q] /\ took'[q] = took[q]
      /\ mine'[p] = NoConfig /\ took'[p] = took[p] \cup ({c} \ {NoConfig})
      /\ pc'[p] \in {"set", "done"}
  BY <1>2 DEF IInv, TypeOK
<1>4. \A d \in Config :
        status'[d] = IF d = p THEN "ACTIVE" ELSE IF d = c THEN "CANCELLED" ELSE status[d]
  BY DEF CommitCreate, Replaced
<1>5. \A d \in Config : status[d] = "ACTIVE" /\ UserOf[d] = UserOf[p] => d = c
  BY <1>1 DEF UserReserved, Unique, Active
<1> HIDE DEF c
<1>0. /\ Locks /\ Reserved /\ AtMostOne /\ History /\ CancelledOnce
      /\ mine \in [Request -> Config \cup {NoConfig}] /\ took \in [Request -> SUBSET Config]
  BY DEF IInv, TypeOK
<1>6. Locks'
  <2> SUFFICES ASSUME NEW q \in Request, q # p
               PROVE  /\ mine[q] # NoConfig =>
                           /\ status'[mine[q]] = "ACTIVE" /\ UserOf[mine[q]] = UserOf[q]
                           /\ pc[q] \in {"cancelled", "insert", "placed", "commit"}
                           /\ \A r \in Request : mine'[r] = mine[q] => r = q
                      /\ pc[q] = "cancelled" => mine[q] # NoConfig
    BY <1>3 DEF Locks
  <2>1. mine[q] # NoConfig =>
          mine[q] \in Config /\ status[mine[q]] = "ACTIVE" /\ mine[q] # p /\ mine[q] # c
    BY <1>0, <1>1 DEF Locks
  <2>2. \A r \in Request : mine'[r] = mine[r] \/ mine'[r] = NoConfig
    BY <1>3
  <2> QED
    BY <1>0, <1>4, <2>1, <2>2 DEF Locks
<1>7. Reserved'
  <2> SUFFICES ASSUME NEW q \in Request
               PROVE  /\ pc'[q] \in {"placed", "commit"} => KeyReserved(q)'
                      /\ pc'[q] = "commit" => UserReserved(q)'
    BY DEF Reserved
  <2>1. pc'[q] \in {"placed", "commit"} => q # p /\ pc[q] = pc'[q] /\ mine'[q] = mine[q]
    BY <1>3
  <2>2. Stored' = Stored \cup {p}
    BY <1>1, <1>4 DEF Stored
  <2>3. pc'[q] \in {"placed", "commit"} => KeyReserved(q)'
    <3>1. pc'[q] \in {"placed", "commit"} => KeyReserved(q) /\ KeyOf[p] # KeyOf[q]
      BY <1>0, <1>1, <2>1 DEF Reserved, KeyReserved
    <3> QED
      BY <1>3, <2>1, <2>2, <3>1 DEF KeyReserved, KeyTaken
  <2>4. pc'[q] = "commit" => UserReserved(q)'
    <3>1. pc'[q] = "commit" => UserReserved(q) /\ UserOf[p] # UserOf[q]
      BY <1>0, <1>1, <2>1 DEF Reserved, UserReserved, UserHeld
    <3>2. UserOf[p] # UserOf[q] => Active(UserOf[q])' \subseteq Active(UserOf[q])
      BY <1>4 DEF Active
    <3> QED
      BY <1>3, <2>1, <3>1, <3>2 DEF UserReserved, UserHeld, Unique
  <2> QED
    BY <2>3, <2>4
<1>8. AtMostOne'
  BY <1>1, <1>4, <1>5 DEF IInv, AtMostOne
<1>9. History'
  <2> SUFFICES ASSUME NEW q \in Request, NEW d \in took'[q] PROVE status'[d] = "CANCELLED"
    BY DEF History
  <2>1. d \in Config /\ (d = c \/ status[d] = "CANCELLED")
    BY <1>0, <1>1, <1>3 DEF History
  <2> QED
    BY <1>1, <1>4, <2>1
<1>10. CancelledOnce'
  <2>1. \A q \in Request : c \in took[q] => c = NoConfig
    BY <1>0, <1>1 DEF History
  <2> QED
    BY <1>0, <1>3, <2>1 DEF CancelledOnce
<1> QED
  BY <1>6, <1>7, <1>8, <1>9, <1>10 DEF RowInv

(* At an index an INSERT reserves what nobody else has reserved.            *)
LEMMA InsertStep ==
  ASSUME IInv, RowInv, NEW p \in Request, PlaceKey(p) \/ PlaceUser(p)
  PROVE  RowInv'
<1>0. /\ UNCHANGED <<status, took>>
      /\ \A q \in Request : q # p => ~WaitsFor(p, q)
  BY DEF PlaceKey, PlaceUser, Blocked
<1>1. CASE mine' = Released(p) /\ AfterDuplicate(p)
  BY <1>0, <1>1, RollBackStep DEF IInv, AfterDuplicate, Respond
<1>2. ASSUME NEW l \in {"placed", "commit"}, pc' = [pc EXCEPT ![p] = l], UNCHANGED mine,
             pc[p] \in {"insert", "placed"}, KeyReserved(p), l = "commit" => UserReserved(p)
      PROVE  RowInv'
  <2>1. pc'[p] = l /\ \A q \in Request : q # p => pc'[q] = pc[q]
    BY <1>2 DEF IInv, TypeOK
  <2>2. Locks'
    BY <1>0, <1>2, <2>1 DEF IInv, Locks
  <2>3. Reserved'
    <3> SUFFICES ASSUME NEW q \in Request
                 PROVE  /\ pc'[q] \in {"placed", "commit"} => KeyReserved(q)'
                        /\ pc'[q] = "commit" => UserReserved(q)'
      BY DEF Reserved
    <3>1. /\ pc'[q] \in {"placed", "commit"} => KeyReserved(q)
          /\ pc'[q] = "commit" => UserReserved(q)
      BY <1>2, <2>1 DEF IInv, Reserved
    <3>2. pc'[q] \in {"placed", "commit"} => KeyReserved(q)'
      BY <1>0, <1>2, <2>1, <3>1 DEF KeyReserved, KeyTaken, Stored
    <3>3. pc'[q] = "commit" => UserReserved(q)'
      <4>1. CASE q = p
        BY <1>0, <1>2, <2>1, <3>1, <4>1 DEF UserReserved, UserHeld, Unique, Active
      <4>2. CASE q # p /\ pc'[q] = "commit"
        <5>1. pc[q] = "commit" /\ UserReserved(q)
          BY <2>1, <3>1, <4>2
        <5>2. l = "commit" => UserOf[p] # UserOf[q]
          BY <1>2, <4>2, <5>1 DEF UserReserved, UserHeld
        <5> QED
          BY <1>0, <1>2, <2>1, <5>1, <5>2 DEF UserReserved, UserHeld, Unique, Active
      <4> QED
        BY <4>1, <4>2
    <3> QED
      BY <3>2, <3>3
  <2>4. AtMostOne' /\ History' /\ CancelledOnce'
    BY <1>0 DEF IInv, AtMostOne, History, CancelledOnce
  <2> QED
    BY <2>2, <2>3, <2>4 DEF RowInv
<1>3. CASE PlaceKey(p) /\ ~KeyTaken(p)
  <2>1. KeyReserved(p)
    BY <1>0, <1>3 DEF PlaceKey, KeyReserved, WaitsFor, KeyHeld
  <2> QED
    BY <1>2, <1>3, <2>1 DEF PlaceKey, Goto
<1>4. CASE PlaceUser(p) /\ Unique(p)
  <2>1. KeyReserved(p) /\ UserReserved(p)
    BY <1>0, <1>4 DEF PlaceUser, IInv, Reserved, UserReserved, WaitsFor
  <2> QED
    BY <1>2, <1>4, <2>1 DEF PlaceUser, Goto
<1> QED
  BY <1>1, <1>3, <1>4 DEF PlaceKey, PlaceUser

-----------------------------------------------------------------------------
LEMMA RowStep ==
  ASSUME IInv, [Next]_vars
  PROVE  RowInv'
<1>0. TypeOK /\ RowInv
  BY DEF IInv, RowInv
<1>1. \A q \in Request :
        pc[q] \notin {"cancelled", "insert", "placed", "commit"} => mine[q] = NoConfig
  BY DEF IInv, Locks
<1>2. ASSUME NEW p \in Request,
             \/ Check(p) \/ StartCancel(p) \/ StartDebit(p) \/ Purge(p) \/ Look(p)
             \/ UpdateStarts(p) \/ SetCache(p) \/ DeleteCache(p) \/ Transfer(p)
      PROVE  RowInv'
  <2>1. UNCHANGED <<mine, status, took>> /\ mine[p] = NoConfig
    BY <1>1, <1>2 DEF Check, StartCancel, StartDebit, Purge, Look, UpdateStarts, SetCache,
                      DeleteCache, Transfer
  <2>2. \E l \in Step \ {"cancelled", "placed", "commit"} : pc' = [pc EXCEPT ![p] = l]
    BY <1>2 DEF Check, StartCancel, StartDebit, Purge, Look, UpdateStarts, SetCache,
                DeleteCache, Transfer, Goto, Respond, Step
  <2> QED
    BY <1>0, <2>1, <2>2, QuietStep
<1>3. ASSUME NEW p \in Request, UpdateEnds(p) PROVE RowInv'
  <2>1. UNCHANGED <<status, took>> /\ mine[p] = NoConfig /\ ~Blocked(p)
        /\ pc[p] \in {"cancelling", "replacing"}
    BY <1>1, <1>3 DEF UpdateEnds
  <2>2. CASE StillMatches(p)
    <3>1. /\ mine' = [mine EXCEPT ![p] = snap[p]] /\ snap[p] \in Active(UserOf[p])
          /\ \E l \in {"cancelled", "insert"} : pc' = [pc EXCEPT ![p] = l]
      BY <1>3, <2>2 DEF UpdateEnds, StillMatches, Goto
    <3>2. \A q \in Request \ {p} : mine[q] # snap[p]
      BY <2>1, <3>1, Sorts DEF Blocked, WaitsFor, RowHeld, Active
    <3> QED
      BY <1>0, <2>1, <3>1, <3>2, LockStep
  <2>3. CASE ~StillMatches(p)
    <3>1. /\ UNCHANGED mine
          /\ \E l \in Step \ {"cancelled", "placed", "commit"} : pc' = [pc EXCEPT ![p] = l]
      BY <1>3, <2>3 DEF UpdateEnds, AfterNothing, Goto, Respond, Step
    <3> QED
      BY <1>0, <2>1, <3>1, QuietStep
  <2> QED
    BY <2>2, <2>3
<1>4. ASSUME NEW p \in Request, Abandon(p) \/ BreakDeadlock(p) PROVE RowInv'
  BY <1>0, <1>4, RollBackStep DEF Abandon, BreakDeadlock, Respond
<1>5. ASSUME NEW u \in User, Expire(u) PROVE RowInv'
  BY <1>0, <1>5
  DEF Expire, RowInv, Locks, Reserved, KeyReserved, UserReserved, UserHeld,
      KeyTaken, Stored, Unique, Active, AtMostOne,
      History, CancelledOnce
<1>6. CASE UNCHANGED vars
  BY <1>0, <1>6
  DEF vars, RowInv, Locks, Reserved, KeyReserved, UserReserved, UserHeld,
      KeyTaken, Stored, Unique, Active, AtMostOne,
      History, CancelledOnce
<1> QED
  BY <1>0, <1>2, <1>3, <1>4, <1>5, <1>6, CommitCancelStep, InsertStep, CommitCreateStep
  DEF Next, Work
-----------------------------------------------------------------------------
(* A row never disappears and a cancellation is never taken back.           *)
LEMMA Lasting ==
  ASSUME IInv, [Next]_vars
  PROVE  \A c \in Config : /\ status[c] # "none" => status'[c] # "none"
                           /\ status[c] = "CANCELLED" => status'[c] = "CANCELLED"
<1>1. CASE UNCHANGED status
  BY <1>1
<1>2. ASSUME NEW p \in Request, CommitCancel(p)
      PROVE  \A c \in Config : /\ status[c] # "none" => status'[c] # "none"
                               /\ status[c] = "CANCELLED" => status'[c] = "CANCELLED"
  BY <1>2 DEF CommitCancel, IInv, TypeOK
<1>3. ASSUME NEW p \in Request, CommitCreate(p)
      PROVE  \A c \in Config : /\ status[c] # "none" => status'[c] # "none"
                               /\ status[c] = "CANCELLED" => status'[c] = "CANCELLED"
  <2>1. status[p] = "none"
    BY <1>3 DEF CommitCreate, IInv, Placed, CreateSteps, BeforeCommit
  <2> QED
    BY <1>3, <2>1 DEF CommitCreate, Replaced
<1> QED
  BY <1>1, <1>2, <1>3
  DEF Next, Work, Check, StartCancel, StartDebit, Purge, Look, UpdateStarts, UpdateEnds,
      PlaceKey, PlaceUser, SetCache, DeleteCache, Transfer, Abandon, BreakDeadlock, Expire,
      vars

LEMMA CacheStep ==
  ASSUME IInv, [Next]_vars
  PROVE  CacheWasCommitted'
<1> USE Sorts
<1>1. \A c \in Stored : c \in Stored'
  BY Lasting DEF Stored
<1>2. CacheWasCommitted /\ cache \in [User -> Config \cup {NoConfig}]
  BY DEF IInv, TypeOK
<1>3. CASE UNCHANGED cache
  BY <1>1, <1>2, <1>3 DEF CacheWasCommitted
<1>4. ASSUME NEW u \in User, cache' = [cache EXCEPT ![u] = NoConfig]
      PROVE  CacheWasCommitted'
  BY <1>1, <1>2, <1>4 DEF CacheWasCommitted
<1>5. ASSUME NEW p \in Request, SetCache(p) PROVE CacheWasCommitted'
  <2>1. p \in Stored /\ cache' = [cache EXCEPT ![UserOf[p]] = p]
    BY <1>5 DEF SetCache, IInv, Placed, CreateSteps, Stored
  <2> QED
    BY <1>1, <1>2, <2>1 DEF CacheWasCommitted
<1> QED
  BY <1>3, <1>4, <1>5
  DEF Next, Work, Check, StartCancel, StartDebit, Purge, Look, UpdateStarts, UpdateEnds,
      CommitCancel, PlaceKey, PlaceUser, CommitCreate, DeleteCache, Transfer, Abandon,
      BreakDeadlock, Expire, vars

(* A debit is shown a configuration that is active, finds the same one with *)
(* its UPDATE or else one after it was cancelled, and passes it cancelled.  *)
LEMMA FollowStep ==
  ASSUME IInv, [Next]_vars
  PROVE  Follows'
<1> USE Sorts
<1> SUFFICES ASSUME NEW p \in Debit, seen'[p] # NoConfig
             PROVE  /\ status'[seen'[p]] # "none" /\ UserOf[seen'[p]] = UserOf[p]
                    /\ pc'[p] # "new"
                    /\ \/ status'[seen'[p]] = "CANCELLED"
                       \/ /\ pc'[p] \notin {"delete", "transfer"}
                          /\ pc'[p] = "cancelling" => snap'[p] = seen'[p]
                          /\ pc'[p] = "cancelled" => mine'[p] = seen'[p]
  BY DEF Follows
<1>0. /\ TypeOK /\ Follows /\ AtMostOne /\ p \in Request /\ pc[p] \notin CreateSteps
      /\ UserOf[p] \in User /\ p \notin Creator /\ p \notin Canceller
  BY DEF IInv, Placed
<1>1. CASE StartDebit(p)
  <2>1. CASE NamesProvider(UserOf[p]) /\ seen'[p] = ActiveOrNone(UserOf[p]) /\ pc'[p] = "cancel"
    <3>1. seen'[p] \in Active(UserOf[p])
      BY <1>0, <2>1, TheActive
    <3> QED
      BY <1>1, <2>1, <3>1 DEF StartDebit, Active
  <2>2. CASE UNCHANGED seen
    <3>1. seen[p] = NoConfig
      BY <1>0, <1>1 DEF StartDebit, Follows
    <3> QED
      BY <2>2, <3>1
  <2> QED
    BY <1>0, <1>1, <2>1, <2>2 DEF StartDebit, TypeOK, Goto
<1>2. CASE ~StartDebit(p)
  <2> DEFINE c == seen[p]
  <2>1. seen'[p] = c
    BY <1>0, <1>2
    DEF TypeOK, Next, Work, Check, StartCancel, StartDebit, Purge, Look, UpdateStarts,
        UpdateEnds, CommitCancel, PlaceKey, PlaceUser, CommitCreate, SetCache, DeleteCache, Transfer,
        Abandon, BreakDeadlock, Expire, vars
  <2>2. /\ c \in Config /\ c # NoConfig /\ pc[p] # "new"
        /\ status[c] \in {"ACTIVE", "CANCELLED"} /\ UserOf[c] = UserOf[p]
    BY <1>0, <2>1 DEF Follows, TypeOK
  <2>3. pc'[p] # "new"
    BY <1>0, <1>2, <2>2
    DEF TypeOK, Next, Work, Check, StartCancel, StartDebit, Purge, Look, UpdateStarts,
        UpdateEnds, AfterNothing, CommitCancel, PlaceKey, PlaceUser, AfterDuplicate, CommitCreate,
        SetCache, DeleteCache, Transfer, Abandon, BreakDeadlock, Expire, vars, Goto, Respond
  <2>4. status'[c] # "none" /\ (status[c] = "CANCELLED" => status'[c] = "CANCELLED")
    BY <2>2, Lasting
  <2>5. CASE status[c] = "CANCELLED"
    BY <2>1, <2>2, <2>3, <2>4, <2>5
  <2>6. CASE status[c] = "ACTIVE"
    <3>0. /\ pc[p] \notin {"delete", "transfer"}
          /\ pc[p] = "cancelling" => snap[p] = c
          /\ pc[p] = "cancelled" => mine[p] = c
      BY <1>0, <2>2, <2>6 DEF Follows
    <3>1. c \in Active(UserOf[p]) /\ ActiveOrNone(UserOf[p]) = c
      BY <1>0, <2>2, <2>6, TheActive DEF Active
    <3> SUFFICES \/ status'[c] = "CANCELLED"
                 \/ /\ pc'[p] \notin {"delete", "transfer"}
                    /\ pc'[p] = "cancelling" => snap'[p] = c
                    /\ pc'[p] = "cancelled" => mine'[p] = c
      BY <2>1, <2>2, <2>3, <2>4
    <3>2. CASE UpdateStarts(p)
      BY <1>0, <3>1, <3>2 DEF UpdateStarts, Goto, TypeOK, CreateSteps
    <3>3. CASE UpdateEnds(p)
      <4>1. pc[p] = "cancelling" /\ snap[p] = c
        BY <1>0, <3>0, <3>3 DEF UpdateEnds, CreateSteps
      <4>2. StillMatches(p)
        BY <3>1, <4>1 DEF StillMatches
      <4> QED
        BY <1>0, <3>3, <4>1, <4>2 DEF UpdateEnds, Goto, TypeOK
    <3>4. CASE CommitCancel(p)
      BY <1>0, <2>2, <3>0, <3>4 DEF CommitCancel, TypeOK
    <3>5. CASE Abandon(p) \/ BreakDeadlock(p)
      BY <1>0, <3>5 DEF Abandon, BreakDeadlock, Respond, TypeOK
    <3>6. CASE UNCHANGED <<pc, snap, mine>>
      BY <3>0, <3>6
    <3>7. ASSUME NEW q \in Request, q # p,
                 \/ Check(q) \/ StartCancel(q) \/ StartDebit(q) \/ Work(q) \/ Abandon(q)
                 \/ BreakDeadlock(q)
          PROVE  pc'[p] = pc[p] /\ snap'[p] = snap[p] /\ mine'[p] = mine[p]
      BY <1>0, <3>7
      DEF TypeOK, Work, Check, StartCancel, StartDebit, Purge, Look, UpdateStarts,
          UpdateEnds, AfterNothing, CommitCancel, PlaceKey, PlaceUser, AfterDuplicate, CommitCreate,
          SetCache, DeleteCache, Transfer, Abandon, BreakDeadlock, Goto, Respond, Released
    <3>8. ~ ( \/ Check(p) \/ StartCancel(p) \/ Purge(p) \/ Look(p) \/ PlaceKey(p)
              \/ PlaceUser(p)
              \/ CommitCreate(p) \/ SetCache(p) \/ DeleteCache(p) \/ Transfer(p) )
      BY <1>0, <3>0
      DEF Check, StartCancel, Purge, Look, PlaceKey, PlaceUser, CommitCreate, SetCache, DeleteCache,
          Transfer, CreateSteps
    <3> QED
      BY <1>2, <3>0, <3>2, <3>3, <3>4, <3>5, <3>6, <3>7, <3>8 DEF Next, Work, Expire, vars
  <2> QED
    BY <2>2, <2>5, <2>6
<1> QED
  BY <1>1, <1>2

-----------------------------------------------------------------------------
(* The strengthening of the invariants below holds in every state: what a    *)
(* transaction of one request has locked or checked is not undone by the     *)
(* steps of the others.                                                      *)
THEOREM InvariantHolds == Spec => []IInv
<1>1. IInv /\ [Next]_vars => IInv'
  <2> SUFFICES ASSUME IInv, [Next]_vars PROVE IInv'
    OBVIOUS
  <2>1. TypeOK /\ Placed /\ AtMostOne /\ Locks
    BY DEF IInv
  <2>2. TypeOK'
    BY <2>1, TypeStep
  <2>3. Placed'
    BY PlacedStep
  <2>4. RowInv'
    BY RowStep
  <2>5. CacheWasCommitted'
    BY CacheStep
  <2>6. Follows'
    BY FollowStep
  <2> QED
    BY <2>2, <2>3, <2>4, <2>5, <2>6 DEF IInv, RowInv
<1> QED
  BY <1>1, InitInv, PTL DEF Spec

(* Every variable of the priority handlers keeps its type; in particular a   *)
(* debit never disables a configuration that does not name its provider on   *)
(* the ground of what it was shown.                                          *)
THEOREM TypesHold == Spec => []TypeOK
<1>1. IInv => TypeOK
  BY DEF IInv
<1> QED
  BY <1>1, InvariantHolds, PTL

(* create_priority_config never leaves a user with two active configurations.*)
THEOREM OneActiveHolds == Spec => []OneActive
<1>1. IInv => OneActive
  <2> SUFFICES ASSUME IInv, NEW u \in User PROVE Cardinality(Active(u)) <= 1
    BY DEF OneActive
  <2>1. CASE Active(u) = {}
    BY <2>1, FS_EmptySet
  <2>2. CASE Active(u) # {}
    <3>1. PICK c \in Active(u) : TRUE
      BY <2>2
    <3>2. Active(u) = {c}
      BY <3>1 DEF IInv, AtMostOne, Active
    <3> QED
      BY <3>2, FS_Singleton
  <2> QED
    BY <2>1, <2>2
<1> QED
  BY <1>1, InvariantHolds, PTL

(* Redis shows a user only configurations of that user that were committed.  *)
THEOREM CacheWasCommittedHolds == Spec => []CacheWasCommitted
<1>1. IInv => CacheWasCommitted
  BY DEF IInv
<1> QED
  BY <1>1, InvariantHolds, PTL

(* No two requests of any kind cancel the same configuration.                *)
THEOREM CancelledOnceHolds == Spec => []CancelledOnce
<1>1. IInv => CancelledOnce
  BY DEF IInv
<1> QED
  BY <1>1, InvariantHolds, PTL

(* debit_user moves money only after the configuration it was shown is       *)
(* disabled.                                                                 *)
THEOREM DebitDisablesHolds == Spec => []DebitDisables
<1>1. IInv => DebitDisables
  BY DEF IInv, Follows, DebitDisables
<1> QED
  BY <1>1, InvariantHolds, PTL
-----------------------------------------------------------------------------
(* What a transaction waits for is another transaction.                     *)
LEMMA HolderInTransaction ==
  ASSUME IInv, NEW p \in Request, NEW q \in Request, WaitsFor(p, q)
  PROVE  InTransaction(q)
<1>1. mine[q] # NoConfig \/ pc[q] \in {"placed", "commit"}
  BY DEF WaitsFor, RowHeld, KeyHeld, UserHeld, IInv, TypeOK
<1> QED
  BY <1>1 DEF IInv, Locks, InTransaction

(* The row locks and the index of the active configurations alone close no  *)
(* circle: of the holders of one user's row there is only one.              *)
LEMMA KeyAmongStuck ==
  ASSUME IInv, NEW D \in SUBSET Request, Stuck(D)
  PROVE  \E p \in D : pc[p] = "insert" /\ \E c \in Creator \ {p} : KeyOf[c] = KeyOf[p]
<1>1. \A p \in D : pc[p] \in {"cancelling", "replacing", "insert", "placed"}
  BY DEF Stuck, WaitsFor
<1>2. ASSUME NEW p \in D, pc[p] = "insert"
      PROVE  \E c \in Creator \ {p} : KeyOf[c] = KeyOf[p]
  <2>1. PICK q \in D : q # p /\ KeyHeld(p, q)
    BY <1>2 DEF Stuck, WaitsFor
  <2>2. CASE pc[q] \in {"placed", "commit"} /\ KeyOf[q] = KeyOf[p]
    BY <2>1, <2>2 DEF IInv, Placed, CreateSteps
  <2>3. CASE mine[q] # NoConfig /\ KeyOf[mine[q]] = KeyOf[p]
    <3>1. mine[q] \in Creator /\ status[mine[q]] = "ACTIVE"
      BY <2>3 DEF IInv, TypeOK, Locks, Config
    <3>2. status[p] = "none"
      BY <1>2 DEF IInv, Placed, CreateSteps, BeforeCommit
    <3> QED
      BY <2>3, <3>1, <3>2
  <2> QED
    BY <2>1, <2>2, <2>3 DEF KeyHeld
<1>3. ASSUME \A p \in D : pc[p] # "insert" PROVE FALSE
  <2>1. \A p \in D : mine[p] # NoConfig => pc[p] = "placed"
    BY <1>1, <1>3 DEF IInv, Locks
  <2>2. PICK p \in D : TRUE
    BY DEF Stuck
  <2>3. PICK q \in D : WaitsFor(p, q)
    BY <2>2 DEF Stuck
  <2>4. mine[q] # NoConfig /\ pc[q] = "placed"
    BY <1>1, <1>3, <2>1, <2>3 DEF WaitsFor, RowHeld, UserHeld, IInv, TypeOK
  <2>5. PICK r \in D : WaitsFor(q, r)
    BY DEF Stuck
  <2>6. r # q /\ UserOf[r] = UserOf[q] /\ mine[r] # NoConfig
    BY <1>1, <2>4, <2>5 DEF WaitsFor, UserHeld
  <2>7. mine[r] = mine[q]
    BY <2>4, <2>6 DEF IInv, TypeOK, Locks, AtMostOne
  <2> QED
    BY <2>6, <2>7 DEF IInv, Locks
<1> QED
  BY <1>2, <1>3

(* The pool of the database is full of transactions; that of Redis is full   *)
(* of creates, which wait only for the database.                             *)
LEMMA TransactionOrReady ==
  ASSUME IInv, NEW p \in Request, Live(p), \A q \in Request : ~Ready(q)
  PROVE  \E q \in Request : InTransaction(q)
<1> SUFFICES ASSUME \A q \in Request : ~InTransaction(q) PROVE FALSE
  OBVIOUS
<1>1. DbFree
  <2>1. {q \in Request : InTransaction(q)} = {}
    OBVIOUS
  <2> QED
    BY <2>1, FS_EmptySet, PriorityAssumption DEF DbFree
<1>2. \A q \in Request : pc[q] \notin {"look", "cancel", "replace", "set", "transfer"}
  BY <1>1 DEF Ready
<1>3. RedisFree
  <2>1. {q \in Request : KeepsRedis(q)} = {}
    BY <1>2 DEF KeepsRedis, InTransaction
  <2> QED
    BY <2>1, FS_EmptySet, PriorityAssumption DEF RedisFree
<1>4. pc[p] \notin {"purge", "delete"}
  BY <1>3 DEF Ready
<1> QED
  BY <1>2, <1>4 DEF IInv, TypeOK, Step, Live, InTransaction

(* However many users, requests and connections there are, requests that     *)
(* cannot go on are held up by transactions which wait for one another, and  *)
(* which PostgreSQL therefore finds; and creates that all carry keys of      *)
(* their own are never held up.                                              *)
THEOREM OnlyRepeatedKeysDeadlockHolds == Spec => []OnlyRepeatedKeysDeadlock
<1>1. IInv => OnlyRepeatedKeysDeadlock
  <2> SUFFICES ASSUME IInv, NEW p \in Request, Live(p), \A q \in Request : ~Ready(q)
               PROVE  \E D \in SUBSET {q \in Request : Blocked(q)} :
                        /\ Stuck(D)
                        /\ \E q \in D : /\ pc[q] = "insert"
                                       /\ \E c \in Creator \ {q} : KeyOf[c] = KeyOf[q]
    BY DEF OnlyRepeatedKeysDeadlock
  <2> DEFINE D == {q \in Request : InTransaction(q)}
  <2>1. \A q \in D : Blocked(q)
    BY DEF Ready, InTransaction
  <2>2. \A q \in D : \E r \in D : WaitsFor(q, r)
    BY <2>1, HolderInTransaction DEF Blocked
  <2>3. D # {}
    BY TransactionOrReady
  <2>4. Stuck(D)
    BY <2>2, <2>3 DEF Stuck
  <2> HIDE DEF D
  <2>5. D \in SUBSET {q \in Request : Blocked(q)}
    BY <2>1 DEF D
  <2> QED
    BY <2>4, <2>5, KeyAmongStuck
<1> QED
  BY <1>1, InvariantHolds, PTL
-----------------------------------------------------------------------------
(* Seen through Store, a COMMIT is one operation and the rest is stuttering. *)
LEMMA SameActive ==
  ASSUME NEW u \in User, Active(u)' = Active(u)
  PROVE  ActiveOrNone(u)' = ActiveOrNone(u)
  BY DEF ActiveOrNone

LEMMA CancelIsClear ==
  ASSUME IInv, NEW p \in Request, CommitCancel(p)
  PROVE  Store!Clear(UserOf[p])
<1> DEFINE c == mine[p]
           u == UserOf[p]
<1>1. c \in Active(u) /\ c # NoConfig /\ u \in User
  BY Sorts DEF CommitCancel, IInv, TypeOK, Locks, Active
<1>2. \A d \in Config : status'[d] = IF d = c THEN "CANCELLED" ELSE status[d]
  BY DEF CommitCancel, IInv, TypeOK
<1>3. ActiveOrNone(u) = c /\ Active(u) = {c}
  BY <1>1, TheActive DEF IInv, AtMostOne, Active
<1>4. Active(u)' = {}
  BY <1>2, <1>3 DEF Active
<1>5. ActiveOrNone(u)' = NoConfig
  BY <1>4 DEF ActiveOrNone
<1>6. \A v \in User \ {u} : Active(v)' = Active(v)
  BY <1>1, <1>2 DEF Active
<1>7. \A v \in User \ {u} : ActiveOrNone(v)' = ActiveOrNone(v)
  BY <1>6, SameActive
<1>8. Stored' = Stored
  BY <1>1, <1>2 DEF Stored, Active
<1> HIDE DEF c, u
<1> QED
  BY <1>1, <1>3, <1>5, <1>7, <1>8 DEF Store!Clear, u

LEMMA CreateIsReplace ==
  ASSUME IInv, NEW p \in Request, CommitCreate(p)
  PROVE  p \in Config /\ Store!Replace(p)
<1> DEFINE c == mine[p]
           u == UserOf[p]
<1>1. /\ p \in Config /\ u \in User /\ status[p] = "none" /\ ~KeyTaken(p) /\ Unique(p)
      /\ c # NoConfig => c \in Config /\ status[c] = "ACTIVE" /\ UserOf[c] = u
  BY Sorts
  DEF CommitCreate, IInv, TypeOK, Placed, Locks, Reserved, KeyReserved, UserReserved,
      CreateSteps, BeforeCommit
<1>2. \A d \in Config :
        status'[d] = IF d = p THEN "ACTIVE" ELSE IF d = c THEN "CANCELLED" ELSE status[d]
  BY DEF CommitCreate, Replaced
<1>3. Active(u)' = {p}
  BY <1>1, <1>2 DEF Unique, Active
<1>4. ActiveOrNone(u)' = p
  BY <1>3 DEF ActiveOrNone
<1>5. \A v \in User \ {u} : Active(v)' = Active(v)
  BY <1>1, <1>2, Sorts DEF Active
<1>6. \A v \in User \ {u} : ActiveOrNone(v)' = ActiveOrNone(v)
  BY <1>5, SameActive
<1>7. Stored' = Stored \cup {p}
  BY <1>1, <1>2, Sorts DEF Stored
<1>8. \A d \in Stored : d # p /\ KeyOf[d] # KeyOf[p]
  BY <1>1 DEF KeyTaken, Stored
<1> HIDE DEF c, u
<1> QED
  BY <1>1, <1>4, <1>6, <1>7, <1>8 DEF Store!Replace, u

LEMMA StoreStep ==
  ASSUME IInv, [Next]_vars
  PROVE  [Store!Next]_(Store!vars)
<1>1. CASE UNCHANGED status
  <2>1. Stored' = Stored /\ \A u \in User : Active(u)' = Active(u)
    BY <1>1 DEF Stored, Active
  <2>2. \A u \in User : ActiveOrNone(u)' = ActiveOrNone(u)
    BY <2>1, SameActive
  <2> QED
    BY <2>1, <2>2 DEF Store!vars
<1>2. ASSUME NEW p \in Request, CommitCancel(p) PROVE Store!Next
  BY <1>2, CancelIsClear, Sorts DEF Store!Next
<1>3. ASSUME NEW p \in Request, CommitCreate(p) PROVE Store!Next
  BY <1>3, CreateIsReplace DEF Store!Next
<1> QED
  BY <1>1, <1>2, <1>3
  DEF Next, Work, Check, StartCancel, StartDebit, Purge, Look, UpdateStarts, UpdateEnds,
      PlaceKey, PlaceUser, SetCache, DeleteCache, Transfer, Abandon, BreakDeadlock, Expire,
      vars

(* The overlapping transactions of create_priority_config and                *)
(* cancel_active_priority_config implement the register of each user that    *)
(* PriorityStore describes: replaced and cleared at once, keys stored once.  *)
THEOREM StoreImplemented == Spec => ImplementsStore
<1>1. Init => Store!Init
  BY DEF Init, Store!Init, ActiveOrNone, Active, Stored
<1>2. IInv /\ [Next]_vars => [Store!Next]_(Store!vars)
  BY StoreStep
<1> QED
  BY <1>1, <1>2, InvariantHolds, PTL DEF Spec, Store!Spec, ImplementsStore
=============================================================================
