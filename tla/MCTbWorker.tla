----------------------------- MODULE MCTbWorker -----------------------------
(***************************************************************************)
(* Instances of TbWorker for TLC.  A request is a model value; its kind    *)
(* and its id are given by the definitions below, one pair per instance,   *)
(* for whichever of r1..r4 a configuration puts in Request.                *)
(***************************************************************************)
EXTENDS TbWorker

CONSTANTS r1, r2, r3, r4,  \* requests
          x, y             \* ids

(* Transfers of which two carry the same id (one idempotency key sent twice). *)
TransfersKindOf == [r \in Request |-> "CreateTransfer"]
TransfersTargetOf == [r \in Request |-> IF r \in {r1, r2} THEN x ELSE y]

(* Two accounts that are created and then looked up.                         *)
AccountsKindOf == [r \in Request |->
  IF r \in {r1, r2} THEN "CreateAccount" ELSE "LookupAccount"]
AccountsTargetOf == [r \in Request |-> IF r \in {r1, r3} THEN x ELSE y]
=============================================================================
