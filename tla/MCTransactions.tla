--------------------------- MODULE MCTransactions ---------------------------
(***************************************************************************)
(* Instances of Transactions for TLC: a key sent twice, and another key.   *)
(***************************************************************************)
EXTENDS Transactions

CONSTANTS a1, a2, a3,  \* HTTP requests; a1 and a2 carry one key
          k1, k2,      \* idempotency keys
          Amount3      \* the amount of a3

MCKindOf == [a \in Request |-> "CreateTransfer"]
MCTargetOf == [a \in Request |-> IF a = a3 THEN k2 ELSE k1]
MCTypeOf == [a \in Request |-> "DEBIT"]
MCAmountOf == [a \in Request |-> IF a = a3 THEN Amount3 ELSE 1]

(* One key, used for a credit and then for a debit.                          *)
MixedTypeOf == [a \in Request |-> IF a = a1 THEN "CREDIT" ELSE "DEBIT"]
=============================================================================
