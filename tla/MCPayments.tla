----------------------------- MODULE MCPayments -----------------------------
(***************************************************************************)
(* Instance of Payments for TLC: one key, used for a credit and a debit.   *)
(***************************************************************************)
EXTENDS Payments

CONSTANTS p1, p2, l1, l2,  \* payments and their lookup_account calls
          o1,              \* a call of another handler, answered at once
          x, y             \* ids

MCKindOf == [r \in Request |->
  CASE r \in Payment -> "CreateTransfer"
    [] r = o1 -> "GetAccountBalances"
    [] OTHER -> "LookupAccount"]
MCTargetOf == [r \in Request |-> IF r \in Payment THEN x ELSE y]
MCLookupOf == [a \in Payment |-> IF a = p1 THEN l1 ELSE l2]
MCTypeOf == [a \in Payment |-> IF a = p1 THEN "CREDIT" ELSE "DEBIT"]
MCAmountOf == [a \in Payment |-> 1]
=============================================================================
