----------------------------- MODULE MCQueries -----------------------------
(***************************************************************************)
(* An instance of Queries for TLC.  The integers have four bits: -8 .. 7.  *)
(***************************************************************************)
EXTENDS Queries

CONSTANTS m1, m2,      \* accounts
          t1, t2, t3, t4

(* Account m1 has a credit that does not fit an i64 and a debit; the rest    *)
(* are rows of the listing.                                                  *)
MCAccountOf == [t \in Transfer |-> IF t = t4 THEN m2 ELSE m1]
MCTypeOf == [t \in Transfer |-> IF t = t2 THEN "DEBIT" ELSE "CREDIT"]
MCAmountOf == [t \in Transfer |->
  CASE t = t1 -> 12 [] t = t2 -> 7 [] t = t3 -> 7 [] OTHER -> 2]
MCLimit == {-1, 2, 4}
MCPage == {0, 1, 2, 7}
=============================================================================
