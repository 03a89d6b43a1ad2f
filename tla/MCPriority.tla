----------------------------- MODULE MCPriority -----------------------------
(***************************************************************************)
(* Instances of Priority for TLC.                                          *)
(***************************************************************************)
EXTENDS Priority

CONSTANTS c1, c2, c3, c4,  \* creates
          x1, d1,          \* a cancellation, a debit
          a, b             \* users

AllOfA == [p \in Request |-> a]
FourthOfB == [p \in Request |-> IF p = c4 THEN b ELSE a]

OwnKey == [c \in Creator |-> c]        \* every create has a key of its own
OneKey == [c \in Creator |-> "key"]    \* a create and its retries
TwoKeys == [c \in Creator |-> IF c = c1 THEN "first" ELSE "second"]
=============================================================================
