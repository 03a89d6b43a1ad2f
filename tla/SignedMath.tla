----------------------------- MODULE SignedMath -----------------------------
(***************************************************************************)
(* The 64-bit signed arithmetic of the handlers that report balances       *)
(* (handlers/user.rs, priority.rs) and cut listings into pages             *)
(* (handlers/transaction.rs), on integers of a width given by MaxSigned.   *)
(***************************************************************************)
EXTENDS Integers

CONSTANT MaxSigned   \* i64::MAX

ASSUME WidthAssumption == MaxSigned \in Nat \ {0}

I64 == (-MaxSigned - 1) .. MaxSigned
Modulus == 2 * (MaxSigned + 1)

(* What a release build keeps of a result; also "n as i64" of an unsigned n. *)
Saturated(n) == IF n > MaxSigned THEN MaxSigned ELSE n  \* mutant of Wrapped
Wrapped(n) == ((n + MaxSigned + 1) % Modulus) - MaxSigned - 1

(* A debug build panics instead when a result does not fit; casts never do.  *)
Overflows(n) == n \notin I64

(* acc.credits_posted as i64 - acc.debits_posted as i64 *)
RawDifference(credits, debits) == Wrapped(credits) - Wrapped(debits)
Difference(credits, debits) == Wrapped(RawDifference(credits, debits))

(* acc.credits_posted.saturating_sub(acc.debits_posted) as i64 *)
CreditsOnly(credits, debits) == Wrapped(credits)        \* mutant of Available
Available(credits, debits) ==
  Wrapped(IF credits >= debits THEN credits - debits ELSE 0)
=============================================================================
