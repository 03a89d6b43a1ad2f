--------------------------- MODULE MCProvisioning ---------------------------
(***************************************************************************)
(* Instances of Provisioning for TLC: two processes, two system accounts.  *)
(***************************************************************************)
EXTENDS Provisioning

CONSTANTS s1, s2,  \* system accounts
          q1, q2,  \* providers
          h1, h2   \* processes

MCSeedAt == <<s1, s2>>
=============================================================================
