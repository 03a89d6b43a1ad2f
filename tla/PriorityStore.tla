--------------------------- MODULE PriorityStore ---------------------------
(***************************************************************************)
(* What the priority repository promises (trait PriorityRepository,        *)
(* src/src/db/traits.rs, and db/postgres/priority.rs): for each user a     *)
(* register that holds the active configuration.  Storing a configuration  *)
(* replaces the active one in the same instant, an idempotency key is      *)
(* stored once, and a configuration that has been replaced or cancelled    *)
(* never becomes active again.                                             *)
(***************************************************************************)
CONSTANTS User, Config, NoConfig,
          UserOf,  \* the user of a configuration
          KeyOf    \* its idempotency key

VARIABLES active,  \* the active configuration of each user, or NoConfig
          stored   \* all configurations ever stored

vars == <<active, stored>>

Init ==
  /\ active = [u \in User |-> NoConfig]
  /\ stored = {}

(* create_priority_config *)
Replace(c) ==
  /\ \A d \in stored : d # c /\ KeyOf[d] # KeyOf[c]
  /\ active' = [active EXCEPT ![UserOf[c]] = c]
  /\ stored' = stored \cup {c}

(* cancel_active_priority_config *)
Clear(u) ==
  /\ active[u] # NoConfig
  /\ active' = [active EXCEPT ![u] = NoConfig]
  /\ UNCHANGED stored

Next == (\E c \in Config : Replace(c)) \/ (\E u \in User : Clear(u))

Spec == Init /\ [][Next]_vars
=============================================================================
