------------------------- MODULE MCUserProvisioning -------------------------
(***************************************************************************)
(* Instances of UserProvisioning for TLC: one person, registered twice by  *)
(* one provider and once by another.                                       *)
(***************************************************************************)
EXTENDS UserProvisioning

CONSTANTS u1, u2, u3,  \* registrations
          n1,          \* a national id
          p1, p2       \* providers

MCNidOf == [r \in Request |-> n1]
MCProviderOf == [r \in Request |-> IF r = u3 THEN p2 ELSE p1]
=============================================================================
