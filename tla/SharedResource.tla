--------------------------- MODULE SharedResource ---------------------------
(***************************************************************************)
(* What reference counting promises the users of a descriptor: it stays    *)
(* open while anyone holds it, and the last holder to let go of a managed  *)
(* descriptor (SOCKETXX_AUTO_CLOSE) releases it, exactly once.  A          *)
(* descriptor that is not managed (SOCKETXX_MANUAL_FD) is left to its      *)
(* creator.  Module Handle is shown to implement this specification.       *)
(***************************************************************************)
CONSTANTS Resources,  \* the descriptors
          Holders     \* whatever can hold one

VARIABLES phase,      \* the life of each resource
          holders,    \* who holds each resource
          managed     \* the resources released with their last holder

rvars == <<phase, holders, managed>>

ResourceTypeOK ==
  /\ phase \in [Resources -> {"absent", "held", "released"}]
  /\ holders \in [Resources -> SUBSET Holders]
  /\ managed \in SUBSET Resources

ResourceInit ==
  /\ phase = [r \in Resources |-> "absent"]
  /\ holders = [r \in Resources |-> {}]
  /\ managed = {}

Acquire(r, x) ==
  /\ phase[r] = "absent"
  /\ phase' = [phase EXCEPT ![r] = "held"]
  /\ holders' = [holders EXCEPT ![r] = {x}]
  /\ \/ managed' = managed \cup {r}
     \/ managed' = managed

Share(r, x) ==
  /\ holders[r] # {}
  /\ holders' = [holders EXCEPT ![r] = @ \cup {x}]
  /\ UNCHANGED <<phase, managed>>

Transfer(r, x, y) ==
  /\ x \in holders[r]
  /\ holders' = [holders EXCEPT ![r] = (@ \ {x}) \cup {y}]
  /\ UNCHANGED <<phase, managed>>

Drop(r, x) ==
  /\ x \in holders[r]
  /\ holders' = [holders EXCEPT ![r] = @ \ {x}]
  /\ phase' = IF holders[r] = {x} /\ r \in managed
                THEN [phase EXCEPT ![r] = "released"]
                ELSE phase
  /\ UNCHANGED managed

ResourceNext ==
  \E r \in Resources, x \in Holders :
    \/ Acquire(r, x)
    \/ Share(r, x)
    \/ \E y \in Holders : Transfer(r, x, y)
    \/ Drop(r, x)

ResourceSpec == ResourceInit /\ [][ResourceNext]_rvars
=============================================================================
