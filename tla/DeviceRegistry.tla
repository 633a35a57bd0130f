---------------------------- MODULE DeviceRegistry ----------------------------
(***************************************************************************)
(* What the device management of src/airscan-device.c promises, without  *)
(* records, references, addresses or HTTP: each name is absent, pending   *)
(* (found, capabilities not yet negotiated) or ready.  A pending name     *)
(* becomes ready or fails; any known name may be removed; stopping the   *)
(* subsystem forgets every name, and it is cleaned up only when no name   *)
(* is known, after which it may be initialised and started again.  A      *)
(* ready device never goes back to pending, and a pending one never stays *)
(* pending for ever.                                                       *)
(***************************************************************************)
CONSTANTS
    Names,        \* device names
    StaticNames   \* names of statically configured devices

VARIABLES
    phase,        \* "init" | "running" | "stopped" | "cleaned"
    registry      \* name -> "absent" | "pending" | "ready"

avars == <<phase, registry>>

States == {"absent", "pending", "ready"}

TypeOK ==
    /\ phase \in {"init", "running", "stopped", "cleaned"}
    /\ registry \in [Names -> States]

Init ==
    /\ phase = "init"
    /\ registry = [n \in Names |-> "absent"]

\* The subsystem starts with the static devices pending
Start ==
    /\ phase = "init"
    /\ phase' = "running"
    /\ registry' = [n \in Names |-> IF n \in StaticNames THEN "pending"
                                                         ELSE "absent"]

\* Every device is forgotten
Stop ==
    /\ phase = "running"
    /\ phase' = "stopped"
    /\ registry' = [n \in Names |-> "absent"]

\* The subsystem is torn down, with no device left
Cleanup ==
    /\ phase \in {"init", "stopped"}
    /\ \A n \in Names : registry[n] = "absent"
    /\ phase' = "cleaned"
    /\ UNCHANGED registry

\* The subsystem is set up again
Reinit ==
    /\ phase = "cleaned"
    /\ phase' = "init"
    /\ UNCHANGED registry

\* Discovery reports a name not yet known
Found(n) ==
    /\ phase = "running"
    /\ registry[n] = "absent"
    /\ registry' = [registry EXCEPT ![n] = "pending"]
    /\ UNCHANGED phase

\* Capabilities were negotiated at one of the device's addresses
Resolve(n) ==
    /\ registry[n] = "pending"
    /\ registry' = [registry EXCEPT ![n] = "ready"]
    /\ UNCHANGED phase

\* Every address of a pending device failed
Fail(n) ==
    /\ registry[n] = "pending"
    /\ registry' = [registry EXCEPT ![n] = "absent"]
    /\ UNCHANGED phase

\* Discovery reports a known device gone
Remove(n) ==
    /\ phase = "running"
    /\ registry[n] # "absent"
    /\ registry' = [registry EXCEPT ![n] = "absent"]
    /\ UNCHANGED phase

Next ==
    \/ Start
    \/ Stop
    \/ Cleanup
    \/ Reinit
    \/ \E n \in Names : Found(n) \/ Resolve(n) \/ Fail(n) \/ Remove(n)

(* A pending name is resolved, one way or the other.                       *)
Fairness == \A n \in Names : WF_avars(Resolve(n) \/ Fail(n))

SafeSpec == Init /\ [][Next]_avars

Spec == SafeSpec /\ Fairness
=============================================================================
