------------------------------ MODULE AckDuty ------------------------------
(***************************************************************************)
(* What the acknowledgment machinery of an endpoint promises: receiving a  *)
(* packet creates a duty to acknowledge, an acknowledgment is only sent    *)
(* while there is such a duty, and a duty never stays open for ever.       *)
(* AckQueue is shown to implement this specification.                      *)
(***************************************************************************)
CONSTANT Endpoint

VARIABLES due,    \* due[e]: e has received something it has not acknowledged yet
          parity  \* parity[e]: the number of acknowledgments e has sent, modulo 2

dutyVars == <<due, parity>>

DutyInit ==
    /\ due = [e \in Endpoint |-> FALSE]
    /\ parity = [e \in Endpoint |-> FALSE]

Incur(e) ==
    /\ due' = [due EXCEPT ![e] = TRUE]
    /\ UNCHANGED parity

Discharge(e) ==
    /\ due[e]
    /\ due' = [due EXCEPT ![e] = FALSE]
    /\ parity' = [parity EXCEPT ![e] = ~@]

DutyNext == \E e \in Endpoint : Incur(e) \/ Discharge(e)

DutySafety == DutyInit /\ [][DutyNext]_dutyVars

DutySpec == DutySafety /\ \A e \in Endpoint : WF_dutyVars(Discharge(e))
=============================================================================
