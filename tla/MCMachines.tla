----------------------------- MODULE MCMachines ----------------------------
(***************************************************************************)
(* What the machines of a deployment do about their certificates and their *)
(* addresses, checked under its fairness in one run of TLC.  Which of the  *)
(* two runs is chosen in the initial state and never changes; the other    *)
(* rests.  They share no state.                                            *)
(***************************************************************************)
EXTENDS Certs, Ddns

CONSTANT Part      \* the parts that are run

VARIABLE part

certsVars == vars
machinesVars == <<part, certsVars, ddnsVars>>

MachinesInit ==
    /\ part \in Part
    /\ Init /\ (part # "certs" => disk \in [Machine -> {Nothing}] /\ made[1] = Unmade)
    /\ DdnsInit /\ (part # "ddns" => dynu = {} /\ host = [v4 |-> "a", v6 |-> None])

CertsTurn == part = "certs" /\ UNCHANGED <<part, ddnsVars>>
DdnsTurn == part = "ddns" /\ UNCHANGED <<part, certsVars>>

MachinesNext ==
    \/ CertsTurn /\ Next
    \/ DdnsTurn /\ DdnsNext

\* The fairness the two modules state, of the one that runs.
MachinesFairness ==
    /\ \A t \in Task : WF_machinesVars(CertsTurn /\ GoesOn(t))
    /\ \A m \in Machine : WF_machinesVars(CertsTurn /\ Lapse(m))
    /\ \A r \in Run : WF_machinesVars(DdnsTurn /\ Syncs(r))
    /\ \A d \in Domain : WF_machinesVars(DdnsTurn /\ Forget(d))

MachinesSpec == MachinesInit /\ [][MachinesNext]_machinesVars /\ MachinesFairness

---------------------------------------------------------------------------
\* Type invariant: the variables of both are what their modules say.
MachinesTypeOK == TypeOK /\ DdnsTypeOK

\* Every machine ends up with a certificate that is not about to expire: no two deny
\* each other the lock for ever (acme.rs).
CertificatesArrive == part = "certs" => CertificateArrives

\* Once the service stays where it is and the calls succeed, every domain comes to have
\* its addresses and keeps them (ddns.rs).
RecordsArrive == part = "ddns" => RecordsFollow
=============================================================================
