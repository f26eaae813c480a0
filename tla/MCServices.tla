----------------------------- MODULE MCServices -----------------------------
(***************************************************************************)
(* Instances for TLC of what is called from outside the process: the       *)
(* membership of a context and the manager.  A behaviour is of one of      *)
(* them; the other stays as it is at first.                                *)
(***************************************************************************)
EXTENDS ECWorker, Manager

VARIABLE service

servicesVars == <<vars, managerVars, service>>

ServicesInit ==
  /\ service \in {"membership", "manager"}
  /\ Init /\ ManagerInit
  /\ service = "membership" => rebind = FALSE

Membership(A) == service = "membership" /\ A
                   /\ UNCHANGED <<managerVars, service>>
Managing(A) == service = "manager" /\ A /\ UNCHANGED <<vars, service>>

ServicesNext == Membership(Next) \/ Managing(ManagerNext)

\* The fairness of either, of steps that leave the other alone.
ServicesFairness ==
  /\ WF_servicesVars(Membership(~aborted /\ Thread))
  /\ \A k \in Clients : WF_servicesVars(Membership(~aborted /\ Progress(k)))
  /\ \A c \in Users : WF_servicesVars(Managing(UserStep(c)))
  /\ WF_servicesVars(Managing(MainStep))
  /\ SF_servicesVars(Managing(RunTimers /\ timers' = MainTasks))

ServicesSpec ==
  ServicesInit /\ [][ServicesNext]_servicesVars /\ ServicesFairness

(* Every variable of both has its type.                                    *)
ServicesTypeOK == TypeOK /\ ManagerTypeOK
=============================================================================
