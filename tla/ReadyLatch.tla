----------------------------- MODULE ReadyLatch -----------------------------
(***************************************************************************)
(* What rpmsg_platform promises the features that wait for it: the         *)
(* platform comes up or fails once and for all, nobody is answered before  *)
(* that, and everybody is given the same answer.                           *)
(***************************************************************************)
CONSTANT Service    \* the threads that call rpmsg_platform_wait

VARIABLES
    outcome,    \* "none" until the platform has come up or failed
    answer      \* what each service has been told

vars == <<outcome, answer>>

Outcomes == {"dev", "null"}

Init == outcome = "none" /\ answer = [s \in Service |-> "none"]

Decide == /\ outcome = "none"
          /\ outcome' \in Outcomes
          /\ UNCHANGED answer

Tell(s) == /\ outcome # "none" /\ answer[s] = "none"
           /\ answer' = [answer EXCEPT ![s] = outcome]
           /\ UNCHANGED outcome

Next == Decide \/ \E s \in Service : Tell(s)

Spec == Init /\ [][Next]_vars
=============================================================================
