--------------------------- MODULE MCControlPlane ---------------------------
(***************************************************************************)
(* The control plane for TLC: the agent runtimes of one control plane, the *)
(* lock file that decides which process is the control plane, the dev      *)
(* server it manages, and the onboarding of an agent.  They share no state *)
(* but an agent's status, so a behaviour runs one of them and leaves the   *)
(* others in one initial state.                                            *)
(***************************************************************************)
EXTENDS RuntimeSupervisor, InstanceLock, HatchOnboarding, DevServer

VARIABLE part

\* Processes of the program that its starts do not recognise, or take for others.
Odd == {p \in Processes : seen[p] # "plain"}

MCInit ==
  /\ SupervisorInit /\ LockInit /\ OnboardingInit /\ ServerInit
  /\ part \in {"runtimes", "lock", "onboarding", "server"}
  /\ part # "server" => server[0] = "unborn"
  /\ Cardinality(Odd) <= IF part = "lock" THEN 1 ELSE 0

RuntimeStep(A) ==
  part = "runtimes" /\ A /\ UNCHANGED <<part, lockVars, onboardingVars, serverVars>>
LockStep ==
  part = "lock" /\ LockNext /\ UNCHANGED <<part, supervisorVars, onboardingVars, serverVars>>
OnboardingStep ==
  /\ part = "onboarding"
  /\ OnboardingNext
  /\ UNCHANGED <<part, supervisorVars, lockVars, serverVars>>
ServerStep ==
  /\ part = "server"
  /\ ServerNext
  /\ UNCHANGED <<part, supervisorVars, lockVars, onboardingVars>>

MCNext == RuntimeStep(SupervisorNext) \/ LockStep \/ OnboardingStep \/ ServerStep

allVars == <<part, supervisorVars, lockVars, onboardingVars, serverVars>>

\* Fairness as in RuntimeSupervisor, when the runtimes run.
MCSpec ==
  /\ MCInit
  /\ [][MCNext]_allVars
  /\ WF_allVars(RuntimeStep(Resume))
  /\ \A r \in Runners :
       /\ WF_allVars(RuntimeStep(Get(r)))
       /\ SF_allVars(RuntimeStep(Acquire(r)))
       /\ WF_allVars(RuntimeStep(Answer(r) \/ Fail(r)))
       /\ WF_allVars(RuntimeStep(Cancelled(r)))
  /\ \A o \in Operators : WF_allVars(RuntimeStep(StopEnds(o)))
=============================================================================
