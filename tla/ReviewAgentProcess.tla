-------------------------- MODULE ReviewAgentProcess --------------------------
(***************************************************************************)
(* The review agents as child processes: ReviewAgentProcess.run_async with    *)
(* its timeout, the escalation from SIGTERM to SIGKILL and the settlement of   *)
(* ReviewAgentProcessState.  Every callback of the event loop is one action;   *)
(* the process group, its descendants and their pipes are the environment.    *)
(* Node reports "close" when the leader has exited and nobody holds its pipes  *)
(* open any more; a failed spawn reports "error" first.                        *)
(***************************************************************************)
EXTENDS Naturals

CONSTANT Agent  \* the agents of one review, one per stage and dialogue

VARIABLES
  leader,     \* the process that was spawned
  exitCode,   \* how it exited; 1 also stands for a signal
  group,      \* descendants in its process group: none, quiet, or holding its pipes
  outsider,   \* a descendant that left the group holds its pipes
  timer,      \* the ten-minute timer
  escalation, \* the timer from SIGTERM to SIGKILL
  closed,     \* lifecycle.process_closed
  failures,   \* failure_messages
  registered, \* the identity file of the agent exists
  completions,\* how often the lifecycle called complete
  result      \* the exit code the promise was resolved with

process == <<leader, exitCode, group, outsider>>
lifecycle == <<timer, escalation, closed, failures>>
settlement == <<registered, completions, result>>
agentVars == <<process, lifecycle, settlement>>

Pending == 2  \* not resolved

AgentInit ==
  /\ leader = [a \in Agent |-> "new"] /\ exitCode = [a \in Agent |-> 1]
  /\ group = [a \in Agent |-> "none"] /\ outsider = [a \in Agent |-> FALSE]
  /\ timer = [a \in Agent |-> "idle"] /\ escalation = [a \in Agent |-> "idle"]
  /\ closed = [a \in Agent |-> FALSE] /\ failures = [a \in Agent |-> {}]
  /\ registered = [a \in Agent |-> FALSE] /\ completions = [a \in Agent |-> 0]
  /\ result = [a \in Agent |-> Pending]

TimedOut(a) == "timeout" \in failures[a]
EscalationFinished(a) == escalation[a] = "fired"
Settled(a) == result[a] # Pending
-----------------------------------------------------------------------------
(* run_async: create the child, register it, attach the handlers and the timer. *)
Spawn(a) ==
  /\ leader[a] = "new"
  /\ timer' = [timer EXCEPT ![a] = "armed"]
  /\ \/ /\ leader' = [leader EXCEPT ![a] = "running"]
        /\ registered' = [registered EXCEPT ![a] = TRUE]
     \/ leader' = [leader EXCEPT ![a] = "unspawned"] /\ UNCHANGED registered
  /\ UNCHANGED <<exitCode, group, outsider, escalation, closed, failures, completions, result>>

(* A completion that reports the exit code of the child whatever went wrong. *)
CompleteWithCode(a, code) ==
  /\ completions' = [completions EXCEPT ![a] = @ + 1]
  /\ timer' = [timer EXCEPT ![a] = IF @ = "armed" THEN "cleared" ELSE @]
  /\ IF Settled(a) THEN UNCHANGED <<registered, result>>
     ELSE /\ registered' = [registered EXCEPT ![a] = FALSE]
          /\ result' = [result EXCEPT ![a] = code]

(* complete: clear the timer and resolve, at most once, with the exit code of  *)
(* the child, or with 1 when a failure was recorded or the identity file       *)
(* cannot be removed.                                                          *)
Complete(a, code) ==
  /\ completions' = [completions EXCEPT ![a] = @ + 1]
  /\ timer' = [timer EXCEPT ![a] = IF @ = "armed" THEN "cleared" ELSE @]
  /\ IF Settled(a) THEN UNCHANGED <<registered, result>>
     ELSE \/ /\ registered' = [registered EXCEPT ![a] = FALSE]
             /\ result' = [result EXCEPT ![a] = IF failures[a] = {} THEN code ELSE 1]
          \/ /\ registered[a] /\ UNCHANGED registered
             /\ result' = [result EXCEPT ![a] = 1]

ErrorEvent(a) ==
  /\ leader[a] = "unspawned" /\ "error" \notin failures[a]
  /\ failures' = [failures EXCEPT ![a] = @ \cup {"error"}]
  /\ UNCHANGED <<process, timer, escalation, closed, settlement>>

PipesAreClosed(a) == /\ leader[a] = "exited" \/ (leader[a] = "unspawned" /\ "error" \in failures[a])
                     /\ group[a] # "holding" /\ ~outsider[a]

(* A close handler that does not wait for the escalation. *)
CloseEventAtOnce(a) ==
  /\ PipesAreClosed(a) /\ ~closed[a]
  /\ closed' = [closed EXCEPT ![a] = TRUE]
  /\ Complete(a, exitCode[a])
  /\ UNCHANGED <<process, escalation, failures>>

CloseEvent(a) ==
  /\ PipesAreClosed(a) /\ ~closed[a]
  /\ closed' = [closed EXCEPT ![a] = TRUE]
  /\ IF TimedOut(a) /\ ~EscalationFinished(a)
     THEN UNCHANGED <<timer, settlement>>
     ELSE Complete(a, exitCode[a])
  /\ UNCHANGED <<process, escalation, failures>>

(* The ten minutes are over: SIGTERM to the group, which may ignore it. *)
TimeoutEvent(a) ==
  /\ timer[a] = "armed"
  /\ timer' = [timer EXCEPT ![a] = "fired"] /\ escalation' = [escalation EXCEPT ![a] = "armed"]
  /\ failures' = [failures EXCEPT ![a] = @ \cup {"timeout"}]
  /\ UNCHANGED <<process, closed, settlement>>

(* An escalation that completes whether or not the process has closed, and one *)
(* that leaves the completion to a close event that has come and gone.          *)
EscalationEventCompletes(a) ==
  /\ escalation[a] = "armed" /\ escalation' = [escalation EXCEPT ![a] = "fired"]
  /\ leader' = [leader EXCEPT ![a] = IF @ = "running" THEN "exited" ELSE @]
  /\ group' = [group EXCEPT ![a] = "none"]
  /\ Complete(a, exitCode[a])
  /\ UNCHANGED <<exitCode, outsider, closed, failures>>

EscalationEventForgets(a) ==
  /\ escalation[a] = "armed" /\ escalation' = [escalation EXCEPT ![a] = "fired"]
  /\ leader' = [leader EXCEPT ![a] = IF @ = "running" THEN "exited" ELSE @]
  /\ group' = [group EXCEPT ![a] = "none"]
  /\ UNCHANGED <<exitCode, outsider, closed, failures, timer, settlement>>

(* One second later: SIGKILL to the group, then the close that came before     *)
(* it is completed.                                                            *)
EscalationEvent(a) ==
  /\ escalation[a] = "armed" /\ escalation' = [escalation EXCEPT ![a] = "fired"]
  /\ leader' = [leader EXCEPT ![a] = IF @ = "running" THEN "exited" ELSE @]
  /\ group' = [group EXCEPT ![a] = "none"]
  /\ IF closed[a] THEN Complete(a, exitCode[a]) ELSE UNCHANGED <<timer, settlement>>
  /\ UNCHANGED <<exitCode, outsider, closed, failures>>
-----------------------------------------------------------------------------
(* The agent starts helpers, in its group or in a session of their own, and    *)
(* any of them exits when it likes.                                            *)
Fork(a) ==
  /\ leader[a] = "running"
  /\ \/ \E kind \in {"quiet", "holding"} : group' = [group EXCEPT ![a] = kind] /\ UNCHANGED outsider
     \/ outsider' = [outsider EXCEPT ![a] = TRUE] /\ UNCHANGED group
  /\ UNCHANGED <<leader, exitCode, lifecycle, settlement>>

(* An exit by a signal whose missing code is passed on. *)
LeaderExitsUnnormalised(a) ==
  /\ leader[a] = "running" /\ leader' = [leader EXCEPT ![a] = "exited"]
  /\ \E code \in {0, 1, Pending} : exitCode' = [exitCode EXCEPT ![a] = code]
  /\ UNCHANGED <<group, outsider, lifecycle, settlement>>

LeaderExits(a) ==
  /\ leader[a] = "running" /\ leader' = [leader EXCEPT ![a] = "exited"]
  /\ \E code \in {0, 1} : exitCode' = [exitCode EXCEPT ![a] = code]
  /\ UNCHANGED <<group, outsider, lifecycle, settlement>>

HelperExits(a) ==
  /\ \/ group[a] # "none" /\ group' = [group EXCEPT ![a] = "none"] /\ UNCHANGED outsider
     \/ outsider[a] /\ outsider' = [outsider EXCEPT ![a] = FALSE] /\ UNCHANGED group
  /\ UNCHANGED <<leader, exitCode, lifecycle, settlement>>

Events(a) == ErrorEvent(a) \/ CloseEvent(a) \/ TimeoutEvent(a) \/ EscalationEvent(a)
AgentNext == \E a \in Agent : Spawn(a) \/ Events(a) \/ Fork(a) \/ LeaderExits(a) \/ HelperExits(a)

AgentSpec == AgentInit /\ [][AgentNext]_agentVars

(* The event loop delivers what is due; the agent itself owes nothing. *)
FairAgentSpec == AgentSpec /\ \A a \in Agent : WF_agentVars(Events(a))
-----------------------------------------------------------------------------
(* Every variable stays within the values the code gives it. *)
AgentTypeOK ==
  /\ leader \in [Agent -> {"new", "running", "unspawned", "exited"}]
  /\ exitCode \in [Agent -> {0, 1}] /\ group \in [Agent -> {"none", "quiet", "holding"}]
  /\ outsider \in [Agent -> BOOLEAN] /\ closed \in [Agent -> BOOLEAN]
  /\ timer \in [Agent -> {"idle", "armed", "fired", "cleared"}]
  /\ escalation \in [Agent -> {"idle", "armed", "fired"}]
  /\ failures \in [Agent -> SUBSET {"timeout", "error"}]
  /\ registered \in [Agent -> BOOLEAN] /\ completions \in [Agent -> Nat]
  /\ result \in [Agent -> {0, 1, Pending}]

(* "keeps escalation active after a timed-out leader closes": an agent that ran   *)
(* out of time is reported only after its whole group was killed, and as failed,  *)
(* in whichever order its exit and the escalation come.                           *)
TimeoutSettlesDead ==
  \A a \in Agent : TimedOut(a) /\ Settled(a) =>
     result[a] = 1 /\ leader[a] # "running" /\ group[a] = "none"

(* An exit status of 0 means the agent ended by itself, in time, with 0, and that *)
(* nothing of it is left registered in the lock directory.                        *)
SuccessIsGenuine ==
  \A a \in Agent : result[a] = 0 =>
     /\ leader[a] = "exited" /\ exitCode[a] = 0 /\ failures[a] = {}
     /\ ~registered[a] /\ timer[a] # "armed"

(* The close event and the escalation never both complete the lifecycle. *)
CompletesOnce == \A a \in Agent : completions[a] <= 1

(* Every spawned agent settles, unless a descendant outside of its group keeps     *)
(* its pipes open.                                                                  *)
AgentSettles == \A a \in Agent : (leader[a] # "new") ~> (Settled(a) \/ outsider[a])
-----------------------------------------------------------------------------
(* The inductive invariant behind them.  The lifecycle completes exactly when the *)
(* pipes have closed and, after a timeout, the escalation has finished too.        *)
TimersInv(a) ==
  /\ TimedOut(a) <=> timer[a] = "fired"
  /\ TimedOut(a) <=> escalation[a] # "idle"
  /\ leader[a] = "new" <=> timer[a] = "idle"
  /\ "error" \in failures[a] => leader[a] = "unspawned"
  /\ EscalationFinished(a) => leader[a] # "running" /\ group[a] = "none"

Done(a) == closed[a] /\ (TimedOut(a) => EscalationFinished(a))

SettledInv(a) ==
  /\ completions[a] = IF Done(a) THEN 1 ELSE 0
  /\ Settled(a) <=> Done(a)
  /\ Settled(a) => timer[a] # "armed"
  /\ closed[a] => leader[a] \in {"exited", "unspawned"}
  /\ closed[a] /\ leader[a] = "unspawned" => failures[a] # {}
  /\ result[a] = 0 => exitCode[a] = 0 /\ failures[a] = {} /\ ~registered[a]
  /\ leader[a] = "running" => registered[a]
  /\ leader[a] = "new" => failures[a] = {} /\ exitCode[a] = 1

AgentInv == AgentTypeOK /\ \A a \in Agent : TimersInv(a) /\ SettledInv(a)
=============================================================================
