---------------------------- MODULE ReviewRunLock ----------------------------
(***************************************************************************)
(* The lock of the architecture review: ReviewRunLock.try_acquire and        *)
(* release, the takeover of a lock whose owner died (ReviewRunLockRecovery    *)
(* under a ReviewRecoveryClaim) and the termination of the review agents the  *)
(* dead owner registered (ReviewAbandonedAgentCleanup).  Several linter       *)
(* processes do this at once and any of them may be killed; each runs one     *)
(* review with one agent.                                                    *)
(*                                                                          *)
(* A lock directory is a record of its owner file and of the agents           *)
(* registered in it.  A recursive removal deletes the entries it lists and    *)
(* then the directory, which fails when an entry has appeared in between.     *)
(***************************************************************************)
EXTENDS Naturals, FiniteSets

CONSTANTS Proc,      \* linter processes; p also names the review agent of p
          MaxDeaths  \* bound: how many processes are killed

None == "none"       \* no owner file
Missing == "missing" \* no such directory

ASSUME ProcAssumption == Proc \cap {None, Missing} = {} /\ MaxDeaths \in Nat

VARIABLES
  path,       \* the directory at the path of the lock
  stale,      \* per process, the directory it has moved to its stale path
  claim,      \* the owner of the recovery claim; None: the directory without a file
  alive,      \* the live processes
  deaths,     \* how many were killed
  agents,     \* the review agents that are running
  registered, \* history: the agents whose identity file was written
  contended,  \* history: processes that tried while another one was alive
  apart,      \* history: no two live processes held the lock, or recovered it, at once
  pc,         \* the next step of each process
  retry,      \* the processes at the last publish_lock of try_acquire
  sweep,      \* per process, the stale paths it has listed and not yet finalized
  target,     \* per process, the stale path it finalizes
  retired,    \* the processes that have moved the lock to their stale path
  recovered   \* the processes whose recover_stale_lock will return true

files == <<path, stale, claim>>
world == <<alive, deaths, agents>>
history == <<registered, contended, apart>>
locals == <<retry, sweep, target, retired, recovered>>
vars == <<files, world, history, pc, locals>>

NoDir == [owner |-> Missing, agents |-> {}]
Empty == [owner |-> None, agents |-> {}]

Holding == {"held", "spawned", "running", "release", "rm_lock"}
Recovering == {"sweep", "path_exists", "inspect", "retire", "finalize", "restore_live",
               "terminate", "remove_stale"}
Ended == {"done", "refused", "failed"}

Init ==
  /\ path = NoDir /\ stale = [p \in Proc |-> NoDir] /\ claim = Missing
  /\ alive = Proc /\ deaths = 0 /\ agents = {} /\ registered = {} /\ contended = {} /\ apart = TRUE
  /\ pc = [p \in Proc |-> "new"] /\ retry = {} /\ sweep = [p \in Proc |-> {}]
  /\ target = [p \in Proc |-> p] /\ retired = {} /\ recovered = {}

Live(owner) == owner \in alive
Vacant(dir) == dir \in {NoDir, Empty}   \* a rename may replace it

(* p is alive and about to take step from; it goes on with step to. *)
Moves(p, from, to) == p \in alive /\ pc[p] = from /\ pc' = [pc EXCEPT ![p] = to]

(* Starting while another process has not exited marks both as contending. *)
Running == {q \in alive : pc[q] # "new"}

(* The other live processes at one of these steps. *)
Others(p, steps) == {q \in alive \ {p} : pc[q] \in steps}

Start(p) ==
  /\ Moves(p, "new", "required")
  /\ contended' = IF Running = {} THEN contended ELSE contended \cup Running \cup {p}
  /\ UNCHANGED <<files, world, registered, apart, locals>>

-----------------------------------------------------------------------------
(* try_acquire *)
RecoveryRequired(p) ==
  /\ IF claim = Missing /\ \A q \in Proc : stale[q] = NoDir
     THEN Moves(p, "required", "publish")
     ELSE Moves(p, "required", "claim_live")
  /\ UNCHANGED <<files, world, history, locals>>

ClaimIsLive(p) ==
  /\ IF Live(claim) THEN Moves(p, "claim_live", "refused") ELSE Moves(p, "claim_live", "claim")
  /\ UNCHANGED <<files, world, history, locals>>

PublishLock(p) ==
  /\ Moves(p, "publish", "held") /\ Vacant(path)
  /\ path' = [owner |-> p, agents |-> {}] /\ apart' = (apart /\ Others(p, Holding) = {})
  /\ UNCHANGED <<stale, claim, world, registered, contended, locals>>

PublishFails(p) ==
  /\ ~Vacant(path)
  /\ IF p \in retry THEN Moves(p, "publish", "refused") ELSE Moves(p, "publish", "exists")
  /\ UNCHANGED <<files, world, history, locals>>

(* acquire_existing_lock *)
LockExists(p) ==
  /\ IF path = NoDir THEN Moves(p, "exists", "publish") ELSE Moves(p, "exists", "claim")
  /\ retry' = retry \cup {p}
  /\ UNCHANGED <<files, world, history, sweep, target, retired, recovered>>

-----------------------------------------------------------------------------
(* A claim that respects every claim it finds. *)
LookAtClaimGivesUp(p) ==
  /\ \/ claim = Missing /\ Moves(p, "claim", "publish_claim")
     \/ claim # Missing /\ Moves(p, "claim", "refused")
  /\ UNCHANGED <<files, world, history, locals>>

(* ReviewRecoveryClaim.claim: remove_stale_claim, then publish_claim. *)
LookAtClaim(p) ==
  /\ \/ claim = Missing /\ Moves(p, "claim", "publish_claim")
     \/ Live(claim) /\ Moves(p, "claim", "refused")
     \/ claim # Missing /\ ~Live(claim) /\ Moves(p, "claim", "rm_stale_claim")
  /\ UNCHANGED <<files, world, history, locals>>

(* remove_path of the claim, by a contender or by the claim's own release. *)
RemoveClaimEntries(p) ==
  /\ \/ Moves(p, "rm_stale_claim", "rmdir_stale_claim")
     \/ Moves(p, "rm_claim", "rmdir_claim")
  /\ claim' = IF claim = Missing THEN Missing ELSE None
  /\ UNCHANGED <<path, stale, world, history, locals>>

Returns(p) == IF p \in recovered THEN "publish" ELSE "refused"

RemoveClaim(p) ==
  /\ IF claim \in {Missing, None}
     THEN /\ \/ Moves(p, "rmdir_stale_claim", "publish_claim")
             \/ Moves(p, "rmdir_claim", Returns(p))
          /\ claim' = Missing
     ELSE /\ \E from \in {"rmdir_stale_claim", "rmdir_claim"} : Moves(p, from, "failed")
          /\ UNCHANGED claim
  /\ UNCHANGED <<path, stale, world, history, locals>>

PublishClaim(p) ==
  /\ IF claim \in {Missing, None}
     THEN Moves(p, "publish_claim", "sweep") /\ claim' = p
          /\ sweep' = [sweep EXCEPT ![p] = {q \in Proc : stale[q] # NoDir}]
          /\ apart' = (apart /\ Others(p, Recovering) = {})
     ELSE Moves(p, "publish_claim", "refused") /\ UNCHANGED <<claim, sweep, apart>>
  /\ retired' = retired \ {p}
  /\ UNCHANGED <<path, stale, world, registered, contended, retry, target, recovered>>

(* ReviewRecoveryClaim.release: only the own token is removed; a claim that    *)
(* has lost its owner file makes the read throw.                               *)
ReleaseClaim(p) ==
  /\ \/ claim = p /\ Moves(p, "release_claim", "rm_claim")
     \/ claim = None /\ Moves(p, "release_claim", "failed")
     \/ claim \notin {p, None} /\ Moves(p, "release_claim", Returns(p))
  /\ UNCHANGED <<files, world, history, locals>>
-----------------------------------------------------------------------------
(* recover_stale_path: first every stale path left by an interrupted takeover  *)
(* (in listing order, any order here), then the lock itself.                   *)
SweepNext(p, q) ==
  /\ q \in sweep[p] /\ Moves(p, "sweep", "finalize")
  /\ sweep' = [sweep EXCEPT ![p] = @ \ {q}] /\ target' = [target EXCEPT ![p] = q]
  /\ UNCHANGED <<files, world, history, retry, retired, recovered>>

(* A takeover that ignores what interrupted takeovers moved aside. *)
SweptUnfinished(p) ==
  /\ Moves(p, "sweep", "path_exists")
  /\ UNCHANGED <<files, world, history, locals>>

Swept(p) ==
  /\ sweep[p] = {} /\ Moves(p, "sweep", "path_exists")
  /\ UNCHANGED <<files, world, history, locals>>

PathExists(p) ==
  /\ IF path = NoDir
     THEN Moves(p, "path_exists", "release_claim") /\ recovered' = recovered \cup {p}
     ELSE Moves(p, "path_exists", "inspect") /\ UNCHANGED recovered
  /\ UNCHANGED <<files, world, history, retry, sweep, target, retired>>

InspectOwner(p) ==
  /\ IF Live(path.owner) THEN Moves(p, "inspect", "release_claim") ELSE Moves(p, "inspect", "retire")
  /\ recovered' = recovered \ {p}
  /\ UNCHANGED <<files, world, history, retry, sweep, target, retired>>

(* stale_lock_path: the rename fails when the lock is gone. *)
Retire(p) ==
  /\ IF path = NoDir
     THEN Moves(p, "retire", "release_claim") /\ UNCHANGED <<path, stale, target, retired>>
     ELSE /\ Moves(p, "retire", "finalize")
          /\ stale' = [stale EXCEPT ![p] = path] /\ path' = NoDir
          /\ target' = [target EXCEPT ![p] = p] /\ retired' = retired \cup {p}
  /\ UNCHANGED <<claim, world, history, retry, sweep, recovered>>

(* A finalization that trusts the look taken before the rename. *)
FinalizeUnseen(p) ==
  /\ Moves(p, "finalize", "terminate")
  /\ UNCHANGED <<files, world, history, locals>>

(* finalize_stale_lock: a live owner gets its lock back. *)
Finalize(p) ==
  /\ IF Live(stale[target[p]].owner)
     THEN Moves(p, "finalize", "restore_live") ELSE Moves(p, "finalize", "terminate")
  /\ UNCHANGED <<files, world, history, locals>>

RestoreLive(p) ==
  /\ Moves(p, "restore_live", "release_claim") /\ recovered' = recovered \ {p}
  /\ IF stale[target[p]] # NoDir /\ Vacant(path)
     THEN path' = stale[target[p]] /\ stale' = [stale EXCEPT ![target[p]] = NoDir]
     ELSE UNCHANGED <<path, stale>>
  /\ UNCHANGED <<claim, world, history, retry, sweep, target, retired>>

TerminateAgents(p) ==
  /\ Moves(p, "terminate", "remove_stale")
  /\ agents' = agents \ stale[target[p]].agents
  /\ UNCHANGED <<files, alive, deaths, history, locals>>

RemoveStale(p) ==
  /\ stale' = [stale EXCEPT ![target[p]] = NoDir]
  /\ IF p \in retired
     THEN Moves(p, "remove_stale", "release_claim") /\ recovered' = recovered \cup {p}
     ELSE Moves(p, "remove_stale", "sweep") /\ UNCHANGED recovered
  /\ UNCHANGED <<path, claim, world, history, retry, sweep, target, retired>>
-----------------------------------------------------------------------------
(* The review: the agent is spawned, then registered in the lock directory,    *)
(* which create_directory makes again if it is not there.                      *)
Spawn(p) ==
  /\ Moves(p, "held", "spawned") /\ agents' = agents \cup {p}
  /\ UNCHANGED <<files, alive, deaths, history, locals>>

Register(p) ==
  /\ Moves(p, "spawned", "running")
  /\ path' = [owner |-> IF path = NoDir THEN None ELSE path.owner, agents |-> path.agents \cup {p}]
  /\ registered' = registered \cup {p}
  /\ UNCHANGED <<stale, claim, world, contended, apart, locals>>

AgentExits(p) ==
  /\ p \in agents /\ agents' = agents \ {p}
  /\ UNCHANGED <<files, alive, deaths, history, pc, locals>>

Unregister(p) ==
  /\ p \notin agents /\ Moves(p, "running", "release")
  /\ path' = [path EXCEPT !.agents = @ \ {p}]
  /\ UNCHANGED <<stale, claim, world, history, locals>>

(* A review that has nothing to run ends without an agent. *)
NoReview(p) == Moves(p, "held", "release") /\ UNCHANGED <<files, world, history, locals>>

(* release: the lock of the own token only. *)
Release(p) ==
  /\ IF path.owner = p THEN Moves(p, "release", "rm_lock") ELSE Moves(p, "release", "done")
  /\ UNCHANGED <<files, world, history, locals>>

RemoveLockEntries(p) ==
  /\ Moves(p, "rm_lock", "rmdir_lock")
  /\ path' = IF path = NoDir THEN NoDir ELSE Empty
  /\ UNCHANGED <<stale, claim, world, history, locals>>

RemoveLock(p) ==
  /\ IF Vacant(path)
     THEN Moves(p, "rmdir_lock", "done") /\ path' = NoDir
     ELSE Moves(p, "rmdir_lock", "failed") /\ UNCHANGED path
  /\ UNCHANGED <<stale, claim, world, history, locals>>
-----------------------------------------------------------------------------
(* The process is killed, or ends after try_acquire refused or it released. *)
Die(p) ==
  /\ p \in alive /\ pc[p] \notin Ended \cup {"new"} /\ deaths < MaxDeaths
  /\ alive' = alive \ {p} /\ deaths' = deaths + 1
  /\ UNCHANGED <<files, agents, history, pc, locals>>

Exit(p) ==
  /\ p \in alive /\ pc[p] \in Ended /\ alive' = alive \ {p}
  /\ UNCHANGED <<files, deaths, agents, history, pc, locals>>

Acquire(p) ==
  \/ Start(p) \/ RecoveryRequired(p) \/ ClaimIsLive(p)
  \/ PublishLock(p) \/ PublishFails(p) \/ LockExists(p)
Recover(p) ==
  \/ LookAtClaim(p) \/ RemoveClaimEntries(p) \/ RemoveClaim(p) \/ PublishClaim(p) \/ ReleaseClaim(p)
  \/ (\E q \in Proc : SweepNext(p, q)) \/ Swept(p) \/ PathExists(p) \/ InspectOwner(p)
  \/ Retire(p) \/ Finalize(p) \/ RestoreLive(p) \/ TerminateAgents(p) \/ RemoveStale(p)
Review(p) ==
  \/ Spawn(p) \/ Register(p) \/ Unregister(p) \/ NoReview(p)
  \/ Release(p) \/ RemoveLockEntries(p) \/ RemoveLock(p)

Next == \E p \in Proc : Acquire(p) \/ Recover(p) \/ Review(p) \/ AgentExits(p) \/ Die(p) \/ Exit(p)

Spec == Init /\ [][Next]_vars
(* Whatever the killed runs left behind, a process that has the lock to itself *)
(* gets it: no debris of a takeover refuses a run forever.                     *)
AloneAcquires == \A p \in Proc \ contended : pc[p] \notin {"refused", "failed"}

(* As long as the lock has kept reviews apart and the claim takeovers, wherever  *)
(* runs were killed: a run that got the lock without contention starts with no  *)
(* registered agent of a dead run still working on the sources.                *)
OrphansTerminated ==
  apart => \A p \in alive \ contended : pc[p] = "held" => (registered \cap agents) \subseteq alive

(* Nor does a takeover, whose look at the owner may be stale by the time it      *)
(* renames the lock, ever terminate the agent of a run that is alive.           *)
LiveAgentsKept ==
  [][apart => \A p \in alive : TerminateAgents(p) => (agents \ agents') \cap alive = {}]_vars
=============================================================================
