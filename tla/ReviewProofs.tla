---------------------------- MODULE ReviewProofs ----------------------------
(***************************************************************************)
(* Proofs about a review: ReviewRun, for any stages, contents and numbers of *)
(* runs and edits, what the completion marker vouches for and what the exit *)
(* status of a run says; and ReviewRunLock, for any set of linter processes, *)
(* what a run that has the lock knows of the others and of their agents.   *)
(***************************************************************************)
EXTENDS ReviewRun, ReviewRunLock, TLAPS

ReviewStateInv ==
  /\ source \in Source /\ failure \in BOOLEAN /\ completion \in Source \cup {Unreviewed}
  /\ note \in [Stage -> NoteTexts] /\ archive \subseteq Stage
  /\ options \in Options \cup {NoOptions} /\ violations \in Found
  /\ required \in BOOLEAN /\ provided \in BOOLEAN
  /\ identity \in Source \cup {Unreviewed} /\ asked \in Source \cup {Unreviewed}
  /\ step \in [Stage -> Active \cup {"idle"}]
  /\ passed \subseteq Stage /\ orphans \subseteq Stage

(* Whoever removed the marker or wrote it said what the last review certified. *)
MarkerInv == completion # Unreviewed => verdict = completion

(* A run has stages only if it found that a review is due, and asks for a         *)
(* certificate only when each stage it selected has passed.                     *)
Reviewing == {"reset_failure", "reset_completion", "start", "stages", "certify"}
StagesInv ==
  /\ phase \in Reviewing => required
  /\ phase = "certify" => options.selected \subseteq passed

(* What is known of the run when its exit status is computed: whether a stage that *)
(* it started failed, and that it left a project alone that was reviewed already. *)
Failed == identity # Unreviewed /\ ~(options.selected \subseteq passed)
StatusInv ==
  /\ phase = "status" /\ Failed => required /\ ~provided
  /\ phase = "status" /\ options.agent /\ violations = "none" /\ ~required => verdict = asked

ReportInv == phase = "report" /\ Failed => exit = "error"

ReviewInv == ReviewStateInv /\ MarkerInv /\ StagesInv /\ StatusInv /\ ReportInv
-----------------------------------------------------------------------------
(* A project that was never reviewed.                                            *)
LEMMA ReviewInitInv == ReviewInit => ReviewInv
<1> SUFFICES ASSUME ReviewInit PROVE ReviewInv
  OBVIOUS
<1> USE DEF ReviewInit
<1>1. ReviewStateInv
  BY DEF ReviewStateInv, NoSteps, NoteTexts, Found
<1>2. MarkerInv /\ StagesInv /\ StatusInv /\ ReportInv
  BY DEF MarkerInv, StagesInv, StatusInv, ReportInv, Reviewing, Failed
<1> QED
  BY <1>1, <1>2 DEF ReviewInv

(* No dialogue is followed by anything but a dialogue or the stop hook. *)
LEMMA FollowingActive ==
  ASSUME NEW s \in Stage, step[s] \in Dialogues
  PROVE  Following(s) \in Active
  BY DEF Following, SizedOr, Finish, Dialogues, Active

(* A stage changes what is its own, and the failure marker when it fails.        *)
LEMMA StageInv ==
  ASSUME ReviewInv, NEW s \in Stage, DialogueEnds(s) \/ StageFails(s) \/ StagePasses(s)
  PROVE  ReviewInv'
<1> USE DEF ReviewInv
<1>1. ReviewStateInv'
  <2>1. CASE DialogueEnds(s)
    BY <2>1, FollowingActive DEF DialogueEnds, ReviewStateInv, project, markers, notes, run, decisions
  <2>2. CASE StageFails(s)
    BY <2>2 DEF StageFails, WriteFailure, ReviewStateInv, project, notes, run, decisions
  <2>3. CASE StagePasses(s)
    BY <2>3 DEF StagePasses, ReviewStateInv, project, markers, notes, run, decisions
  <2> QED
    BY <2>1, <2>2, <2>3
<1>2. /\ phase = "stages" /\ phase' = phase /\ options' = options /\ required' = required
      /\ completion' = completion /\ verdict' = verdict
  BY DEF DialogueEnds, StageFails, StagePasses, project, markers, notes, run, decisions
<1>3. MarkerInv' /\ StagesInv' /\ StatusInv' /\ ReportInv'
  BY <1>2 DEF MarkerInv, StagesInv, StatusInv, ReportInv
<1> QED
  BY <1>1, <1>3

(* A run that finds no review due leaves one that was certified for its content. *)
LEMMA StartInv ==
  ASSUME ReviewInv, NEW o \in Options, NEW force \in BOOLEAN, NEW found \in Found, StartRun(o, force, found)
  PROVE  ReviewInv'
<1> USE DEF ReviewInv, StartRun, project, markers, notes
<1>1. ReviewStateInv'
  <2>1. Requested(o, force, found) \in BOOLEAN
    BY DEF Requested, Options
  <2>2. orphans' \subseteq orphans
    OBVIOUS
  <2> QED
    BY <2>1, <2>2 DEF ReviewStateInv
<1>2. MarkerInv'
  BY DEF MarkerInv
<1>3. StagesInv' /\ ReportInv'
  BY DEF StagesInv, ReportInv, Reviewing
<1>4. StatusInv'
  <2>1. identity' = Unreviewed
    OBVIOUS
  <2>2. ASSUME o.agent, found = "none", ~Requested(o, force, found)
        PROVE  verdict = source
    BY <2>2 DEF Requested, Completed, MarkerInv
  <2> QED
    BY <2>1, <2>2 DEF StatusInv, Failed
<1> QED
  BY <1>1, <1>2, <1>3, <1>4

(* Certify: every stage was selected and has passed. *)
LEMMA CertifyInv ==
  ASSUME ReviewInv, Certify
  PROVE  ReviewInv'
<1> USE DEF ReviewInv, Certify, project, notes, stages
<1>1. passed = Stage
  BY DEF StagesInv, ReviewStateInv
<1>2. ReviewStateInv'
  BY DEF ReviewStateInv
<1>3. MarkerInv' /\ StagesInv' /\ ReportInv'
  BY <1>1 DEF MarkerInv, StagesInv, ReportInv, Reviewing
<1>4. StatusInv'
  BY DEF StatusInv, Failed, StagesInv, Reviewing
<1> QED
  BY <1>2, <1>3, <1>4

(* The steps of a run, from the markers it resets to the status it reports.      *)
LEMMA AdvanceInv ==
  ASSUME ReviewInv, Advance
  PROVE  ReviewInv'
<1> USE DEF ReviewInv, project, markers, notes, stages, decisions
<1>1. CASE ResetFailure
  <2> USE <1>1 DEF ResetFailure
  <2>1. ReviewStateInv'
    BY DEF ReviewStateInv
  <2> QED
    BY <2>1 DEF MarkerInv, StagesInv, StatusInv, ReportInv, Reviewing
<1>2. CASE ResetCompletion
  <2> USE <1>2 DEF ResetCompletion
  <2>1. ReviewStateInv'
    BY DEF ReviewStateInv
  <2> QED
    BY <2>1 DEF MarkerInv, StagesInv, StatusInv, ReportInv, Reviewing
<1>3. CASE StartStages
  <2> USE <1>3 DEF StartStages
  <2>1. ReviewStateInv'
    BY DEF ReviewStateInv, Active, Dialogues
  <2> QED
    BY <2>1 DEF MarkerInv, StagesInv, StatusInv, ReportInv, Reviewing
<1>4. CASE StagesSettle
  <2> USE <1>4 DEF StagesSettle
  <2>1. ReviewStateInv'
    BY DEF ReviewStateInv
  <2> QED
    BY <2>1 DEF MarkerInv, StagesInv, StatusInv, ReportInv, Reviewing
<1>5. CASE EndsUncertified
  <2> USE <1>5 DEF EndsUncertified
  <2>1. ReviewStateInv'
    BY DEF ReviewStateInv
  <2> QED
    BY <2>1 DEF MarkerInv, StagesInv, StatusInv, ReportInv, Reviewing, Failed
<1>6. CASE SourceChanged
  <2> USE <1>6 DEF SourceChanged
  <2>1. ReviewStateInv'
    BY DEF ReviewStateInv
  <2> QED
    BY <2>1 DEF MarkerInv, StagesInv, StatusInv, ReportInv, Reviewing, Failed
<1>7. CASE Certify
  BY <1>7, CertifyInv
<1>8. CASE Status
  <2> USE <1>8 DEF Status
  <2>1. ReviewStateInv'
    BY DEF ReviewStateInv
  <2>2. ReportInv'
    BY DEF ReportInv, StatusInv, Failed
  <2> QED
    BY <2>1, <2>2 DEF MarkerInv, StagesInv, StatusInv, Reviewing
<1>9. CASE Report
  <2> USE <1>9 DEF Report, Ends
  <2>1. ReviewStateInv'
    BY DEF ReviewStateInv, NoteTexts, NoSteps, Found
  <2> QED
    BY <2>1 DEF MarkerInv, StagesInv, StatusInv, ReportInv, Reviewing
<1> QED
  BY <1>1, <1>2, <1>3, <1>4, <1>5, <1>6, <1>7, <1>8, <1>9 DEF Advance

(* A kill, an edit of the project, a note written or archived.                   *)
LEMMA EnvironmentInv ==
  ASSUME ReviewInv, Environment
  PROVE  ReviewInv'
<1> USE DEF ReviewInv, project, markers, notes, run, stages, decisions
<1>1. CASE Crash
  <2> USE <1>1 DEF Crash, Ends
  <2>1. ReviewStateInv'
    BY DEF ReviewStateInv, NoSteps, Found
  <2> QED
    BY <2>1 DEF MarkerInv, StagesInv, StatusInv, ReportInv, Reviewing
<1>2. CASE Edit
  BY <1>2 DEF Edit, ReviewStateInv, MarkerInv, StagesInv, StatusInv, ReportInv, Failed
<1>3. ASSUME NEW s \in Stage, Writes(s) \/ ResolveNote(s)
      PROVE  ReviewInv'
  <2>1. note' \in [Stage -> NoteTexts]
    BY <1>3 DEF Writes, ResolveNote, ReviewStateInv, NoteTexts
  <2> QED
    BY <1>3, <2>1 DEF Writes, ResolveNote, ReviewStateInv, MarkerInv, StagesInv, StatusInv, ReportInv, Failed
<1> QED
  BY <1>1, <1>2, <1>3 DEF Environment

(* Every step of the run, of its stages and around it.                           *)
LEMMA ReviewNextInv == ReviewInv /\ [ReviewNext]_reviewVars => ReviewInv'
<1> SUFFICES ASSUME ReviewInv, [ReviewNext]_reviewVars PROVE ReviewInv'
  OBVIOUS
<1>1. CASE UNCHANGED reviewVars
  BY <1>1 DEF ReviewInv, ReviewStateInv, MarkerInv, StagesInv, StatusInv, ReportInv, Failed, reviewVars,
     project, markers, notes, run, stages, decisions
<1> QED
  BY <1>1, AdvanceInv, StageInv, EnvironmentInv, StartInv DEF ReviewNext, StageSteps

(* Whatever runs, kills and edits come, markers, stages and status agree.        *)
THEOREM ReviewInvariance == ReviewSpec => []ReviewInv
<1> QED
  BY ReviewInitInv, ReviewNextInv, PTL DEF ReviewSpec
-----------------------------------------------------------------------------
(* Whatever partial, forced, failed or killed reviews there were: while the       *)
(* project counts as reviewed, the last review to start certified its content     *)
(* with every stage.                                                            *)
THEOREM CompletionIsCertified == ReviewSpec => []CompletedIsCertified
<1>1. ReviewInv => CompletedIsCertified
  BY DEF ReviewInv, MarkerInv, CompletedIsCertified, Completed
<1> QED
  BY <1>1, ReviewInvariance, PTL

(* A run with a stage that failed exits with an error. *)
THEOREM StageFailureFailsRun == ReviewSpec => []FailedStageFailsRun
<1>1. ReviewInv => FailedStageFailsRun
  BY DEF ReviewInv, ReportInv, FailedStageFailsRun, Failed
<1> QED
  BY <1>1, ReviewInvariance, PTL

(* Success of a run with an agent and without violations means a reviewed project. *)
THEOREM SuccessMeansReviewed == ReviewSpec => SuccessIsReviewed
<1>1. ASSUME ReviewInv, Status, options.agent, violations = "none", exit' = "ok"
      PROVE  verdict \in {asked, source} /\ OpenNotes = {}
  <2>1. OpenNotes = {} /\ (required => Completed)
    BY <1>1 DEF Status
  <2>2. CASE required
    BY <2>1, <2>2, <1>1 DEF ReviewInv, MarkerInv, Completed
  <2>3. CASE ~required
    BY <2>1, <2>3, <1>1 DEF ReviewInv, StatusInv, Status
  <2> QED
    BY <2>1, <2>2, <2>3
<1>2. ReviewInv /\ [ReviewNext]_reviewVars =>
        [Status /\ options.agent /\ violations = "none" /\ exit' = "ok"
           => verdict \in {asked, source} /\ OpenNotes = {}]_reviewVars
  BY <1>1
<1> QED
  BY <1>2, ReviewInvariance, PTL DEF ReviewSpec, SuccessIsReviewed
-----------------------------------------------------------------------------
Named == Proc \cup {None, Missing}
Directories ==
  {dir \in [owner : Named, agents : SUBSET Proc] : dir.owner = Missing => dir.agents = {}}

Seeking == {"sweep", "path_exists", "inspect", "retire"}
Finalizing == {"finalize", "restore_live", "terminate", "remove_stale"}
Releasing == {"release_claim", "rm_claim", "rmdir_claim"}
Registered == {"running", "release", "rm_lock", "rmdir_lock", "done", "failed"}
Acquired == {"held", "spawned"} \cup Registered
Trying == {"new", "required", "claim_live", "publish", "exists", "claim",
           "rm_stale_claim", "rmdir_stale_claim", "publish_claim", "refused"}
Steps == Trying \cup Recovering \cup Releasing \cup Acquired

StateInv ==
  /\ path \in Directories /\ stale \in [Proc -> Directories] /\ claim \in Named
  /\ alive \subseteq Proc /\ agents \subseteq Proc /\ registered \subseteq Proc
  /\ contended \subseteq Proc /\ apart \in BOOLEAN
  /\ pc \in [Proc -> Steps] /\ sweep \in [Proc -> SUBSET Proc] /\ target \in [Proc -> Proc]
  /\ \A p \in retry : p \in Proc /\ pc[p] \notin {"new", "required"}
  /\ \A p \in retired : p \in Proc /\ pc[p] \notin Seeking
  /\ recovered \subseteq Proc

(* Who is named in a directory or in the claim has got as far as to write it. *)
Follows(dir) ==
  /\ dir.owner \in Proc => pc[dir.owner] \in Acquired
  /\ \A a \in dir.agents : pc[a] \in Registered
NamesInv ==
  /\ Follows(path) /\ \A q \in Proc : Follows(stale[q])
  /\ claim \in Proc => pc[claim] \in Recovering \cup {"release_claim", "rm_claim"}
  /\ \A a \in registered : pc[a] \in Registered
  /\ \A a \in agents \cap alive : pc[a] \in {"spawned", "running"}

One(steps) == \A p, q \in alive : pc[p] \in steps /\ pc[q] \in steps => p = q

(* One lock at most has been moved aside, and a takeover is aware of it. *)
Aside == {q \in Proc : stale[q] # NoDir}
StaleInv ==
  /\ \A q, r \in Aside : q = r
  /\ \A p \in alive :
       /\ pc[p] \in Recovering =>
            \A q \in Aside : q \in sweep[p] \/ (pc[p] \in Finalizing /\ q = target[p])
       /\ pc[p] \in {"path_exists", "inspect", "retire"} => sweep[p] = {}
       /\ pc[p] \in Finalizing /\ p \in retired => sweep[p] = {}
       /\ pc[p] \in {"terminate", "remove_stale"} => stale[target[p]].owner \notin alive
       /\ pc[p] = "remove_stale" => stale[target[p]].agents \cap agents = {}

HolderInv ==
  \A p \in alive : pc[p] \in Holding =>
    /\ path.owner = p \/ (path.owner \in {None, Missing} /\ \E q \in Aside : stale[q].owner = p)
    /\ path.agents \subseteq {p}
    /\ \A q \in Aside : stale[q].owner = p => stale[q].agents \subseteq {p}

AgentsInv ==
  /\ \A a \in registered \cap agents : a \in path.agents \/ \E q \in Aside : a \in stale[q].agents
  /\ \A a \in agents \cap alive : \A q \in Aside : a \in stale[q].agents => stale[q].owner = a

ApartInv == apart => One(Holding) /\ One(Recovering) /\ StaleInv /\ HolderInv /\ AgentsInv

Solo(p) ==
  /\ \A q \in alive : q # p => pc[q] = "new"
  /\ pc[p] = "publish" /\ p \in retry => Vacant(path)
  /\ pc[p] \in {"rmdir_stale_claim", "publish_claim", "rmdir_claim"} => claim \in {None, Missing}
  /\ pc[p] \in Recovering \cup {"release_claim", "rm_claim"} => claim = p
  /\ pc[p] # "restore_live"
  /\ pc[p] \in {"inspect", "retire"} => path # NoDir
  /\ pc[p] \in Finalizing /\ p \in retired => path = NoDir
  /\ pc[p] \in Releasing => p \in recovered /\ path = NoDir
  /\ pc[p] = "rmdir_lock" => Vacant(path)
  /\ apart /\ pc[p] \in {"publish", "exists", "held"} \cup Releasing => Aside = {}
SoloInv ==
  /\ \A p \in alive \ contended : pc[p] # "new" => Solo(p)
  /\ \A p \in Proc \ contended : pc[p] \notin {"refused", "failed"}

Inv == StateInv /\ NamesInv /\ ApartInv /\ SoloInv

(* p is at step from of its program and goes on with step to. *)
Goes(p, to) == p \in alive /\ to \in Steps /\ pc' = [pc EXCEPT ![p] = to]
Still == <<path, stale, world, registered, apart>>

(* A process that was not in the way of others and does not get there. *)
LEMMA AsideStep ==
  ASSUME Inv, NEW p \in Proc, NEW to \in Trying \cup Releasing \cup {"done", "failed", "release",
     "rm_lock"}, Goes(p, to),
         UNCHANGED <<Still, sweep, target>>, retired' \in {retired, retired \ {p}},
         to \in Holding => pc[p] \in Holding
  PROVE  ApartInv'
<1> USE DEF Inv, Still, world, Goes
<1>1. to \notin Recovering /\ (to \in Holding => pc[p] \in Holding)
  BY DEF Holding, Recovering, Trying, Releasing
<1>2. /\ pc'[p] = to /\ \A q \in Proc : q # p => pc'[q] = pc[q]
      /\ DOMAIN pc = Proc /\ alive \subseteq Proc
  BY DEF StateInv
<1>3. apart => One(Holding)' /\ One(Recovering)'
  BY <1>1, <1>2 DEF ApartInv, One
<1>4. apart => StaleInv'
  BY <1>1, <1>2 DEF ApartInv, StaleInv, Aside, Finalizing, Recovering
<1>5. apart => HolderInv'
  BY <1>1, <1>2 DEF ApartInv, HolderInv, Aside
<1>6. apart => AgentsInv'
  BY DEF ApartInv, AgentsInv, Aside
<1> QED
  BY <1>3, <1>4, <1>5, <1>6 DEF ApartInv

(* A directory that is where it was, or was moved, names who it named. *)
Written(dir) == dir \in Directories /\ Follows(dir)

(* A step of p that writes nothing new in a directory leaves everybody named there *)
(* as far as they were.                                                         *)
LEMMA NamesStep ==
  ASSUME Inv, NEW p \in Proc, NEW to, Goes(p, to),
         Written(path'), \A q \in Proc : Written(stale'[q]), claim' \in {claim, None, Missing},
         alive' = alive, registered' = registered, agents' \subseteq agents,
         pc[p] \in Acquired => to \in Acquired,
         pc[p] \in Registered => to \in Registered,
         claim' = p => to \in Recovering \cup {"release_claim", "rm_claim"},
         p \in agents => to \in {"spawned", "running"}
  PROVE  NamesInv'
<1> USE DEF Inv, Goes
<1>1. /\ pc'[p] = to /\ \A q \in Proc : q # p => pc'[q] = pc[q]
      /\ DOMAIN pc = Proc /\ alive \subseteq Proc
  BY DEF StateInv
<1>2. ASSUME NEW dir, Written(dir) PROVE Follows(dir)'
  BY <1>1, <1>2 DEF Written, Follows, Directories, Named
<1>3. Follows(path)' /\ \A q \in Proc : Follows(stale[q])'
  BY <1>2 DEF Written, Follows
<1>4. claim' \in Proc => claim' = claim
  BY ProcAssumption
<1> QED
  BY <1>1, <1>3, <1>4 DEF NamesInv

(* The directories there are name who has got that far; so do the fresh ones.   *)
LEMMA AllWritten ==
  ASSUME Inv
  PROVE  /\ Written(path) /\ (\A q \in Proc : Written(stale[q]))
         /\ Written(NoDir) /\ Written(Empty)
  BY ProcAssumption DEF Inv, StateInv, NamesInv, Written, Follows, Directories, Named, NoDir, Empty

(* Another uncontended process cannot be there while p takes a step. *)
LEMMA SoloStep ==
  ASSUME Inv, NEW p \in Proc, NEW to, Goes(p, to), pc[p] # "new", UNCHANGED <<alive, contended>>,
         p \notin contended /\ Solo(p) => Solo(p)' /\ to \notin {"refused", "failed"}
  PROVE  SoloInv'
<1>1. /\ pc'[p] = to /\ \A q \in Proc : q # p => pc'[q] = pc[q]
      /\ alive \subseteq Proc
  BY DEF Inv, StateInv, Goes
<1>2. ASSUME NEW q \in alive \ contended, q # p PROVE pc[q] = "new"
  BY <1>2 DEF Inv, SoloInv, Solo, Goes
<1>3. p \notin contended => Solo(p)
  BY DEF Inv, SoloInv, Goes
<1> QED
  BY <1>1, <1>2, <1>3 DEF Inv, SoloInv, Goes

(* The owners that p finds while it is alone are dead, unless it is p itself. *)
LEMMA SoloFinds ==
  ASSUME Inv, NEW p \in alive, Solo(p)
  PROVE  /\ Live(path.owner) => path.owner = p /\ pc[p] \in Acquired
         /\ \A q \in Proc : Live(stale[q].owner) => stale[q].owner = p /\ pc[p] \in Acquired
         /\ Live(claim) => claim = p /\ pc[p] \in Recovering \cup {"release_claim", "rm_claim"}
<1>1. alive \subseteq Proc
  BY DEF Inv, StateInv
<1>2. ASSUME NEW dir, Follows(dir), Live(dir.owner)
      PROVE  dir.owner = p /\ pc[p] \in Acquired
  <2>1. pc[dir.owner] \in Acquired
    BY <1>1, <1>2 DEF Follows, Live
  <2> QED
    BY <1>2, <2>1 DEF Solo, Live, Acquired, Registered
<1> QED
  BY <1>1, <1>2 DEF Inv, NamesInv, Solo, Live, Recovering

(* A step that touches neither the directories nor what takeovers know of them. *)
LEMMA QuietStep ==
  ASSUME Inv, NEW p \in Proc, NEW to \in Trying \cup Releasing \cup {"done", "failed", "release",
     "rm_lock"}, Goes(p, to),
         UNCHANGED <<Still, sweep, target, recovered, contended>>, retired' \in {retired,
            retired \ {p}}, retry' \in {retry, retry \cup {p}}, to \notin {"new", "required"},
         claim' \in {claim, None, Missing},
         pc[p] \in Acquired => to \in Registered,
         to \in Holding => pc[p] \in Holding,
         claim' = p => to \in {"release_claim", "rm_claim"},
         p \notin agents,
         pc[p] # "new", p \notin contended /\ Solo(p) => Solo(p)' /\ to \notin {"refused", "failed"}
  PROVE  Inv'
<1>1. StateInv'
  BY DEF Inv, StateInv, Still, world, Goes, Named, Trying, Releasing, Seeking
<1>2. NamesInv'
  BY NamesStep, AllWritten DEF Still, world, Acquired, Registered
<1>3. ApartInv'
  BY AsideStep
<1>4. SoloInv'
  BY SoloStep DEF Still, world
<1> QED
  BY <1>1, <1>2, <1>3, <1>4 DEF Inv

(* Starting, leaving, dying, the exit of an agent.                              *)
LEMMA SettleStep ==
  ASSUME Inv, NEW p \in Proc, Start(p) \/ Die(p) \/ Exit(p) \/ AgentExits(p)
  PROVE  Inv'
<1> USE DEF Inv, Moves, files, world, history, locals
<1>1. CASE Start(p)
  <2> USE <1>1 DEF Start, Running
  <2>1. StateInv' /\ NamesInv'
    BY DEF StateInv, Steps, Trying, Seeking, NamesInv, Follows, Directories, Named, Acquired,
       Registered, Recovering
  <2>2. ApartInv'
    <3>1. Goes(p, "required")
      BY DEF Goes, Steps, Trying
    <3> QED
      BY <3>1, AsideStep DEF Still, Trying, Holding
  <2>3. SoloInv'
    BY DEF SoloInv, Solo, StateInv, Recovering, Releasing, Finalizing
  <2> QED
    BY <2>1, <2>2, <2>3
<1>2. CASE Die(p) \/ Exit(p)
  <2> USE <1>2 DEF Die, Exit
  <2>1. /\ alive' = alive \ {p} /\ p \in alive /\ pc[p] # "new"
        /\ UNCHANGED <<files, agents, history, pc, locals>>
    BY DEF Ended
  <2>2. StateInv' /\ NamesInv'
    BY <2>1 DEF StateInv, NamesInv, Follows
  <2>3. apart => One(Holding)' /\ One(Recovering)' /\ StaleInv'
    BY <2>1 DEF ApartInv, One, StaleInv, Aside
  <2>4. apart => HolderInv' /\ AgentsInv'
    BY <2>1 DEF ApartInv, HolderInv, AgentsInv, Aside
  <2>5. SoloInv'
    BY <2>1 DEF SoloInv, Solo, Aside
  <2> QED
    BY <2>1, <2>2, <2>3, <2>4, <2>5 DEF ApartInv
<1>3. CASE AgentExits(p)
  <2> USE <1>3 DEF AgentExits
  <2>1. StateInv' /\ NamesInv'
    BY DEF StateInv, NamesInv, Follows
  <2>2. apart => One(Holding)' /\ One(Recovering)' /\ StaleInv'
    BY DEF ApartInv, One, StaleInv, Aside
  <2>3. apart => HolderInv' /\ AgentsInv'
    BY DEF ApartInv, HolderInv, AgentsInv, Aside
  <2>4. SoloInv'
    BY DEF SoloInv, Solo, Aside
  <2> QED
    BY <2>1, <2>2, <2>3, <2>4 DEF ApartInv
<1> QED
  BY <1>1, <1>2, <1>3

(* The steps of try_acquire that only look, and the attempts that are given up. *)
LEMMA TryStep ==
  ASSUME Inv, NEW p \in Proc,
         RecoveryRequired(p) \/ ClaimIsLive(p) \/ PublishFails(p) \/ LockExists(p) \/ LookAtClaim(p)
  PROVE  Inv'
<1> USE DEF Moves, files, world, history, locals
<1> DEFINE Quiet(to) ==
      /\ Goes(p, to) /\ to \in Trying /\ pc[p] \in Trying \ {"new"}
      /\ UNCHANGED <<Still, claim, sweep, target, retired, recovered, contended>>
      /\ retry' \in {retry, retry \cup {p}} /\ to \notin {"new", "required"}
<1>1. ASSUME NEW to, Quiet(to), Solo(p) => Solo(p)' /\ to \notin {"refused", "failed"}
      PROVE  Inv'
  <2>1. p \notin agents /\ claim # p
    BY <1>1, ProcAssumption DEF Inv, NamesInv, StateInv, Goes, Trying, Recovering
  <2>2. pc[p] \notin Acquired /\ to \notin Holding
    BY <1>1 DEF Trying, Acquired, Registered, Holding
  <2> QED
    BY <1>1, <2>1, <2>2, QuietStep
<1>2. p \in alive
  BY DEF RecoveryRequired, ClaimIsLive, PublishFails, LockExists, LookAtClaim
<1>3. ASSUME NEW to, Quiet(to)
      PROVE  pc'[p] = to /\ \A q \in alive : q # p => pc'[q] = pc[q]
  BY <1>3 DEF Goes, Inv, StateInv
<1>4. CASE RecoveryRequired(p)
  <2> DEFINE to == IF claim = Missing /\ Aside = {} THEN "publish" ELSE "claim_live"
  <2>1. Quiet(to) /\ pc[p] = "required"
    BY <1>2, <1>4 DEF RecoveryRequired, Aside, Goes, Still, Steps, Trying, Inv, StateInv
  <2>2. to \in {"publish", "claim_live"} /\ (to = "publish" => Aside = {})
    OBVIOUS
  <2>3. p \notin retry'
    BY <1>4 DEF RecoveryRequired, Inv, StateInv
  <2> HIDE DEF to
  <2>4. Solo(p) => Solo(p)'
    BY <1>3, <1>4, <2>1, <2>2, <2>3 DEF RecoveryRequired, Solo, Aside, Recovering, Releasing,
       Finalizing
  <2> QED
    BY <1>1, <2>1, <2>2, <2>4
<1>5. CASE ClaimIsLive(p)
  <2> DEFINE to == IF Live(claim) THEN "refused" ELSE "claim"
  <2>1. Quiet(to) /\ pc[p] = "claim_live"
    BY <1>2, <1>5 DEF ClaimIsLive, Goes, Still, Steps, Trying, Inv, StateInv
  <2>2. to \in {"refused", "claim"} /\ (Solo(p) => to = "claim")
    BY <1>2, <2>1, SoloFinds DEF Recovering
  <2> HIDE DEF to
  <2>3. Solo(p) => Solo(p)'
    BY <1>3, <1>5, <2>1, <2>2 DEF ClaimIsLive, Solo, Aside, Recovering, Releasing, Finalizing
  <2> QED
    BY <1>1, <2>1, <2>2, <2>3
<1>6. CASE PublishFails(p)
  <2> DEFINE to == IF p \in retry THEN "refused" ELSE "exists"
  <2>1. Quiet(to) /\ pc[p] = "publish"
    BY <1>2, <1>6 DEF PublishFails, Goes, Still, Steps, Trying, Inv, StateInv
  <2>2. to \in {"refused", "exists"} /\ (Solo(p) => to = "exists")
    BY <1>6, <2>1 DEF PublishFails, Solo
  <2> HIDE DEF to
  <2>3. Solo(p) => Solo(p)'
    BY <1>3, <1>6, <2>1, <2>2 DEF PublishFails, Solo, Aside, Recovering, Releasing, Finalizing
  <2> QED
    BY <1>1, <2>1, <2>2, <2>3
<1>7. CASE LockExists(p)
  <2> DEFINE to == IF path = NoDir THEN "publish" ELSE "claim"
  <2>1. Quiet(to) /\ pc[p] = "exists"
    BY <1>2, <1>7 DEF LockExists, Goes, Still, Steps, Trying, Inv, StateInv
  <2>2. to \in {"publish", "claim"} /\ (to = "publish" => Vacant(path))
    BY DEF Vacant
  <2> HIDE DEF to
  <2>3. Solo(p) => Solo(p)'
    BY <1>3, <1>7, <2>1, <2>2 DEF LockExists, Solo, Aside, Vacant, Recovering, Releasing, Finalizing
  <2> QED
    BY <1>1, <2>1, <2>2, <2>3
<1>8. CASE LookAtClaim(p)
  <2>1. PICK to \in {"publish_claim", "refused", "rm_stale_claim"} :
          /\ pc' = [pc EXCEPT ![p] = to] /\ pc[p] = "claim"
          /\ to = "publish_claim" => claim = Missing
          /\ to = "refused" => Live(claim)
    BY <1>8 DEF LookAtClaim
  <2>2. Quiet(to)
    BY <1>2, <1>8, <2>1 DEF LookAtClaim, Goes, Still, Steps, Trying, Inv, StateInv
  <2>3. Solo(p) => to # "refused"
    BY <1>2, <2>1, SoloFinds DEF Recovering
  <2>4. Solo(p) => Solo(p)'
    BY <1>3, <1>8, <2>1, <2>2 DEF LookAtClaim, Solo, Aside, Recovering, Releasing, Finalizing
  <2> QED
    BY <1>1, <2>1, <2>2, <2>3, <2>4
<1> QED
  BY <1>4, <1>5, <1>6, <1>7, <1>8

(* From the claim on the takeover to its release.                               *)
LEMMA ClaimStep ==
  ASSUME Inv, NEW p \in Proc,
         RemoveClaimEntries(p) \/ RemoveClaim(p) \/ PublishClaim(p) \/ ReleaseClaim(p)
  PROVE  Inv'
<1> USE DEF Moves, files, world, history, locals
<1> DEFINE Quiet(to) ==
      /\ Goes(p, to) /\ to \in Trying \cup Releasing \cup {"failed"} /\ to \notin {"new", "required"}
      /\ pc[p] \in (Trying \ {"new"}) \cup Releasing
      /\ UNCHANGED <<Still, retry, sweep, target, recovered, contended>>
      /\ retired' \in {retired, retired \ {p}}
      /\ claim' \in {claim, None, Missing}
      /\ claim' = p => to \in {"release_claim", "rm_claim"}
<1>1. ASSUME NEW to, Quiet(to), Solo(p) => Solo(p)' /\ to \notin {"refused", "failed"}
      PROVE  Inv'
  <2>1. p \notin agents
    BY <1>1 DEF Inv, NamesInv, StateInv, Goes, Trying, Releasing
  <2>2. pc[p] \notin Acquired /\ to \notin Holding /\ pc[p] # "new"
    BY <1>1 DEF Trying, Acquired, Registered, Releasing, Holding
  <2> QED
    BY <1>1, <2>1, <2>2, QuietStep
<1>2. p \in alive
  BY DEF RemoveClaimEntries, RemoveClaim, PublishClaim, ReleaseClaim
<1>3. ASSUME NEW to, Quiet(to)
      PROVE  pc'[p] = to /\ \A q \in alive : q # p => pc'[q] = pc[q]
  BY <1>3 DEF Goes, Inv, StateInv
<1>4. claim = p => pc[p] \in Recovering \cup {"release_claim", "rm_claim"}
  BY DEF Inv, NamesInv
<1>5. CASE RemoveClaimEntries(p)
  <2>1. PICK to \in {"rmdir_stale_claim", "rmdir_claim"} :
          /\ pc' = [pc EXCEPT ![p] = to] /\ pc[p] \in {"rm_stale_claim", "rm_claim"}
          /\ to = "rmdir_claim" => pc[p] = "rm_claim"
    BY <1>5 DEF RemoveClaimEntries
  <2>2. Quiet(to)
    BY <1>2, <1>5, <2>1, ProcAssumption DEF RemoveClaimEntries, Goes, Still, Steps, Trying,
       Releasing, Inv, StateInv
  <2>3. Solo(p) => Solo(p)'
    BY <1>3, <1>5, <2>1, <2>2 DEF RemoveClaimEntries, Solo, Aside, Recovering, Releasing, Finalizing
  <2> QED
    BY <1>1, <2>1, <2>2, <2>3
<1>6. CASE RemoveClaim(p)
  <2>1. PICK to \in {"publish_claim", "publish", "refused", "failed"} :
          /\ pc' = [pc EXCEPT ![p] = to] /\ pc[p] \in {"rmdir_stale_claim", "rmdir_claim"}
          /\ to = "failed" <=> claim \notin {None, Missing}
          /\ to \in {"publish", "refused"} => pc[p] = "rmdir_claim" /\ to = Returns(p)
    BY <1>6 DEF RemoveClaim, Returns
  <2>2. Quiet(to)
    <3>1. claim' \in {claim, Missing} /\ claim' # p
      BY <1>4, <1>6, <2>1, ProcAssumption DEF RemoveClaim, Recovering
    <3>2. UNCHANGED <<path, stale, world, history, locals>>
      BY <1>6 DEF RemoveClaim
    <3> QED
      BY <1>2, <2>1, <3>1, <3>2 DEF Goes, Still, Steps, Trying, Releasing, Acquired, Registered
  <2>3. Solo(p) => to \notin {"refused", "failed"}
    BY <2>1 DEF Solo, Releasing, Returns
  <2>4. Solo(p) => Solo(p)'
    BY <1>3, <1>6, <2>1, <2>2, <2>3 DEF RemoveClaim, Solo, Aside, Recovering, Releasing,
       Finalizing, Vacant
  <2> QED
    BY <1>1, <2>1, <2>2, <2>3, <2>4
<1>7. CASE ReleaseClaim(p)
  <2>1. PICK to \in {"rm_claim", "failed", "publish", "refused"} :
          /\ pc' = [pc EXCEPT ![p] = to] /\ pc[p] = "release_claim"
          /\ claim = p <=> to = "rm_claim"
    BY <1>7, ProcAssumption DEF ReleaseClaim, Returns
  <2>2. Quiet(to)
    <3>1. UNCHANGED <<files, world, history, locals>>
      BY <1>7 DEF ReleaseClaim
    <3> QED
      BY <1>2, <2>1, <3>1 DEF Goes, Still, Steps, Trying, Releasing, Acquired, Registered
  <2>3. Solo(p) => to = "rm_claim"
    BY <2>1 DEF Solo
  <2>4. Solo(p) => Solo(p)'
    BY <1>3, <1>7, <2>1, <2>2, <2>3 DEF ReleaseClaim, Solo, Aside, Recovering, Releasing, Finalizing
  <2> QED
    BY <1>1, <2>1, <2>2, <2>3, <2>4
<1>8. CASE PublishClaim(p) /\ claim \notin {Missing, None}
  <2>1. Quiet("refused") /\ pc[p] = "publish_claim"
    BY <1>2, <1>4, <1>8 DEF PublishClaim, Goes, Still, Steps, Trying, Releasing, Recovering
  <2>2. ~Solo(p)
    BY <1>8, <2>1 DEF Solo
  <2> QED
    BY <1>1, <2>1, <2>2
<1>9. CASE PublishClaim(p) /\ claim \in {Missing, None}
  <2> USE <1>9 DEF PublishClaim
  <2>1. /\ pc[p] = "publish_claim" /\ pc'[p] = "sweep" /\ \A q \in Proc : q # p => pc'[q] = pc[q]
        /\ claim' = p /\ sweep'[p] = Aside /\ \A q \in Proc : q # p => sweep'[q] = sweep[q]
        /\ apart' = (apart /\ Others(p, Recovering) = {}) /\ alive' = alive /\ alive \subseteq Proc
    BY DEF Inv, StateInv, Aside
  <2>2. StateInv'
    BY <2>1 DEF Inv, StateInv, Steps, Recovering, Named, Aside, Seeking
  <2>3. NamesInv'
    <3>1. Goes(p, "sweep")
      BY <1>2 DEF Goes, Steps, Recovering
    <3>2. pc[p] \notin Acquired /\ p \notin agents
      BY <1>2, <2>1 DEF Acquired, Registered, Inv, NamesInv
    <3>3. ASSUME NEW dir \in Directories, Follows(dir) PROVE Follows(dir)'
      BY <2>1, <3>2, <3>3 DEF Follows, Directories, Named, Acquired
    <3> QED
      <4>1. Follows(path)' /\ \A q \in Proc : Follows(stale[q])'
        BY <3>3, AllWritten DEF Written, Follows
      <4>2. agents \subseteq Proc /\ registered \subseteq Proc /\ p \notin registered
        BY <3>2, <2>1 DEF Inv, StateInv, NamesInv, Registered
      <4> QED
        BY <2>1, <3>2, <4>1, <4>2 DEF Inv, NamesInv, Recovering
  <2>4. apart' => One(Holding)' /\ One(Recovering)'
    BY <2>1 DEF Inv, ApartInv, One, Others, Holding
  <2>5. apart' => StaleInv'
    BY <2>1 DEF Inv, ApartInv, StaleInv, Aside, Recovering, Finalizing
  <2>6. apart' => HolderInv' /\ AgentsInv'
    BY <2>1 DEF Inv, ApartInv, HolderInv, AgentsInv, Aside, Holding
  <2>7. SoloInv'
    <3>1. Goes(p, "sweep") /\ pc[p] # "new"
      BY <1>2, <2>1 DEF Goes, Steps, Recovering
    <3>2. Solo(p) => Solo(p)'
      BY <2>1 DEF Solo, Aside, Recovering, Releasing, Finalizing
    <3> QED
      BY <3>1, <3>2, SoloStep
  <2> QED
    BY <2>2, <2>3, <2>4, <2>5, <2>6, <2>7 DEF Inv, ApartInv
<1> QED
  BY <1>5, <1>6, <1>7, <1>8, <1>9

(* The steps of a takeover that look at stale paths and at the lock.            *)
LEMMA TakeoverStep ==
  ASSUME Inv, NEW p \in Proc,
         (\E q \in Proc : SweepNext(p, q)) \/ Swept(p) \/ PathExists(p) \/ InspectOwner(p) \/ Finalize(p)
  PROVE  Inv'
<1> USE DEF Moves, files, world, history, locals
<1> DEFINE Looks(to) ==
      /\ Goes(p, to) /\ pc[p] \in Recovering /\ to \in Recovering \cup {"release_claim"}
      /\ UNCHANGED <<Still, claim, retry, retired, contended>>
      /\ (p \in retired => to \notin Seeking) /\ recovered' \subseteq Proc
      /\ sweep' \in [Proc -> SUBSET Proc] /\ target' \in [Proc -> Proc]
      /\ \A q \in Proc : q # p => sweep'[q] = sweep[q] /\ target'[q] = target[q]
<1> DEFINE Knows(to) ==
      apart =>
       /\ to \in Recovering => \A q \in Aside : q \in sweep'[p] \/ (to \in Finalizing /\ q = target'[p])
       /\ to \in {"path_exists", "inspect", "retire"} => sweep'[p] = {}
       /\ to \in Finalizing /\ p \in retired => sweep'[p] = {}
       /\ to \in {"terminate", "remove_stale"} => stale[target'[p]].owner \notin alive
       /\ to # "remove_stale"
<1>1. p \in alive
  BY DEF SweepNext, Swept, PathExists, InspectOwner, Finalize
<1>2. ASSUME NEW to, Looks(to)
      PROVE  /\ pc'[p] = to /\ \A q \in Proc : q # p => pc'[q] = pc[q]
             /\ pc[p] \notin Acquired /\ pc[p] # "new" /\ alive \subseteq Proc
             /\ \A q \in alive : q # p => pc'[q] = pc[q]
  BY <1>2 DEF Goes, Inv, StateInv, Recovering, Acquired, Registered
<1>3. ASSUME NEW to, Looks(to), Knows(to), Solo(p) => Solo(p)'
      PROVE  Inv'
  <2>1. StateInv'
    BY <1>2, <1>3 DEF Inv, StateInv, Goes, Still, Recovering, Seeking
  <2>2. NamesInv'
    <3>1. p \notin agents /\ pc[p] \notin Registered
      BY <1>2, <1>3 DEF Inv, NamesInv, Goes, Recovering, Acquired
    <3>2. claim' \in {claim, None, Missing} /\ UNCHANGED <<path, stale, world, registered>>
      BY <1>3 DEF Still
    <3> QED
      BY <1>2, <1>3, <3>1, <3>2, NamesStep, AllWritten DEF world
  <2>3. apart => One(Holding)' /\ One(Recovering)'
    BY <1>2, <1>3 DEF Inv, ApartInv, One, Still, Holding, Recovering
  <2>4. apart => StaleInv'
    <3>1. ASSUME apart, NEW q \in alive, q # p PROVE pc'[q] \notin Recovering
      BY <1>1, <1>2, <1>3, <3>1 DEF Inv, ApartInv, One
    <3>2. Finalizing \subseteq Recovering /\ {"path_exists", "inspect", "retire"} \subseteq Recovering
          /\ {"terminate", "remove_stale"} \subseteq Finalizing
      BY DEF Finalizing, Recovering
    <3> QED
      BY <1>2, <1>3, <3>1, <3>2 DEF Inv, ApartInv, StaleInv, Aside, Still
  <2>5. apart => HolderInv' /\ AgentsInv'
    BY <1>2, <1>3 DEF Inv, ApartInv, HolderInv, AgentsInv, Aside, Still, Holding, Recovering
  <2>6. SoloInv'
    BY <1>2, <1>3, SoloStep DEF Still, Recovering
  <2> QED
    BY <2>1, <2>2, <2>3, <2>4, <2>5, <2>6, <1>3 DEF Inv, ApartInv, Still
<1>4. ASSUME NEW q \in Proc, SweepNext(p, q)
      PROVE  Inv'
  <2> USE <1>4 DEF SweepNext
  <2>1. Looks("finalize") /\ pc[p] = "sweep" /\ p \notin retired
    BY <1>1 DEF Goes, Still, Steps, Recovering, Seeking, Inv, StateInv
  <2>2. sweep'[p] = sweep[p] \ {q} /\ target'[p] = q
    BY DEF Inv, StateInv
  <2>3. Knows("finalize")
    BY <1>1, <2>1, <2>2 DEF Inv, ApartInv, StaleInv, Finalizing, Recovering
  <2>4. Solo(p) => Solo(p)'
    BY <1>2, <2>1 DEF Solo, Aside, Recovering, Releasing, Finalizing
  <2> QED
    BY <1>3, <2>1, <2>3, <2>4
<1>5. CASE Swept(p)
  <2> USE <1>5 DEF Swept
  <2>1. Looks("path_exists") /\ pc[p] = "sweep" /\ p \notin retired
    BY <1>1 DEF Goes, Still, Steps, Recovering, Seeking, Inv, StateInv
  <2>2. Knows("path_exists")
    BY <1>1, <2>1 DEF Inv, ApartInv, StaleInv, Finalizing, Recovering
  <2>3. Solo(p) => Solo(p)'
    BY <1>2, <2>1 DEF Solo, Aside, Recovering, Releasing, Finalizing
  <2> QED
    BY <1>3, <2>1, <2>2, <2>3
<1>6. CASE PathExists(p)
  <2> USE <1>6 DEF PathExists
  <2> DEFINE to == IF path = NoDir THEN "release_claim" ELSE "inspect"
  <2>1. Looks(to) /\ pc[p] = "path_exists" /\ p \notin retired
    BY <1>1 DEF Goes, Still, Steps, Recovering, Releasing, Seeking, Inv, StateInv
  <2>2. to \in {"release_claim", "inspect"} /\ (to = "release_claim" <=> path = NoDir)
    OBVIOUS
  <2> HIDE DEF to
  <2>3. apart => Aside = {} /\ sweep[p] = {}
    BY <1>1, <2>1 DEF Inv, ApartInv, StaleInv, Finalizing, Recovering
  <2>4. Knows(to)
    BY <2>2, <2>3 DEF Finalizing, Aside
  <2>5. Solo(p) => Solo(p)'
    BY <1>2, <2>1, <2>2, <2>3 DEF Solo, Aside, Recovering, Releasing, Finalizing
  <2> QED
    BY <1>3, <2>1, <2>4, <2>5
<1>7. CASE InspectOwner(p)
  <2> USE <1>7 DEF InspectOwner
  <2> DEFINE to == IF Live(path.owner) THEN "release_claim" ELSE "retire"
  <2>1. Looks(to) /\ pc[p] = "inspect" /\ p \notin retired
    BY <1>1 DEF Goes, Still, Steps, Recovering, Releasing, Seeking, Inv, StateInv
  <2>2. to \in {"release_claim", "retire"} /\ (Solo(p) => to = "retire")
    BY <1>1, <1>2, <2>1, SoloFinds
  <2> HIDE DEF to
  <2>3. Knows(to)
    BY <1>1, <2>1, <2>2 DEF Inv, ApartInv, StaleInv, Finalizing, Recovering
  <2>4. Solo(p) => Solo(p)'
    BY <1>2, <2>1, <2>2 DEF Solo, Aside, Recovering, Releasing, Finalizing
  <2> QED
    BY <1>3, <2>1, <2>3, <2>4
<1>8. CASE Finalize(p)
  <2> USE <1>8 DEF Finalize
  <2> DEFINE to == IF Live(stale[target[p]].owner) THEN "restore_live" ELSE "terminate"
  <2>1. Looks(to) /\ pc[p] = "finalize" /\ target[p] \in Proc
    BY <1>1 DEF Goes, Still, Steps, Recovering, Seeking, Inv, StateInv
  <2>2. /\ to \in {"restore_live", "terminate"} /\ (Solo(p) => to = "terminate")
        /\ to = "terminate" => stale[target[p]].owner \notin alive
    BY <1>1, <1>2, <2>1, SoloFinds DEF Live
  <2> HIDE DEF to
  <2>3. Knows(to)
    BY <1>1, <2>1, <2>2 DEF Inv, ApartInv, StaleInv, Finalizing, Recovering
  <2>4. Solo(p) => Solo(p)'
    BY <1>2, <2>1, <2>2 DEF Solo, Aside, Recovering, Releasing, Finalizing
  <2> QED
    BY <1>3, <2>1, <2>3, <2>4
<1> QED
  BY <1>4, <1>5, <1>6, <1>7, <1>8

(* The steps of a takeover that move, empty or remove a directory.                 *)
LEMMA MoveStep ==
  ASSUME Inv, NEW p \in Proc,
         Retire(p) \/ RestoreLive(p) \/ TerminateAgents(p) \/ RemoveStale(p)
  PROVE  Inv'
<1> USE DEF Inv, Moves, files, world, history, locals
<1>1. /\ p \in alive /\ pc[p] \in Recovering /\ pc[p] \notin Acquired /\ pc[p] # "new"
      /\ p \notin agents /\ alive \subseteq Proc
  BY DEF Retire, RestoreLive, TerminateAgents, RemoveStale, Recovering, Acquired, Registered,
     StateInv, NamesInv
<1>2. ASSUME apart, NEW q \in alive, q # p PROVE pc[q] \notin Recovering
  BY <1>1, <1>2 DEF ApartInv, One
<1>3. /\ Finalizing \subseteq Recovering /\ Seeking \subseteq Recovering
      /\ {"path_exists", "inspect", "retire"} \subseteq Seeking
      /\ {"terminate", "remove_stale"} \subseteq Finalizing
  BY DEF Finalizing, Recovering, Seeking
<1>4. ASSUME NEW to \in Recovering \cup {"release_claim"}, Goes(p, to), Written(path'),
             \A q \in Proc : Written(stale'[q]),
             claim' = claim, alive' = alive, registered' = registered, agents' \subseteq agents
      PROVE  NamesInv'
  BY <1>1, <1>4, NamesStep DEF Registered, Acquired
<1>5. CASE Retire(p)
  <2> USE <1>5 DEF Retire
  <2>1. /\ pc[p] = "retire" /\ pc'[p] \in {"finalize", "release_claim"}
        /\ \A q \in Proc : q # p => pc'[q] = pc[q]
        /\ pc'[p] = "release_claim" <=> path = NoDir
    BY DEF StateInv
  <2>2. CASE path = NoDir
    <3>1. UNCHANGED <<path, stale, claim, world, history, retry, sweep, target, retired, recovered>>
      BY <2>2
    <3>2. StateInv' /\ Goes(p, "release_claim")
      BY <1>1, <2>1, <2>2, <3>1 DEF StateInv, Goes, Steps, Releasing, Seeking
    <3>5. NamesInv'
      BY <1>4, <3>1, <3>2, AllWritten
    <3>3. ApartInv'
      BY <1>1, <2>1, <2>2, <3>1 DEF ApartInv, One, StaleInv, HolderInv, AgentsInv, Aside,
         Holding, Recovering, Finalizing
    <3>4. SoloInv'
      BY <1>1, <2>1, <2>2, <3>2, SoloStep DEF Solo
    <3> QED
      BY <3>2, <3>3, <3>4, <3>5
  <2>3. CASE path # NoDir
    <3>1. /\ stale'[p] = path /\ \A q \in Proc : q # p => stale'[q] = stale[q]
          /\ path' = NoDir /\ target'[p] = p /\ p \in retired' /\ pc'[p] = "finalize"
          /\ \A q \in Proc : q # p => target'[q] = target[q]
      BY <2>1, <2>3 DEF StateInv
    <3>2. StateInv'
      BY <2>1, <2>3, <3>1 DEF StateInv, Directories, Named, NoDir, Steps, Recovering, Seeking
    <3>3. NamesInv'
      <4>1. Goes(p, "finalize")
        BY <1>1, <2>1, <2>3 DEF Goes, Steps, Recovering
      <4> QED
        BY <1>4, <3>1, <4>1, AllWritten DEF Recovering
    <3>4. apart => Aside = {} /\ sweep[p] = {}
      BY <1>1, <2>1 DEF ApartInv, StaleInv, Finalizing, Recovering
    <3>5. apart => Aside' = {p}
      BY <2>3, <3>1, <3>4 DEF Aside
    <3>6. apart => One(Holding)' /\ One(Recovering)'
      BY <1>1, <2>1 DEF ApartInv, One, Holding, Recovering
    <3>7. apart => StaleInv'
      <4>1. ASSUME apart, NEW q \in alive, pc'[q] \in Recovering
            PROVE  q = p
        BY <1>1, <1>2, <2>1, <4>1
      <4>2. sweep' = sweep /\ alive' = alive /\ pc'[p] \notin {"terminate", "remove_stale"} \cup Seeking
        BY <2>3, <3>1 DEF Seeking
      <4> QED
        BY <1>3, <3>1, <3>4, <3>5, <4>1, <4>2 DEF StaleInv, Finalizing
    <3>8. apart => HolderInv'
      <4>1. ASSUME apart, NEW q \in alive, pc'[q] \in Holding
            PROVE  pc[q] \in Holding /\ path.owner = q /\ path.agents \subseteq {q}
        BY <1>1, <2>1, <3>1, <3>4, <4>1 DEF ApartInv, HolderInv, Holding
      <4>2. NoDir.owner = Missing /\ NoDir.agents = {}
        BY DEF NoDir
      <4> QED
        BY <3>1, <3>5, <4>1, <4>2 DEF HolderInv
    <3>9. apart => AgentsInv'
      BY <1>1, <2>1, <3>1, <3>4, <3>5 DEF ApartInv, AgentsInv, HolderInv, NamesInv, Aside, Holding
    <3>10. SoloInv'
      BY <1>1, <2>1, <3>1 DEF SoloInv, Solo, Aside, Finalizing, Releasing, Recovering
    <3> QED
      BY <3>2, <3>3, <3>6, <3>7, <3>8, <3>9, <3>10 DEF ApartInv
  <2> QED
    BY <2>2, <2>3
<1>6. CASE RestoreLive(p)
  <2> USE <1>6 DEF RestoreLive
  <2>1. /\ pc[p] = "restore_live" /\ pc'[p] = "release_claim"
        /\ \A q \in Proc : q # p => pc'[q] = pc[q]
        /\ target[p] \in Proc
    BY DEF StateInv
  <2>2. SoloInv'
    BY <1>1, <2>1 DEF SoloInv, Solo
  <2>3. CASE UNCHANGED <<path, stale>>
    <3>1. StateInv' /\ Goes(p, "release_claim")
      BY <1>1, <2>1, <2>3 DEF StateInv, Goes, Steps, Releasing, Seeking
    <3>3. NamesInv'
      BY <1>4, <2>3, <3>1, AllWritten
    <3>2. ApartInv'
      BY <1>1, <2>1, <2>3 DEF ApartInv, One, StaleInv, HolderInv, AgentsInv, Aside, Holding,
         Recovering, Finalizing
    <3> QED
      BY <2>2, <3>1, <3>2, <3>3
  <2>4. CASE ~UNCHANGED <<path, stale>>
    <3>1. /\ stale[target[p]] # NoDir /\ Vacant(path) /\ path' = stale[target[p]]
          /\ stale'[target[p]] = NoDir /\ \A q \in Proc : q # target[p] => stale'[q] = stale[q]
      BY <2>1, <2>4 DEF StateInv
    <3>2. StateInv'
      BY <2>1, <3>1 DEF StateInv, Directories, Named, NoDir, Steps, Releasing, Seeking
    <3>3. NamesInv'
      <4>1. Goes(p, "release_claim")
        BY <1>1, <2>1 DEF Goes, Steps, Releasing
      <4> QED
        BY <1>4, <2>1, <3>1, <4>1, AllWritten
    <3>4. apart => Aside = {target[p]} /\ Aside' = {}
      BY <2>1, <3>1 DEF ApartInv, StaleInv, Aside
    <3>5. apart => One(Holding)' /\ One(Recovering)'
      BY <1>1, <2>1 DEF ApartInv, One, Holding, Recovering
    <3>6. apart => StaleInv'
      BY <1>2, <2>1, <3>4 DEF StaleInv, Finalizing, Recovering
    <3>7. apart => HolderInv'
      BY <2>1, <3>1, <3>4, ProcAssumption DEF ApartInv, HolderInv, Vacant, NoDir, Empty,
         StateInv, Holding
    <3>8. apart => AgentsInv'
      BY <2>1, <3>1, <3>4 DEF ApartInv, AgentsInv, Vacant, NoDir, Empty
    <3> QED
      BY <2>2, <3>2, <3>3, <3>5, <3>6, <3>7, <3>8 DEF ApartInv
  <2> QED
    BY <2>3, <2>4
<1>7. CASE TerminateAgents(p)
  <2> USE <1>7 DEF TerminateAgents
  <2>1. /\ pc[p] = "terminate" /\ pc'[p] = "remove_stale" /\ \A q \in Proc : q # p => pc'[q] = pc[q]
    BY DEF StateInv
  <2>2. StateInv' /\ Goes(p, "remove_stale")
    BY <1>1, <2>1 DEF StateInv, Goes, Steps, Seeking, Recovering
  <2>7. NamesInv'
    BY <1>4, <2>2, AllWritten DEF Recovering
  <2>3. apart => One(Holding)' /\ One(Recovering)'
    BY <1>1, <2>1 DEF ApartInv, One, Holding, Recovering
  <2>4. apart => StaleInv'
    BY <1>1, <1>2, <2>1 DEF ApartInv, StaleInv, Aside, Finalizing, Recovering
  <2>5. apart => HolderInv' /\ AgentsInv'
    BY <2>1 DEF ApartInv, HolderInv, AgentsInv, Aside, Holding
  <2>6. SoloInv'
    BY <1>1, <2>1 DEF SoloInv, Solo, Aside, Finalizing, Releasing, Recovering
  <2> QED
    BY <2>2, <2>3, <2>4, <2>5, <2>6, <2>7 DEF ApartInv
<1>8. CASE RemoveStale(p)
  <2> USE <1>8 DEF RemoveStale
  <2>1. /\ pc[p] = "remove_stale" /\ pc'[p] = (IF p \in retired THEN "release_claim" ELSE "sweep")
        /\ \A q \in Proc : q # p => pc'[q] = pc[q]
        /\ target[p] \in Proc /\ stale'[target[p]] = NoDir
        /\ \A q \in Proc : q # target[p] => stale'[q] = stale[q]
    BY DEF StateInv
  <2>2. StateInv'
    BY <2>1 DEF StateInv, Directories, Named, NoDir, Steps, Releasing, Seeking, Recovering
  <2>3. NamesInv'
    <3>1. Goes(p, pc'[p]) /\ pc'[p] \in Recovering \cup {"release_claim"}
      BY <1>1, <2>1 DEF Goes, Steps, Releasing, Recovering
    <3> QED
      BY <1>4, <2>1, <3>1, AllWritten
  <2>4. Aside' = Aside \ {target[p]}
    BY <2>1 DEF Aside
  <2>5. apart => One(Holding)' /\ One(Recovering)'
    BY <1>1, <2>1 DEF ApartInv, One, Holding, Recovering
  <2>6. apart => StaleInv'
    BY <1>1, <1>2, <2>1, <2>4 DEF ApartInv, StaleInv, Finalizing, Recovering, Aside
  <2>7. apart => HolderInv' /\ AgentsInv'
    BY <1>1, <2>1, <2>4 DEF ApartInv, HolderInv, AgentsInv, StaleInv, Aside, Holding
  <2>8. apart /\ p \in retired => Aside' = {}
    BY <1>1, <2>1, <2>4 DEF ApartInv, StaleInv, Finalizing, Recovering
  <2>9. Goes(p, pc'[p]) /\ pc'[p] \in {"release_claim", "sweep"}
    BY <1>1, <2>1, <2>2 DEF Goes, StateInv, Steps, Releasing, Recovering
  <2>10. Solo(p) => Solo(p)'
    BY <1>1, <2>1, <2>8 DEF Solo, Finalizing, Releasing, Recovering
  <2>11. SoloInv'
    BY <1>1, <2>9, <2>10, SoloStep
  <2> QED
    BY <2>2, <2>3, <2>5, <2>6, <2>7, <2>11 DEF ApartInv
<1> QED
  BY <1>5, <1>6, <1>7, <1>8

(* publish_lock: the one step that makes a holder.                              *)
LEMMA PublishStep ==
  ASSUME Inv, NEW p \in Proc, PublishLock(p)
  PROVE  Inv'
<1> USE DEF Inv, PublishLock, Moves, files, world, history, locals
<1>1. /\ p \in alive /\ pc[p] = "publish" /\ pc'[p] = "held" /\ \A q \in Proc : q # p => pc'[q] = pc[q]
      /\ alive \subseteq Proc /\ p \notin agents
  BY DEF StateInv, NamesInv
<1>2. path' = [owner |-> p, agents |-> {}] /\ path.agents = {} /\ path.owner \in {None, Missing}
  BY DEF Vacant, NoDir, Empty
<1>3. StateInv'
  BY <1>1, <1>2, ProcAssumption DEF StateInv, Directories, Named, Steps, Acquired, Seeking
<1>4. NamesInv'
  <2>1. ASSUME NEW dir \in Directories, Follows(dir)
        PROVE  Follows(dir)'
    BY <1>1, <2>1 DEF Follows, Directories, Named, Acquired, Registered
  <2>2. Follows(path)'
    BY <1>1, <1>2 DEF Follows, Acquired
  <2> QED
    <3>1. \A q \in Proc : Follows(stale[q])'
      BY <2>1, AllWritten DEF Written, Follows
    <3>2. agents \subseteq Proc /\ registered \subseteq Proc /\ p \notin registered
      BY <1>1 DEF StateInv, NamesInv, Registered
    <3> QED
      BY <1>1, <2>2, <3>1, <3>2 DEF NamesInv, Recovering
<1>5. ASSUME apart', NEW q \in alive, pc'[q] \in Holding
      PROVE  q = p
  BY <1>1, <1>5 DEF Others
<1>6. apart' => One(Holding)' /\ One(Recovering)'
  <2>1. apart => \A q, r \in alive : pc'[q] \in Recovering /\ pc'[r] \in Recovering => q = r
    BY <1>1 DEF ApartInv, One, Recovering
  <2> QED
    BY <1>5, <2>1 DEF One
<1>7. apart' => StaleInv'
  BY <1>1 DEF ApartInv, StaleInv, Aside, Recovering, Finalizing
<1>8. apart' => HolderInv'
  <2>1. ASSUME NEW q \in Aside PROVE stale[q].owner # p
    BY <1>1, <2>1 DEF NamesInv, Follows, Aside, Acquired, Registered
  <2> QED
    BY <1>2, <1>5, <2>1 DEF HolderInv, Aside
<1>9. apart' => AgentsInv'
  BY <1>2 DEF ApartInv, AgentsInv, Aside
<1>10. SoloInv'
  <2>1. Goes(p, "held") /\ pc[p] # "new"
    BY <1>1 DEF Goes, Steps, Acquired
  <2>2. Solo(p) => Solo(p)'
    BY <1>1 DEF Solo, Aside, Recovering, Releasing, Finalizing
  <2> QED
    BY <2>1, <2>2, SoloStep
<1> QED
  BY <1>3, <1>4, <1>6, <1>8, <1>9, <1>10, <1>7 DEF ApartInv

(* A holder that leaves without a review, or has read the owner file to release. *)
LEMMA LeaveStep ==
  ASSUME Inv, NEW p \in Proc, NoReview(p) \/ Release(p)
  PROVE  Inv'
<1>1. PICK to \in {"release", "rm_lock", "done"} :
        /\ p \in alive /\ pc' = [pc EXCEPT ![p] = to] /\ pc[p] \in {"held", "release"}
        /\ UNCHANGED <<files, world, history, locals>>
  BY DEF NoReview, Release, Moves
<1>2. Goes(p, to) /\ UNCHANGED <<Still, sweep, target, recovered, contended, retry, retired, claim>>
  BY <1>1 DEF Goes, Still, Steps, Acquired, Registered, files, world, history, locals
<1>3. p \notin agents /\ claim # p
  BY <1>1 DEF Inv, NamesInv, Recovering
<1>4. pc'[p] = to /\ \A q \in alive : q # p => pc'[q] = pc[q]
  BY <1>1 DEF Inv, StateInv
<1>5. Solo(p) => Solo(p)'
  BY <1>1, <1>2, <1>4 DEF Solo, Aside, Still, world, Recovering, Releasing, Finalizing
<1>6. /\ pc[p] # "new" /\ pc[p] \in Holding /\ to \in Registered
      /\ to \notin {"new", "required", "refused", "failed"} /\ to \notin Recovering
  BY <1>1 DEF Holding, Registered, Recovering
<1> QED
  BY <1>1, <1>2, <1>3, <1>5, <1>6, QuietStep

(* The steps of a review that write to the lock or start the agent.              *)
LEMMA ReviewStep ==
  ASSUME Inv, NEW p \in Proc,
         Spawn(p) \/ Register(p) \/ Unregister(p) \/ RemoveLockEntries(p) \/ RemoveLock(p)
  PROVE  Inv'
<1> USE DEF Moves, files, world, history, locals
<1>1. PICK to \in {"spawned", "running", "release", "rmdir_lock", "done", "failed"} :
        /\ p \in alive /\ pc' = [pc EXCEPT ![p] = to]
        /\ pc[p] \in {"held", "spawned", "running", "rm_lock", "rmdir_lock"}
        /\ to \in {"spawned", "running", "release"} => pc[p] \in Holding
        /\ to = "spawned" <=> Spawn(p)
        /\ pc[p] \in Registered => to \in Registered
  BY DEF Spawn, Register, Unregister, RemoveLockEntries, RemoveLock, Holding, Registered
<1>2. /\ pc'[p] = to /\ \A q \in Proc : q # p => pc'[q] = pc[q]
      /\ pc \in [Proc -> Steps]
      /\ alive \subseteq Proc /\ agents \subseteq Proc /\ registered \subseteq Proc
  BY <1>1 DEF Inv, StateInv
<1>3. UNCHANGED <<stale, claim, alive, contended, apart, locals>>
  BY DEF Spawn, Register, Unregister, RemoveLockEntries, RemoveLock
<1>4. /\ Goes(p, to) /\ pc[p] # "new" /\ pc[p] \in Acquired /\ to \in Acquired
      /\ pc[p] \notin Recovering \cup Seeking /\ to \notin Recovering \cup Seeking
      /\ to \in Holding => pc[p] \in Holding
  BY <1>1 DEF Goes, Steps, Acquired, Registered, Recovering, Seeking, Holding
<1>5. apart => One(Holding)' /\ One(Recovering)'
  BY <1>2, <1>3, <1>4 DEF Inv, ApartInv, One
<1>6. claim # p
  BY <1>4 DEF Inv, NamesInv, Recovering, Acquired, Registered
<1>7. ASSUME StateInv', Written(path'), p \in agents' => to \in {"spawned", "running"},
   agents' \subseteq agents \cup {p},
             registered' \subseteq registered \cup {p},
                to \in Registered \/ registered' = registered
      PROVE  NamesInv'
  <2>1. ASSUME NEW dir, Written(dir) PROVE Follows(dir)'
    BY <1>1, <1>2, <1>4, <2>1 DEF Written, Follows, Directories, Named
  <2>2. Follows(path)' /\ \A q \in Proc : Follows(stale[q])'
    BY <1>3, <1>7, <2>1, AllWritten DEF Written, Follows
  <2>3. claim' \in Proc => pc'[claim'] \in Recovering \cup {"release_claim", "rm_claim"}
    BY <1>2, <1>3, <1>6 DEF Inv, NamesInv
  <2>4. \A a \in registered' : pc'[a] \in Registered
    BY <1>1, <1>2, <1>7 DEF Inv, NamesInv
  <2>5. \A a \in agents' \cap alive' : pc'[a] \in {"spawned", "running"}
    BY <1>2, <1>3, <1>7 DEF Inv, NamesInv
  <2> QED
    BY <2>2, <2>3, <2>4, <2>5 DEF NamesInv
<1>8. ASSUME agents' \subseteq agents \/ Spawn(p)
      PROVE  apart => StaleInv'
  <2>1. \A q \in Aside : agents' \cap stale[q].agents \subseteq agents
    BY <1>8 DEF Spawn, Inv, NamesInv, Follows, Registered, Aside
  <2>2. {"path_exists", "inspect", "retire"} \subseteq Seeking /\ Finalizing \subseteq Recovering
        /\ {"terminate", "remove_stale"} \subseteq Finalizing
    BY DEF Seeking, Finalizing, Recovering
  <2>3. Aside' = Aside
    BY <1>3 DEF Aside
  <2>4. \A q \in alive : pc[q] = "remove_stale" => stale[target[q]].agents \cap agents' \subseteq agents
    BY <2>1 DEF Aside, NoDir, Inv, StateInv
  <2> QED
    BY <1>2, <1>3, <1>4, <2>2, <2>3, <2>4 DEF Inv, ApartInv, StaleInv
<1>9. CASE Spawn(p)
  <2> USE <1>9 DEF Spawn
  <2>1. StateInv'
    BY <1>4 DEF Inv, StateInv, Goes
  <2>2. NamesInv'
    BY <1>1, <1>7, <2>1, AllWritten
  <2>3. apart => HolderInv'
    BY <1>2, <1>3, <1>4 DEF Inv, ApartInv, HolderInv, Aside
  <2>4. apart => AgentsInv'
    <3>1. p \notin registered /\ \A q \in Proc : p \notin stale[q].agents
      BY DEF Inv, NamesInv, Follows, Registered
    <3> QED
      BY <3>1 DEF Inv, ApartInv, AgentsInv, Aside
  <2>5. Solo(p) => Solo(p)'
    BY <1>2, <1>4 DEF Solo, Aside, Recovering, Releasing, Finalizing
  <2>6. SoloInv'
    BY <1>1, <1>3, <1>4, <2>5, SoloStep
  <2> QED
    BY <1>3, <1>5, <1>8, <2>1, <2>2, <2>3, <2>4, <2>6 DEF Inv, ApartInv
<1>10. CASE Register(p)
  <2> USE <1>10 DEF Register
  <2>1. StateInv'
    <3>1. path' \in Directories
      BY DEF Inv, StateInv, Directories, Named, NoDir, None, Missing
    <3> QED
      BY <1>4, <3>1 DEF Inv, StateInv, Goes
  <2>2. /\ path'.owner = (IF path = NoDir THEN None ELSE path.owner)
        /\ path'.agents = path.agents \cup {p}
        /\ pc[p] = "spawned" /\ to = "running" /\ pc[p] \in Holding
    BY <1>2 DEF Holding
  <2>3. NamesInv'
    <3>1. ASSUME NEW dir, Written(dir) PROVE Follows(dir)'
      BY <1>1, <1>2, <1>4, <3>1 DEF Written, Follows, Directories, Named
    <3>2. \A q \in Proc : Follows(stale[q])'
      BY <1>3, <3>1, AllWritten DEF Follows
    <3>3. Follows(path)'
      <4>1. \A a \in path.agents : a # p => pc'[a] \in Registered
        BY <1>2 DEF Inv, StateInv, NamesInv, Follows, Directories
      <4>2. path'.owner \in Proc => path'.owner = path.owner
        BY <2>2, ProcAssumption
      <4>3. path'.owner \in Proc => pc'[path'.owner] \in Acquired
        BY <1>2, <1>4, <4>2 DEF Inv, NamesInv, Follows
      <4> QED
        BY <1>2, <2>2, <4>1, <4>3 DEF Follows, Registered
    <3> QED
      BY <1>2, <1>3, <1>6, <2>2, <3>2, <3>3 DEF Inv, NamesInv, Registered
  <2>4. apart => HolderInv'
    <3>1. ASSUME apart, NEW q \in alive, pc'[q] \in Holding
          PROVE  q = p
      BY <1>1, <1>2, <1>4, <2>2, <3>1 DEF Inv, ApartInv, One
    <3>2. apart =>
            /\ path.agents \subseteq {p}
            /\ path.owner = p \/ (path.owner \in {None, Missing} /\ \E q \in Aside : stale[q].owner = p)
            /\ \A q \in Aside : stale[q].owner = p => stale[q].agents \subseteq {p}
      BY <1>1, <2>2 DEF Inv, ApartInv, HolderInv
    <3>3. path.owner = p => path # NoDir
      BY ProcAssumption DEF NoDir
    <3>4. Aside' = Aside /\ stale' = stale
      BY <1>3 DEF Aside
    <3>5. apart =>
            /\ path'.agents \subseteq {p}
            /\ path'.owner = p \/ (path'.owner \in {None, Missing} /\ \E q \in Aside : stale[q].owner = p)
      BY <2>2, <3>2, <3>3
    <3> QED
      BY <3>1, <3>2, <3>4, <3>5 DEF HolderInv
  <2>5. apart => AgentsInv'
    BY <2>2 DEF Inv, ApartInv, AgentsInv, Aside
  <2>6. Solo(p) => Solo(p)'
    BY <1>2, <1>4, <2>2 DEF Solo, Aside, Recovering, Releasing, Finalizing
  <2>7. SoloInv'
    BY <1>1, <1>3, <1>4, <2>1, <2>2, <2>6, SoloStep
  <2> QED
    BY <1>3, <1>5, <1>8, <2>1, <2>3, <2>4, <2>5, <2>7 DEF Inv, ApartInv
<1>11. CASE Unregister(p)
  <2> USE <1>11 DEF Unregister
  <2>1. path'.owner = path.owner /\ path'.agents = path.agents \ {p} /\ path' \in Directories
        /\ pc[p] = "running" /\ to = "release" /\ p \notin agents /\ pc[p] \in Holding
    BY <1>2 DEF Inv, StateInv, Directories, Named, Holding
  <2>2. StateInv'
    BY <1>4, <2>1 DEF Inv, StateInv, Goes
  <2>3. NamesInv'
    <3>1. Written(path')
      BY <2>1, AllWritten DEF Written, Follows
    <3> QED
      BY <1>7, <2>1, <2>2, <3>1
  <2>4. apart => HolderInv'
    BY <1>2, <1>3, <1>4, <2>1 DEF Inv, ApartInv, HolderInv, Aside
  <2>5. apart => AgentsInv'
    BY <2>1 DEF Inv, ApartInv, AgentsInv, Aside
  <2>6. Solo(p) => Solo(p)'
    BY <1>2, <1>4, <2>1 DEF Solo, Aside, Recovering, Releasing, Finalizing
  <2>7. SoloInv'
    BY <1>1, <1>3, <1>4, <2>1, <2>2, <2>6, SoloStep
  <2> QED
    BY <1>3, <1>5, <1>8, <2>2, <2>3, <2>4, <2>5, <2>7 DEF Inv, ApartInv
<1>12. CASE RemoveLockEntries(p)
  <2> USE <1>12 DEF RemoveLockEntries
  <2>1. path' \in {NoDir, Empty} /\ path'.owner \in {None, Missing} /\ path'.agents = {}
        /\ pc[p] = "rm_lock" /\ to = "rmdir_lock" /\ p \notin agents \cap alive /\ to \notin Holding
    BY <1>2 DEF NoDir, Empty, Holding, Inv, NamesInv
  <2>2. StateInv'
    BY <1>4, <2>1, AllWritten DEF Inv, StateInv, Goes, Written
  <2>3. NamesInv'
    BY <1>1, <1>7, <2>1, <2>2, AllWritten
  <2>4. ASSUME apart, NEW q \in alive, pc'[q] \in Holding
        PROVE  FALSE
    BY <1>1, <1>2, <1>4, <2>1, <2>4 DEF Inv, ApartInv, One, Holding
  <2>5. apart => HolderInv'
    BY <1>3, <2>4 DEF HolderInv
  <2>6. apart => path.agents \subseteq {p}
    BY <1>1, <2>1 DEF Inv, ApartInv, HolderInv, Holding
  <2>7. apart => AgentsInv'
    BY <1>1, <1>3, <2>1, <2>6 DEF Inv, ApartInv, AgentsInv, Aside
  <2>8. Solo(p) => Solo(p)'
    BY <1>2, <1>4, <2>1 DEF Solo, Aside, Vacant, Recovering, Releasing, Finalizing
  <2>9. SoloInv'
    BY <1>1, <1>3, <1>4, <2>1, <2>8, SoloStep
  <2> QED
    BY <1>3, <1>5, <1>8, <2>2, <2>3, <2>5, <2>7, <2>9 DEF Inv, ApartInv
<1>13. CASE RemoveLock(p)
  <2> USE <1>13 DEF RemoveLock
  <2>1. /\ pc[p] = "rmdir_lock" /\ to \in {"done", "failed"} /\ p \notin agents \cap alive
        /\ IF Vacant(path) THEN path' = NoDir /\ to = "done" ELSE path' = path /\ to = "failed"
        /\ pc[p] \notin Holding /\ to \notin Holding
    BY <1>2 DEF Holding, Inv, NamesInv
  <2>2. StateInv'
    BY <1>4, <2>1, AllWritten DEF Inv, StateInv, Goes, Written
  <2>3. NamesInv'
    BY <1>1, <1>7, <2>1, <2>2, AllWritten
  <2>4. CASE Vacant(path)
    <3>1. path.agents = {} /\ path.owner \in {None, Missing} /\ NoDir.owner = Missing /\ NoDir.agents = {}
      BY <2>4 DEF Vacant, NoDir, Empty
    <3>2. apart => HolderInv' /\ AgentsInv'
      BY <1>2, <1>3, <1>4, <2>1, <2>4, <3>1, ProcAssumption DEF Inv, ApartInv, HolderInv,
         AgentsInv, Aside
    <3>3. Solo(p) => Solo(p)'
      BY <1>2, <1>4, <2>1, <2>4 DEF Solo, Aside, Recovering, Releasing, Finalizing
    <3>4. SoloInv'
      BY <1>1, <1>3, <1>4, <2>1, <2>4, <3>3, SoloStep
    <3> QED
      BY <1>3, <1>5, <1>8, <2>2, <2>3, <3>2, <3>4 DEF Inv, ApartInv
  <2>5. CASE ~Vacant(path)
    <3>1. apart => HolderInv' /\ AgentsInv'
      BY <1>2, <1>3, <1>4, <2>1, <2>5 DEF Inv, ApartInv, HolderInv, AgentsInv, Aside
    <3>2. ~Solo(p)
      BY <2>1, <2>5 DEF Solo
    <3>3. SoloInv'
      BY <1>1, <1>3, <1>4, <3>2, SoloStep
    <3> QED
      BY <1>3, <1>5, <1>8, <2>2, <2>3, <3>1, <3>3 DEF Inv, ApartInv
  <2> QED
    BY <2>4, <2>5
<1> QED
  BY <1>9, <1>10, <1>11, <1>12, <1>13

(* No lock, no claim, no agent.                                                  *)
LEMMA InitInv == Init => Inv
<1> SUFFICES ASSUME Init PROVE Inv
  OBVIOUS
<1> USE ProcAssumption DEF Init
<1>1. StateInv
  BY DEF StateInv, Directories, Named, NoDir, Steps, Trying, Seeking
<1>2. NamesInv /\ SoloInv
  BY DEF NamesInv, Follows, NoDir, SoloInv, Missing
<1>3. ApartInv
  BY DEF ApartInv, One, StaleInv, HolderInv, AgentsInv, Aside, Holding, Recovering, Finalizing
<1> QED
  BY <1>1, <1>2, <1>3 DEF Inv

(* Every step of every process keeps what is said of the lock.                   *)
LEMMA NextInv == Inv /\ [Next]_vars => Inv'
<1> SUFFICES ASSUME Inv, [Next]_vars PROVE Inv'
  OBVIOUS
<1>1. CASE UNCHANGED vars
  BY <1>1 DEF vars, files, world, history, locals, Inv, StateInv, NamesInv, Follows, ApartInv,
     One, StaleInv, HolderInv,
     AgentsInv, Aside, SoloInv, Solo
<1>2. ASSUME NEW p \in Proc, Acquire(p) \/ Recover(p) \/ Review(p) \/ AgentExits(p) \/ Die(p) \/ Exit(p)
      PROVE  Inv'
  <2>1. CASE Acquire(p)
    BY <2>1, SettleStep, TryStep, PublishStep DEF Acquire
  <2>2. CASE Recover(p)
    BY <2>2, TryStep, ClaimStep, TakeoverStep, MoveStep DEF Recover
  <2>3. CASE Review(p)
    BY <2>3, LeaveStep, ReviewStep DEF Review
  <2> QED
    BY <1>2, <2>1, <2>2, <2>3, SettleStep
<1> QED
  BY <1>1, <1>2 DEF Next

(* Whatever steps the processes take and whichever die: directories and claims    *)
(* name processes that have got as far as to write them, locks that were kept     *)
(* apart keep track of every agent, and who runs alone finds what it expects.     *)
THEOREM ReviewLockInvariance == Spec => []Inv
<1> QED
  BY InitInv, NextInv, PTL DEF Spec

(* ReviewRunLock.try_acquire, with nobody else around: whatever killed processes   *)
(* left at the lock, at the claim and at the stale paths, it is not refused.      *)
THEOREM TheOnlyOneAcquires == Spec => []AloneAcquires
<1>1. Inv => AloneAcquires
  BY DEF Inv, SoloInv, AloneAcquires
<1> QED
  BY <1>1, ReviewLockInvariance, PTL

(* ReviewAbandonedAgentCleanup, as long as the locks kept the processes apart: a     *)
(* process that is alone when it holds the lock leaves no agent of a killed one     *)
(* running, for every takeover on the way has been through the lock it moved aside. *)
THEOREM NoOrphanAtStart == Spec => []OrphansTerminated
<1>1. ASSUME Inv, apart, NEW p \in alive \ contended, pc[p] = "held"
      PROVE  (registered \cap agents) \subseteq alive
  <2>1. Aside = {} /\ path.agents \subseteq {p}
    BY <1>1 DEF Inv, SoloInv, Solo, ApartInv, HolderInv, Holding
  <2> QED
    BY <1>1, <2>1 DEF Inv, ApartInv, AgentsInv
<1>2. Inv => OrphansTerminated
  BY <1>1 DEF OrphansTerminated
<1> QED
  BY <1>2, ReviewLockInvariance, PTL

(* terminate_registered_agents, as long as the locks kept the processes apart: the   *)
(* agents a takeover terminates are those of the dead, never that of a live run.    *)
THEOREM TheLivingAreKept == Spec => LiveAgentsKept
<1>1. ASSUME Inv, apart, NEW p \in alive, TerminateAgents(p)
      PROVE  (agents \ agents') \cap alive = {}
  <2>1. /\ agents' = agents \ stale[target[p]].agents /\ target[p] \in Proc
        /\ stale[target[p]].owner \notin alive
    BY <1>1 DEF TerminateAgents, Moves, Inv, StateInv, ApartInv, StaleInv
  <2>2. \A a \in agents \cap alive : a \in stale[target[p]].agents => stale[target[p]].owner = a
    BY <1>1, <2>1 DEF Inv, ApartInv, AgentsInv, Aside, NoDir
  <2> QED
    BY <2>1, <2>2
<1>2. Inv /\ [Next]_vars =>
        [apart => \A p \in alive : TerminateAgents(p) => (agents \ agents') \cap alive = {}]_vars
  BY <1>1
<1> QED
  BY <1>2, ReviewLockInvariance, PTL DEF Spec, LiveAgentsKept
=============================================================================
