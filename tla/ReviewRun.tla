------------------------------ MODULE ReviewRun ------------------------------
(***************************************************************************)
(* The architecture review of a project, over several runs of the linter:    *)
(* CliArchitectureReview decides whether a review is due, TaskReviewAgent      *)
(* runs the selected stages at the same time, each a dialogue with an agent   *)
(* that writes review notes, and the run ends with a completion marker, a     *)
(* failure marker or open notes; TaskReview reads those back and the exit      *)
(* status follows.  Meanwhile the project is edited and notes are resolved,   *)
(* and a run may be killed at any step.                                       *)
(*                                                                          *)
(* Runs follow each other here: ReviewRunLock has the lock under contention.  *)
(* A stage has at most one note file, named after its prefix.  A source       *)
(* identity is the content it is the digest of, and is taken in one step.     *)
(***************************************************************************)
EXTENDS Naturals, FiniteSets

CONSTANTS Stage,    \* the five stages of a review
          Source,   \* contents of the project
          MaxRuns,  \* bound: runs of the linter
          MaxEdits  \* bound: edits of the project

Unreviewed == "none"

ASSUME StageAssumption == Stage # {} /\ IsFiniteSet(Stage)
ASSUME SourceAssumption == Source # {} /\ Unreviewed \notin Source
ASSUME BoundAssumption == MaxRuns \in Nat /\ MaxEdits \in Nat

VARIABLES
  source,     \* the content of the project
  failure,    \* the failure marker exists
  completion, \* the identity in the completion marker, Unreviewed without a marker
  note,       \* the note file of each stage in the review directory
  archive,    \* the stages with a note in the resolved-review directory
  phase,      \* the step of the run
  options,    \* the command line of the run
  violations, \* of the run: none, minor ones only, or one that fails the lint
  required,   \* the run found that a review is due
  identity,   \* the identity taken before the stages start
  step,       \* the step of each stage of the run
  passed,     \* the stages whose result names the provider
  orphans,    \* the stages with an agent left running by a killed run
  provided,   \* the result of the review names the provider
  exit,       \* the exit status of the run, "none" until it is known
  verdict,    \* history: the content the last review to reset the markers certified
  asked,      \* history: the content when the run decided on a review
  runs, edits \* counters for the bounds

markers == <<failure, completion>>
project == <<source, edits>>
notes == <<note, archive>>
run == <<phase, options, violations, required, identity, provided, exit, runs>>
stages == <<step, passed, orphans>>
decisions == <<verdict, asked>>
reviewVars == <<project, markers, notes, run, stages, decisions>>

Options == [agent : BOOLEAN, cleanup : BOOLEAN, selected : (SUBSET Stage) \ {{}}]

NoteTexts == {"absent", "open", "badsize", "resolved"}
Found == {"none", "minor", "failing"}
Dialogues == {"initial", "retry", "size1", "size2", "cleanup"}
Active == Dialogues \cup {"stop"}

NoOptions == [agent |-> FALSE, cleanup |-> FALSE, selected |-> Stage]
NoSteps == [s \in Stage |-> "idle"]

ReviewInit ==
  /\ source \in Source /\ edits = 0
  /\ failure = FALSE /\ completion = Unreviewed
  /\ note = [s \in Stage |-> "absent"] /\ archive = {}
  /\ phase = "idle" /\ runs = 0 /\ violations = "none" /\ required = FALSE
  /\ options = NoOptions /\ identity = Unreviewed /\ provided = FALSE /\ exit = "none"
  /\ step = NoSteps /\ passed = {} /\ orphans = {} /\ verdict = Unreviewed /\ asked = Unreviewed

(* The process of the run is gone, and what it kept in memory with it. *)
Ends ==
  /\ phase' = "idle" /\ options' = NoOptions /\ violations' = "none" /\ required' = FALSE
  /\ identity' = Unreviewed /\ provided' = FALSE /\ exit' = "none" /\ asked' = Unreviewed
  /\ step' = NoSteps /\ passed' = {} /\ UNCHANGED <<runs, verdict>>
-----------------------------------------------------------------------------
(* What TaskReview reads from the review directory. *)
OpenNotes == {s \in Stage : note[s] \in {"open", "badsize"}}

Completed == /\ completion # Unreviewed /\ ~failure
             /\ completion = source
             /\ OpenNotes = {}

(* CliArchitectureReview.review_requested and review_ready. *)
Requested(o, force, found) == o.agent /\ (force \/ (found = "none" /\ ~Completed))

(* A run of the linter; with findings present it reviews only when forced.      *)
(* Taking the review lock from a killed run terminates the agents it registered. *)
StartRun(o, force, found) ==
  /\ phase = "idle" /\ runs < MaxRuns /\ runs' = runs + 1
  /\ options' = o /\ violations' = found /\ required' = Requested(o, force, found)
  /\ phase' = IF Requested(o, force, found) /\ (OpenNotes = {} \/ force) THEN "reset_failure" ELSE "status"
  /\ identity' = Unreviewed /\ provided' = FALSE /\ exit' = "none" /\ asked' = source
  /\ orphans' \in IF Requested(o, force, found) THEN SUBSET orphans ELSE {orphans}
  /\ UNCHANGED <<project, markers, notes, step, passed, verdict>>

(* review_documents.reset: two files, one after the other. *)
ResetFailure ==
  /\ phase = "reset_failure" /\ phase' = "reset_completion" /\ failure' = FALSE
  /\ UNCHANGED <<project, completion, notes, options, violations, required, identity, provided,
                 exit, runs, stages, decisions>>

ResetCompletion ==
  /\ phase = "reset_completion" /\ phase' = "start"
  /\ completion' = Unreviewed /\ verdict' = Unreviewed
  /\ UNCHANGED <<project, failure, notes, options, violations, required, identity, provided,
                 exit, runs, stages, asked>>

StartStages ==
  /\ phase = "start" /\ phase' = "stages" /\ identity' = source
  /\ step' = [s \in Stage |-> IF s \in options.selected THEN "initial" ELSE "idle"]
  /\ passed' = {}
  /\ UNCHANGED <<project, markers, notes, options, violations, required, provided, exit, runs,
                 orphans, decisions>>
-----------------------------------------------------------------------------
(* write_failure may itself fail: the result is a failure all the same. *)
WriteFailure == failure' \in {failure, TRUE}

(* The agent of a stage has the files of its prefix: it adds, rewrites,        *)
(* resolves or deletes its note while its dialogue runs, or as an orphan.       *)
Writes(s) ==
  /\ s \in orphans \/ step[s] \in Dialogues
  /\ \E text \in NoteTexts : note' = [note EXCEPT ![s] = text]
  /\ UNCHANGED <<project, markers, archive, run, stages, decisions>>

(* The dialogue that follows one that went well: a second initial dialogue     *)
(* when there are no notes, up to two about the size of the notes, cleanup     *)
(* when it was asked for, then the stop hook.                                   *)
Finish(s) == IF options.cleanup /\ s \in OpenNotes THEN "cleanup" ELSE "stop"

SizedOr(s, dialogue) == IF note[s] = "badsize" THEN dialogue ELSE Finish(s)

(* Feedback about the size of a note without a last attempt. *)
FollowingForever(s) ==
  CASE step[s] = "initial" -> IF s \in OpenNotes THEN SizedOr(s, "size1") ELSE "retry"
    [] step[s] = "retry"   -> SizedOr(s, "size1")
    [] step[s] = "size1"   -> SizedOr(s, "size2")
    [] step[s] = "size2"   -> SizedOr(s, "size1")
    [] step[s] = "cleanup" -> "stop"

Following(s) ==
  CASE step[s] = "initial" -> IF s \in OpenNotes THEN SizedOr(s, "size1") ELSE "retry"
    [] step[s] = "retry"   -> SizedOr(s, "size1")
    [] step[s] = "size1"   -> SizedOr(s, "size2")
    [] step[s] = "size2"   -> Finish(s)
    [] step[s] = "cleanup" -> "stop"

DialogueEnds(s) ==
  /\ phase = "stages" /\ step[s] \in Dialogues
  /\ step' = [step EXCEPT ![s] = Following(s)]
  /\ UNCHANGED <<project, markers, notes, run, passed, orphans, decisions>>

(* A hook refuses, the agent exits with an error, or a call throws: whichever  *)
(* handler records it, the stage ends without a provider.                      *)
StageFails(s) ==
  /\ phase = "stages" /\ step[s] \in Active
  /\ step' = [step EXCEPT ![s] = "idle"] /\ WriteFailure
  /\ UNCHANGED <<project, completion, notes, run, passed, orphans, decisions>>

StagePasses(s) ==
  /\ phase = "stages" /\ step[s] = "stop"
  /\ step' = [step EXCEPT ![s] = "idle"] /\ passed' = passed \cup {s}
  /\ UNCHANGED <<project, markers, notes, run, orphans, decisions>>

(* Promise.allSettled: every stage is awaited. *)
Settled == \A s \in Stage : step[s] = "idle"

(* One stage that passed speaks for all. *)
StagesSettleByAny ==
  /\ phase = "stages" /\ Settled
  /\ IF passed # {}
     THEN phase' = "certify" /\ UNCHANGED provided
     ELSE phase' = "status" /\ provided' = FALSE
  /\ UNCHANGED <<project, markers, notes, options, violations, required, identity, exit, runs,
                 stages, decisions>>

(* One failure fails the run. *)
StagesSettle ==
  /\ phase = "stages" /\ Settled
  /\ IF options.selected \subseteq passed
     THEN phase' = "certify" /\ UNCHANGED provided
     ELSE phase' = "status" /\ provided' = FALSE
  /\ UNCHANGED <<project, markers, notes, options, violations, required, identity, exit, runs,
                 stages, decisions>>

(* complete_review *)
EndsUncertified ==
  /\ phase = "certify" /\ (OpenNotes # {} \/ options.selected # Stage)
  /\ phase' = "status" /\ provided' = TRUE
  /\ UNCHANGED <<project, markers, notes, options, violations, required, identity, exit, runs,
                 stages, decisions>>

SourceChanged ==
  /\ phase = "certify" /\ OpenNotes = {} /\ options.selected = Stage /\ source # identity
  /\ phase' = "status" /\ failure' = TRUE /\ provided' = FALSE
  /\ UNCHANGED <<project, completion, notes, options, violations, required, identity, exit, runs,
                 stages, decisions>>

(* A certificate for a review of some stages, and one without the identity. *)
CertifySelected ==
  /\ phase = "certify" /\ OpenNotes = {} /\ source = identity
  /\ phase' = "status" /\ completion' = identity /\ provided' = TRUE
  /\ verdict' = IF passed = Stage THEN source ELSE Unreviewed
  /\ UNCHANGED <<project, failure, notes, options, violations, required, identity, exit, runs, stages,
                 asked>>

Certify ==
  /\ phase = "certify" /\ OpenNotes = {} /\ options.selected = Stage /\ source = identity
  /\ phase' = "status" /\ completion' = identity /\ provided' = TRUE
  /\ verdict' = IF passed = Stage THEN source ELSE Unreviewed
  /\ UNCHANGED <<project, failure, notes, options, violations, required, identity, exit, runs, stages,
                 asked>>

-----------------------------------------------------------------------------
(* An exit status that takes an answer of the provider for a completed review. *)
StatusWithoutCompletion ==
  /\ phase = "status" /\ phase' = "report"
  /\ LET mustFail == OpenNotes # {} \/ (required /\ ~provided)
     IN exit' = IF violations = "failing" \/ mustFail THEN "error" ELSE "ok"
  /\ UNCHANGED <<project, markers, notes, options, violations, required, identity, provided, runs,
                 stages, decisions>>

(* CliArchitectureReview.status and must_fail, then the exit code. *)
Status ==
  /\ phase = "status" /\ phase' = "report"
  /\ LET active == OpenNotes # {}
         failed == required /\ ~provided
         mustFail == active \/ failed \/ (required /\ ~Completed)
     IN exit' = IF violations = "failing" \/ mustFail THEN "error" ELSE "ok"
  /\ UNCHANGED <<project, markers, notes, options, violations, required, identity, provided, runs,
                 stages, decisions>>

(* archive_resolved_reviews, while the results are reported; an older note of   *)
(* the same name in the archive keeps its place.                                *)
Report ==
  /\ phase = "report" /\ Ends
  /\ LET moved == {s \in Stage \ archive : note[s] = "resolved"}
     IN /\ note' = [s \in Stage |-> IF s \in moved THEN "absent" ELSE note[s]]
        /\ archive' = archive \cup moved
  /\ UNCHANGED <<project, markers, orphans>>

(* The run is killed, or an error is thrown out of it; its agents live on. *)
Crash ==
  /\ phase # "idle" /\ Ends
  /\ orphans' = orphans \cup {s \in Stage : step[s] \in Dialogues}
  /\ UNCHANGED <<project, markers, notes>>

(* The user edits the project, or resolves a note, at any time. *)
Edit ==
  /\ edits < MaxEdits /\ edits' = edits + 1 /\ source' \in Source \ {source}
  /\ UNCHANGED <<markers, notes, run, stages, decisions>>

ResolveNote(s) ==
  /\ s \in OpenNotes /\ note' = [note EXCEPT ![s] = "resolved"]
  /\ UNCHANGED <<project, markers, archive, run, stages, decisions>>

StageSteps == \E s \in Stage : DialogueEnds(s) \/ StageFails(s) \/ StagePasses(s)
Advance == \/ ResetFailure \/ ResetCompletion \/ StartStages \/ StagesSettle
           \/ EndsUncertified \/ SourceChanged \/ Certify \/ Status \/ Report
Environment == Crash \/ Edit \/ \E s \in Stage : Writes(s) \/ ResolveNote(s)

ReviewNext == \/ Advance \/ StageSteps \/ Environment
        \/ \E o \in Options, force \in BOOLEAN, found \in Found : StartRun(o, force, found)

ReviewSpec == ReviewInit /\ [][ReviewNext]_reviewVars

(* Every dialogue settles (ReviewAgentProcess) and the run goes on after it. *)
FairReviewSpec == ReviewSpec /\ WF_reviewVars(Advance) /\ WF_reviewVars(StageSteps)
-----------------------------------------------------------------------------
(* "the lint command fails and records the reason instead of claiming that the  *)
(* review is complete": the project counts as reviewed only while its content    *)
(* is the one that the last review to start certified with every stage, whatever *)
(* partial, forced, failed or killed reviews came before or after.               *)
CompletedIsCertified == Completed => verdict = source

(* A run without violations that has an agent and exits with success leaves a    *)
(* reviewed project: what was last certified is the content it looked at.        *)
SuccessIsReviewed ==
  [][Status /\ options.agent /\ violations = "none" /\ exit' = "ok"
       => verdict \in {asked, source} /\ OpenNotes = {}]_reviewVars

(* A stage that failed makes its run fail, whatever the other stages do after.   *)
FailedStageFailsRun ==
  (phase = "report" /\ identity # Unreviewed /\ ~(options.selected \subseteq passed)) => exit = "error"

(* Every review that starts comes to an end, however its dialogues go. *)
ReviewEnds == (phase = "stages") ~> (phase = "idle")
=============================================================================
