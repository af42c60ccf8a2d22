----------------------------- MODULE PythonWorker -----------------------------
(***************************************************************************)
(* The Python process that parses for the linter: PythonAstWorker with its    *)
(* transport, the leases of PythonAstWorkerSession, the batches of            *)
(* PythonAstData and the loop of the bridge's run_worker.                     *)
(*                                                                          *)
(* The client is synchronous: one session at a time runs a stretch (an         *)
(* analysis or a close) to its end, while the Python process goes on at its    *)
(* own pace.  A frame is the id of its batch; it is written and read whole,     *)
(* or its deadline passes.  The sessions have equal arguments, so that they     *)
(* share one worker.                                                         *)
(***************************************************************************)
EXTENDS Integers, Sequences, FiniteSets

CONSTANTS Session,  \* the sessions of the host process
          None,     \* no session
          MaxBatch  \* bound: batches sent

ASSUME SessionAssumption == IsFiniteSet(Session) /\ None \notin Session
ASSUME BatchAssumption == MaxBatch \in Nat

NoBatch == 0
Exit == -1

VARIABLES
  host,      \* the Node process: "up", "leaving" (its exit handler runs), "gone"
  state,     \* per session: "new", "open", "closed"
  leases,    \* the counter of the worker's entry, 0 without an entry
  thread,    \* the session whose stretch is running
  pc,        \* the next step of the stretch
  batch,     \* the batch of the stretch
  answer,    \* the id in the response it has read
  lastBatch, \* the last batch id given out
  pending,   \* per session, its split batches that were not completed
  child,     \* the Python process, "reaped" once the host has seen its end
  requests,  \* frames on their way to it
  responses, \* frames on their way back, the transport's buffer included
  used       \* history: <<requested, answered>> per response that was accepted

client == <<thread, pc, batch, answer>>
sessions == <<state, leases>>
worker == <<child, requests, responses>>
vars == <<host, sessions, client, lastBatch, pending, worker, used>>

Init ==
  /\ host = "up" /\ state = [s \in Session |-> "new"] /\ leases = 0
  /\ thread = None /\ pc = "idle" /\ batch = NoBatch /\ answer = NoBatch
  /\ lastBatch = NoBatch /\ pending = [s \in Session |-> {}]
  /\ child = "none" /\ requests = <<>> /\ responses = <<>> /\ used = {}

Free == host = "up" /\ pc = "idle"

Moves(from, to) == pc = from /\ pc' = to

(* The stretch is over: it returns or throws. *)
Returns == thread' = None /\ pc' = "idle" /\ batch' = NoBatch /\ answer' = NoBatch

cleanup_resources == child' = "none" /\ requests' = <<>> /\ responses' = <<>>

(* start_persistent and write_frame: the worker is started unless there is one. *)
Sends(frame) ==
  /\ child \in {"none", "running", "stalled"}
  /\ child' = IF child = "none" THEN "running" ELSE child
  /\ requests' = Append(requests, frame) /\ UNCHANGED responses

(* Nobody reads the pipe, or its descriptor is closed, or the deadline passes. *)
SendFails == cleanup_resources

Receives(frame) ==
  /\ responses # <<>> /\ frame = Head(responses) /\ responses' = Tail(responses)
  /\ UNCHANGED <<child, requests>>

(* A worker that is kept after a deadline. *)
ReceiveFailsKeepsWorker == responses = <<>> /\ UNCHANGED worker

(* A read without a deadline. *)
ReceiveFailsAtEndOnly == responses = <<>> /\ child = "dead" /\ cleanup_resources

(* The deadline passes, or the worker is gone. *)
ReceiveFails == responses = <<>> /\ cleanup_resources
-----------------------------------------------------------------------------
(* PythonAstWorkerSession: leases. *)
Open(s) ==
  /\ Free /\ state[s] = "new"
  /\ state' = [state EXCEPT ![s] = "open"] /\ leases' = leases + 1
  /\ UNCHANGED <<host, client, lastBatch, pending, worker, used>>

(* A close that is not idempotent. *)
CloseAgain(s) ==
  /\ Free /\ state[s] # "new" /\ state' = [state EXCEPT ![s] = "closed"] /\ leases' = leases - 1
  /\ UNCHANGED <<host, client, lastBatch, pending, worker, used>>

(* A close that takes the worker down whoever else has a lease. *)
CloseForAll(s) ==
  /\ Free /\ state[s] = "open"
  /\ state' = [state EXCEPT ![s] = "closed"] /\ leases' = leases - 1
  /\ IF child # "none"
     THEN Moves("idle", "exit_write") /\ thread' = s /\ UNCHANGED <<batch, answer>>
     ELSE UNCHANGED client
  /\ UNCHANGED <<host, lastBatch, pending, worker, used>>

Close(s) ==
  /\ Free /\ state[s] = "open"
  /\ state' = [state EXCEPT ![s] = "closed"] /\ leases' = leases - 1
  /\ IF leases' = 0 /\ child # "none"
     THEN Moves("idle", "exit_write") /\ thread' = s /\ UNCHANGED <<batch, answer>>
     ELSE UNCHANGED client
  /\ UNCHANGED <<host, lastBatch, pending, worker, used>>

(* The handler of the process's "exit" event closes the workers that are left. *)
Leave ==
  /\ Free
  /\ IF leases > 0 /\ child # "none"
     THEN host' = "leaving" /\ Moves("idle", "exit_write") /\ UNCHANGED <<thread, batch, answer>>
     ELSE host' = "gone" /\ UNCHANGED client
  /\ UNCHANGED <<sessions, lastBatch, pending, worker, used>>
-----------------------------------------------------------------------------
(* PythonAstWorker.close *)
Closed == Returns /\ host' = IF host = "leaving" THEN "gone" ELSE host

WriteExit ==
  /\ \/ Moves("exit_write", "exit_read") /\ Sends(Exit) /\ UNCHANGED <<host, thread, batch, answer>>
     \/ pc = "exit_write" /\ SendFails /\ Closed
  /\ UNCHANGED <<sessions, lastBatch, pending, used>>

(* Acknowledged, not acknowledged or not answered: the worker is removed. *)
ReadExit ==
  /\ pc = "exit_read" /\ cleanup_resources /\ Closed
  /\ UNCHANGED <<sessions, lastBatch, pending, used>>
-----------------------------------------------------------------------------
(* lint_context: a split batch around the work on the TypeScript files. *)
BeginAnalysis(s) ==
  /\ Free /\ state[s] = "open" /\ thread' = s
  /\ \/ lastBatch < MaxBatch /\ Moves("idle", "start") /\ lastBatch' = lastBatch + 1 /\ batch' = lastBatch'
     \/ Moves("idle", "parse") /\ UNCHANGED <<lastBatch, batch>>
  /\ UNCHANGED <<host, sessions, answer, pending, worker, used>>

StartBatch ==
  /\ \/ /\ Moves("start", "parse") /\ Sends(batch) /\ UNCHANGED <<thread, batch, answer>>
        /\ pending' = [pending EXCEPT ![thread] = @ \cup {batch}]
     \/ pc = "start" /\ SendFails /\ Returns /\ UNCHANGED pending
  /\ UNCHANGED <<host, sessions, lastBatch, used>>

(* The work may throw: its batch stays in the pipe and among the pending ones. *)
ParseTypeScript ==
  /\ \/ Moves("parse", IF batch = NoBatch THEN "rules" ELSE "complete") /\ UNCHANGED <<thread, batch, answer>>
     \/ pc = "parse" /\ Returns
  /\ UNCHANGED <<host, sessions, lastBatch, pending, worker, used>>

Accepts(from) ==
  \/ Moves(from, "validate") /\ Receives(answer') /\ UNCHANGED <<thread, batch>>
  \/ pc = from /\ ReceiveFails /\ Returns

CompleteBatch ==
  /\ Accepts("complete") /\ pending' = [pending EXCEPT ![thread] = @ \ {batch}]
  /\ UNCHANGED <<host, sessions, lastBatch, used>>

(* A response that is taken for the one asked for. *)
ValidateAny ==
  /\ Moves("validate", "rules") /\ used' = used \cup {<<batch, answer>>}
  /\ batch' = NoBatch /\ answer' = NoBatch
  /\ UNCHANGED <<host, sessions, thread, lastBatch, pending, worker>>

(* validated_batch_results: another id than the one asked for is an error, which *)
(* the worker does not hear of.                                                 *)
Validate ==
  /\ \/ /\ Moves("validate", "rules") /\ answer = batch /\ used' = used \cup {<<batch, answer>>}
        /\ batch' = NoBatch /\ answer' = NoBatch /\ UNCHANGED thread
     \/ pc = "validate" /\ answer # batch /\ Returns /\ UNCHANGED used
  /\ UNCHANGED <<host, sessions, lastBatch, pending, worker>>

(* batch_ast: a whole batch, for texts that no cache has. *)
BeginBatch ==
  /\ lastBatch < MaxBatch /\ Moves("rules", "write") /\ lastBatch' = lastBatch + 1 /\ batch' = lastBatch'
  /\ UNCHANGED <<host, sessions, thread, answer, pending, worker, used>>

WriteBatch ==
  /\ \/ Moves("write", "read") /\ Sends(batch) /\ UNCHANGED <<thread, batch, answer>>
     \/ pc = "write" /\ SendFails /\ Returns
  /\ UNCHANGED <<host, sessions, lastBatch, pending, used>>

ReadBatch ==
  /\ Accepts("read") /\ UNCHANGED <<host, sessions, lastBatch, pending, used>>

EndAnalysis ==
  /\ pc = "rules" /\ Returns
  /\ UNCHANGED <<host, sessions, lastBatch, pending, worker, used>>
-----------------------------------------------------------------------------
(* run_worker: one frame at a time, until the exit command or the end of input. *)
WorkerAnswers ==
  /\ host # "gone" /\ child = "running" /\ requests # <<>>
  /\ child' = IF Head(requests) = Exit THEN "dead" ELSE child
  /\ requests' = Tail(requests) /\ responses' = Append(responses, Head(requests))
  /\ UNCHANGED <<host, sessions, client, lastBatch, pending, used>>

(* A loop that goes on at the end of its input. *)
WorkerInputIgnored == host = "gone" /\ child = "running" /\ UNCHANGED vars

(* With the host gone, the pipes are closed on the other side. *)
WorkerInputEnds ==
  /\ host = "gone" /\ child = "running"
  /\ child' = "dead" /\ requests' = <<>> /\ UNCHANGED responses
  /\ UNCHANGED <<host, sessions, client, lastBatch, pending, used>>

WorkerDies ==
  /\ child \in {"running", "stalled"} /\ child' = "dead" /\ requests' = <<>>
  /\ UNCHANGED <<host, sessions, client, lastBatch, pending, responses, used>>

WorkerStalls ==
  /\ host # "gone" /\ child = "running" /\ child' = "stalled"
  /\ UNCHANGED <<host, sessions, client, lastBatch, pending, requests, responses, used>>

(* Between two stretches, the event loop hears of the end of the child and closes *)
(* its pipes, whose descriptors the transport keeps.                              *)
Reap ==
  /\ Free /\ child = "dead" /\ child' = "reaped" /\ responses' = <<>>
  /\ UNCHANGED <<host, sessions, client, lastBatch, pending, requests, used>>

Killed ==
  /\ host # "gone" /\ host' = "gone" /\ Returns
  /\ UNCHANGED <<sessions, lastBatch, pending, worker, used>>
-----------------------------------------------------------------------------
Stretch ==
  /\ host # "gone"
  /\ \/ WriteExit \/ ReadExit \/ StartBatch \/ ParseTypeScript \/ CompleteBatch
     \/ Validate \/ BeginBatch \/ WriteBatch \/ ReadBatch \/ EndAnalysis

Environment == WorkerDies \/ WorkerStalls \/ Reap \/ Killed

Next ==
  \/ \E s \in Session : Open(s) \/ Close(s) \/ BeginAnalysis(s)
  \/ Leave \/ Stretch \/ WorkerAnswers \/ WorkerInputEnds \/ Environment

(* The host is not starved, no call of it waits beyond its deadline, and a Python *)
(* process whose input has ended reads that end.                                  *)
Fairness == WF_vars(Stretch) /\ WF_vars(WorkerInputEnds)

Spec == Init /\ [][Next]_vars /\ Fairness
-----------------------------------------------------------------------------
Steps == {"idle", "start", "parse", "complete", "validate", "rules", "write", "read", "exit_write", "exit_read"}
Frame == 1..MaxBatch \cup {Exit}

TypeOK ==
  /\ host \in {"up", "leaving", "gone"} /\ state \in [Session -> {"new", "open", "closed"}]
  /\ leases \in Nat /\ thread \in Session \cup {None} /\ pc \in Steps
  /\ batch \in 0..MaxBatch /\ answer \in 0..MaxBatch /\ lastBatch \in 0..MaxBatch
  /\ pending \in [Session -> SUBSET (1..MaxBatch)]
  /\ child \in {"none", "running", "stalled", "dead", "reaped"}
  /\ requests \in Seq(Frame) /\ responses \in Seq(Frame)
  /\ used \subseteq (0..MaxBatch) \X (0..MaxBatch)

(* An analysis works with the syntax trees of the texts it has sent: a response   *)
(* that is left over from an analysis that gave up, of this or of another         *)
(* session, never passes for its own.                                            *)
AnswersAreOwn == \A u \in used : u[1] = u[2]

(* The Python process does not outlive the last lease, whatever has failed before  *)
(* and during the close; and it is not asked to exit while a session has a lease.   *)
WorkerFollowsLeases ==
  /\ Free /\ leases = 0 => child = "none"
  /\ host = "up" /\ pc \in {"exit_write", "exit_read"} => \A s \in Session : state[s] # "open"

(* Client and worker are in step: unless an analysis has given up between the two  *)
(* halves of a batch, nothing is in the pipes when no call is running, even after   *)
(* calls that ran into a deadline or into the death of the worker.                  *)
InStep ==
  pc = "idle" /\ host = "up" /\ (\A s \in Session : pending[s] = {})
    => requests = <<>> /\ responses = <<>>

(* Every call comes back: a worker that stalls, dies or answers something else      *)
(* does not hang the linter.                                                      *)
CallsReturn == pc # "idle" ~> pc = "idle"

(* A host that is killed leaves no Python process waiting for requests.            *)
NoOrphanWaits == host = "gone" ~> child # "running"
=============================================================================
