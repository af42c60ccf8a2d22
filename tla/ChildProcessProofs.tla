------------------------- MODULE ChildProcessProofs -------------------------
(***************************************************************************)
(* Proofs about the two kinds of child process: PythonWorker, for any finite *)
(* set of sessions and any number of batches, who holds a lease and what is *)
(* in the pipes at each step of a call; and ReviewAgentProcess, for any set *)
(* of agents, what a settled agent process means.                          *)
(***************************************************************************)
EXTENDS PythonWorker, ReviewAgentProcess, FiniteSetTheorems, TLAPS

OpenSessions == {s \in Session : state[s] = "open"}

Exiting == pc \in {"exit_write", "exit_read"}

(* The counter of the entry counts the open sessions; a stretch is run by one of   *)
(* them, unless it closes the worker of none.                                     *)
LeaseInv ==
  /\ leases = Cardinality(OpenSessions)
  /\ host = "leaving" => Exiting
  /\ host = "up" /\ Exiting => OpenSessions = {}
  /\ host = "up" /\ pc # "idle" /\ ~Exiting => thread \in OpenSessions
  /\ host = "up" /\ pc = "idle" /\ OpenSessions = {} => child = "none"

(* The acknowledgement of the exit is never in the pipe for a batch to read. *)
FrameInv ==
  /\ host # "gone" /\ pc # "exit_read" => requests \in Seq(1..MaxBatch) /\ responses \in Seq(1..MaxBatch)
  /\ host = "gone" => pc = "idle"
  /\ pc = "idle" => batch = NoBatch

(* Between the two halves of a split batch. *)
Halfway == pc \in {"parse", "complete"} /\ batch # NoBatch

(* Some analysis has given up between the halves of its batch. *)
Dropped == \E s \in Session : \E b \in pending[s] : ~(Halfway /\ s = thread /\ b = batch)

Expecting == Halfway \/ pc \in {"complete", "read", "exit_read"}

(* A call that expects a response finds at most its own, the others find none; a   *)
(* batch is pending between its halves.                                           *)
StepInv ==
  /\ host # "gone" /\ ~Dropped => Len(requests) + Len(responses) <= IF Expecting THEN 1 ELSE 0
  /\ Halfway => batch \in pending[thread]

(* A batch that is to be sent has an id, which no split batch had before. *)
BatchInv ==
  /\ pc \in {"start", "write"} => batch # NoBatch /\ batch = lastBatch
  /\ \A s \in Session : \A b \in pending[s] : b <= lastBatch /\ (pc = "start" => b # lastBatch)

Inv == TypeOK /\ LeaseInv /\ FrameInv /\ BatchInv /\ StepInv /\ AnswersAreOwn
-----------------------------------------------------------------------------
(* No session, no worker, nothing in the pipes.                                  *)
LEMMA InitInv == Init => Inv
<1> SUFFICES ASSUME Init PROVE Inv
  OBVIOUS
<1> USE DEF Init, NoBatch, Exit
<1>1. TypeOK
  BY BatchAssumption DEF TypeOK, Steps, Frame
<1>2. OpenSessions = {}
  BY DEF OpenSessions
<1>3. LeaseInv
  BY <1>2, FS_EmptySet DEF LeaseInv, Exiting
<1>4. FrameInv /\ BatchInv /\ AnswersAreOwn
  BY DEF FrameInv, BatchInv, AnswersAreOwn
<1>5. StepInv
  BY DEF StepInv, Expecting, Halfway
<1> QED
  BY <1>1, <1>3, <1>4, <1>5 DEF Inv

(* A frame that is sent is the last one in the pipe. *)
LEMMA SendsFrame ==
  ASSUME TypeOK, NEW frame \in Frame, Sends(frame)
  PROVE  /\ child' \in {"none", "running", "stalled", "dead", "reaped"}
         /\ requests' \in Seq(Frame) /\ responses' \in Seq(Frame)
         /\ Len(requests') = Len(requests) + 1 /\ Len(responses') = Len(responses)
         /\ frame \in 1..MaxBatch /\ requests \in Seq(1..MaxBatch) => requests' \in Seq(1..MaxBatch)
  BY DEF TypeOK, Sends

(* What is left of a pipe whose first frame is read.                             *)
LEMMA HeadAndTail ==
  ASSUME NEW T, NEW q \in Seq(T), q # <<>>
  PROVE  Head(q) \in T /\ Tail(q) \in Seq(T) /\ Len(q) > 0 /\ Len(Tail(q)) = Len(q) - 1
  OBVIOUS

(* A frame that is received was in the pipe. *)
LEMMA ReceivesFrame ==
  ASSUME TypeOK, NEW frame, Receives(frame)
  PROVE  /\ frame \in Frame /\ requests' = requests /\ child' = child
         /\ responses' \in Seq(Frame) /\ Len(responses) > 0 /\ Len(responses') = Len(responses) - 1
         /\ responses \in Seq(1..MaxBatch) => frame \in 1..MaxBatch /\ responses' \in Seq(1..MaxBatch)
<1>1. responses \in Seq(Frame) /\ responses # <<>> /\ frame = Head(responses) /\ responses' = Tail(responses)
      /\ requests' = requests /\ child' = child
  BY DEF TypeOK, Receives
<1>2. Len(responses) > 0 /\ Len(responses') = Len(responses) - 1 /\ responses' \in Seq(Frame) /\ frame \in Frame
  BY <1>1, HeadAndTail
<1>3. ASSUME responses \in Seq(1..MaxBatch)
      PROVE  frame \in 1..MaxBatch /\ responses' \in Seq(1..MaxBatch)
  BY <1>1, <1>3, HeadAndTail
<1> QED
  BY <1>1, <1>2, <1>3

(* After a cleanup there is neither a worker nor a pipe. *)
LEMMA Cleaned ==
  ASSUME cleanup_resources
  PROVE  /\ child' = "none" /\ requests' \in Seq(Frame) /\ responses' \in Seq(Frame)
         /\ requests' \in Seq(1..MaxBatch) /\ responses' \in Seq(1..MaxBatch)
         /\ Len(requests') = 0 /\ Len(responses') = 0
  BY DEF cleanup_resources

(* A batch and the exit are frames.                                              *)
LEMMA FrameType == 1..MaxBatch \subseteq Frame /\ Exit \in Frame
  BY DEF Frame

(* Opening, closing, leaving: the leases follow the sessions. *)
LEMMA SessionStep ==
  ASSUME Inv, (\E s \in Session : Open(s) \/ Close(s)) \/ Leave
  PROVE  Inv'
<1> USE DEF Inv, NoBatch
<1>1. CASE \E s \in Session : Open(s)
  <2>1. PICK s \in Session : Open(s)
    BY <1>1
  <2>2. IsFiniteSet(OpenSessions) /\ s \notin OpenSessions /\ OpenSessions' = OpenSessions \cup {s}
    BY <2>1, SessionAssumption, FS_Subset DEF OpenSessions, Open, TypeOK
  <2>3. leases' = Cardinality(OpenSessions')
    BY <2>1, <2>2, FS_AddElement DEF LeaseInv, Open
  <2>4. TypeOK'
    BY <2>1 DEF TypeOK, Open, client, worker
  <2>5. LeaseInv'
    BY <2>1, <2>2, <2>3 DEF LeaseInv, Exiting, Open, client, worker, Free
  <2>6. FrameInv' /\ BatchInv' /\ StepInv' /\ AnswersAreOwn'
    BY <2>1 DEF FrameInv, BatchInv, StepInv, AnswersAreOwn, Dropped, Halfway, Expecting, Open, client, worker
  <2> QED
    BY <2>4, <2>5, <2>6
<1>2. CASE \E s \in Session : Close(s)
  <2>1. PICK s \in Session : Close(s)
    BY <1>2
  <2>2. IsFiniteSet(OpenSessions) /\ s \in OpenSessions /\ OpenSessions' = OpenSessions \ {s}
    BY <2>1, SessionAssumption, FS_Subset DEF OpenSessions, Close, TypeOK
  <2>3. leases' = Cardinality(OpenSessions') /\ leases' \in Nat /\ (leases' = 0 <=> OpenSessions' = {})
    <3>1. IsFiniteSet(OpenSessions') /\ Cardinality(OpenSessions') = Cardinality(OpenSessions) - 1
      BY <2>2, FS_RemoveElement
    <3>2. Cardinality(OpenSessions') \in Nat /\ (Cardinality(OpenSessions') = 0 <=> OpenSessions' = {})
      BY <3>1, FS_CardinalityType, FS_EmptySet
    <3> QED
      BY <2>1, <3>1, <3>2 DEF LeaseInv, Close
  <2>4. TypeOK'
    BY <2>1, <2>3 DEF TypeOK, Close, client, worker, Moves, Steps
  <2>5. LeaseInv'
    BY <2>1, <2>2, <2>3 DEF LeaseInv, Exiting, Close, client, worker, Free, Moves
  <2>6. FrameInv' /\ BatchInv' /\ StepInv' /\ AnswersAreOwn'
    BY <2>1 DEF FrameInv, BatchInv, StepInv, AnswersAreOwn, Dropped, Halfway, Expecting, Close, client, worker, Free, Moves
  <2> QED
    BY <2>4, <2>5, <2>6
<1>3. CASE Leave
  <2>1. TypeOK'
    BY <1>3 DEF TypeOK, Leave, sessions, client, worker, Moves, Steps
  <2>2. LeaseInv'
    BY <1>3 DEF LeaseInv, OpenSessions, Exiting, Leave, sessions, client, worker, Free, Moves
  <2>3. FrameInv' /\ BatchInv' /\ StepInv' /\ AnswersAreOwn'
    BY <1>3 DEF FrameInv, BatchInv, StepInv, AnswersAreOwn, Dropped, Halfway, Expecting, Leave, client, worker, Free, Moves
  <2> QED
    BY <2>1, <2>2, <2>3
<1> QED
  BY <1>1, <1>2, <1>3

(* The close of the worker: however it goes, nothing is left of it. *)
LEMMA ExitStep ==
  ASSUME Inv, host # "gone", WriteExit \/ ReadExit
  PROVE  Inv'
<1> USE DEF Inv, NoBatch
<1>1. CASE Moves("exit_write", "exit_read") /\ Sends(Exit) /\ UNCHANGED <<host, thread, batch, answer, sessions, lastBatch, pending, used>>
  <2>1. /\ child' \in {"none", "running", "stalled", "dead", "reaped"}
        /\ requests' \in Seq(Frame) /\ responses' \in Seq(Frame)
        /\ Len(requests') = Len(requests) + 1 /\ Len(responses') = Len(responses)
    BY <1>1, SendsFrame, FrameType
  <2>2. TypeOK'
    BY <1>1, <2>1 DEF TypeOK, sessions, Moves, Steps
  <2>3. LeaseInv' /\ FrameInv' /\ BatchInv' /\ AnswersAreOwn'
    BY <1>1 DEF LeaseInv, OpenSessions, Exiting, FrameInv, BatchInv, AnswersAreOwn, sessions, Moves
  <2>4. StepInv'
    BY <1>1, <2>1 DEF StepInv, Dropped, Halfway, Expecting, Moves
  <2> QED
    BY <2>2, <2>3, <2>4
<1>2. CASE Exiting /\ cleanup_resources /\ Closed /\ UNCHANGED <<sessions, lastBatch, pending, used>>
  <2>1. TypeOK'
    BY <1>2, Cleaned, BatchAssumption DEF TypeOK, sessions, Closed, Returns, Steps
  <2>2. LeaseInv' /\ FrameInv' /\ BatchInv' /\ AnswersAreOwn'
    BY <1>2, Cleaned DEF LeaseInv, OpenSessions, Exiting, FrameInv, BatchInv, AnswersAreOwn, sessions, Closed, Returns
  <2>3. StepInv'
    BY <1>2, Cleaned DEF StepInv, Expecting, Halfway, Closed, Returns
  <2> QED
    BY <2>1, <2>2, <2>3
<1> QED
  BY <1>1, <1>2 DEF WriteExit, ReadExit, SendFails, Exiting

(* In a stretch that is no close, the host is up and the session has a lease. *)
LEMMA InAnalysis ==
  ASSUME Inv, host # "gone", pc # "idle", ~Exiting
  PROVE  host = "up" /\ thread \in Session /\ thread \in OpenSessions
  BY DEF Inv, LeaseInv, TypeOK, OpenSessions

(* A call that throws after a cleanup, or gives back an answer without one. *)
LEMMA ThrowStep ==
  ASSUME Inv, host # "gone", pc # "idle", ~Exiting, cleanup_resources, Returns,
         UNCHANGED <<host, sessions, lastBatch, used>>, pending' \in [Session -> SUBSET (1..MaxBatch)],
         \A s \in Session : pending'[s] \subseteq pending[s]
  PROVE  Inv'
<1> USE DEF Inv, NoBatch
<1>1. TypeOK'
  BY Cleaned, BatchAssumption DEF TypeOK, sessions, Returns, Steps
<1>2. LeaseInv' /\ FrameInv' /\ BatchInv' /\ AnswersAreOwn'
  BY Cleaned DEF LeaseInv, OpenSessions, Exiting, FrameInv, BatchInv, AnswersAreOwn, sessions, Returns
<1>3. StepInv'
  BY Cleaned DEF StepInv, Expecting, Halfway, Returns
<1> QED
  BY <1>1, <1>2, <1>3

(* The steps of an analysis that do not touch the pipes. *)
LEMMA QuietStep ==
  ASSUME Inv, (\E s \in Session : BeginAnalysis(s)) \/ (host # "gone" /\ (ParseTypeScript \/ Validate \/ BeginBatch \/ EndAnalysis))
  PROVE  Inv'
<1> USE DEF Inv, NoBatch
<1>1. CASE \E s \in Session : BeginAnalysis(s)
  <2>1. PICK s \in Session : BeginAnalysis(s)
    BY <1>1
  <2>2. TypeOK'
    BY <2>1, BatchAssumption DEF TypeOK, BeginAnalysis, sessions, worker, Moves, Steps
  <2>3. LeaseInv' /\ FrameInv' /\ BatchInv' /\ AnswersAreOwn'
    BY <2>1 DEF LeaseInv, OpenSessions, Exiting, FrameInv, BatchInv, AnswersAreOwn, BeginAnalysis, sessions, worker, Moves, Free, TypeOK
  <2>4. StepInv'
    BY <2>1 DEF StepInv, FrameInv, Dropped, Halfway, Expecting, BeginAnalysis, worker, Moves, Free, TypeOK
  <2> QED
    BY <2>2, <2>3, <2>4
<1>2. CASE host # "gone" /\ ParseTypeScript
  <2>1. TypeOK'
    BY <1>2, BatchAssumption DEF TypeOK, ParseTypeScript, sessions, worker, Moves, Returns, Steps
  <2>2. LeaseInv' /\ FrameInv' /\ BatchInv' /\ AnswersAreOwn'
    BY <1>2 DEF LeaseInv, OpenSessions, Exiting, FrameInv, BatchInv, AnswersAreOwn, ParseTypeScript, sessions, worker, Moves, Returns
  <2>3. StepInv'
    BY <1>2, InAnalysis DEF StepInv, Dropped, Halfway, Expecting, Exiting, ParseTypeScript, worker, Moves, Returns, TypeOK
  <2> QED
    BY <2>1, <2>2, <2>3
<1>3. CASE host # "gone" /\ Validate
  <2>1. TypeOK'
    BY <1>3, BatchAssumption DEF TypeOK, Validate, sessions, worker, Moves, Returns, Steps
  <2>2. LeaseInv' /\ FrameInv' /\ BatchInv' /\ AnswersAreOwn'
    BY <1>3 DEF LeaseInv, OpenSessions, Exiting, FrameInv, BatchInv, AnswersAreOwn, Validate, sessions, worker, Moves, Returns
  <2>3. StepInv'
    BY <1>3 DEF StepInv, Dropped, Halfway, Expecting, Validate, worker, Moves, Returns
  <2> QED
    BY <2>1, <2>2, <2>3
<1>4. CASE host # "gone" /\ (BeginBatch \/ EndAnalysis)
  <2>1. TypeOK'
    BY <1>4, BatchAssumption DEF TypeOK, BeginBatch, EndAnalysis, sessions, worker, Moves, Returns, Steps
  <2>2. LeaseInv' /\ FrameInv' /\ AnswersAreOwn'
    BY <1>4 DEF LeaseInv, OpenSessions, Exiting, FrameInv, AnswersAreOwn, BeginBatch, EndAnalysis, sessions, worker, Moves, Returns
  <2>4. BatchInv'
    <3>1. \A s \in Session : \A b \in pending[s] : b \in Int
      BY DEF TypeOK
    <3>2. CASE BeginBatch
      BY <3>1, <3>2 DEF BatchInv, BeginBatch, Moves, TypeOK
    <3>3. CASE EndAnalysis
      BY <3>3 DEF BatchInv, EndAnalysis, Returns
    <3> QED
      BY <1>4, <3>2, <3>3
  <2>3. StepInv'
    BY <1>4 DEF StepInv, Dropped, Halfway, Expecting, BeginBatch, EndAnalysis, worker, Moves, Returns
  <2> QED
    BY <2>1, <2>2, <2>3, <2>4
<1> QED
  BY <1>1, <1>2, <1>3, <1>4

(* A batch is written: whole or not at all. *)
LEMMA WriteStep ==
  ASSUME Inv, host # "gone", StartBatch \/ WriteBatch
  PROVE  Inv'
<1> USE DEF Inv, NoBatch
<1>1. CASE (pc = "start" \/ pc = "write") /\ SendFails /\ Returns /\ UNCHANGED <<host, sessions, lastBatch, pending, used>>
  <2>1. pc # "idle" /\ ~Exiting /\ pending' \in [Session -> SUBSET (1..MaxBatch)] /\ pending' = pending
    BY <1>1 DEF Exiting, TypeOK
  <2> QED
    BY <1>1, <2>1, ThrowStep DEF SendFails
<1>2. ASSUME NEW from \in {"start", "write"}, NEW to \in {"parse", "read"},
             from = "start" <=> to = "parse", Moves(from, to), Sends(batch),
             UNCHANGED <<host, thread, batch, answer, sessions, lastBatch, used>>,
             pending' = IF from = "start" THEN [pending EXCEPT ![thread] = @ \cup {batch}] ELSE pending
      PROVE  Inv'
  <2>1. batch \in 1..MaxBatch
    BY <1>2 DEF BatchInv, Moves, TypeOK
  <2>2. /\ child' \in {"none", "running", "stalled", "dead", "reaped"}
        /\ requests' \in Seq(Frame) /\ responses' \in Seq(Frame)
        /\ Len(requests') = Len(requests) + 1 /\ Len(responses') = Len(responses)
        /\ requests \in Seq(1..MaxBatch) => requests' \in Seq(1..MaxBatch)
    BY <1>2, <2>1, SendsFrame, FrameType
  <2>3. responses' = responses /\ thread \in Session
    BY <1>2, InAnalysis DEF Sends, Moves, Exiting
  <2>4. TypeOK'
    BY <1>2, <2>1, <2>2, <2>3 DEF TypeOK, sessions, Moves, Steps
  <2>5. LeaseInv' /\ AnswersAreOwn'
    BY <1>2 DEF LeaseInv, OpenSessions, Exiting, AnswersAreOwn, sessions, Moves
  <2>11. BatchInv'
    <3>1. ASSUME NEW s \in Session, NEW b \in pending'[s] PROVE b <= lastBatch
      <4>1. b \in pending[s] \/ b = batch
        BY <1>2, <2>3, <3>1 DEF TypeOK
      <4>2. batch = lastBatch /\ lastBatch \in Nat
        BY <1>2 DEF BatchInv, Moves, TypeOK
      <4> QED
        BY <4>1, <4>2 DEF BatchInv
    <3> QED
      BY <1>2, <3>1 DEF BatchInv, Moves
  <2>6. FrameInv'
    BY <1>2, <2>2, <2>3 DEF FrameInv, Moves
  <2>7. pending' = pending \/ (from = "start" /\ pending' = [pending EXCEPT ![thread] = @ \cup {batch}])
    BY <1>2
  <2>8. Dropped => Dropped'
    <3>1. ASSUME NEW s \in Session, NEW b \in pending[s] PROVE b \in pending'[s] /\ (from = "start" => b # batch)
      BY <1>2, <2>7, <3>1 DEF BatchInv, Moves, TypeOK
    <3> QED
      BY <1>2, <3>1 DEF Dropped, Halfway, Moves
  <2>9. Halfway' => batch' \in pending'[thread']
    BY <1>2, <2>1, <2>3, <2>7 DEF Halfway, Moves, TypeOK
  <2>10. StepInv'
    BY <1>2, <2>1, <2>2, <2>8, <2>9 DEF StepInv, Halfway, Expecting, Moves, TypeOK
  <2> QED
    BY <2>4, <2>5, <2>6, <2>10, <2>11
<1>3. CASE StartBatch
  BY <1>1, <1>2, <1>3 DEF StartBatch, Moves
<1>4. CASE WriteBatch
  BY <1>1, <1>2, <1>4 DEF WriteBatch, Moves
<1> QED
  BY <1>3, <1>4

(* A response is read: it was the only frame unless an analysis has given up. *)
LEMMA ReadStep ==
  ASSUME Inv, host # "gone", CompleteBatch \/ ReadBatch
  PROVE  Inv'
<1> USE DEF Inv, NoBatch
<1>1. /\ pc # "idle" /\ ~Exiting /\ thread \in Session /\ pending' \in [Session -> SUBSET (1..MaxBatch)]
      /\ \A s \in Session : pending'[s] \subseteq pending[s]
      /\ UNCHANGED <<host, sessions, lastBatch, used>>
  BY InAnalysis DEF CompleteBatch, ReadBatch, Accepts, Moves, Exiting, TypeOK
<1>2. CASE ReceiveFails /\ Returns
  BY <1>1, <1>2, ThrowStep DEF ReceiveFails
<1>3. CASE (pc = "complete" \/ pc = "read") /\ pc' = "validate" /\ Receives(answer') /\ UNCHANGED <<thread, batch>>
  <2>1. /\ answer' \in Frame /\ requests' = requests /\ child' = child
        /\ responses' \in Seq(Frame) /\ Len(responses) > 0 /\ Len(responses') = Len(responses) - 1
        /\ responses \in Seq(1..MaxBatch) => answer' \in 1..MaxBatch /\ responses' \in Seq(1..MaxBatch)
    BY <1>3, ReceivesFrame
  <2>2. answer' \in 1..MaxBatch /\ responses' \in Seq(1..MaxBatch) /\ requests' \in Seq(1..MaxBatch)
    BY <1>3, <2>1 DEF FrameInv
  <2>3. TypeOK'
    BY <1>1, <1>3, <2>1, <2>2 DEF TypeOK, sessions, Steps
  <2>4. LeaseInv' /\ FrameInv' /\ AnswersAreOwn' /\ BatchInv'
    BY <1>1, <1>3, <2>2 DEF LeaseInv, OpenSessions, Exiting, FrameInv, AnswersAreOwn, BatchInv, sessions
  <2>5. Dropped => Dropped'
    <3>1. pending' = pending \/ (pc = "complete" /\ pending' = [pending EXCEPT ![thread] = @ \ {batch}])
      BY <1>3 DEF CompleteBatch, ReadBatch, Accepts, Moves
    <3>2. ASSUME NEW s \in Session, NEW b \in pending[s], ~(Halfway /\ s = thread /\ b = batch)
          PROVE  b \in pending'[s]
      <4>1. CASE pc = "complete" /\ batch # NoBatch
        BY <1>1, <3>1, <3>2, <4>1 DEF Halfway, TypeOK
      <4>2. CASE ~(pc = "complete" /\ batch # NoBatch)
        BY <1>1, <3>1, <3>2, <4>2 DEF TypeOK
      <4> QED
        BY <4>1, <4>2
    <3> QED
      BY <1>3, <3>2 DEF Dropped, Halfway
  <2>6. StepInv'
    BY <1>1, <1>3, <2>1, <2>5 DEF StepInv, Halfway, Expecting, TypeOK
  <2> QED
    BY <2>3, <2>4, <2>6
<1> QED
  BY <1>2, <1>3 DEF CompleteBatch, ReadBatch, Accepts, Moves

(* What the Python process does by itself, and the death of the host. *)
LEMMA WorkerStep ==
  ASSUME Inv, WorkerAnswers \/ WorkerInputEnds \/ Environment
  PROVE  Inv'
<1> USE DEF Inv, NoBatch
<1>1. CASE WorkerAnswers
  <2>1. requests \in Seq(Frame) /\ requests # <<>> /\ responses \in Seq(Frame)
    BY <1>1 DEF TypeOK, WorkerAnswers
  <2>2. /\ Head(requests) \in Frame /\ requests' \in Seq(Frame) /\ responses' \in Seq(Frame)
        /\ Len(requests') + Len(responses') = Len(requests) + Len(responses)
    BY <1>1, <2>1, HeadAndTail DEF WorkerAnswers
  <2>3. ASSUME requests \in Seq(1..MaxBatch), responses \in Seq(1..MaxBatch)
        PROVE  requests' \in Seq(1..MaxBatch) /\ responses' \in Seq(1..MaxBatch)
    <3>1. Head(requests) \in 1..MaxBatch /\ Tail(requests) \in Seq(1..MaxBatch)
      BY <2>1, <2>3, HeadAndTail
    <3> QED
      BY <1>1, <2>3, <3>1 DEF WorkerAnswers
  <2>4. TypeOK'
    BY <1>1, <2>2 DEF TypeOK, WorkerAnswers, sessions, client
  <2>5. LeaseInv' /\ AnswersAreOwn' /\ BatchInv'
    BY <1>1 DEF LeaseInv, OpenSessions, Exiting, AnswersAreOwn, BatchInv, WorkerAnswers, sessions, client
  <2>6. FrameInv' /\ StepInv'
    BY <1>1, <2>2, <2>3 DEF FrameInv, StepInv, Dropped, Halfway, Expecting, WorkerAnswers, client
  <2> QED
    BY <2>4, <2>5, <2>6
<1>2. CASE WorkerInputEnds \/ WorkerDies \/ WorkerStalls \/ Reap
  <2>1. /\ requests' = requests \/ requests' = <<>>
        /\ responses' = responses \/ responses' = <<>>
        /\ child # "none" /\ child' \in {"stalled", "dead", "reaped"}
        /\ UNCHANGED <<host, sessions, client, lastBatch, pending, used>>
    BY <1>2 DEF WorkerInputEnds, WorkerDies, WorkerStalls, Reap
  <2>2. /\ requests' \in Seq(Frame) /\ responses' \in Seq(Frame)
        /\ Len(requests') + Len(responses') <= Len(requests) + Len(responses)
        /\ requests \in Seq(1..MaxBatch) => requests' \in Seq(1..MaxBatch)
        /\ responses \in Seq(1..MaxBatch) => responses' \in Seq(1..MaxBatch)
    <3>1. Len(<<>>) = 0 /\ <<>> \in Seq(Frame) /\ <<>> \in Seq(1..MaxBatch)
      OBVIOUS
    <3>2. Len(requests) \in Nat /\ Len(responses) \in Nat
      BY DEF TypeOK
    <3>3. /\ requests' \in Seq(Frame) /\ Len(requests') <= Len(requests)
          /\ requests \in Seq(1..MaxBatch) => requests' \in Seq(1..MaxBatch)
      <4>1. CASE requests' = requests
        BY <3>2, <4>1 DEF TypeOK
      <4>2. CASE requests' = <<>>
        BY <3>1, <3>2, <4>2
      <4> QED
        BY <2>1, <4>1, <4>2
    <3>4. /\ responses' \in Seq(Frame) /\ Len(responses') <= Len(responses)
          /\ responses \in Seq(1..MaxBatch) => responses' \in Seq(1..MaxBatch)
      <4>1. CASE responses' = responses
        BY <3>2, <4>1 DEF TypeOK
      <4>2. CASE responses' = <<>>
        BY <3>1, <3>2, <4>2
      <4> QED
        BY <2>1, <4>1, <4>2
    <3>5. Len(requests') \in Nat /\ Len(responses') \in Nat
      BY <3>3, <3>4
    <3> QED
      BY <3>2, <3>3, <3>4, <3>5
  <2>3. TypeOK'
    BY <2>1, <2>2 DEF TypeOK, sessions, client
  <2>4. LeaseInv' /\ AnswersAreOwn' /\ BatchInv' /\ FrameInv'
    BY <2>1, <2>2 DEF LeaseInv, OpenSessions, Exiting, AnswersAreOwn, BatchInv, FrameInv, sessions, client
  <2>5. StepInv'
    BY <2>1, <2>2 DEF StepInv, Dropped, Halfway, Expecting, client, TypeOK
  <2> QED
    BY <2>3, <2>4, <2>5
<1>3. CASE Killed
  BY <1>3, BatchAssumption DEF TypeOK, Steps, LeaseInv, OpenSessions, Exiting, FrameInv, StepInv, Halfway, AnswersAreOwn, BatchInv,
       Killed, Returns, sessions, worker
<1> QED
  BY <1>1, <1>2, <1>3 DEF Environment

(* Every step of the host and of the worker keeps what is said of them.          *)
LEMMA InvStep == Inv /\ [Next]_vars => Inv'
<1> SUFFICES ASSUME Inv, [Next]_vars PROVE Inv'
  OBVIOUS
<1>1. CASE UNCHANGED vars
  BY <1>1 DEF Inv, TypeOK, LeaseInv, OpenSessions, Exiting, FrameInv, BatchInv, StepInv, Dropped, Halfway, Expecting,
              AnswersAreOwn, vars, sessions, client, worker
<1>2. CASE Next
  BY <1>2, SessionStep, ExitStep, QuietStep, WriteStep, ReadStep, WorkerStep DEF Next, Stretch
<1> QED
  BY <1>1, <1>2

(* Every reachable state satisfies the inductive invariant. *)
THEOREM Invariant == Spec => []Inv
<1>1. Init => Inv
  BY InitInv
<1>2. Inv /\ [Next]_vars => Inv'
  BY InvStep
<1> QED
  BY <1>1, <1>2, PTL DEF Spec

(* The variables keep the values the client, its sessions and the bridge give them. *)
THEOREM TypeCorrect == Spec => []TypeOK
<1>1. Inv => TypeOK
  BY DEF Inv
<1> QED
  BY <1>1, Invariant, PTL

(* An analysis never takes the response to another request for its own. *)
THEOREM AnswersBelongToRequests == Spec => []AnswersAreOwn
<1>1. Inv => AnswersAreOwn
  BY DEF Inv
<1> QED
  BY <1>1, Invariant, PTL

(* The Python process is there only while a session has a lease, and is not asked  *)
(* to exit before the last one is returned.                                       *)
THEOREM WorkerHasLease == Spec => []WorkerFollowsLeases
<1>1. Inv => WorkerFollowsLeases
  <2> SUFFICES ASSUME Inv PROVE WorkerFollowsLeases
    OBVIOUS
  <2>1. IsFiniteSet(OpenSessions)
    BY SessionAssumption, FS_Subset DEF OpenSessions
  <2>2. leases = 0 => OpenSessions = {}
    BY <2>1, FS_EmptySet DEF Inv, LeaseInv
  <2> QED
    BY <2>2 DEF Inv, LeaseInv, Exiting, WorkerFollowsLeases, Free, OpenSessions
<1> QED
  BY <1>1, Invariant, PTL

(* As long as no analysis gives up between the halves of a batch, nothing is left   *)
(* in the pipes between two calls.                                                *)
THEOREM ClientAndWorkerInStep == Spec => []InStep
<1>1. Inv => InStep
  <2> SUFFICES ASSUME Inv, pc = "idle", host = "up", \A s \in Session : pending[s] = {}
               PROVE  requests = <<>> /\ responses = <<>>
    BY DEF InStep
  <2>1. requests \in Seq(Frame) /\ responses \in Seq(Frame)
    BY DEF Inv, TypeOK
  <2>2. ~Dropped /\ ~Expecting
    BY DEF Dropped, Expecting, Halfway
  <2>3. Len(requests) + Len(responses) <= 0
    BY <2>2 DEF Inv, StepInv
  <2> QED
    BY <2>1, <2>3
<1> QED
  BY <1>1, Invariant, PTL
-----------------------------------------------------------------------------
(* The initial state has no child, no timer and no result. *)
LEMMA AgentInitInv == AgentInit => AgentInv
  BY DEF AgentInit, AgentInv, AgentTypeOK, TimersInv, SettledInv, TimedOut, Settled, Done, EscalationFinished, Pending

(* Completing the lifecycle keeps the types of what it assigns. *)
LEMMA CompleteType ==
  ASSUME AgentTypeOK, NEW a \in Agent, Complete(a, exitCode[a])
  PROVE  /\ timer' \in [Agent -> {"idle", "armed", "fired", "cleared"}]
         /\ registered' \in [Agent -> BOOLEAN] /\ completions' \in [Agent -> Nat]
         /\ result' \in [Agent -> {0, 1, Pending}]
<1>1. timer' \in [Agent -> {"idle", "armed", "fired", "cleared"}] /\ completions' \in [Agent -> Nat]
  BY DEF AgentTypeOK, Complete
<1>2. exitCode[a] \in {0, 1}
  BY DEF AgentTypeOK
<1>3. registered' \in [Agent -> BOOLEAN] /\ result' \in [Agent -> {0, 1, Pending}]
  <2>1. CASE Settled(a)
    BY <2>1 DEF AgentTypeOK, Complete
  <2>2. CASE ~Settled(a)
    <3>1. PICK r \in BOOLEAN, v \in {0, 1} :
             registered' = [registered EXCEPT ![a] = r] /\ result' = [result EXCEPT ![a] = v]
      <4>1. registered = [registered EXCEPT ![a] = registered[a]] /\ registered[a] \in BOOLEAN
        BY DEF AgentTypeOK
      <4> QED
        BY <1>2, <2>2, <4>1 DEF Complete
    <3> QED
      BY <3>1 DEF AgentTypeOK, Pending
  <2> QED
    BY <2>1, <2>2
<1> QED
  BY <1>1, <1>3

(* Every callback and every step of an agent keeps the variables in their types. *)
LEMMA AgentTypeStep == AgentTypeOK /\ [AgentNext]_agentVars => AgentTypeOK'
<1> SUFFICES ASSUME AgentTypeOK, [AgentNext]_agentVars PROVE AgentTypeOK'
  OBVIOUS
<1> USE DEF AgentTypeOK, Pending
<1>1. CASE \E a \in Agent : Spawn(a)
  BY <1>1 DEF Spawn
<1>2. CASE \E a \in Agent : ErrorEvent(a)
  BY <1>2 DEF ErrorEvent, process, settlement
<1>3. CASE \E a \in Agent : CloseEvent(a)
  <2>1. PICK a \in Agent : CloseEvent(a)
    BY <1>3
  <2>2. CASE UNCHANGED <<timer, settlement>>
    BY <2>1, <2>2 DEF CloseEvent, process, settlement
  <2>3. CASE Complete(a, exitCode[a])
    BY <2>1, <2>3, CompleteType DEF CloseEvent, process
  <2> QED
    BY <2>1, <2>2, <2>3 DEF CloseEvent
<1>4. CASE \E a \in Agent : TimeoutEvent(a)
  BY <1>4 DEF TimeoutEvent, process, settlement
<1>5. CASE \E a \in Agent : EscalationEvent(a)
  <2>1. PICK a \in Agent : EscalationEvent(a)
    BY <1>5
  <2>2. CASE UNCHANGED <<timer, settlement>>
    BY <2>1, <2>2 DEF EscalationEvent, settlement
  <2>3. CASE Complete(a, exitCode[a])
    BY <2>1, <2>3, CompleteType DEF EscalationEvent
  <2> QED
    BY <2>1, <2>2, <2>3 DEF EscalationEvent
<1>6. CASE \E a \in Agent : Fork(a)
  <2>1. PICK a \in Agent : Fork(a)
    BY <1>6
  <2>2. group' \in [Agent -> {"none", "quiet", "holding"}] /\ outsider' \in [Agent -> BOOLEAN]
    <3>1. CASE outsider' = [outsider EXCEPT ![a] = TRUE] /\ UNCHANGED group
      BY <3>1
    <3>2. CASE \E kind \in {"quiet", "holding"} : group' = [group EXCEPT ![a] = kind] /\ UNCHANGED outsider
      <4>1. PICK kind \in {"quiet", "holding"} : group' = [group EXCEPT ![a] = kind] /\ UNCHANGED outsider
        BY <3>2
      <4> QED
        BY <4>1
    <3> QED
      BY <2>1, <3>1, <3>2 DEF Fork
  <2> QED
    BY <2>1, <2>2 DEF Fork, lifecycle, settlement
<1>7. CASE \E a \in Agent : LeaderExits(a)
  BY <1>7 DEF LeaderExits, lifecycle, settlement
<1>8. CASE \E a \in Agent : HelperExits(a)
  BY <1>8 DEF HelperExits, lifecycle, settlement
<1>9. CASE UNCHANGED agentVars
  BY <1>9 DEF agentVars, process, lifecycle, settlement
<1> QED
  BY <1>1, <1>2, <1>3, <1>4, <1>5, <1>6, <1>7, <1>8, <1>9 DEF AgentNext, Events

(* A step of one agent leaves the others alone. *)
LEMMA OthersStep ==
  ASSUME AgentTypeOK, NEW a \in Agent, NEW b \in Agent, b # a, Spawn(a) \/ Events(a) \/ Fork(a) \/ LeaderExits(a) \/ HelperExits(a),
         TimersInv(b), SettledInv(b)
  PROVE  TimersInv(b)' /\ SettledInv(b)'
<1> USE DEF AgentTypeOK, TimersInv, SettledInv, TimedOut, Settled, Done, EscalationFinished, Pending
<1>1. CASE Spawn(a)
  BY <1>1 DEF Spawn
<1>2. CASE ErrorEvent(a)
  BY <1>2 DEF ErrorEvent, process, settlement
<1>3. CASE CloseEvent(a)
  BY <1>3 DEF CloseEvent, Complete, PipesAreClosed, process, settlement
<1>4. CASE TimeoutEvent(a)
  BY <1>4 DEF TimeoutEvent, process, settlement
<1>5. CASE EscalationEvent(a)
  BY <1>5 DEF EscalationEvent, Complete, settlement
<1>6. CASE Fork(a)
  BY <1>6 DEF Fork, lifecycle, settlement
<1>7. CASE LeaderExits(a)
  BY <1>7 DEF LeaderExits, lifecycle, settlement
<1>8. CASE HelperExits(a)
  BY <1>8 DEF HelperExits, lifecycle, settlement
<1> QED
  BY <1>1, <1>2, <1>3, <1>4, <1>5, <1>6, <1>7, <1>8 DEF Events

(* A step of an agent keeps its timers, its failures and its group in agreement. *)
LEMMA TimersStep ==
  ASSUME AgentTypeOK, NEW a \in Agent, Spawn(a) \/ Events(a) \/ Fork(a) \/ LeaderExits(a) \/ HelperExits(a),
         TimersInv(a), SettledInv(a)
  PROVE  TimersInv(a)'
<1> USE DEF AgentTypeOK, TimersInv, SettledInv, TimedOut, Settled, Done, EscalationFinished, Pending
<1>1. CASE Spawn(a)
  BY <1>1 DEF Spawn
<1>2. CASE ErrorEvent(a)
  BY <1>2 DEF ErrorEvent, process, settlement
<1>3. CASE CloseEvent(a)
  BY <1>3 DEF CloseEvent, Complete, PipesAreClosed, process, settlement
<1>4. CASE TimeoutEvent(a)
  BY <1>4 DEF TimeoutEvent, process, settlement
<1>5. CASE EscalationEvent(a)
  BY <1>5 DEF EscalationEvent, Complete, settlement
<1>6. CASE Fork(a)
  BY <1>6 DEF Fork, lifecycle, settlement
<1>7. CASE LeaderExits(a)
  BY <1>7 DEF LeaderExits, lifecycle, settlement
<1>8. CASE HelperExits(a)
  BY <1>8 DEF HelperExits, lifecycle, settlement
<1> QED
  BY <1>1, <1>2, <1>3, <1>4, <1>5, <1>6, <1>7, <1>8 DEF Events

(* A step of an agent settles it exactly when the lifecycle is done. *)
LEMMA SettledStep ==
  ASSUME AgentTypeOK, NEW a \in Agent, Spawn(a) \/ Events(a) \/ Fork(a) \/ LeaderExits(a) \/ HelperExits(a),
         TimersInv(a), SettledInv(a)
  PROVE  SettledInv(a)'
<1> USE DEF AgentTypeOK, TimersInv, SettledInv, TimedOut, Settled, Done, EscalationFinished, Pending
<1>1. CASE Spawn(a)
  BY <1>1 DEF Spawn
<1>2. CASE ErrorEvent(a)
  BY <1>2 DEF ErrorEvent, process, settlement
<1>3. CASE CloseEvent(a)
  BY <1>3 DEF CloseEvent, Complete, PipesAreClosed, process, settlement
<1>4. CASE TimeoutEvent(a)
  BY <1>4 DEF TimeoutEvent, process, settlement
<1>5. CASE EscalationEvent(a)
  BY <1>5 DEF EscalationEvent, Complete, settlement
<1>6. CASE Fork(a)
  BY <1>6 DEF Fork, lifecycle, settlement
<1>7. CASE LeaderExits(a)
  BY <1>7 DEF LeaderExits, lifecycle, settlement
<1>8. CASE HelperExits(a)
  BY <1>8 DEF HelperExits, lifecycle, settlement
<1> QED
  BY <1>1, <1>2, <1>3, <1>4, <1>5, <1>6, <1>7, <1>8 DEF Events

(* AgentInv is inductive. *)
LEMMA AgentInvStep == AgentInv /\ [AgentNext]_agentVars => AgentInv'
<1> SUFFICES ASSUME AgentInv, [AgentNext]_agentVars PROVE AgentInv'
  OBVIOUS
<1>1. AgentTypeOK'
  BY AgentTypeStep DEF AgentInv
<1>2. CASE UNCHANGED agentVars
  BY <1>1, <1>2 DEF AgentInv, TimersInv, SettledInv, TimedOut, Settled, Done, EscalationFinished,
                    agentVars, process, lifecycle, settlement
<1>3. CASE AgentNext
  <2>1. PICK a \in Agent : Spawn(a) \/ Events(a) \/ Fork(a) \/ LeaderExits(a) \/ HelperExits(a)
    BY <1>3 DEF AgentNext
  <2>2. ASSUME NEW b \in Agent PROVE TimersInv(b)' /\ SettledInv(b)'
    <3>1. CASE b = a
      BY <2>1, <3>1, TimersStep, SettledStep DEF AgentInv
    <3>2. CASE b # a
      BY <2>1, <3>2, OthersStep DEF AgentInv
    <3> QED
      BY <3>1, <3>2
  <2> QED
    BY <1>1, <2>2 DEF AgentInv
<1> QED
  BY <1>2, <1>3

(* Every reachable state satisfies the inductive invariant. *)
THEOREM AgentInvariant == AgentSpec => []AgentInv
<1>1. AgentInit => AgentInv
  BY AgentInitInv
<1>2. AgentInv /\ [AgentNext]_agentVars => AgentInv'
  BY AgentInvStep
<1> QED
  BY <1>1, <1>2, PTL DEF AgentSpec

(* The variables keep the values run_async and its handlers give them. *)
THEOREM AgentTypeCorrect == AgentSpec => []AgentTypeOK
<1>1. AgentInv => AgentTypeOK
  BY DEF AgentInv
<1> QED
  BY <1>1, AgentInvariant, PTL

(* An agent that ran out of time is reported as failed, and only once its group is dead. *)
THEOREM TimeoutsSettleDead == AgentSpec => []TimeoutSettlesDead
<1>1. AgentInv => TimeoutSettlesDead
  BY DEF AgentInv, TimersInv, SettledInv, TimeoutSettlesDead, TimedOut, Settled, Done, EscalationFinished, AgentTypeOK, Pending
<1> QED
  BY <1>1, AgentInvariant, PTL

(* Exit status 0 is reported only for an agent that ended by itself, in time, with 0. *)
THEOREM SuccessesAreGenuine == AgentSpec => []SuccessIsGenuine
<1>1. AgentInv => SuccessIsGenuine
  BY DEF AgentInv, TimersInv, SettledInv, SuccessIsGenuine, Settled, Done, AgentTypeOK, Pending
<1> QED
  BY <1>1, AgentInvariant, PTL

(* The close event and the escalation callback never both complete the lifecycle. *)
THEOREM LifecycleCompletesOnce == AgentSpec => []CompletesOnce
<1>1. AgentInv => CompletesOnce
  <2> SUFFICES ASSUME AgentInv, NEW a \in Agent PROVE completions[a] <= 1
    BY DEF CompletesOnce
  <2>1. completions[a] = 0 \/ completions[a] = 1
    BY DEF AgentInv, SettledInv
  <2> QED
    BY <2>1
<1> QED
  BY <1>1, AgentInvariant, PTL
=============================================================================
