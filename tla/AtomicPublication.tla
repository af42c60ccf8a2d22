-------------------------- MODULE AtomicPublication --------------------------
(***************************************************************************)
(* What TaskBatchReplacement promises: the task workspace of a project     *)
(* (the rules directory and the issue, report and lint-output documents)   *)
(* is replaced as a whole, by one batch at a time, and a batch that was     *)
(* replaced never comes back.                                               *)
(***************************************************************************)
CONSTANTS Run,       \* the executions of the linter; each publishes at most one batch
          Artifact   \* the rules directory and the task documents

VARIABLES content,   \* what the workspace holds, artifact by artifact
          published  \* the runs whose batch has replaced the workspace

avars == <<content, published>>

Absent == "absent"     \* the path does not exist
Initial == "initial"   \* what the path held before the first modelled run

Init == /\ content \in [Artifact -> {Initial, Absent}]
        /\ published = {}

(* The batch of run r replaces every artifact in one indivisible step. *)
Publish(r) == /\ r \notin published
              /\ content' = [a \in Artifact |-> r]
              /\ published' = published \cup {r}

Next == \E r \in Run : Publish(r)

Spec == Init /\ [][Next]_avars
=============================================================================
