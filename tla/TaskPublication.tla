--------------------------- MODULE TaskPublication ---------------------------
(***************************************************************************)
(* One publication of lint results into the task workspace, file system    *)
(* operation by file system operation: TaskBatchReplacement.replace with    *)
(* the journal, the rollback and the recovery it relies on.  A run is one   *)
(* execution of the linter; runs follow each other, and any of them may     *)
(* die or meet a failing file system operation at any step.  Runs that      *)
(* overlap are the subject of PublicationLock.                              *)
(*                                                                          *)
(* An artifact is the rules directory or one task document.  The code       *)
(* visits them in a fixed order; the model visits them in any order.        *)
(***************************************************************************)
EXTENDS Naturals

CONSTANTS Run,        \* executions of the linter
          Artifact,   \* Rules and the documents issues, report, lint-output
          Rules,      \* the rules directory, the one artifact that is a directory
          MaxFaults   \* bound: crashes and failing operations in a behaviour

Absent == "absent"      \* the path does not exist
Initial == "initial"    \* what the path held before the first run
Partial == "partial"    \* created or being written, not complete
NoRun == "none"

ASSUME RunAssumption == Run \cap {Absent, Initial, Partial, NoRun} = {}
ASSUME RulesAssumption == Rules \in Artifact
ASSUME FaultsAssumption == MaxFaults \in Nat

VARIABLES
  ws,        \* the workspace: what each artifact holds
  backup,    \* per transaction, the artifacts moved aside into it
  existed,   \* per transaction, the artifacts the journal lists as existing before
  journal,   \* per transaction, the phase its journal file states
  txnDir,    \* the transactions whose directory exists
  lockDir,   \* the lock directory exists
  owner,     \* the run named in the owner file, NoRun when there is no file
  named,     \* the owner file names its run's transaction
  claim,     \* the run whose recovery claim is in the lock directory
  run,       \* the live run, NoRun between runs
  started,   \* the runs that have begun
  pc,        \* the operation the live run is about to perform
  purpose,   \* what the restore and the removals of the live run are for
  txn,       \* the transaction the live run restores or removes
  todo,      \* the artifacts the current loop has still to visit
  committed, \* history: the runs whose commit_transaction returned
  faults     \* crashes and failing operations so far

workspace == <<ws, backup>>
transactions == <<existed, journal, txnDir>>
lock == <<lockDir, owner, named, claim>>
process == <<run, started, pc, purpose, txn, todo>>
vars == <<workspace, transactions, lock, process, committed, faults>>

Recovering == {"claim", "examine"}
Removing == {"restore", "remove_txn", "remove_lock"}
Beginning == {"mkdtemp", "journal", "name"}
Staging == {"backup", "write"}
Steps == {"idle", "acquire", "recover", "reacquire"}
           \cup Recovering \cup Removing \cup Beginning \cup Staging

Init ==
  /\ ws \in [Artifact -> {Initial, Absent}]
  /\ backup = [t \in Run |-> [a \in Artifact |-> Absent]]
  /\ existed = [t \in Run |-> {}]
  /\ journal = [t \in Run |-> "none"]
  /\ txnDir = {}
  /\ lockDir = FALSE /\ owner = NoRun /\ named = FALSE /\ claim = NoRun
  /\ run = NoRun /\ started = {} /\ pc = "idle"
  /\ purpose = "publication" /\ txn = NoRun /\ todo = {}
  /\ committed = {} /\ faults = 0
-----------------------------------------------------------------------------
(* The live run returns from replace, throws out of it, or dies. *)
Exit == /\ run' = NoRun /\ pc' = "idle"
        /\ purpose' = "publication" /\ txn' = NoRun /\ todo' = {}
        /\ UNCHANGED started

Goto(step) == pc' = step /\ UNCHANGED <<run, started, purpose, txn, todo>>

(* TaskBatchReplacement.replace is called by a new run. *)
Start(r) ==
  /\ pc = "idle" /\ r \notin started
  /\ run' = r /\ started' = started \cup {r} /\ pc' = "acquire"
  /\ UNCHANGED <<workspace, transactions, lock, purpose, txn, todo, committed, faults>>

(***************************************************************************)
(* TaskPublicationLock.acquire.  The rename that publishes the staged lock  *)
(* succeeds over no directory and over an empty one.                        *)
(***************************************************************************)
LockIsFree == owner = NoRun /\ claim = NoRun

AcquireLock ==
  /\ pc \in {"acquire", "reacquire"} /\ LockIsFree
  /\ lockDir' = TRUE /\ owner' = run /\ named' = FALSE /\ claim' = NoRun
  /\ Goto("mkdtemp")
  /\ UNCHANGED <<workspace, transactions, committed, faults>>

(* A run that gives up on a lock it finds taken. *)
LockIsTakenGivesUp ==
  /\ pc = "acquire" /\ ~LockIsFree /\ Exit
  /\ UNCHANGED <<workspace, transactions, lock, committed, faults>>

LockIsTaken ==
  /\ pc = "acquire" /\ ~LockIsFree
  /\ Goto("recover")
  /\ UNCHANGED <<workspace, transactions, lock, committed, faults>>

(* recover_abandoned_lock: a lock without its owner file is removed at once. *)
RemoveOwnerless ==
  /\ pc = "recover" /\ owner = NoRun
  /\ lockDir' = FALSE /\ claim' = NoRun /\ Goto("reacquire")
  /\ UNCHANGED <<workspace, transactions, owner, named, committed, faults>>

(* The owner is a run that died: nobody else is alive. *)
OwnerIsDead ==
  /\ pc = "recover" /\ owner # NoRun
  /\ pc' = "claim" /\ purpose' = "recovery" /\ UNCHANGED <<run, started, txn, todo>>
  /\ UNCHANGED <<workspace, transactions, lock, committed, faults>>

(* TaskPublicationRecoveryClaim.claim: a dead recoverer's claim is removed, *)
(* then the own claim is renamed into place.                                *)
RemoveStaleClaim ==
  /\ pc = "claim" /\ claim # NoRun
  /\ claim' = NoRun
  /\ UNCHANGED <<workspace, transactions, lockDir, owner, named, process, committed, faults>>

PublishClaim ==
  /\ pc = "claim" /\ claim = NoRun
  /\ claim' = run /\ Goto("examine")
  /\ UNCHANGED <<workspace, transactions, lockDir, owner, named, committed, faults>>

(***************************************************************************)
(* recover_owner_transaction: what the journal of the owner's transaction   *)
(* says decides between nothing, cleanup, restoration and refusal.          *)
(***************************************************************************)
NamesTransaction == named /\ owner \in txnDir

NothingToRecover ==
  /\ pc = "examine" /\ ~NamesTransaction
  /\ Goto("remove_lock")
  /\ UNCHANGED <<workspace, transactions, lock, committed, faults>>

RecoverCommitted ==
  /\ pc = "examine" /\ NamesTransaction /\ journal[owner] = "committed"
  /\ pc' = "remove_txn" /\ txn' = owner /\ UNCHANGED <<run, started, purpose, todo>>
  /\ UNCHANGED <<workspace, transactions, lock, committed, faults>>

RecoverPrepared ==
  /\ pc = "examine" /\ NamesTransaction /\ journal[owner] = "prepared"
  /\ pc' = "restore" /\ txn' = owner /\ todo' = Artifact
  /\ UNCHANGED <<workspace, transactions, lock, run, started, purpose, committed, faults>>

(* A transaction directory without a journal cannot be recovered: the run throws. *)
RejectJournal ==
  /\ pc = "examine" /\ NamesTransaction /\ journal[owner] = "none"
  /\ claim' = NoRun /\ Exit
  /\ UNCHANGED <<workspace, transactions, lockDir, owner, named, committed, faults>>

-----------------------------------------------------------------------------
(* TaskPublicationRecovery.restore, called by a recovery and by a rollback. *)
RestoreRemove(a) ==
  /\ pc = "restore" /\ a \in todo /\ backup[txn][a] # Absent /\ ws[a] # Absent
  /\ ws' = [ws EXCEPT ![a] = Absent]
  /\ UNCHANGED <<backup, transactions, lock, process, committed, faults>>

RestoreMove(a) ==
  /\ pc = "restore" /\ a \in todo /\ backup[txn][a] # Absent /\ ws[a] = Absent
  /\ ws' = [ws EXCEPT ![a] = backup[txn][a]]
  /\ backup' = [backup EXCEPT ![txn][a] = Absent]
  /\ todo' = todo \ {a}
  /\ UNCHANGED <<transactions, lock, run, started, pc, purpose, txn, committed, faults>>

(* A restoration that takes an artifact without a backup for a new one. *)
RestoreRemovesUnmoved(a) ==
  /\ pc = "restore" /\ a \in todo /\ backup[txn][a] = Absent
  /\ ws' = [ws EXCEPT ![a] = Absent]
  /\ todo' = todo \ {a}
  /\ UNCHANGED <<backup, transactions, lock, run, started, pc, purpose, txn, committed, faults>>

(* Nothing was moved aside: what did not exist before is removed. *)
RestoreWithoutBackup(a) ==
  /\ pc = "restore" /\ a \in todo /\ backup[txn][a] = Absent
  /\ ws' = IF a \in existed[txn] THEN ws ELSE [ws EXCEPT ![a] = Absent]
  /\ todo' = todo \ {a}
  /\ UNCHANGED <<backup, transactions, lock, run, started, pc, purpose, txn, committed, faults>>

Restored ==
  /\ pc = "restore" /\ todo = {}
  /\ Goto("remove_txn")
  /\ UNCHANGED <<workspace, transactions, lock, committed, faults>>

(***************************************************************************)
(* remove_path(transaction): the recursive removal deletes the entries of    *)
(* the directory one by one, in the order the file system lists them, and    *)
(* then the directory.                                                       *)
(***************************************************************************)
RemoveBackup(a) ==
  /\ pc = "remove_txn" /\ backup[txn][a] # Absent
  /\ backup' = [backup EXCEPT ![txn][a] = Absent]
  /\ UNCHANGED <<ws, transactions, lock, process, committed, faults>>

RemoveJournal ==
  /\ pc = "remove_txn" /\ journal[txn] # "none"
  /\ journal' = [journal EXCEPT ![txn] = "none"]
  /\ UNCHANGED <<workspace, existed, txnDir, lock, process, committed, faults>>

RemoveTransaction ==
  /\ pc = "remove_txn" /\ journal[txn] = "none"
  /\ \A a \in Artifact : backup[txn][a] = Absent
  /\ txnDir' = txnDir \ {txn} /\ Goto("remove_lock")
  /\ UNCHANGED <<workspace, existed, journal, lock, committed, faults>>

(* remove_path(lock_path), by release and by finish_recovery, likewise. *)
RemoveOwner ==
  /\ pc = "remove_lock" /\ owner # NoRun
  /\ owner' = NoRun /\ named' = FALSE
  /\ UNCHANGED <<workspace, transactions, lockDir, claim, process, committed, faults>>

RemoveClaim ==
  /\ pc = "remove_lock" /\ claim # NoRun
  /\ claim' = NoRun
  /\ UNCHANGED <<workspace, transactions, lockDir, owner, named, process, committed, faults>>

RemoveLock ==
  /\ pc = "remove_lock" /\ owner = NoRun /\ claim = NoRun
  /\ lockDir' = FALSE
  /\ IF purpose = "recovery"
     THEN /\ pc' = "reacquire" /\ purpose' = "publication" /\ txn' = NoRun
          /\ UNCHANGED <<run, started, todo>>
     ELSE Exit
  /\ UNCHANGED <<workspace, transactions, owner, named, claim, committed, faults>>

-----------------------------------------------------------------------------
(* begin_transaction: make the directory, look at what exists, write the      *)
(* journal, and only then name the transaction in the owner file.             *)
MakeTransaction ==
  /\ pc = "mkdtemp"
  /\ txnDir' = txnDir \cup {run}
  /\ existed' = [existed EXCEPT ![run] = {a \in Artifact : ws[a] # Absent}]
  /\ Goto("journal")
  /\ UNCHANGED <<workspace, journal, lock, committed, faults>>

WriteJournal ==
  /\ pc = "journal"
  /\ journal' = [journal EXCEPT ![run] = "prepared"]
  /\ Goto("name")
  /\ UNCHANGED <<workspace, existed, txnDir, lock, committed, faults>>

NameTransaction ==
  /\ pc = "name"
  /\ named' = TRUE
  /\ pc' = "backup" /\ todo' = Artifact /\ UNCHANGED <<run, started, purpose, txn>>
  /\ UNCHANGED <<workspace, transactions, lockDir, owner, claim, committed, faults>>

(* stage: what exists is moved aside, the rules directory is made anew, and   *)
(* every artifact is written; a write is not atomic.                          *)
BackUp(a) ==
  /\ pc = "backup" /\ a \in todo
  /\ ws' = [ws EXCEPT ![a] = Absent]
  /\ backup' = [backup EXCEPT ![run][a] = ws[a]]
  /\ todo' = todo \ {a}
  /\ UNCHANGED <<transactions, lock, run, started, pc, purpose, txn, committed, faults>>

MakeRules ==
  /\ pc = "backup" /\ todo = {}
  /\ ws' = [ws EXCEPT ![Rules] = Partial]
  /\ pc' = "write" /\ todo' = Artifact /\ UNCHANGED <<run, started, purpose, txn>>
  /\ UNCHANGED <<backup, transactions, lock, committed, faults>>

BeginWrite(a) ==
  /\ pc = "write" /\ a \in todo /\ ws[a] = Absent
  /\ ws' = [ws EXCEPT ![a] = Partial]
  /\ UNCHANGED <<backup, transactions, lock, process, committed, faults>>

EndWrite(a) ==
  /\ pc = "write" /\ a \in todo /\ ws[a] = Partial
  /\ ws' = [ws EXCEPT ![a] = run]
  /\ todo' = todo \ {a}
  /\ UNCHANGED <<backup, transactions, lock, run, started, pc, purpose, txn, committed, faults>>

(* A commit that writes a phase no reader of the journal knows. *)
CommitUnknownPhase ==
  /\ pc = "write" /\ todo = {}
  /\ journal' = [journal EXCEPT ![run] = "published"]
  /\ committed' = committed \cup {run}
  /\ pc' = "remove_txn" /\ txn' = run /\ UNCHANGED <<run, started, purpose, todo>>
  /\ UNCHANGED <<workspace, existed, txnDir, lock, faults>>

(* commit_transaction: the phase of the journal is replaced by a rename. *)
Commit ==
  /\ pc = "write" /\ todo = {}
  /\ journal' = [journal EXCEPT ![run] = "committed"]
  /\ committed' = committed \cup {run}
  /\ pc' = "remove_txn" /\ txn' = run /\ UNCHANGED <<run, started, purpose, todo>>
  /\ UNCHANGED <<workspace, existed, txnDir, lock, faults>>

-----------------------------------------------------------------------------
(* A file system operation throws, or the process dies. *)
Fault == faults < MaxFaults /\ faults' = faults + 1

(* restore_failure before a snapshot was taken: nothing to restore, release. *)
BeginFails ==
  /\ pc \in Beginning /\ Fault
  /\ pc' = "remove_lock" /\ purpose' = "rollback" /\ UNCHANGED <<run, started, txn, todo>>
  /\ UNCHANGED <<workspace, transactions, lock, committed>>

(* A failure handler that releases the lock and restores nothing. *)
StageFailsUnrestored ==
  /\ pc \in Staging /\ Fault
  /\ pc' = "remove_lock" /\ purpose' = "rollback" /\ UNCHANGED <<run, started, txn, todo>>
  /\ UNCHANGED <<workspace, transactions, lock, committed>>

(* restore_failure with a snapshot: restore, then release. *)
StageFails ==
  /\ pc \in Staging /\ Fault
  /\ pc' = "restore" /\ purpose' = "rollback" /\ txn' = run /\ todo' = Artifact
  /\ UNCHANGED <<workspace, transactions, lock, run, started, committed>>

(* cleanup_transaction releases the lock whether or not the removal worked. *)
CleanupFails ==
  /\ pc = "remove_txn" /\ purpose = "publication" /\ Fault
  /\ Goto("remove_lock")
  /\ UNCHANGED <<workspace, transactions, lock, committed>>

(* finish_recovery drops the claim and throws. *)
RecoveryFails ==
  /\ purpose = "recovery" /\ pc \in {"examine"} \cup Removing /\ Fault
  /\ claim' = NoRun /\ Exit
  /\ UNCHANGED <<workspace, transactions, lockDir, owner, named, committed>>

(* The process dies, or an error leaves replace with the lock still held: a   *)
(* failed rollback, a failed removal of the lock, a failed acquisition.       *)
Crash ==
  /\ pc # "idle" /\ Fault /\ Exit
  /\ UNCHANGED <<workspace, transactions, lock, committed>>

-----------------------------------------------------------------------------
Acquire == \/ AcquireLock \/ LockIsTaken \/ RemoveOwnerless \/ OwnerIsDead
           \/ RemoveStaleClaim \/ PublishClaim
           \/ NothingToRecover \/ RecoverCommitted \/ RecoverPrepared \/ RejectJournal
Restore == \/ \E a \in Artifact : RestoreRemove(a) \/ RestoreMove(a) \/ RestoreWithoutBackup(a)
           \/ Restored
Remove == \/ \E a \in Artifact : RemoveBackup(a)
          \/ RemoveJournal \/ RemoveTransaction \/ RemoveOwner \/ RemoveClaim \/ RemoveLock
Stage == \/ MakeTransaction \/ WriteJournal \/ NameTransaction \/ MakeRules
         \/ \E a \in Artifact : BackUp(a) \/ BeginWrite(a) \/ EndWrite(a)
         \/ Commit
Advance == Acquire \/ Restore \/ Remove \/ Stage
Fail == BeginFails \/ StageFails \/ CleanupFails \/ RecoveryFails \/ Crash

Next == Advance \/ Fail \/ \E r \in Run : Start(r)

Spec == Init /\ [][Next]_vars

(* A live run keeps executing: replace is synchronous and waits for nobody. *)
FairSpec == Spec /\ WF_vars(Advance)

-----------------------------------------------------------------------------
(* What the workspace holds once the abandoned transaction, if any, has been  *)
(* recovered: the moved artifact, else what stayed, else nothing.              *)
Prepared == NamesTransaction /\ journal[owner] = "prepared"

DurableOf(a) == IF ~Prepared THEN ws[a]
                ELSE IF backup[owner][a] # Absent THEN backup[owner][a]
                ELSE IF a \in existed[owner] THEN ws[a] ELSE Absent

Durable == [a \in Artifact |-> DurableOf(a)]

Contents == Run \cup {Absent, Initial, Partial}

(* Every variable stays within the values the code gives it; a live run is at *)
(* one of the steps of replace, and no run is live between two executions.    *)
TypeOK ==
  /\ ws \in [Artifact -> Contents] /\ backup \in [Run -> [Artifact -> Contents]]
  /\ existed \in [Run -> SUBSET Artifact]
  /\ journal \in [Run -> {"none", "prepared", "committed"}] /\ txnDir \subseteq Run
  /\ lockDir \in BOOLEAN /\ named \in BOOLEAN
  /\ owner \in Run \cup {NoRun} /\ claim \in Run \cup {NoRun}
  /\ run \in Run \cup {NoRun} /\ started \subseteq Run /\ pc \in Steps
  /\ purpose \in {"publication", "recovery", "rollback"}
  /\ txn \in Run \cup {NoRun} /\ todo \subseteq Artifact
  /\ committed \subseteq Run /\ faults \in 0..MaxFaults

Whole == IF committed = {} THEN [Artifact -> {Initial, Absent}]
         ELSE {[a \in Artifact |-> r] : r \in committed}

(* A workspace that nobody owns, or that a run is about to journal, holds one *)
(* batch whole: no crash, failure or recovery leaves artifacts of two batches *)
(* or a half-written one behind a released lock.                              *)
UnownedIsWhole == (owner = NoRun \/ pc \in Beginning) => ws \in Whole

(* replace is atomic: seen through the recovery, the workspace changes only   *)
(* when commit_transaction returns, and then to the whole batch of that run.  *)
Atomic == INSTANCE AtomicPublication WITH content <- Durable, published <- committed
PublishesAtomically == Atomic!Spec

(* The lock names a transaction directory that has lost its journal.          *)
Wedged == NamesTransaction /\ journal[owner] = "none"

(* Whatever the runs before it left behind, a run that meets no fault of its  *)
(* own publishes its batch, unless it finds a transaction without a journal.  *)
RecoversAndPublishes ==
  \A r \in Run : (run = r /\ pc = "acquire" /\ faults = MaxFaults /\ ~Wedged)
                   ~> (r \in committed)

(* "keeps committed documents when recovery cleans a partially deleted        *)
(* transaction": recovery does not refuse the transaction of a run whose      *)
(* batch was committed, however far its deletion had got.                     *)
CleansPartiallyDeleted == [][RejectJournal => owner \notin committed]_vars
-----------------------------------------------------------------------------
(* The inductive invariant behind UnownedIsWhole and PublishesAtomically.     *)
Clean(r) == /\ r \notin txnDir /\ journal[r] = "none" /\ r \notin committed
            /\ \A a \in Artifact : backup[r][a] = Absent

BeforeTransaction == {"acquire", "recover", "reacquire", "claim", "examine", "mkdtemp"}

(* A run that has made no transaction has left nothing under its name. *)
FreshInv ==
  /\ \A r \in Run \ started : Clean(r)
  /\ (pc \in BeforeTransaction \/ purpose = "recovery") => (run \in Run /\ Clean(run))
  /\ run # NoRun => run \in started
  /\ pc \in Beginning \cup Staging => run \in Run /\ run \notin committed
  /\ pc \in Recovering => purpose = "recovery"
  /\ pc \in Beginning \cup Staging \cup {"idle", "acquire", "recover", "reacquire"} => purpose = "publication"

(* The owner file names the transaction of a run that stages, and not before. *)
OwnerInv ==
  /\ owner = NoRun => ~named
  /\ pc \in Beginning \cup Staging => owner = run
  /\ pc \in Beginning => ~named
  /\ pc \in {"journal", "name"} => run \in txnDir /\ \A a \in Artifact : backup[run][a] = Absent
  /\ pc \in {"journal", "name"} => existed[run] = {a \in Artifact : ws[a] # Absent}
  /\ pc = "name" => journal[run] = "prepared"
  /\ pc \in Staging => Prepared

(* Until the commit, an artifact is where it was, in the backup, or new. *)
StageInv ==
  /\ \A t \in Run : \A a \in Artifact : backup[t][a] # Absent => a \in existed[t]
  /\ pc = "backup" =>
       \A a \in Artifact :
         IF a \in todo THEN backup[run][a] = Absent /\ (a \in existed[run] <=> ws[a] # Absent)
         ELSE ws[a] = Absent /\ (a \in existed[run] => backup[run][a] # Absent)
  /\ pc = "write" =>
       \A a \in Artifact : /\ a \in existed[run] => backup[run][a] # Absent
                           /\ a \notin todo => ws[a] = run

(* A restored artifact stays as it was before the transaction. *)
IsBack(a) == backup[txn][a] = Absent /\ (a \notin existed[txn] => ws[a] = Absent)

RestoreInv ==
  /\ pc \in {"restore", "remove_txn"} => txn = owner /\ NamesTransaction
  /\ pc = "restore" => Prepared /\ purpose # "publication" /\ \A a \in Artifact \ todo : IsBack(a)
  /\ pc = "remove_txn" /\ Prepared => purpose # "publication" /\ \A a \in Artifact : IsBack(a)
  /\ pc = "remove_lock" => ~Prepared

DurableInv == Durable \in Whole

Inv == TypeOK /\ FreshInv /\ OwnerInv /\ StageInv /\ RestoreInv /\ DurableInv
=============================================================================
