--------------------------- MODULE PublicationLock ---------------------------
(***************************************************************************)
(* The task publication lock under contention: several linter processes     *)
(* call TaskPublicationLock.acquire, publish and release at the same time,   *)
(* and any of them may be killed.  Everything goes through paths of the file *)
(* system, so what a process has looked at may be gone when it acts.         *)
(* A publication is a few steps here (name the transaction, stage, commit or *)
(* roll back, remove the transaction); TaskPublication has its detail.       *)
(*                                                                          *)
(* A recursive removal lists a directory, removes the entries of the list    *)
(* one by one in any order, and then the directory, which fails when an      *)
(* entry has appeared in between; an entry that has gone is passed over.      *)
(***************************************************************************)
EXTENDS Naturals, FiniteSets

CONSTANTS Proc,      \* linter processes; each publishes once
          MaxDeaths  \* bound: how many of them are killed

None == "none"          \* no owner file
Missing == "missing"    \* no such directory
Recovery == "recovery"  \* the path of the recovery claim in the lock directory
Owner == "owner"        \* that of the owner file

ASSUME ProcAssumption == Proc \cap {None, Missing, Recovery, Owner} = {} /\ MaxDeaths \in Nat

(* The directories in the lock: the claim, and p the one that p stages its claim in. *)
Claims == Proc \cup {Recovery}

VARIABLES
  lockDir,   \* the lock directory exists
  owner,     \* the process its owner file names
  claims,    \* what the owner file in each of Claims names; None: the directory without a file
  txn,       \* the transaction directory of each process, by what its journal says
  named,     \* the processes whose owner record names their transaction
  alive,     \* the processes that have not been killed
  pc,        \* the next step of each process
  seen,      \* the owner that a process has read
  sawTxn,    \* the processes that have read an owner with a transaction
  left,      \* what a recursive removal has listed and not yet removed
  inside,    \* the listed directory whose own file it has removed
  contended, \* history: processes that ran while another one was alive
  faulted,   \* history: processes whose recovery met a failing operation
  apart      \* history: no two live processes worked under the lock at once

vars == <<lockDir, owner, claims, txn, named, alive, pc, seen, sawTxn, left, inside,
          contended, faulted, apart>>
lock == <<lockDir, owner, claims>>
publication == <<txn, named>>
locals == <<seen, sawTxn, left, inside>>
history == <<alive, contended, faulted, apart>>

Removing == {"rm_claim", "drop_claim", "unlink_ownerless", "unlink_recovered", "unlink_released"}
RemovingLock == {"unlink_ownerless", "unlink_recovered", "unlink_released"}
Ended == {"done", "failed"}

Init ==
  /\ lockDir = FALSE /\ owner = None /\ claims = [c \in Claims |-> Missing]
  /\ txn = [p \in Proc |-> "gone"] /\ named = {}
  /\ alive = Proc /\ contended = {} /\ faulted = {} /\ apart = TRUE
  /\ pc = [p \in Proc |-> "new"] /\ seen = [p \in Proc |-> None] /\ sawTxn = {}
  /\ left = [p \in Proc |-> {}] /\ inside = [p \in Proc |-> None]

(* p is alive and about to take step from; it goes on with step to. *)
Moves(p, from, to) == p \in alive /\ pc[p] = from /\ pc' = [pc EXCEPT ![p] = to]
Live(p) == p \in alive
Vacant(dir) == dir \in {Missing, None}   \* a rename may replace it
IsEmpty == owner = None /\ \A c \in Claims : claims[c] = Missing

(* Under the lock: from getting it to its removal, and likewise for a takeover. *)
Occupying == {"begin", "stage", "clean", "cleaned", "release", "rm_released", "rm_ownerless",
              "restore", "restoring", "rm_journal", "rm_txn", "assert_again", "rm_recovered"}
Occupies(p) == pc[p] \in Occupying \/ (pc[p] \in RemovingLock /\ left[p] # {})
StaysApart(p) == apart' = (apart /\ \A q \in alive \ {p} : ~Occupies(q))

(* Starting while another process has not exited marks both as contending. *)
Running == {q \in alive : pc[q] # "new"}

Start(p) ==
  /\ Moves(p, "new", "acquire")
  /\ contended' = IF Running = {} THEN contended ELSE contended \cup Running \cup {p}
  /\ UNCHANGED <<lock, publication, locals, alive, faulted, apart>>

-----------------------------------------------------------------------------
(* publish_lock: the rename replaces no directory or an empty one. *)
AcquireLock(p) ==
  /\ \E from \in {"acquire", "reacquire"} : Moves(p, from, "begin")
  /\ IsEmpty
  /\ lockDir' = TRUE /\ owner' = p /\ StaysApart(p)
  /\ UNCHANGED <<claims, publication, locals, alive, contended, faulted>>

RenameFails(p) ==
  /\ ~IsEmpty
  /\ Moves(p, "acquire", "inspect") \/ Moves(p, "reacquire", "reinspect")
  /\ UNCHANGED <<lock, publication, locals, history>>

(* After the failed rename: a directory there means contention; with none     *)
(* there any more the error of the rename is thrown.                           *)
Inspect(p) ==
  /\ \/ lockDir /\ Moves(p, "inspect", "recover")
     \/ ~lockDir /\ Moves(p, "inspect", "failed")
     \/ Moves(p, "reinspect", "failed")
  /\ UNCHANGED <<lock, publication, locals, history>>

(* recover_abandoned_lock: is there an owner file? *)
LookForOwner(p) ==
  /\ \/ owner = None /\ Moves(p, "recover", "rm_ownerless") /\ StaysApart(p)
     \/ owner # None /\ Moves(p, "recover", "read_owner") /\ UNCHANGED apart
  /\ UNCHANGED <<lock, publication, locals, alive, contended, faulted>>

(* owner_state, then whether its process lives: the record may have been      *)
(* replaced by the time it is found dead.                                      *)
ReadOwner(p) ==
  /\ IF owner # None
     THEN /\ Moves(p, "read_owner", "check_live") /\ seen' = [seen EXCEPT ![p] = owner]
          /\ sawTxn' = IF owner \in named THEN sawTxn \cup {p} ELSE sawTxn \ {p}
     ELSE Moves(p, "read_owner", "failed") /\ UNCHANGED <<seen, sawTxn>>
  /\ UNCHANGED <<lock, publication, left, inside, history>>

CheckLive(p) ==
  /\ IF Live(seen[p]) THEN Moves(p, "check_live", "failed") ELSE Moves(p, "check_live", "claim")
  /\ UNCHANGED <<lock, publication, locals, history>>

-----------------------------------------------------------------------------
(* A recursive removal of the claim begins. *)
BeginsClaimRemoval(p) ==
  left' = [left EXCEPT ![p] = {Recovery}] /\ inside' = [inside EXCEPT ![p] = None]

(* A look at the claim that forgets to ask whether its owner lives. *)
LookForClaimGivesUp(p) ==
  /\ \/ claims[Recovery] = Missing /\ Moves(p, "claim", "stage_claim")
     \/ claims[Recovery] # Missing /\ Moves(p, "claim", "failed")
  /\ UNCHANGED <<lock, publication, locals, history>>

(* remove_existing_claim: a claim without its owner file counts as stale. *)
LookForClaim(p) ==
  /\ \/ claims[Recovery] = Missing /\ Moves(p, "claim", "stage_claim") /\ UNCHANGED <<left, inside>>
     \/ Live(claims[Recovery]) /\ Moves(p, "claim", "failed") /\ UNCHANGED <<left, inside>>
     \/ /\ claims[Recovery] # Missing /\ ~Live(claims[Recovery])
        /\ Moves(p, "claim", "rm_claim") /\ BeginsClaimRemoval(p)
  /\ UNCHANGED <<lock, publication, seen, sawTxn, history>>

(* The claim is made in a directory of its own, in the lock, and renamed. *)
StageClaim(p) ==
  /\ IF lockDir
     THEN Moves(p, "stage_claim", "publish_claim") /\ claims' = [claims EXCEPT ![p] = p]
     ELSE Moves(p, "stage_claim", "failed") /\ UNCHANGED claims
  /\ UNCHANGED <<lockDir, owner, publication, locals, history>>

PublishClaim(p) ==
  /\ IF claims[p] # Missing /\ Vacant(claims[Recovery])
     THEN /\ Moves(p, "publish_claim", "assert_first")
          /\ claims' = [claims EXCEPT ![Recovery] = claims[p], ![p] = Missing]
     ELSE Moves(p, "publish_claim", "failed") /\ claims' = [claims EXCEPT ![p] = Missing]
  /\ UNCHANGED <<lockDir, owner, publication, locals, history>>

-----------------------------------------------------------------------------
(* finish_recovery removes whatever is at the path of the claim when it throws. *)
Throws(p, from) == Moves(p, from, "drop_claim") /\ BeginsClaimRemoval(p)

SameToken(p) == owner = seen[p]
SameOwner(p) == SameToken(p) /\ (owner \in named <=> p \in sawTxn)

(* assert_recovery_owner, before and after the transaction is recovered. *)
AssertOwner(p) ==
  /\ IF SameOwner(p)
     THEN /\ \/ Moves(p, "assert_first", "restore") /\ StaysApart(p)
             \/ Moves(p, "assert_again", "rm_recovered") /\ UNCHANGED apart
          /\ UNCHANGED <<left, inside>>
     ELSE (\E from \in {"assert_first", "assert_again"} : Throws(p, from)) /\ UNCHANGED apart
  /\ UNCHANGED <<lock, publication, seen, sawTxn, alive, contended, faulted>>

(* recover_owner_transaction, for the transaction of the owner read before. *)
NothingToRestore(p) ==
  /\ p \in sawTxn => txn[seen[p]] = "gone"
  /\ Moves(p, "restore", "assert_again")
  /\ UNCHANGED <<lock, publication, locals, history>>

RejectJournal(p) ==
  /\ p \in sawTxn /\ txn[seen[p]] = "bare"
  /\ Throws(p, "restore")
  /\ UNCHANGED <<lock, publication, seen, sawTxn, history>>

BeginRestore(p) ==
  /\ p \in sawTxn
  /\ \/ txn[seen[p]] = "prepared" /\ Moves(p, "restore", "restoring")
     \/ txn[seen[p]] = "committed" /\ Moves(p, "restore", "rm_journal")
  /\ UNCHANGED <<lock, publication, locals, history>>

EndRestore(p) ==
  /\ Moves(p, "restoring", "rm_journal")
  /\ UNCHANGED <<lock, publication, locals, history>>

(* A file operation of the recovery fails, as when another one has been there. *)
RecoveryFails(p) ==
  /\ \E from \in {"assert_first", "restore", "restoring", "rm_journal", "rm_txn",
                  "assert_again", "rm_recovered", "unlink_recovered"} : Throws(p, from)
  /\ faulted' = faulted \cup {p}
  /\ UNCHANGED <<lock, publication, seen, sawTxn, alive, contended, apart>>

(* remove_path(transaction), by its own process or by a recovery. *)
RemoveJournal(p) ==
  /\ \/ Moves(p, "clean", "cleaned") /\ txn' = [txn EXCEPT ![p] = "bare"]
     \/ /\ Moves(p, "rm_journal", "rm_txn")
        /\ txn' = [txn EXCEPT ![seen[p]] = IF @ = "gone" THEN "gone" ELSE "bare"]
  /\ UNCHANGED <<lock, named, locals, history>>

RemoveTransaction(p) ==
  /\ \/ Moves(p, "cleaned", "release") /\ txn' = [txn EXCEPT ![p] = "gone"]
     \/ Moves(p, "rm_txn", "assert_again") /\ txn' = [txn EXCEPT ![seen[p]] = "gone"]
  /\ UNCHANGED <<lock, named, locals, history>>

-----------------------------------------------------------------------------
(* remove_path(lock_path): the listing. *)
ListLock(p) ==
  /\ \/ Moves(p, "rm_ownerless", "unlink_ownerless")
     \/ Moves(p, "rm_recovered", "unlink_recovered")
     \/ Moves(p, "rm_released", "unlink_released")
  /\ left' = [left EXCEPT ![p] = {c \in Claims : claims[c] # Missing}
                                   \cup (IF owner # None THEN {Owner} ELSE {})]
  /\ inside' = [inside EXCEPT ![p] = None]
  /\ UNCHANGED <<lock, publication, seen, sawTxn, history>>

UnlinkOwner(p) ==
  /\ p \in alive /\ pc[p] \in RemovingLock /\ Owner \in left[p] /\ inside[p] = None
  /\ owner' = None /\ left' = [left EXCEPT ![p] = @ \ {Owner}]
  /\ UNCHANGED <<lockDir, claims, publication, pc, seen, sawTxn, inside, history>>

(* A directory in the list: its file first, and then itself. *)
UnlinkClaim(p, c) ==
  /\ p \in alive /\ pc[p] \in Removing /\ c \in left[p] /\ inside[p] = None
  /\ \/ /\ claims[c] = Missing /\ left' = [left EXCEPT ![p] = @ \ {c}]
        /\ UNCHANGED <<claims, inside>>
     \/ /\ claims[c] # Missing /\ claims' = [claims EXCEPT ![c] = None]
        /\ inside' = [inside EXCEPT ![p] = c] /\ UNCHANGED left
  /\ UNCHANGED <<lockDir, owner, publication, pc, seen, sawTxn, history>>

RemoveClaim(p, c) ==
  /\ p \in alive /\ pc[p] \in Removing /\ inside[p] = c /\ Vacant(claims[c])
  /\ claims' = [claims EXCEPT ![c] = Missing]
  /\ left' = [left EXCEPT ![p] = @ \ {c}] /\ inside' = [inside EXCEPT ![p] = None]
  /\ UNCHANGED <<lockDir, owner, publication, pc, seen, sawTxn, history>>

ClaimRemoved(p) ==
  /\ left[p] = {}
  /\ Moves(p, "rm_claim", "stage_claim") \/ Moves(p, "drop_claim", "failed")
  /\ UNCHANGED <<lock, publication, locals, history>>

RemoveDirectory(p) ==
  /\ left[p] = {} /\ IsEmpty
  /\ \/ \E from \in {"unlink_ownerless", "unlink_recovered"} : Moves(p, from, "reacquire")
     \/ Moves(p, "unlink_released", "done")
  /\ lockDir' = FALSE
  /\ UNCHANGED <<owner, claims, publication, locals, history>>

(* Something was made in a directory after it was listed: the removal throws. *)
RemovalFails(p) ==
  /\ \/ \E c \in Claims : inside[p] = c /\ ~Vacant(claims[c])
     \/ left[p] = {} /\ pc[p] \in RemovingLock /\ ~IsEmpty
  /\ \/ (\E from \in Removing \ {"unlink_recovered"} : Moves(p, from, "failed")) /\ UNCHANGED <<left, inside>>
     \/ Throws(p, "unlink_recovered")
  /\ UNCHANGED <<lock, publication, seen, sawTxn, history>>

-----------------------------------------------------------------------------
(* begin_transaction rewrites the owner file by a rename into the lock.  When    *)
(* that fails, as it does if the lock is gone, the publication just releases.     *)
Begin(p) ==
  /\ \/ lockDir /\ Moves(p, "begin", "stage") /\ owner' = p /\ named' = named \cup {p}
     \/ Moves(p, "begin", "release") /\ UNCHANGED <<owner, named>>
  /\ txn' = [txn EXCEPT ![p] = "prepared"]
  /\ UNCHANGED <<lockDir, claims, locals, history>>

(* Staged and committed, or rolled back; the transaction is removed next. *)
Commit(p) ==
  /\ Moves(p, "stage", "clean") /\ txn' = [txn EXCEPT ![p] = "committed"]
  /\ UNCHANGED <<lock, named, locals, history>>

Rollback(p) ==
  /\ Moves(p, "stage", "clean")
  /\ UNCHANGED <<lock, publication, locals, history>>

(* release removes the lock of its own token only. *)
Release(p) ==
  /\ \/ owner = p /\ Moves(p, "release", "rm_released")
     \/ owner # p /\ Moves(p, "release", "done")
  /\ UNCHANGED <<lock, publication, locals, history>>

(* The process is killed at whatever step it is. *)
Die(p) ==
  /\ p \in alive /\ pc[p] \notin Ended \cup {"new"}
  /\ Cardinality(Proc \ alive) < MaxDeaths
  /\ alive' = alive \ {p}
  /\ UNCHANGED <<lock, publication, pc, locals, contended, faulted, apart>>

Acquire(p) ==
  \/ Start(p) \/ AcquireLock(p) \/ RenameFails(p) \/ Inspect(p) \/ LookForOwner(p)
  \/ ReadOwner(p) \/ CheckLive(p) \/ LookForClaim(p) \/ StageClaim(p) \/ PublishClaim(p)
Recover(p) ==
  \/ AssertOwner(p) \/ NothingToRestore(p) \/ RejectJournal(p) \/ BeginRestore(p)
  \/ EndRestore(p) \/ RecoveryFails(p) \/ RemoveJournal(p) \/ RemoveTransaction(p)
Remove(p) ==
  \/ ListLock(p) \/ UnlinkOwner(p) \/ (\E c \in Claims : UnlinkClaim(p, c) \/ RemoveClaim(p, c))
  \/ ClaimRemoved(p) \/ RemoveDirectory(p) \/ RemovalFails(p)
Publish(p) == Begin(p) \/ Commit(p) \/ Rollback(p) \/ Release(p)

Next == \E p \in Proc : Acquire(p) \/ Recover(p) \/ Remove(p) \/ Publish(p) \/ Die(p)

Spec == Init /\ [][Next]_vars
-----------------------------------------------------------------------------
(* The lock names a transaction directory that has lost its journal. *)
Wedged == owner \in named /\ txn[owner] = "bare"

(* Whatever killed processes left in the lock, at whatever step of whatever     *)
(* contention they died, a process that then has it to itself and meets no       *)
(* failing operation is refused only by a transaction without its journal.       *)
AloneAcquires == \A p \in Proc \ contended : pc[p] = "failed" => Wedged \/ p \in faulted

(* As long as no two live processes were under the lock at once, wherever others *)
(* were killed, failed, or came late: who publishes follows on no transaction     *)
(* of a killed process that is still to be restored.                              *)
RestoredFirst ==
  apart => \A p \in alive : pc[p] \in {"begin", "stage"} =>
             \A q \in named \ alive : txn[q] # "prepared"
=============================================================================
