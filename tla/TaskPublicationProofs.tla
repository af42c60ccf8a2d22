----------------------- MODULE TaskPublicationProofs -----------------------
(***************************************************************************)
(* Proofs about TaskPublication, for every set of runs, every set of        *)
(* artifacts and every bound on the faults.  Inv is proved conjunct by      *)
(* conjunct: a lemma per conjunct, and in it a step per action.             *)
(***************************************************************************)
EXTENDS TaskPublication, TLAPS

USE RunAssumption, RulesAssumption, FaultsAssumption

(* The initial states satisfy the invariant and are initial states of the    *)
(* abstract specification.                                                   *)
LEMMA InitInv == Init => Inv /\ Atomic!Init
<1> SUFFICES ASSUME Init PROVE Inv /\ Atomic!Init
  OBVIOUS
<1> USE DEF Init, Absent, Initial, Partial, NoRun
<1>1. TypeOK
  <2>1. ws \in [Artifact -> Contents] /\ backup \in [Run -> [Artifact -> Contents]]
    BY DEF Contents
  <2>2. 0 \in 0..MaxFaults
    OBVIOUS
  <2> QED
    BY <2>1, <2>2 DEF TypeOK, Steps
<1>2. FreshInv /\ OwnerInv /\ StageInv /\ RestoreInv
  BY DEF FreshInv, OwnerInv, StageInv, RestoreInv, Clean, BeforeTransaction, Recovering,
         Removing, Beginning, Staging, NamesTransaction, Prepared
<1>3. Durable = ws
  BY DEF Durable, DurableOf, Prepared, NamesTransaction
<1>4. DurableInv /\ Atomic!Init
  BY <1>3 DEF DurableInv, Whole, Atomic!Init, Atomic!Absent, Atomic!Initial
<1> QED
  BY <1>1, <1>2, <1>4 DEF Inv

(* Every step keeps every variable within its type. *)
LEMMA TypeStep ==
  ASSUME TypeOK, FreshInv, OwnerInv, RestoreInv, [Next]_vars
  PROVE  TypeOK'
<1> USE DEF workspace, transactions, lock, process, vars, Exit, Goto, Fault, Recovering,
       Removing, Beginning, Staging, BeforeTransaction, Steps, Absent, Initial, Partial,
       NoRun, Contents, TypeOK, FreshInv, OwnerInv, RestoreInv, NamesTransaction, Prepared,
       LockIsFree
<1>1. CASE AcquireLock
  BY <1>1 DEF AcquireLock
<1>2. CASE LockIsTaken
  BY <1>2 DEF LockIsTaken
<1>3. CASE RemoveOwnerless
  BY <1>3 DEF RemoveOwnerless
<1>4. CASE OwnerIsDead
  BY <1>4 DEF OwnerIsDead
<1>5. CASE RemoveStaleClaim
  BY <1>5 DEF RemoveStaleClaim
<1>6. CASE PublishClaim
  BY <1>6 DEF PublishClaim
<1>7. CASE NothingToRecover
  BY <1>7 DEF NothingToRecover
<1>8. CASE RecoverCommitted
  BY <1>8 DEF RecoverCommitted
<1>9. CASE RecoverPrepared
  BY <1>9 DEF RecoverPrepared
<1>10. CASE RejectJournal
  BY <1>10 DEF RejectJournal
<1>11. ASSUME NEW a \in Artifact, RestoreRemove(a) PROVE TypeOK'
  BY <1>11 DEF RestoreRemove
<1>12. ASSUME NEW a \in Artifact, RestoreMove(a) PROVE TypeOK'
  BY <1>12 DEF RestoreMove
<1>13. ASSUME NEW a \in Artifact, RestoreWithoutBackup(a) PROVE TypeOK'
  BY <1>13 DEF RestoreWithoutBackup
<1>14. CASE Restored
  BY <1>14 DEF Restored
<1>15. ASSUME NEW a \in Artifact, RemoveBackup(a) PROVE TypeOK'
  BY <1>15 DEF RemoveBackup
<1>16. CASE RemoveJournal
  BY <1>16 DEF RemoveJournal
<1>17. CASE RemoveTransaction
  BY <1>17 DEF RemoveTransaction
<1>18. CASE RemoveOwner
  BY <1>18 DEF RemoveOwner
<1>19. CASE RemoveClaim
  BY <1>19 DEF RemoveClaim
<1>20. CASE RemoveLock
  BY <1>20 DEF RemoveLock
<1>21. CASE MakeTransaction
  BY <1>21 DEF MakeTransaction
<1>22. CASE WriteJournal
  BY <1>22 DEF WriteJournal
<1>23. CASE NameTransaction
  BY <1>23 DEF NameTransaction
<1>24. CASE MakeRules
  BY <1>24 DEF MakeRules
<1>25. ASSUME NEW a \in Artifact, BackUp(a) PROVE TypeOK'
  BY <1>25 DEF BackUp
<1>26. ASSUME NEW a \in Artifact, BeginWrite(a) PROVE TypeOK'
  BY <1>26 DEF BeginWrite
<1>27. ASSUME NEW a \in Artifact, EndWrite(a) PROVE TypeOK'
  BY <1>27 DEF EndWrite
<1>28. CASE Commit
  BY <1>28 DEF Commit
<1>29. CASE BeginFails
  BY <1>29 DEF BeginFails
<1>30. CASE StageFails
  BY <1>30 DEF StageFails
<1>31. CASE CleanupFails
  BY <1>31 DEF CleanupFails
<1>32. CASE RecoveryFails
  BY <1>32 DEF RecoveryFails
<1>33. CASE Crash
  BY <1>33 DEF Crash
<1>34. ASSUME NEW r \in Run, Start(r) PROVE TypeOK'
  BY <1>34 DEF Start
<1>35. CASE UNCHANGED vars
  BY <1>35
<1> QED
  BY <1>1, <1>2, <1>3, <1>4, <1>5, <1>6, <1>7, <1>8, <1>9, <1>10, <1>11, <1>12, <1>13,
     <1>14, <1>15, <1>16, <1>17, <1>18, <1>19, <1>20, <1>21, <1>22, <1>23, <1>24, <1>25,
     <1>26, <1>27, <1>28, <1>29, <1>30, <1>31, <1>32, <1>33, <1>34, <1>35
     DEF Next, Advance, Acquire, Restore, Remove, Stage, Fail

(* Only a live run leaves anything under its own name. *)
LEMMA FreshStep ==
  ASSUME TypeOK, FreshInv, OwnerInv, RestoreInv, [Next]_vars
  PROVE  FreshInv'
<1> USE DEF workspace, transactions, lock, process, vars, Exit, Goto, Fault, Recovering,
       Removing, Beginning, Staging, BeforeTransaction, Steps, Absent, Initial, Partial,
       NoRun, Contents, TypeOK, FreshInv, OwnerInv, RestoreInv, Clean, NamesTransaction,
       Prepared, LockIsFree
<1>1. CASE AcquireLock
  BY <1>1 DEF AcquireLock
<1>2. CASE LockIsTaken
  BY <1>2 DEF LockIsTaken
<1>3. CASE RemoveOwnerless
  BY <1>3 DEF RemoveOwnerless
<1>4. CASE OwnerIsDead
  BY <1>4 DEF OwnerIsDead
<1>5. CASE RemoveStaleClaim
  BY <1>5 DEF RemoveStaleClaim
<1>6. CASE PublishClaim
  BY <1>6 DEF PublishClaim
<1>7. CASE NothingToRecover
  BY <1>7 DEF NothingToRecover
<1>8. CASE RecoverCommitted
  BY <1>8 DEF RecoverCommitted
<1>9. CASE RecoverPrepared
  BY <1>9 DEF RecoverPrepared
<1>10. CASE RejectJournal
  BY <1>10 DEF RejectJournal
<1>11. ASSUME NEW a \in Artifact, RestoreRemove(a) PROVE FreshInv'
  BY <1>11 DEF RestoreRemove
<1>12. ASSUME NEW a \in Artifact, RestoreMove(a) PROVE FreshInv'
  BY <1>12 DEF RestoreMove
<1>13. ASSUME NEW a \in Artifact, RestoreWithoutBackup(a) PROVE FreshInv'
  BY <1>13 DEF RestoreWithoutBackup
<1>14. CASE Restored
  BY <1>14 DEF Restored
<1>15. ASSUME NEW a \in Artifact, RemoveBackup(a) PROVE FreshInv'
  BY <1>15 DEF RemoveBackup
<1>16. CASE RemoveJournal
  BY <1>16 DEF RemoveJournal
<1>17. CASE RemoveTransaction
  BY <1>17 DEF RemoveTransaction
<1>18. CASE RemoveOwner
  BY <1>18 DEF RemoveOwner
<1>19. CASE RemoveClaim
  BY <1>19 DEF RemoveClaim
<1>20. CASE RemoveLock
  BY <1>20 DEF RemoveLock
<1>21. CASE MakeTransaction
  BY <1>21 DEF MakeTransaction
<1>22. CASE WriteJournal
  BY <1>22 DEF WriteJournal
<1>23. CASE NameTransaction
  BY <1>23 DEF NameTransaction
<1>24. CASE MakeRules
  BY <1>24 DEF MakeRules
<1>25. ASSUME NEW a \in Artifact, BackUp(a) PROVE FreshInv'
  BY <1>25 DEF BackUp
<1>26. ASSUME NEW a \in Artifact, BeginWrite(a) PROVE FreshInv'
  BY <1>26 DEF BeginWrite
<1>27. ASSUME NEW a \in Artifact, EndWrite(a) PROVE FreshInv'
  BY <1>27 DEF EndWrite
<1>28. CASE Commit
  BY <1>28 DEF Commit
<1>29. CASE BeginFails
  BY <1>29 DEF BeginFails
<1>30. CASE StageFails
  BY <1>30 DEF StageFails
<1>31. CASE CleanupFails
  BY <1>31 DEF CleanupFails
<1>32. CASE RecoveryFails
  BY <1>32 DEF RecoveryFails
<1>33. CASE Crash
  BY <1>33 DEF Crash
<1>34. ASSUME NEW r \in Run, Start(r) PROVE FreshInv'
  BY <1>34 DEF Start
<1>35. CASE UNCHANGED vars
  BY <1>35
<1> QED
  BY <1>1, <1>2, <1>3, <1>4, <1>5, <1>6, <1>7, <1>8, <1>9, <1>10, <1>11, <1>12, <1>13,
     <1>14, <1>15, <1>16, <1>17, <1>18, <1>19, <1>20, <1>21, <1>22, <1>23, <1>24, <1>25,
     <1>26, <1>27, <1>28, <1>29, <1>30, <1>31, <1>32, <1>33, <1>34, <1>35
     DEF Next, Advance, Acquire, Restore, Remove, Stage, Fail

(* The owner file of a staging run names its prepared transaction. *)
LEMMA OwnerStep ==
  ASSUME TypeOK, FreshInv, OwnerInv, RestoreInv, [Next]_vars
  PROVE  OwnerInv'
<1> USE DEF workspace, transactions, lock, process, vars, Exit, Goto, Fault, Recovering,
       Removing, Beginning, Staging, BeforeTransaction, Steps, Absent, Initial, Partial,
       NoRun, Contents, TypeOK, FreshInv, OwnerInv, RestoreInv, Clean, NamesTransaction,
       Prepared, LockIsFree
<1>1. CASE AcquireLock
  BY <1>1 DEF AcquireLock
<1>2. CASE LockIsTaken
  BY <1>2 DEF LockIsTaken
<1>3. CASE RemoveOwnerless
  BY <1>3 DEF RemoveOwnerless
<1>4. CASE OwnerIsDead
  BY <1>4 DEF OwnerIsDead
<1>5. CASE RemoveStaleClaim
  BY <1>5 DEF RemoveStaleClaim
<1>6. CASE PublishClaim
  BY <1>6 DEF PublishClaim
<1>7. CASE NothingToRecover
  BY <1>7 DEF NothingToRecover
<1>8. CASE RecoverCommitted
  BY <1>8 DEF RecoverCommitted
<1>9. CASE RecoverPrepared
  BY <1>9 DEF RecoverPrepared
<1>10. CASE RejectJournal
  BY <1>10 DEF RejectJournal
<1>11. ASSUME NEW a \in Artifact, RestoreRemove(a) PROVE OwnerInv'
  BY <1>11 DEF RestoreRemove
<1>12. ASSUME NEW a \in Artifact, RestoreMove(a) PROVE OwnerInv'
  BY <1>12 DEF RestoreMove
<1>13. ASSUME NEW a \in Artifact, RestoreWithoutBackup(a) PROVE OwnerInv'
  BY <1>13 DEF RestoreWithoutBackup
<1>14. CASE Restored
  BY <1>14 DEF Restored
<1>15. ASSUME NEW a \in Artifact, RemoveBackup(a) PROVE OwnerInv'
  BY <1>15 DEF RemoveBackup
<1>16. CASE RemoveJournal
  BY <1>16 DEF RemoveJournal
<1>17. CASE RemoveTransaction
  BY <1>17 DEF RemoveTransaction
<1>18. CASE RemoveOwner
  BY <1>18 DEF RemoveOwner
<1>19. CASE RemoveClaim
  BY <1>19 DEF RemoveClaim
<1>20. CASE RemoveLock
  BY <1>20 DEF RemoveLock
<1>21. CASE MakeTransaction
  BY <1>21 DEF MakeTransaction
<1>22. CASE WriteJournal
  BY <1>22 DEF WriteJournal
<1>23. CASE NameTransaction
  BY <1>23 DEF NameTransaction
<1>24. CASE MakeRules
  BY <1>24 DEF MakeRules
<1>25. ASSUME NEW a \in Artifact, BackUp(a) PROVE OwnerInv'
  BY <1>25 DEF BackUp
<1>26. ASSUME NEW a \in Artifact, BeginWrite(a) PROVE OwnerInv'
  BY <1>26 DEF BeginWrite
<1>27. ASSUME NEW a \in Artifact, EndWrite(a) PROVE OwnerInv'
  BY <1>27 DEF EndWrite
<1>28. CASE Commit
  BY <1>28 DEF Commit
<1>29. CASE BeginFails
  BY <1>29 DEF BeginFails
<1>30. CASE StageFails
  BY <1>30 DEF StageFails
<1>31. CASE CleanupFails
  BY <1>31 DEF CleanupFails
<1>32. CASE RecoveryFails
  BY <1>32 DEF RecoveryFails
<1>33. CASE Crash
  BY <1>33 DEF Crash
<1>34. ASSUME NEW r \in Run, Start(r) PROVE OwnerInv'
  BY <1>34 DEF Start
<1>35. CASE UNCHANGED vars
  BY <1>35
<1> QED
  BY <1>1, <1>2, <1>3, <1>4, <1>5, <1>6, <1>7, <1>8, <1>9, <1>10, <1>11, <1>12, <1>13,
     <1>14, <1>15, <1>16, <1>17, <1>18, <1>19, <1>20, <1>21, <1>22, <1>23, <1>24, <1>25,
     <1>26, <1>27, <1>28, <1>29, <1>30, <1>31, <1>32, <1>33, <1>34, <1>35
     DEF Next, Advance, Acquire, Restore, Remove, Stage, Fail

(* Staging moves aside what existed before it writes over it. *)
LEMMA StageStep ==
  ASSUME TypeOK, FreshInv, OwnerInv, StageInv, RestoreInv, [Next]_vars
  PROVE  StageInv'
<1> USE DEF workspace, transactions, lock, process, vars, Exit, Goto, Fault, Recovering,
       Removing, Beginning, Staging, BeforeTransaction, Steps, Absent, Initial, Partial,
       NoRun, Contents, TypeOK, FreshInv, OwnerInv, StageInv, RestoreInv, Clean,
       NamesTransaction, Prepared, LockIsFree
<1>1. CASE AcquireLock
  BY <1>1 DEF AcquireLock
<1>2. CASE LockIsTaken
  BY <1>2 DEF LockIsTaken
<1>3. CASE RemoveOwnerless
  BY <1>3 DEF RemoveOwnerless
<1>4. CASE OwnerIsDead
  BY <1>4 DEF OwnerIsDead
<1>5. CASE RemoveStaleClaim
  BY <1>5 DEF RemoveStaleClaim
<1>6. CASE PublishClaim
  BY <1>6 DEF PublishClaim
<1>7. CASE NothingToRecover
  BY <1>7 DEF NothingToRecover
<1>8. CASE RecoverCommitted
  BY <1>8 DEF RecoverCommitted
<1>9. CASE RecoverPrepared
  BY <1>9 DEF RecoverPrepared
<1>10. CASE RejectJournal
  BY <1>10 DEF RejectJournal
<1>11. ASSUME NEW a \in Artifact, RestoreRemove(a) PROVE StageInv'
  BY <1>11 DEF RestoreRemove
<1>12. ASSUME NEW a \in Artifact, RestoreMove(a) PROVE StageInv'
  BY <1>12 DEF RestoreMove
<1>13. ASSUME NEW a \in Artifact, RestoreWithoutBackup(a) PROVE StageInv'
  BY <1>13 DEF RestoreWithoutBackup
<1>14. CASE Restored
  BY <1>14 DEF Restored
<1>15. ASSUME NEW a \in Artifact, RemoveBackup(a) PROVE StageInv'
  BY <1>15 DEF RemoveBackup
<1>16. CASE RemoveJournal
  BY <1>16 DEF RemoveJournal
<1>17. CASE RemoveTransaction
  BY <1>17 DEF RemoveTransaction
<1>18. CASE RemoveOwner
  BY <1>18 DEF RemoveOwner
<1>19. CASE RemoveClaim
  BY <1>19 DEF RemoveClaim
<1>20. CASE RemoveLock
  BY <1>20 DEF RemoveLock
<1>21. CASE MakeTransaction
  BY <1>21 DEF MakeTransaction
<1>22. CASE WriteJournal
  BY <1>22 DEF WriteJournal
<1>23. CASE NameTransaction
  BY <1>23 DEF NameTransaction
<1>24. CASE MakeRules
  BY <1>24 DEF MakeRules
<1>25. ASSUME NEW a \in Artifact, BackUp(a) PROVE StageInv'
  BY <1>25 DEF BackUp
<1>26. ASSUME NEW a \in Artifact, BeginWrite(a) PROVE StageInv'
  BY <1>26 DEF BeginWrite
<1>27. ASSUME NEW a \in Artifact, EndWrite(a) PROVE StageInv'
  BY <1>27 DEF EndWrite
<1>28. CASE Commit
  BY <1>28 DEF Commit
<1>29. CASE BeginFails
  BY <1>29 DEF BeginFails
<1>30. CASE StageFails
  BY <1>30 DEF StageFails
<1>31. CASE CleanupFails
  BY <1>31 DEF CleanupFails
<1>32. CASE RecoveryFails
  BY <1>32 DEF RecoveryFails
<1>33. CASE Crash
  BY <1>33 DEF Crash
<1>34. ASSUME NEW r \in Run, Start(r) PROVE StageInv'
  BY <1>34 DEF Start
<1>35. CASE UNCHANGED vars
  BY <1>35
<1> QED
  BY <1>1, <1>2, <1>3, <1>4, <1>5, <1>6, <1>7, <1>8, <1>9, <1>10, <1>11, <1>12, <1>13,
     <1>14, <1>15, <1>16, <1>17, <1>18, <1>19, <1>20, <1>21, <1>22, <1>23, <1>24, <1>25,
     <1>26, <1>27, <1>28, <1>29, <1>30, <1>31, <1>32, <1>33, <1>34, <1>35
     DEF Next, Advance, Acquire, Restore, Remove, Stage, Fail

(* A restored artifact stays restored until the transaction is gone. *)
LEMMA RestoreStep ==
  ASSUME TypeOK, FreshInv, OwnerInv, StageInv, RestoreInv, [Next]_vars
  PROVE  RestoreInv'
<1> USE DEF workspace, transactions, lock, process, vars, Exit, Goto, Fault, Recovering,
       Removing, Beginning, Staging, BeforeTransaction, Steps, Absent, Initial, Partial,
       NoRun, Contents, TypeOK, FreshInv, OwnerInv, StageInv, RestoreInv, IsBack,
       NamesTransaction, Prepared, LockIsFree
<1>1. CASE AcquireLock
  BY <1>1 DEF AcquireLock
<1>2. CASE LockIsTaken
  BY <1>2 DEF LockIsTaken
<1>3. CASE RemoveOwnerless
  BY <1>3 DEF RemoveOwnerless
<1>4. CASE OwnerIsDead
  BY <1>4 DEF OwnerIsDead
<1>5. CASE RemoveStaleClaim
  BY <1>5 DEF RemoveStaleClaim
<1>6. CASE PublishClaim
  BY <1>6 DEF PublishClaim
<1>7. CASE NothingToRecover
  BY <1>7 DEF NothingToRecover
<1>8. CASE RecoverCommitted
  BY <1>8 DEF RecoverCommitted
<1>9. CASE RecoverPrepared
  BY <1>9 DEF RecoverPrepared
<1>10. CASE RejectJournal
  BY <1>10 DEF RejectJournal
<1>11. ASSUME NEW a \in Artifact, RestoreRemove(a) PROVE RestoreInv'
  BY <1>11 DEF RestoreRemove
<1>12. ASSUME NEW a \in Artifact, RestoreMove(a) PROVE RestoreInv'
  BY <1>12 DEF RestoreMove
<1>13. ASSUME NEW a \in Artifact, RestoreWithoutBackup(a) PROVE RestoreInv'
  BY <1>13 DEF RestoreWithoutBackup
<1>14. CASE Restored
  BY <1>14 DEF Restored
<1>15. ASSUME NEW a \in Artifact, RemoveBackup(a) PROVE RestoreInv'
  BY <1>15 DEF RemoveBackup
<1>16. CASE RemoveJournal
  BY <1>16 DEF RemoveJournal
<1>17. CASE RemoveTransaction
  BY <1>17 DEF RemoveTransaction
<1>18. CASE RemoveOwner
  BY <1>18 DEF RemoveOwner
<1>19. CASE RemoveClaim
  BY <1>19 DEF RemoveClaim
<1>20. CASE RemoveLock
  BY <1>20 DEF RemoveLock
<1>21. CASE MakeTransaction
  BY <1>21 DEF MakeTransaction
<1>22. CASE WriteJournal
  BY <1>22 DEF WriteJournal
<1>23. CASE NameTransaction
  BY <1>23 DEF NameTransaction
<1>24. CASE MakeRules
  BY <1>24 DEF MakeRules
<1>25. ASSUME NEW a \in Artifact, BackUp(a) PROVE RestoreInv'
  BY <1>25 DEF BackUp
<1>26. ASSUME NEW a \in Artifact, BeginWrite(a) PROVE RestoreInv'
  BY <1>26 DEF BeginWrite
<1>27. ASSUME NEW a \in Artifact, EndWrite(a) PROVE RestoreInv'
  BY <1>27 DEF EndWrite
<1>28. CASE Commit
  BY <1>28 DEF Commit
<1>29. CASE BeginFails
  BY <1>29 DEF BeginFails
<1>30. CASE StageFails
  BY <1>30 DEF StageFails
<1>31. CASE CleanupFails
  BY <1>31 DEF CleanupFails
<1>32. CASE RecoveryFails
  BY <1>32 DEF RecoveryFails
<1>33. CASE Crash
  BY <1>33 DEF Crash
<1>34. ASSUME NEW r \in Run, Start(r) PROVE RestoreInv'
  BY <1>34 DEF Start
<1>35. CASE UNCHANGED vars
  BY <1>35
<1> QED
  BY <1>1, <1>2, <1>3, <1>4, <1>5, <1>6, <1>7, <1>8, <1>9, <1>10, <1>11, <1>12, <1>13,
     <1>14, <1>15, <1>16, <1>17, <1>18, <1>19, <1>20, <1>21, <1>22, <1>23, <1>24, <1>25,
     <1>26, <1>27, <1>28, <1>29, <1>30, <1>31, <1>32, <1>33, <1>34, <1>35
     DEF Next, Advance, Acquire, Restore, Remove, Stage, Fail

(* What recovery would leave in the workspace changes with the commit only. *)
LEMMA DurableStep ==
  ASSUME TypeOK, FreshInv, OwnerInv, StageInv, RestoreInv, [Next]_vars, ~Commit
  PROVE  Durable' = Durable /\ committed' = committed
<1> DEFINE Same == (\A b \in Artifact : DurableOf(b)' = DurableOf(b)) /\ committed' = committed
<1> USE DEF workspace, transactions, lock, process, vars, Exit, Goto, Fault, Recovering,
       Removing, Beginning, Staging, BeforeTransaction, Steps, Absent, Initial, Partial,
       NoRun, Contents, TypeOK, FreshInv, OwnerInv, StageInv, RestoreInv, Clean, IsBack,
       DurableOf, NamesTransaction, Prepared, LockIsFree
<1> SUFFICES Same
  BY DEF Durable
<1>1. CASE AcquireLock
  BY <1>1 DEF AcquireLock
<1>2. CASE LockIsTaken
  BY <1>2 DEF LockIsTaken
<1>3. CASE RemoveOwnerless
  BY <1>3 DEF RemoveOwnerless
<1>4. CASE OwnerIsDead
  BY <1>4 DEF OwnerIsDead
<1>5. CASE RemoveStaleClaim
  BY <1>5 DEF RemoveStaleClaim
<1>6. CASE PublishClaim
  BY <1>6 DEF PublishClaim
<1>7. CASE NothingToRecover
  BY <1>7 DEF NothingToRecover
<1>8. CASE RecoverCommitted
  BY <1>8 DEF RecoverCommitted
<1>9. CASE RecoverPrepared
  BY <1>9 DEF RecoverPrepared
<1>10. CASE RejectJournal
  BY <1>10 DEF RejectJournal
<1>11. ASSUME NEW a \in Artifact, RestoreRemove(a) PROVE Same
  BY <1>11 DEF RestoreRemove
<1>12. ASSUME NEW a \in Artifact, RestoreMove(a) PROVE Same
  BY <1>12 DEF RestoreMove
<1>13. ASSUME NEW a \in Artifact, RestoreWithoutBackup(a) PROVE Same
  BY <1>13 DEF RestoreWithoutBackup
<1>14. CASE Restored
  BY <1>14 DEF Restored
<1>15. ASSUME NEW a \in Artifact, RemoveBackup(a) PROVE Same
  BY <1>15 DEF RemoveBackup
<1>16. CASE RemoveJournal
  BY <1>16 DEF RemoveJournal
<1>17. CASE RemoveTransaction
  BY <1>17 DEF RemoveTransaction
<1>18. CASE RemoveOwner
  BY <1>18 DEF RemoveOwner
<1>19. CASE RemoveClaim
  BY <1>19 DEF RemoveClaim
<1>20. CASE RemoveLock
  BY <1>20 DEF RemoveLock
<1>21. CASE MakeTransaction
  BY <1>21 DEF MakeTransaction
<1>22. CASE WriteJournal
  BY <1>22 DEF WriteJournal
<1>23. CASE NameTransaction
  BY <1>23 DEF NameTransaction
<1>24. CASE MakeRules
  BY <1>24 DEF MakeRules
<1>25. ASSUME NEW a \in Artifact, BackUp(a) PROVE Same
  BY <1>25 DEF BackUp
<1>26. ASSUME NEW a \in Artifact, BeginWrite(a) PROVE Same
  BY <1>26 DEF BeginWrite
<1>27. ASSUME NEW a \in Artifact, EndWrite(a) PROVE Same
  BY <1>27 DEF EndWrite
<1>28. CASE BeginFails
  BY <1>28 DEF BeginFails
<1>29. CASE StageFails
  BY <1>29 DEF StageFails
<1>30. CASE CleanupFails
  BY <1>30 DEF CleanupFails
<1>31. CASE RecoveryFails
  BY <1>31 DEF RecoveryFails
<1>32. CASE Crash
  BY <1>32 DEF Crash
<1>33. ASSUME NEW r \in Run, Start(r) PROVE Same
  BY <1>33 DEF Start
<1>34. CASE UNCHANGED vars
  BY <1>34
<1> HIDE DEF Same
<1> QED
  BY <1>1, <1>2, <1>3, <1>4, <1>5, <1>6, <1>7, <1>8, <1>9, <1>10, <1>11, <1>12, <1>13,
     <1>14, <1>15, <1>16, <1>17, <1>18, <1>19, <1>20, <1>21, <1>22, <1>23, <1>24, <1>25,
     <1>26, <1>27, <1>28, <1>29, <1>30, <1>31, <1>32, <1>33, <1>34
     DEF Next, Advance, Acquire, Restore, Remove, Stage, Fail

(* The commit replaces the whole workspace by the batch of the live run. *)
LEMMA CommitStep ==
  ASSUME TypeOK, FreshInv, OwnerInv, StageInv, RestoreInv, Commit
  PROVE  run \in Run /\ Atomic!Publish(run)
<1>1. run \in Run /\ run \notin committed /\ owner = run /\ Prepared
  BY DEF Commit, FreshInv, OwnerInv, Staging
<1>2. ~Prepared' /\ ws' = ws
  BY <1>1 DEF Commit, Prepared, NamesTransaction, TypeOK, lock, workspace
<1>3. \A a \in Artifact : ws[a] = run
  BY DEF Commit, StageInv
<1>4. Durable' = [a \in Artifact |-> run]
  BY <1>2, <1>3 DEF Durable, DurableOf
<1> QED
  BY <1>1, <1>4 DEF Atomic!Publish, Commit

(* The workspace as recovery would leave it stays one whole batch: only the     *)
(* commit changes it.                                                          *)
LEMMA DurableInvStep ==
  ASSUME Inv, [Next]_vars
  PROVE  DurableInv'
<1>1. CASE Commit
  <2>1. Durable' = [a \in Artifact |-> run] /\ committed' = committed \cup {run}
    BY <1>1, CommitStep DEF Inv, Atomic!Publish
  <2> QED
    BY <2>1 DEF DurableInv, Whole
<1>2. CASE ~Commit
  BY <1>2, DurableStep DEF Inv, DurableInv, Whole
<1> QED
  BY <1>1, <1>2

(* Every step of the protocol keeps the inductive invariant. *)
LEMMA InvStep == Inv /\ [Next]_vars => Inv'
<1> SUFFICES ASSUME Inv, [Next]_vars PROVE Inv'
  OBVIOUS
<1>1. TypeOK /\ FreshInv /\ OwnerInv /\ StageInv /\ RestoreInv
  BY DEF Inv
<1>2. TypeOK' /\ FreshInv' /\ OwnerInv' /\ StageInv' /\ RestoreInv' /\ DurableInv'
  BY <1>1, TypeStep, FreshStep, OwnerStep, StageStep, RestoreStep, DurableInvStep
<1> QED
  BY <1>2 DEF Inv

(* Every reachable state of every instance satisfies the inductive invariant. *)
THEOREM Invariant == Spec => []Inv
<1> QED
  BY InitInv, InvStep, PTL DEF Spec

(* Type correctness of the publication protocol. *)
THEOREM TypeCorrect == Spec => []TypeOK
<1>1. Inv => TypeOK
  BY DEF Inv
<1> QED
  BY <1>1, Invariant, PTL

(* A workspace that nobody owns holds one batch whole, whatever crashes and   *)
(* failures preceded: the owner file is gone only when no prepared             *)
(* transaction is named, and then the workspace is its own durable content.    *)
THEOREM UnownedWorkspaceIsWhole == Spec => []UnownedIsWhole
<1>1. Inv => UnownedIsWhole
  <2> SUFFICES ASSUME Inv, owner = NoRun \/ pc \in Beginning PROVE ws \in Whole
    BY DEF UnownedIsWhole
  <2>1. ~Prepared
    BY DEF Inv, OwnerInv, Prepared, NamesTransaction
  <2>2. Durable = ws
    BY <2>1 DEF Durable, DurableOf, Inv, TypeOK
  <2> QED
    BY <2>2 DEF Inv, DurableInv
<1> QED
  BY <1>1, Invariant, PTL

(* replace is atomic: the publication implements AtomicPublication under the  *)
(* mapping that reads the workspace as recovery would leave it.               *)
THEOREM ImplementsAtomicPublication == Spec => PublishesAtomically
<1>1. Inv /\ [Next]_vars => [Atomic!Next]_(Atomic!avars)
  <2> SUFFICES ASSUME Inv, [Next]_vars PROVE [Atomic!Next]_(Atomic!avars)
    OBVIOUS
  <2>1. CASE Commit
    BY <2>1, CommitStep DEF Inv, Atomic!Next
  <2>2. CASE ~Commit
    BY <2>2, DurableStep DEF Inv, Atomic!avars
  <2> QED
    BY <2>1, <2>2
<1> QED
  BY <1>1, InitInv, Invariant, PTL DEF Spec, PublishesAtomically, Atomic!Spec
=============================================================================
