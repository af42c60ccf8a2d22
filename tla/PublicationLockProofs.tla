----------------------- MODULE PublicationLockProofs ------------------------
(***************************************************************************)
(* Proofs about PublicationLock, for any set of processes and any number of *)
(* killed ones: what a process finds in the lock when it is alone, and, as   *)
(* long as no two were under the lock at once, where an abandoned            *)
(* transaction can be.                                                       *)
(***************************************************************************)
EXTENDS PublicationLock, TLAPS

Recovered == {"restore", "restoring", "rm_journal", "rm_txn", "assert_again", "rm_recovered"}
Holding == {"begin", "stage", "clean", "cleaned", "release", "rm_released"}
Finishing == {"assert_first", "unlink_recovered"} \cup Recovered
TakingOver == {"claim", "rm_claim", "stage_claim", "publish_claim", "drop_claim"} \cup Finishing
Waiting == {"new", "acquire", "inspect", "recover", "read_owner", "check_live",
            "rm_ownerless", "unlink_ownerless", "reacquire", "reinspect"}
Program == Waiting \cup Holding \cup {"unlink_released"} \cup TakingOver \cup Ended
Transactions == {"prepared", "committed", "bare", "gone"}

LockInv ==
  /\ owner \in Proc \cup {None} /\ claims \in [Claims -> Proc \cup {None, Missing}]
  /\ (~IsEmpty => lockDir) /\ txn \in [Proc -> Transactions]
  /\ pc \in [Proc -> Program] /\ seen \in [Proc -> Proc \cup {None}]
  /\ left \in [Proc -> SUBSET (Claims \cup {Owner})] /\ inside \in [Proc -> Claims \cup {None}]
  /\ alive \subseteq Proc /\ contended \subseteq Proc /\ named \subseteq Proc
  /\ sawTxn \subseteq Proc /\ faulted \subseteq Proc /\ apart \in BOOLEAN

(* Whom the owner file or a claim names has got as far as to write it.           *)
OwnersInv ==
  /\ owner # None => pc[owner] \in Holding \cup {"unlink_released", "failed"}
  /\ \A c \in Claims : \A q \in Proc : claims[c] = q =>
       \/ c = q /\ pc[q] = "publish_claim"
       \/ c = Recovery /\ pc[q] \in Finishing
       \/ c = Recovery /\ pc[q] = "drop_claim" /\ Recovery \in left[q] /\ inside[q] = None

(* Who takes over has read an owner, and has found it killed; a transaction that  *)
(* it has read of is named for good.                                             *)
SeenInv ==
  \A p \in Proc :
    /\ pc[p] = "check_live" => seen[p] \in Proc
    /\ pc[p] \in TakingOver => seen[p] \in Proc \ alive
    /\ p \in sawTxn => seen[p] \in named
    /\ pc[p] \in {"rm_claim", "drop_claim"} => left[p] \subseteq {Recovery}
    /\ pc[p] \in Ended => p \in alive

(* Which transactions there are at the steps of the live.                        *)
TransactionInv ==
  \A p \in alive :
    /\ pc[p] \in Waiting \cup TakingOver \cup {"begin"} => p \notin named
    /\ pc[p] = "stage" => p \in named /\ txn[p] = "prepared"
    /\ pc[p] = "clean" => p \in named /\ txn[p] \in {"prepared", "committed"}
    /\ p \in named /\ pc[p] \in {"cleaned", "release", "rm_released", "unlink_released"} \cup Ended =>
         txn[p] # "prepared"

(* As long as they were apart: each finds the owner file as it left it, and a      *)
(* transaction that has still to be restored is that of the owner.                *)
ApartInv ==
  apart =>
    /\ \A p, q \in alive : Occupies(p) /\ Occupies(q) => p = q
    /\ \A p \in alive :
         /\ pc[p] \in Holding => owner = p
         /\ pc[p] \in Recovered => SameOwner(p)
         /\ pc[p] = "rm_ownerless" => owner = None
         /\ pc[p] \in RemovingLock /\ left[p] # {} =>
              owner = None \/ (owner \in named => txn[owner] # "prepared")
         /\ pc[p] \in {"rm_txn", "assert_again", "rm_recovered"} =>
              (seen[p] \in named => txn[seen[p]] # "prepared")
    /\ \A q \in named : txn[q] = "prepared" => owner = q

(* What a process that has the lock to itself finds at each of its steps.        *)
Alone(p) ==
  /\ \A q \in alive : q # p => pc[q] = "new"
  /\ pc[p] = "inspect" => ~IsEmpty
  /\ pc[p] = "read_owner" => owner # None
  /\ pc[p] \in {"check_live"} \cup (TakingOver \ {"drop_claim", "unlink_recovered"}) => SameOwner(p)
  /\ pc[p] \in {"stage_claim", "publish_claim"} => claims[Recovery] = Missing
  /\ pc[p] = "publish_claim" => claims[p] = p
  /\ pc[p] \in Removing /\ inside[p] # None => inside[p] \in left[p] /\ Vacant(claims[inside[p]])
  /\ pc[p] = "rm_claim" /\ claims[Recovery] # Missing => Recovery \in left[p]
  /\ pc[p] \in RemovingLock => /\ owner # None => Owner \in left[p]
                               /\ \A c \in Claims : claims[c] # Missing => c \in left[p]
  /\ pc[p] = "drop_claim" => Wedged \/ p \in faulted
  /\ pc[p] = "reacquire" => IsEmpty
  /\ pc[p] # "reinspect"
AloneInv ==
  /\ \A p \in alive \ contended : pc[p] # "new" => Alone(p)
  /\ AloneAcquires

PublicationInv ==
  LockInv /\ OwnersInv /\ SeenInv /\ TransactionInv /\ ApartInv /\ AloneInv


(* Every step of a process, and its death.                                      *)
LEMMA PublicationStep ==
  ASSUME PublicationInv, NEW p \in Proc, Acquire(p) \/ Recover(p) \/ Remove(p) \/ Publish(p) \/ Die(p)
  PROVE  PublicationInv'
<1> USE ProcAssumption DEF PublicationInv, Moves, lock, publication, locals, history, Claims, Throws,
      BeginsClaimRemoval, StaysApart, Removing, RemovingLock, Program, Waiting, Holding, TakingOver,
      Finishing, Recovered, Ended
<1>1. CASE Start(p)
  <2> USE <1>1 DEF Start
  <2>1. LockInv'
    BY DEF LockInv, IsEmpty, Transactions, Running
  <2>2. OwnersInv'
    BY DEF LockInv, OwnersInv, SeenInv, IsEmpty, Vacant
  <2>3. SeenInv'
    BY DEF LockInv, SeenInv, Live
  <2>4. TransactionInv'
    BY DEF LockInv, SeenInv, TransactionInv
  <2>5. ApartInv'
    BY DEF LockInv, OwnersInv, SeenInv, TransactionInv, ApartInv, IsEmpty, Occupies, Occupying,
       SameOwner, SameToken
  <2>6. AloneInv'
    BY DEF LockInv, OwnersInv, SeenInv, TransactionInv, AloneInv, AloneAcquires, Alone,
       Running, Live, IsEmpty, Vacant, Wedged, SameOwner, SameToken
  <2> QED
    BY <2>1, <2>2, <2>3, <2>4, <2>5, <2>6
<1>2. CASE AcquireLock(p)
  <2> USE <1>2 DEF AcquireLock
  <2>1. LockInv'
    BY DEF LockInv, IsEmpty, Transactions, Running
  <2>2. OwnersInv'
    BY DEF LockInv, OwnersInv, SeenInv, IsEmpty, Vacant
  <2>3. SeenInv'
    BY DEF LockInv, SeenInv, Live
  <2>4. TransactionInv'
    BY DEF LockInv, SeenInv, TransactionInv
  <2>5. ApartInv'
    <3> USE DEF LockInv, OwnersInv, SeenInv, TransactionInv, ApartInv, IsEmpty, Occupies, Occupying,
          SameOwner, SameToken
    <3> SUFFICES ASSUME apart' PROVE ApartInv'
      OBVIOUS
    <3>1. apart /\ \A q \in alive \ {p} : ~Occupies(q)
      OBVIOUS
    <3>2. \A q \in alive' \ {p} : ~Occupies(q)'
      BY <3>1
    <3>3. \A q, r \in alive' : Occupies(q)' /\ Occupies(r)' => q = r
      BY <3>2
    <3>4. \A q \in named' : txn'[q] = "prepared" => owner' = q
      BY <3>1
    <3>5. pc'[p] \in Holding => owner' = p
      OBVIOUS
    <3> QED
      BY <3>1, <3>2, <3>3, <3>4, <3>5
  <2>6. AloneInv'
    BY DEF LockInv, OwnersInv, SeenInv, TransactionInv, AloneInv, AloneAcquires, Alone,
       Running, Live, IsEmpty, Vacant, Wedged, SameOwner, SameToken
  <2> QED
    BY <2>1, <2>2, <2>3, <2>4, <2>5, <2>6
<1>3. CASE RenameFails(p)
  <2> USE <1>3 DEF RenameFails
  <2>1. LockInv'
    BY DEF LockInv, IsEmpty, Transactions, Running
  <2>2. OwnersInv'
    BY DEF LockInv, OwnersInv, SeenInv, IsEmpty, Vacant
  <2>3. SeenInv'
    BY DEF LockInv, SeenInv, Live
  <2>4. TransactionInv'
    BY DEF LockInv, SeenInv, TransactionInv
  <2>5. ApartInv'
    BY DEF LockInv, OwnersInv, SeenInv, TransactionInv, ApartInv, IsEmpty, Occupies, Occupying,
       SameOwner, SameToken
  <2>6. AloneInv'
    BY DEF LockInv, OwnersInv, SeenInv, TransactionInv, AloneInv, AloneAcquires, Alone,
       Running, Live, IsEmpty, Vacant, Wedged, SameOwner, SameToken
  <2> QED
    BY <2>1, <2>2, <2>3, <2>4, <2>5, <2>6
<1>4. CASE Inspect(p)
  <2> USE <1>4 DEF Inspect
  <2>1. LockInv'
    BY DEF LockInv, IsEmpty, Transactions, Running
  <2>2. OwnersInv'
    BY DEF LockInv, OwnersInv, SeenInv, IsEmpty, Vacant
  <2>3. SeenInv'
    BY DEF LockInv, SeenInv, Live
  <2>4. TransactionInv'
    BY DEF LockInv, SeenInv, TransactionInv
  <2>5. ApartInv'
    BY DEF LockInv, OwnersInv, SeenInv, TransactionInv, ApartInv, IsEmpty, Occupies, Occupying,
       SameOwner, SameToken
  <2>6. AloneInv'
    BY DEF LockInv, OwnersInv, SeenInv, TransactionInv, AloneInv, AloneAcquires, Alone,
       Running, Live, IsEmpty, Vacant, Wedged, SameOwner, SameToken
  <2> QED
    BY <2>1, <2>2, <2>3, <2>4, <2>5, <2>6
<1>5. CASE LookForOwner(p)
  <2> USE <1>5 DEF LookForOwner
  <2>1. LockInv'
    BY DEF LockInv, IsEmpty, Transactions, Running
  <2>2. OwnersInv'
    BY DEF LockInv, OwnersInv, SeenInv, IsEmpty, Vacant
  <2>3. SeenInv'
    BY DEF LockInv, SeenInv, Live
  <2>4. TransactionInv'
    BY DEF LockInv, SeenInv, TransactionInv
  <2>5. ApartInv'
    <3> USE DEF LockInv, OwnersInv, SeenInv, TransactionInv, ApartInv, IsEmpty, Occupies, Occupying,
          SameOwner, SameToken
    <3> SUFFICES ASSUME apart' PROVE ApartInv'
      OBVIOUS
    <3>1. CASE owner = None
      <4>1. apart /\ \A q \in alive \ {p} : ~Occupies(q)
        BY <3>1
      <4>a. \A q \in alive' \ {p} : ~Occupies(q)'
        BY <3>1, <4>1
      <4>2. \A q, r \in alive' : Occupies(q)' /\ Occupies(r)' => q = r
        BY <4>a
      <4>3. \A q \in named' : txn'[q] = "prepared" => owner' = q
        BY <4>1
      <4> QED
        BY <3>1, <4>1, <4>2, <4>3
    <3>2. CASE owner # None
      <4>1. apart /\ pc' = [pc EXCEPT ![p] = "read_owner"]
        BY <3>2
      <4>2. \A q \in alive' : Occupies(q)' => Occupies(q)
        BY <4>1
      <4> QED
        BY <3>2, <4>1, <4>2
    <3> QED
      BY <3>1, <3>2
  <2>6. AloneInv'
    BY DEF LockInv, OwnersInv, SeenInv, TransactionInv, AloneInv, AloneAcquires, Alone,
       Running, Live, IsEmpty, Vacant, Wedged, SameOwner, SameToken
  <2> QED
    BY <2>1, <2>2, <2>3, <2>4, <2>5, <2>6
<1>6. CASE ReadOwner(p)
  <2> USE <1>6 DEF ReadOwner
  <2>1. LockInv'
    BY DEF LockInv, IsEmpty, Transactions, Running
  <2>2. OwnersInv'
    BY DEF LockInv, OwnersInv, SeenInv, IsEmpty, Vacant
  <2>3. SeenInv'
    BY DEF LockInv, SeenInv, Live
  <2>4. TransactionInv'
    BY DEF LockInv, SeenInv, TransactionInv
  <2>5. ApartInv'
    BY DEF LockInv, OwnersInv, SeenInv, TransactionInv, ApartInv, IsEmpty, Occupies, Occupying,
       SameOwner, SameToken
  <2>6. AloneInv'
    BY DEF LockInv, OwnersInv, SeenInv, TransactionInv, AloneInv, AloneAcquires, Alone,
       Running, Live, IsEmpty, Vacant, Wedged, SameOwner, SameToken
  <2> QED
    BY <2>1, <2>2, <2>3, <2>4, <2>5, <2>6
<1>7. CASE CheckLive(p)
  <2> USE <1>7 DEF CheckLive
  <2>1. LockInv'
    BY DEF LockInv, IsEmpty, Transactions, Running
  <2>2. OwnersInv'
    BY DEF LockInv, OwnersInv, SeenInv, IsEmpty, Vacant
  <2>3. SeenInv'
    BY DEF LockInv, SeenInv, Live
  <2>4. TransactionInv'
    BY DEF LockInv, SeenInv, TransactionInv
  <2>5. ApartInv'
    BY DEF LockInv, OwnersInv, SeenInv, TransactionInv, ApartInv, IsEmpty, Occupies, Occupying,
       SameOwner, SameToken
  <2>6. AloneInv'
    BY DEF LockInv, OwnersInv, SeenInv, TransactionInv, AloneInv, AloneAcquires, Alone,
       Running, Live, IsEmpty, Vacant, Wedged, SameOwner, SameToken
  <2> QED
    BY <2>1, <2>2, <2>3, <2>4, <2>5, <2>6
<1>8. CASE LookForClaim(p)
  <2> USE <1>8 DEF LookForClaim
  <2>1. LockInv'
    BY DEF LockInv, IsEmpty, Transactions, Running
  <2>2. OwnersInv'
    BY DEF LockInv, OwnersInv, SeenInv, IsEmpty, Vacant
  <2>3. SeenInv'
    BY DEF LockInv, SeenInv, Live
  <2>4. TransactionInv'
    BY DEF LockInv, SeenInv, TransactionInv
  <2>5. ApartInv'
    BY DEF LockInv, OwnersInv, SeenInv, TransactionInv, ApartInv, IsEmpty, Occupies, Occupying,
       SameOwner, SameToken
  <2>6. AloneInv'
    BY DEF LockInv, OwnersInv, SeenInv, TransactionInv, AloneInv, AloneAcquires, Alone,
       Running, Live, IsEmpty, Vacant, Wedged, SameOwner, SameToken
  <2> QED
    BY <2>1, <2>2, <2>3, <2>4, <2>5, <2>6
<1>9. CASE StageClaim(p)
  <2> USE <1>9 DEF StageClaim
  <2>1. LockInv'
    BY DEF LockInv, IsEmpty, Transactions, Running
  <2>2. OwnersInv'
    BY DEF LockInv, OwnersInv, SeenInv, IsEmpty, Vacant
  <2>3. SeenInv'
    BY DEF LockInv, SeenInv, Live
  <2>4. TransactionInv'
    BY DEF LockInv, SeenInv, TransactionInv
  <2>5. ApartInv'
    BY DEF LockInv, OwnersInv, SeenInv, TransactionInv, ApartInv, IsEmpty, Occupies, Occupying,
       SameOwner, SameToken
  <2>6. AloneInv'
    BY DEF LockInv, OwnersInv, SeenInv, TransactionInv, AloneInv, AloneAcquires, Alone,
       Running, Live, IsEmpty, Vacant, Wedged, SameOwner, SameToken
  <2> QED
    BY <2>1, <2>2, <2>3, <2>4, <2>5, <2>6
<1>10. CASE PublishClaim(p)
  <2> USE <1>10 DEF PublishClaim
  <2>1. LockInv'
    BY DEF LockInv, IsEmpty, Transactions, Running
  <2>2. OwnersInv'
    BY DEF LockInv, OwnersInv, SeenInv, IsEmpty, Vacant
  <2>3. SeenInv'
    BY DEF LockInv, SeenInv, Live
  <2>4. TransactionInv'
    BY DEF LockInv, SeenInv, TransactionInv
  <2>5. ApartInv'
    BY DEF LockInv, OwnersInv, SeenInv, TransactionInv, ApartInv, IsEmpty, Occupies, Occupying,
       SameOwner, SameToken
  <2>6. AloneInv'
    BY DEF LockInv, OwnersInv, SeenInv, TransactionInv, AloneInv, AloneAcquires, Alone,
       Running, Live, IsEmpty, Vacant, Wedged, SameOwner, SameToken
  <2> QED
    BY <2>1, <2>2, <2>3, <2>4, <2>5, <2>6
<1>11. CASE AssertOwner(p)
  <2> USE <1>11 DEF AssertOwner
  <2>1. LockInv'
    <3>1. CASE SameOwner(p)
      BY <3>1 DEF LockInv, IsEmpty
    <3>2. CASE ~SameOwner(p)
      BY <3>2 DEF LockInv, IsEmpty
    <3> QED
      BY <3>1, <3>2
  <2>2. OwnersInv'
    BY DEF LockInv, OwnersInv, SeenInv, IsEmpty, Vacant
  <2>3. SeenInv'
    BY DEF LockInv, SeenInv, Live
  <2>4. TransactionInv'
    BY DEF LockInv, SeenInv, TransactionInv
  <2>5. ApartInv'
    <3> SUFFICES ASSUME apart' PROVE ApartInv'
      BY DEF ApartInv
    <3>1. CASE SameOwner(p) /\ pc[p] = "assert_first"
      <4> USE DEF LockInv, OwnersInv, SeenInv, TransactionInv, ApartInv, IsEmpty, Occupies, Occupying,
            SameOwner, SameToken
      <4>1. apart /\ \A q \in alive \ {p} : ~Occupies(q)
        BY <3>1
      <4>2. pc' = [pc EXCEPT ![p] = "restore"] /\ left' = left
        BY <3>1
      <4>3. \A q \in alive' \ {p} : ~Occupies(q)'
        BY <4>1, <4>2
      <4>4. \A q, r \in alive' : Occupies(q)' /\ Occupies(r)' => q = r
        BY <4>3
      <4>5. SameOwner(p)'
        BY <3>1
      <4> QED
        BY <3>1, <4>1, <4>2, <4>4, <4>5
    <3>2. CASE SameOwner(p) /\ pc[p] = "assert_again"
      <4> USE DEF LockInv, OwnersInv, SeenInv, TransactionInv, ApartInv, IsEmpty, Occupies, Occupying,
            SameOwner, SameToken
      <4>1. apart /\ pc' = [pc EXCEPT ![p] = "rm_recovered"]
        BY <3>2
      <4>2. \A q \in alive' : Occupies(q)' <=> Occupies(q)
        BY <3>2, <4>1
      <4> QED
        BY <3>2, <4>1, <4>2
    <3>3. CASE ~SameOwner(p)
      <4>0. /\ apart /\ pc' = [pc EXCEPT ![p] = "drop_claim"]
            /\ left' = [left EXCEPT ![p] = {Recovery}]
        BY <3>3
      <4> USE DEF LockInv, OwnersInv, SeenInv, TransactionInv, ApartInv, IsEmpty, Occupies, Occupying,
            SameOwner, SameToken
      <4>1. /\ apart /\ pc' = [pc EXCEPT ![p] = "drop_claim"]
            /\ \A q \in alive \ {p} : left'[q] = left[q]
        BY <4>0
      <4>2. \A q \in alive' : Occupies(q)' => Occupies(q)
        BY <3>3, <4>1
      <4>3. \A q, r \in alive' : Occupies(q)' /\ Occupies(r)' => q = r
        BY <4>1, <4>2
      <4>4. \A q \in alive' : q # p => pc'[q] = pc[q] /\ left'[q] = left[q]
        BY <4>1
      <4>5. UNCHANGED <<owner, named, txn, seen, sawTxn, alive>>
        OBVIOUS
      <4>6. \A q \in alive' : q # p =>
              /\ pc'[q] \in Recovered => SameOwner(q)'
              /\ pc'[q] \in RemovingLock /\ left'[q] # {} =>
                   owner' = None \/ (owner' \in named' => txn'[owner'] # "prepared")
        BY <4>1, <4>4, <4>5
      <4> QED
        BY <4>1, <4>3, <4>4, <4>5, <4>6
    <3> QED
      BY <3>1, <3>2, <3>3
  <2>6. AloneInv'
    BY DEF LockInv, OwnersInv, SeenInv, TransactionInv, AloneInv, AloneAcquires, Alone,
       Running, Live, IsEmpty, Vacant, Wedged, SameOwner, SameToken
  <2> QED
    BY <2>1, <2>2, <2>3, <2>4, <2>5, <2>6
<1>12. CASE NothingToRestore(p)
  <2> USE <1>12 DEF NothingToRestore
  <2>1. LockInv'
    BY DEF LockInv, IsEmpty, Transactions, Running
  <2>2. OwnersInv'
    BY DEF LockInv, OwnersInv, SeenInv, IsEmpty, Vacant
  <2>3. SeenInv'
    BY DEF LockInv, SeenInv, Live
  <2>4. TransactionInv'
    BY DEF LockInv, SeenInv, TransactionInv
  <2>5. ApartInv'
    BY DEF LockInv, OwnersInv, SeenInv, TransactionInv, ApartInv, IsEmpty, Occupies, Occupying,
       SameOwner, SameToken
  <2>6. AloneInv'
    BY DEF LockInv, OwnersInv, SeenInv, TransactionInv, AloneInv, AloneAcquires, Alone,
       Running, Live, IsEmpty, Vacant, Wedged, SameOwner, SameToken
  <2> QED
    BY <2>1, <2>2, <2>3, <2>4, <2>5, <2>6
<1>13. CASE RejectJournal(p)
  <2> USE <1>13 DEF RejectJournal
  <2>1. LockInv'
    BY DEF LockInv, IsEmpty, Transactions, Running
  <2>2. OwnersInv'
    BY DEF LockInv, OwnersInv, SeenInv, IsEmpty, Vacant
  <2>3. SeenInv'
    BY DEF LockInv, SeenInv, Live
  <2>4. TransactionInv'
    BY DEF LockInv, SeenInv, TransactionInv
  <2>5. ApartInv'
    BY DEF LockInv, OwnersInv, SeenInv, TransactionInv, ApartInv, IsEmpty, Occupies, Occupying,
       SameOwner, SameToken
  <2>6. AloneInv'
    BY DEF LockInv, OwnersInv, SeenInv, TransactionInv, AloneInv, AloneAcquires, Alone,
       Running, Live, IsEmpty, Vacant, Wedged, SameOwner, SameToken
  <2> QED
    BY <2>1, <2>2, <2>3, <2>4, <2>5, <2>6
<1>14. CASE BeginRestore(p)
  <2> USE <1>14 DEF BeginRestore
  <2>1. LockInv'
    BY DEF LockInv, IsEmpty, Transactions, Running
  <2>2. OwnersInv'
    BY DEF LockInv, OwnersInv, SeenInv, IsEmpty, Vacant
  <2>3. SeenInv'
    BY DEF LockInv, SeenInv, Live
  <2>4. TransactionInv'
    BY DEF LockInv, SeenInv, TransactionInv
  <2>5. ApartInv'
    BY DEF LockInv, OwnersInv, SeenInv, TransactionInv, ApartInv, IsEmpty, Occupies, Occupying,
       SameOwner, SameToken
  <2>6. AloneInv'
    BY DEF LockInv, OwnersInv, SeenInv, TransactionInv, AloneInv, AloneAcquires, Alone,
       Running, Live, IsEmpty, Vacant, Wedged, SameOwner, SameToken
  <2> QED
    BY <2>1, <2>2, <2>3, <2>4, <2>5, <2>6
<1>15. CASE EndRestore(p)
  <2> USE <1>15 DEF EndRestore
  <2>1. LockInv'
    BY DEF LockInv, IsEmpty, Transactions, Running
  <2>2. OwnersInv'
    BY DEF LockInv, OwnersInv, SeenInv, IsEmpty, Vacant
  <2>3. SeenInv'
    BY DEF LockInv, SeenInv, Live
  <2>4. TransactionInv'
    BY DEF LockInv, SeenInv, TransactionInv
  <2>5. ApartInv'
    BY DEF LockInv, OwnersInv, SeenInv, TransactionInv, ApartInv, IsEmpty, Occupies, Occupying,
       SameOwner, SameToken
  <2>6. AloneInv'
    BY DEF LockInv, OwnersInv, SeenInv, TransactionInv, AloneInv, AloneAcquires, Alone,
       Running, Live, IsEmpty, Vacant, Wedged, SameOwner, SameToken
  <2> QED
    BY <2>1, <2>2, <2>3, <2>4, <2>5, <2>6
<1>16. CASE RecoveryFails(p)
  <2> USE <1>16 DEF RecoveryFails
  <2>1. LockInv'
    BY DEF LockInv, IsEmpty, Transactions, Running
  <2>2. OwnersInv'
    BY DEF LockInv, OwnersInv, SeenInv, IsEmpty, Vacant
  <2>3. SeenInv'
    BY DEF LockInv, SeenInv, Live
  <2>4. TransactionInv'
    BY DEF LockInv, SeenInv, TransactionInv
  <2>5. ApartInv'
    BY DEF LockInv, OwnersInv, SeenInv, TransactionInv, ApartInv, IsEmpty, Occupies, Occupying,
       SameOwner, SameToken
  <2>6. AloneInv'
    BY DEF LockInv, OwnersInv, SeenInv, TransactionInv, AloneInv, AloneAcquires, Alone,
       Running, Live, IsEmpty, Vacant, Wedged, SameOwner, SameToken
  <2> QED
    BY <2>1, <2>2, <2>3, <2>4, <2>5, <2>6
<1>17. CASE RemoveJournal(p)
  <2> USE <1>17 DEF RemoveJournal
  <2>1. LockInv'
    BY DEF LockInv, IsEmpty, Transactions, Running
  <2>2. OwnersInv'
    BY DEF LockInv, OwnersInv, SeenInv, IsEmpty, Vacant
  <2>3. SeenInv'
    BY DEF LockInv, SeenInv, Live
  <2>4. TransactionInv'
    BY DEF LockInv, SeenInv, TransactionInv
  <2>5. ApartInv'
    BY DEF LockInv, OwnersInv, SeenInv, TransactionInv, ApartInv, IsEmpty, Occupies, Occupying,
       SameOwner, SameToken
  <2>6. AloneInv'
    BY DEF LockInv, OwnersInv, SeenInv, TransactionInv, AloneInv, AloneAcquires, Alone,
       Running, Live, IsEmpty, Vacant, Wedged, SameOwner, SameToken
  <2> QED
    BY <2>1, <2>2, <2>3, <2>4, <2>5, <2>6
<1>18. CASE RemoveTransaction(p)
  <2> USE <1>18 DEF RemoveTransaction
  <2>1. LockInv'
    BY DEF LockInv, IsEmpty, Transactions, Running
  <2>2. OwnersInv'
    BY DEF LockInv, OwnersInv, SeenInv, IsEmpty, Vacant
  <2>3. SeenInv'
    BY DEF LockInv, SeenInv, Live
  <2>4. TransactionInv'
    BY DEF LockInv, SeenInv, TransactionInv
  <2>5. ApartInv'
    BY DEF LockInv, OwnersInv, SeenInv, TransactionInv, ApartInv, IsEmpty, Occupies, Occupying,
       SameOwner, SameToken
  <2>6. AloneInv'
    BY DEF LockInv, OwnersInv, SeenInv, TransactionInv, AloneInv, AloneAcquires, Alone,
       Running, Live, IsEmpty, Vacant, Wedged, SameOwner, SameToken
  <2> QED
    BY <2>1, <2>2, <2>3, <2>4, <2>5, <2>6
<1>19. CASE ListLock(p)
  <2> USE <1>19 DEF ListLock
  <2>1. LockInv'
    BY DEF LockInv, IsEmpty, Transactions, Running
  <2>2. OwnersInv'
    BY DEF LockInv, OwnersInv, SeenInv, IsEmpty, Vacant
  <2>3. SeenInv'
    BY DEF LockInv, SeenInv, Live
  <2>4. TransactionInv'
    BY DEF LockInv, SeenInv, TransactionInv
  <2>5. ApartInv'
    BY DEF LockInv, OwnersInv, SeenInv, TransactionInv, ApartInv, IsEmpty, Occupies, Occupying,
       SameOwner, SameToken
  <2>6. AloneInv'
    BY DEF LockInv, OwnersInv, SeenInv, TransactionInv, AloneInv, AloneAcquires, Alone,
       Running, Live, IsEmpty, Vacant, Wedged, SameOwner, SameToken
  <2> QED
    BY <2>1, <2>2, <2>3, <2>4, <2>5, <2>6
<1>20. CASE UnlinkOwner(p)
  <2> USE <1>20 DEF UnlinkOwner
  <2>1. LockInv'
    BY DEF LockInv, IsEmpty, Transactions, Running
  <2>2. OwnersInv'
    BY DEF LockInv, OwnersInv, SeenInv, IsEmpty, Vacant
  <2>3. SeenInv'
    BY DEF LockInv, SeenInv, Live
  <2>4. TransactionInv'
    BY DEF LockInv, SeenInv, TransactionInv
  <2>5. ApartInv'
    BY DEF LockInv, OwnersInv, SeenInv, TransactionInv, ApartInv, IsEmpty, Occupies, Occupying,
       SameOwner, SameToken
  <2>6. AloneInv'
    <3> USE DEF LockInv, OwnersInv, SeenInv, TransactionInv, AloneInv, AloneAcquires, Running, Live,
          IsEmpty, Vacant, Wedged, SameOwner, SameToken
    <3>1. AloneAcquires'
      BY DEF Alone
    <3>2. ASSUME NEW r \in alive' \ contended', pc'[r] # "new" PROVE Alone(r)'
      <4>1. Alone(r)
        BY <3>2
      <4>2. r = p
        BY <3>2, <4>1 DEF Alone
      <4>3. /\ pc[p] \in RemovingLock /\ left' = [left EXCEPT ![p] = @ \ {Owner}]
            /\ owner' = None /\ claims' = claims /\ pc' = pc /\ inside[p] = None
        OBVIOUS
      <4>4. \A d \in Claims : claims'[d] # Missing => d \in left'[p]
        BY <4>1, <4>2, <4>3 DEF Alone, Recovery, Owner
      <4> QED
        BY <4>1, <4>2, <4>3, <4>4 DEF Alone
    <3> QED
      BY <3>1, <3>2 DEF Alone
  <2> QED
    BY <2>1, <2>2, <2>3, <2>4, <2>5, <2>6
<1>21. ASSUME NEW c \in Claims, UnlinkClaim(p, c) PROVE PublicationInv'
  <2> USE <1>21 DEF UnlinkClaim
  <2>1. LockInv'
    BY DEF LockInv, IsEmpty, Transactions, Running
  <2>2. OwnersInv'
    BY DEF LockInv, OwnersInv, SeenInv, IsEmpty, Vacant
  <2>3. SeenInv'
    BY DEF LockInv, SeenInv, Live
  <2>4. TransactionInv'
    BY DEF LockInv, SeenInv, TransactionInv
  <2>5. ApartInv'
    BY DEF LockInv, OwnersInv, SeenInv, TransactionInv, ApartInv, IsEmpty, Occupies, Occupying,
       SameOwner, SameToken
  <2>6. AloneInv'
    <3> USE DEF LockInv, OwnersInv, SeenInv, TransactionInv, AloneInv, AloneAcquires, Running, Live,
          IsEmpty, Vacant, Wedged, SameOwner, SameToken
    <3>1. AloneAcquires'
      BY DEF Alone
    <3>2. ASSUME NEW r \in alive' \ contended', pc'[r] # "new" PROVE Alone(r)'
      <4>1. Alone(r)
        BY <3>2
      <4>2. r = p
        BY <3>2, <4>1 DEF Alone
      <4>3. CASE claims[c] = Missing
        <5>1. UNCHANGED <<claims, owner, pc, inside>> /\ left' = [left EXCEPT ![p] = @ \ {c}]
          BY <4>3
        <5>2. pc[p] \in RemovingLock => /\ owner' # None => Owner \in left'[p]
                                       /\ \A d \in Claims : claims'[d] # Missing => d \in left'[p]
          BY <4>1, <4>2, <4>3, <5>1 DEF Alone, Recovery, Owner
        <5> QED
          BY <4>1, <4>2, <4>3, <5>1, <5>2 DEF Alone
      <4>4. CASE claims[c] # Missing
        BY <4>1, <4>2, <4>4 DEF Alone
      <4> QED
        BY <4>3, <4>4
    <3> QED
      BY <3>1, <3>2 DEF Alone
  <2> QED
    BY <2>1, <2>2, <2>3, <2>4, <2>5, <2>6
<1>22. ASSUME NEW c \in Claims, RemoveClaim(p, c) PROVE PublicationInv'
  <2> USE <1>22 DEF RemoveClaim
  <2>1. LockInv'
    BY DEF LockInv, IsEmpty, Transactions, Running
  <2>2. OwnersInv'
    BY DEF LockInv, OwnersInv, SeenInv, IsEmpty, Vacant
  <2>3. SeenInv'
    BY DEF LockInv, SeenInv, Live
  <2>4. TransactionInv'
    BY DEF LockInv, SeenInv, TransactionInv
  <2>5. ApartInv'
    BY DEF LockInv, OwnersInv, SeenInv, TransactionInv, ApartInv, IsEmpty, Occupies, Occupying,
       SameOwner, SameToken
  <2>6. AloneInv'
    <3> USE DEF LockInv, OwnersInv, SeenInv, TransactionInv, AloneInv, AloneAcquires, Running, Live,
          IsEmpty, Vacant, Wedged, SameOwner, SameToken
    <3>1. AloneAcquires'
      BY DEF Alone
    <3>2. ASSUME NEW r \in alive' \ contended', pc'[r] # "new" PROVE Alone(r)'
      <4>1. Alone(r)
        BY <3>2
      <4>2. r = p
        BY <3>2, <4>1 DEF Alone
      <4>3. /\ pc' = pc /\ owner' = owner /\ claims' = [claims EXCEPT ![c] = Missing]
            /\ left' = [left EXCEPT ![p] = @ \ {c}] /\ inside' = [inside EXCEPT ![p] = None]
        OBVIOUS
      <4>4. pc[p] \in RemovingLock => /\ owner' # None => Owner \in left'[p]
                                     /\ \A d \in Claims : claims'[d] # Missing => d \in left'[p]
        BY <4>1, <4>2, <4>3 DEF Alone, Recovery, Owner
      <4>5. pc[p] = "rm_claim" /\ claims'[Recovery] # Missing => Recovery \in left'[p]
        BY <4>1, <4>2, <4>3 DEF Alone
      <4> QED
        BY <4>1, <4>2, <4>3, <4>4, <4>5 DEF Alone
    <3> QED
      BY <3>1, <3>2 DEF Alone
  <2> QED
    BY <2>1, <2>2, <2>3, <2>4, <2>5, <2>6
<1>23. CASE ClaimRemoved(p)
  <2> USE <1>23 DEF ClaimRemoved
  <2>1. LockInv'
    BY DEF LockInv, IsEmpty, Transactions, Running
  <2>2. OwnersInv'
    BY DEF LockInv, OwnersInv, SeenInv, IsEmpty, Vacant
  <2>3. SeenInv'
    BY DEF LockInv, SeenInv, Live
  <2>4. TransactionInv'
    BY DEF LockInv, SeenInv, TransactionInv
  <2>5. ApartInv'
    BY DEF LockInv, OwnersInv, SeenInv, TransactionInv, ApartInv, IsEmpty, Occupies, Occupying,
       SameOwner, SameToken
  <2>6. AloneInv'
    BY DEF LockInv, OwnersInv, SeenInv, TransactionInv, AloneInv, AloneAcquires, Alone,
       Running, Live, IsEmpty, Vacant, Wedged, SameOwner, SameToken
  <2> QED
    BY <2>1, <2>2, <2>3, <2>4, <2>5, <2>6
<1>24. CASE RemoveDirectory(p)
  <2> USE <1>24 DEF RemoveDirectory
  <2>1. LockInv'
    BY DEF LockInv, IsEmpty, Transactions, Running
  <2>2. OwnersInv'
    BY DEF LockInv, OwnersInv, SeenInv, IsEmpty, Vacant
  <2>3. SeenInv'
    BY DEF LockInv, SeenInv, Live
  <2>4. TransactionInv'
    BY DEF LockInv, SeenInv, TransactionInv
  <2>5. ApartInv'
    BY DEF LockInv, OwnersInv, SeenInv, TransactionInv, ApartInv, IsEmpty, Occupies, Occupying,
       SameOwner, SameToken
  <2>6. AloneInv'
    BY DEF LockInv, OwnersInv, SeenInv, TransactionInv, AloneInv, AloneAcquires, Alone,
       Running, Live, IsEmpty, Vacant, Wedged, SameOwner, SameToken
  <2> QED
    BY <2>1, <2>2, <2>3, <2>4, <2>5, <2>6
<1>25. CASE RemovalFails(p)
  <2> USE <1>25 DEF RemovalFails
  <2>1. LockInv'
    BY DEF LockInv, IsEmpty, Transactions, Running
  <2>2. OwnersInv'
    <3> USE DEF LockInv, OwnersInv, SeenInv, IsEmpty, Vacant
    <3>1. owner' # None => pc'[owner'] \in Holding \cup {"unlink_released", "failed"}
      OBVIOUS
    <3>2. ASSUME NEW c \in Claims, NEW q \in Proc, claims'[c] = q
          PROVE  \/ c = q /\ pc'[q] = "publish_claim"
                 \/ c = Recovery /\ pc'[q] \in Finishing
                 \/ c = Recovery /\ pc'[q] = "drop_claim" /\ Recovery \in left'[q] /\ inside'[q] = None
      <4>1. CASE pc[p] = "unlink_recovered"
        BY <3>2, <4>1
      <4>2. CASE pc[p] # "unlink_recovered"
        <5>1. pc' = [pc EXCEPT ![p] = "failed"] /\ left' = left /\ inside' = inside
          BY <4>2
        <5>2. claims[c] = q
          BY <3>2
        <5>3. q # p
          <6>1. pc[p] \in Removing
            OBVIOUS
          <6>2. CASE q = p
            <7>1. c = Recovery /\ pc[p] = "drop_claim" /\ Recovery \in left[p] /\ inside[p] = None
              BY <4>2, <5>2, <6>1, <6>2
            <7> QED
              BY <7>1 DEF None, Recovery
          <6> QED
            BY <6>2
        <5> QED
          BY <5>1, <5>2, <5>3
      <4> QED
        BY <4>1, <4>2
    <3> QED
      BY <3>1, <3>2
  <2>3. SeenInv'
    BY DEF LockInv, SeenInv, Live
  <2>4. TransactionInv'
    BY DEF LockInv, SeenInv, TransactionInv
  <2>5. ApartInv'
    BY DEF LockInv, OwnersInv, SeenInv, TransactionInv, ApartInv, IsEmpty, Occupies, Occupying,
       SameOwner, SameToken
  <2>6. AloneInv'
    <3> USE DEF LockInv, OwnersInv, SeenInv, TransactionInv, AloneInv, AloneAcquires, Running, Live,
          IsEmpty, Vacant, Wedged, SameOwner, SameToken
    <3>1. p \in contended
      <4>1. CASE p \notin contended
        <5>1. Alone(p)
          BY <4>1
        <5> QED
          BY <5>1 DEF Alone, None, Recovery
      <4> QED
        BY <4>1
    <3>2. AloneAcquires'
      BY <3>1 DEF Alone
    <3>3. ASSUME NEW r \in alive' \ contended', pc'[r] # "new" PROVE Alone(r)'
      <4>1. Alone(r) /\ r # p
        BY <3>1, <3>3
      <4> QED
        BY <4>1 DEF Alone
    <3> QED
      BY <3>2, <3>3
  <2> QED
    BY <2>1, <2>2, <2>3, <2>4, <2>5, <2>6
<1>26. CASE Begin(p)
  <2> USE <1>26 DEF Begin
  <2>1. LockInv'
    BY DEF LockInv, IsEmpty, Transactions, Running
  <2>2. OwnersInv'
    BY DEF LockInv, OwnersInv, SeenInv, IsEmpty, Vacant
  <2>3. SeenInv'
    BY DEF LockInv, SeenInv, Live
  <2>4. TransactionInv'
    BY DEF LockInv, SeenInv, TransactionInv
  <2>5. ApartInv'
    BY DEF LockInv, OwnersInv, SeenInv, TransactionInv, ApartInv, IsEmpty, Occupies, Occupying,
       SameOwner, SameToken
  <2>6. AloneInv'
    BY DEF LockInv, OwnersInv, SeenInv, TransactionInv, AloneInv, AloneAcquires, Alone,
       Running, Live, IsEmpty, Vacant, Wedged, SameOwner, SameToken
  <2> QED
    BY <2>1, <2>2, <2>3, <2>4, <2>5, <2>6
<1>27. CASE Commit(p)
  <2> USE <1>27 DEF Commit
  <2>1. LockInv'
    BY DEF LockInv, IsEmpty, Transactions, Running
  <2>2. OwnersInv'
    BY DEF LockInv, OwnersInv, SeenInv, IsEmpty, Vacant
  <2>3. SeenInv'
    BY DEF LockInv, SeenInv, Live
  <2>4. TransactionInv'
    BY DEF LockInv, SeenInv, TransactionInv
  <2>5. ApartInv'
    BY DEF LockInv, OwnersInv, SeenInv, TransactionInv, ApartInv, IsEmpty, Occupies, Occupying,
       SameOwner, SameToken
  <2>6. AloneInv'
    BY DEF LockInv, OwnersInv, SeenInv, TransactionInv, AloneInv, AloneAcquires, Alone,
       Running, Live, IsEmpty, Vacant, Wedged, SameOwner, SameToken
  <2> QED
    BY <2>1, <2>2, <2>3, <2>4, <2>5, <2>6
<1>28. CASE Rollback(p)
  <2> USE <1>28 DEF Rollback
  <2>1. LockInv'
    BY DEF LockInv, IsEmpty, Transactions, Running
  <2>2. OwnersInv'
    BY DEF LockInv, OwnersInv, SeenInv, IsEmpty, Vacant
  <2>3. SeenInv'
    BY DEF LockInv, SeenInv, Live
  <2>4. TransactionInv'
    BY DEF LockInv, SeenInv, TransactionInv
  <2>5. ApartInv'
    BY DEF LockInv, OwnersInv, SeenInv, TransactionInv, ApartInv, IsEmpty, Occupies, Occupying,
       SameOwner, SameToken
  <2>6. AloneInv'
    BY DEF LockInv, OwnersInv, SeenInv, TransactionInv, AloneInv, AloneAcquires, Alone,
       Running, Live, IsEmpty, Vacant, Wedged, SameOwner, SameToken
  <2> QED
    BY <2>1, <2>2, <2>3, <2>4, <2>5, <2>6
<1>29. CASE Release(p)
  <2> USE <1>29 DEF Release
  <2>1. LockInv'
    BY DEF LockInv, IsEmpty, Transactions, Running
  <2>2. OwnersInv'
    BY DEF LockInv, OwnersInv, SeenInv, IsEmpty, Vacant
  <2>3. SeenInv'
    BY DEF LockInv, SeenInv, Live
  <2>4. TransactionInv'
    BY DEF LockInv, SeenInv, TransactionInv
  <2>5. ApartInv'
    BY DEF LockInv, OwnersInv, SeenInv, TransactionInv, ApartInv, IsEmpty, Occupies, Occupying,
       SameOwner, SameToken
  <2>6. AloneInv'
    BY DEF LockInv, OwnersInv, SeenInv, TransactionInv, AloneInv, AloneAcquires, Alone,
       Running, Live, IsEmpty, Vacant, Wedged, SameOwner, SameToken
  <2> QED
    BY <2>1, <2>2, <2>3, <2>4, <2>5, <2>6
<1>30. CASE Die(p)
  <2> USE <1>30 DEF Die
  <2>1. LockInv'
    BY DEF LockInv, IsEmpty, Transactions, Running
  <2>2. OwnersInv'
    BY DEF LockInv, OwnersInv, SeenInv, IsEmpty, Vacant
  <2>3. SeenInv'
    BY DEF LockInv, SeenInv, Live
  <2>4. TransactionInv'
    BY DEF LockInv, SeenInv, TransactionInv
  <2>5. ApartInv'
    BY DEF LockInv, OwnersInv, SeenInv, TransactionInv, ApartInv, IsEmpty, Occupies, Occupying,
       SameOwner, SameToken
  <2>6. AloneInv'
    BY DEF LockInv, OwnersInv, SeenInv, TransactionInv, AloneInv, AloneAcquires, Alone,
       Running, Live, IsEmpty, Vacant, Wedged, SameOwner, SameToken
  <2> QED
    BY <2>1, <2>2, <2>3, <2>4, <2>5, <2>6
<1> QED
  BY <1>1, <1>2, <1>3, <1>4, <1>5, <1>6, <1>7, <1>8, <1>9, <1>10, <1>11, <1>12, <1>13, <1>14,
     <1>15, <1>16, <1>17, <1>18, <1>19, <1>20, <1>21, <1>22, <1>23, <1>24, <1>25, <1>26, <1>27,
     <1>28, <1>29, <1>30 DEF Acquire, Recover, Remove, Publish

(* The lock as it is before any process has been started.                         *)
LEMMA PublicationInit == Init => PublicationInv
<1> SUFFICES ASSUME Init PROVE PublicationInv
  OBVIOUS
<1> USE ProcAssumption DEF Init, PublicationInv, Program, Waiting, Holding, TakingOver, Finishing, Recovered, Ended
<1>1. LockInv
  BY DEF LockInv, IsEmpty, Transactions, Claims
<1>2. OwnersInv
  BY DEF OwnersInv, None, Missing, Claims
<1>3. SeenInv /\ TransactionInv /\ ApartInv
  BY DEF SeenInv, TransactionInv, ApartInv, Occupies, Occupying, RemovingLock
<1>4. AloneInv
  BY DEF AloneInv, AloneAcquires
<1> QED
  BY <1>1, <1>2, <1>3, <1>4

LEMMA PublicationNext == PublicationInv /\ [Next]_vars => PublicationInv'
<1> SUFFICES ASSUME PublicationInv, [Next]_vars PROVE PublicationInv'
  OBVIOUS
<1>1. CASE Next
  BY <1>1, PublicationStep DEF Next
<1>2. CASE UNCHANGED vars
  BY <1>2 DEF vars, PublicationInv, LockInv, OwnersInv, SeenInv, TransactionInv, ApartInv, AloneInv,
     Alone, AloneAcquires, IsEmpty, Occupies, SameOwner, SameToken, Vacant, Wedged
<1> QED
  BY <1>1, <1>2

(* The invariant the rest follows from: what the owner file and the claims can name, *)
(* that a takeover follows on a killed process only, where a transaction that has     *)
(* still to be restored can be as long as all were apart, and what a process alone     *)
(* finds.                                                                          *)
THEOREM PublicationInvariance == Spec => []PublicationInv
<1> QED
  BY PublicationInit, PublicationNext, PTL DEF Spec

(* recover_abandoned_lock: however many were killed, failed in their recovery or came  *)
(* late, as long as no two live processes were under the lock at once, none begins or   *)
(* stages a publication while the transaction of a killed one is still to be restored.  *)
THEOREM RestoredBeforePublishing == Spec => []RestoredFirst
<1>1. PublicationInv => RestoredFirst
  BY DEF PublicationInv, LockInv, ApartInv, RestoredFirst, Holding
<1> QED
  BY <1>1, PublicationInvariance, PTL

(* TaskPublicationLock.acquire, with nobody else around: whatever killed processes     *)
(* left in the lock, only a failing operation, or a transaction that has lost its       *)
(* journal, has the publication refused.                                            *)
THEOREM TheLoneOneAcquires == Spec => []AloneAcquires
<1>1. PublicationInv => AloneAcquires
  BY DEF PublicationInv, AloneInv
<1> QED
  BY <1>1, PublicationInvariance, PTL

(* recover_owner_transaction, also where locks were lost to late removals: a takeover   *)
(* never restores or removes the transaction of a process that lives; what becomes of    *)
(* it is that process's own doing.                                                  *)
THEOREM TakeoversSpareTheLiving ==
  Spec => [][\A q \in alive : txn'[q] # txn[q] => pc'[q] # pc[q]]_vars
<1> DEFINE Spares == \A q \in alive : txn'[q] # txn[q] => pc'[q] # pc[q]
<1>1. PublicationInv /\ [Next]_vars => [Spares]_vars
  <2> SUFFICES ASSUME PublicationInv, Next, NEW q \in alive, txn'[q] # txn[q] PROVE pc'[q] # pc[q]
    BY DEF vars
  <2>1. PICK p \in Proc : Acquire(p) \/ Recover(p) \/ Remove(p) \/ Publish(p) \/ Die(p)
    BY DEF Next
  <2> USE DEF PublicationInv, LockInv, SeenInv, Moves, publication
  <2>2. CASE RemoveJournal(p) \/ RemoveTransaction(p)
    BY <2>2 DEF RemoveJournal, RemoveTransaction, TakingOver, Finishing, Recovered
  <2>3. CASE Begin(p) \/ Commit(p)
    BY <2>3 DEF Begin, Commit
  <2>4. CASE UNCHANGED txn
    BY <2>4
  <2>5. Acquire(p) => UNCHANGED txn
    BY DEF Acquire, Start, AcquireLock, RenameFails, Inspect, LookForOwner, ReadOwner, CheckLive,
       LookForClaim, StageClaim, PublishClaim
  <2>6. Recover(p) => RemoveJournal(p) \/ RemoveTransaction(p) \/ UNCHANGED txn
    BY DEF Recover, AssertOwner, NothingToRestore, RejectJournal, BeginRestore, EndRestore, RecoveryFails
  <2>7. Remove(p) => UNCHANGED txn
    BY DEF Remove, ListLock, UnlinkOwner, UnlinkClaim, RemoveClaim, ClaimRemoved, RemoveDirectory,
       RemovalFails
  <2>8. Publish(p) \/ Die(p) => Begin(p) \/ Commit(p) \/ UNCHANGED txn
    BY DEF Publish, Rollback, Release, Die
  <2> QED
    BY <2>1, <2>2, <2>3, <2>4, <2>5, <2>6, <2>7, <2>8
<1> QED
  BY <1>1, PublicationInvariance, PTL DEF Spec
=============================================================================
