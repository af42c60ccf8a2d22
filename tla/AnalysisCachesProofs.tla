------------------------- MODULE AnalysisCachesProofs -------------------------
(***************************************************************************)
(* Proofs about AnalysisCaches, for any number of runs and edits and any      *)
(* project: what the records of both caches say of their keys, and why a run  *)
(* reports nothing but violations of its own snapshot.                        *)
(***************************************************************************)
EXTENDS AnalysisCaches, TLAPS

StateInv ==
  /\ disk \in [Path -> Held] /\ layout \in 0..edits /\ edits \in 0..MaxEdits
  /\ pc \in [Run -> Steps] /\ snapshot \in [Run -> [Path -> Held]]
  /\ todo \in [Run -> SUBSET Source] /\ stamp \in [Run -> 0..layout]
  /\ resolution \in [Run -> Held] /\ calm \subseteq Run
  /\ DOMAIN linted = Run /\ DOMAIN overall = Run /\ \A r \in Run : DOMAIN linted[r] = Source

(* The violations in a record of a file were computed from what its key says; the   *)
(* key does not cover the JavaScript file.                                        *)
Follows(key, violations) ==
  violations = [sources |-> key.sources, config |-> IF key.source \in Python THEN Absent ELSE key.config,
                runtime |-> IF key.source \in Python THEN Absent ELSE violations.runtime]
FilesInv == Keyed(files) /\ \A record \in files : Follows(record.key, record.value)

(* Those of the project too, the configuration if nobody edited in the meantime.     *)
Holds(key, violations) ==
  violations.sources = key.sources /\ (violations.calm => violations.config = key.config)
GlobalsInv == Keyed(globals) /\ \A record \in globals : Holds(record.key, record.value)

(* A run has results only once its snapshot is complete, and they are of that.       *)
Reading == {"new", "sources", "config", "other_sources", "runtime"}
LintedInv ==
  \A r \in Run : \A s \in Source :
    linted[r][s] # None =>
      /\ linted[r][s] = Violations(snapshot[r], s, linted[r][s].runtime)
      /\ pc[r] \notin Reading

Collected == {"write_global", "report"}
OverallInv ==
  \A r \in Run :
    /\ pc[r] \notin Collected => overall[r] = None
    /\ overall[r] # None \/ pc[r] = "write_global" => Holds(GlobalKey(r), overall[r])

(* What a run without edits has read of the configuration is on the disk still, and *)
(* was so when it opened the global cache.                                        *)
BeforeConfig == {"new", "sources", "config"}
Opened == {"clean_global", "global"} \cup Collected
CalmInv ==
  \A r \in calm :
    /\ pc[r] \notin BeforeConfig => snapshot[r][Config] = disk[Config]
    /\ pc[r] \in Opened => resolution[r] = snapshot[r][Config]

Inv == StateInv /\ FilesInv /\ GlobalsInv /\ LintedInv /\ OverallInv /\ CalmInv
-----------------------------------------------------------------------------
LEMMA LookupFinds ==
  ASSUME NEW records, NEW key, Lookup(records, key) # None
  PROVE  \E record \in records : record.key = key /\ Lookup(records, key) = record.value
  BY DEF Lookup

LEMMA PutMembers ==
  ASSUME NEW records, NEW key, NEW value, NEW record \in Put(records, key, value)
  PROVE  record \in records \/ (record.key = key /\ record.value = value)
  BY DEF Put

LEMMA PutKeyed ==
  ASSUME NEW records, Keyed(records), NEW key, NEW value
  PROVE  Keyed(Put(records, key, value))
<1> DEFINE kept == {record \in records : record.key # key}
           new == [key |-> key, value |-> value]
<1>1. Put(records, key, value) = kept \cup {new} /\ new.key = key
  BY DEF Put
<1>2. kept \subseteq records /\ \A record \in kept : record.key # key
  OBVIOUS
<1> HIDE DEF kept, new
<1> QED
  BY <1>1, <1>2 DEF Keyed
-----------------------------------------------------------------------------
LEMMA InitInv == Init => Inv
<1> SUFFICES ASSUME Init PROVE Inv
  OBVIOUS
<1> USE DEF Init
<1>1. StateInv
  BY StartAssumption, BoundAssumption DEF StateInv, NoTexts, NoResults, Held, Steps
<1>2. FilesInv /\ GlobalsInv /\ LintedInv /\ CalmInv
  BY DEF FilesInv, GlobalsInv, Keyed, LintedInv, NoResults, CalmInv
<1>3. OverallInv
  BY DEF OverallInv, Collected
<1> QED
  BY <1>1, <1>2, <1>3 DEF Inv

LEMMA EndStep == ASSUME Inv, NEW r \in Run, Ends(r) PROVE Inv'
<1> USE DEF Inv, Ends, project, caches
<1>1. StateInv'
  BY DEF StateInv, Steps, NoTexts, NoResults, Held
<1>2. FilesInv' /\ GlobalsInv'
  BY DEF FilesInv, GlobalsInv
<1>3. LintedInv'
  BY DEF StateInv, LintedInv, NoResults
<1>4. OverallInv'
  BY DEF StateInv, OverallInv, GlobalKey, Collected
<1>5. CalmInv'
  BY DEF StateInv, CalmInv
<1> QED
  BY <1>1, <1>2, <1>3, <1>4, <1>5

LEMMA BeginStep == ASSUME Inv, NEW r \in Run, Begin(r) PROVE Inv'
<1> USE DEF Inv, Begin, Moves, project, caches, identities, results
<1>1. StateInv'
  BY DEF StateInv, Steps
<1>2. FilesInv' /\ GlobalsInv'
  BY DEF FilesInv, GlobalsInv
<1>3. LintedInv'
  BY DEF StateInv, LintedInv, Reading
<1>4. OverallInv'
  BY DEF StateInv, OverallInv, GlobalKey, Collected
<1>5. CalmInv'
  BY DEF StateInv, CalmInv, BeforeConfig, Opened, Collected
<1> QED
  BY <1>1, <1>2, <1>3, <1>4, <1>5

(* While a run reads it has no results, so that nothing depends on what it has read. *)
LEMMA SourceStep == ASSUME Inv, NEW r \in Run, NEW s \in Source, ReadSource(r, s) PROVE Inv'
<1> USE DEF Inv, ReadSource, project, caches, identities, results
<1>1. StateInv'
  BY DEF StateInv, Path
<1>2. FilesInv' /\ GlobalsInv'
  BY DEF FilesInv, GlobalsInv
<1>3. pc[r] \in Reading /\ \A q \in Run : q # r => snapshot'[q] = snapshot[q]
  BY DEF StateInv, Reading
<1>4. LintedInv'
  BY <1>3 DEF LintedInv
<1>5. OverallInv'
  BY <1>3 DEF StateInv, OverallInv, GlobalKey, Collected, Reading
<1>6. \A q \in Run : snapshot'[q][Config] = snapshot[q][Config]
  BY PathAssumption DEF StateInv, Path
<1>7. CalmInv'
  BY <1>6 DEF StateInv, CalmInv
<1> QED
  BY <1>1, <1>2, <1>4, <1>5, <1>7

LEMMA ReadStep == ASSUME Inv, NEW r \in Run, ReadConfig(r) \/ ReadRuntime(r) PROVE Inv'
<1> USE DEF Inv, project, caches, identities, results
<1>1. PICK path \in {Config, Runtime}, from \in Reading \ {"new"}, to \in Steps :
        /\ Reads(r, path, from, to)
        /\ to \in {"runtime", "other_sources", "clean"}
        /\ from \in BeforeConfig => path = Config
  BY DEF ReadConfig, ReadRuntime, Reading, Steps, BeforeConfig
<1> USE <1>1 DEF Reads, Moves
<1>2. StateInv'
  <2>1. snapshot' \in [Run -> [Path -> Held]]
    BY DEF StateInv, Path
  <2> QED
    BY <2>1 DEF StateInv
<1>3. FilesInv' /\ GlobalsInv'
  BY DEF FilesInv, GlobalsInv
<1>4. pc[r] \in Reading /\ \A q \in Run : q # r => pc'[q] = pc[q] /\ snapshot'[q] = snapshot[q]
  BY DEF StateInv
<1>5. LintedInv'
  BY <1>4 DEF LintedInv
<1>6. OverallInv'
  BY <1>4 DEF StateInv, OverallInv, GlobalKey, Collected, Reading
<1>7. CalmInv'
  <2>1. r \in calm => snapshot'[r][Config] = disk[Config]
    BY DEF StateInv, CalmInv, Path
  <2>2. pc'[r] \notin Opened
    BY DEF StateInv, Opened, Collected
  <2> QED
    BY <1>4, <2>1, <2>2 DEF StateInv, CalmInv
<1> QED
  BY <1>2, <1>3, <1>5, <1>6, <1>7

LEMMA FileCacheStep == ASSUME Inv, NEW r \in Run, CleanFiles(r) \/ LintFiles(r) PROVE Inv'
<1> USE DEF Inv, CleanFiles, LintFiles, Moves, project, caches, results
<1>1. StateInv'
  <2>1. CASE CleanFiles(r)
    <3>1. stamp' \in [Run -> 0..layout] /\ pc' \in [Run -> Steps]
      BY <2>1 DEF StateInv, Steps
    <3> QED
      BY <2>1, <3>1 DEF StateInv
  <2>2. CASE LintFiles(r)
    <3>1. stamp' \in [Run -> 0..layout] /\ pc' \in [Run -> Steps]
      BY <2>2 DEF StateInv, Steps
    <3>2. todo' \in [Run -> SUBSET Source]
      BY <2>2 DEF StateInv, Files
    <3> QED
      BY <2>2, <3>1, <3>2 DEF StateInv
  <2> QED
    BY <2>1, <2>2
<1>2. FilesInv' /\ GlobalsInv'
  BY DEF FilesInv, GlobalsInv, Keyed
<1>3. LintedInv'
  BY DEF StateInv, LintedInv, Reading
<1>4. OverallInv'
  BY DEF StateInv, OverallInv, GlobalKey, Collected
<1>5. CalmInv'
  BY DEF StateInv, CalmInv, BeforeConfig, Opened, Collected
<1> QED
  BY <1>1, <1>2, <1>3, <1>4, <1>5

(* The violations of one file, out of a record or of an analysis. *)
LEMMA FileStep ==
  ASSUME Inv, NEW r \in Run, NEW s \in Source, NEW violations, Lints(r, s, violations),
         Follows(FileKey(r, s, stamp[r]), violations), FilesInv'
  PROVE  Inv'
<1> USE DEF Inv, Lints, project, identities
<1>1. StateInv'
  BY DEF StateInv
<1>2. GlobalsInv'
  BY DEF GlobalsInv
<1>3. violations = Violations(snapshot[r], s, violations.runtime)
  BY DEF Follows, FileKey, FileViolations, Violations
<1>4. LintedInv'
  BY <1>3 DEF StateInv, LintedInv, Reading
<1>5. OverallInv' /\ CalmInv'
  BY DEF OverallInv, GlobalKey, CalmInv
<1> QED
  BY <1>1, <1>2, <1>4, <1>5

LEMMA LintStep == ASSUME Inv, NEW r \in Run, NEW s \in Source, CachedFile(r, s) \/ UncachedFile(r, s) PROVE Inv'
<1> DEFINE key == FileKey(r, s, stamp[r])
           violations == FileViolations(snapshot[r], s)
<1>1. CASE CachedFile(r, s)
  <2>1. PICK record \in files : record.key = key /\ Lookup(files, key) = record.value
    BY <1>1, LookupFinds DEF CachedFile
  <2>2. Follows(key, Lookup(files, key))
    BY <2>1 DEF Inv, FilesInv
  <2>3. FilesInv'
    BY <1>1 DEF CachedFile, Inv, FilesInv
  <2> QED
    BY <1>1, <2>2, <2>3, FileStep DEF CachedFile
<1>2. CASE UncachedFile(r, s)
  <2>1. Follows(key, violations)
    BY DEF Follows, FileKey, FileViolations, Violations
  <2>2. files' = files \/ files' = Put(files, key, violations)
    BY <1>2 DEF UncachedFile
  <2>3. Keyed(files')
    BY <2>2, PutKeyed DEF Inv, FilesInv
  <2>4. \A record \in files' : Follows(record.key, record.value)
    BY <2>1, <2>2, PutMembers DEF Inv, FilesInv
  <2>5. FilesInv'
    BY <2>3, <2>4 DEF FilesInv
  <2> QED
    BY <1>2, <2>1, <2>5, FileStep DEF UncachedFile
<1> QED
  BY <1>1, <1>2
-----------------------------------------------------------------------------
LEMMA OpenStep == ASSUME Inv, NEW r \in Run, OpenGlobal(r) PROVE Inv'
<1> USE DEF Inv, OpenGlobal, Moves, project, caches, results
<1>1. StateInv'
  BY DEF StateInv, Steps, Path
<1>2. FilesInv' /\ GlobalsInv'
  BY DEF FilesInv, GlobalsInv
<1>3. LintedInv'
  BY DEF StateInv, LintedInv, Reading
<1>4. OverallInv'
  BY DEF StateInv, OverallInv, GlobalKey, Collected
<1>5. CalmInv'
  BY DEF StateInv, CalmInv, BeforeConfig, Opened, Collected
<1> QED
  BY <1>1, <1>2, <1>3, <1>4, <1>5

LEMMA GlobalStep ==
  ASSUME Inv, NEW r \in Run, CleanGlobal(r) \/ CachedGlobal(r) \/ CollectGlobal(r) \/ WriteGlobal(r)
  PROVE  Inv'
<1> USE DEF Inv, Moves, project, caches, identities, results
<1>1. pc[r] \in Opened /\ pc'[r] \in Opened /\ UNCHANGED <<disk, layout, edits, files, snapshot, todo, stamp, resolution, linted, calm>>
  BY DEF CleanGlobal, CachedGlobal, CollectGlobal, WriteGlobal, Opened, Collected, StateInv
<1>2. /\ \A q \in Run : q # r => pc'[q] = pc[q] /\ overall'[q] = overall[q]
      /\ DOMAIN overall' = Run /\ pc' \in [Run -> Steps]
  BY DEF CleanGlobal, CachedGlobal, CollectGlobal, WriteGlobal, StateInv, Steps
<1>3. StateInv' /\ FilesInv'
  BY <1>1, <1>2 DEF StateInv, FilesInv
<1>4. LintedInv'
  BY <1>1, <1>2 DEF LintedInv, Opened, Collected, Reading
<1>5. CalmInv'
  BY <1>1, <1>2 DEF StateInv, CalmInv, Opened, Collected, BeforeConfig
<1>6. GlobalsInv' /\ (pc'[r] \notin Collected => overall'[r] = None)
      /\ (overall'[r] # None \/ pc'[r] = "write_global" => Holds(GlobalKey(r), overall'[r]))
  <2>1. CASE CleanGlobal(r)
    BY <2>1 DEF CleanGlobal, StateInv, GlobalsInv, Keyed, OverallInv, Collected
  <2>2. CASE CachedGlobal(r)
    <3>1. PICK record \in globals : record.key = GlobalKey(r) /\ Lookup(globals, GlobalKey(r)) = record.value
      BY <2>2, LookupFinds DEF CachedGlobal
    <3> QED
      BY <2>2, <3>1 DEF CachedGlobal, StateInv, GlobalsInv, Collected
  <2>3. CASE CollectGlobal(r)
    <3>1. r \in calm => resolution[r] = snapshot[r][Config]
      BY <1>1 DEF CalmInv
    <3>2. overall'[r] = GlobalViolations(snapshot[r], r \in calm) /\ pc'[r] = "write_global" /\ globals' = globals
      BY <2>3 DEF CollectGlobal, StateInv
    <3>3. Holds(GlobalKey(r), GlobalViolations(snapshot[r], r \in calm))
      BY <3>1 DEF Holds, GlobalKey, GlobalViolations
    <3> QED
      BY <3>2, <3>3 DEF GlobalsInv, Collected
  <2>4. CASE WriteGlobal(r)
    <3>1. overall'[r] = overall[r] /\ Holds(GlobalKey(r), overall[r]) /\ pc'[r] \in Collected
      BY <2>4 DEF WriteGlobal, StateInv, OverallInv, Collected
    <3>2. globals' = globals \/ globals' = Put(globals, GlobalKey(r), overall[r])
      BY <2>4 DEF WriteGlobal
    <3>3. Keyed(globals')
      BY <3>2, PutKeyed DEF GlobalsInv
    <3>4. \A record \in globals' : Holds(record.key, record.value)
      BY <3>1, <3>2, PutMembers DEF GlobalsInv
    <3> QED
      BY <3>1, <3>3, <3>4 DEF GlobalsInv
  <2> QED
    BY <2>1, <2>2, <2>3, <2>4
<1>7. OverallInv'
  BY <1>1, <1>2, <1>6 DEF OverallInv, GlobalKey
<1> QED
  BY <1>3, <1>4, <1>5, <1>6, <1>7

LEMMA EditStep == ASSUME Inv, NEW p \in Path, Edit(p) PROVE Inv'
<1> USE DEF Inv, Edit, caches, identities, results
<1>1. StateInv'
  <2>1. disk' \in [Path -> Held] /\ edits' = edits + 1 /\ edits < MaxEdits /\ layout' \in {layout, layout + 1}
    BY DEF StateInv
  <2>2. layout' \in 0..edits' /\ edits' \in 0..MaxEdits
    BY <2>1, BoundAssumption DEF StateInv
  <2>3. stamp \in [Run -> 0..layout']
    <3>1. 0..layout \subseteq 0..layout'
      BY <2>1 DEF StateInv
    <3> QED
      BY <3>1 DEF StateInv
  <2> QED
    BY <2>1, <2>2, <2>3 DEF StateInv
<1>2. FilesInv' /\ GlobalsInv' /\ LintedInv'
  BY DEF FilesInv, GlobalsInv, LintedInv
<1>3. OverallInv' /\ CalmInv'
  BY DEF OverallInv, GlobalKey, CalmInv
<1> QED
  BY <1>1, <1>2, <1>3

LEMMA InvStep == Inv /\ [Next]_vars => Inv'
<1> SUFFICES ASSUME Inv, [Next]_vars PROVE Inv'
  OBVIOUS
<1>1. CASE UNCHANGED vars
  BY <1>1 DEF Inv, StateInv, FilesInv, GlobalsInv, LintedInv, OverallInv, CalmInv, GlobalKey,
              vars, project, caches, identities, results
<1>2. ASSUME NEW p \in Path, Edit(p) PROVE Inv'
  BY <1>2, EditStep
<1>3. ASSUME NEW r \in Run, Step(r) PROVE Inv'
  <2>1. CASE Begin(r)
    BY <2>1, BeginStep
  <2>2. CASE LintContext(r)
    BY <2>2, SourceStep, ReadStep DEF LintContext
  <2>3. CASE CollectFile(r)
    BY <2>3, FileCacheStep, LintStep DEF CollectFile
  <2>4. CASE CollectsGlobal(r)
    BY <2>4, OpenStep, GlobalStep DEF CollectsGlobal
  <2>5. CASE Report(r) \/ Fails(r)
    BY <2>5, EndStep DEF Report, Fails
  <2> QED
    BY <1>3, <2>1, <2>2, <2>3, <2>4, <2>5 DEF Step
<1> QED
  BY <1>1, <1>2, <1>3 DEF Next

(* Every reachable state satisfies the inductive invariant. *)
THEOREM Invariant == Spec => []Inv
<1>1. Init => Inv
  BY InitInv
<1>2. Inv /\ [Next]_vars => Inv'
  BY InvStep
<1> QED
  BY <1>1, <1>2, PTL DEF Spec

(* The variables keep the values the code gives them, and the records their keys.    *)
THEOREM TypeCorrect == Spec => []TypeOK
<1>1. Inv => TypeOK
  BY DEF Inv, StateInv, FilesInv, GlobalsInv, TypeOK
<1> QED
  BY <1>1, Invariant, PTL

(* What a run reports was computed from the sources of its own snapshot. *)
THEOREM ResultsBelongToSnapshots == Spec => []ResultsAreOfOwnSources
<1>1. Inv => ResultsAreOfOwnSources
  BY DEF Inv, LintedInv, OverallInv, Holds, GlobalKey, ResultsAreOfOwnSources
<1> QED
  BY <1>1, Invariant, PTL

(* Without edits, the violations of the project follow the configuration as well. *)
THEOREM GlobalResultsFollow == Spec => []GlobalFollowsConfiguration
<1>1. Inv => GlobalFollowsConfiguration
  <2> SUFFICES ASSUME Inv, NEW r \in Run, overall[r] # None, overall[r].calm, r \in calm
               PROVE  overall[r].config = snapshot[r][Config]
    BY DEF GlobalFollowsConfiguration
  <2>1. overall[r].config = resolution[r] /\ pc[r] \in Collected
    BY DEF Inv, OverallInv, Holds, GlobalKey
  <2> QED
    BY <2>1 DEF Inv, CalmInv, Opened
<1> QED
  BY <1>1, Invariant, PTL
=============================================================================
