---------------------- MODULE LintExecutionCacheProofs ----------------------
(***************************************************************************)
(* Proofs about LintExecutionCache, for any sources, contents and runs: what a *)
(* run knows of its snapshot and of its identity at each step, what the record *)
(* holds, and from them that a served result is that of the texts seen.    *)
(***************************************************************************)
EXTENDS LintExecutionCache, TLAPS

(* The steps and the values of a run.                                             *)
Steps == {"new", "lookup", "ignore", "directories_current", "discover", "snapshot", "read",
          "config", "fingerprint", "confirm", "cached", "analyze", "write", "done"}
Inputs == SUBSET (Source \cup {Ignore})
Texts == [Source -> Held]
Results == [texts : Texts, config : Held, manifest : Held, dirs : SUBSET Path]
Records == [inputs : Inputs, prints : [Path -> Held], config : Held, dirs : SUBSET Path,
            result : Results]

StateInv ==
  /\ disk \in [Path -> Held]
  /\ record # None => record \in Records
  /\ pc \in [Run -> Steps] /\ inputs \in [Run -> Inputs] /\ texts \in [Run -> Texts]
  /\ complete \subseteq Run /\ calm \subseteq Run /\ todo \in [Run -> SUBSET Path]
  /\ config \in [Run -> Held] /\ prints \in [Run -> [Path -> Held]]
  /\ dirs \in [Run -> SUBSET Path]
  /\ DOMAIN result = Run /\ \A r \in Run : pc[r] = "write" => result[r] \in Results

(* The steps at which a run that has its snapshot works with it, and those at which *)
(* its identity is complete.                                                      *)
Prepared == {"read", "config", "fingerprint", "confirm", "cached", "analyze", "write"}
Identified == {"confirm", "cached", "analyze", "write"}

(* The snapshot has the inputs and nothing else, and the identity of a run with a  *)
(* snapshot has the texts of that.                                                *)
SnapshotInv(r) ==
  /\ pc[r] \in {"new", "lookup", "ignore", "directories_current", "discover"} => r \notin complete
  /\ pc[r] \in {"read", "confirm", "analyze", "write"} => r \in complete
  /\ pc[r] \in {"read", "fingerprint"} => todo[r] \subseteq inputs[r]
  /\ r \in complete /\ pc[r] \in Prepared => \A s \in Source \ inputs[r] : texts[r][s] = Absent
  /\ r \in complete /\ pc[r] = "fingerprint" =>
       \A s \in (inputs[r] \cap Source) \ todo[r] : prints[r][s] = texts[r][s]
  /\ r \in complete /\ pc[r] \in Identified =>
       \A s \in inputs[r] \cap Source : prints[r][s] = texts[r][s]
  /\ pc[r] = "write" => result[r].texts = texts[r]

(* What a discovery finds in a directory with these entries, when the ignore file   *)
(* is hashed like that.                                                           *)
Finds(entries, hashes) ==
  entries \cap ((Source \ Hides[IF Ignore \in entries THEN hashes[Ignore] ELSE Absent]) \cup {Ignore})

(* As long as nobody edits, what a run has read is what is on the disk.             *)
CalmInv(r) ==
  /\ pc[r] = "read" => \A s \in (inputs[r] \cap Source) \ todo[r] : texts[r][s] = disk[s]
  /\ r \in complete /\ pc[r] \in {"config", "fingerprint"} =>
       \A s \in inputs[r] \cap Source : texts[r][s] = disk[s]
  /\ pc[r] \in {"fingerprint"} \cup Identified => config[r] = disk[Config]
  /\ pc[r] = "fingerprint" => \A p \in inputs[r] \ todo[r] : prints[r][p] = disk[p]
  /\ pc[r] \in Identified => dirs[r] = Listing /\ \A p \in inputs[r] : prints[r][p] = disk[p]
  /\ r \in complete /\ pc[r] \in {"cached", "analyze", "write"} => inputs[r] = Discovered
  /\ pc[r] = "write" => result[r].config = config[r] /\ result[r].dirs = dirs[r]

(* A record has the result of the texts in its identity; one of a calm run also has *)
(* the other inputs of its result there.                                          *)
SeenBy(files, hashes) == [s \in Source |-> IF s \in files THEN hashes[s] ELSE Absent]
RecordInv ==
  record # None =>
    /\ record.result.texts = SeenBy(record.inputs, record.prints)
    /\ calmly => /\ record.result.config = record.config /\ record.result.dirs = record.dirs
                 /\ record.inputs = Finds(record.dirs, record.prints)

Inv ==
  /\ StateInv /\ RecordInv
  /\ \A r \in Run : SnapshotInv(r) /\ (r \in calm => CalmInv(r))

-----------------------------------------------------------------------------
(* Nothing is recorded and no run has begun.                                      *)
LEMMA InitInv == Init => Inv
<1> SUFFICES ASSUME Init PROVE Inv
  OBVIOUS
<1> USE PathAssumption, ContentAssumption, StartAssumption DEF Init
<1>1. StateInv
  BY DEF StateInv, Steps, Inputs, Texts, NoTexts, NoPrints, Held, Path
<1>2. RecordInv /\ \A r \in Run : SnapshotInv(r) /\ r \notin calm
  BY DEF RecordInv, SnapshotInv, Prepared, Identified
<1> QED
  BY <1>1, <1>2 DEF Inv

(* A run changes what is its own, and the record.                                 *)
LEMMA OthersKeep ==
  ASSUME Inv, NEW r \in Run, Step(r), NEW q \in Run, q # r
  PROVE  /\ pc'[q] = pc[q] /\ inputs'[q] = inputs[q] /\ texts'[q] = texts[q] /\ todo'[q] = todo[q]
         /\ config'[q] = config[q] /\ prints'[q] = prints[q] /\ dirs'[q] = dirs[q]
         /\ result'[q] = result[q]
         /\ (q \in complete' <=> q \in complete) /\ (q \in calm' <=> q \in calm)
         /\ disk' = disk
<1> USE DEF Inv, StateInv, Moves, project, preparation, identity, progress
<1>1. CASE Begin(r) \/ Lookup(r) \/ IgnoreFilesCurrent(r) \/ DirectoriesCurrent(r) \/ Discover(r)
  BY <1>1 DEF Begin, Lookup, IgnoreFilesCurrent, DirectoriesCurrent, Refuses, Discover
<1>2. CASE BeginSnapshot(r) \/ (\E s \in Source : ReadSource(r, s)) \/ SnapshotRead(r) \/ ReadConfig(r)
           \/ (\E p \in Path : Fingerprint(r, p))
  BY <1>2 DEF BeginSnapshot, ReadSource, SnapshotRead, ReadConfig, Fingerprint
<1>3. CASE Directories(r) \/ Confirm(r) \/ InputsChanged(r) \/ Miss(r) \/ Analyze(r)
  BY <1>3 DEF Directories, Confirm, InputsChanged, Miss, Analyze
<1>4. CASE SourceIsMissing(r) \/ InputsUnstable(r) \/ Serve(r) \/ Write(r) \/ WriteFails(r)
  BY <1>4 DEF SourceIsMissing, InputsUnstable, Serve, Write, WriteFails, Ends
<1> QED
  BY <1>1, <1>2, <1>3, <1>4 DEF Step, Prepare

(* So what is left to show of a step is about the run that takes it.               *)
LEMMA RunStep ==
  ASSUME Inv, NEW r \in Run, Step(r), StateInv', RecordInv', SnapshotInv(r)', r \in calm' => CalmInv(r)'
  PROVE  Inv'
<1>1. ASSUME NEW q \in Run, q # r
      PROVE  SnapshotInv(q)' /\ (q \in calm' => CalmInv(q)')
  <2>1. SnapshotInv(q) /\ (q \in calm => CalmInv(q))
    BY DEF Inv
  <2> QED
    BY <1>1, <2>1, OthersKeep DEF SnapshotInv, CalmInv, Listing, Discovered
<1> QED
  BY <1>1 DEF Inv

(* What is said of the record is said of nothing else.                            *)
LEMMA SameRecord ==
  ASSUME Inv, UNCHANGED <<record, calmly>>
  PROVE  RecordInv'
  BY DEF Inv, RecordInv, Finds, SeenBy

(* Whatever ends a run forgets its snapshot.                                      *)
LEMMA EndsStep ==
  ASSUME Inv, NEW r \in Run, Step(r), Ends(r), RecordInv', record' # None => record' \in Records
  PROVE  Inv'
<1> USE PathAssumption, ContentAssumption
<1>1. disk' = disk
  BY DEF Step, Prepare, Begin, Lookup, IgnoreFilesCurrent, DirectoriesCurrent, Discover, BeginSnapshot, ReadSource,
     SourceIsMissing, SnapshotRead, ReadConfig, Fingerprint, Directories, Confirm, InputsChanged, InputsUnstable,
     Serve, Miss, Analyze, Write, WriteFails, project
<1>2. StateInv'
  BY <1>1 DEF Inv, StateInv, Ends, Steps, Inputs, Texts, NoTexts, NoPrints, Held, Path
<1>3. SnapshotInv(r)' /\ r \notin calm'
  BY DEF Ends, Inv, StateInv, SnapshotInv, Prepared, Identified
<1> QED
  BY <1>2, <1>3, RunStep

(* A run ends with an error, an answer from the record, or a record of its own.    *)
LEMMA EndStep ==
  ASSUME Inv, NEW r \in Run,
         SourceIsMissing(r) \/ InputsUnstable(r) \/ Serve(r) \/ Write(r) \/ WriteFails(r)
  PROVE  Inv'
<1>1. Step(r) /\ Ends(r)
  BY DEF Step, Prepare, SourceIsMissing, InputsUnstable, Serve, Write, WriteFails
<1>2. CASE ~Write(r)
  <2>1. UNCHANGED <<record, calmly>>
    BY <1>2 DEF SourceIsMissing, InputsUnstable, Serve, WriteFails
  <2> QED
    BY <1>1, <2>1, EndsStep, SameRecord DEF Inv, StateInv
<1>3. CASE Write(r)
  <2> USE <1>3 DEF Write
  <2>1. record' \in Records
    BY DEF Inv, StateInv, Records, Results
  <2>2. /\ record'.inputs = inputs[r] /\ record'.prints = prints[r] /\ record'.config = config[r]
        /\ record'.dirs = dirs[r] /\ record'.result = result[r] /\ (calmly' => r \in calm)
    OBVIOUS
  <2>3. result[r].texts = SeenBy(inputs[r], prints[r])
    <3>1. /\ result[r].texts = texts[r] /\ texts[r] \in Texts
          /\ \A s \in Source : texts[r][s] = IF s \in inputs[r] THEN prints[r][s] ELSE Absent
      BY DEF Inv, StateInv, SnapshotInv, Prepared, Identified
    <3> QED
      BY <3>1 DEF SeenBy, Texts
  <2>4. ASSUME r \in calm
        PROVE  result[r].config = config[r] /\ result[r].dirs = dirs[r] /\ inputs[r] = Finds(dirs[r], prints[r])
    <3>1. /\ result[r].config = config[r] /\ result[r].dirs = dirs[r]
          /\ dirs[r] = Listing /\ inputs[r] = Discovered /\ \A p \in inputs[r] : prints[r][p] = disk[p]
      BY <2>4 DEF Inv, CalmInv, SnapshotInv, Identified
    <3>2. Ignore \in Listing => Ignore \in Discovered
      BY DEF Discovered
    <3>3. Ignore \notin Listing => disk[Ignore] = Absent
      BY DEF Listing, Path
    <3> QED
      BY <3>1, <3>2, <3>3 DEF Finds, Discovered
  <2>5. RecordInv'
    <3>1. record'.result.texts = SeenBy(record'.inputs, record'.prints)
      BY <2>2, <2>3
    <3>2. calmly' => record'.inputs = Finds(record'.dirs, record'.prints)
      BY <2>2, <2>4
    <3> QED
      BY <2>2, <2>4, <3>1, <3>2 DEF RecordInv, SeenBy, Finds
  <2> QED
    BY <1>1, <2>1, <2>5, EndsStep
<1> QED
  BY <1>2, <1>3

(* From the lookup to the inputs: nothing is in a snapshot yet.                     *)
LEMMA LookupStep ==
  ASSUME Inv, NEW r \in Run,
         Begin(r) \/ Lookup(r) \/ IgnoreFilesCurrent(r) \/ DirectoriesCurrent(r) \/ Discover(r)
  PROVE  Inv'
<1> USE PathAssumption, ContentAssumption DEF Moves, project, preparation, identity, progress
<1>1. PICK to \in {"lookup", "ignore", "discover", "directories_current", "config", "snapshot"} :
        /\ pc' = [pc EXCEPT ![r] = to]
        /\ pc[r] \in {"new", "lookup", "ignore", "directories_current", "discover"}
  BY DEF Begin, Lookup, IgnoreFilesCurrent, DirectoriesCurrent, Refuses, Discover
<1>2. UNCHANGED <<disk, record, texts, complete, attempt, todo, config, missed, result, calmly>>
  BY DEF Begin, Lookup, IgnoreFilesCurrent, DirectoriesCurrent, Discover
<1>3. r \notin complete
  BY <1>1 DEF Inv, SnapshotInv
<1>4. StateInv'
  <2>1. /\ inputs \in [Run -> Inputs] /\ {} \in Inputs /\ Discovered \in Inputs
        /\ prints \in [Run -> [Path -> Held]] /\ NoPrints \in [Path -> Held]
        /\ dirs \in [Run -> SUBSET Path]
        /\ record # None => /\ record.inputs \in Inputs /\ record.prints \in [Path -> Held]
                            /\ record.dirs \in SUBSET Path
    BY DEF Inv, StateInv, Records, Inputs, Discovered, NoPrints, Held
  <2>2. inputs' \in [Run -> Inputs] /\ prints' \in [Run -> [Path -> Held]] /\ dirs' \in [Run -> SUBSET Path]
    <3>1. CASE Begin(r) \/ Discover(r)
      BY <2>1, <3>1 DEF Begin, Discover
    <3>2. CASE Lookup(r)
      BY <2>1, <3>2 DEF Lookup
    <3>3. CASE IgnoreFilesCurrent(r) \/ DirectoriesCurrent(r)
      BY <2>1, <3>3 DEF IgnoreFilesCurrent, DirectoriesCurrent, Refuses
    <3> QED
      BY <3>1, <3>2, <3>3
  <2>3. calm' \subseteq Run
    BY DEF Begin, Lookup, IgnoreFilesCurrent, DirectoriesCurrent, Discover, Inv, StateInv
  <2> QED
    BY <1>1, <1>2, <2>2, <2>3 DEF Inv, StateInv, Steps
<1>5. SnapshotInv(r)' /\ CalmInv(r)'
  BY <1>1, <1>2, <1>3 DEF Inv, StateInv, SnapshotInv, CalmInv, Prepared, Identified
<1>6. Step(r)
  BY DEF Step
<1> QED
  BY <1>2, <1>4, <1>5, <1>6, SameRecord, RunStep

(* The snapshot of the texts. *)
LEMMA SnapshotStep ==
  ASSUME Inv, NEW r \in Run,
         BeginSnapshot(r) \/ (\E s \in Source : ReadSource(r, s)) \/ SnapshotRead(r)
  PROVE  Inv'
<1> USE PathAssumption, ContentAssumption DEF Inv, Moves, project, preparation, identity, progress
<1>1. Step(r) /\ UNCHANGED <<disk, record, calm, calmly>>
  BY DEF Step, Prepare, BeginSnapshot, ReadSource, SnapshotRead
<1>2. CASE BeginSnapshot(r)
  <2> USE <1>2 DEF BeginSnapshot
  <2>1. StateInv'
    BY DEF StateInv, Steps, Inputs, Texts, NoTexts, Held, Path
  <2>2. SnapshotInv(r)' /\ CalmInv(r)'
    BY DEF StateInv, SnapshotInv, CalmInv, NoTexts, Prepared, Identified
  <2> QED
    BY <1>1, <2>1, <2>2, SameRecord, RunStep
<1>3. ASSUME NEW s \in Source, ReadSource(r, s) PROVE Inv'
  <2> USE <1>3 DEF ReadSource
  <2>1. /\ pc[r] = "read" /\ pc' = pc /\ inputs' = inputs /\ s \in todo[r] /\ todo[r] \subseteq inputs[r]
        /\ texts'[r][s] = disk[s] /\ \A t \in Source : t # s => texts'[r][t] = texts[r][t]
        /\ todo'[r] = todo[r] \ {s}
    BY DEF StateInv, SnapshotInv, Texts
  <2>2. StateInv'
    BY DEF StateInv, Texts, Path
  <2>3. SnapshotInv(r)' /\ (r \in calm => CalmInv(r)')
    BY <2>1 DEF SnapshotInv, CalmInv, Prepared, Identified
  <2> QED
    BY <1>1, <2>2, <2>3, SameRecord, RunStep
<1>4. CASE SnapshotRead(r)
  <2> USE <1>4 DEF SnapshotRead
  <2>1. pc[r] = "read" /\ pc'[r] = "config" /\ todo[r] = {}
    BY DEF StateInv
  <2>2. StateInv'
    BY DEF StateInv, Steps
  <2>3. SnapshotInv(r)' /\ (r \in calm => CalmInv(r)')
    BY <2>1 DEF SnapshotInv, CalmInv, Prepared, Identified
  <2> QED
    BY <1>1, <2>2, <2>3, SameRecord, RunStep
<1> QED
  BY <1>2, <1>3, <1>4

(* The identity of the inputs. *)
LEMMA IdentityStep ==
  ASSUME Inv, NEW r \in Run,
         ReadConfig(r) \/ (\E p \in Path : Fingerprint(r, p)) \/ Directories(r)
  PROVE  Inv'
<1> USE PathAssumption, ContentAssumption DEF Inv, Moves, project, preparation, identity, progress
<1>1. Step(r) /\ UNCHANGED <<disk, record, calm, calmly>>
  BY DEF Step, Prepare, ReadConfig, Fingerprint, Directories
<1>2. CASE ReadConfig(r)
  <2> USE <1>2 DEF ReadConfig
  <2>1. pc[r] = "config" /\ pc'[r] = "fingerprint" /\ todo'[r] = inputs[r] /\ config'[r] = disk[Config]
    BY DEF StateInv
  <2>2. StateInv'
    BY DEF StateInv, Steps, Inputs, NoPrints, Held, Path
  <2>3. SnapshotInv(r)' /\ (r \in calm => CalmInv(r)')
    BY <2>1 DEF SnapshotInv, CalmInv, Prepared, Identified
  <2> QED
    BY <1>1, <2>2, <2>3, SameRecord, RunStep
<1>3. ASSUME NEW p \in Path, Fingerprint(r, p) PROVE Inv'
  <2> USE <1>3 DEF Fingerprint
  <2>1. /\ pc[r] = "fingerprint" /\ pc' = pc /\ p \in todo[r] /\ todo[r] \subseteq inputs[r]
        /\ prints'[r][p] = (IF r \in complete /\ p \in Source THEN texts[r][p] ELSE disk[p])
        /\ \A q \in Path : q # p => prints'[r][q] = prints[r][q]
        /\ todo'[r] = todo[r] \ {p} /\ inputs[r] \subseteq Path
    BY DEF StateInv, SnapshotInv, Inputs, Path
  <2>2. StateInv'
    BY DEF StateInv, Texts, Path
  <2>3. SnapshotInv(r)'
    BY <2>1 DEF SnapshotInv, Prepared, Identified, Path
  <2>4. r \in calm => CalmInv(r)'
    BY <2>1 DEF CalmInv, Identified
  <2> QED
    BY <1>1, <2>2, <2>3, <2>4, SameRecord, RunStep
<1>4. CASE Directories(r)
  <2> USE <1>4 DEF Directories
  <2>1. /\ pc[r] = "fingerprint" /\ pc'[r] = (IF r \in complete THEN "confirm" ELSE "cached")
        /\ dirs'[r] = Listing /\ todo[r] = {}
    BY DEF StateInv
  <2>2. StateInv'
    <3>1. PICK to \in {"confirm", "cached"} : pc' = [pc EXCEPT ![r] = to]
      OBVIOUS
    <3>2. Listing \in SUBSET Path
      BY DEF Listing
    <3> QED
      BY <3>1, <3>2 DEF StateInv, Steps
  <2>3. SnapshotInv(r)' /\ (r \in calm => CalmInv(r)')
    BY <2>1 DEF SnapshotInv, CalmInv, Prepared, Identified, Listing
  <2> QED
    BY <1>1, <2>2, <2>3, SameRecord, RunStep
<1> QED
  BY <1>2, <1>3, <1>4

(* The inputs are confirmed or prepared once more, the record is missed, the inputs  *)
(* are analyzed.                                                                   *)
LEMMA AnalysisStep ==
  ASSUME Inv, NEW r \in Run, Confirm(r) \/ InputsChanged(r) \/ Miss(r) \/ Analyze(r)
  PROVE  Inv'
<1> USE PathAssumption, ContentAssumption DEF Inv, Moves, project, preparation, identity, progress
<1>1. Step(r) /\ UNCHANGED <<disk, record, calm, calmly>>
  BY DEF Step, Prepare, Confirm, InputsChanged, Miss, Analyze
<1>2. CASE Confirm(r)
  <2> USE <1>2 DEF Confirm
  <2>1. pc[r] = "confirm" /\ pc'[r] \in {"analyze", "cached"} /\ inputs[r] = Discovered
    BY DEF StateInv
  <2>2. StateInv'
    BY DEF StateInv, Steps
  <2>3. SnapshotInv(r)' /\ (r \in calm => CalmInv(r)')
    BY <2>1 DEF SnapshotInv, CalmInv, Prepared, Identified, Listing, Discovered
  <2> QED
    BY <1>1, <2>2, <2>3, SameRecord, RunStep
<1>3. CASE InputsChanged(r)
  <2> USE <1>3 DEF InputsChanged
  <2>1. pc[r] = "confirm" /\ pc'[r] = "snapshot"
    BY DEF StateInv
  <2>2. StateInv'
    BY DEF StateInv, Steps, Inputs, Discovered
  <2>3. SnapshotInv(r)' /\ CalmInv(r)'
    BY <2>1 DEF SnapshotInv, CalmInv, Prepared, Identified
  <2> QED
    BY <1>1, <2>2, <2>3, SameRecord, RunStep
<1>4. CASE Miss(r)
  <2> USE <1>4 DEF Miss
  <2>1. pc[r] = "cached" /\ pc'[r] = IF r \in complete THEN "analyze" ELSE "snapshot"
    BY DEF StateInv
  <2>2. StateInv'
    BY DEF StateInv, Steps
  <2>3. SnapshotInv(r)' /\ (r \in calm => CalmInv(r)')
    BY <2>1 DEF SnapshotInv, CalmInv, Prepared, Identified, Listing, Discovered
  <2> QED
    BY <1>1, <2>2, <2>3, SameRecord, RunStep
<1>5. CASE Analyze(r)
  <2> USE <1>5 DEF Analyze
  <2>1. /\ pc[r] = "analyze" /\ pc'[r] = "write" /\ result'[r] = Result(texts[r])
    BY DEF StateInv
  <2>2. StateInv'
    BY DEF StateInv, Steps, Result, Results, Listing, Path
  <2>3. SnapshotInv(r)'
    BY <2>1 DEF SnapshotInv, Prepared, Identified, Result
  <2>4. r \in calm => CalmInv(r)'
    <3>1. result'[r].config = disk[Config] /\ result'[r].dirs = Listing
      BY <2>1 DEF Result
    <3> QED
      BY <2>1, <3>1 DEF SnapshotInv, CalmInv, Identified, Listing, Discovered
  <2> QED
    BY <1>1, <2>2, <2>3, <2>4, SameRecord, RunStep
<1> QED
  BY <1>2, <1>3, <1>4, <1>5

(* Every step of a run and every edit of the project keep the invariant.          *)
LEMMA NextInv == Inv /\ [Next]_vars => Inv'
<1> SUFFICES ASSUME Inv, [Next]_vars PROVE Inv'
  OBVIOUS
<1>1. CASE UNCHANGED vars
  BY <1>1 DEF vars, project, preparation, identity, progress, Inv, StateInv, RecordInv, SeenBy, Finds, SnapshotInv,
     CalmInv, Listing, Discovered
<1>2. ASSUME NEW r \in Run, Step(r) PROVE Inv'
  BY <1>2, LookupStep, SnapshotStep, IdentityStep, AnalysisStep, EndStep DEF Step, Prepare
<1>3. ASSUME NEW p \in Path, Edit(p) PROVE Inv'
  <2> USE <1>3 DEF Edit, preparation, identity, progress
  <2>1. StateInv' /\ RecordInv'
    BY SameRecord DEF Inv, StateInv
  <2>2. \A r \in Run : SnapshotInv(r)' /\ r \notin calm'
    BY DEF Inv, SnapshotInv
  <2> QED
    BY <2>1, <2>2 DEF Inv
<1> QED
  BY <1>1, <1>2, <1>3 DEF Next

(* However the runs and the edits mix, a record has the result of the texts in its *)
(* identity, and that of calm runs the result of everything in it.                *)
THEOREM Invariance == Spec => []Inv
<1> QED
  BY InitInv, NextInv, PTL DEF Spec

-----------------------------------------------------------------------------
(* A run that serves the record serves an analysis of exactly the texts that it    *)
(* has fingerprinted, whoever wrote it and whatever was edited since.             *)
THEOREM ServesOwnTexts == Spec => ServesWhatItSaw
<1>1. ASSUME Inv, NEW r \in Run, Serve(r)
      PROVE  record.result.texts = Seen(r)
  BY <1>1 DEF Inv, RecordInv, Serve, Matches, Seen, SeenBy
<1>2. Inv /\ [Next]_vars => [\A r \in Run : Serve(r) => record.result.texts = Seen(r)]_vars
  BY <1>1
<1> QED
  BY <1>2, Invariance, PTL DEF Spec, ServesWhatItSaw

(* When nobody has edited the project during this run nor during the one that wrote *)
(* the record, what is served is what an analysis would find now, but for the      *)
(* manifests, which the identity does not cover.                                  *)
THEOREM ServesFresh == Spec => ServesFreshResults
<1> USE PathAssumption DEF Inv
<1>1. ASSUME Inv, NEW r \in Run, Serve(r), calmly, r \in calm
      PROVE  record.result = [Fresh EXCEPT !.manifest = record.result.manifest]
  <2>1. /\ record # None /\ record \in Records /\ record.config = config[r] /\ record.inputs = inputs[r]
        /\ record.prints = prints[r] /\ record.dirs = dirs[r] /\ pc[r] = "cached"
    BY <1>1 DEF Serve, Matches, StateInv
  <2>2. dirs[r] = Listing /\ config[r] = disk[Config] /\ \A p \in inputs[r] : prints[r][p] = disk[p]
    BY <1>1, <2>1 DEF CalmInv, Identified
  <2>3. inputs[r] = Finds(Listing, prints[r])
    BY <1>1, <2>1, <2>2 DEF RecordInv
  <2>4. inputs[r] = Discovered
    <3>1. Ignore \in Listing => Ignore \in inputs[r]
      BY <2>3 DEF Finds
    <3>2. Ignore \notin Listing => disk[Ignore] = Absent
      BY DEF Listing, Path
    <3> QED
      BY <2>2, <2>3, <3>1, <3>2 DEF Finds, Discovered
  <2>5. record.result.texts = [s \in Source |-> IF s \in Discovered THEN disk[s] ELSE Absent]
    BY <1>1, <2>1, <2>2, <2>4 DEF RecordInv, SeenBy
  <2>6. record.result.config = disk[Config] /\ record.result.dirs = Listing /\ record.result \in Results
    BY <1>1, <2>1, <2>2 DEF RecordInv, Records
  <2>7. record.result = [texts |-> record.result.texts, config |-> record.result.config,
                         manifest |-> record.result.manifest, dirs |-> record.result.dirs]
    BY <2>6 DEF Results
  <2>8. ASSUME NEW seen, NEW options, NEW old, NEW entries, NEW new
        PROVE  [[texts |-> seen, config |-> options, manifest |-> old, dirs |-> entries]
                  EXCEPT !.manifest = new] =
               [texts |-> seen, config |-> options, manifest |-> new, dirs |-> entries]
    OBVIOUS
  <2>9. Fresh = [texts |-> [s \in Source |-> IF s \in Discovered THEN disk[s] ELSE Absent],
                 config |-> disk[Config], manifest |-> disk[Manifest], dirs |-> Listing]
    BY DEF Fresh, Result
  <2> QED
    BY <2>5, <2>6, <2>7, <2>8, <2>9
<1>2. Inv /\ [Next]_vars =>
        [\A r \in Run : Serve(r) /\ calmly /\ r \in calm =>
           record.result = [Fresh EXCEPT !.manifest = record.result.manifest]]_vars
  BY <1>1
<1> QED
  BY <1>2, Invariance, PTL DEF Spec, ServesFreshResults
=============================================================================
