-------------------------- MODULE LintExecutionCache --------------------------
(***************************************************************************)
(* The cache of complete lint results: ProjectLintSession.cached_analysis     *)
(* with LintExecutionCachePreparer, LintExecutionCacheLookup,                 *)
(* LintExecutionCacheContext and LintExecutionCache.  One record per project  *)
(* holds a result under an identity of the inputs it was computed from.       *)
(* Several runs of the linter may be at it at once, and the project is edited *)
(* between any two of their file system accesses.                             *)
(*                                                                          *)
(* The project is one directory.  A content hash is the content; a discovery  *)
(* of the inputs and a listing of the directory are one step each.  A run     *)
(* that is killed takes no further step: a record is replaced by a rename.    *)
(***************************************************************************)
EXTENDS Naturals

CONSTANTS Run,       \* executions of the linter
          Source,    \* source files, those an ignore file may hide included
          Ignore,    \* the ignore file
          Config,    \* tsconfig.json, which the identity covers
          Manifest,  \* pyproject.toml, which the analysis reads
          Content,   \* what a file may hold
          Hides,     \* the sources each content of the ignore file hides
          Start,     \* the projects to start from
          SkipReview, \* the option of all the runs, without which no inputs are reused
          None,      \* no record, no result
          Attempts,  \* CACHE_INPUT_STABILITY_ATTEMPTS
          MaxEdits   \* bound: edits of the project

Absent == "absent"

Path == Source \cup {Ignore, Config, Manifest}
Held == Content \cup {Absent}

ASSUME PathAssumption == {Ignore, Config, Manifest} \cap Source = {}
ASSUME ContentAssumption == Absent \notin Content
ASSUME HidesAssumption == Hides \in [Held -> SUBSET Source]
ASSUME StartAssumption == Start \subseteq [Path -> Held]
ASSUME OptionAssumption == SkipReview \in BOOLEAN
ASSUME BoundAssumption == Attempts \in Nat \ {0} /\ MaxEdits \in Nat

VARIABLES
  disk,     \* the project: what each path holds
  record,   \* the record in the cache, None without one
  pc,       \* the next step of each run
  inputs,   \* per run, the input files it works with
  texts,    \* per run, its snapshot of the sources
  complete, \* the runs whose snapshot is complete
  attempt,  \* per run, the attempt at stable inputs
  todo,     \* per run, the files the current loop has still to read
  config,   \* per run, the configuration in the identity
  prints,   \* per run, the content hashes in the identity
  dirs,     \* per run, the directory entries in the identity
  missed,   \* the runs whose candidate without a snapshot did not match
  result,   \* per run, what its analysis has yielded
  edits,    \* edits so far
  calm,     \* history: the runs during which nobody has edited the project
  calmly    \* history: the record was made by a run during which nobody did

project == <<disk, edits>>
preparation == <<inputs, texts, complete, attempt, todo>>
identity == <<config, prints, dirs>>
progress == <<missed, result>>
vars == <<project, record, pc, preparation, identity, progress, calm, calmly>>

NoTexts == [s \in Source |-> Absent]
NoPrints == [p \in Path |-> Absent]

Init ==
  /\ disk \in Start /\ edits = 0
  /\ record = None /\ calmly = FALSE
  /\ pc = [r \in Run |-> "new"]
  /\ inputs = [r \in Run |-> {}] /\ texts = [r \in Run |-> NoTexts] /\ complete = {}
  /\ attempt = [r \in Run |-> 0] /\ todo = [r \in Run |-> {}]
  /\ config = [r \in Run |-> Absent] /\ prints = [r \in Run |-> NoPrints]
  /\ dirs = [r \in Run |-> {}]
  /\ missed = {} /\ result = [r \in Run |-> None] /\ calm = {}

Listing == {p \in Path : disk[p] # Absent}

(* input_files: the files that are there and that the ignore file does not hide. *)
Discovered == Listing \cap ((Source \ Hides[disk[Ignore]]) \cup {Ignore})

(* What an analysis of a snapshot of sources yields now: the configuration and  *)
(* the directory are read while it runs.                                        *)
Result(snapshot) == [texts |-> snapshot, config |-> disk[Config],
                     manifest |-> disk[Manifest], dirs |-> Listing]

Fresh == Result([s \in Source |-> IF s \in Discovered THEN disk[s] ELSE Absent])

Moves(r, from, to) == pc[r] = from /\ pc' = [pc EXCEPT ![r] = to]

(* The run returns or throws, and forgets what it worked with. *)
Ends(r) ==
  /\ pc' = [pc EXCEPT ![r] = "done"]
  /\ inputs' = [inputs EXCEPT ![r] = {}] /\ texts' = [texts EXCEPT ![r] = NoTexts]
  /\ complete' = complete \ {r} /\ attempt' = [attempt EXCEPT ![r] = 0]
  /\ todo' = [todo EXCEPT ![r] = {}] /\ config' = [config EXCEPT ![r] = Absent]
  /\ prints' = [prints EXCEPT ![r] = NoPrints] /\ dirs' = [dirs EXCEPT ![r] = {}]
  /\ missed' = missed \ {r} /\ result' = [result EXCEPT ![r] = None] /\ calm' = calm \ {r}
-----------------------------------------------------------------------------
(* cached_analysis *)
Begin(r) ==
  /\ Moves(r, "new", "lookup") /\ calm' = calm \cup {r}
  /\ UNCHANGED <<project, record, preparation, identity, progress, calmly>>

(* reusable_inputs: the inputs of the record, if the directory and the ignore   *)
(* files are as they were; their metadata may refuse what their content admits. *)
Lookup(r) ==
  /\ \/ /\ SkipReview /\ record # None /\ Moves(r, "lookup", "ignore")
        /\ inputs' = [inputs EXCEPT ![r] = record.inputs]
        /\ prints' = [prints EXCEPT ![r] = record.prints] /\ dirs' = [dirs EXCEPT ![r] = record.dirs]
     \/ ~(SkipReview /\ record # None) /\ Moves(r, "lookup", "discover") /\ UNCHANGED <<inputs, prints, dirs>>
  /\ UNCHANGED <<project, record, texts, complete, attempt, todo, config, progress, calm, calmly>>

Refuses(r, from) ==
  /\ Moves(r, from, "discover")
  /\ inputs' = [inputs EXCEPT ![r] = {}] /\ prints' = [prints EXCEPT ![r] = NoPrints]
  /\ dirs' = [dirs EXCEPT ![r] = {}]

IgnoreFilesCurrent(r) ==
  /\ \/ /\ Ignore \in inputs[r] => disk[Ignore] = prints[r][Ignore] /\ disk[Ignore] # Absent
        /\ Moves(r, "ignore", "directories_current") /\ UNCHANGED <<inputs, prints, dirs>>
     \/ Ignore \in inputs[r] /\ Refuses(r, "ignore")
  /\ UNCHANGED <<project, record, texts, complete, attempt, todo, config, progress, calm, calmly>>

DirectoriesCurrent(r) ==
  /\ IF Listing = dirs[r]
     THEN /\ Moves(r, "directories_current", "config")
          /\ prints' = [prints EXCEPT ![r] = NoPrints] /\ dirs' = [dirs EXCEPT ![r] = {}]
          /\ UNCHANGED inputs
     ELSE Refuses(r, "directories_current")
  /\ UNCHANGED <<project, record, texts, complete, attempt, todo, config, progress, calm, calmly>>

Discover(r) ==
  /\ Moves(r, "discover", "snapshot") /\ inputs' = [inputs EXCEPT ![r] = Discovered]
  /\ UNCHANGED <<project, record, texts, complete, attempt, todo, identity, progress, calm, calmly>>
-----------------------------------------------------------------------------
(* prepare_for_inputs: snapshot of the texts, identity, confirmation.           *)
BeginSnapshot(r) ==
  /\ Moves(r, "snapshot", "read")
  /\ texts' = [texts EXCEPT ![r] = NoTexts] /\ complete' = complete \cup {r}
  /\ todo' = [todo EXCEPT ![r] = inputs[r] \cap Source]
  /\ UNCHANGED <<project, record, inputs, attempt, identity, progress, calm, calmly>>

ReadSource(r, s) ==
  /\ pc[r] = "read" /\ s \in todo[r] /\ disk[s] # Absent
  /\ texts' = [texts EXCEPT ![r][s] = disk[s]] /\ todo' = [todo EXCEPT ![r] = @ \ {s}]
  /\ UNCHANGED <<project, record, pc, inputs, complete, attempt, identity, progress, calm, calmly>>

(* A source that is gone when it is to be read ends the run with an error. *)
SourceIsMissing(r) ==
  /\ pc[r] = "read" /\ \E s \in todo[r] : disk[s] = Absent
  /\ Ends(r)
  /\ UNCHANGED <<project, record, calmly>>

SnapshotRead(r) ==
  /\ todo[r] = {} /\ Moves(r, "read", "config")
  /\ UNCHANGED <<project, record, preparation, identity, progress, calm, calmly>>

(* LintExecutionCacheContext: the configuration, the fingerprint of every input *)
(* file, from the snapshot where it has the file, and the directory entries.    *)
ReadConfig(r) ==
  /\ Moves(r, "config", "fingerprint") /\ config' = [config EXCEPT ![r] = disk[Config]]
  /\ prints' = [prints EXCEPT ![r] = NoPrints] /\ todo' = [todo EXCEPT ![r] = inputs[r]]
  /\ UNCHANGED <<project, record, inputs, texts, complete, attempt, dirs, progress, calm, calmly>>

(* A fingerprint that is always taken from the disk. *)
FingerprintFromDisk(r, p) ==
  /\ pc[r] = "fingerprint" /\ p \in todo[r] /\ todo' = [todo EXCEPT ![r] = @ \ {p}]
  /\ prints' = [prints EXCEPT ![r][p] = disk[p]]
  /\ UNCHANGED <<project, record, pc, inputs, texts, complete, attempt, config, dirs, progress, calm, calmly>>

Fingerprint(r, p) ==
  /\ pc[r] = "fingerprint" /\ p \in todo[r] /\ todo' = [todo EXCEPT ![r] = @ \ {p}]
  /\ prints' = [prints EXCEPT ![r][p] = IF r \in complete /\ p \in Source THEN texts[r][p] ELSE disk[p]]
  /\ UNCHANGED <<project, record, pc, inputs, texts, complete, attempt, config, dirs, progress, calm, calmly>>

Directories(r) ==
  /\ todo[r] = {} /\ dirs' = [dirs EXCEPT ![r] = Listing]
  /\ IF r \in complete THEN Moves(r, "fingerprint", "confirm") ELSE Moves(r, "fingerprint", "cached")
  /\ UNCHANGED <<project, record, preparation, config, prints, progress, calm, calmly>>

(* The inputs are discovered once more; when they have changed the preparation  *)
(* starts again with them, and after the last attempt the run fails.             *)
Confirm(r) ==
  /\ Discovered = inputs[r]
  /\ IF r \in missed THEN Moves(r, "confirm", "analyze") ELSE Moves(r, "confirm", "cached")
  /\ UNCHANGED <<project, record, preparation, identity, progress, calm, calmly>>

InputsChanged(r) ==
  /\ Discovered # inputs[r] /\ attempt[r] + 1 < Attempts /\ Moves(r, "confirm", "snapshot")
  /\ inputs' = [inputs EXCEPT ![r] = Discovered] /\ attempt' = [attempt EXCEPT ![r] = @ + 1]
  /\ UNCHANGED <<project, record, texts, complete, todo, identity, progress, calm, calmly>>

InputsUnstable(r) ==
  /\ pc[r] = "confirm" /\ Discovered # inputs[r] /\ attempt[r] + 1 = Attempts
  /\ Ends(r)
  /\ UNCHANGED <<project, record, calmly>>
-----------------------------------------------------------------------------
(* An identity that leaves the configuration out. *)
MatchesWithoutConfig(r) ==
  /\ record # None
  /\ record.inputs = inputs[r] /\ record.prints = prints[r] /\ record.dirs = dirs[r]

(* cached_result: the identities are equal. *)
Matches(r) ==
  /\ record # None /\ record.config = config[r]
  /\ record.inputs = inputs[r] /\ record.prints = prints[r] /\ record.dirs = dirs[r]

Serve(r) ==
  /\ pc[r] = "cached" /\ Matches(r) /\ Ends(r)
  /\ UNCHANGED <<project, record, calmly>>

(* A candidate without a snapshot is prepared in full, and the cache is not      *)
(* asked again.                                                                 *)
Miss(r) ==
  /\ ~Matches(r)
  /\ \/ r \in complete /\ Moves(r, "cached", "analyze") /\ UNCHANGED missed
     \/ r \notin complete /\ Moves(r, "cached", "snapshot") /\ missed' = missed \cup {r}
  /\ UNCHANGED <<project, record, preparation, identity, result, calm, calmly>>

(* analyze_inputs and write: the result goes under the identity of before.       *)
Analyze(r) ==
  /\ Moves(r, "analyze", "write")
  /\ result' = [result EXCEPT ![r] = Result(texts[r])]
  /\ UNCHANGED <<project, record, preparation, identity, missed, calm, calmly>>

Write(r) ==
  /\ pc[r] = "write"
  /\ record' = [inputs |-> inputs[r], prints |-> prints[r], config |-> config[r],
                 dirs |-> dirs[r], result |-> result[r]]
  /\ calmly' = (r \in calm) /\ Ends(r)
  /\ UNCHANGED project

(* A system failure while writing is swallowed. *)
WriteFails(r) ==
  /\ pc[r] = "write" /\ Ends(r)
  /\ UNCHANGED <<project, record, calmly>>
-----------------------------------------------------------------------------
(* The project is edited: a file appears, changes or goes. *)
Edit(p) ==
  /\ edits < MaxEdits /\ edits' = edits + 1
  /\ \E c \in Held \ {disk[p]} : disk' = [disk EXCEPT ![p] = c]
  /\ calm' = {}
  /\ UNCHANGED <<record, pc, preparation, identity, progress, calmly>>

Prepare(r) ==
  \/ BeginSnapshot(r) \/ (\E s \in Source : ReadSource(r, s)) \/ SourceIsMissing(r) \/ SnapshotRead(r)
  \/ ReadConfig(r) \/ (\E p \in Path : Fingerprint(r, p)) \/ Directories(r)
  \/ Confirm(r) \/ InputsChanged(r) \/ InputsUnstable(r)
Step(r) ==
  \/ Begin(r) \/ Lookup(r) \/ IgnoreFilesCurrent(r) \/ DirectoriesCurrent(r) \/ Discover(r)
  \/ Prepare(r) \/ Serve(r) \/ Miss(r) \/ Analyze(r) \/ Write(r) \/ WriteFails(r)

Next == (\E r \in Run : Step(r)) \/ (\E p \in Path : Edit(p))

Spec == Init /\ [][Next]_vars
-----------------------------------------------------------------------------
(* Whatever was edited while the record was made or while it is looked up: a     *)
(* result is served only to a run that found in every input file the very text   *)
(* it was computed from.                                                         *)
Seen(r) == [s \in Source |-> IF s \in inputs[r] THEN prints[r][s] ELSE Absent]
ServesWhatItSaw == [][\A r \in Run : Serve(r) => record.result.texts = Seen(r)]_vars

(* When nobody edited the project during the run that made the record, nor       *)
(* during the one it is served to, however much was edited in between and        *)
(* whatever other runs did, the result is what an analysis would yield now (the   *)
(* manifest aside).                                                              *)
ServesFreshResults ==
  [][\A r \in Run : Serve(r) /\ calmly /\ r \in calm =>
       record.result = [Fresh EXCEPT !.manifest = record.result.manifest]]_vars
=============================================================================
