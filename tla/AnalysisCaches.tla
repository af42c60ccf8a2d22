---------------------------- MODULE AnalysisCaches ----------------------------
(***************************************************************************)
(* The caches of violations below the complete lint result: one record per    *)
(* file (FileAnalysisCache) and one for the project (GlobalAnalysisCache), as *)
(* FileLinter and LintRunAnalysis use them in a project run.  Several runs    *)
(* share the directories of the caches; each takes one snapshot of the texts  *)
(* (LintProjectContextCreator) and analyzes that, while the project is edited.*)
(*                                                                          *)
(* A content hash is the content, a list of violations is what it was         *)
(* computed from, the ASTs included (AstCaches).  A record is replaced by a   *)
(* rename, so its file is read whole.  Removing stale records is one step,    *)
(* which removes any part of them, because a failure ends it.  The analyzer,  *)
(* the selected, the ignored and the entry files are the same in all runs.    *)
(***************************************************************************)
EXTENDS Naturals

CONSTANTS Run,        \* executions of the linter, one after another in each
          Source,     \* the sources of the project
          Python,     \* those of them in Python
          Config,     \* tsconfig.json
          Runtime,    \* a JavaScript file that TypeScript sources import
          Content,    \* what a file may hold
          Start,      \* the projects to start from
          None,       \* no record, no result
          MaxEdits    \* bound: edits of the project

Absent == "absent"

Path == Source \cup {Config, Runtime}
Held == Content \cup {Absent}

ASSUME PathAssumption == {Config, Runtime} \cap Source = {} /\ Python \subseteq Source
ASSUME ContentAssumption == Absent \notin Content
ASSUME StartAssumption == Start \subseteq [Path -> Held]
ASSUME BoundAssumption == MaxEdits \in Nat

VARIABLES
  disk,       \* the project: what each path holds
  layout,     \* the modification times of its directories
  edits,      \* edits so far
  files,      \* the records of .ai-code-guard/cache/file
  globals,    \* the records of .ai-code-guard/cache/global
  pc,         \* the next step of each run
  snapshot,   \* per run, the texts it has read
  todo,       \* per run, the sources the current loop has still to handle
  stamp,      \* per run, the directory context of its file cache
  resolution, \* per run, the configuration in the identity of its global cache
  linted,     \* per run, the violations of each source
  overall,    \* per run, the violations of the project
  calm        \* history: the runs during which nobody has edited the project

project == <<disk, layout, edits>>
caches == <<files, globals>>
identities == <<stamp, resolution>>
results == <<linted, overall>>
vars == <<project, caches, pc, snapshot, todo, identities, results, calm>>

NoTexts == [p \in Path |-> Absent]
NoResults == [s \in Source |-> None]

Init ==
  /\ disk \in Start /\ layout = 0 /\ edits = 0
  /\ files = {} /\ globals = {}
  /\ pc = [r \in Run |-> "new"] /\ snapshot = [r \in Run |-> NoTexts]
  /\ todo = [r \in Run |-> {}]
  /\ stamp = [r \in Run |-> 0] /\ resolution = [r \in Run |-> Absent]
  /\ linted = [r \in Run |-> NoResults] /\ overall = [r \in Run |-> None]
  /\ calm = {}
-----------------------------------------------------------------------------
(* A record that is moved to its path while the one before stays. *)
PutBeside(records, key, value) == records \cup {[key |-> key, value |-> value]}

(* persist: the record at the path of its key is replaced. *)
Put(records, key, value) ==
  {record \in records : record.key # key} \cup {[key |-> key, value |-> value]}

Lookup(records, key) ==
  IF \E record \in records : record.key = key
  THEN (CHOOSE record \in records : record.key = key).value
  ELSE None

(* context: the texts of all sources. *)
Context(texts) == [s \in Source |-> texts[s]]
Files(r) == {s \in Source : snapshot[r][s] # Absent}

(* What the violations of a file are computed from, of which the JavaScript file   *)
(* is no source.                                                                 *)
Violations(texts, s, runtime) ==
  [sources |-> Context(texts),
   config |-> IF s \in Python THEN Absent ELSE texts[Config],
   runtime |-> IF s \in Python THEN Absent ELSE runtime]
FileViolations(texts, s) == Violations(texts, s, texts[Runtime])

GlobalViolations(texts, undisturbed) ==
  [sources |-> Context(texts), config |-> texts[Config], runtime |-> texts[Runtime], calm |-> undisturbed]
-----------------------------------------------------------------------------
(* An identity of the file alone. *)
FileKeyWithoutContext(r, s, directories) ==
  [source |-> s, text |-> snapshot[r][s], sources |-> Context(NoTexts), layout |-> directories, config |-> snapshot[r][Config]]

(* cache_path: the context of a file cache is that of the snapshot. *)
FileKey(r, s, directories) ==
  [source |-> s, text |-> snapshot[r][s], sources |-> Context(snapshot[r]),
   layout |-> directories, config |-> snapshot[r][Config]]

(* An identity that leaves the configuration out. *)
GlobalKeyWithoutResolution(r) ==
  [sources |-> Context(snapshot[r]), config |-> Absent]

(* The context of the global cache: the sources of the snapshot, the             *)
(* configuration that was on the disk when the cache was opened.                 *)
GlobalKey(r) ==
  [sources |-> Context(snapshot[r]), config |-> resolution[r]]

(* stale_record: of a source, of a text or of a context that is no longer.       *)
StaleFiles(r) ==
  {record \in files : record.key.source \notin Files(r) \/ record.key # FileKey(r, record.key.source, layout)}
-----------------------------------------------------------------------------
Moves(r, from, to) == pc[r] = from /\ pc' = [pc EXCEPT ![r] = to]

(* The process ends: of its run only what is in the caches remains.              *)
Ends(r) ==
  /\ pc' = [pc EXCEPT ![r] = "new"] /\ snapshot' = [snapshot EXCEPT ![r] = NoTexts]
  /\ todo' = [todo EXCEPT ![r] = {}]
  /\ stamp' = [stamp EXCEPT ![r] = 0] /\ resolution' = [resolution EXCEPT ![r] = Absent]
  /\ linted' = [linted EXCEPT ![r] = NoResults] /\ overall' = [overall EXCEPT ![r] = None]
  /\ calm' = calm \ {r}
  /\ UNCHANGED <<project, caches>>

(* An error, or a kill, at any time. *)
Fails(r) == pc[r] # "new" /\ Ends(r)

(* The inputs of the run have been discovered: either their texts are read for the *)
(* cache of results, or the configuration comes first.                            *)
Begin(r) ==
  /\ Moves(r, "new", "sources") \/ Moves(r, "new", "config")
  /\ todo' = [todo EXCEPT ![r] = {s \in Source : disk[s] # Absent}] /\ calm' = calm \cup {r}
  /\ UNCHANGED <<project, caches, snapshot, identities, results>>

(* project_texts.  A source that is gone is an error, see Fails.                 *)
ReadSource(r, s) ==
  /\ pc[r] \in {"sources", "other_sources"} /\ s \in todo[r] /\ disk[s] # Absent
  /\ snapshot' = [snapshot EXCEPT ![r][s] = disk[s]] /\ todo' = [todo EXCEPT ![r] = @ \ {s}]
  /\ UNCHANGED <<project, caches, pc, identities, results, calm>>

Reads(r, path, from, to) ==
  /\ Moves(r, from, to) /\ snapshot' = [snapshot EXCEPT ![r][path] = disk[path]]
  /\ UNCHANGED <<project, caches, todo, identities, results, calm>>

ReadConfig(r) ==
  (todo[r] = {} /\ Reads(r, Config, "sources", "runtime")) \/ Reads(r, Config, "config", "other_sources")
ReadRuntime(r) ==
  Reads(r, Runtime, "runtime", "clean") \/ (todo[r] = {} /\ Reads(r, Runtime, "other_sources", "clean"))

(* FileLinter: a first file cache takes the stale records away,                  *)
CleanFiles(r) ==
  /\ Moves(r, "clean", "open") /\ stamp' = [stamp EXCEPT ![r] = layout]
  /\ \E removed \in SUBSET StaleFiles(r) : files' = files \ removed
  /\ UNCHANGED <<project, globals, snapshot, todo, resolution, results, calm>>

(* and lint_files makes a second one, with the directories of now.               *)
LintFiles(r) ==
  /\ Moves(r, "open", "lint") /\ stamp' = [stamp EXCEPT ![r] = layout]
  /\ todo' = [todo EXCEPT ![r] = Files(r)]
  /\ UNCHANGED <<project, caches, snapshot, resolution, results, calm>>

Lints(r, s, violations) ==
  /\ pc[r] = "lint" /\ s \in todo[r] /\ todo' = [todo EXCEPT ![r] = @ \ {s}]
  /\ linted' = [linted EXCEPT ![r][s] = violations]
  /\ UNCHANGED <<project, globals, pc, snapshot, identities, overall, calm>>

CachedFile(r, s) ==
  /\ Lookup(files, FileKey(r, s, stamp[r])) # None /\ Lints(r, s, Lookup(files, FileKey(r, s, stamp[r])))
  /\ UNCHANGED files

(* The violations of the file are written, or a system failure is swallowed.     *)
UncachedFile(r, s) ==
  LET violations == FileViolations(snapshot[r], s)
  IN  /\ Lookup(files, FileKey(r, s, stamp[r])) = None /\ Lints(r, s, violations)
      /\ files' \in {files, Put(files, FileKey(r, s, stamp[r]), violations)}
-----------------------------------------------------------------------------
(* collect_global: the cache, *)
OpenGlobal(r) ==
  /\ todo[r] = {} /\ Moves(r, "lint", "clean_global")
  /\ resolution' = [resolution EXCEPT ![r] = disk[Config]]
  /\ UNCHANGED <<project, caches, snapshot, todo, stamp, results, calm>>

(* clean_unused_records: all records but its own, *)
CleanGlobal(r) ==
  /\ Moves(r, "clean_global", "global")
  /\ \E removed \in SUBSET {record \in globals : record.key # GlobalKey(r)} : globals' = globals \ removed
  /\ UNCHANGED <<project, files, snapshot, todo, identities, results, calm>>

CachedGlobal(r) ==
  /\ Lookup(globals, GlobalKey(r)) # None /\ Moves(r, "global", "report")
  /\ overall' = [overall EXCEPT ![r] = Lookup(globals, GlobalKey(r))]
  /\ UNCHANGED <<project, caches, snapshot, todo, identities, linted, calm>>

CollectGlobal(r) ==
  /\ Lookup(globals, GlobalKey(r)) = None /\ Moves(r, "global", "write_global")
  /\ overall' = [overall EXCEPT ![r] = GlobalViolations(snapshot[r], r \in calm)]
  /\ UNCHANGED <<project, caches, snapshot, todo, identities, linted, calm>>

WriteGlobal(r) ==
  /\ Moves(r, "write_global", "report")
  /\ globals' \in {globals, Put(globals, GlobalKey(r), overall[r])}
  /\ UNCHANGED <<project, files, snapshot, todo, identities, results, calm>>

(* The result of collect is returned. *)
Report(r) == pc[r] = "report" /\ Ends(r)
-----------------------------------------------------------------------------
(* A path is edited in place, or appears or goes, which changes its directory.   *)
Edit(p) ==
  /\ edits < MaxEdits /\ edits' = edits + 1
  /\ \E held \in Held \ {disk[p]} :
       /\ disk' = [disk EXCEPT ![p] = held]
       /\ layout' = IF Absent \in {held, disk[p]} THEN layout + 1 ELSE layout
  /\ calm' = {}
  /\ UNCHANGED <<caches, pc, snapshot, todo, identities, results>>

LintContext(r) ==
  (\E s \in Source : ReadSource(r, s)) \/ ReadConfig(r) \/ ReadRuntime(r)
CollectFile(r) ==
  \/ CleanFiles(r) \/ LintFiles(r)
  \/ \E s \in Source : CachedFile(r, s) \/ UncachedFile(r, s)
CollectsGlobal(r) ==
  OpenGlobal(r) \/ CleanGlobal(r) \/ CachedGlobal(r) \/ CollectGlobal(r) \/ WriteGlobal(r)
Step(r) ==
  Begin(r) \/ LintContext(r) \/ CollectFile(r) \/ CollectsGlobal(r) \/ Report(r) \/ Fails(r)

Next == (\E r \in Run : Step(r)) \/ (\E p \in Path : Edit(p))

Spec == Init /\ [][Next]_vars
-----------------------------------------------------------------------------
Steps == {"new", "sources", "config", "other_sources", "runtime", "clean", "open", "lint", "clean_global", "global", "write_global", "report"}

Keyed(records) == \A one, other \in records : one.key = other.key => one = other

(* Every variable stays within the values the code gives it, and no cache holds   *)
(* two records under one key.                                                    *)
TypeOK ==
  /\ disk \in [Path -> Held] /\ layout \in 0..edits /\ edits \in 0..MaxEdits
  /\ Keyed(files) /\ Keyed(globals)
  /\ pc \in [Run -> Steps] /\ snapshot \in [Run -> [Path -> Held]]
  /\ todo \in [Run -> SUBSET Source] /\ stamp \in [Run -> 0..layout]
  /\ resolution \in [Run -> Held] /\ calm \subseteq Run

(* Whatever was edited when, and whatever other runs wrote and removed: the       *)
(* violations a run reports, cached or not, were computed from the very sources   *)
(* of its own snapshot, those of its files also under the configuration of the    *)
(* snapshot.                                                                     *)
ResultsAreOfOwnSources ==
  \A r \in Run :
    /\ \A s \in Source :
         linted[r][s] # None =>
           linted[r][s] = Violations(snapshot[r], s, linted[r][s].runtime)
    /\ overall[r] # None => overall[r].sources = Context(snapshot[r])

(* The violations of the project were computed under the configuration that the  *)
(* run itself analyzes, unless the project was edited during the run or during    *)
(* the one that computed them.                                                   *)
GlobalFollowsConfiguration ==
  \A r \in Run : overall[r] # None /\ overall[r].calm /\ r \in calm => overall[r].config = snapshot[r][Config]
=============================================================================
