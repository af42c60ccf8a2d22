------------------------------- MODULE AstCaches -------------------------------
(***************************************************************************)
(* The records of normalized ASTs on the disk (AstDiskCache), as              *)
(* LintProjectContextCreator uses them: ContextSourceRecordCache for the      *)
(* TypeScript sources and PythonAstBatchCache for those in Python.  Several   *)
(* runs share the directories; each takes a snapshot of the texts and looks   *)
(* for the ASTs of that, while the project is edited.                         *)
(*                                                                          *)
(* A content hash is the content, an AST is what it was computed from.  A     *)
(* record is replaced by a rename, so its file is read whole; a pass over the *)
(* records or over the sources is one step, in which any of the removals and  *)
(* of the writes may fail.  The memory of the batch cache is empty in a new   *)
(* process and holds nothing it looks for later in one run.                   *)
(***************************************************************************)
EXTENDS Naturals

CONSTANTS Run,      \* executions of the linter, one after another in each
          Source,   \* the sources of the project
          Python,   \* those of them in Python
          Config,   \* tsconfig.json
          Runtime,  \* a JavaScript file that TypeScript sources import
          Content,  \* what a file may hold
          Start,    \* the projects to start from
          None,     \* no record, no AST
          MaxEdits  \* bound: edits of the project

Absent == "absent"

Path == Source \cup {Config, Runtime}
Held == Content \cup {Absent}

ASSUME PathAssumption == {Config, Runtime} \cap Source = {} /\ Python \subseteq Source
ASSUME ContentAssumption == Absent \notin Content
ASSUME StartAssumption == Start \subseteq [Path -> Held]
ASSUME BoundAssumption == MaxEdits \in Nat

VARIABLES
  disk,     \* the project: what each path holds
  edits,    \* edits so far
  asts,     \* the records of .ai-code-guard/cache/ast, of both owners
  pc,       \* the next step of each run
  snapshot, \* per run, the texts it has read
  todo,     \* per run, the sources it has still to read
  parsed    \* per run, the AST of each source

vars == <<disk, edits, asts, pc, snapshot, todo, parsed>>

NoTexts == [p \in Path |-> Absent]
NoAsts == [s \in Source |-> None]
TypeScript == Source \ Python

Init ==
  /\ disk \in Start /\ edits = 0 /\ asts = {}
  /\ pc = [r \in Run |-> "new"] /\ snapshot = [r \in Run |-> NoTexts]
  /\ todo = [r \in Run |-> {}] /\ parsed = [r \in Run |-> NoAsts]
-----------------------------------------------------------------------------
Texts(texts) == [s \in Source |-> texts[s]]
Files(r) == {s \in Source : snapshot[r][s] # Absent}

(* What the AST of a source is computed from: in Python its text, in TypeScript    *)
(* also what its imports lead to, JavaScript files included.                      *)
TypeScriptAst(texts, s, runtime) ==
  [text |-> texts[s], sources |-> Texts(texts), config |-> texts[Config], runtime |-> runtime]
Ast(texts, s) == IF s \in Python THEN [text |-> texts[s]] ELSE TypeScriptAst(texts, s, texts[Runtime])

(* source_identity over the text of the file alone. *)
ProjectIdentityOfFile(texts, s) ==
  IF s \in Python THEN None
  ELSE [sources |-> [Texts(NoTexts) EXCEPT ![s] = texts[s]], config |-> texts[Config]]

(* cache_identity: the sources and the configuration; Python has none.            *)
ProjectIdentity(texts, s) ==
  IF s \in Python THEN None ELSE [sources |-> Texts(texts), config |-> texts[Config]]

(* cache_path *)
Key(texts, s) == [source |-> s, text |-> texts[s], identity |-> ProjectIdentity(texts, s)]

(* content: the record at the path of the key, if there is one.                   *)
Recorded(records, key) ==
  IF \E record \in records : record.key = key
  THEN (CHOOSE record \in records : record.key = key).ast
  ELSE None

(* A record that is moved to its path while the one before stays. *)
PutBeside(records, texts, sources) ==
  records \cup {[key |-> Key(texts, s), ast |-> Ast(texts, s)] : s \in sources}

(* write, for some of the sources: the records at the paths of their keys are      *)
(* replaced.                                                                     *)
Put(records, texts, sources) ==
  {record \in records : \A s \in sources : record.key # Key(texts, s)}
  \cup {[key |-> Key(texts, s), ast |-> Ast(texts, s)] : s \in sources}

(* stale_record: the text on the disk is not that of the record, or the record is  *)
(* not of the project as the run sees it.                                        *)
Stale(r, language) ==
  {record \in asts :
     LET s == record.key.source
     IN  s \in language /\ record.key # [Key(snapshot[r], s) EXCEPT !.text = disk[s]]}
-----------------------------------------------------------------------------
Moves(r, from, to) == pc[r] = from /\ pc' = [pc EXCEPT ![r] = to]

(* The process ends: of its run only what is in the caches remains.              *)
Ends(r) ==
  /\ pc' = [pc EXCEPT ![r] = "new"] /\ snapshot' = [snapshot EXCEPT ![r] = NoTexts]
  /\ todo' = [todo EXCEPT ![r] = {}] /\ parsed' = [parsed EXCEPT ![r] = NoAsts]
  /\ UNCHANGED <<disk, edits, asts>>

(* An error, or a kill, at any time. *)
Fails(r) == pc[r] # "new" /\ Ends(r)

(* The inputs of the run have been discovered: either their texts are read for the *)
(* cache of results, or the configuration comes first.                            *)
Begin(r) ==
  /\ Moves(r, "new", "sources") \/ Moves(r, "new", "config")
  /\ todo' = [todo EXCEPT ![r] = {s \in Source : disk[s] # Absent}]
  /\ UNCHANGED <<disk, edits, asts, snapshot, parsed>>

(* project_texts.  A source that is gone is an error, see Fails.                 *)
ReadSource(r, s) ==
  /\ pc[r] \in {"sources", "other_sources"} /\ s \in todo[r] /\ disk[s] # Absent
  /\ snapshot' = [snapshot EXCEPT ![r][s] = disk[s]] /\ todo' = [todo EXCEPT ![r] = @ \ {s}]
  /\ UNCHANGED <<disk, edits, asts, pc, parsed>>

ReadConfig(r) ==
  /\ (todo[r] = {} /\ Moves(r, "sources", "runtime")) \/ Moves(r, "config", "other_sources")
  /\ snapshot' = [snapshot EXCEPT ![r][Config] = disk[Config]]
  /\ UNCHANGED <<disk, edits, asts, todo, parsed>>

ReadRuntime(r) ==
  /\ Moves(r, "runtime", "python") \/ (todo[r] = {} /\ Moves(r, "other_sources", "python"))
  /\ snapshot' = [snapshot EXCEPT ![r][Runtime] = disk[Runtime]]
  /\ UNCHANGED <<disk, edits, asts, todo, parsed>>

(* Any part of what is stale of a language goes. *)
Cleans(r, language) == \E kept \in SUBSET Stale(r, language) : asts' = (asts \ Stale(r, language)) \cup kept

(* clean_unused_records, then every source of the language is looked for.          *)
Reads(r, language) ==
  /\ Cleans(r, language)
  /\ parsed' = [parsed EXCEPT ![r] =
       [s \in Source |-> IF s \in Files(r) \cap language THEN Recorded(asts', Key(snapshot[r], s)) ELSE @[s]]]
  /\ UNCHANGED <<disk, edits, snapshot, todo>>

PreparePython(r) == Moves(r, "python", "typescript") /\ Reads(r, Python)
CachedAsts(r) == Moves(r, "typescript", "normalize") /\ Reads(r, TypeScript)

Missing(r, language) == {s \in Files(r) \cap language : parsed[r][s] = None}

(* The sources of the language that were not found are parsed, *)
Parses(r, language) ==
  parsed' = [parsed EXCEPT ![r] =
    [s \in Source |-> IF s \in Missing(r, language) THEN Ast(snapshot[r], s) ELSE @[s]]]

(* and those that can be written are.                                            *)
WriteTypeScript(r) ==
  /\ Moves(r, "normalize", "clean") /\ Parses(r, TypeScript)
  /\ \E written \in SUBSET Missing(r, TypeScript) : asts' = Put(asts, snapshot[r], written)
  /\ UNCHANGED <<disk, edits, snapshot, todo>>

CleanPython(r) ==
  /\ Moves(r, "clean", "complete") /\ Cleans(r, Python)
  /\ UNCHANGED <<disk, edits, snapshot, todo, parsed>>

CompletePython(r) ==
  /\ Moves(r, "complete", "context") /\ Parses(r, Python)
  /\ \E written \in SUBSET Missing(r, Python) : asts' = Put(asts, snapshot[r], written)
  /\ UNCHANGED <<disk, edits, snapshot, todo>>

(* The context is complete: it is analyzed (AnalysisCaches), and the run ends.     *)
Analyzed(r) == pc[r] = "context" /\ Ends(r)

Edit(p) ==
  /\ edits < MaxEdits /\ edits' = edits + 1
  /\ \E held \in Held \ {disk[p]} : disk' = [disk EXCEPT ![p] = held]
  /\ UNCHANGED <<asts, pc, snapshot, todo, parsed>>

Step(r) ==
  \/ Begin(r) \/ (\E s \in Source : ReadSource(r, s)) \/ ReadConfig(r) \/ ReadRuntime(r)
  \/ PreparePython(r) \/ CachedAsts(r) \/ WriteTypeScript(r) \/ CleanPython(r) \/ CompletePython(r)
  \/ Analyzed(r) \/ Fails(r)

Next == (\E r \in Run : Step(r)) \/ (\E p \in Path : Edit(p))

Spec == Init /\ [][Next]_vars
-----------------------------------------------------------------------------
Steps == {"new", "sources", "config", "other_sources", "runtime", "python", "typescript", "normalize", "clean", "complete", "context"}

(* Every variable stays within the values the code gives it, and no two records    *)
(* have one path.                                                                *)
TypeOK ==
  /\ disk \in [Path -> Held] /\ edits \in 0..MaxEdits
  /\ \A one, other \in asts : one.key = other.key => one = other
  /\ pc \in [Run -> Steps] /\ snapshot \in [Run -> [Path -> Held]]
  /\ todo \in [Run -> SUBSET Source]
  /\ \A r \in Run : \A s \in Source : parsed[r][s] # None => s \in Files(r)

(* Whatever was edited when, and whatever other runs wrote and removed: an AST a   *)
(* run works with, cached or not, is that of the source in the run's own snapshot, *)
(* of TypeScript among the sources and under the configuration of the snapshot.    *)
AstsAreOwn ==
  \A r \in Run : \A s \in Source :
    parsed[r][s] # None =>
      parsed[r][s] = IF s \in Python THEN Ast(snapshot[r], s)
                     ELSE TypeScriptAst(snapshot[r], s, parsed[r][s].runtime)
=============================================================================
