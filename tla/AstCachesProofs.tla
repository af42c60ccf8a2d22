---------------------------- MODULE AstCachesProofs ----------------------------
(***************************************************************************)
(* Proofs about AstCaches, for any number of runs and edits and any project:  *)
(* what is in the records, and why an AST that is found in one is that of the *)
(* run that looks for it.                                                     *)
(***************************************************************************)
EXTENDS AstCaches, TLAPS

(* The records that some run may have written. *)
Record(texts, s) == [key |-> Key(texts, s), ast |-> Ast(texts, s)]
Filed == {Record(texts, s) : texts \in [Path -> Held], s \in Source}

(* ast stands for that of a source among these texts; the identity of a record     *)
(* does not cover the JavaScript file.                                            *)
Own(texts, s, ast) ==
  ast = IF s \in Python THEN Ast(texts, s) ELSE TypeScriptAst(texts, s, ast.runtime)

UniqueKeys(records) == \A one, other \in records : one.key = other.key => one = other

StateInv ==
  /\ disk \in [Path -> Held] /\ edits \in 0..MaxEdits /\ pc \in [Run -> Steps]
  /\ snapshot \in [Run -> [Path -> Held]] /\ todo \in [Run -> SUBSET Source] /\ DOMAIN parsed = Run

(* Whoever wrote a record, it holds what its key says. *)
RecordInv == asts \subseteq Filed /\ UniqueKeys(asts)

(* What a run has found or parsed is its own, and it has nothing of that as long as *)
(* it reads its snapshot.                                                         *)
Reading == {"new", "sources", "config", "other_sources", "runtime", "python"}
ParsedInv ==
  \A r \in Run : \A s \in Source :
    parsed[r][s] # None => s \in Files(r) /\ Own(snapshot[r], s, parsed[r][s]) /\ pc[r] \notin Reading

Inv == StateInv /\ RecordInv /\ ParsedInv
-----------------------------------------------------------------------------
LEMMA RecordedIsOwn ==
  ASSUME NEW records \in SUBSET Filed, NEW texts \in [Path -> Held], NEW s \in Source,
         Recorded(records, Key(texts, s)) # None
  PROVE  Own(texts, s, Recorded(records, Key(texts, s)))
<1> DEFINE found == CHOOSE record \in records : record.key = Key(texts, s)
<1>1. found \in records /\ found.key = Key(texts, s) /\ Recorded(records, Key(texts, s)) = found.ast
  BY DEF Recorded
<1> HIDE DEF found
<1>2. PICK before \in [Path -> Held], q \in Source : found = Record(before, q)
  BY <1>1 DEF Filed
<1>3. Key(before, q) = Key(texts, s) /\ found.ast = Ast(before, q)
  BY <1>1, <1>2 DEF Record
<1>4. q = s /\ before[s] = texts[s] /\ ProjectIdentity(before, s) = ProjectIdentity(texts, s)
  BY <1>3 DEF Key
<1>5. CASE s \in Python
  BY <1>1, <1>3, <1>4, <1>5 DEF Own, Ast, TypeScriptAst
<1>6. CASE s \notin Python
  <2>1. Texts(before) = Texts(texts) /\ before[Config] = texts[Config]
    BY <1>4, <1>6 DEF ProjectIdentity
  <2> QED
    BY <1>1, <1>3, <1>4, <1>6, <2>1 DEF Own, Ast, TypeScriptAst
<1> QED
  BY <1>5, <1>6

LEMMA AstIsOwn == ASSUME NEW texts, NEW s PROVE Own(texts, s, Ast(texts, s))
  BY DEF Own, Ast, TypeScriptAst

LEMMA PutRecords ==
  ASSUME NEW records \in SUBSET Filed, UniqueKeys(records), NEW texts \in [Path -> Held], NEW sources \in SUBSET Source
  PROVE  Put(records, texts, sources) \in SUBSET Filed /\ UniqueKeys(Put(records, texts, sources))
<1> DEFINE kept == {record \in records : \A s \in sources : record.key # Key(texts, s)}
           written == {Record(texts, s) : s \in sources}
<1>1. Put(records, texts, sources) = kept \cup written
  BY DEF Put, Record
<1>2. written \subseteq Filed
  BY DEF Filed
<1>3. \A one, other \in written : one.key = other.key => one = other
  BY DEF Record, Key
<1>4. \A one \in kept, other \in written : one.key # other.key
  BY DEF Record
<1>5. \A one, other \in kept : one.key = other.key => one = other
  BY DEF UniqueKeys
<1> HIDE DEF kept, written
<1>6. kept \subseteq records
  BY DEF kept
<1> QED
  BY <1>1, <1>2, <1>3, <1>4, <1>5, <1>6 DEF UniqueKeys

LEMMA CleanedRecords ==
  ASSUME RecordInv, NEW r, NEW language, Cleans(r, language)
  PROVE  RecordInv'
<1>1. asts' \subseteq asts
  BY DEF Cleans, Stale
<1> QED
  BY <1>1 DEF RecordInv, UniqueKeys
-----------------------------------------------------------------------------
LEMMA InitInv == Init => Inv
  BY StartAssumption, BoundAssumption
     DEF Init, Inv, StateInv, RecordInv, UniqueKeys, ParsedInv, NoTexts, NoAsts, Held, Steps

(* While a run reads it has no AST, so that nothing depends on what it has read. *)
LEMMA ReadingStep ==
  ASSUME Inv, NEW r \in Run,
         Begin(r) \/ (\E s \in Source : ReadSource(r, s)) \/ ReadConfig(r) \/ ReadRuntime(r)
  PROVE  Inv'
<1> USE DEF Inv, Moves
<1>1. /\ pc[r] \in Reading /\ UNCHANGED <<asts, parsed, disk, edits>>
      /\ \A q \in Run : q # r => pc'[q] = pc[q] /\ snapshot'[q] = snapshot[q]
  BY DEF Begin, ReadSource, ReadConfig, ReadRuntime, Reading, StateInv
<1>2. StateInv'
  <2>1. CASE Begin(r)
    BY <2>1 DEF StateInv, Steps, Begin
  <2>2. CASE \E s \in Source : ReadSource(r, s)
    BY <2>2 DEF StateInv, Steps, ReadSource, Path
  <2>3. CASE ReadConfig(r)
    <3>1. snapshot' \in [Run -> [Path -> Held]]
      BY <2>3 DEF StateInv, ReadConfig, Path
    <3> QED
      BY <2>3, <3>1 DEF StateInv, Steps, ReadConfig
  <2>4. CASE ReadRuntime(r)
    <3>1. snapshot' \in [Run -> [Path -> Held]]
      BY <2>4 DEF StateInv, ReadRuntime, Path
    <3> QED
      BY <2>4, <3>1 DEF StateInv, Steps, ReadRuntime
  <2> QED
    BY <2>1, <2>2, <2>3, <2>4
<1>3. RecordInv'
  BY <1>1 DEF RecordInv
<1>4. ParsedInv'
  BY <1>1 DEF ParsedInv, Files
<1> QED
  BY <1>2, <1>3, <1>4

LEMMA CacheStep ==
  ASSUME Inv, NEW r \in Run, NEW language \in {Python, TypeScript}, Reads(r, language),
         Moves(r, "python", "typescript") \/ Moves(r, "typescript", "normalize")
  PROVE  Inv'
<1> USE DEF Inv
<1>1. RecordInv'
  BY CleanedRecords DEF Reads
<1>2. StateInv'
  BY DEF StateInv, Reads, Moves, Steps
<1>3. pc'[r] \notin Reading /\ snapshot' = snapshot /\ \A q \in Run : q # r => pc'[q] = pc[q] /\ parsed'[q] = parsed[q]
  BY DEF Reads, Moves, Reading, StateInv
<1>4. ASSUME NEW s \in Source, parsed'[r][s] # None
      PROVE  s \in Files(r) /\ Own(snapshot[r], s, parsed'[r][s])
  <2>1. CASE s \in Files(r) \cap language
    <3>1. parsed'[r][s] = Recorded(asts', Key(snapshot[r], s))
      BY <2>1 DEF Reads, StateInv
    <3>2. asts' \in SUBSET Filed /\ snapshot[r] \in [Path -> Held]
      BY <1>1 DEF RecordInv, StateInv
    <3> QED
      BY <1>4, <2>1, <3>1, <3>2, RecordedIsOwn
  <2>2. CASE s \notin Files(r) \cap language
    BY <1>4, <2>2 DEF Reads, StateInv, ParsedInv
  <2> QED
    BY <2>1, <2>2
<1>5. ParsedInv'
  BY <1>3, <1>4 DEF ParsedInv, Files
<1> QED
  BY <1>1, <1>2, <1>5

LEMMA ParseStep ==
  ASSUME Inv, NEW r \in Run, NEW language \in {Python, TypeScript}, Parses(r, language),
         NEW written \in SUBSET Missing(r, language), asts' = Put(asts, snapshot[r], written),
         Moves(r, "normalize", "clean") \/ Moves(r, "complete", "context"), UNCHANGED <<disk, edits, snapshot, todo>>
  PROVE  Inv'
<1> USE DEF Inv
<1>1. written \in SUBSET Source /\ snapshot[r] \in [Path -> Held]
  BY DEF Missing, Files, StateInv
<1>2. RecordInv'
  BY <1>1, PutRecords DEF RecordInv
<1>3. StateInv'
  BY DEF StateInv, Parses, Moves, Steps
<1>4. pc'[r] \notin Reading /\ \A q \in Run : q # r => pc'[q] = pc[q] /\ parsed'[q] = parsed[q]
  BY DEF Parses, Moves, Reading, StateInv
<1>5. ASSUME NEW s \in Source, parsed'[r][s] # None
      PROVE  s \in Files(r) /\ Own(snapshot[r], s, parsed'[r][s])
  <2>1. CASE s \in Missing(r, language)
    <3>1. parsed'[r][s] = Ast(snapshot[r], s)
      BY <2>1 DEF Parses, StateInv
    <3> QED
      BY <2>1, <3>1, AstIsOwn DEF Missing
  <2>2. CASE s \notin Missing(r, language)
    BY <1>5, <2>2 DEF Parses, StateInv, ParsedInv
  <2> QED
    BY <2>1, <2>2
<1>6. ParsedInv'
  BY <1>4, <1>5 DEF ParsedInv, Files
<1> QED
  BY <1>2, <1>3, <1>6

LEMMA EndStep == ASSUME Inv, NEW r \in Run, Ends(r) PROVE Inv'
<1> USE DEF Inv
<1>1. StateInv' /\ RecordInv'
  BY DEF Ends, StateInv, RecordInv, Steps, NoTexts, Held
<1>2. ParsedInv'
  BY DEF Ends, ParsedInv, StateInv, NoAsts, Files
<1> QED
  BY <1>1, <1>2

LEMMA InvStep == Inv /\ [Next]_vars => Inv'
<1> SUFFICES ASSUME Inv, [Next]_vars PROVE Inv'
  OBVIOUS
<1>1. CASE UNCHANGED vars
  BY <1>1 DEF Inv, StateInv, RecordInv, ParsedInv, Files, vars
<1>2. ASSUME NEW p \in Path, Edit(p) PROVE Inv'
  BY <1>2, BoundAssumption DEF Edit, Inv, StateInv, RecordInv, ParsedInv, Files
<1>3. ASSUME NEW r \in Run, Step(r) PROVE Inv'
  <2>1. CASE Begin(r) \/ (\E s \in Source : ReadSource(r, s)) \/ ReadConfig(r) \/ ReadRuntime(r)
    BY <2>1, ReadingStep
  <2>2. CASE PreparePython(r)
    BY <2>2, CacheStep DEF PreparePython
  <2>3. CASE CachedAsts(r)
    BY <2>3, CacheStep DEF CachedAsts
  <2>4. CASE WriteTypeScript(r)
    BY <2>4, ParseStep DEF WriteTypeScript
  <2>5. CASE CleanPython(r)
    <3>1. RecordInv'
      BY <2>5, CleanedRecords DEF CleanPython, Inv
    <3>2. StateInv' /\ ParsedInv'
      BY <2>5 DEF CleanPython, Moves, Inv, StateInv, ParsedInv, Files, Steps, Reading
    <3> QED
      BY <3>1, <3>2 DEF Inv
  <2>6. CASE CompletePython(r)
    BY <2>6, ParseStep DEF CompletePython
  <2>7. CASE Analyzed(r) \/ Fails(r)
    BY <2>7, EndStep DEF Analyzed, Fails
  <2> QED
    BY <1>3, <2>1, <2>2, <2>3, <2>4, <2>5, <2>6, <2>7 DEF Step
<1> QED
  BY <1>1, <1>2, <1>3 DEF Next

(* Every reachable state satisfies the inductive invariant. *)
THEOREM Invariant == Spec => []Inv
<1>1. Init => Inv
  BY InitInv
<1>2. Inv /\ [Next]_vars => Inv'
  BY InvStep
<1> QED
  BY <1>1, <1>2, PTL DEF Spec

(* The variables keep the values the code gives them, and the records their paths. *)
THEOREM TypeCorrect == Spec => []TypeOK
<1>1. Inv => TypeOK
  BY DEF Inv, StateInv, RecordInv, UniqueKeys, ParsedInv, TypeOK
<1> QED
  BY <1>1, Invariant, PTL

(* Whatever other runs and users do, a run works with the ASTs of its own snapshot. *)
THEOREM AstsBelongToSnapshots == Spec => []AstsAreOwn
<1>1. Inv => AstsAreOwn
  BY DEF Inv, ParsedInv, Own, AstsAreOwn
<1> QED
  BY <1>1, Invariant, PTL
=============================================================================
