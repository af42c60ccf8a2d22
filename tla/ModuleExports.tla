----------------------------- MODULE ModuleExports -----------------------------
(***************************************************************************)
(* TypeScriptModuleExports: which declaration a name exported by a module      *)
(* stands for.  A question is a depth-first search along re-exports and        *)
(* imports: the declarations and links of an export are tried in the order of  *)
(* exported_symbol, an export that the search has entered is not entered       *)
(* again, and the first declaration found answers the whole question.  The     *)
(* answers are kept in a map that outlives the question and that resolvers of  *)
(* both policies share: the one sees the files of the project only, the other  *)
(* falls back to what else is on the disk.                                     *)
(*                                                                          *)
(* The search is synchronous.  One step is one alternative of the export on    *)
(* top of the stack; the returns of a search that has found a declaration are  *)
(* one step.  The files do not change while a resolver is used.                *)
(***************************************************************************)
EXTENDS Naturals, Sequences, Functions

CONSTANTS Module,      \* files that may hold a module
          Shared,      \* those of the project
          Script,      \* those in JavaScript, which either policy finds on the disk
          Name,        \* names of declarations, exports and imports
          Default,     \* the name "default"
          None,        \* no file, no name, no declaration
          Program,     \* the programs to start from: what each file holds
          Asks,        \* bound: the exports that are asked for
          MaxQuestions \* bound: questions asked

ASSUME ModuleAssumption == Shared \cup Script \subseteq Module /\ None \notin Module \cup (Module \X Name)
ASSUME NameAssumption == Default \in Name /\ None \notin Name
ASSUME QuestionAssumption == Asks \subseteq Module \X Name /\ MaxQuestions \in Nat

Import == [from : Seq(Module), name : Name]
Link == Import \cup [from : {None}, name : Name]

(* A parsed module: the exported and the other names it declares, the names of its *)
(* default declarations, what its `export =` or `export default` expressions name, *)
(* and per name its imports and its export links, all in the order of the text; a  *)
(* specifier is the files it may stand for, None in `export { name }`.             *)
ParsedModule == [exported : SUBSET Name, declared : SUBSET Name,
                 defaults : Seq(Name), assigned : Seq(Name \cup {None}),
                 imports : [Name -> Seq(Import)], links : [Name -> Seq(Link)],
                 stars : Seq(Seq(Module))]

ASSUME ProgramAssumption == Program \subseteq [Module -> ParsedModule]

Policy == {"snapshot", "disk"}
Key == Module \X Name

VARIABLES
  program,   \* what the files hold
  resolved,  \* resolved_exports of the shared cache
  question,  \* what is asked, of a resolver of which policy
  stack,     \* the exports being searched, the innermost first, the question last
  visited,   \* the exports this question has entered
  told,      \* the questions answered so far, with their answers
  questions  \* how many were asked

vars == <<program, resolved, question, stack, visited, told, questions>>

CacheKeys == Policy \X Key

Init ==
  /\ program \in Program /\ resolved = [k \in CacheKeys |-> None]
  /\ question = None /\ stack = <<>> /\ visited = {} /\ told = {} /\ questions = 0
-----------------------------------------------------------------------------
(* What a search finds or goes on with. *)
Declared(file, name) == [kind |-> "declared", file |-> file, name |-> name]
Follow(file, name) == [kind |-> "follow", file |-> file, name |-> name]
Local(name) == [kind |-> "local", file |-> None, name |-> name]
Alternative ==
  [kind : {"declared"}, file : Module, name : Name]
  \cup [kind : {"follow"}, file : Module \cup {None}, name : Name]
  \cup [kind : {"local"}, file : {None}, name : Name]

(* symbol, for one candidate. *)
Visible(p, file) == file \in Shared \cup Script \/ p = "disk"

(* module_symbol: the first of the candidates that there is.                      *)
ModuleSymbol(p, candidates) ==
  IF \E i \in DOMAIN candidates : Visible(p, candidates[i])
  THEN candidates[CHOOSE i \in DOMAIN candidates :
         Visible(p, candidates[i]) /\ \A j \in 1..(i - 1) : ~Visible(p, candidates[j])]
  ELSE None

(* source_available *)
Available(p, file) == file \in Shared \/ p = "disk"

If(condition, alternatives) == IF condition THEN alternatives ELSE <<>>

(* local_symbol: a declaration, exported or not, then the imports of the name.     *)
Locals(p, file, name) ==
  LET m == program[file]
      imports == m.imports[name]
  IN  If(name \in m.exported \cup m.declared, <<Declared(file, name)>>)
      \o [i \in DOMAIN imports |-> Follow(ModuleSymbol(p, imports[i].from), imports[i].name)]

(* default_declaration, then the first of the export assignments.                 *)
Defaults(file) ==
  LET m == program[file]
  IN  [i \in DOMAIN m.defaults |-> Declared(file, m.defaults[i])]
      \o If(m.assigned # <<>>,
            IF m.assigned[1] = None THEN <<Declared(file, Default)>> ELSE <<Local(m.assigned[1])>>)

(* exported_symbol: the declarations of the export and then its links, those by    *)
(* name before those of `export *`.                                              *)
Exports(p, file, name) ==
  LET m == program[file]
      links == m.links[name]
  IN  If(name \in m.exported, <<Declared(file, name)>>)
      \o If(name = Default, Defaults(file))
      \o [i \in DOMAIN links |-> IF links[i].from = None THEN Local(links[i].name)
                                 ELSE Follow(ModuleSymbol(p, links[i].from), links[i].name)]
      \o [i \in DOMAIN m.stars |-> Follow(ModuleSymbol(p, m.stars[i]), name)]

(* file_export_resolution: nothing of a file that is not available.               *)
Alternatives(p, key) == If(Available(p, key[1]), Exports(p, key[1], key[2]))

CacheKeyWithoutPolicy(p, key) == <<"disk", key>>
CacheKeyWithoutName(p, key) == <<p, <<key[1], Default>>>>

(* cache_key of file_for *)
CacheKey(p, key) == <<p, key>>

(* A call: file_for of an export, or local_symbol for the caller, without a name.   *)
Frame(file, name, rest) == [file |-> file, name |-> name, rest |-> rest]

(* The set of visited exports of the resolver, for all questions. *)
AskWithOneSet(p, file, name, first) ==
  /\ stack = <<>> /\ questions < MaxQuestions /\ questions' = questions + 1
  /\ question' = [policy |-> p, file |-> file, first |-> first]
  /\ stack' = <<Frame(file, None, <<first>>)>>
  /\ UNCHANGED <<program, resolved, visited, told>>

(* resolve or local_symbol, with a fresh set of visited exports.                   *)
Ask(p, file, name, first) ==
  /\ stack = <<>> /\ questions < MaxQuestions /\ questions' = questions + 1
  /\ question' = [policy |-> p, file |-> file, first |-> first]
  /\ stack' = <<Frame(file, None, <<first>>)>> /\ visited' = {}
  /\ UNCHANGED <<program, resolved, told>>

Resolve(p, file, name) == Ask(p, file, name, Follow(file, name))
LocalSymbol(p, file, name) == file \in Shared /\ Ask(p, file, name, Local(name))

Top == stack[1]
policy == question.policy
Trying == stack # <<>> /\ Top.rest # <<>>
First == Top.rest[1]
Wanted == <<First.file, First.name>>
Cached == resolved[CacheKey(policy, Wanted)]

(* The first alternative of the innermost call has led to nothing, or to more.     *)
Goes(alternatives) == [stack EXCEPT ![1].rest = alternatives \o Tail(@)]

(* A local_symbol inside of the search. *)
Opens ==
  /\ Trying /\ First.kind = "local" /\ stack' = Goes(Locals(policy, Top.file, First.name))
  /\ UNCHANGED <<program, resolved, question, visited, told, questions>>

(* The innermost call has its answer, and so have all around it: every export on    *)
(* the stack is cached, the question is answered.                                 *)
Found(declaration) ==
  /\ resolved' = [k \in CacheKeys |->
       IF \E i \in DOMAIN stack : stack[i].name # None /\ k = CacheKey(policy, <<stack[i].file, stack[i].name>>)
       THEN declaration ELSE resolved[k]]
  /\ told' = told \cup {[question |-> question, answer |-> declaration]}
  /\ stack' = <<>> /\ UNCHANGED <<program, question, visited, questions>>

FindsDeclaration == Trying /\ First.kind = "declared" /\ Found(Wanted)

Follows == Trying /\ First.kind = "follow" /\ First.file # None

(* file_for, with an answer in the cache, *)
Recalls == Follows /\ Cached # None /\ Found(Cached)

(* with an export that was entered before, or without a file to go on in: *)
Skips ==
  /\ Trying /\ First.kind = "follow"
  /\ First.file # None => Cached = None /\ Wanted \in visited
  /\ stack' = Goes(<<>>)
  /\ UNCHANGED <<program, resolved, question, visited, told, questions>>

(* The exports on the way are not looked at. *)
EntersAgain ==
  /\ Follows /\ Cached = None /\ visited' = visited \cup {Wanted}
  /\ stack' = <<Frame(First.file, First.name, Alternatives(policy, Wanted))>> \o Goes(<<>>)
  /\ UNCHANGED <<program, resolved, question, told, questions>>

(* with one that is new. *)
Enters ==
  /\ Follows /\ Cached = None /\ Wanted \notin visited
  /\ visited' = visited \cup {Wanted}
  /\ stack' = <<Frame(First.file, First.name, Alternatives(policy, Wanted))>> \o Goes(<<>>)
  /\ UNCHANGED <<program, resolved, question, told, questions>>

Exhausted == stack # <<>> /\ Top.rest = <<>>

(* No alternative is left: the answer is empty, and is not kept.                   *)
Returns ==
  /\ Exhausted /\ Len(stack) > 1 /\ stack' = Tail(stack)
  /\ UNCHANGED <<program, resolved, question, visited, told, questions>>

Answers ==
  /\ Exhausted /\ Len(stack) = 1
  /\ told' = told \cup {[question |-> question, answer |-> None]}
  /\ stack' = <<>> /\ UNCHANGED <<program, resolved, question, visited, questions>>

Asked ==
  \E p \in Policy : \E ask \in Asks :
    (Visible(p, ask[1]) /\ Resolve(p, ask[1], ask[2])) \/ LocalSymbol(p, ask[1], ask[2])

Next == Asked \/ Opens \/ FindsDeclaration \/ Recalls \/ Skips \/ Enters \/ Returns \/ Answers

Spec == Init /\ [][Next]_vars
-----------------------------------------------------------------------------
(* What alternatives come to: a local_symbol is the declaration and the imports.   *)
Offers(p, file, alternatives) ==
  UNION {IF a.kind = "local" THEN Range(Locals(p, file, a.name)) ELSE {a} : a \in alternatives}

Declares(p, file, alternatives) ==
  {<<a.file, a.name>> : a \in {o \in Offers(p, file, alternatives) : o.kind = "declared"}}

LeadsTo(p, file, alternatives) ==
  {<<a.file, a.name>> : a \in {o \in Offers(p, file, alternatives) : o.kind = "follow" /\ o.file # None}}

DeclaredBy(p, key) == Declares(p, key[1], Range(Alternatives(p, key)))

(* The exports that a question may lead to are the least such set. *)
Covers(q, exports) ==
  /\ LeadsTo(q.policy, q.file, {q.first}) \subseteq exports
  /\ \A key \in exports : LeadsTo(q.policy, key[1], Range(Alternatives(q.policy, key))) \subseteq exports

Reaches(q, declaration) ==
  \/ declaration \in Declares(q.policy, q.file, {q.first})
  \/ \A exports \in SUBSET Key :
       Covers(q, exports) => \E key \in exports : declaration \in DeclaredBy(q.policy, key)

ReachesNone(q) ==
  /\ Declares(q.policy, q.file, {q.first}) = {}
  /\ \E exports \in SUBSET Key : Covers(q, exports) /\ \A key \in exports : DeclaredBy(q.policy, key) = {}

Question == [policy : Policy, file : Module, first : Alternative]
Frames == [file : Module, name : Name \cup {None}, rest : Seq(Alternative)]

(* Every variable stays within the values the code gives it, and no export is       *)
(* searched within the search for itself: the recursion ends in a cycle of modules. *)
TypeOK ==
  /\ program \in Program /\ resolved \in [CacheKeys -> Key \cup {None}]
  /\ question \in Question \cup {None} /\ visited \subseteq Key /\ questions \in 0..MaxQuestions
  /\ stack \in Seq(Frames) /\ told \subseteq [question : Question, answer : Key \cup {None}]
  /\ \A i, j \in DOMAIN stack :
       stack[i].file = stack[j].file /\ stack[i].name = stack[j].name => i = j

(* A declaration that is the answer to a question, found or taken from the cache    *)
(* that questions of either policy have filled, is one that the exports and imports *)
(* lead to from there, with the files that the policy of the question sees.        *)
AnswersAreReachable == stack = <<>> => \A t \in told : t.answer # None => Reaches(t.question, t.answer)

(* Where the answer is empty there is no declaration to find: no cycle that cut a    *)
(* search short, in this question or in one before, has hidden one.               *)
NothingIsMissed == stack = <<>> => \A t \in told : t.answer = None => ReachesNone(t.question)

(* A question has one answer: what was asked in between, of which resolver of the    *)
(* cache, does not change it.                                                    *)
AnswersStay == \A one, other \in told : one.question = other.question => one = other
=============================================================================
