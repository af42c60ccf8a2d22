------------------------- MODULE ProjectAnalysisProofs -------------------------
(***************************************************************************)
(* Proofs about ModuleExports, for any projects and any number of questions:   *)
(* the search ends in cycles of modules, an answer is a declaration that the   *)
(* question leads to, an empty answer means that it leads to none, and a       *)
(* question that is asked again has the answer it had.                       *)
(*                                                                          *)
(* And about CompositionDepth, for any graph: the components that the two      *)
(* traversals find are those of the classes that reach each other, a class is  *)
(* reached from one of those that the search begins with, the stack of the    *)
(* search is a path, what is kept for later searches is the length of the       *)
(* longest chain, and a search decides whether that is too long.               *)
(***************************************************************************)
EXTENDS ModuleExports, CompositionDepth, FiniteSetTheorems, WellFoundedInduction, TLAPS

(* The exports that lead to each other stay in the set. *)
Closed(p, exports) == \A key \in exports : LeadsTo(p, key[1], Range(Alternatives(p, key))) \subseteq exports

(* An export leads to a declaration if every such set around it has it.             *)
ReachableFrom(p, key, declaration) ==
  \A exports \in SUBSET Key : key \in exports /\ Closed(p, exports) =>
    \E k \in exports : declaration \in DeclaredBy(p, k)

KeyOf(frame) == <<frame.file, frame.name>>

(* All alternatives of a call, and what it has still to try. *)
All(frame) == IF frame.name = None THEN {question.first} ELSE Range(Alternatives(policy, KeyOf(frame)))
Offered(frame) == Offers(policy, frame.file, All(frame))
Left(frame) == Offers(policy, frame.file, Range(frame.rest))

(* An alternative that is done with has led to an export that was entered, or to none. *)
Tried(offer) == offer.kind = "follow" /\ (offer.file # None => <<offer.file, offer.name>> \in visited)

Half(frame) == Left(frame) \subseteq Offered(frame) /\ \A o \in Offered(frame) \ Left(frame) : Tried(o)
Done(key) == \A o \in Offers(policy, key[1], Range(Alternatives(policy, key))) : Tried(o)

ProgramInv == program \in [Module -> ParsedModule]

(* The question is the outermost call, the others are searches for an export.        *)
StateInv ==
  /\ program \in Program /\ ProgramInv /\ visited \subseteq Key /\ stack \in Seq(Frames) /\ questions \in 0..MaxQuestions
  /\ question \in Question \cup {None} /\ (stack # <<>> => question \in Question)
  /\ \A i \in 1..Len(stack) : stack[i].name = None <=> i = Len(stack)
  /\ stack # <<>> => stack[Len(stack)].file = question.file

(* What a call has still to try is among its alternatives; what it has tried has led *)
(* to exports that were entered.                                                  *)
FramesInv == \A i \in 1..Len(stack) : Half(stack[i])

(* The inner calls are where the outer ones lead to, and the question to them all:    *)
(* each of an export that no other is for.                                        *)
ChainInv ==
  \A i \in 1..(Len(stack) - 1) :
    /\ KeyOf(stack[i]) \in visited
    /\ \A j \in 1..(Len(stack) - 1) : KeyOf(stack[i]) = KeyOf(stack[j]) => i = j
    /\ \A exports \in SUBSET Key :
         /\ Covers(question, exports) => KeyOf(stack[i]) \in exports
         /\ \A j \in i..(Len(stack) - 1) : Closed(policy, exports) /\ KeyOf(stack[j]) \in exports => KeyOf(stack[i]) \in exports

(* An export that was entered and left has no declaration and leads to others that    *)
(* were entered.                                                                  *)
LeftInv ==
  stack # <<>> => \A key \in visited : Done(key) \/ \E i \in 1..(Len(stack) - 1) : KeyOf(stack[i]) = key

(* What is in the cache is where its export leads to. *)
CacheInv ==
  /\ resolved \in [CacheKeys -> Key \cup {None}]
  /\ \A p \in Policy, key \in Key : resolved[<<p, key>>] # None => ReachableFrom(p, key, resolved[<<p, key>>])

ToldInv ==
  /\ told \subseteq [question : Question, answer : Key \cup {None}]
  /\ \A t \in told :
       /\ t.answer # None => Reaches(t.question, t.answer)
       /\ t.answer = None => ReachesNone(t.question)

Inv == StateInv /\ FramesInv /\ ChainInv /\ LeftInv /\ CacheInv /\ ToldInv

(* What a question tries, one after the other. *)
Ways(q) == IF q.first.kind = "local" THEN Locals(q.policy, q.file, q.first.name) ELSE <<q.first>>

(* A way that leads to no declaration, and one that is, or is known to lead to, one. *)
Barren(p, key) ==
  \E exports \in SUBSET Key : key \in exports /\ Closed(p, exports) /\ \A k \in exports : DeclaredBy(p, k) = {}
Fruitless(p, o) == o.kind = "follow" /\ (o.file # None => Barren(p, <<o.file, o.name>>))
Yields(p, o, d) ==
  \/ o.kind = "declared" /\ <<o.file, o.name>> = d
  \/ o.kind = "follow" /\ o.file # None /\ resolved[<<p, <<o.file, o.name>>>>] = d

(* A declaration that was told is that of the first way which leads to any, and the   *)
(* cache knows it.                                                                *)
Settled(q, d) ==
  \E j \in 1..Len(Ways(q)) :
    /\ Yields(q.policy, Ways(q)[j], d)
    /\ \A i \in 1..(j - 1) : Fruitless(q.policy, Ways(q)[i])
SettledInv == \A t \in told : t.answer # None => Settled(t.question, t.answer)

(* The searches on the stack are not in the cache.                                  *)
FreshInv == \A i \in 1..(Len(stack) - 1) : resolved[<<policy, KeyOf(stack[i])>>] = None

(* The question has tried the first n of its ways, and the search for the last one    *)
(* of them may still go on; the others have led to nothing.                         *)
Bottom == stack[Len(stack)]
TriedWays(n) ==
  /\ Len(Bottom.rest) = Len(Ways(question)) - n
  /\ \A k \in 1..Len(Bottom.rest) : Bottom.rest[k] = Ways(question)[n + k]
  /\ \A k \in 1..n : k < n \/ Len(stack) = 1 => Fruitless(policy, Ways(question)[k])
  /\ Len(stack) > 1 =>
       /\ n > 0 /\ Ways(question)[n].kind = "follow" /\ Ways(question)[n].file # None
       /\ KeyOf(stack[Len(stack) - 1]) = <<Ways(question)[n].file, Ways(question)[n].name>>
BottomInv ==
  stack # <<>> =>
    \/ Len(stack) = 1 /\ question.first.kind = "local" /\ Bottom.rest = <<question.first>>
    \/ \E n \in 0..Len(Ways(question)) : TriedWays(n)

AnswersInv == Inv /\ SettledInv /\ FreshInv /\ BottomInv
-----------------------------------------------------------------------------
(* Sequences and what is in them. *)
LEMMA RangeOfSeq ==
  ASSUME NEW S, NEW s \in Seq(S)
  PROVE  Range(s) = {s[i] : i \in 1..Len(s)} /\ Range(s) \subseteq S
<1>1. DOMAIN s = 1..Len(s)
  OBVIOUS
<1> QED
  BY <1>1 DEF Range

LEMMA RangeOfConcat ==
  ASSUME NEW S, NEW s \in Seq(S), NEW t \in Seq(S)
  PROVE  s \o t \in Seq(S) /\ Range(s \o t) = Range(s) \cup Range(t)
<1>1. s \o t \in Seq(S) /\ Len(s \o t) = Len(s) + Len(t)
  OBVIOUS
<1>2. Range(s \o t) = {(s \o t)[i] : i \in 1..Len(s \o t)} /\ Range(s) = {s[i] : i \in 1..Len(s)} /\ Range(t) = {t[i] : i \in 1..Len(t)}
  BY <1>1, RangeOfSeq
<1>3. \A i \in 1..Len(t) : (s \o t)[Len(s) + i] = t[i] /\ Len(s) + i \in 1..Len(s \o t)
  OBVIOUS
<1>4. \A i \in 1..Len(s) : (s \o t)[i] = s[i] /\ i \in 1..Len(s \o t)
  OBVIOUS
<1>5. \A i \in 1..Len(s \o t) : (i \in 1..Len(s) /\ (s \o t)[i] = s[i]) \/ (i - Len(s) \in 1..Len(t) /\ (s \o t)[i] = t[i - Len(s)])
  OBVIOUS
<1>6. Range(s \o t) \subseteq Range(s) \cup Range(t)
  BY <1>2, <1>5
<1>7. Range(s) \subseteq Range(s \o t) /\ Range(t) \subseteq Range(s \o t)
  BY <1>2, <1>3, <1>4
<1> QED
  BY <1>1, <1>6, <1>7

LEMMA RangeOfTail ==
  ASSUME NEW S, NEW s \in Seq(S), s # <<>>
  PROVE  s[1] \in S /\ Tail(s) \in Seq(S) /\ Range(s) = {s[1]} \cup Range(Tail(s))
<1>1. s[1] \in S /\ Tail(s) \in Seq(S) /\ 1 \in 1..Len(s)
  OBVIOUS
<1>2. Range(s) = {s[i] : i \in 1..Len(s)} /\ Range(Tail(s)) = {Tail(s)[i] : i \in 1..Len(Tail(s))}
  BY <1>1, RangeOfSeq
<1>3. \A i \in 1..Len(s) : i = 1 \/ (i - 1 \in 1..Len(Tail(s)) /\ s[i] = Tail(s)[i - 1])
  OBVIOUS
<1>4. \A i \in 1..Len(Tail(s)) : i + 1 \in 1..Len(s) /\ Tail(s)[i] = s[i + 1]
  OBVIOUS
<1>5. Range(Tail(s)) \subseteq Range(s)
  BY <1>2, <1>4
<1>6. Range(s) \subseteq {s[1]} \cup Range(Tail(s))
  BY <1>2, <1>3
<1> QED
  BY <1>1, <1>2, <1>5, <1>6

LEMMA MapType ==
  ASSUME NEW S, NEW T, NEW s \in Seq(T), NEW t, t = [i \in DOMAIN s |-> t[i]], \A i \in 1..Len(s) : t[i] \in S
  PROVE  t \in Seq(S)
<1>1. DOMAIN s = 1..Len(s) /\ Len(s) \in Nat
  OBVIOUS
<1>2. t = [i \in 1..Len(s) |-> t[i]]
  BY <1>1
<1> QED
  BY <1>1, <1>2

(* Of the candidates that there are, there is a first. *)
LEMMA ModuleSymbolType ==
  ASSUME NEW p, NEW candidates \in Seq(Module)
  PROVE  ModuleSymbol(p, candidates) \in Module \cup {None}
<1> DEFINE visible == {i \in DOMAIN candidates : Visible(p, candidates[i])}
<1>1. CASE visible = {}
  BY <1>1 DEF ModuleSymbol
<1>2. CASE visible # {}
  <2>1. visible \subseteq Nat
    OBVIOUS
  <2>2. PICK i \in visible : \A j \in visible : <<j, i>> \notin OpToRel(<, Nat)
    BY <1>2, <2>1, NatLessThanWellFounded, WFMin
  <2>3. \A j \in visible : ~(j < i)
    BY <2>1, <2>2 DEF OpToRel
  <2>4. \A j \in 1..(i - 1) : ~Visible(p, candidates[j])
    BY <2>3
  <2> DEFINE first == CHOOSE k \in DOMAIN candidates :
               Visible(p, candidates[k]) /\ \A j \in 1..(k - 1) : ~Visible(p, candidates[j])
  <2>5. first \in DOMAIN candidates
    BY <2>4
  <2>6. ModuleSymbol(p, candidates) = candidates[first]
    BY <1>2 DEF ModuleSymbol
  <2> HIDE DEF first
  <2> QED
    BY <2>5, <2>6
<1> QED
  BY <1>1, <1>2

(* What the code builds of a parsed module are alternatives. *)
LEMMA AlternativeTypes ==
  ASSUME NEW name \in Name
  PROVE  /\ \A file \in Module : Declared(file, name) \in Alternative /\ Declared(file, name).kind = "declared"
         /\ \A file \in Module \cup {None} : Follow(file, name) \in Alternative /\ Follow(file, name).kind = "follow"
         /\ Local(name) \in Alternative /\ Local(name).kind = "local"
BY DEF Alternative, Declared, Follow, Local

(* The alternatives that are not a local_symbol. *)
Direct == {a \in Alternative : a.kind # "local"}

LEMMA LinkTypes ==
  ASSUME NEW p, NEW link \in Import
  PROVE  Follow(ModuleSymbol(p, link.from), link.name) \in Direct
<1>1. link.from \in Seq(Module) /\ link.name \in Name
  BY DEF Import
<1>2. ModuleSymbol(p, link.from) \in Module \cup {None}
  BY <1>1, ModuleSymbolType
<1> QED
  BY <1>1, <1>2, AlternativeTypes DEF Direct

LEMMA LocalsType ==
  ASSUME ProgramInv, NEW p, NEW file \in Module, NEW name \in Name
  PROVE  Locals(p, file, name) \in Seq(Direct)
<1> DEFINE imports == program[file].imports[name]
           declared == If(name \in program[file].exported \cup program[file].declared, <<Declared(file, name)>>)
           followed == [i \in DOMAIN imports |-> Follow(ModuleSymbol(p, imports[i].from), imports[i].name)]
<1>1. imports \in Seq(Import)
  BY DEF ProgramInv, ParsedModule
<1>2. declared \in Seq(Direct)
  <2>1. Declared(file, name) \in Direct
    BY AlternativeTypes DEF Direct
  <2> QED
    BY <2>1 DEF If
<1>3. followed \in Seq(Direct)
  <2>1. \A i \in 1..Len(imports) : imports[i] \in Import
    BY <1>1
  <2>2. ASSUME NEW i \in 1..Len(imports) PROVE followed[i] \in Direct
    <3>1. i \in DOMAIN imports
      BY <1>1
    <3>2. followed[i] = Follow(ModuleSymbol(p, imports[i].from), imports[i].name)
      BY <3>1
    <3> QED
      BY <2>1, <3>2, LinkTypes
  <2> QED
    BY <1>1, <2>2, MapType
<1>4. Locals(p, file, name) = declared \o followed
  BY DEF Locals
<1> HIDE DEF declared, followed
<1> QED
  BY <1>2, <1>3, <1>4, RangeOfConcat

LEMMA ExportsType ==
  ASSUME ProgramInv, NEW p, NEW file \in Module, NEW name \in Name
  PROVE  Exports(p, file, name) \in Seq(Alternative)
<1> DEFINE m == program[file]
           links == m.links[name]
           declared == If(name \in m.exported, <<Declared(file, name)>>)
           linked == [i \in DOMAIN links |-> IF links[i].from = None THEN Local(links[i].name)
                                            ELSE Follow(ModuleSymbol(p, links[i].from), links[i].name)]
           starred == [i \in DOMAIN m.stars |-> Follow(ModuleSymbol(p, m.stars[i]), name)]
<1>1. m \in ParsedModule
  BY DEF ProgramInv
<1>2. declared \in Seq(Alternative)
  <2>1. Declared(file, name) \in Alternative
    BY AlternativeTypes
  <2> QED
    BY <2>1 DEF If
<1>3. linked \in Seq(Alternative)
  <2>1. links \in Seq(Link)
    BY <1>1 DEF ParsedModule
  <2>2. \A i \in 1..Len(links) : links[i].name \in Name /\ (links[i].from # None => links[i] \in Import)
    BY <2>1 DEF Link, Import
  <2>3. ASSUME NEW i \in 1..Len(links) PROVE linked[i] \in Alternative
    <3>1. i \in DOMAIN links
      BY <2>1
    <3>2. linked[i] = IF links[i].from = None THEN Local(links[i].name)
                      ELSE Follow(ModuleSymbol(p, links[i].from), links[i].name)
      BY <3>1
    <3>3. Local(links[i].name) \in Alternative
      BY <2>2, AlternativeTypes
    <3>4. CASE links[i].from = None
      BY <3>2, <3>3, <3>4
    <3>5. CASE links[i].from # None
      <4>1. links[i] \in Import
        BY <2>2, <3>5
      <4>2. Follow(ModuleSymbol(p, links[i].from), links[i].name) \in Direct
        BY <4>1, LinkTypes
      <4> QED
        BY <3>2, <3>5, <4>2 DEF Direct
    <3> QED
      BY <3>4, <3>5
  <2> QED
    BY <2>1, <2>3, MapType
<1>4. starred \in Seq(Alternative)
  <2>1. m.stars \in Seq(Seq(Module))
    BY <1>1 DEF ParsedModule
  <2>2. \A i \in 1..Len(m.stars) : m.stars[i] \in Seq(Module)
    BY <2>1
  <2>3. ASSUME NEW i \in 1..Len(m.stars) PROVE starred[i] \in Alternative
    <3>1. i \in DOMAIN m.stars
      BY <2>1
    <3>2. starred[i] = Follow(ModuleSymbol(p, m.stars[i]), name)
      BY <3>1
    <3> QED
      BY <2>2, <3>2, ModuleSymbolType, AlternativeTypes
  <2> QED
    BY <2>1, <2>3, MapType
<1>5. Defaults(file) \in Seq(Alternative)
  <2> DEFINE classes == [i \in DOMAIN m.defaults |-> Declared(file, m.defaults[i])]
             assigned == If(m.assigned # <<>>,
               IF m.assigned[1] = None THEN <<Declared(file, Default)>> ELSE <<Local(m.assigned[1])>>)
  <2>1. m.defaults \in Seq(Name) /\ m.assigned \in Seq(Name \cup {None})
    BY <1>1 DEF ParsedModule
  <2>2. \A i \in 1..Len(m.defaults) : m.defaults[i] \in Name
    BY <2>1
  <2>3. \A i \in 1..Len(m.defaults) : classes[i] \in Alternative
    BY <2>1, <2>2, AlternativeTypes
  <2>4. classes \in Seq(Alternative)
    BY <2>1, <2>3, MapType
  <2>5. m.assigned # <<>> => m.assigned[1] \in Name \cup {None}
    BY <2>1
  <2>6. Declared(file, Default) \in Alternative /\ \A n \in Name : Local(n) \in Alternative
    BY NameAssumption, AlternativeTypes
  <2>7. assigned \in Seq(Alternative)
    BY <2>5, <2>6 DEF If
  <2>8. Defaults(file) = classes \o assigned
    BY DEF Defaults
  <2> HIDE DEF classes, assigned
  <2> QED
    BY <2>4, <2>7, <2>8, RangeOfConcat
<1>6. Exports(p, file, name) = declared \o If(name = Default, Defaults(file)) \o linked \o starred
  BY DEF Exports
<1>7. If(name = Default, Defaults(file)) \in Seq(Alternative)
  BY <1>5 DEF If
<1> HIDE DEF declared, linked, starred
<1>8. declared \o If(name = Default, Defaults(file)) \in Seq(Alternative)
  BY <1>2, <1>7, RangeOfConcat
<1>9. declared \o If(name = Default, Defaults(file)) \o linked \in Seq(Alternative)
  BY <1>3, <1>8, RangeOfConcat
<1> QED
  BY <1>4, <1>6, <1>9, RangeOfConcat

LEMMA AlternativesType ==
  ASSUME ProgramInv, NEW p, NEW key \in Key
  PROVE  Alternatives(p, key) \in Seq(Alternative)
<1>1. key[1] \in Module /\ key[2] \in Name
  BY DEF Key
<1> QED
  BY <1>1, ExportsType DEF Alternatives, If
-----------------------------------------------------------------------------
(* A local_symbol offers what is in its place when it is opened. *)
LEMMA OffersUnion ==
  ASSUME NEW p, NEW file, NEW one, NEW other
  PROVE  Offers(p, file, one \cup other) = Offers(p, file, one) \cup Offers(p, file, other)
BY DEF Offers

LEMMA OffersOfNone == ASSUME NEW p, NEW file PROVE Offers(p, file, {}) = {}
BY DEF Offers

LEMMA OffersOfDirect ==
  ASSUME NEW p, NEW file, NEW alternatives \in SUBSET Direct
  PROVE  Offers(p, file, alternatives) = alternatives
BY DEF Offers, Direct

LEMMA OffersOfLocal ==
  ASSUME ProgramInv, NEW p, NEW file \in Module, NEW a \in Alternative, a.kind = "local"
  PROVE  Offers(p, file, Range(Locals(p, file, a.name))) = Offers(p, file, {a})
<1>1. a.name \in Name
  BY DEF Alternative
<1>2. Range(Locals(p, file, a.name)) \subseteq Direct
  BY <1>1, LocalsType, RangeOfSeq
<1>3. Offers(p, file, Range(Locals(p, file, a.name))) = Range(Locals(p, file, a.name))
  BY <1>2, OffersOfDirect
<1>4. Offers(p, file, {a}) = Range(Locals(p, file, a.name))
  BY DEF Offers
<1> QED
  BY <1>3, <1>4

(* What is offered are declarations and ways to go on. *)
LEMMA DirectTypes ==
  ASSUME NEW o \in Direct
  PROVE  /\ o.kind \in {"declared", "follow"} /\ o.file \in Module \cup {None} /\ o.name \in Name
         /\ o.kind = "declared" \/ o.file # None => <<o.file, o.name>> \in Key
BY DEF Direct, Alternative, Key
-----------------------------------------------------------------------------
(* The files do not change, and a question goes on. *)
LEMMA SameOffers ==
  ASSUME program' = program, NEW p, NEW file, NEW alternatives
  PROVE  Offers(p, file, alternatives)' = Offers(p, file, alternatives)
BY DEF Offers, Locals, Declared, Follow, ModuleSymbol, Visible, If

LEMMA SameAlternatives ==
  ASSUME program' = program, NEW p, NEW key PROVE Alternatives(p, key)' = Alternatives(p, key)
BY DEF Alternatives, Available, Exports, Defaults, Local, Declared, Follow, ModuleSymbol, Visible, If

LEMMA SameLinks ==
  ASSUME program' = program, NEW p, NEW key, NEW file, NEW alternatives
  PROVE  /\ DeclaredBy(p, key)' = DeclaredBy(p, key)
         /\ LeadsTo(p, file, alternatives)' = LeadsTo(p, file, alternatives)
         /\ Declares(p, file, alternatives)' = Declares(p, file, alternatives)
BY SameOffers, SameAlternatives DEF DeclaredBy, Declares, LeadsTo

LEMMA SameSearch ==
  ASSUME program' = program, NEW p, NEW q, NEW exports
  PROVE  /\ Covers(q, exports)' = Covers(q, exports)
         /\ Closed(p, exports)' = Closed(p, exports)
<1>1. Closed(p, exports)' = Closed(p, exports)
  BY SameLinks, SameAlternatives DEF Closed
<1>2. Covers(q, exports)' = Covers(q, exports)
  <2>1. LeadsTo(q.policy, q.file, {q.first})' = LeadsTo(q.policy, q.file, {q.first})
    BY SameLinks
  <2>2. \A k : LeadsTo(q.policy, k[1], Range(Alternatives(q.policy, k)))' = LeadsTo(q.policy, k[1], Range(Alternatives(q.policy, k)))
    BY SameLinks, SameAlternatives
  <2> QED
    BY <2>1, <2>2, Zenon DEF Covers
<1> QED
  BY <1>1, <1>2

LEMMA SameAnswers ==
  ASSUME program' = program, NEW p, NEW key, NEW q, NEW declaration
  PROVE  /\ Reaches(q, declaration)' <=> Reaches(q, declaration)
         /\ ReachesNone(q)' <=> ReachesNone(q)
         /\ ReachableFrom(p, key, declaration)' <=> ReachableFrom(p, key, declaration)
<1>1. Reaches(q, declaration)' <=> Reaches(q, declaration)
  BY SameLinks, SameSearch DEF Reaches
<1>2. ReachesNone(q)' <=> ReachesNone(q)
  BY SameLinks, SameSearch DEF ReachesNone
<1>3. ReachableFrom(p, key, declaration)' <=> ReachableFrom(p, key, declaration)
  BY SameLinks, SameSearch DEF ReachableFrom
<1> QED
  BY <1>1, <1>2, <1>3

LEMMA SameToldAndCache ==
  ASSUME Inv, UNCHANGED <<program, resolved, told>> PROVE CacheInv' /\ ToldInv'
<1>1. CacheInv'
  BY SameAnswers DEF Inv, CacheInv
<1>2. ToldInv'
  BY SameAnswers DEF Inv, ToldInv
<1> QED
  BY <1>1, <1>2

LEMMA HalfStays ==
  ASSUME UNCHANGED <<program, question>>, visited \subseteq visited', NEW frame
  PROVE  Offered(frame)' = Offered(frame) /\ Left(frame)' = Left(frame) /\ (Half(frame) => Half(frame)')
<1>1. All(frame)' = All(frame)
  BY SameAlternatives DEF All, policy, KeyOf
<1>2. Offered(frame)' = Offered(frame) /\ Left(frame)' = Left(frame)
  BY <1>1, SameOffers DEF Offered, Left, policy
<1>3. ASSUME NEW o, Tried(o) PROVE Tried(o)'
  BY <1>3 DEF Tried
<1> QED
  BY <1>2, <1>3 DEF Half

LEMMA DoneStays ==
  ASSUME UNCHANGED <<program, question>>, visited \subseteq visited', NEW key, Done(key) PROVE Done(key)'
<1>1. ASSUME NEW o, Tried(o) PROVE Tried(o)'
  BY <1>1 DEF Tried
<1> QED
  BY <1>1, SameOffers, SameAlternatives DEF Done, policy
-----------------------------------------------------------------------------
(* The innermost call, before and after its first alternative has come to something. *)
LEMMA TopTypes ==
  ASSUME stack \in Seq(Frames), Trying
  PROVE  /\ Len(stack) \in Nat \ {0} /\ Top \in Frames
         /\ First \in Alternative /\ Tail(Top.rest) \in Seq(Alternative)
         /\ Left(Top) = Offers(policy, Top.file, {First}) \cup Offers(policy, Top.file, Range(Tail(Top.rest)))
<1>1. Len(stack) \in Nat \ {0} /\ Top \in Frames
  BY DEF Trying, Top
<1>2. Top.rest \in Seq(Alternative) /\ Top.rest # <<>>
  BY <1>1 DEF Trying, Frames
<1>3. First \in Alternative /\ Tail(Top.rest) \in Seq(Alternative) /\ Range(Top.rest) = {First} \cup Range(Tail(Top.rest))
  BY <1>2, RangeOfTail DEF First
<1> QED
  BY <1>1, <1>3, OffersUnion DEF Left

LEMMA GoesShape ==
  ASSUME stack \in Seq(Frames), Trying, NEW r, r \in Seq(Alternative)
  PROVE  /\ Goes(r) \in Seq(Frames) /\ Len(Goes(r)) = Len(stack) /\ Goes(r) # <<>>
         /\ \A i \in 1..Len(stack) : KeyOf(Goes(r)[i]) = KeyOf(stack[i]) /\ Goes(r)[i].file = stack[i].file /\ Goes(r)[i].name = stack[i].name
         /\ \A i \in 2..Len(stack) : Goes(r)[i] = stack[i]
         /\ Range(Goes(r)[1].rest) = Range(r) \cup Range(Tail(Top.rest))
<1>1. Len(stack) \in Nat \ {0} /\ Top \in Frames /\ Tail(Top.rest) \in Seq(Alternative)
  BY TopTypes
<1>2. r \o Tail(Top.rest) \in Seq(Alternative) /\ Range(r \o Tail(Top.rest)) = Range(r) \cup Range(Tail(Top.rest))
  BY <1>1, RangeOfConcat
<1> DEFINE new == [Top EXCEPT !.rest = r \o Tail(Top.rest)]
<1>3. new \in Frames /\ new.file = Top.file /\ new.name = Top.name /\ new.rest = r \o Tail(Top.rest)
  BY <1>1, <1>2 DEF Frames
<1>4. Goes(r) = [stack EXCEPT ![1] = new]
  BY DEF Goes, Top
<1> HIDE DEF new
<1>5. Goes(r) \in Seq(Frames) /\ Len(Goes(r)) = Len(stack) /\ Goes(r)[1] = new /\ \A i \in 2..Len(stack) : Goes(r)[i] = stack[i]
  BY <1>1, <1>3, <1>4
<1>6. \A i \in 1..Len(stack) : i = 1 \/ i \in 2..Len(stack)
  BY <1>1
<1> QED
  BY <1>1, <1>2, <1>3, <1>5, <1>6 DEF KeyOf, Top

(* What the innermost call does not try any more has been tried. *)
LEMMA GoesHalf ==
  ASSUME StateInv, FramesInv, Trying, NEW r, r \in Seq(Alternative),
         UNCHANGED <<program, question>>, visited \subseteq visited',
         Offers(policy, Top.file, Range(r)) \subseteq Offers(policy, Top.file, {First}),
         \A o \in Offers(policy, Top.file, {First}) \ Offers(policy, Top.file, Range(r)) : Tried(o)',
         NEW i \in 1..Len(stack), NEW frame, frame = Goes(r)[i]
  PROVE  Half(frame)'
<1>1. stack \in Seq(Frames) /\ Half(stack[i])
  BY DEF StateInv, FramesInv
<1>2. CASE i # 1
  <2>1. frame = stack[i]
    BY <1>1, <1>2, GoesShape
  <2> QED
    BY <1>1, <2>1, HalfStays
<1>3. CASE i = 1
  <2>1. /\ frame.file = Top.file /\ frame.name = Top.name
        /\ Range(frame.rest) = Range(r) \cup Range(Tail(Top.rest))
    BY <1>1, <1>3, GoesShape DEF Top
  <2>2. Half(Top) /\ stack[1] = Top
    BY <1>1, <1>3 DEF Top
  <2>3. Left(frame) = Offers(policy, Top.file, Range(r)) \cup Offers(policy, Top.file, Range(Tail(Top.rest)))
    BY <2>1, OffersUnion DEF Left
  <2>4. Left(Top) = Offers(policy, Top.file, {First}) \cup Offers(policy, Top.file, Range(Tail(Top.rest)))
    BY <1>1, TopTypes
  <2>5. Offered(frame) = Offered(Top)
    BY <2>1 DEF Offered, All, KeyOf
  <2>6. Offered(frame)' = Offered(frame) /\ Left(frame)' = Left(frame)
    BY HalfStays
  <2>7. Left(frame) \subseteq Offered(frame)
    BY <2>2, <2>3, <2>4, <2>5 DEF Half
  <2>8. ASSUME NEW o, Tried(o) PROVE Tried(o)'
    BY <2>8 DEF Tried
  <2>9. ASSUME NEW o \in Offered(frame) \ Left(frame) PROVE Tried(o)'
    <3>1. CASE o \in Left(Top)
      BY <2>3, <2>4, <2>9, <3>1
    <3>2. CASE o \notin Left(Top)
      BY <2>2, <2>5, <2>8, <2>9, <3>2 DEF Half
    <3> QED
      BY <3>1, <3>2
  <2> QED
    BY <2>6, <2>7, <2>9 DEF Half
<1> QED
  BY <1>2, <1>3

(* A step of the innermost call that enters nothing. *)
LEMMA GoesOn ==
  ASSUME Inv, Trying, NEW r, r \in Seq(Alternative), stack' = Goes(r),
         UNCHANGED <<program, resolved, question, visited, told, questions>>,
         Offers(policy, Top.file, Range(r)) \subseteq Offers(policy, Top.file, {First}),
         \A o \in Offers(policy, Top.file, {First}) \ Offers(policy, Top.file, Range(r)) : Tried(o)
  PROVE  Inv'
<1>1. /\ stack' \in Seq(Frames) /\ Len(stack') = Len(stack) /\ stack' # <<>> /\ Len(stack) \in Nat \ {0}
      /\ \A i \in 1..Len(stack) : KeyOf(stack'[i]) = KeyOf(stack[i]) /\ stack'[i].file = stack[i].file /\ stack'[i].name = stack[i].name
  BY GoesShape, TopTypes DEF Inv, StateInv
<1>2. StateInv'
  <2>1. StateInv /\ stack # <<>>
    BY DEF Inv, Trying
  <2> QED
    BY <1>1, <2>1 DEF StateInv, ProgramInv
<1>3. FramesInv'
  <2>1. SUFFICES ASSUME NEW i \in 1..Len(stack') PROVE Half(stack[i])'
    BY DEF FramesInv
  <2>2. ASSUME NEW o, Tried(o) PROVE Tried(o)'
    BY <2>2 DEF Tried
  <2> QED
    BY <1>1, <2>1, <2>2, GoesHalf DEF Inv
<1>4. ChainInv'
  <2>1. \A exports : Covers(question, exports)' = Covers(question, exports) /\ Closed(policy, exports)' = Closed(policy, exports)
    BY SameSearch DEF policy
  <2>2. \A i \in 1..(Len(stack) - 1) : \A j \in i..(Len(stack) - 1) : j \in 1..Len(stack)
    BY <1>1
  <2>3. \A i \in 1..(Len(stack) - 1) : i \in 1..Len(stack)
    BY <1>1
  <2> QED
    BY <1>1, <2>1, <2>2, <2>3 DEF Inv, ChainInv
<1>5. LeftInv'
  <2>1. \A key : Done(key) => Done(key)'
    BY DoneStays
  <2> QED
    BY <1>1, <2>1 DEF Inv, LeftInv, Trying
<1>6. CacheInv' /\ ToldInv'
  BY SameToldAndCache
<1> QED
  BY <1>2, <1>3, <1>4, <1>5, <1>6 DEF Inv

LEMMA OpensGoesOn == ASSUME Inv, Opens PROVE Inv'
<1>1. StateInv /\ Trying /\ stack \in Seq(Frames) /\ First.kind = "local"
  BY DEF Inv, StateInv, Opens
<1>2. Top.file \in Module /\ First \in Alternative
  BY <1>1, TopTypes DEF Frames
<1>3. First.name \in Name
  BY <1>2 DEF Alternative
<1> DEFINE r == Locals(policy, Top.file, First.name)
<1>4. r \in Seq(Direct)
  BY <1>1, <1>2, <1>3, LocalsType DEF StateInv
<1>5. r \in Seq(Alternative)
  BY <1>4 DEF Direct
<1>6. Offers(policy, Top.file, Range(r)) = Offers(policy, Top.file, {First})
  BY <1>1, <1>2, OffersOfLocal DEF StateInv
<1>7. stack' = Goes(r) /\ UNCHANGED <<program, resolved, question, visited, told, questions>>
  BY DEF Opens
<1> HIDE DEF r
<1> QED
  BY <1>1, <1>5, <1>6, <1>7, GoesOn

LEMMA OffersOfFirst ==
  ASSUME stack \in Seq(Frames), Trying, First.kind # "local"
  PROVE  Offers(policy, Top.file, {First}) = {First} /\ First \in Direct
<1>1. First \in Direct
  BY TopTypes DEF Direct
<1> QED
  BY <1>1, OffersOfDirect

LEMMA SkipsGoesOn == ASSUME Inv, Skips PROVE Inv'
<1>1. Trying /\ stack \in Seq(Frames) /\ First.kind = "follow"
  BY DEF Inv, StateInv, Skips
<1>2. Offers(policy, Top.file, {First}) = {First}
  BY <1>1, OffersOfFirst
<1>3. <<>> \in Seq(Alternative) /\ Range(<<>>) = {}
  BY DEF Range
<1>4. Offers(policy, Top.file, Range(<<>>)) = {}
  BY <1>3, OffersOfNone
<1>5. Tried(First)
  BY <1>1 DEF Skips, Tried, Wanted
<1>6. stack' = Goes(<<>>) /\ UNCHANGED <<program, resolved, question, visited, told, questions>>
  BY DEF Skips
<1> QED
  BY <1>1, <1>2, <1>3, <1>4, <1>5, <1>6, GoesOn
-----------------------------------------------------------------------------
(* What the first alternative is, the innermost call offers. *)
LEMMA FirstIsOffered ==
  ASSUME StateInv, FramesInv, Trying, First.kind # "local"
  PROVE  /\ First \in Offers(policy, Top.file, All(Top)) /\ First \in Direct
         /\ Len(stack) = 1 => Top.file = question.file /\ All(Top) = {question.first}
         /\ Len(stack) > 1 => KeyOf(Top) \in Key /\ All(Top) = Range(Alternatives(policy, KeyOf(Top)))
<1>1. stack \in Seq(Frames) /\ Len(stack) \in Nat \ {0} /\ Top \in Frames /\ Top = stack[1] /\ stack # <<>>
  BY TopTypes DEF StateInv, Top, Trying
<1>2. First \in Left(Top) /\ First \in Direct
  BY <1>1, TopTypes, OffersOfFirst
<1>3. Half(Top)
  BY <1>1 DEF FramesInv
<1>4. First \in Offers(policy, Top.file, All(Top))
  BY <1>2, <1>3 DEF Half, Offered
<1>5. Top.name = None <=> Len(stack) = 1
  <2>1. 1 \in 1..Len(stack)
    BY <1>1
  <2>2. stack[1].name = None <=> 1 = Len(stack)
    BY <2>1 DEF StateInv
  <2> QED
    BY <1>1, <2>2
<1>6. Len(stack) = 1 => Top.file = question.file
  BY <1>1 DEF StateInv
<1>7. Len(stack) > 1 => Len(stack) # 1
  <2>1. \A n \in Nat : n > 1 => n # 1
    OBVIOUS
  <2> QED
    BY <1>1, <2>1
<1>8. Len(stack) > 1 => KeyOf(Top) \in Key
  <2>1. Top.file \in Module /\ Top.name \in Name \cup {None}
    BY <1>1 DEF Frames
  <2> QED
    BY <1>5, <1>7, <2>1 DEF KeyOf, Key
<1>9. All(Top) = IF Len(stack) = 1 THEN {question.first} ELSE Range(Alternatives(policy, KeyOf(Top)))
  BY <1>5 DEF All
<1> QED
  BY <1>2, <1>4, <1>6, <1>7, <1>8, <1>9

(* Where the search goes, every set that covers the question has been. *)
LEMMA LeadsOn ==
  ASSUME StateInv, FramesInv, ChainInv, Follows
  PROVE  /\ Wanted \in Key
         /\ \A exports \in SUBSET Key :
              /\ Covers(question, exports) => Wanted \in exports
              /\ Len(stack) > 1 /\ Closed(policy, exports) /\ KeyOf(Top) \in exports => Wanted \in exports
<1>1. Trying /\ First.kind = "follow" /\ First.file # None
  BY DEF Follows
<1>2. /\ First \in Offers(policy, Top.file, All(Top)) /\ First \in Direct
      /\ Len(stack) = 1 => Top.file = question.file /\ All(Top) = {question.first}
      /\ Len(stack) > 1 => KeyOf(Top) \in Key /\ All(Top) = Range(Alternatives(policy, KeyOf(Top)))
  BY <1>1, FirstIsOffered
<1>3. Wanted \in Key
  BY <1>1, <1>2, DirectTypes DEF Wanted
<1>4. Wanted \in LeadsTo(policy, Top.file, All(Top))
  BY <1>1, <1>2 DEF LeadsTo, Wanted
<1>5. ASSUME NEW exports \in SUBSET Key, Len(stack) > 1, Closed(policy, exports), KeyOf(Top) \in exports PROVE Wanted \in exports
  BY <1>2, <1>4, <1>5 DEF Closed, KeyOf
<1>6. ASSUME NEW exports \in SUBSET Key, Covers(question, exports) PROVE Wanted \in exports
  <2>1. stack \in Seq(Frames) /\ Len(stack) \in Nat \ {0}
    BY <1>1, TopTypes DEF StateInv
  <2>2. CASE Len(stack) = 1
    BY <1>2, <1>4, <1>6, <2>2 DEF Covers, policy
  <2>3. CASE Len(stack) > 1
    <3>1. KeyOf(stack[1]) \in exports
      <4>1. 1 \in 1..(Len(stack) - 1)
        BY <2>1, <2>3
      <4> QED
        BY <1>6, <4>1 DEF ChainInv
    <3>2. Closed(policy, exports)
      BY <1>6 DEF Covers, Closed, policy
    <3> QED
      BY <1>5, <2>3, <3>1, <3>2 DEF Top
  <2>4. \A n \in Nat \ {0} : n = 1 \/ n > 1
    OBVIOUS
  <2> QED
    BY <2>1, <2>2, <2>3, <2>4
<1> QED
  BY <1>3, <1>5, <1>6

(* A declaration of the innermost call is one of its export, or of the question. *)
LEMMA FindsOn ==
  ASSUME StateInv, FramesInv, Trying, First.kind = "declared"
  PROVE  /\ Wanted \in Key
         /\ Len(stack) = 1 => Wanted \in Declares(question.policy, question.file, {question.first})
         /\ Len(stack) > 1 => KeyOf(Top) \in Key /\ Wanted \in DeclaredBy(policy, KeyOf(Top))
<1>1. /\ First \in Offers(policy, Top.file, All(Top)) /\ First \in Direct
      /\ Len(stack) = 1 => Top.file = question.file /\ All(Top) = {question.first}
      /\ Len(stack) > 1 => KeyOf(Top) \in Key /\ All(Top) = Range(Alternatives(policy, KeyOf(Top)))
  BY FirstIsOffered
<1>2. Wanted \in Key
  BY <1>1, DirectTypes DEF Wanted
<1>3. Wanted \in Declares(policy, Top.file, All(Top))
  BY <1>1 DEF Declares, Wanted
<1> QED
  BY <1>1, <1>2, <1>3 DEF DeclaredBy, KeyOf, policy
-----------------------------------------------------------------------------
LEMMA PushShape ==
  ASSUME NEW T, NEW f \in T, NEW s \in Seq(T)
  PROVE  /\ <<f>> \o s \in Seq(T) /\ Len(<<f>> \o s) = Len(s) + 1 /\ (<<f>> \o s)[1] = f
         /\ \A i \in 2..(Len(s) + 1) : (<<f>> \o s)[i] = s[i - 1]
OBVIOUS

(* The stack with an export more, *)
LEMMA EntersShape ==
  ASSUME StateInv, FramesInv, ChainInv, Enters
  PROVE  /\ stack' \in Seq(Frames) /\ Len(stack') = Len(stack) + 1 /\ stack' # <<>> /\ Len(stack) \in Nat \ {0}
         /\ stack'[1] = Frame(First.file, First.name, Alternatives(policy, Wanted))
         /\ stack'[1].name # None /\ KeyOf(stack'[1]) = Wanted
         /\ \A i \in 2..(Len(stack) + 1) :
              /\ i - 1 \in 1..Len(stack) /\ stack'[i] = Goes(<<>>)[i - 1] /\ KeyOf(stack'[i]) = KeyOf(stack[i - 1])
              /\ stack'[i].file = stack[i - 1].file /\ stack'[i].name = stack[i - 1].name
<1> DEFINE frame == Frame(First.file, First.name, Alternatives(policy, Wanted))
<1>1. Follows /\ Trying /\ Wanted \in Key /\ stack \in Seq(Frames) /\ ProgramInv
  BY LeadsOn DEF Enters, Follows, StateInv
<1>2. First.file \in Module /\ First.name \in Name /\ First.name # None
  BY <1>1, NameAssumption DEF Wanted, Key
<1>3. Alternatives(policy, Wanted) \in Seq(Alternative)
  BY <1>1, AlternativesType
<1>4. frame \in Frames /\ frame.name = First.name /\ KeyOf(frame) = Wanted
  BY <1>2, <1>3 DEF Frame, Frames, KeyOf, Wanted
<1>5. <<>> \in Seq(Alternative)
  OBVIOUS
<1>6. /\ Goes(<<>>) \in Seq(Frames) /\ Len(Goes(<<>>)) = Len(stack)
      /\ \A i \in 1..Len(stack) : KeyOf(Goes(<<>>)[i]) = KeyOf(stack[i]) /\ Goes(<<>>)[i].file = stack[i].file /\ Goes(<<>>)[i].name = stack[i].name
  BY <1>1, <1>5, GoesShape
<1>7. stack' = <<frame>> \o Goes(<<>>)
  BY DEF Enters
<1>8. Len(stack) \in Nat \ {0}
  BY <1>1, TopTypes
<1> HIDE DEF frame
<1>9. /\ stack' \in Seq(Frames) /\ Len(stack') = Len(stack) + 1 /\ stack'[1] = frame
      /\ \A i \in 2..(Len(stack) + 1) : stack'[i] = Goes(<<>>)[i - 1]
  BY <1>4, <1>6, <1>7, PushShape
<1>10. \A i \in 2..(Len(stack) + 1) : i - 1 \in 1..Len(stack)
  BY <1>8
<1>11. stack' # <<>>
  BY <1>8, <1>9
<1> QED
  BY <1>2, <1>4, <1>6, <1>8, <1>9, <1>10, <1>11 DEF frame

(* which no other call on it is for. *)
LEMMA EntersKeepsInv == ASSUME Inv, Enters PROVE Inv'
<1>1. StateInv /\ FramesInv /\ ChainInv /\ LeftInv
  BY DEF Inv
<1>2. /\ UNCHANGED <<program, resolved, question, told, questions>> /\ visited' = visited \cup {Wanted} /\ Wanted \notin visited
      /\ Follows /\ Trying /\ stack # <<>>
  BY DEF Enters, Follows, Trying
<1>3. /\ stack' \in Seq(Frames) /\ Len(stack') = Len(stack) + 1 /\ stack' # <<>> /\ Len(stack) \in Nat \ {0}
      /\ stack'[1] = Frame(First.file, First.name, Alternatives(policy, Wanted))
      /\ stack'[1].name # None /\ KeyOf(stack'[1]) = Wanted
      /\ \A i \in 2..(Len(stack) + 1) :
           /\ i - 1 \in 1..Len(stack) /\ stack'[i] = Goes(<<>>)[i - 1] /\ KeyOf(stack'[i]) = KeyOf(stack[i - 1])
           /\ stack'[i].file = stack[i - 1].file /\ stack'[i].name = stack[i - 1].name
  BY <1>1, EntersShape
<1>4. \A i \in 1..(Len(stack) + 1) : i = 1 \/ i \in 2..(Len(stack) + 1)
  BY <1>3
<1>5. /\ Wanted \in Key
      /\ \A exports \in SUBSET Key :
           /\ Covers(question, exports) => Wanted \in exports
           /\ Len(stack) > 1 /\ Closed(policy, exports) /\ KeyOf(Top) \in exports => Wanted \in exports
  BY <1>1, <1>2, LeadsOn
<1>6. StateInv'
  <2>1. \A i \in 1..Len(stack') : stack'[i].name = None <=> i = Len(stack')
    <3>1. CASE \A i \in 1..Len(stack') : i = 1
      BY <1>3, <3>1
    <3>2. ASSUME NEW i \in 2..(Len(stack) + 1) PROVE stack'[i].name = None <=> i = Len(stack) + 1
      BY <1>1, <1>3, <3>2 DEF StateInv
    <3>3. 1 # Len(stack) + 1
      BY <1>3
    <3> QED
      BY <1>3, <1>4, <3>2, <3>3
  <2>2. stack'[Len(stack')].file = question.file
    <3>1. Len(stack') \in 2..(Len(stack) + 1) /\ Len(stack') - 1 = Len(stack)
      BY <1>3
    <3>2. stack'[Len(stack')].file = stack[Len(stack)].file
      BY <1>3, <3>1
    <3> QED
      BY <1>1, <1>2, <3>2 DEF StateInv
  <2> QED
    BY <1>1, <1>2, <1>3, <1>5, <2>1, <2>2 DEF StateInv, ProgramInv
<1>7. FramesInv'
  <2>1. ASSUME NEW i \in 2..(Len(stack) + 1) PROVE Half(stack[i])'
    <3>1. <<>> \in Seq(Alternative) /\ Range(<<>>) = {}
      BY DEF Range
    <3>2. Offers(policy, Top.file, Range(<<>>)) = {}
      BY <3>1, OffersOfNone
    <3>3. Offers(policy, Top.file, {First}) = {First}
      BY <1>1, <1>2, OffersOfFirst DEF StateInv, Follows
    <3>4. ASSUME NEW o, o = First PROVE Tried(o)'
      BY <1>2, <3>4 DEF Tried, Wanted, Follows
    <3>5. \A o \in {First} : Tried(o)'
      BY <3>4
    <3>6. ASSUME NEW k \in 1..Len(stack), NEW frame, frame = Goes(<<>>)[k] PROVE Half(frame)'
      <4> DEFINE r == <<>>
      <4>1. /\ r \in Seq(Alternative) /\ Offers(policy, Top.file, Range(r)) \subseteq Offers(policy, Top.file, {First})
            /\ \A o \in Offers(policy, Top.file, {First}) \ Offers(policy, Top.file, Range(r)) : Tried(o)'
        BY <3>1, <3>2, <3>3, <3>5
      <4>2. frame = Goes(r)[k]
        BY <3>6
      <4>3. visited \subseteq visited'
        BY <1>2
      <4> HIDE DEF r
      <4> QED
        BY <1>1, <1>2, <4>1, <4>2, <4>3, GoesHalf
    <3> QED
      BY <1>3, <3>6
  <2>2. Half(stack[1])'
    <3> DEFINE frame == Frame(First.file, First.name, Alternatives(policy, Wanted))
    <3>1. frame.name # None /\ KeyOf(frame) = Wanted /\ frame.rest = Alternatives(policy, Wanted)
      BY <1>3 DEF Frame
    <3>2. Left(frame) = Offered(frame)
      BY <3>1 DEF Left, Offered, All
    <3>3. Half(frame)
      BY <3>2 DEF Half
    <3> HIDE DEF frame
    <3> QED
      BY <1>2, <1>3, <3>3, HalfStays DEF frame
  <2> QED
    BY <1>3, <1>4, <2>1, <2>2 DEF FramesInv
<1>8. ChainInv'
  <2>1. \A exports : Covers(question, exports)' = Covers(question, exports) /\ Closed(policy, exports)' = Closed(policy, exports)
    BY <1>2, SameSearch DEF policy
  <2>2. \A i \in 1..Len(stack) : i = 1 \/ (i - 1 \in 1..(Len(stack) - 1) /\ i \in 2..(Len(stack) + 1) /\ Len(stack) > 1)
    BY <1>3
  <2>3. ASSUME NEW i \in 1..Len(stack), i # 1
        PROVE  i - 1 \in 1..(Len(stack) - 1) /\ Len(stack) > 1 /\ KeyOf(stack'[i]) = KeyOf(stack[i - 1]) /\ KeyOf(stack'[i]) \in visited
    BY <1>1, <1>3, <2>2, <2>3 DEF ChainInv
  <2>4. \A i \in 1..Len(stack) : KeyOf(stack'[i]) \in visited'
    BY <1>2, <1>3, <2>3
  <2>5. ASSUME NEW i \in 1..Len(stack), NEW j \in 1..Len(stack), KeyOf(stack'[i]) = KeyOf(stack'[j]) PROVE i = j
    <3>1. CASE i = 1 \/ j = 1
      BY <1>2, <1>3, <2>3, <2>5, <3>1
    <3>2. CASE i # 1 /\ j # 1
      <4>1. i - 1 = j - 1
        BY <1>1, <2>3, <2>5, <3>2 DEF ChainInv
      <4> QED
        BY <4>1
    <3> QED
      BY <3>1, <3>2
  <2>6. ASSUME NEW i \in 1..Len(stack), NEW exports \in SUBSET Key, Covers(question, exports) PROVE KeyOf(stack'[i]) \in exports
    BY <1>1, <1>3, <1>5, <2>3, <2>6 DEF ChainInv
  <2>7. ASSUME NEW i \in 1..Len(stack), NEW j \in i..Len(stack), NEW exports \in SUBSET Key,
               Closed(policy, exports), KeyOf(stack'[j]) \in exports
        PROVE  KeyOf(stack'[i]) \in exports
    <3>1. j \in 1..Len(stack)
      BY <1>3
    <3>2. CASE i # 1
      <4>1. j # 1 /\ j - 1 \in (i - 1)..(Len(stack) - 1)
        BY <1>3, <3>2
      <4> QED
        BY <1>1, <2>3, <2>7, <3>1, <3>2, <4>1 DEF ChainInv
    <3>3. CASE i = 1 /\ j # 1
      <4>1. j - 1 \in 1..(Len(stack) - 1) /\ 1 \in 1..(Len(stack) - 1) /\ Len(stack) > 1
        BY <1>3, <2>3, <3>1, <3>3
      <4>2. KeyOf(stack[j - 1]) \in exports
        BY <2>3, <2>7, <3>1, <3>3
      <4>3. KeyOf(stack[1]) \in exports
        BY <1>1, <2>7, <4>1, <4>2 DEF ChainInv
      <4> QED
        BY <1>3, <1>5, <2>7, <3>3, <4>1, <4>3 DEF Top
    <3>4. CASE i = 1 /\ j = 1
      BY <2>7, <3>4
    <3> QED
      BY <3>2, <3>3, <3>4
  <2>8. Len(stack') - 1 = Len(stack)
    BY <1>3
  <2> QED
    BY <2>1, <2>4, <2>5, <2>6, <2>7, <2>8, <1>2 DEF ChainInv
<1>9. LeftInv'
  <2>1. \A key : Done(key) => Done(key)'
    BY <1>2, DoneStays
  <2>2. 1 \in 1..(Len(stack') - 1)
    BY <1>3
  <2>3. ASSUME NEW i \in 1..(Len(stack) - 1) PROVE i + 1 \in 1..(Len(stack') - 1) /\ KeyOf(stack'[i + 1]) = KeyOf(stack[i])
    <3>1. i + 1 \in 2..(Len(stack) + 1) /\ i + 1 - 1 = i /\ i + 1 \in 1..(Len(stack') - 1)
      BY <1>3
    <3> QED
      BY <1>3, <3>1
  <2> QED
    BY <1>1, <1>2, <1>3, <2>1, <2>2, <2>3 DEF LeftInv
<1>10. CacheInv' /\ ToldInv'
  BY <1>2, SameToldAndCache
<1> QED
  BY <1>6, <1>7, <1>8, <1>9, <1>10 DEF Inv
-----------------------------------------------------------------------------
(* A call with no alternative left has tried them all. *)
LEMMA AllTried ==
  ASSUME StateInv, FramesInv, Exhausted
  PROVE  /\ Len(stack) \in Nat \ {0} /\ stack \in Seq(Frames)
         /\ Len(stack) = 1 => \A o \in Offers(policy, question.file, {question.first}) : Tried(o)
         /\ Len(stack) > 1 => Done(KeyOf(stack[1]))
<1>1. stack # <<>> /\ stack \in Seq(Frames) /\ Len(stack) \in Nat \ {0} /\ Top = stack[1] /\ Top.rest = <<>>
  BY DEF Exhausted, StateInv, Top
<1>2. 1 \in 1..Len(stack)
  BY <1>1
<1>3. Half(Top) /\ (Top.name = None <=> Len(stack) = 1)
  <2>1. Half(stack[1]) /\ (stack[1].name = None <=> 1 = Len(stack))
    BY <1>2 DEF FramesInv, StateInv
  <2> QED
    BY <1>1, <2>1
<1>4. Range(Top.rest) = {}
  BY <1>1 DEF Range
<1>5. Left(Top) = {}
  BY <1>4, OffersOfNone DEF Left
<1>6. \A o \in Offers(policy, Top.file, All(Top)) : Tried(o)
  BY <1>3, <1>5 DEF Half, Offered
<1>7. (Len(stack) > 1 => Len(stack) # 1) /\ (Len(stack) # 1 => Len(stack) > 1)
  <2>1. \A n \in Nat \ {0} : (n > 1 => n # 1) /\ (n # 1 => n > 1)
    OBVIOUS
  <2> QED
    BY <1>1, <2>1
<1>8. CASE Len(stack) = 1
  <2>1. Top.file = question.file /\ All(Top) = {question.first}
    BY <1>1, <1>3, <1>8 DEF StateInv, All
  <2> QED
    BY <1>1, <1>6, <1>7, <1>8, <2>1
<1>9. CASE Len(stack) # 1
  <2>1. Offers(policy, Top.file, All(Top)) = Offers(policy, KeyOf(Top)[1], Range(Alternatives(policy, KeyOf(Top))))
    BY <1>3, <1>9 DEF All, KeyOf
  <2> QED
    BY <1>1, <1>6, <1>9, <2>1 DEF Done
<1> QED
  BY <1>8, <1>9

(* What is left is closed under what it leads to, but for the stack; *)
LEMMA ReturnsKeepsInv == ASSUME Inv, Returns PROVE Inv'
<1>1. /\ StateInv /\ FramesInv /\ ChainInv /\ LeftInv /\ stack \in Seq(Frames)
      /\ UNCHANGED <<program, resolved, question, visited, told, questions>> /\ stack' = Tail(stack) /\ Len(stack) > 1 /\ stack # <<>>
  BY DEF Inv, StateInv, Returns, Exhausted
<1>2. /\ stack' \in Seq(Frames) /\ Len(stack) \in Nat /\ Len(stack') = Len(stack) - 1
      /\ \A i \in 1..(Len(stack) - 1) : stack'[i] = stack[i + 1] /\ i + 1 \in 1..Len(stack)
  BY <1>1
<1>3. Done(KeyOf(stack[1]))
  BY <1>1, AllTried DEF Returns
<1>4. StateInv'
  <2>1. \A i \in 1..Len(stack') : stack'[i].name = None <=> i = Len(stack')
    <3>1. SUFFICES ASSUME NEW i \in 1..(Len(stack) - 1) PROVE stack'[i].name = None <=> i = Len(stack) - 1
      BY <1>2
    <3>2. stack'[i] = stack[i + 1] /\ i + 1 \in 1..Len(stack)
      BY <1>2
    <3>3. stack[i + 1].name = None <=> i + 1 = Len(stack)
      BY <1>1, <3>2 DEF StateInv
    <3>4. i + 1 = Len(stack) <=> i = Len(stack) - 1
      BY <1>2
    <3> QED
      BY <3>2, <3>3, <3>4
  <2>2. stack'[Len(stack')] = stack[Len(stack)]
    BY <1>1, <1>2
  <2> QED
    BY <1>1, <1>2, <2>1, <2>2 DEF StateInv, ProgramInv
<1>5. FramesInv'
  <2>1. \A i \in 1..Len(stack) : Half(stack[i]) /\ (\A frame : Half(frame) => Half(frame)')
    BY <1>1, HalfStays DEF FramesInv
  <2> QED
    BY <1>2, <2>1 DEF FramesInv
<1>6. ChainInv'
  <2>1. \A exports : Covers(question, exports)' = Covers(question, exports) /\ Closed(policy, exports)' = Closed(policy, exports)
    BY <1>1, SameSearch DEF policy
  <2>2. \A i \in 1..(Len(stack') - 1) : i \in 1..(Len(stack) - 1) /\ i + 1 \in 1..(Len(stack) - 1)
    BY <1>2
  <2>3. \A i \in 1..(Len(stack') - 1) : \A j \in i..(Len(stack') - 1) : j \in 1..(Len(stack) - 1) /\ j + 1 \in (i + 1)..(Len(stack) - 1)
    BY <1>2
  <2>4. \A i, j \in 1..(Len(stack') - 1) : i + 1 = j + 1 => i = j
    OBVIOUS
  <2> QED
    BY <1>1, <1>2, <2>1, <2>2, <2>3, <2>4 DEF ChainInv
<1>7. LeftInv'
  <2>1. \A key : Done(key) => Done(key)'
    BY <1>1, DoneStays
  <2>2. ASSUME NEW i \in 1..(Len(stack) - 1), i # 1 PROVE i - 1 \in 1..(Len(stack') - 1) /\ stack'[i - 1] = stack[i]
    <3>1. i - 1 \in 1..(Len(stack') - 1) /\ i - 1 \in 1..(Len(stack) - 1) /\ (i - 1) + 1 = i
      BY <1>2, <2>2
    <3> QED
      BY <1>2, <3>1
  <2> QED
    BY <1>1, <1>3, <2>1, <2>2 DEF LeftInv
<1>8. CacheInv' /\ ToldInv'
  BY <1>1, SameToldAndCache
<1> QED
  BY <1>4, <1>5, <1>6, <1>7, <1>8 DEF Inv

(* The end of a question leaves no search behind. *)
LEMMA EmptyStack ==
  ASSUME StateInv, stack' = <<>>, UNCHANGED <<program, question, visited, questions>>
  PROVE  StateInv' /\ FramesInv' /\ ChainInv' /\ LeftInv'
<1>1. stack' \in Seq(Frames) /\ Len(stack') = 0 /\ 1..0 = {} /\ 1..(0 - 1) = {}
  OBVIOUS
<1>2. StateInv'
  BY <1>1 DEF StateInv, ProgramInv
<1>3. FramesInv' /\ ChainInv' /\ LeftInv'
  BY <1>1 DEF FramesInv, ChainInv, LeftInv
<1> QED
  BY <1>2, <1>3

(* at the end, altogether. *)
LEMMA AnswersKeepsInv == ASSUME Inv, Answers PROVE Inv'
<1>1. /\ StateInv /\ FramesInv /\ LeftInv /\ ToldInv /\ question \in Question /\ Len(stack) = 1 /\ stack # <<>>
      /\ UNCHANGED <<program, resolved, question, visited, questions>> /\ stack' = <<>>
      /\ told' = told \cup {[question |-> question, answer |-> None]}
  BY DEF Inv, StateInv, Answers, Exhausted
<1>2. \A o \in Offers(policy, question.file, {question.first}) : Tried(o)
  BY <1>1, AllTried DEF Answers
<1>3. \A key \in visited : Done(key)
  <2>1. 1..(Len(stack) - 1) = {}
    BY <1>1
  <2> QED
    BY <1>1, <2>1 DEF LeftInv
<1>4. ReachesNone(question)
  <2>1. Declares(policy, question.file, {question.first}) = {} /\ LeadsTo(policy, question.file, {question.first}) \subseteq visited
    BY <1>2 DEF Declares, LeadsTo, Tried
  <2>2. ASSUME NEW key \in visited
        PROVE  DeclaredBy(policy, key) = {} /\ LeadsTo(policy, key[1], Range(Alternatives(policy, key))) \subseteq visited
    BY <1>3 DEF Done, DeclaredBy, Declares, LeadsTo, Tried
  <2>3. visited \in SUBSET Key
    BY <1>1 DEF StateInv
  <2>4. Covers(question, visited)
    BY <2>1, <2>2 DEF Covers, policy
  <2> QED
    BY <2>1, <2>2, <2>3, <2>4 DEF ReachesNone, policy
<1>5. StateInv' /\ FramesInv' /\ ChainInv' /\ LeftInv'
  BY <1>1, EmptyStack
<1>6. ToldInv'
  <2>1. told' \subseteq [question : Question, answer : Key \cup {None}]
    BY <1>1 DEF ToldInv
  <2>2. ASSUME NEW t \in told' PROVE (t.answer # None => Reaches(t.question, t.answer)) /\ (t.answer = None => ReachesNone(t.question))
    BY <1>1, <1>4, <2>2 DEF ToldInv
  <2> QED
    BY <1>1, <2>1, <2>2, SameAnswers DEF ToldInv
<1>7. CacheInv'
  BY <1>1, SameAnswers DEF Inv, CacheInv
<1> QED
  BY <1>5, <1>6, <1>7 DEF Inv

(* A declaration that the question and all searches on the stack lead to. *)
LEMMA FoundKeepsInv ==
  ASSUME Inv, stack # <<>>, NEW d, d \in Key, Found(d), Reaches(question, d),
         \A i \in 1..(Len(stack) - 1) : ReachableFrom(policy, KeyOf(stack[i]), d)
  PROVE  Inv'
<1>1. /\ StateInv /\ ToldInv /\ CacheInv /\ question \in Question /\ stack \in Seq(Frames) /\ stack' = <<>>
      /\ UNCHANGED <<program, question, visited, questions>>
      /\ told' = told \cup {[question |-> question, answer |-> d]}
  BY DEF Inv, StateInv, Found
<1>2. StateInv' /\ FramesInv' /\ ChainInv' /\ LeftInv'
  BY <1>1, EmptyStack
<1>3. d # None
  BY ModuleAssumption DEF Key
<1>4. ToldInv'
  <2>1. told' \subseteq [question : Question, answer : Key \cup {None}]
    BY <1>1 DEF ToldInv
  <2>2. ASSUME NEW t \in told' PROVE (t.answer # None => Reaches(t.question, t.answer)) /\ (t.answer = None => ReachesNone(t.question))
    BY <1>1, <1>3, <2>2 DEF ToldInv
  <2> QED
    BY <1>1, <2>1, <2>2, SameAnswers DEF ToldInv
<1>5. CacheInv'
  <2> DEFINE filed(k) == \E i \in DOMAIN stack : stack[i].name # None /\ k = CacheKey(policy, <<stack[i].file, stack[i].name>>)
  <2>1. resolved' = [k \in CacheKeys |-> IF filed(k) THEN d ELSE resolved[k]]
    BY DEF Found
  <2>2. ASSUME NEW p \in Policy, NEW key \in Key, filed(<<p, key>>) PROVE ReachableFrom(p, key, d)
    <3>1. PICK i \in DOMAIN stack : stack[i].name # None /\ <<p, key>> = CacheKey(policy, <<stack[i].file, stack[i].name>>)
      BY <2>2
    <3>2. DOMAIN stack = 1..Len(stack) /\ Len(stack) \in Nat
      BY <1>1
    <3>3. i # Len(stack)
      BY <1>1, <3>1, <3>2 DEF StateInv
    <3>4. i \in 1..(Len(stack) - 1)
      BY <3>1, <3>2, <3>3
    <3>5. p = policy /\ key = KeyOf(stack[i])
      BY <3>1 DEF CacheKey, KeyOf
    <3> QED
      BY <3>4, <3>5
  <2> HIDE DEF filed
  <2>3. resolved' \in [CacheKeys -> Key \cup {None}]
    BY <1>1, <2>1 DEF CacheInv
  <2>4. ASSUME NEW p \in Policy, NEW key \in Key, resolved'[<<p, key>>] # None
        PROVE  ReachableFrom(p, key, resolved'[<<p, key>>])
    <3>1. <<p, key>> \in CacheKeys
      BY DEF CacheKeys
    <3>2. resolved'[<<p, key>>] = IF filed(<<p, key>>) THEN d ELSE resolved[<<p, key>>]
      BY <2>1, <3>1
    <3> QED
      BY <1>1, <2>2, <2>4, <3>2 DEF CacheInv
  <2> QED
    BY <1>1, <2>3, <2>4, SameAnswers DEF CacheInv
<1> QED
  BY <1>2, <1>4, <1>5 DEF Inv

LEMMA FindsKeepsInv == ASSUME Inv, FindsDeclaration PROVE Inv'
<1>1. /\ StateInv /\ FramesInv /\ ChainInv /\ Trying /\ First.kind = "declared" /\ Found(Wanted) /\ stack # <<>>
      /\ Len(stack) \in Nat \ {0} /\ Top = stack[1]
  BY TopTypes DEF Inv, StateInv, FindsDeclaration, Trying, Top
<1>2. /\ Wanted \in Key
      /\ Len(stack) = 1 => Wanted \in Declares(question.policy, question.file, {question.first})
      /\ Len(stack) > 1 => KeyOf(stack[1]) \in Key /\ Wanted \in DeclaredBy(policy, KeyOf(stack[1]))
  BY <1>1, FindsOn
<1>3. \A n \in Nat \ {0} : n = 1 \/ (n > 1 /\ 1 \in 1..(n - 1) /\ \A i \in 1..(n - 1) : n > 1 /\ i \in 1..(n - 1) /\ i \in 1..i)
  OBVIOUS
<1>4. Reaches(question, Wanted)
  <2>1. CASE Len(stack) = 1
    BY <1>2, <2>1 DEF Reaches
  <2>2. CASE Len(stack) > 1 /\ 1 \in 1..(Len(stack) - 1)
    <3>1. \A exports \in SUBSET Key : Covers(question, exports) => KeyOf(stack[1]) \in exports
      BY <1>1, <2>2 DEF ChainInv
    <3> QED
      BY <1>2, <2>2, <3>1 DEF Reaches, policy
  <2> QED
    BY <1>1, <1>3, <2>1, <2>2
<1>5. ASSUME NEW i \in 1..(Len(stack) - 1) PROVE ReachableFrom(policy, KeyOf(stack[i]), Wanted)
  <2>1. Len(stack) > 1 /\ 1 \in 1..(Len(stack) - 1)
    BY <1>1
  <2>2. SUFFICES ASSUME NEW exports \in SUBSET Key, KeyOf(stack[i]) \in exports, Closed(policy, exports)
        PROVE \E k \in exports : Wanted \in DeclaredBy(policy, k)
    BY DEF ReachableFrom
  <2>3. KeyOf(stack[1]) \in exports
    BY <1>1, <2>1, <2>2 DEF ChainInv
  <2> QED
    BY <1>2, <2>1, <2>3
<1> DEFINE d == Wanted
<1>6. d \in Key /\ Found(d) /\ Reaches(question, d) /\ \A i \in 1..(Len(stack) - 1) : ReachableFrom(policy, KeyOf(stack[i]), d)
  BY <1>1, <1>2, <1>4, <1>5
<1> HIDE DEF d
<1> QED
  BY <1>1, <1>6, FoundKeepsInv

LEMMA RecallsKeepsInv == ASSUME Inv, Recalls PROVE Inv'
<1>1. /\ StateInv /\ FramesInv /\ ChainInv /\ CacheInv /\ Follows /\ Cached # None /\ Found(Cached) /\ Trying /\ stack # <<>>
      /\ Len(stack) \in Nat \ {0} /\ Top = stack[1] /\ question \in Question
  BY TopTypes DEF Inv, StateInv, Recalls, Follows, Trying, Top
<1>2. /\ Wanted \in Key
      /\ \A exports \in SUBSET Key :
           /\ Covers(question, exports) => Wanted \in exports
           /\ Len(stack) > 1 /\ Closed(policy, exports) /\ KeyOf(Top) \in exports => Wanted \in exports
  BY <1>1, LeadsOn
<1>3. policy \in Policy
  BY <1>1 DEF policy, Question
<1>4. Cached \in Key /\ ReachableFrom(policy, Wanted, Cached)
  BY <1>1, <1>2, <1>3 DEF CacheInv, Cached, CacheKey, CacheKeys
<1>5. Reaches(question, Cached)
  <2>1. ASSUME NEW exports \in SUBSET Key, Covers(question, exports) PROVE Closed(policy, exports)
    BY <2>1 DEF Covers, Closed, policy
  <2> QED
    BY <1>2, <1>4, <2>1 DEF Reaches, ReachableFrom, policy
<1>6. ASSUME NEW i \in 1..(Len(stack) - 1) PROVE ReachableFrom(policy, KeyOf(stack[i]), Cached)
  <2>1. Len(stack) > 1 /\ 1 \in 1..(Len(stack) - 1)
    BY <1>1
  <2>2. SUFFICES ASSUME NEW exports \in SUBSET Key, KeyOf(stack[i]) \in exports, Closed(policy, exports)
        PROVE \E k \in exports : Cached \in DeclaredBy(policy, k)
    BY DEF ReachableFrom
  <2>3. KeyOf(stack[1]) \in exports
    BY <1>1, <2>1, <2>2 DEF ChainInv
  <2>4. Wanted \in exports
    BY <1>1, <1>2, <2>1, <2>2, <2>3
  <2> QED
    BY <1>4, <2>2, <2>4 DEF ReachableFrom
<1> DEFINE d == Cached
<1>7. d \in Key /\ Found(d) /\ Reaches(question, d) /\ \A i \in 1..(Len(stack) - 1) : ReachableFrom(policy, KeyOf(stack[i]), d)
  BY <1>1, <1>4, <1>5, <1>6
<1> HIDE DEF d
<1> QED
  BY <1>1, <1>7, FoundKeepsInv

(* A question begins with nothing entered. *)
LEMMA AskKeepsInv ==
  ASSUME Inv, NEW p \in Policy, NEW file \in Module, NEW name \in Name, NEW first,
         first = Follow(file, name) \/ first = Local(name), Ask(p, file, name, first)
  PROVE  Inv'
<1> DEFINE frame == Frame(file, None, <<first>>)
<1>1. first \in Alternative
  BY AlternativeTypes
<1>2. question' = [policy |-> p, file |-> file, first |-> first] /\ question' \in Question
  BY <1>1 DEF Ask, Question
<1>3. frame \in Frames /\ frame.file = file /\ frame.name = None /\ frame.rest = <<first>>
  BY <1>1 DEF Frame, Frames
<1>4. /\ stack' = <<frame>> /\ visited' = {} /\ UNCHANGED <<program, resolved, told>> /\ questions' \in 0..MaxQuestions
  BY QuestionAssumption DEF Ask, Inv, StateInv
<1> HIDE DEF frame
<1>5. stack' \in Seq(Frames) /\ Len(stack') = 1 /\ stack'[1] = frame /\ 1..1 = {1} /\ 1..(1 - 1) = {}
  BY <1>3, <1>4
<1>6. StateInv'
  BY <1>2, <1>3, <1>4, <1>5 DEF Inv, StateInv, ProgramInv
<1>7. FramesInv'
  <2>1. Range(<<first>>) = {first}
    BY DEF Range
  <2>2. Range(stack'[1].rest) = {first} /\ question'.first = first /\ stack'[1].name = None
    BY <1>2, <1>3, <1>5, <2>1
  <2>3. Left(stack[1])' = Offered(stack[1])'
    BY <2>2 DEF Left, Offered, All
  <2>4. Half(stack[1])'
    BY <2>3 DEF Half
  <2> QED
    BY <1>5, <2>4 DEF FramesInv
<1>8. ChainInv' /\ LeftInv'
  BY <1>4, <1>5 DEF ChainInv, LeftInv
<1>9. CacheInv' /\ ToldInv'
  BY <1>4, SameToldAndCache
<1> QED
  BY <1>6, <1>7, <1>8, <1>9 DEF Inv
-----------------------------------------------------------------------------
LEMMA InitInv == Init => Inv
<1> SUFFICES ASSUME Init PROVE Inv
  OBVIOUS
<1>1. ProgramInv /\ program \in Program
  BY ProgramAssumption DEF Init, ProgramInv
<1>2. StateInv
  BY <1>1, QuestionAssumption DEF Init, StateInv
<1>3. FramesInv /\ ChainInv /\ LeftInv /\ ToldInv
  BY DEF Init, FramesInv, ChainInv, LeftInv, ToldInv
<1>4. CacheInv
  BY DEF Init, CacheInv, CacheKeys
<1> QED
  BY <1>2, <1>3, <1>4 DEF Inv

(* The cases are the actions. *)
LEMMA NextInv == Inv /\ [Next]_vars => Inv'
<1> SUFFICES ASSUME Inv, [Next]_vars PROVE Inv'
  OBVIOUS
<1>1. CASE Asked
  <2>1. PICK p \in Policy, ask \in Asks : Resolve(p, ask[1], ask[2]) \/ LocalSymbol(p, ask[1], ask[2])
    BY <1>1 DEF Asked
  <2>2. ask[1] \in Module /\ ask[2] \in Name
    BY QuestionAssumption
  <2> QED
    BY <2>1, <2>2, AskKeepsInv DEF Resolve, LocalSymbol
<1>2. CASE Opens
  BY <1>2, OpensGoesOn
<1>3. CASE FindsDeclaration
  BY <1>3, FindsKeepsInv
<1>4. CASE Recalls
  BY <1>4, RecallsKeepsInv
<1>5. CASE Skips
  BY <1>5, SkipsGoesOn
<1>6. CASE Enters
  BY <1>6, EntersKeepsInv
<1>7. CASE Returns
  BY <1>7, ReturnsKeepsInv
<1>8. CASE Answers
  BY <1>8, AnswersKeepsInv
<1>9. CASE UNCHANGED vars
  <2>1. UNCHANGED <<program, resolved, question, stack, visited, told, questions>>
    BY <1>9 DEF vars
  <2>2. CacheInv' /\ ToldInv'
    BY <2>1, SameToldAndCache
  <2>3. StateInv'
    BY <2>1 DEF Inv, StateInv, ProgramInv
  <2>4. FramesInv'
    BY <2>1, HalfStays DEF Inv, FramesInv
  <2>5. ChainInv'
    <3>1. \A exports : Covers(question, exports)' = Covers(question, exports) /\ Closed(policy, exports)' = Closed(policy, exports)
      BY <2>1, SameSearch DEF policy
    <3> QED
      BY <2>1, <3>1 DEF Inv, ChainInv
  <2>6. LeftInv'
    <3>1. \A key : Done(key) => Done(key)'
      BY <2>1, DoneStays
    <3> QED
      BY <2>1, <3>1 DEF Inv, LeftInv
  <2> QED
    BY <2>2, <2>3, <2>4, <2>5, <2>6 DEF Inv
<1> QED
  BY <1>1, <1>2, <1>3, <1>4, <1>5, <1>6, <1>7, <1>8, <1>9 DEF Next

LEMMA InvImpliesTypes == Inv => TypeOK
<1> SUFFICES ASSUME Inv PROVE TypeOK
  OBVIOUS
<1>1. /\ program \in Program /\ resolved \in [CacheKeys -> Key \cup {None}]
      /\ question \in Question \cup {None} /\ visited \subseteq Key /\ questions \in 0..MaxQuestions
      /\ stack \in Seq(Frames) /\ told \subseteq [question : Question, answer : Key \cup {None}]
  BY DEF Inv, StateInv, CacheInv, ToldInv
<1>2. ASSUME NEW i \in DOMAIN stack, NEW j \in DOMAIN stack, stack[i].file = stack[j].file, stack[i].name = stack[j].name
      PROVE  i = j
  <2>1. DOMAIN stack = 1..Len(stack) /\ Len(stack) \in Nat
    BY <1>1
  <2>2. (stack[i].name = None <=> i = Len(stack)) /\ (stack[j].name = None <=> j = Len(stack))
    BY <2>1 DEF Inv, StateInv
  <2>3. CASE i = Len(stack)
    BY <1>2, <2>2, <2>3
  <2>4. CASE i # Len(stack)
    <3>1. i \in 1..(Len(stack) - 1) /\ j \in 1..(Len(stack) - 1)
      BY <1>2, <2>1, <2>2, <2>4
    <3> QED
      BY <1>2, <3>1 DEF Inv, ChainInv, KeyOf
  <2> QED
    BY <2>3, <2>4
<1> QED
  BY <1>1, <1>2 DEF TypeOK

THEOREM InvariantHolds == Spec => []Inv
BY InitInv, NextInv, PTL DEF Spec

(* The recursion of the search is on exports that it has not entered before, in any  *)
(* project, so that a cycle of modules ends it.                                   *)
THEOREM SearchesAreNotNested == Spec => []TypeOK
BY InvariantHolds, InvImpliesTypes, PTL

(* The answer to a question, found by its search or by one whose cache entry it meets, *)
(* is a declaration that the question leads to with the files that its policy sees.  *)
THEOREM AnswersReachable == Spec => []AnswersAreReachable
<1>1. Inv => AnswersAreReachable
  BY DEF Inv, ToldInv, AnswersAreReachable
<1> QED
  BY <1>1, InvariantHolds, PTL

(* A search that ends without an answer leaves a set of exports that it closed under   *)
(* what they lead to, and none of which has a declaration: there was none to find.  *)
THEOREM NoneIsMissed == Spec => []NothingIsMissed
<1>1. Inv => NothingIsMissed
  BY DEF Inv, ToldInv, NothingIsMissed
<1> QED
  BY <1>1, InvariantHolds, PTL
-----------------------------------------------------------------------------
(* The files do not change, nor does what they lead to. *)
LEMMA SameWays ==
  ASSUME program' = program, NEW q, NEW p, NEW o
  PROVE  Ways(q)' = Ways(q) /\ (Fruitless(p, o)' <=> Fruitless(p, o))
<1>1. Ways(q)' = Ways(q)
  BY DEF Ways, Locals, Declared, Follow, ModuleSymbol, Visible, If
<1>2. \A key : Barren(p, key)' <=> Barren(p, key)
  BY SameLinks, SameSearch DEF Barren
<1> QED
  BY <1>1, <1>2 DEF Fruitless

(* The ways of a question are declarations and ways to go on. *)
LEMMA WaysType ==
  ASSUME ProgramInv, NEW q \in Question
  PROVE  Ways(q) \in Seq(Direct)
<1>1. q.file \in Module /\ q.first \in Alternative
  BY DEF Question
<1>2. CASE q.first.kind = "local"
  <2>1. q.first.name \in Name
    BY <1>1, <1>2 DEF Alternative
  <2> QED
    BY <1>1, <1>2, <2>1, LocalsType DEF Ways
<1>3. CASE q.first.kind # "local"
  <2>1. q.first \in Direct
    BY <1>1, <1>3 DEF Direct
  <2> QED
    BY <1>3, <2>1 DEF Ways
<1> QED
  BY <1>2, <1>3

(* Nothing is behind a way that leads to nothing. *)
LEMMA FruitlessYieldsNothing ==
  ASSUME CacheInv, NEW p \in Policy, NEW o \in Direct, Fruitless(p, o), NEW d \in Key
  PROVE  ~Yields(p, o, d)
<1> SUFFICES ASSUME Yields(p, o, d) PROVE FALSE
  OBVIOUS
<1> DEFINE key == <<o.file, o.name>>
<1>1. o.kind = "follow" /\ o.file # None /\ resolved[<<p, key>>] = d /\ Barren(p, key)
  BY DEF Yields, Fruitless
<1>2. key \in Key /\ d # None
  BY <1>1, DirectTypes, ModuleAssumption DEF Key
<1>3. ReachableFrom(p, key, d)
  BY <1>1, <1>2 DEF CacheInv
<1> HIDE DEF key
<1> QED
  BY <1>1, <1>3 DEF Barren, ReachableFrom

(* When all that was entered was left, nothing that was entered leads to a declaration. *)
LEMMA DoneBarren ==
  ASSUME visited \in SUBSET Key, \A key \in visited : Done(key)
  PROVE  \A key \in visited : Barren(policy, key)
<1>1. ASSUME NEW key \in visited
      PROVE  DeclaredBy(policy, key) = {} /\ LeadsTo(policy, key[1], Range(Alternatives(policy, key))) \subseteq visited
  BY DEF Done, DeclaredBy, Declares, LeadsTo, Tried
<1> QED
  BY <1>1 DEF Barren, Closed

(* Nothing is open when the question itself is on top of the stack. *)
LEMMA OutermostBarren ==
  ASSUME StateInv, LeftInv, stack # <<>>, Len(stack) = 1
  PROVE  \A key \in visited : Barren(policy, key)
<1>1. 1..(Len(stack) - 1) = {}
  OBVIOUS
<1> QED
  BY <1>1, DoneBarren DEF StateInv, LeftInv

(* What a question with nothing but itself on the stack tries next is its next way.  *)
LEMMA NextWay ==
  ASSUME StateInv, Trying, Len(stack) = 1, NEW n \in 0..Len(Ways(question)), TriedWays(n)
  PROVE  /\ n + 1 \in 1..Len(Ways(question)) /\ First = Ways(question)[n + 1] /\ First \in Direct
         /\ Len(Tail(Top.rest)) = Len(Ways(question)) - (n + 1)
         /\ \A k \in 1..Len(Tail(Top.rest)) : Tail(Top.rest)[k] = Ways(question)[n + 1 + k]
<1>1. question \in Question /\ ProgramInv /\ Top = Bottom /\ stack \in Seq(Frames)
  BY DEF StateInv, Trying, Top, Bottom
<1>2. Top.rest \in Seq(Alternative) /\ Top.rest # <<>>
  <2>1. Top \in Frames
    BY <1>1, TopTypes
  <2> QED
    BY <2>1 DEF Trying, Frames
<1> DEFINE ways == Ways(question)
           rest == Top.rest
<1>3. ways \in Seq(Direct)
  BY <1>1, WaysType
<1>4. /\ Len(rest) = Len(ways) - n /\ First = rest[1]
      /\ \A k \in 1..Len(rest) : rest[k] = ways[n + k]
  BY <1>1 DEF TriedWays, First
<1>5. rest \in Seq(Alternative) /\ rest # <<>>
  BY <1>2
<1> HIDE DEF ways, rest
<1>6. Len(rest) \in Nat \ {0} /\ 1 \in 1..Len(rest) /\ n + 1 \in 1..Len(ways)
  BY <1>3, <1>4, <1>5 DEF ways
<1>7. First = ways[n + 1] /\ First \in Direct
  BY <1>3, <1>4, <1>6
<1>8. Len(Tail(rest)) = Len(ways) - (n + 1)
  BY <1>3, <1>4, <1>5, <1>6 DEF ways
<1>9. ASSUME NEW k \in 1..Len(Tail(rest)) PROVE Tail(rest)[k] = ways[n + 1 + k]
  <2>1. k + 1 \in 1..Len(rest) /\ Tail(rest)[k] = rest[k + 1]
    BY <1>5
  <2>2. n + (k + 1) = n + 1 + k
    BY <1>3 DEF ways
  <2> QED
    BY <1>4, <2>1, <2>2
<1> QED
  BY <1>6, <1>7, <1>8, <1>9 DEF ways, rest

(* As long as a search is open, the question waits at its way. *)
LEMMA BottomStays ==
  ASSUME stack # <<>>, BottomInv, Len(stack) > 1, UNCHANGED <<program, question>>, Len(stack') > 1,
         Bottom' = Bottom, KeyOf(stack'[Len(stack') - 1]) = KeyOf(stack[Len(stack) - 1])
  PROVE  BottomInv'
<1>1. Len(stack) # 1
  <2>1. Len(stack) = 1 => ~(Len(stack) > 1)
    OBVIOUS
  <2> QED
    BY <2>1
<1>2. PICK n \in 0..Len(Ways(question)) : TriedWays(n)
  BY <1>1 DEF BottomInv
<1>3. policy' = policy /\ Ways(question)' = Ways(question)
      /\ \A o : Fruitless(policy, o)' <=> Fruitless(policy, o)
  BY SameWays DEF policy
<1>4. Len(stack') # 1
  <2>1. Len(stack') = 1 => ~(Len(stack') > 1)
    OBVIOUS
  <2> QED
    BY <2>1
<1>5. TriedWays(n)'
  BY <1>1, <1>2, <1>3, <1>4 DEF TriedWays, KeyOf
<1> QED
  BY <1>3, <1>5 DEF BottomInv

(* The way a question has tried last has led to nothing, or to a search. *)
LEMMA BottomGoes ==
  ASSUME StateInv, Trying, Len(stack) = 1, UNCHANGED <<program, question>>,
         NEW n \in 0..Len(Ways(question)), TriedWays(n),
         stack' # <<>>, Bottom'.rest = Tail(Top.rest),
         Len(stack') = 1 => Fruitless(policy, Ways(question)[n + 1]),
         Len(stack') > 1 =>
           /\ First.kind = "follow" /\ First.file # None
           /\ KeyOf(stack'[Len(stack') - 1]) = <<First.file, First.name>>
  PROVE  BottomInv'
<1>1. policy' = policy /\ Ways(question)' = Ways(question)
      /\ \A o : Fruitless(policy, o)' <=> Fruitless(policy, o)
  BY SameWays DEF policy
<1>2. /\ n + 1 \in 1..Len(Ways(question)) /\ First = Ways(question)[n + 1]
      /\ Len(Tail(Top.rest)) = Len(Ways(question)) - (n + 1)
      /\ \A k \in 1..Len(Tail(Top.rest)) : Tail(Top.rest)[k] = Ways(question)[n + 1 + k]
  BY NextWay
<1> DEFINE m == n + 1
<1>3. m \in 0..Len(Ways(question)) /\ m > 0 /\ \A k \in 1..m : k = m \/ k \in 1..n
  BY <1>2
<1>4. \A k \in 1..n : Fruitless(policy, Ways(question)[k])
  BY DEF TriedWays
<1>5. \A k \in 1..m : k < m \/ Len(stack') = 1 => Fruitless(policy, Ways(question)[k])
  <2>1. \A k \in 1..m : k < m => k # m
    BY <1>3
  <2> QED
    BY <1>3, <1>4, <2>1
<1> HIDE DEF m
<1>6. TriedWays(m)'
  <2>1. /\ Len(Bottom'.rest) = Len(Ways(question)) - m
        /\ \A k \in 1..Len(Bottom'.rest) : Bottom'.rest[k] = Ways(question)[m + k]
    BY <1>2 DEF m
  <2>2. Len(stack') > 1 =>
          /\ m > 0 /\ Ways(question)[m].kind = "follow" /\ Ways(question)[m].file # None
          /\ KeyOf(stack'[Len(stack') - 1]) = <<Ways(question)[m].file, Ways(question)[m].name>>
    BY <1>2, <1>3 DEF m
  <2> QED
    BY <1>1, <1>5, <2>1, <2>2 DEF TriedWays, KeyOf
<1> QED
  BY <1>1, <1>3, <1>6 DEF BottomInv

(* A step that leaves the searches on the stack as they were.                       *)
LEMMA GoesBottom ==
  ASSUME StateInv, FreshInv, BottomInv, Trying, NEW r, r \in Seq(Alternative), stack' = Goes(r),
         UNCHANGED <<program, resolved, question>>
  PROVE  /\ FreshInv' /\ stack' # <<>> /\ Len(stack') = Len(stack) /\ Len(stack) \in Nat \ {0}
         /\ Len(stack) > 1 => BottomInv'
         /\ Len(stack) = 1 => Bottom'.rest = r \o Tail(Top.rest)
<1>1. /\ stack \in Seq(Frames) /\ stack # <<>> /\ Len(stack) \in Nat \ {0} /\ Top \in Frames
      /\ Tail(Top.rest) \in Seq(Alternative)
  BY TopTypes DEF StateInv, Trying
<1>2. /\ stack' # <<>> /\ Len(stack') = Len(stack)
      /\ \A i \in 1..Len(stack) : KeyOf(stack'[i]) = KeyOf(stack[i])
      /\ \A i \in 2..Len(stack) : stack'[i] = stack[i]
  BY <1>1, GoesShape
<1>3. FreshInv'
  <2>1. \A i \in 1..(Len(stack) - 1) : i \in 1..Len(stack)
    BY <1>1
  <2> QED
    BY <1>2, <2>1 DEF FreshInv, policy, KeyOf
<1>4. ASSUME Len(stack) > 1 PROVE BottomInv'
  <2>1. Len(stack) \in 2..Len(stack) /\ Len(stack) - 1 \in 1..Len(stack)
    BY <1>1, <1>4
  <2> QED
    BY <1>1, <1>2, <1>4, <2>1, BottomStays DEF Bottom
<1>5. ASSUME Len(stack) = 1 PROVE Bottom'.rest = r \o Tail(Top.rest)
  <2>1. stack' = [stack EXCEPT ![1] = [Top EXCEPT !.rest = r \o Tail(Top.rest)]]
    BY DEF Goes, Top
  <2>2. stack'[1] = [Top EXCEPT !.rest = r \o Tail(Top.rest)]
    BY <1>1, <2>1
  <2>3. [Top EXCEPT !.rest = r \o Tail(Top.rest)].rest = r \o Tail(Top.rest)
    BY <1>1 DEF Frames
  <2> QED
    BY <1>2, <1>5, <2>2, <2>3 DEF Bottom
<1> QED
  BY <1>1, <1>2, <1>3, <1>4, <1>5

(* What a question still has to open is all it has. *)
LEMMA Unopened ==
  ASSUME StateInv, BottomInv, Trying, Len(stack) = 1
  PROVE  \/ First.kind = "local" /\ First = question.first /\ Tail(Top.rest) = <<>>
         \/ First.kind # "local" /\ \E n \in 0..Len(Ways(question)) : TriedWays(n)
<1>1. stack # <<>> /\ Top = Bottom
  BY DEF Trying, Top, Bottom
<1>2. CASE question.first.kind = "local" /\ Bottom.rest = <<question.first>>
  BY <1>1, <1>2 DEF First
<1>3. CASE \E n \in 0..Len(Ways(question)) : TriedWays(n)
  <2>1. First \in Direct
    BY <1>3, NextWay
  <2> QED
    BY <1>3, <2>1 DEF Direct
<1> QED
  BY <1>1, <1>2, <1>3 DEF BottomInv

(* A question that begins with a local_symbol has all that this opens before it.     *)
LEMMA OpensBottom == ASSUME Inv, FreshInv, BottomInv, Opens PROVE FreshInv' /\ BottomInv'
<1>1. StateInv /\ Trying /\ stack \in Seq(Frames) /\ stack # <<>> /\ First.kind = "local" /\ question \in Question
  BY DEF Inv, StateInv, Opens, Trying
<1>2. Top.file \in Module /\ First \in Alternative /\ First.name \in Name
  BY <1>1, TopTypes DEF Frames, Alternative
<1> DEFINE r == Locals(policy, Top.file, First.name)
<1>3. r \in Seq(Alternative)
  <2>1. r \in Seq(Direct)
    BY <1>1, <1>2, LocalsType DEF StateInv
  <2> QED
    BY <2>1 DEF Direct
<1>4. stack' = Goes(r) /\ UNCHANGED <<program, resolved, question>>
  BY DEF Opens
<1> HIDE DEF r
<1>5. /\ FreshInv' /\ stack' # <<>> /\ Len(stack') = Len(stack) /\ Len(stack) \in Nat \ {0}
      /\ Len(stack) > 1 => BottomInv'
      /\ Len(stack) = 1 => Bottom'.rest = r \o Tail(Top.rest)
  BY <1>1, <1>3, <1>4, GoesBottom
<1>6. ASSUME Len(stack) = 1 PROVE BottomInv'
  <2>1. First = question.first /\ Tail(Top.rest) = <<>>
    BY <1>1, <1>6, Unopened
  <2>2. Top.file = question.file
    BY <1>1, <1>6 DEF StateInv, Top
  <2>3. r = Ways(question)
    BY <1>1, <2>1, <2>2 DEF Ways, r, policy
  <2>4. Bottom'.rest = r
    <3>1. r \o <<>> = r
      BY <1>3
    <3> QED
      BY <1>5, <1>6, <2>1, <3>1
  <2>5. Ways(question)' = r
    BY <1>4, <2>3, SameWays
  <2>6. Len(r) \in Nat
    BY <1>3
  <2>7. TriedWays(0)'
    <3>1. /\ Len(r) = Len(r) - 0 /\ (\A k \in 1..Len(r) : r[k] = r[0 + k]) /\ 1..0 = {} /\ ~(Len(stack') > 1)
      BY <1>5, <1>6, <2>6
    <3> QED
      BY <2>4, <2>5, <3>1 DEF TriedWays
  <2>8. 0 \in 0..Len(r)
    BY <2>6
  <2> QED
    BY <2>5, <2>7, <2>8 DEF BottomInv
<1>7. Len(stack) = 1 \/ Len(stack) > 1
  BY <1>5
<1> QED
  BY <1>5, <1>6, <1>7

(* Where the question itself skips, what was entered is done with and leads to nothing. *)
LEMMA SkipsBottom == ASSUME Inv, FreshInv, BottomInv, Skips PROVE FreshInv' /\ BottomInv'
<1>1. /\ StateInv /\ LeftInv /\ Trying /\ stack # <<>> /\ First.kind = "follow"
      /\ First.file # None => Wanted \in visited
      /\ UNCHANGED <<program, resolved, question>>
  BY DEF Inv, Skips, Trying
<1> DEFINE r == <<>>
<1>2. r \in Seq(Alternative) /\ stack' = Goes(r)
  BY DEF Skips
<1>3. Tail(Top.rest) \in Seq(Alternative)
  BY <1>1, TopTypes DEF StateInv
<1>4. r \o Tail(Top.rest) = Tail(Top.rest)
  BY <1>3
<1> HIDE DEF r
<1>5. /\ FreshInv' /\ stack' # <<>> /\ Len(stack') = Len(stack) /\ Len(stack) \in Nat \ {0}
      /\ Len(stack) > 1 => BottomInv'
      /\ Len(stack) = 1 => Bottom'.rest = r \o Tail(Top.rest)
  BY <1>1, <1>2, GoesBottom
<1>6. ASSUME Len(stack) = 1 PROVE BottomInv'
  <2>1. PICK n \in 0..Len(Ways(question)) : TriedWays(n)
    BY <1>1, <1>6, Unopened
  <2>2. Fruitless(policy, First)
    BY <1>1, <1>6, OutermostBarren DEF Fruitless, Wanted
  <2>3. First = Ways(question)[n + 1]
    BY <1>1, <1>6, <2>1, NextWay
  <2>4. ~(Len(stack') > 1)
    BY <1>5, <1>6
  <2> QED
    BY <1>1, <1>4, <1>5, <1>6, <2>1, <2>2, <2>3, <2>4, BottomGoes
<1>7. Len(stack) = 1 \/ Len(stack) > 1
  BY <1>5
<1> QED
  BY <1>5, <1>6, <1>7

(* What is entered is not in the cache; the question waits at the way that led there. *)
LEMMA EntersBottom == ASSUME Inv, FreshInv, BottomInv, Enters PROVE FreshInv' /\ BottomInv'
<1>1. /\ StateInv /\ FramesInv /\ ChainInv /\ Trying /\ stack # <<>> /\ stack \in Seq(Frames)
      /\ First.kind = "follow" /\ First.file # None /\ Cached = None
      /\ UNCHANGED <<program, resolved, question>>
  BY DEF Inv, StateInv, Enters, Follows, Trying
<1>2. /\ Len(stack') = Len(stack) + 1 /\ stack' # <<>> /\ Len(stack) \in Nat \ {0}
      /\ KeyOf(stack'[1]) = Wanted
      /\ \A i \in 2..(Len(stack) + 1) :
           i - 1 \in 1..Len(stack) /\ stack'[i] = Goes(<<>>)[i - 1] /\ KeyOf(stack'[i]) = KeyOf(stack[i - 1])
  BY <1>1, EntersShape
<1> DEFINE r == <<>>
<1>3. r \in Seq(Alternative) /\ Tail(Top.rest) \in Seq(Alternative) /\ Top \in Frames
  BY <1>1, TopTypes
<1>4. r \o Tail(Top.rest) = Tail(Top.rest)
  BY <1>3
<1>5. Bottom' = Goes(r)[Len(stack)]
  <2>1. Len(stack) + 1 \in 2..(Len(stack) + 1) /\ (Len(stack) + 1) - 1 = Len(stack)
    BY <1>2
  <2> QED
    BY <1>2, <2>1 DEF Bottom
<1> HIDE DEF r
<1>6. FreshInv'
  <2>1. ASSUME NEW i \in 1..(Len(stack') - 1) PROVE resolved[<<policy, KeyOf(stack'[i])>>] = None
    <3>1. CASE i = 1
      BY <1>1, <1>2, <3>1 DEF Cached, CacheKey
    <3>2. CASE i # 1
      <4>1. i \in 2..(Len(stack) + 1) /\ i - 1 \in 1..(Len(stack) - 1)
        BY <1>2, <3>2
      <4> QED
        BY <1>2, <4>1 DEF FreshInv
    <3> QED
      BY <3>1, <3>2
  <2>2. policy' = policy
    BY <1>1 DEF policy
  <2> QED
    BY <1>1, <2>1, <2>2 DEF FreshInv, KeyOf
<1>7. ASSUME Len(stack) > 1 PROVE BottomInv'
  <2>1. Len(stack) \in 2..Len(stack) /\ Len(stack) \in 2..(Len(stack) + 1) /\ Len(stack') - 1 = Len(stack) /\ Len(stack') > 1
    BY <1>2, <1>7
  <2>2. Bottom' = Bottom
    BY <1>1, <1>3, <1>5, <2>1, GoesShape DEF Bottom
  <2>3. KeyOf(stack'[Len(stack') - 1]) = KeyOf(stack[Len(stack) - 1])
    BY <1>2, <2>1
  <2> QED
    BY <1>1, <1>7, <2>1, <2>2, <2>3, BottomStays
<1>8. ASSUME Len(stack) = 1 PROVE BottomInv'
  <2>1. Bottom'.rest = Tail(Top.rest)
    <3>1. Goes(r) = [stack EXCEPT ![1] = [Top EXCEPT !.rest = r \o Tail(Top.rest)]]
      BY DEF Goes, Top
    <3>2. Goes(r)[1] = [Top EXCEPT !.rest = r \o Tail(Top.rest)]
      BY <1>1, <1>8, <3>1
    <3>3. [Top EXCEPT !.rest = r \o Tail(Top.rest)].rest = r \o Tail(Top.rest)
      BY <1>3 DEF Frames
    <3> QED
      BY <1>4, <1>5, <1>8, <3>2, <3>3
  <2>2. PICK n \in 0..Len(Ways(question)) : TriedWays(n)
    BY <1>1, <1>8, Unopened
  <2>3. Len(stack') # 1 /\ Len(stack') - 1 = 1
    BY <1>2, <1>8
  <2>4. KeyOf(stack'[Len(stack') - 1]) = <<First.file, First.name>>
    BY <1>2, <2>3 DEF Wanted
  <2> QED
    BY <1>1, <1>2, <1>8, <2>1, <2>2, <2>3, <2>4, BottomGoes
<1>9. Len(stack) = 1 \/ Len(stack) > 1
  <2>1. \A n \in Nat \ {0} : n = 1 \/ n > 1
    OBVIOUS
  <2> QED
    BY <1>2, <2>1
<1> QED
  BY <1>6, <1>7, <1>8, <1>9

(* What comes back to the question has led to nothing.                              *)
LEMMA ReturnsBottom == ASSUME Inv, FreshInv, BottomInv, Returns PROVE FreshInv' /\ BottomInv'
<1>1. /\ StateInv /\ FramesInv /\ ChainInv /\ LeftInv /\ stack \in Seq(Frames) /\ stack # <<>> /\ Len(stack) > 1
      /\ UNCHANGED <<program, resolved, question, visited>> /\ stack' = Tail(stack)
  BY DEF Inv, StateInv, Returns, Exhausted
<1>2. /\ Len(stack) \in Nat \ {0, 1} /\ Len(stack') = Len(stack) - 1 /\ stack' # <<>>
      /\ \A i \in 1..(Len(stack) - 1) : stack'[i] = stack[i + 1] /\ i + 1 \in 1..Len(stack)
  <2>1. Len(stack) \in Nat \ {0, 1}
    BY <1>1
  <2>2. Len(Tail(stack)) = Len(stack) - 1
    BY <1>1
  <2>3. \A i \in 1..(Len(stack) - 1) : Tail(stack)[i] = stack[i + 1] /\ i + 1 \in 1..Len(stack)
    BY <1>1
  <2>4. Len(stack) - 1 # 0
    BY <2>1
  <2>5. Tail(stack) # <<>>
    BY <2>2, <2>4
  <2> QED
    BY <1>1, <2>1, <2>2, <2>3, <2>5
<1>3. Bottom' = Bottom
  <2>1. Len(stack) - 1 \in 1..(Len(stack) - 1) /\ (Len(stack) - 1) + 1 = Len(stack)
    BY <1>2
  <2> QED
    BY <1>2, <2>1 DEF Bottom
<1>4. policy' = policy
  BY <1>1 DEF policy
<1>5. FreshInv'
  <2>1. \A i \in 1..(Len(stack') - 1) : i \in 1..(Len(stack) - 1) /\ i + 1 \in 1..(Len(stack) - 1)
    BY <1>2
  <2> QED
    BY <1>1, <1>2, <1>4, <2>1 DEF FreshInv, KeyOf
<1>6. ASSUME Len(stack') > 1 PROVE BottomInv'
  <2>1. Len(stack') - 1 \in 1..(Len(stack) - 1) /\ (Len(stack') - 1) + 1 = Len(stack) - 1
    BY <1>2, <1>6
  <2>2. KeyOf(stack'[Len(stack') - 1]) = KeyOf(stack[Len(stack) - 1])
    BY <1>2, <2>1
  <2> QED
    BY <1>1, <1>3, <1>6, <2>2, BottomStays
<1>7. ASSUME Len(stack') = 1 PROVE BottomInv'
  <2>1. Len(stack) = 2 /\ Len(stack) # 1 /\ Len(stack) - 1 = 1
    <3>1. Len(stack) \in Nat /\ 1 = Len(stack) - 1
      BY <1>2, <1>7
    <3> QED
      BY <3>1
  <2>2. PICK n \in 0..Len(Ways(question)) : TriedWays(n)
    BY <1>1, <2>1 DEF BottomInv
  <2>3. \A key \in visited : Barren(policy, key)
    <3>1. Done(KeyOf(stack[1]))
      BY <1>1, AllTried DEF Returns
    <3>2. \A i \in 1..(Len(stack) - 1) : i = 1
      BY <2>1
    <3>3. \A key \in visited : Done(key)
      BY <1>1, <3>1, <3>2 DEF LeftInv
    <3> QED
      BY <1>1, <3>3, DoneBarren DEF StateInv
  <2>4. /\ n > 0 /\ Ways(question)[n].kind = "follow" /\ KeyOf(stack[1]) = <<Ways(question)[n].file, Ways(question)[n].name>>
        /\ KeyOf(stack[1]) \in visited
    <3>1. 1 \in 1..(Len(stack) - 1)
      BY <2>1
    <3> QED
      BY <1>1, <2>1, <2>2, <3>1 DEF TriedWays, ChainInv
  <2>5. Fruitless(policy, Ways(question)[n])
    BY <2>3, <2>4 DEF Fruitless
  <2>6. \A k \in 1..n : Fruitless(policy, Ways(question)[k])
    <3>1. \A k \in 1..n : k < n \/ k = n
      OBVIOUS
    <3> QED
      BY <2>2, <2>5, <3>1 DEF TriedWays
  <2>7. Ways(question)' = Ways(question) /\ \A o : Fruitless(policy, o)' <=> Fruitless(policy, o)
    BY <1>1, <1>4, SameWays
  <2>8. ~(Len(stack') > 1)
    BY <1>7
  <2>9. TriedWays(n)'
    BY <1>3, <1>4, <2>2, <2>6, <2>7, <2>8 DEF TriedWays
  <2> QED
    BY <2>7, <2>9 DEF BottomInv
<1>8. Len(stack') = 1 \/ Len(stack') > 1
  BY <1>2
<1> QED
  BY <1>5, <1>6, <1>7, <1>8

(* What is in the cache stays there. *)
LEMMA SettledStays ==
  ASSUME program' = program, \A k \in CacheKeys : resolved[k] # None => resolved'[k] = resolved[k],
         ProgramInv, NEW q \in Question, NEW d \in Key, Settled(q, d)
  PROVE  Settled(q, d)'
<1>1. PICK j \in 1..Len(Ways(q)) :
        /\ Yields(q.policy, Ways(q)[j], d)
        /\ \A i \in 1..(j - 1) : Fruitless(q.policy, Ways(q)[i])
  BY DEF Settled
<1> DEFINE o == Ways(q)[j]
<1>2. o \in Direct
  <2>1. Ways(q) \in Seq(Direct)
    BY WaysType
  <2> QED
    BY <2>1
<1>3. Ways(q)' = Ways(q) /\ \A way : Fruitless(q.policy, way)' <=> Fruitless(q.policy, way)
  BY SameWays
<1>4. ASSUME NEW way \in Direct, Yields(q.policy, way, d) PROVE Yields(q.policy, way, d)'
  <2>1. way.file # None /\ way.kind = "follow" => <<q.policy, <<way.file, way.name>>>> \in CacheKeys
    BY DirectTypes DEF CacheKeys, Question
  <2>2. d # None
    BY ModuleAssumption DEF Key
  <2> QED
    BY <1>4, <2>1, <2>2 DEF Yields
<1> QED
  BY <1>1, <1>2, <1>3, <1>4 DEF Settled

(* An empty answer settles nothing. *)
LEMMA SameSettled ==
  ASSUME Inv, SettledInv, UNCHANGED <<program, resolved>>,
         \A t \in told' : t \in told \/ t.answer = None
  PROVE  SettledInv'
<1>1. ASSUME NEW t \in told, t.answer # None PROVE Settled(t.question, t.answer)'
  <2>1. t.question \in Question /\ t.answer \in Key /\ ProgramInv
    BY <1>1 DEF Inv, StateInv, ToldInv
  <2> QED
    BY <1>1, <2>1, SettledStays DEF SettledInv
<1> QED
  BY <1>1 DEF SettledInv

(* The answer that unwinds the stack is that of the way the question tried last.      *)
LEMMA FoundSettles ==
  ASSUME Inv, SettledInv, FreshInv, BottomInv, Trying, NEW d \in Key, Found(d),
         \/ First.kind = "declared" /\ d = Wanted
         \/ Follows /\ d = Cached
  PROVE  SettledInv' /\ FreshInv' /\ BottomInv'
<1>1. /\ StateInv /\ ToldInv /\ CacheInv /\ question \in Question /\ stack \in Seq(Frames) /\ stack # <<>> /\ stack' = <<>>
      /\ UNCHANGED <<program, question>> /\ ProgramInv
      /\ told' = told \cup {[question |-> question, answer |-> d]}
  BY DEF Inv, StateInv, Found, Trying
<1>2. FreshInv' /\ BottomInv'
  <2>1. 1..(Len(<<>>) - 1) = {}
    OBVIOUS
  <2> QED
    BY <1>1, <2>1 DEF FreshInv, BottomInv
<1> DEFINE filed(k) == \E i \in DOMAIN stack : stack[i].name # None /\ k = CacheKey(policy, <<stack[i].file, stack[i].name>>)
<1>3. resolved' = [k \in CacheKeys |-> IF filed(k) THEN d ELSE resolved[k]]
  BY DEF Found
<1>4. DOMAIN stack = 1..Len(stack) /\ Len(stack) \in Nat \ {0}
  BY <1>1
<1>5. ASSUME NEW k \in CacheKeys, filed(k) PROVE resolved[k] = None
  <2>1. PICK i \in DOMAIN stack : stack[i].name # None /\ k = CacheKey(policy, <<stack[i].file, stack[i].name>>)
    BY <1>5
  <2>2. i # Len(stack)
    BY <1>1, <1>4, <2>1 DEF StateInv
  <2>3. i \in 1..(Len(stack) - 1)
    BY <1>4, <2>1, <2>2
  <2> QED
    BY <2>1, <2>3 DEF FreshInv, CacheKey, KeyOf
<1>6. ASSUME NEW i \in 1..(Len(stack) - 1) PROVE filed(<<policy, KeyOf(stack[i])>>)
  <2>1. i \in DOMAIN stack /\ i # Len(stack)
    <3>1. \A n \in Nat \ {0} : \A k \in 1..(n - 1) : k \in 1..n /\ k # n
      OBVIOUS
    <3> QED
      BY <1>4, <3>1
  <2>2. stack[i].name # None
    BY <1>1, <1>4, <2>1 DEF StateInv
  <2> QED
    BY <2>1, <2>2 DEF CacheKey, KeyOf
<1> HIDE DEF filed
<1>7. \A k \in CacheKeys : resolved[k] # None => resolved'[k] = resolved[k]
  BY <1>3, <1>5
<1>8. policy \in Policy /\ d # None
  BY <1>1, ModuleAssumption DEF policy, Question, Key
<1>9. Ways(question) \in Seq(Direct)
  BY <1>1, WaysType
<1>10. Settled(question, d)'
  <2>1. PICK n \in 0..Len(Ways(question)) : TriedWays(n)
    <3>1. CASE Len(stack) = 1
      <4>1. First.kind # "local"
        BY DEF Follows
      <4> QED
        BY <1>1, <3>1, <4>1, Unopened
    <3>2. CASE Len(stack) # 1
      BY <1>1, <3>2 DEF BottomInv
    <3> QED
      BY <3>1, <3>2
  <2>2. question' = question /\ policy' = policy /\ program' = program
    BY <1>1 DEF policy
  <2>3. Ways(question)' = Ways(question) /\ \A o : Fruitless(policy, o)' <=> Fruitless(policy, o)
    BY <2>2, SameWays
  <2>4. \A o : \/ o.kind = "declared" /\ <<o.file, o.name>> = d
               \/ o.kind = "follow" /\ o.file # None /\ resolved'[<<policy, <<o.file, o.name>>>>] = d
               => Yields(policy, o, d)'
    BY <2>2 DEF Yields
  <2>5. PICK j \in 1..Len(Ways(question)) :
          /\ \A o : o = Ways(question)[j] => Yields(policy, o, d)'
          /\ \A i \in 1..(j - 1) : Fruitless(policy, Ways(question)[i])
    <3>1. CASE Len(stack) = 1
      <4>1. n + 1 \in 1..Len(Ways(question)) /\ First = Ways(question)[n + 1] /\ First \in Direct
        BY <1>1, <2>1, <3>1, NextWay
      <4>2. \A o : o = First => Yields(policy, o, d)'
        <5>1. CASE First.kind = "declared" /\ d = Wanted
          BY <2>4, <5>1 DEF Wanted
        <5>2. CASE Follows /\ d = Cached
          <6>1. First.kind = "follow" /\ First.file # None /\ <<policy, Wanted>> \in CacheKeys
            BY <1>8, <4>1, <5>2, DirectTypes DEF Follows, CacheKeys, Wanted
          <6>2. resolved[<<policy, Wanted>>] = d
            BY <5>2 DEF Cached, CacheKey
          <6>3. resolved'[<<policy, Wanted>>] = d
            BY <1>7, <1>8, <6>1, <6>2
          <6> QED
            BY <2>4, <6>1, <6>3 DEF Wanted
        <5> QED
          BY <5>1, <5>2
      <4>3. (n + 1) - 1 = n
        BY <1>9
      <4>4. \A i \in 1..n : Fruitless(policy, Ways(question)[i])
        BY <2>1, <3>1 DEF TriedWays
      <4> QED
        BY <4>1, <4>2, <4>3, <4>4
    <3>2. CASE Len(stack) > 1
      <4>1. /\ n > 0 /\ Ways(question)[n].kind = "follow" /\ Ways(question)[n].file # None
            /\ KeyOf(stack[Len(stack) - 1]) = <<Ways(question)[n].file, Ways(question)[n].name>>
            /\ \A k \in 1..n : k < n => Fruitless(policy, Ways(question)[k])
        BY <2>1, <3>2 DEF TriedWays
      <4>2. Len(stack) - 1 \in 1..(Len(stack) - 1) /\ n \in 1..Len(Ways(question)) /\ \A i \in 1..(n - 1) : i < n /\ i \in 1..n
        BY <1>4, <1>9, <3>2, <4>1
      <4>3. <<policy, KeyOf(stack[Len(stack) - 1])>> \in CacheKeys
        <5>1. Ways(question)[n] \in Direct
          BY <1>9, <4>2
        <5> QED
          BY <1>8, <4>1, <5>1, DirectTypes DEF CacheKeys
      <4>4. resolved'[<<policy, KeyOf(stack[Len(stack) - 1])>>] = d
        BY <1>3, <1>6, <4>2, <4>3
      <4>5. \A o : o = Ways(question)[n] => Yields(policy, o, d)'
        BY <2>4, <4>1, <4>4
      <4> QED
        BY <4>1, <4>2, <4>5
    <3>3. Len(stack) = 1 \/ Len(stack) > 1
      <4>1. \A m \in Nat \ {0} : m = 1 \/ m > 1
        OBVIOUS
      <4> QED
        BY <1>4, <4>1
    <3> QED
      BY <3>1, <3>2, <3>3
  <2> QED
    BY <2>2, <2>3, <2>5 DEF Settled, policy
<1>11. ASSUME NEW t \in told, t.answer # None PROVE Settled(t.question, t.answer)'
  <2>1. t.question \in Question /\ t.answer \in Key
    BY <1>1, <1>11 DEF ToldInv
  <2> QED
    BY <1>1, <1>7, <1>11, <2>1, SettledStays DEF SettledInv
<1>12. ASSUME NEW t \in told', t.answer # None PROVE Settled(t.question, t.answer)'
  <2>1. CASE t \in told
    BY <1>11, <1>12, <2>1
  <2>2. CASE t.question = question /\ t.answer = d
    <3>1. \A q : q = question => Settled(q, d)'
      BY <1>1, <1>10
    <3> QED
      BY <2>2, <3>1
  <2> QED
    BY <1>1, <2>1, <2>2
<1> QED
  BY <1>2, <1>12 DEF SettledInv

(* What a search goes on with is an export. *)
LEMMA FollowedIsExport ==
  ASSUME Inv, Trying, First.kind = "follow", First.file # None
  PROVE  Wanted \in Key /\ policy \in Policy
<1>1. stack \in Seq(Frames) /\ stack # <<>> /\ Top.rest # <<>> /\ question \in Question
  BY DEF Inv, StateInv, Trying
<1>2. First \in Alternative
  BY <1>1, TopTypes
<1> QED
  BY <1>1, <1>2 DEF Alternative, Wanted, Key, policy, Question

(* A question that was just asked has everything before it. *)
LEMMA AskSettles ==
  ASSUME Inv, SettledInv, NEW p \in Policy, NEW file \in Module, NEW name \in Name, NEW first,
         first = Follow(file, name) \/ first = Local(name), Ask(p, file, name, first)
  PROVE  SettledInv' /\ FreshInv' /\ BottomInv'
<1>1. /\ question' = [policy |-> p, file |-> file, first |-> first]
      /\ stack' = <<Frame(file, None, <<first>>)>> /\ UNCHANGED <<program, resolved, told>>
  BY DEF Ask
<1>2. /\ Len(stack') = 1 /\ stack'[1] = Frame(file, None, <<first>>) /\ question'.first = first
      /\ stack'[1].rest = <<first>> /\ Len(<<first>>) = 1 /\ 1..(1 - 1) = {} /\ ~(1 > 1)
  BY <1>1 DEF Frame
<1>3. SettledInv'
  BY <1>1, SameSettled
<1>4. FreshInv'
  BY <1>2 DEF FreshInv
<1>5. Bottom'.rest = <<first>>
  BY <1>2 DEF Bottom
<1>6. BottomInv'
  <2>1. CASE first.kind = "local"
    BY <1>2, <1>5, <2>1 DEF BottomInv
  <2>2. CASE first.kind # "local"
    <3>1. Ways(question)' = <<first>>
      BY <1>2, <2>2 DEF Ways
    <3>2. /\ Len(<<first>>) = Len(<<first>>) - 0 /\ 1..0 = {} /\ 0 \in 0..Len(<<first>>)
          /\ \A k \in 1..Len(<<first>>) : <<first>>[k] = <<first>>[0 + k]
      OBVIOUS
    <3>3. TriedWays(0)'
      BY <1>2, <1>5, <3>1, <3>2 DEF TriedWays
    <3> QED
      BY <3>1, <3>2, <3>3 DEF BottomInv
  <2> QED
    BY <2>1, <2>2
<1> QED
  BY <1>3, <1>4, <1>6

LEMMA InitAnswers == Init => AnswersInv
<1> SUFFICES ASSUME Init PROVE AnswersInv
  OBVIOUS
<1>1. 1..(Len(<<>>) - 1) = {}
  OBVIOUS
<1> QED
  BY <1>1, InitInv DEF Init, AnswersInv, SettledInv, FreshInv, BottomInv

(* The cases are the actions. *)
LEMMA NextAnswers == AnswersInv /\ [Next]_vars => AnswersInv'
<1> SUFFICES ASSUME AnswersInv, [Next]_vars PROVE AnswersInv'
  OBVIOUS
<1>0. Inv /\ SettledInv /\ FreshInv /\ BottomInv /\ Inv'
  BY NextInv DEF AnswersInv
<1>1. CASE Asked
  <2>1. PICK p \in Policy, ask \in Asks : Resolve(p, ask[1], ask[2]) \/ LocalSymbol(p, ask[1], ask[2])
    BY <1>1 DEF Asked
  <2>2. ask[1] \in Module /\ ask[2] \in Name
    BY QuestionAssumption
  <2> QED
    BY <1>0, <2>1, <2>2, AskSettles DEF Resolve, LocalSymbol, AnswersInv
<1>2. CASE Opens
  <2>1. UNCHANGED <<program, resolved>> /\ told' = told
    BY <1>2 DEF Opens
  <2> QED
    BY <1>0, <1>2, <2>1, OpensBottom, SameSettled DEF AnswersInv
<1>3. CASE FindsDeclaration
  <2>1. Trying /\ First.kind = "declared"
    BY <1>3 DEF FindsDeclaration
  <2>2. Found(Wanted)
    BY <1>3 DEF FindsDeclaration
  <2>3. Wanted \in Key
    <3>1. stack \in Seq(Frames)
      BY <1>0 DEF Inv, StateInv
    <3>2. First \in Alternative
      BY <2>1, <3>1, TopTypes
    <3> QED
      BY <2>1, <3>2 DEF Alternative, Wanted, Key
  <2> QED
    BY <1>0, <2>1, <2>2, <2>3, FoundSettles DEF AnswersInv
<1>4. CASE Recalls
  <2>1. Follows /\ Trying /\ First.kind = "follow" /\ First.file # None /\ Cached # None /\ Found(Cached)
    BY <1>4 DEF Recalls, Follows
  <2>2. Cached \in Key
    <3>1. Wanted \in Key /\ policy \in Policy
      BY <1>0, <2>1, FollowedIsExport
    <3> QED
      BY <1>0, <2>1, <3>1 DEF Inv, CacheInv, Cached, CacheKey, CacheKeys
  <2> QED
    BY <1>0, <2>1, <2>2, FoundSettles DEF AnswersInv
<1>5. CASE Skips
  <2>1. UNCHANGED <<program, resolved>> /\ told' = told
    BY <1>5 DEF Skips
  <2> QED
    BY <1>0, <1>5, <2>1, SkipsBottom, SameSettled DEF AnswersInv
<1>6. CASE Enters
  <2>1. UNCHANGED <<program, resolved>> /\ told' = told
    BY <1>6 DEF Enters
  <2> QED
    BY <1>0, <1>6, <2>1, EntersBottom, SameSettled DEF AnswersInv
<1>7. CASE Returns
  <2>1. UNCHANGED <<program, resolved>> /\ told' = told
    BY <1>7 DEF Returns
  <2> QED
    BY <1>0, <1>7, <2>1, ReturnsBottom, SameSettled DEF AnswersInv
<1>8. CASE Answers
  <2>1. /\ UNCHANGED <<program, resolved>> /\ stack' = <<>> /\ 1..(Len(<<>>) - 1) = {}
        /\ \A t \in told' : t \in told \/ t.answer = None
    BY <1>8 DEF Answers
  <2>2. FreshInv' /\ BottomInv'
    BY <2>1 DEF FreshInv, BottomInv
  <2> QED
    BY <1>0, <2>1, <2>2, SameSettled DEF AnswersInv
<1>9. CASE UNCHANGED vars
  <2>1. program' = program /\ resolved' = resolved /\ question' = question /\ stack' = stack /\ told' = told
    BY <1>9 DEF vars
  <2>2. policy' = policy /\ Bottom' = Bottom
    BY <2>1 DEF policy, Bottom
  <2>3. Ways(question)' = Ways(question) /\ \A o : Fruitless(policy, o)' <=> Fruitless(policy, o)
    BY <2>1, <2>2, SameWays
  <2>4. \A n : TriedWays(n)' <=> TriedWays(n)
    BY <2>1, <2>2, <2>3 DEF TriedWays, KeyOf
  <2>5. BottomInv'
    BY <1>0, <2>1, <2>2, <2>3, <2>4 DEF BottomInv
  <2>6. FreshInv'
    BY <1>0, <2>1, <2>2 DEF FreshInv, KeyOf
  <2> QED
    BY <1>0, <2>1, <2>5, <2>6, SameSettled DEF AnswersInv
<1> QED
  BY <1>1, <1>2, <1>3, <1>4, <1>5, <1>6, <1>7, <1>8, <1>9 DEF Next

(* Two answers are settled at the same way, and the cache has one declaration for it. *)
LEMMA SettledOnce ==
  ASSUME Inv, NEW q \in Question, NEW d \in Key, NEW other \in Key, Settled(q, d), Settled(q, other)
  PROVE  d = other
<1>1. CacheInv /\ ProgramInv /\ q.policy \in Policy
  BY DEF Inv, StateInv, Question
<1>2. Ways(q) \in Seq(Direct)
  BY <1>1, WaysType
<1>3. PICK j \in 1..Len(Ways(q)) :
        Yields(q.policy, Ways(q)[j], d) /\ \A i \in 1..(j - 1) : Fruitless(q.policy, Ways(q)[i])
  BY DEF Settled
<1>4. PICK k \in 1..Len(Ways(q)) :
        Yields(q.policy, Ways(q)[k], other) /\ \A i \in 1..(k - 1) : Fruitless(q.policy, Ways(q)[i])
  BY DEF Settled
<1>5. Ways(q)[j] \in Direct /\ Ways(q)[k] \in Direct
  BY <1>2
<1>6. j \in 1..(k - 1) \/ k \in 1..(j - 1) \/ j = k
  <2>1. Len(Ways(q)) \in Nat
    BY <1>2
  <2>2. \A n \in Nat : \A x, y \in 1..n : x \in 1..(y - 1) \/ y \in 1..(x - 1) \/ x = y
    OBVIOUS
  <2> QED
    BY <2>1, <2>2
<1>7. j = k
  BY <1>1, <1>3, <1>4, <1>5, <1>6, FruitlessYieldsNothing
<1> QED
  BY <1>3, <1>4, <1>7 DEF Yields

(* Of two answers to a question, neither or both are empty. *)
LEMMA AnswersInvImpliesStay == AnswersInv => AnswersStay
<1> SUFFICES ASSUME AnswersInv, NEW one \in told, NEW other \in told, one.question = other.question
             PROVE  one = other
  BY DEF AnswersStay
<1>1. /\ Inv /\ ToldInv /\ SettledInv
      /\ one \in [question : Question, answer : Key \cup {None}]
      /\ other \in [question : Question, answer : Key \cup {None}]
  BY DEF AnswersInv, Inv, ToldInv
<1>2. \A q, d : Reaches(q, d) => ~ReachesNone(q)
  BY DEF Reaches, ReachesNone
<1>3. one.answer = None <=> other.answer = None
  BY <1>1, <1>2 DEF ToldInv
<1>4. ASSUME one.answer # None PROVE one.answer = other.answer
  <2>1. one.answer \in Key /\ other.answer \in Key /\ one.question \in Question
    BY <1>1, <1>3, <1>4
  <2>2. Settled(one.question, one.answer) /\ Settled(one.question, other.answer)
    BY <1>1, <1>3, <1>4 DEF SettledInv
  <2> QED
    BY <1>1, <2>1, <2>2, SettledOnce
<1> QED
  BY <1>1, <1>3, <1>4

(* A question has one answer, however often it is asked: the first of its ways that     *)
(* leads to a declaration does so for good, and what the cache has for it stays.      *)
THEOREM AnswersDoNotChange == Spec => []AnswersStay
<1>1. Spec => []AnswersInv
  BY InitAnswers, NextAnswers, PTL DEF Spec
<1> QED
  BY <1>1, AnswersInvImpliesStay, PTL
-----------------------------------------------------------------------------
(* CompositionDepth.                                                              *)

(* A class with all that it reaches and that reach it. *)
Strong(key) == {k \in Reachable(key) : key \in Reachable(k)}

(* A class of the same component comes last of all that a class reaches.             *)
Topped(key) ==
  \E i \in 1..Len(order) : order[i] \in Strong(key) /\ Reachable(key) \subseteq {order[j] : j \in 1..i}

KeyAt(i) == pending[i].key
Grey == {i \in 1..Len(pending) : pending[i].expanded}

(* While the classes are put in order: a class that was seen is in the order or is    *)
(* expanded, and leads to what is above it; what a class in the order reaches is in   *)
(* the order too, below one of its component, unless one of these is expanded.       *)
PostTypes ==
  /\ pending \in Seq([key : Classes, expanded : BOOLEAN]) /\ components = <<>>
SeenInv ==
  /\ seen = {KeyAt(i) : i \in Grey} \cup Range(order)
  /\ \A i \in Grey : KeyAt(i) \notin Range(order) /\ \A j \in Grey : KeyAt(i) = KeyAt(j) => i = j
  /\ Classes = seen \cup Range(todo) \cup {KeyAt(i) : i \in 1..Len(pending)}
EdgesInv ==
  /\ \A i \in Grey : Range(graph[KeyAt(i)]) \subseteq seen \cup {KeyAt(j) : j \in (i + 1)..Len(pending)}
  /\ \A k \in Range(order) : Range(graph[k]) \subseteq seen
PathInv == \A i \in Grey : \A j \in (i + 1)..Len(pending) : KeyAt(j) \in Reachable(KeyAt(i))
ToppedInv == \A k \in Range(order) : Topped(k) \/ \E i \in Grey : KeyAt(i) \in Strong(k)
PostInv == pc = "postorder" => PostTypes /\ SeenInv /\ EdgesInv /\ PathInv /\ ToppedInv

(* Then every class is in the order, once, and below one of its component.          *)
OrderInv ==
  /\ order \in Seq(Classes) /\ IsInjective(order)
  /\ pc # "postorder" => Range(order) = Classes /\ \A k \in Classes : Topped(k)

(* While the components are collected: those that are complete are components, and    *)
(* contain all that was begun with; the last is part of that of its first class, and  *)
(* what leads to it is seen, or waits to be.                                       *)
Root == order[Len(todo) + 1]
Complete == {i \in 1..Len(components) : pending = <<>> \/ i < Len(components)}
Earlier == UNION {components[i] : i \in Complete}
PartsInv ==
  /\ \A i \in 1..Len(components) : i \in Complete => \E k \in Classes : components[i] = Strong(k)
  /\ \A i, j \in 1..Len(components) : components[i] \cap components[j] # {} => i = j
  /\ seen = UNION {components[i] : i \in 1..Len(components)}
BegunInv ==
  /\ Len(todo) <= Len(order) /\ \A i \in 1..Len(todo) : todo[i] = order[Len(todo) + 1 - i]
  /\ \A i \in (Len(todo) + 1)..Len(order) : order[i] \in Earlier \/ (pending # <<>> /\ i = Len(todo) + 1)
PartInv ==
  pending # <<>> =>
    LET part == components[Len(components)]
    IN  /\ Len(todo) < Len(order) /\ Len(components) > 0
        /\ Root \in part \cup Range(pending) /\ part \subseteq Strong(Root) /\ Root \notin Earlier
        /\ Range(pending) \subseteq Strong(Root) \cup Earlier
        /\ \A k \in Classes : Range(graph[k]) \cap part # {} => k \in seen \cup Range(pending)
CollectInv == pc = "components" => pending \in Seq(Classes) /\ PartsInv /\ BegunInv /\ PartInv

ComponentsInv ==
  pc \notin {"postorder", "components"} =>
    /\ pending = <<>> /\ Range(components) = {Strong(k) : k \in Classes} /\ IsInjective(components)

GraphInv == graph \in Graph /\ pc \in {"postorder", "components", "sources", "search", "names"}
  /\ todo \in Seq(Classes) /\ seen \subseteq Classes /\ components \in Seq(SUBSET Classes)

(* A set of numbers that is not empty has a least one. *)
LEMMA SmallestOf ==
  ASSUME NEW T \in SUBSET Nat, T # {}
  PROVE  \E m \in T : \A k \in T : m <= k
<1>1. PICK m \in T : \A k \in T : <<k, m>> \notin OpToRel(<, Nat)
  BY NatLessThanWellFounded, WFMin
<1>2. ASSUME NEW k \in T PROVE m <= k
  <2>1. k \in Nat /\ m \in Nat /\ ~(k < m)
    BY <1>1 DEF OpToRel
  <2> QED
    BY <2>1
<1> QED
  BY <1>2

(* What is kept of the first n of a sequence, as far as the definition of Only goes. *)
KeptTo(s, S, n, g) ==
  g = [i \in 0..n |-> IF i = 0 THEN <<>> ELSE IF s[i] \in S THEN Append(g[i - 1], s[i]) ELSE g[i - 1]]

(* There is such a function, so that Only has what its definition says. *)
LEMMA KeptExists ==
  ASSUME NEW s, NEW S, NEW n \in Nat
  PROVE  \E g : KeptTo(s, S, n, g)
<1> DEFINE T == {m \in Nat : ~\E g : KeptTo(s, S, m, g)}
<1>1. SUFFICES ASSUME T # {} PROVE FALSE
  OBVIOUS
<1>2. PICK m \in T : \A k \in T : m <= k
  BY <1>1, SmallestOf
<1>3. CASE m = 0
  <2>1. KeptTo(s, S, 0, [i \in 0..0 |-> <<>>])
    BY DEF KeptTo
  <2> QED
    BY <1>2, <1>3, <2>1
<1>4. CASE m # 0
  <2>1. m - 1 \in Nat /\ m - 1 \notin T /\ m \in Nat
    BY <1>2, <1>4
  <2>2. PICK g : KeptTo(s, S, m - 1, g)
    BY <2>1
  <2> DEFINE h == [i \in 0..m |-> IF i < m THEN g[i] ELSE IF s[m] \in S THEN Append(g[m - 1], s[m]) ELSE g[m - 1]]
  <2>3. \A i \in 0..(m - 1) : g[i] = IF i = 0 THEN <<>> ELSE IF s[i] \in S THEN Append(g[i - 1], s[i]) ELSE g[i - 1]
    BY <2>2 DEF KeptTo
  <2>4. ASSUME NEW i \in 0..m
        PROVE  h[i] = IF i = 0 THEN <<>> ELSE IF s[i] \in S THEN Append(h[i - 1], s[i]) ELSE h[i - 1]
    <3>1. CASE i < m
      <4>1. i \in 0..(m - 1) /\ h[i] = g[i] /\ (i # 0 => h[i - 1] = g[i - 1])
        BY <2>1, <3>1
      <4> QED
        BY <2>3, <4>1
    <3>2. CASE i = m
      <4>1. m - 1 \in 0..m /\ m - 1 < m /\ m \in 0..m /\ ~(m < m)
        BY <2>1
      <4>2. h[m - 1] = g[m - 1] /\ h[m] = IF s[m] \in S THEN Append(g[m - 1], s[m]) ELSE g[m - 1]
        BY <4>1
      <4> QED
        BY <1>4, <3>2, <4>2
    <3> QED
      BY <2>1, <3>1, <3>2
  <2>5. KeptTo(s, S, m, h)
    <3> HIDE DEF h
    <3>1. h = [i \in 0..m |-> h[i]]
      BY DEF h
    <3> QED
      BY <2>4, <3>1 DEF KeptTo
  <2> QED
    BY <1>2, <2>5
<1> QED
  BY <1>3, <1>4

(* A sequence of what is both in the sequence and in the set. *)
LEMMA OnlyThose ==
  ASSUME NEW D, NEW s \in Seq(D), NEW S
  PROVE  Only(s, S) \in Seq(D) /\ Range(Only(s, S)) = Range(s) \cap S
<1>1. Len(s) \in Nat /\ \A i \in 1..Len(s) : s[i] \in D
  OBVIOUS
<1>2. PICK g : KeptTo(s, S, Len(s), g) /\ Only(s, S) = g[Len(s)]
  <2>1. \E g : KeptTo(s, S, Len(s), g)
    BY <1>1, KeptExists
  <2> QED
    BY <2>1 DEF Only, KeptTo
<1>3. \A i \in 0..Len(s) : g[i] = IF i = 0 THEN <<>> ELSE IF s[i] \in S THEN Append(g[i - 1], s[i]) ELSE g[i - 1]
  BY <1>2 DEF KeptTo
<1> DEFINE Good(i) == g[i] \in Seq(D) /\ Range(g[i]) = {s[j] : j \in 1..i} \cap S
           T == {i \in 0..Len(s) : ~Good(i)}
<1> HIDE DEF Good
<1>4. ASSUME T # {} PROVE FALSE
  <2>1. PICK m \in T : \A k \in T : m <= k
    <3>1. T \in SUBSET Nat
      OBVIOUS
    <3> HIDE DEF T
    <3> QED
      BY <1>4, <3>1, SmallestOf
  <2>2. CASE m = 0
    <3>1. g[0] = <<>>
      BY <1>1, <1>3
    <3>2. Range(<<>>) = {} /\ 1..0 = {} /\ <<>> \in Seq(D)
      BY DEF Range
    <3> QED
      BY <2>1, <2>2, <3>1, <3>2 DEF Good
  <2>3. CASE m # 0
    <3>1. m \in 1..Len(s) /\ m - 1 \in 0..Len(s) /\ ~(m <= m - 1) /\ s[m] \in D
      BY <1>1, <2>1, <2>3
    <3>2. g[m - 1] \in Seq(D) /\ Range(g[m - 1]) = {s[j] : j \in 1..(m - 1)} \cap S
      BY <2>1, <3>1 DEF Good
    <3>3. 1..m = 1..(m - 1) \cup {m}
      BY <3>1
    <3>4. g[m] = IF s[m] \in S THEN Append(g[m - 1], s[m]) ELSE g[m - 1]
      BY <1>3, <2>1, <2>3
    <3>5. ASSUME NEW t \in Seq(D) PROVE Append(t, s[m]) \in Seq(D) /\ Range(Append(t, s[m])) = Range(t) \cup {s[m]}
      <4>1. t \o <<s[m]>> = Append(t, s[m]) /\ <<s[m]>> \in Seq(D) /\ Range(<<s[m]>>) = {s[m]}
        BY <3>1 DEF Range
      <4>2. t \o <<s[m]>> \in Seq(D) /\ Range(t \o <<s[m]>>) = Range(t) \cup Range(<<s[m]>>)
        BY <4>1, RangeOfConcat
      <4> QED
        BY <4>1, <4>2
    <3>6. Good(m)
      <4>1. {s[j] : j \in 1..m} = {s[j] : j \in 1..(m - 1)} \cup {s[m]}
        BY <3>3
      <4> QED
        BY <3>2, <3>4, <3>5, <4>1 DEF Good
    <3> QED
      BY <2>1, <3>6
  <2> QED
    BY <2>2, <2>3
<1>5. Good(Len(s))
  BY <1>1, <1>4
<1> QED
  BY <1>2, <1>5, RangeOfSeq DEF Good

(* The elements of a sequence with another after it, and of one without its last. *)
LEMMA ConcatShape ==
  ASSUME NEW D, NEW s \in Seq(D), NEW t \in Seq(D)
  PROVE  /\ s \o t \in Seq(D) /\ Len(s \o t) = Len(s) + Len(t)
         /\ \A i \in 1..Len(s) : (s \o t)[i] = s[i]
         /\ \A i \in 1..Len(t) : (s \o t)[Len(s) + i] = t[i]
  OBVIOUS

LEMMA FrontShape ==
  ASSUME NEW D, NEW s \in Seq(D), s # <<>>
  PROVE  /\ Len(s) \in Nat \ {0} /\ Seqs!Front(s) \in Seq(D) /\ Len(Seqs!Front(s)) = Len(s) - 1
         /\ \A i \in 1..(Len(s) - 1) : Seqs!Front(s)[i] = s[i]
         /\ Seqs!Last(s) = s[Len(s)] /\ Seqs!Last(s) \in D
         /\ Range(s) = Range(Seqs!Front(s)) \cup {Seqs!Last(s)}
<1>1. Len(s) \in Nat \ {0} /\ Seqs!Last(s) = s[Len(s)] /\ Seqs!Last(s) \in D
  BY DEF Seqs!Last
<1>2. /\ Seqs!Front(s) \in Seq(D) /\ Len(Seqs!Front(s)) = Len(s) - 1
      /\ \A i \in 1..(Len(s) - 1) : Seqs!Front(s)[i] = s[i]
  <2>1. Seqs!Front(s) = SubSeq(s, 1, Len(s) - 1)
    BY DEF Seqs!Front
  <2>2. 1 \in 1..Len(s) /\ Len(s) - 1 \in 0..Len(s) /\ (Len(s) - 1) + 1 - 1 = Len(s) - 1
    BY <1>1
  <2>3. SubSeq(s, 1, Len(s) - 1) \in Seq(D)
    BY <1>1, <2>2
  <2>4. Len(SubSeq(s, 1, Len(s) - 1)) = Len(s) - 1
    BY <1>1, <2>2
  <2>5. \A i \in 1..(Len(s) - 1) : SubSeq(s, 1, Len(s) - 1)[i] = s[i]
    BY <1>1, <2>2
  <2> QED
    BY <2>1, <2>3, <2>4, <2>5
<1>3. 1..Len(s) = 1..(Len(s) - 1) \cup {Len(s)}
  BY <1>1
<1>4. Range(s) = {s[i] : i \in 1..Len(s)} /\ Range(Seqs!Front(s)) = {Seqs!Front(s)[i] : i \in 1..(Len(s) - 1)}
  BY <1>2, RangeOfSeq
<1> QED
  BY <1>1, <1>2, <1>3, <1>4

(* A sequence is one over any set that all its elements are in. *)
LEMMA SeqOfRange ==
  ASSUME NEW D, NEW s \in Seq(D), NEW R, Range(s) \subseteq R
  PROVE  s \in Seq(R)
<1>1. Len(s) \in Nat /\ s = [i \in 1..Len(s) |-> s[i]] /\ \A i \in 1..Len(s) : s[i] \in R
  BY RangeOfSeq
<1> QED
  BY <1>1

(* The dependencies of a class are classes of the graph. *)
LEMMA GraphTypes ==
  ASSUME graph \in Graph
  PROVE  /\ Classes \subseteq Class /\ Class \subseteq Nat /\ Nothing \notin Classes
         /\ \A k \in Classes : graph[k] \in Seq(Classes) /\ Range(graph[k]) \subseteq Classes
<1>1. Classes \subseteq Class /\ graph \in [Classes -> Seq(Classes)]
  BY GraphAssumption DEF Classes
<1>2. Class \subseteq Nat /\ Nothing \notin Class
  BY OrderAssumption, RangeOfSeq DEF Class
<1>3. \A k \in Classes : graph[k] \in Seq(Classes)
  BY <1>1
<1>4. \A k \in Classes : Range(graph[k]) \subseteq Classes
  BY <1>3, RangeOfSeq
<1> QED
  BY <1>1, <1>2, <1>3, <1>4

(* The keys are all the classes; what leads to a class are all that depend on it. *)
LEMMA KeysTypes ==
  ASSUME graph \in Graph
  PROVE  /\ Keys \in Seq(Classes) /\ Range(Keys) = Classes
         /\ \A k \in Classes :
              /\ Predecessors(k) \in Seq(Classes)
              /\ Range(Predecessors(k)) = {j \in Classes : k \in Range(graph[j])}
<1>1. Order \in Seq(Nat) /\ Range(Order) = Class
  BY OrderAssumption DEF Class
<1>2. Keys \in Seq(Nat) /\ Range(Keys) = Range(Order) \cap Classes
  BY <1>1, OnlyThose DEF Keys
<1>3. Range(Keys) = Classes
  BY <1>1, <1>2, GraphTypes
<1>4. Keys \in Seq(Classes)
  BY <1>2, <1>3, SeqOfRange
<1>5. ASSUME NEW k \in Classes
      PROVE  Predecessors(k) \in Seq(Classes) /\ Range(Predecessors(k)) = {j \in Classes : k \in Range(graph[j])}
  <2>1. Predecessors(k) \in Seq(Classes) /\ Range(Predecessors(k)) = Range(Keys) \cap {j \in Classes : k \in Range(graph[j])}
    BY <1>4, OnlyThose DEF Predecessors
  <2> QED
    BY <1>3, <2>1
<1> QED
  BY <1>3, <1>4, <1>5

(* What reaches what: the least set that has all that its classes depend on.        *)
LEMMA ReachesItself == ASSUME NEW k \in Classes PROVE k \in Reachable(k) /\ k \in Strong(k)
  BY DEF Reachable, Strong

LEMMA ReachesNext ==
  ASSUME graph \in Graph, NEW k, NEW c \in Reachable(k), NEW d \in Range(graph[c])
  PROVE  d \in Reachable(k)
<1>1. c \in Classes /\ d \in Classes
  BY GraphTypes DEF Reachable
<1> QED
  BY <1>1 DEF Reachable

LEMMA ReachesAll ==
  ASSUME NEW k, NEW S \in SUBSET Classes, k \in S, \A c \in S : Range(graph[c]) \subseteq S
  PROVE  Reachable(k) \subseteq S
  BY DEF Reachable

LEMMA ReachesOn ==
  ASSUME graph \in Graph, NEW a, NEW b \in Reachable(a)
  PROVE  Reachable(b) \subseteq Reachable(a)
<1>1. Reachable(a) \in SUBSET Classes /\ \A c \in Reachable(a) : Range(graph[c]) \subseteq Reachable(a)
  BY ReachesNext DEF Reachable
<1> QED
  BY <1>1, ReachesAll

(* Classes of one component. *)
LEMMA StrongClasses ==
  ASSUME graph \in Graph, NEW a \in Classes, NEW b \in Strong(a)
  PROVE  b \in Classes /\ Reachable(b) = Reachable(a) /\ Strong(b) = Strong(a) /\ a \in Strong(b)
<1>1. b \in Reachable(a) /\ a \in Reachable(b) /\ b \in Classes
  BY DEF Strong, Reachable
<1>2. Reachable(b) = Reachable(a)
  BY <1>1, ReachesOn
<1>3. \A k : k \in Strong(b) <=> k \in Strong(a)
  <2>1. ASSUME NEW k \in Reachable(a) PROVE b \in Reachable(k) <=> a \in Reachable(k)
    BY <1>1, ReachesOn
  <2> QED
    BY <1>2, <2>1 DEF Strong
<1> QED
  BY <1>1, <1>2, <1>3 DEF Strong

LEMMA SameReach ==
  ASSUME graph' = graph
  PROVE  /\ Classes' = Classes
         /\ \A k : Reachable(k)' = Reachable(k) /\ Strong(k)' = Strong(k)
  BY DEF Classes, Reachable, Strong

PostAll == GraphInv /\ OrderInv /\ pc = "postorder" /\ PostTypes /\ SeenInv /\ EdgesInv /\ PathInv /\ ToppedInv
PostEntry == [key : Classes, expanded : BOOLEAN]

(* As long as nothing is collected, the rest of the invariant says nothing. *)
LEMMA StillPost ==
  ASSUME PostAll', Range(todo)' \subseteq Classes'
  PROVE  (GraphInv /\ PostInv /\ OrderInv /\ CollectInv /\ ComponentsInv)'
  BY DEF PostAll, PostInv, CollectInv, ComponentsInv

(* An entry of the stack is a class of the graph. *)
LEMMA PendingTypes ==
  ASSUME PostTypes
  PROVE  /\ Len(pending) \in Nat /\ \A i \in 1..Len(pending) : pending[i] \in PostEntry /\ KeyAt(i) \in Classes
         /\ Grey \subseteq 1..Len(pending)
<1>1. pending \in Seq(PostEntry)
  BY DEF PostTypes, PostEntry
<1>2. Len(pending) \in Nat /\ \A i \in 1..Len(pending) : pending[i] \in PostEntry
  BY <1>1
<1>3. \A i \in 1..Len(pending) : KeyAt(i) \in Classes
  BY <1>2 DEF KeyAt, PostEntry
<1> QED
  BY <1>2, <1>3 DEF Grey

(* A class that the traversal begins with is all there is on the stack. *)
LEMMA PostBegins == ASSUME PostAll, StartsPostorder PROVE PostAll'
<1>1. /\ graph' = graph /\ pc' = pc /\ seen' = seen /\ order' = order /\ components' = components
      /\ pending = <<>> /\ todo # <<>> /\ pending' = <<Entry(Head(todo), FALSE)>> /\ todo' = Tail(todo)
  BY DEF StartsPostorder
<1>2. todo \in Seq(Classes) /\ Classes' = Classes
  BY <1>1, SameReach DEF PostAll, GraphInv
<1>3. Head(todo) = todo[1] /\ todo[1] \in Classes /\ Tail(todo) \in Seq(Classes) /\ Range(todo) = {todo[1]} \cup Range(Tail(todo))
  BY <1>1, <1>2, RangeOfTail
<1>4. /\ pending' \in Seq(PostEntry) /\ Len(pending') = 1 /\ pending'[1].key = todo[1] /\ pending'[1].expanded = FALSE
      /\ 1..1 = {1}
  BY <1>1, <1>3 DEF Entry, PostEntry
<1>5. Grey = {} /\ Grey' = {} /\ 1..Len(pending) = {} /\ {KeyAt(i) : i \in 1..Len(pending)}' = {todo[1]}
  <2>1. Len(pending) = 0 /\ 1..0 = {}
    BY <1>1
  <2>2. Grey = {} /\ 1..Len(pending) = {}
    BY <2>1 DEF Grey
  <2>3. Grey' = {}
    BY <1>4 DEF Grey
  <2>4. {KeyAt(i) : i \in 1..Len(pending)}' = {pending'[i].key : i \in {1}}
    BY <1>4 DEF KeyAt
  <2> QED
    BY <1>4, <2>2, <2>3, <2>4
<1>6. GraphInv' /\ OrderInv'
  BY <1>1, <1>2, <1>3 DEF PostAll, GraphInv, OrderInv
<1>7. PostTypes'
  BY <1>1, <1>2, <1>4 DEF PostAll, PostTypes, PostEntry
<1>8. SeenInv'
  BY <1>1, <1>2, <1>3, <1>5 DEF PostAll, SeenInv
<1>9. EdgesInv' /\ PathInv'
  BY <1>1, <1>5 DEF PostAll, EdgesInv, PathInv
<1>10. ToppedInv'
  BY <1>1, <1>5, SameReach DEF PostAll, ToppedInv, Topped
<1> QED
  BY <1>1, <1>6, <1>7, <1>8, <1>9, <1>10 DEF PostAll

(* What is left when the top is gone. *)
LEMMA PendingFront ==
  ASSUME PostTypes, pending # <<>>, pending' = Seqs!Front(pending), graph' = graph, components' = components
  PROVE  /\ Len(pending) \in Nat \ {0} /\ Len(pending') = Len(pending) - 1 /\ PostTypes'
         /\ \A i \in 1..(Len(pending) - 1) : KeyAt(i)' = KeyAt(i) /\ i \in 1..Len(pending)
         /\ Grey' = Grey \ {Len(pending)} /\ Grey \ {Len(pending)} \subseteq 1..(Len(pending) - 1)
         /\ Seqs!Last(pending) = pending[Len(pending)] /\ KeyAt(Len(pending)) \in Classes
<1>1. pending \in Seq(PostEntry)
  BY DEF PostTypes, PostEntry
<1>2. /\ Len(pending) \in Nat \ {0} /\ pending' \in Seq(PostEntry) /\ Len(pending') = Len(pending) - 1
      /\ \A i \in 1..(Len(pending) - 1) : pending'[i] = pending[i]
      /\ Seqs!Last(pending) = pending[Len(pending)] /\ Seqs!Last(pending) \in PostEntry
  BY <1>1, FrontShape
<1>3. 1..Len(pending) = 1..(Len(pending) - 1) \cup {Len(pending)} /\ Len(pending) \notin 1..(Len(pending) - 1)
  BY <1>2
<1>4. \A i \in 1..(Len(pending) - 1) : KeyAt(i)' = KeyAt(i) /\ i \in 1..Len(pending)
  BY <1>2, <1>3 DEF KeyAt
<1>5. Grey' = Grey \ {Len(pending)} /\ Grey \ {Len(pending)} \subseteq 1..(Len(pending) - 1)
  BY <1>2, <1>3 DEF Grey
<1>6. PostTypes'
  BY <1>2, SameReach DEF PostTypes, PostEntry
<1> QED
  BY <1>2, <1>4, <1>5, <1>6 DEF KeyAt, PostEntry

(* What was seen before is taken from the stack and nothing is forgotten. *)
LEMMA PostSkips == ASSUME PostAll, SeenBefore PROVE PostAll'
<1> DEFINE n == Len(pending)
<1>1. /\ UNCHANGED <<graph, pc, todo, seen, order, components>> /\ pending # <<>>
      /\ pending' = Seqs!Front(pending) /\ ~Seqs!Last(pending).expanded /\ Seqs!Last(pending).key \in seen
  BY DEF SeenBefore
<1>2. /\ n \in Nat \ {0} /\ Len(pending') = n - 1 /\ PostTypes'
      /\ \A i \in 1..(n - 1) : KeyAt(i)' = KeyAt(i) /\ i \in 1..n
      /\ Grey' = Grey \ {n} /\ Grey \ {n} \subseteq 1..(n - 1)
      /\ Seqs!Last(pending) = pending[n]
  BY <1>1, PendingFront DEF PostAll
<1>3. Grey' = Grey /\ KeyAt(n) \in seen /\ \A i \in Grey : i \in 1..(n - 1) /\ KeyAt(i)' = KeyAt(i)
  BY <1>1, <1>2 DEF Grey, KeyAt
<1> HIDE DEF n
<1>4. \A i \in Nat : \A j \in (i + 1)..n : j = n \/ j \in (i + 1)..(n - 1)
  BY <1>2
<1>5. \A i \in 1..n : i = n \/ i \in 1..(n - 1)
  BY <1>2
<1>6. GraphInv' /\ OrderInv'
  BY <1>1, SameReach DEF PostAll, GraphInv, OrderInv
<1>7. SeenInv'
  <2>1. {KeyAt(i) : i \in Grey}' = {KeyAt(i) : i \in Grey}
    BY <1>3
  <2>2. \A k \in {KeyAt(i) : i \in 1..n} : k \in seen \/ k \in {KeyAt(i) : i \in 1..Len(pending)}'
    <3>1. \A i \in 1..n : KeyAt(i) \in seen \/ (i \in 1..Len(pending') /\ KeyAt(i)' = KeyAt(i))
      BY <1>2, <1>3, <1>5
    <3> QED
      BY <3>1
  <2>3. {KeyAt(i) : i \in 1..Len(pending)}' \subseteq {KeyAt(i) : i \in 1..n}
    BY <1>2
  <2>4. Classes' = Classes
    BY <1>1, SameReach
  <2> QED
    BY <1>1, <1>2, <1>3, <2>1, <2>2, <2>3, <2>4 DEF PostAll, SeenInv, n
<1>8. EdgesInv'
  <2>1. ASSUME NEW i \in Grey, NEW d \in Range(graph[KeyAt(i)])
        PROVE  d \in seen \/ d \in {KeyAt(j) : j \in (i + 1)..Len(pending)}'
    <3>1. d \in seen \/ \E j \in (i + 1)..n : d = KeyAt(j)
      BY <2>1 DEF PostAll, EdgesInv, n
    <3>2. \A j \in (i + 1)..(n - 1) : j \in 1..(n - 1)
      BY <1>2, <1>3
    <3>3. i \in Nat
      BY <1>3
    <3> QED
      BY <1>2, <1>3, <1>4, <3>1, <3>2, <3>3
  <2> QED
    BY <1>1, <1>3, <2>1 DEF PostAll, EdgesInv
<1>9. PathInv'
  <2>1. ASSUME NEW i \in Grey, NEW j \in (i + 1)..(n - 1)
        PROVE  KeyAt(j)' = KeyAt(j) /\ j \in (i + 1)..n
    BY <1>2, <1>3
  <2> QED
    BY <1>1, <1>2, <1>3, <2>1, SameReach DEF PostAll, PathInv, n
<1>10. ToppedInv'
  BY <1>1, <1>3, SameReach DEF PostAll, ToppedInv, Topped
<1> QED
  BY <1>1, <1>2, <1>6, <1>7, <1>8, <1>9, <1>10 DEF PostAll

(* When the top is done, and no other of its component is expanded, all that it       *)
(* reaches is in the order.                                                       *)
LEMMA TopReaches ==
  ASSUME PostAll, pending # <<>>, NEW g, g = KeyAt(Len(pending)), Len(pending) \in Grey,
         \A i \in Grey \ {Len(pending)} : KeyAt(i) \notin Strong(g)
  PROVE  Reachable(g) \subseteq Range(order) \cup {g}
<1> DEFINE n == Len(pending)
           S == (Range(order) \cup {g}) \cap Reachable(g)
<1>1. graph \in Graph /\ n \in Nat /\ Grey \subseteq 1..n /\ g \in Classes /\ (n + 1)..n = {}
  BY PendingTypes DEF PostAll, GraphInv
<1>2. g \in Reachable(g) /\ Reachable(g) \subseteq Classes
  BY <1>1, ReachesItself DEF Reachable
<1>3. ASSUME NEW c \in S, NEW d \in Range(graph[c]) PROVE d \in S
  <2>1. d \in Reachable(g)
    BY <1>1, <1>3, ReachesNext
  <2>2. d \in seen
    <3>1. CASE c = g
      BY <1>1, <1>3, <3>1 DEF PostAll, EdgesInv
    <3>2. CASE c \in Range(order)
      BY <1>3, <3>2 DEF PostAll, EdgesInv
    <3> QED
      BY <3>1, <3>2
  <2>3. CASE d \in Range(order)
    BY <2>1, <2>3
  <2>4. CASE \E i \in Grey : d = KeyAt(i)
    <3>1. PICK i \in Grey : d = KeyAt(i)
      BY <2>4
    <3>2. ASSUME i # n PROVE FALSE
      <4>1. n \in (i + 1)..n /\ i \in Grey \ {n}
        BY <1>1, <3>2
      <4>2. g \in Reachable(KeyAt(i))
        BY <4>1 DEF PostAll, PathInv
      <4> QED
        BY <2>1, <3>1, <4>1, <4>2 DEF Strong
    <3> QED
      BY <2>1, <3>1, <3>2
  <2> QED
    BY <2>2, <2>3, <2>4 DEF PostAll, SeenInv
<1>4. S \in SUBSET Classes /\ g \in S
  BY <1>2
<1> HIDE DEF S
<1>5. Reachable(g) \subseteq S
  BY <1>3, <1>4, ReachesAll
<1> QED
  BY <1>5 DEF S

(* A class that is done is appended; it is the last of its component if none of that is expanded. *)
LEMMA PostOrders == ASSUME PostAll, Expanded PROVE PostAll'
<1> DEFINE n == Len(pending)
           g == KeyAt(n)
<1>1. /\ UNCHANGED <<graph, pc, todo, seen, components>> /\ pending # <<>>
      /\ pending' = Seqs!Front(pending) /\ Seqs!Last(pending).expanded /\ order' = Append(order, Seqs!Last(pending).key)
  BY DEF Expanded
<1>2. /\ n \in Nat \ {0} /\ Len(pending') = n - 1 /\ PostTypes'
      /\ \A i \in 1..(n - 1) : KeyAt(i)' = KeyAt(i) /\ i \in 1..n
      /\ Grey' = Grey \ {n} /\ Grey \ {n} \subseteq 1..(n - 1)
      /\ Seqs!Last(pending) = pending[n] /\ g \in Classes
  BY <1>1, PendingFront DEF PostAll
<1>3. n \in Grey /\ order' = Append(order, g) /\ \A i \in Grey \ {n} : KeyAt(i)' = KeyAt(i)
  BY <1>1, <1>2 DEF Grey, KeyAt
<1>4. g \in seen /\ g \notin Range(order) /\ \A i \in Grey \ {n} : KeyAt(i) # g
  BY <1>3 DEF PostAll, SeenInv
<1>5. graph \in Graph /\ order \in Seq(Classes) /\ IsInjective(order)
  BY DEF PostAll, GraphInv, OrderInv
<1> DEFINE m == Len(order)
<1> HIDE DEF n, g
<1>6. /\ m \in Nat /\ order' \in Seq(Classes) /\ Len(order') = m + 1 /\ Range(order') = Range(order) \cup {g}
      /\ order'[m + 1] = g /\ \A i \in 1..m : order'[i] = order[i]
  <2>1. order' \in Seq(Classes) /\ Len(order') = m + 1 /\ order'[m + 1] = g /\ m \in Nat
    BY <1>2, <1>3, <1>5
  <2>2. \A i \in 1..m : order'[i] = order[i]
    BY <1>2, <1>3, <1>5
  <2>3. 1..(m + 1) = 1..m \cup {m + 1}
    BY <2>1
  <2>4. Range(order') = {order'[i] : i \in 1..(m + 1)} /\ Range(order) = {order[i] : i \in 1..m}
    BY <1>5, <2>1, RangeOfSeq
  <2> QED
    BY <2>1, <2>2, <2>3, <2>4
<1> HIDE DEF m
<1>7. \A i \in Nat : \A j \in (i + 1)..n : j = n \/ j \in (i + 1)..(n - 1)
  BY <1>2
<1>8. \A i \in 1..n : i = n \/ i \in 1..(n - 1)
  BY <1>2
<1>9. GraphInv' /\ OrderInv'
  <2>1. Classes' = Classes
    BY <1>1, SameReach
  <2>2. ASSUME NEW i \in 1..(m + 1), NEW j \in 1..(m + 1), order'[i] = order'[j] PROVE i = j
    <3>1. \A k \in 1..(m + 1) : k \in 1..m \/ k = m + 1
      BY <1>6
    <3>2. \A k \in 1..m : order[k] \in Range(order) /\ k \in DOMAIN order
      BY <1>5 DEF m, Range
    <3> QED
      BY <1>4, <1>5, <1>6, <2>2, <3>1, <3>2 DEF IsInjective
  <2>3. DOMAIN order' = 1..(m + 1)
    BY <1>6
  <2>4. IsInjective(order')
    BY <2>2, <2>3 DEF IsInjective
  <2>5. GraphInv'
    BY <1>1, <2>1 DEF PostAll, GraphInv
  <2> QED
    BY <1>1, <1>6, <2>1, <2>4, <2>5 DEF PostAll, OrderInv
<1>10. SeenInv'
  <2>1. Classes' = Classes
    BY <1>1, SameReach
  <2>2. {KeyAt(i) : i \in Grey}' = {KeyAt(i) : i \in Grey \ {n}}
    BY <1>2, <1>3
  <2>3. {KeyAt(i) : i \in Grey} = {KeyAt(i) : i \in Grey \ {n}} \cup {g}
    BY <1>3 DEF g
  <2>4. seen' = {KeyAt(i) : i \in Grey}' \cup Range(order')
    BY <1>1, <1>6, <2>2, <2>3 DEF PostAll, SeenInv
  <2>5. ASSUME NEW i \in Grey \ {n}
        PROVE  KeyAt(i) \notin Range(order') /\ \A j \in Grey \ {n} : KeyAt(i) = KeyAt(j) => i = j
    BY <1>4, <1>6 DEF PostAll, SeenInv
  <2>6. Classes = seen \cup Range(todo) \cup {KeyAt(i) : i \in 1..Len(pending)}'
    <3>1. \A i \in 1..n : KeyAt(i) \in seen \/ (i \in 1..Len(pending') /\ KeyAt(i)' = KeyAt(i))
      BY <1>2, <1>4, <1>8 DEF g
    <3>2. {KeyAt(i) : i \in 1..Len(pending)}' \subseteq {KeyAt(i) : i \in 1..n}
      BY <1>2
    <3> QED
      BY <3>1, <3>2 DEF PostAll, SeenInv, n
  <2>7. \A i \in Grey' : KeyAt(i)' \notin Range(order') /\ \A j \in Grey' : KeyAt(i)' = KeyAt(j)' => i = j
    BY <1>2, <1>3, <2>5
  <2> QED
    BY <1>1, <2>1, <2>4, <2>6, <2>7 DEF SeenInv
<1>11. EdgesInv'
  <2>1. ASSUME NEW i \in Grey \ {n}, NEW d \in Range(graph[KeyAt(i)])
        PROVE  d \in seen \/ d \in {KeyAt(j) : j \in (i + 1)..Len(pending)}'
    <3>1. d \in seen \/ \E j \in (i + 1)..n : d = KeyAt(j)
      BY <2>1 DEF PostAll, EdgesInv, n
    <3>2. \A j \in (i + 1)..(n - 1) : j \in 1..(n - 1)
      BY <1>2, <1>3
    <3>3. i \in Nat
      BY <1>2
    <3> QED
      BY <1>2, <1>4, <1>7, <3>1, <3>2, <3>3 DEF g
  <2>2. Range(graph[g]) \subseteq seen
    <3>1. (n + 1)..n = {}
      BY <1>2
    <3> QED
      BY <1>3, <3>1 DEF PostAll, EdgesInv, n, g
  <2> QED
    BY <1>1, <1>2, <1>3, <1>6, <2>1, <2>2 DEF PostAll, EdgesInv
<1>12. PathInv'
  <2>1. ASSUME NEW i \in Grey \ {n}, NEW j \in (i + 1)..(n - 1)
        PROVE  KeyAt(j)' = KeyAt(j) /\ j \in (i + 1)..n
    BY <1>2
  <2> QED
    BY <1>1, <1>2, <1>3, <2>1, SameReach DEF PostAll, PathInv, n
<1>13. ToppedInv'
  <2>1. Classes' = Classes /\ \A k : Reachable(k)' = Reachable(k) /\ Strong(k)' = Strong(k)
    BY <1>1, SameReach
  <2>2. ASSUME NEW k \in Classes, Topped(k) PROVE Topped(k)'
    <3>1. PICK i \in 1..m : order[i] \in Strong(k) /\ Reachable(k) \subseteq {order[j] : j \in 1..i}
      BY <2>2 DEF Topped, m
    <3>2. i \in 1..(m + 1) /\ order'[i] = order[i] /\ \A j \in 1..i : order'[j] = order[j]
      BY <1>6
    <3>3. Reachable(k) \subseteq {order'[j] : j \in 1..i}
      BY <3>1, <3>2
    <3> QED
      BY <1>6, <2>1, <3>1, <3>2, <3>3 DEF Topped
  <2>3. ASSUME NEW k \in Classes, g \in Strong(k)
        PROVE  Topped(k)' \/ \E i \in Grey \ {n} : KeyAt(i) \in Strong(k)
    <3>1. Strong(g) = Strong(k) /\ Reachable(g) = Reachable(k)
      BY <1>5, <2>3, StrongClasses
    <3>2. CASE \E i \in Grey \ {n} : KeyAt(i) \in Strong(g)
      BY <3>1, <3>2
    <3>3. CASE \A i \in Grey \ {n} : KeyAt(i) \notin Strong(g)
      <4>1. Reachable(k) \subseteq Range(order')
        BY <1>1, <1>3, <1>6, <3>1, <3>3, TopReaches DEF n, g
      <4>2. Range(order') = {order'[j] : j \in 1..(m + 1)}
        BY <1>6, RangeOfSeq
      <4>3. m + 1 \in 1..(m + 1)
        BY <1>6
      <4> QED
        BY <1>6, <2>1, <2>3, <4>1, <4>2, <4>3 DEF Topped
    <3> QED
      BY <3>2, <3>3
  <2>4. ASSUME NEW k \in Range(order') PROVE Topped(k)' \/ \E i \in Grey \ {n} : KeyAt(i) \in Strong(k)
    <3>1. CASE k = g
      BY <1>2, <2>3, <3>1, ReachesItself
    <3>2. CASE k \in Range(order)
      <4>1. k \in Classes
        BY <1>5, <3>2, RangeOfSeq
      <4>2. Topped(k) \/ \E i \in Grey : KeyAt(i) \in Strong(k)
        BY <3>2 DEF PostAll, ToppedInv
      <4> QED
        BY <2>2, <2>3, <4>1, <4>2 DEF g
    <3> QED
      BY <1>6, <3>1, <3>2
  <2> QED
    BY <1>2, <1>3, <2>1, <2>4 DEF ToppedInv
<1> QED
  BY <1>1, <1>2, <1>9, <1>10, <1>11, <1>12, <1>13 DEF PostAll

(* What a class puts on the stack: itself, and what was not seen that it leads to.    *)
LEMMA ExpandsShape ==
  ASSUME PostAll, Expands, NEW n, n = Len(pending), NEW key, key = KeyAt(n)
  PROVE  /\ n \in Nat \ {0} /\ key \in Classes /\ key \notin seen /\ n \notin Grey /\ seen' = seen \cup {key}
         /\ pending' \in Seq(PostEntry) /\ Len(pending') \in Nat /\ Len(pending') >= n
         /\ Grey' = Grey \cup {n} /\ Grey \subseteq 1..(n - 1)
         /\ \A i \in 1..n : KeyAt(i)' = KeyAt(i)
         /\ {pending'[i].key : i \in (n + 1)..Len(pending')} = Range(graph[key]) \ seen'
<1> DEFINE front == Seqs!Front(pending)
           fresh == Only(graph[key], Classes \ seen')
           added == [i \in DOMAIN fresh |-> Entry(fresh[i], FALSE)]
           own == Entry(key, TRUE)
           base == front \o <<own>>
<1>1. pending # <<>> /\ ~Seqs!Last(pending).expanded
  BY DEF Expands
<1>2. pending \in Seq(PostEntry) /\ graph \in Graph
  BY DEF PostAll, PostTypes, PostEntry, GraphInv
<1>3. /\ n \in Nat \ {0} /\ front \in Seq(PostEntry) /\ Len(front) = n - 1
      /\ \A i \in 1..(n - 1) : front[i] = pending[i]
      /\ Seqs!Last(pending) = pending[n] /\ Seqs!Last(pending) \in PostEntry
  BY <1>1, <1>2, FrontShape
<1>4. /\ key \in Classes /\ key \notin seen /\ seen' = seen \cup {key}
      /\ pending' = base \o added
  BY <1>3 DEF Expands, KeyAt, PostEntry
<1>5. fresh \in Seq(Classes) /\ Range(fresh) = Range(graph[key]) \ seen'
  <2>1. graph[key] \in Seq(Classes) /\ Range(graph[key]) \subseteq Classes
    BY <1>2, <1>4, GraphTypes
  <2> QED
    BY <2>1, OnlyThose
<1> HIDE DEF front, fresh
<1> DEFINE m == Len(fresh)
<1>6. m \in Nat /\ DOMAIN fresh = 1..m /\ \A i \in 1..m : fresh[i] \in Classes
  BY <1>5
<1>7. added \in Seq(PostEntry) /\ Len(added) = m /\ \A i \in 1..m : added[i].key = fresh[i] /\ added[i].expanded = FALSE
  <2>1. \A i \in 1..m : Entry(fresh[i], FALSE) \in PostEntry
    BY <1>6 DEF Entry, PostEntry
  <2>2. added = [i \in 1..m |-> Entry(fresh[i], FALSE)]
    BY <1>6
  <2> QED
    BY <1>6, <2>1, <2>2 DEF Entry
<1>8. own \in PostEntry /\ own.key = key /\ own.expanded = TRUE
  BY <1>4 DEF Entry, PostEntry
<1>9. Range(fresh) = {fresh[i] : i \in 1..m}
  BY <1>5, RangeOfSeq
<1> HIDE DEF added, m, own
<1>10. /\ base \in Seq(PostEntry) /\ Len(base) = n /\ base[n] = own
       /\ \A i \in 1..(n - 1) : base[i] = pending[i]
  <2>1. base = Append(front, own)
    BY <1>3, <1>8
  <2>2. Append(front, own) \in Seq(PostEntry) /\ Len(Append(front, own)) = Len(front) + 1
        /\ Append(front, own)[Len(front) + 1] = own /\ \A i \in 1..Len(front) : Append(front, own)[i] = front[i]
    BY <1>3, <1>8
  <2>3. Len(front) + 1 = n
    BY <1>3
  <2> QED
    BY <1>3, <2>1, <2>2, <2>3
<1> HIDE DEF base
<1>11. /\ pending' \in Seq(PostEntry) /\ Len(pending') = n + m
       /\ \A i \in 1..n : pending'[i] = base[i]
       /\ \A i \in 1..m : pending'[n + i] = added[i]
  <2>1. /\ base \o added \in Seq(PostEntry) /\ Len(base \o added) = Len(base) + Len(added)
        /\ \A i \in 1..Len(base) : (base \o added)[i] = base[i]
        /\ \A i \in 1..Len(added) : (base \o added)[Len(base) + i] = added[i]
    <3>1. \A s, t \in Seq(PostEntry) :
            /\ s \o t \in Seq(PostEntry) /\ Len(s \o t) = Len(s) + Len(t)
            /\ \A i \in 1..Len(s) : (s \o t)[i] = s[i]
            /\ \A i \in 1..Len(t) : (s \o t)[Len(s) + i] = t[i]
      BY ConcatShape
    <3>2. base \in Seq(PostEntry) /\ added \in Seq(PostEntry)
      BY <1>7, <1>10
    <3> QED
      BY <3>1, <3>2
  <2> QED
    BY <1>4, <1>7, <1>10, <2>1
<1>12. /\ 1..n = 1..(n - 1) \cup {n} /\ n \in 1..n /\ n \in 1..(n + m) /\ n \notin 1..(n - 1)
       /\ \A i \in 1..(n + m) : i \in 1..(n - 1) \/ i = n \/ (i - n \in 1..m /\ n + (i - n) = i)
       /\ \A i \in 1..m : n + i \in (n + 1)..(n + m)
       /\ \A i \in 1..(n - 1) : i \in 1..(n + m)
       /\ \A i \in (n + 1)..(n + m) : i - n \in 1..m /\ n + (i - n) = i
  BY <1>3, <1>6
<1>13. \A i \in 1..n : KeyAt(i)' = KeyAt(i)
  BY <1>8, <1>10, <1>11, <1>12 DEF KeyAt
<1>14. Grey \subseteq 1..(n - 1) /\ n \notin Grey
  BY <1>1, <1>3, <1>12 DEF Grey
<1>15. Grey' = Grey \cup {n}
  <2>1. \A i \in 1..(n - 1) : pending'[i] = pending[i]
    BY <1>10, <1>11, <1>12
  <2>2. pending'[n].expanded = TRUE
    BY <1>8, <1>10, <1>11, <1>12
  <2>3. \A i \in 1..m : pending'[n + i].expanded = FALSE
    BY <1>7, <1>11
  <2>4. Grey' = {i \in 1..(n + m) : pending'[i].expanded} /\ Grey = {i \in 1..n : pending[i].expanded}
    BY <1>11 DEF Grey
  <2>5. \A i : i \in Grey' <=> i \in Grey \/ i = n
    <3>1. ASSUME NEW i \in Grey' PROVE i \in Grey \/ i = n
      <4>1. i \in 1..(n - 1) \/ i = n \/ (i - n \in 1..m /\ n + (i - n) = i)
        BY <1>12, <2>4
      <4>2. ~(i - n \in 1..m /\ n + (i - n) = i)
        BY <2>3, <2>4
      <4> QED
        BY <1>12, <2>1, <2>4, <4>1, <4>2
    <3>2. ASSUME NEW i \in Grey PROVE i \in Grey'
      BY <1>12, <1>14, <2>1, <2>4
    <3>3. n \in Grey'
      BY <1>12, <2>2, <2>4
    <3> QED
      BY <3>1, <3>2, <3>3
  <2> QED
    BY <2>5
<1>16. {pending'[i].key : i \in (n + 1)..Len(pending')} = Range(graph[key]) \ seen'
  <2>1. \A i \in 1..m : pending'[n + i].key = fresh[i]
    BY <1>7, <1>11
  <2>2. {pending'[i].key : i \in (n + 1)..(n + m)} = {fresh[i] : i \in 1..m}
    <3>1. \A i \in (n + 1)..(n + m) : \E j \in 1..m : pending'[i].key = fresh[j]
      BY <1>12, <2>1
    <3>2. \A j \in 1..m : \E i \in (n + 1)..(n + m) : pending'[i].key = fresh[j]
      BY <1>12, <2>1
    <3>3. ASSUME NEW x PROVE (\E i \in (n + 1)..(n + m) : x = pending'[i].key) <=> \E j \in 1..m : x = fresh[j]
      BY <3>1, <3>2
    <3> QED
      BY <3>3
  <2> QED
    BY <1>5, <1>9, <1>11, <2>2
<1>17. Len(pending') \in Nat /\ Len(pending') >= n
  BY <1>3, <1>6, <1>11
<1> QED
  BY <1>3, <1>4, <1>11, <1>13, <1>14, <1>15, <1>16, <1>17

(* A class that is new is expanded below its dependencies that are new. *)
LEMMA PostExpands == ASSUME PostAll, Expands PROVE PostAll'
<1>0. PICK n, key : n = Len(pending) /\ key = KeyAt(n)
  OBVIOUS
<1> DEFINE l == Len(pending')
<1>1. /\ n \in Nat \ {0} /\ key \in Classes /\ key \notin seen /\ n \notin Grey /\ seen' = seen \cup {key}
      /\ pending' \in Seq(PostEntry) /\ l \in Nat /\ l >= n
      /\ Grey' = Grey \cup {n} /\ Grey \subseteq 1..(n - 1)
      /\ \A i \in 1..n : KeyAt(i)' = KeyAt(i)
      /\ {pending'[i].key : i \in (n + 1)..l} = Range(graph[key]) \ seen'
  BY <1>0, ExpandsShape
<1>2. UNCHANGED <<graph, pc, todo, order, components>>
  BY DEF Expands
<1>3. Classes' = Classes /\ graph \in Graph
  BY <1>2, SameReach DEF PostAll, GraphInv
<1> HIDE DEF l
<1>4. /\ \A i \in Grey : i \in 1..n /\ KeyAt(i)' = KeyAt(i) /\ i # n
      /\ n \in 1..n /\ KeyAt(n)' = key
      /\ \A i \in 1..n : i \in 1..l
      /\ \A i \in 1..l : i \in 1..n \/ i \in (n + 1)..l
      /\ \A i \in (n + 1)..l : i \in 1..l
  BY <1>0, <1>1
<1>5. GraphInv' /\ OrderInv'
  BY <1>1, <1>2, <1>3 DEF PostAll, GraphInv, OrderInv
<1>6. PostTypes'
  BY <1>1, <1>2, <1>3 DEF PostAll, PostTypes, PostEntry
<1>7. SeenInv'
  <2>1. {KeyAt(i) : i \in Grey}' = {KeyAt(i) : i \in Grey} \cup {key}
    BY <1>1, <1>4
  <2>2. ASSUME NEW i \in Grey'
        PROVE  KeyAt(i)' \notin Range(order) /\ \A j \in Grey' : KeyAt(i)' = KeyAt(j)' => i = j
    <3>1. \A j \in Grey : KeyAt(j) # key /\ KeyAt(j) \notin Range(order)
      BY <1>1 DEF PostAll, SeenInv
    <3>2. key \notin Range(order)
      BY <1>1 DEF PostAll, SeenInv
    <3>3. \A j, k \in Grey : KeyAt(j) = KeyAt(k) => j = k
      BY DEF PostAll, SeenInv
    <3> QED
      BY <1>1, <1>4, <3>1, <3>2, <3>3
  <2>3. Classes = seen' \cup Range(todo) \cup {pending'[i].key : i \in 1..l}
    <3>1. \A i \in 1..n : KeyAt(i) \in {pending'[j].key : j \in 1..l}
      BY <1>1, <1>4 DEF KeyAt
    <3>2. {pending'[j].key : j \in 1..l} \subseteq Classes
      <4>1. \A j \in 1..l : pending'[j] \in PostEntry
        BY <1>1 DEF l
      <4> QED
        BY <4>1 DEF PostEntry
    <3>3. Classes = seen \cup Range(todo) \cup {KeyAt(i) : i \in 1..n}
      BY <1>0 DEF PostAll, SeenInv
    <3> QED
      BY <1>1, <3>1, <3>2, <3>3
  <2>4. seen' = {KeyAt(i) : i \in Grey}' \cup Range(order')
    BY <1>1, <1>2, <2>1 DEF PostAll, SeenInv
  <2> QED
    BY <1>2, <1>3, <2>2, <2>3, <2>4 DEF SeenInv, KeyAt, l
<1>8. EdgesInv'
  <2>1. ASSUME NEW i \in Grey', NEW d \in Range(graph[KeyAt(i)'])
        PROVE  d \in seen' \/ d \in {pending'[j].key : j \in (i + 1)..l}
    <3>1. CASE i = n
      BY <1>1, <1>4, <2>1, <3>1
    <3>2. CASE i \in Grey
      <4>1. d \in seen \/ \E j \in (i + 1)..n : d = KeyAt(j)
        BY <1>0, <1>4, <2>1, <3>2 DEF PostAll, EdgesInv
      <4>2. \A j \in (i + 1)..n : j \in 1..n /\ j \in (i + 1)..l /\ pending'[j].key = KeyAt(j)
        BY <1>1, <1>4, <3>2 DEF KeyAt
      <4> QED
        BY <1>1, <4>1, <4>2
    <3> QED
      BY <1>1, <3>1, <3>2
  <2>2. \A k \in Range(order) : Range(graph[k]) \subseteq seen'
    BY <1>1 DEF PostAll, EdgesInv
  <2> QED
    BY <1>2, <2>1, <2>2 DEF EdgesInv, KeyAt, l
<1>9. PathInv'
  <2>1. ASSUME NEW i \in Grey', NEW j \in (i + 1)..l PROVE pending'[j].key \in Reachable(KeyAt(i)')
    <3>1. ASSUME NEW k \in Classes, key \in Reachable(k), j \in (n + 1)..l PROVE pending'[j].key \in Reachable(k)
      <4>1. pending'[j].key \in Range(graph[key])
        BY <1>1, <3>1
      <4> QED
        BY <1>3, <3>1, <4>1, ReachesNext
    <3>2. CASE i = n
      BY <1>1, <1>4, <2>1, <3>1, <3>2, ReachesItself
    <3>3. CASE i \in Grey
      <4>1. KeyAt(i)' = KeyAt(i) /\ i \in 1..(n - 1) /\ KeyAt(i) \in Classes
        <5>1. KeyAt(i) \in Classes
          BY <3>3, PendingTypes DEF PostAll
        <5> QED
          BY <1>1, <1>4, <3>3, <5>1
      <4>2. \A k \in (i + 1)..n : KeyAt(k) \in Reachable(KeyAt(i))
        BY <1>0, <3>3 DEF PostAll, PathInv
      <4>3. n \in (i + 1)..n
        BY <1>1, <4>1
      <4>4. CASE j \in (n + 1)..l
        BY <1>0, <3>1, <4>1, <4>2, <4>3, <4>4
      <4>5. CASE j \in (i + 1)..n
        <5>1. j \in 1..n
          BY <4>1, <4>5
        <5> QED
          BY <1>1, <4>1, <4>2, <4>5, <5>1 DEF KeyAt
      <4>6. j \in (n + 1)..l \/ j \in (i + 1)..n
        BY <1>1, <2>1, <4>1
      <4> QED
        BY <4>4, <4>5, <4>6
    <3> QED
      BY <1>1, <3>2, <3>3
  <2> QED
    BY <1>2, <2>1, SameReach DEF PathInv, KeyAt, l
<1>10. ToppedInv'
  <2>1. \A k : Topped(k)' <=> Topped(k)
    BY <1>2, SameReach DEF Topped
  <2> QED
    BY <1>1, <1>2, <1>4, <2>1, SameReach DEF PostAll, ToppedInv
<1> QED
  BY <1>2, <1>5, <1>6, <1>7, <1>8, <1>9, <1>10 DEF PostAll

CollectAll == GraphInv /\ OrderInv /\ pc = "components" /\ pending \in Seq(Classes) /\ PartsInv /\ BegunInv /\ PartInv

LEMMA StillCollects ==
  ASSUME CollectAll'
  PROVE  (GraphInv /\ PostInv /\ OrderInv /\ CollectInv /\ ComponentsInv)'
  BY DEF CollectAll, PostInv, CollectInv, ComponentsInv

(* At the end of the traversal every class is in the order, and nothing is expanded. *)
LEMMA PostEnds == ASSUME PostAll, EndsPostorder PROVE CollectAll'
<1>1. /\ UNCHANGED <<graph, pending, order, components>> /\ pc = "postorder" /\ pending = <<>> /\ todo = <<>>
      /\ pc' = "components" /\ todo' = Seqs!Reverse(order) /\ seen' = {} /\ components = <<>>
  BY DEF EndsPostorder, PostAll, PostTypes
<1> DEFINE n == Len(order)
<1>2. order \in Seq(Classes) /\ n \in Nat /\ Classes' = Classes
  BY <1>1, SameReach DEF PostAll, OrderInv
<1>3. todo' \in Seq(Classes) /\ Len(todo') = n /\ \A i \in 1..n : todo'[i] = order[n + 1 - i]
  <2>1. todo' = [i \in 1..n |-> order[(n - i) + 1]]
    BY <1>1 DEF Seqs!Reverse
  <2>2. \A i \in 1..n : order[(n - i) + 1] \in Classes /\ (n - i) + 1 = n + 1 - i
    BY <1>2
  <2> HIDE DEF n
  <2>3. todo' \in [1..n -> Classes]
    BY <2>1, <2>2
  <2>4. todo' \in Seq(Classes) /\ Len(todo') = n
    BY <1>2, <2>3
  <2> QED
    BY <2>1, <2>2, <2>4
<1>4. Grey = {} /\ {KeyAt(i) : i \in 1..Len(pending)} = {} /\ Range(todo) = {}
  <2>1. 1..Len(<<>>) = {} /\ Range(<<>>) = {}
    BY DEF Range
  <2> QED
    BY <1>1, <2>1 DEF Grey
<1>5. Range(order) = Classes
  BY <1>1, <1>4 DEF PostAll, SeenInv
<1>6. \A k \in Classes : Topped(k)
  BY <1>4, <1>5 DEF PostAll, ToppedInv
<1>7. GraphInv' /\ OrderInv'
  <2>1. \A k : Topped(k)' <=> Topped(k)
    BY <1>1, SameReach DEF Topped
  <2>2. GraphInv'
    BY <1>1, <1>2, <1>3 DEF PostAll, GraphInv
  <2> QED
    BY <1>1, <1>2, <1>5, <1>6, <2>1, <2>2 DEF PostAll, OrderInv
<1>8. pending' \in Seq(Classes) /\ components' = <<>> /\ Len(<<>>) = 0 /\ 1..0 = {} /\ pending' = <<>>
  BY <1>1
<1>9. PartsInv' /\ PartInv'
  BY <1>1, <1>8 DEF PartsInv, PartInv
<1>10. BegunInv'
  <2>1. n <= n /\ (n + 1)..n = {}
    BY <1>2
  <2> QED
    BY <1>1, <1>3, <2>1 DEF BegunInv
<1> QED
  BY <1>1, <1>7, <1>8, <1>9, <1>10 DEF CollectAll

(* Complete components have each class with its component. *)
LEMMA EarlierIsWhole ==
  ASSUME CollectAll, NEW e \in Earlier
  PROVE  e \in Classes /\ Strong(e) \subseteq Earlier
<1>1. PICK i \in 1..Len(components) : i \in Complete /\ e \in components[i]
  BY DEF Earlier, Complete
<1>2. PICK k \in Classes : components[i] = Strong(k)
  BY <1>1 DEF CollectAll, PartsInv
<1>3. Strong(e) = Strong(k) /\ e \in Classes
  BY <1>1, <1>2, StrongClasses DEF CollectAll, GraphInv
<1> QED
  BY <1>1, <1>2, <1>3 DEF Earlier

(* What leads to the component of the root and is not in a complete one is of it, for *)
(* otherwise its component would have come last and been begun with before.         *)
LEMMA LeadsToRoot ==
  ASSUME CollectAll, pending # <<>>, NEW key \in Strong(Root), NEW k \in Classes, key \in Range(graph[k])
  PROVE  k \in Strong(Root) \cup Earlier
<1> DEFINE b == Len(todo) + 1
<1>1. graph \in Graph /\ order \in Seq(Classes) /\ IsInjective(order) /\ Topped(k) /\ Len(order) \in Nat /\ DOMAIN order = 1..Len(order)
  BY DEF CollectAll, GraphInv, OrderInv
<1>2. b \in 1..Len(order) /\ Root = order[b]
  <2>1. Len(todo) \in Nat /\ Len(todo) < Len(order)
    BY DEF CollectAll, GraphInv, PartInv
  <2> QED
    BY <1>1, <2>1 DEF Root
<1> HIDE DEF b
<1>3. Root \in Classes
  BY <1>1, <1>2
<1>4. Root \in Reachable(k)
  <2>1. k \in Reachable(k)
    BY ReachesItself
  <2>2. key \in Reachable(k)
    BY <1>1, <2>1, ReachesNext
  <2>3. Root \in Reachable(key)
    BY DEF Strong
  <2> QED
    BY <1>1, <2>2, <2>3, ReachesOn
<1>5. PICK i \in 1..Len(order) : order[i] \in Strong(k) /\ Reachable(k) \subseteq {order[j] : j \in 1..i}
  BY <1>1 DEF Topped
<1>6. i >= b
  <2>1. PICK j \in 1..i : order[b] = order[j]
    BY <1>2, <1>4, <1>5
  <2>2. j \in 1..Len(order)
    BY <1>1
  <2>3. j = b
    BY <1>1, <1>2, <2>1, <2>2 DEF IsInjective
  <2> QED
    BY <1>1, <2>3
<1>7. CASE i = b
  BY <1>1, <1>2, <1>5, <1>7, StrongClasses
<1>8. CASE i # b
  <2>1. i \in b..Len(order)
    BY <1>1, <1>2, <1>6
  <2>2. order[i] \in Earlier
    BY <1>8, <2>1 DEF CollectAll, BegunInv, b
  <2>3. k \in Strong(order[i])
    BY <1>1, <1>5, StrongClasses
  <2> QED
    BY <2>2, <2>3, EarlierIsWhole
<1> QED
  BY <1>7, <1>8

(* A part of a component that everything in it leads to is all of it. *)
LEMMA PartIsWhole ==
  ASSUME graph \in Graph, NEW r \in Classes, NEW part \in SUBSET Strong(r), r \in part,
         NEW others, r \notin others, \A e \in others : Strong(e) \subseteq others,
         \A k \in Classes : Range(graph[k]) \cap part # {} => k \in part \cup others
  PROVE  part = Strong(r)
<1>1. ASSUME NEW k \in Strong(r), k \notin part PROVE FALSE
  <2> DEFINE S == Reachable(k) \ part
  <2>1. k \in Classes /\ Reachable(k) = Reachable(r) /\ r \in Reachable(k)
    BY <1>1, StrongClasses DEF Strong
  <2>2. ASSUME NEW y \in S, NEW d \in Range(graph[y]) PROVE d \in S
    <3>1. d \in Reachable(k) /\ y \in Classes
      BY <2>1, <2>2, ReachesNext DEF Reachable
    <3>2. ASSUME d \in part PROVE FALSE
      <4>1. y \in others
        BY <2>2, <3>1, <3>2
      <4>2. r \in Reachable(d)
        BY <3>2 DEF Strong
      <4>3. y \in Reachable(y)
        BY <3>1, ReachesItself
      <4>4. d \in Reachable(y)
        BY <4>3, <2>2, ReachesNext
      <4>5. r \in Reachable(y) /\ y \in Reachable(r)
        BY <2>1, <2>2, <4>2, <4>4, ReachesOn
      <4>6. r \in Strong(y)
        BY <4>5 DEF Strong
      <4> QED
        BY <4>1, <4>6
    <3> QED
      BY <3>1, <3>2
  <2>3. S \in SUBSET Classes /\ k \in S
    BY <1>1, <2>1, ReachesItself DEF Reachable
  <2> HIDE DEF S
  <2>4. Reachable(k) \subseteq S
    BY <2>2, <2>3, ReachesAll
  <2> QED
    BY <2>1, <2>4 DEF S
<1> QED
  BY <1>1

(* The next class of the order begins a component, or is in one. *)
LEMMA CollectBegins == ASSUME CollectAll, StartsComponent PROVE CollectAll'
<1> DEFINE n == Len(components)
           b == Len(todo)
<1>0. PICK r : r = Head(todo)
  OBVIOUS
<1>1. /\ UNCHANGED <<graph, pc, seen, order>> /\ pending = <<>> /\ todo # <<>> /\ todo' = Tail(todo)
      /\ r \in seen => UNCHANGED <<pending, components>>
      /\ r \notin seen => pending' = <<r>> /\ components' = Append(components, {})
  BY <1>0 DEF StartsComponent
<1>2. /\ graph \in Graph /\ todo \in Seq(Classes) /\ components \in Seq(SUBSET Classes) /\ seen \subseteq Classes
      /\ order \in Seq(Classes) /\ Classes' = Classes
  BY <1>1, SameReach DEF CollectAll, GraphInv, OrderInv
<1>3. /\ b \in Nat \ {0} /\ Len(todo') = b - 1 /\ todo' \in Seq(Classes) /\ r = todo[1] /\ r \in Classes
      /\ \A i \in 1..(b - 1) : todo'[i] = todo[i + 1] /\ i + 1 \in 1..b
  BY <1>0, <1>1, <1>2
<1>4. n \in Nat /\ Len(order) \in Nat /\ b <= Len(order) /\ b \in 1..Len(order) /\ b + 1 - 1 = b /\ (b - 1) + 1 = b
  BY <1>2, <1>3 DEF CollectAll, BegunInv
<1> HIDE DEF n, b
<1>5. r = order[b] /\ \A i \in 1..(b - 1) : todo'[i] = order[(b - 1) + 1 - i]
  <2>1. \A i \in 1..b : todo[i] = order[b + 1 - i]
    BY DEF CollectAll, BegunInv, b
  <2>2. \A i \in 1..(b - 1) : b + 1 - (i + 1) = (b - 1) + 1 - i
    BY <1>3
  <2>3. 1 \in 1..b
    BY <1>3
  <2> QED
    BY <1>3, <1>4, <2>1, <2>2, <2>3
<1>6. Complete = 1..n /\ Earlier = seen
  <2>1. Complete = 1..n
    BY <1>1 DEF Complete, n
  <2> QED
    BY <2>1 DEF Earlier, CollectAll, PartsInv, n
<1>7. \A i \in (b + 1)..Len(order) : order[i] \in seen
  <2>1. \A i \in (b + 1)..Len(order) : order[i] \in Earlier
    BY <1>1 DEF CollectAll, BegunInv, b
  <2> QED
    BY <1>6, <2>1
<1>8. \A i \in b..Len(order) : i = b \/ i \in (b + 1)..Len(order)
  BY <1>4
<1>9. OrderInv'
  <2>1. \A k : Topped(k)' <=> Topped(k)
    BY <1>1, SameReach DEF Topped
  <2> QED
    BY <1>1, <1>2, <2>1 DEF CollectAll, OrderInv
<1>10. CASE r \in seen
  <2>1. pending' = pending /\ components' = components
    BY <1>1, <1>10
  <2>2. GraphInv' /\ PartsInv' /\ PartInv'
    <3>1. GraphInv'
      BY <1>1, <1>2, <1>3, <2>1 DEF CollectAll, GraphInv
    <3>2. Complete' = Complete
      BY <2>1 DEF Complete
    <3>3. PartsInv'
      BY <1>1, <1>2, <2>1, <3>2, SameReach DEF CollectAll, PartsInv
    <3>4. PartInv'
      BY <1>1, <2>1 DEF PartInv
    <3> QED
      BY <3>1, <3>3, <3>4
  <2>3. Earlier' = seen
    BY <1>6, <2>1 DEF Earlier, Complete
  <2>4. \A i \in ((b - 1) + 1)..Len(order) : order[i] \in seen
    BY <1>4, <1>5, <1>7, <1>8, <1>10
  <2>5. BegunInv'
    <3>1. b - 1 <= Len(order)
      BY <1>4
    <3> QED
      BY <1>1, <1>3, <1>5, <2>3, <2>4, <3>1 DEF BegunInv
  <2> QED
    BY <1>1, <1>2, <1>9, <2>1, <2>2, <2>5 DEF CollectAll
<1>11. CASE r \notin seen
  <2>1. pending' = <<r>> /\ components' = Append(components, {})
    BY <1>1, <1>11
  <2>2. /\ components' \in Seq(SUBSET Classes) /\ Len(components') = n + 1 /\ components'[n + 1] = {}
        /\ \A i \in 1..n : components'[i] = components[i]
    BY <1>2, <2>1 DEF n
  <2>3. pending' \in Seq(Classes) /\ pending' # <<>> /\ Range(pending') = {r}
    BY <1>3, <2>1 DEF Range
  <2>4. Complete' = 1..n /\ 1..(n + 1) = 1..n \cup {n + 1}
    <3>1. 1..(n + 1) = 1..n \cup {n + 1} /\ \A i \in 1..(n + 1) : i < n + 1 <=> i \in 1..n
      BY <1>4
    <3> QED
      BY <2>2, <2>3, <3>1 DEF Complete
  <2>5. Earlier' = seen
    <3>1. Earlier = UNION {components[i] : i \in 1..n} /\ Earlier' = UNION {components'[i] : i \in 1..n}
      BY <1>6, <2>4 DEF Earlier
    <3> QED
      BY <1>6, <2>2, <3>1
  <2>6. GraphInv'
    BY <1>1, <1>2, <1>3, <2>2 DEF CollectAll, GraphInv
  <2>7. PartsInv'
    <3>1. \A i \in 1..n : \E k \in Classes : components'[i] = Strong(k)
      BY <1>6, <2>2 DEF CollectAll, PartsInv, n
    <3>2. \A i, j \in 1..(n + 1) : components'[i] \cap components'[j] # {} => i = j
      <4>1. \A i, j \in 1..n : components[i] \cap components[j] # {} => i = j
        BY DEF CollectAll, PartsInv, n
      <4> QED
        BY <2>2, <2>4, <4>1
    <3>3. seen' = UNION {components'[i] : i \in 1..(n + 1)}
      <4>1. UNION {components'[i] : i \in 1..(n + 1)} = Earlier' \cup {}
        BY <2>2, <2>4 DEF Earlier
      <4> QED
        BY <1>1, <2>5, <4>1
    <3> QED
      BY <1>1, <1>2, <2>2, <2>4, <3>1, <3>2, <3>3, SameReach DEF PartsInv
  <2>8. Root' = r
    BY <1>1, <1>3, <1>4, <1>5 DEF Root
  <2>9. BegunInv'
    <3>1. b - 1 <= Len(order)
      BY <1>4
    <3>2. \A i \in ((b - 1) + 1)..Len(order) : order[i] \in seen \/ i = (b - 1) + 1
      BY <1>4, <1>7, <1>8
    <3> QED
      BY <1>1, <1>3, <1>5, <2>3, <2>5, <3>1, <3>2 DEF BegunInv
  <2>10. PartInv'
    <3>1. b - 1 < Len(order) /\ n + 1 > 0
      BY <1>4
    <3>2. r \in Strong(r)
      BY <1>3, ReachesItself
    <3>3. Strong(Root)' = Strong(r)
      BY <1>1, <2>8, SameReach
    <3>4. Len(todo') < Len(order') /\ Len(components') > 0
      BY <1>1, <1>3, <2>2, <3>1
    <3>5. components'[Len(components')] = {}
      BY <2>2
    <3>6. Root' \in {r} /\ Root' \notin Earlier' /\ {r} \subseteq Strong(Root)'
      BY <1>11, <2>5, <2>8, <3>2, <3>3
    <3> QED
      BY <2>3, <3>4, <3>5, <3>6 DEF PartInv
  <2> QED
    BY <1>1, <1>2, <1>9, <2>3, <2>6, <2>7, <2>9, <2>10 DEF CollectAll
<1> QED
  BY <1>10, <1>11

(* Where the collecting of a component has come to. *)
LEMMA PartShape ==
  ASSUME CollectAll, pending # <<>>
  PROVE  /\ Len(components) \in Nat \ {0} /\ Complete = 1..(Len(components) - 1)
         /\ Earlier = UNION {components[i] : i \in 1..(Len(components) - 1)}
         /\ seen = Earlier \cup components[Len(components)] /\ components[Len(components)] \cap Earlier = {}
         /\ Len(todo) + 1 \in 1..Len(order) /\ Root \in Classes /\ Earlier \subseteq Classes
<1> DEFINE n == Len(components)
<1>1. n \in Nat \ {0} /\ Len(todo) \in Nat /\ Len(todo) < Len(order) /\ order \in Seq(Classes) /\ graph \in Graph
  BY DEF CollectAll, PartInv, GraphInv, OrderInv
<1>2. Complete = 1..(n - 1)
  <2>1. \A i \in 1..n : i < n <=> i \in 1..(n - 1)
    BY <1>1
  <2>2. \A i \in 1..(n - 1) : i \in 1..n
    BY <1>1
  <2> QED
    BY <2>1, <2>2 DEF Complete
<1>3. Earlier = UNION {components[i] : i \in 1..(n - 1)}
  BY <1>2 DEF Earlier
<1>4. 1..n = 1..(n - 1) \cup {n} /\ \A i \in 1..(n - 1) : i # n
  BY <1>1
<1>5. seen = UNION {components[i] : i \in 1..n} /\ \A i, j \in 1..n : components[i] \cap components[j] # {} => i = j
  BY DEF CollectAll, PartsInv
<1> HIDE DEF n
<1>6. seen = Earlier \cup components[n]
  BY <1>3, <1>4, <1>5
<1>7. components[n] \cap Earlier = {}
  <2>1. ASSUME NEW x \in components[n], NEW i \in 1..(n - 1), x \in components[i] PROVE FALSE
    BY <1>4, <1>5, <2>1
  <2> QED
    BY <1>3, <2>1
<1>8. Len(todo) + 1 \in 1..Len(order) /\ Root \in Classes
  BY <1>1 DEF Root
<1>9. Earlier \subseteq Classes
  BY EarlierIsWhole
<1> QED
  BY <1>1, <1>2, <1>3, <1>6, <1>7, <1>8, <1>9 DEF n

(* The last component may grow by what leads to the root, as long as nothing that leads *)
(* to it is forgotten; when nothing is waiting, it is whole.                            *)
LEMMA PartGrows ==
  ASSUME CollectAll, pending # <<>>, UNCHANGED <<graph, pc, todo, order>>,
         NEW part \in SUBSET Strong(Root), part \cap Earlier = {}, pending' \in Seq(Classes),
         components' = [components EXCEPT ![Len(components)] = part], seen' = Earlier \cup part,
         Root \in part \cup Range(pending'), Root \notin Earlier, Range(pending') \subseteq Strong(Root) \cup Earlier,
         \A k \in Classes : Range(graph[k]) \cap part # {} => k \in seen' \cup Range(pending')
  PROVE  CollectAll'
<1> DEFINE n == Len(components)
           b == Len(todo)
<1>0. PICK r : r = Root
  OBVIOUS
<1>1. /\ n \in Nat \ {0} /\ Complete = 1..(n - 1) /\ Earlier = UNION {components[i] : i \in 1..(n - 1)}
      /\ r \in Classes /\ Earlier \subseteq Classes /\ b + 1 \in 1..Len(order)
  BY <1>0, PartShape
<1>2. /\ graph \in Graph /\ components \in Seq(SUBSET Classes) /\ todo \in Seq(Classes) /\ order \in Seq(Classes)
      /\ Classes' = Classes /\ \A k : Strong(k)' = Strong(k) /\ Topped(k)' = Topped(k)
  BY SameReach DEF CollectAll, GraphInv, OrderInv, Topped
<1>3. Strong(r) \subseteq Classes /\ part \subseteq Classes
  BY <1>0 DEF Strong, Reachable
<1>4. /\ components' \in Seq(SUBSET Classes) /\ Len(components') = n /\ components'[n] = part
      /\ \A i \in 1..(n - 1) : components'[i] = components[i]
  BY <1>1, <1>2, <1>3
<1>5. GraphInv' /\ OrderInv'
  <2>1. GraphInv'
    BY <1>1, <1>2, <1>3, <1>4 DEF CollectAll, GraphInv
  <2> QED
    BY <1>2, <2>1 DEF CollectAll, OrderInv
<1>6. Root' = r /\ order[b + 1] = r
  BY <1>0 DEF Root
<1>7. /\ b <= Len(order) /\ \A i \in 1..b : todo[i] = order[b + 1 - i]
      /\ \A i \in (b + 1)..Len(order) : order[i] \in Earlier \/ i = b + 1
  BY DEF CollectAll, BegunInv
<1>8. 1..n = 1..(n - 1) \cup {n} /\ \A i \in 1..(n - 1) : i # n
  BY <1>1
<1>9. \A i \in 1..(n - 1) : components[i] \subseteq Earlier /\ \E k \in Classes : components[i] = Strong(k)
  BY <1>1, <1>8 DEF CollectAll, PartsInv, n
<1> HIDE DEF n, b
<1>10. \A i, j \in 1..n : components'[i] \cap components'[j] # {} => i = j
  <2>1. \A i, j \in 1..(n - 1) : components[i] \cap components[j] # {} => i = j
    BY <1>8 DEF CollectAll, PartsInv, n
  <2> QED
    BY <1>4, <1>8, <1>9, <2>1
<1>11. seen' = UNION {components'[i] : i \in 1..n}
  <2>1. ASSUME NEW x PROVE x \in Earlier \cup part <=> \E i \in 1..n : x \in components'[i]
    <3>1. x \in Earlier <=> \E i \in 1..(n - 1) : x \in components[i]
      BY <1>1
    <3> QED
      BY <1>4, <1>8, <3>1
  <2> QED
    BY <2>1
<1>12. CASE pending' = <<>>
  <2>1. Range(pending') = {}
    BY <1>12 DEF Range
  <2>2. part = Strong(r)
    <3>1. \A k \in Classes : Range(graph[k]) \cap part # {} => k \in part \cup Earlier
      BY <2>1
    <3>2. \A e \in Earlier : Strong(e) \subseteq Earlier
      BY EarlierIsWhole
    <3>3. r \in part /\ part \in SUBSET Strong(r) /\ r \notin Earlier
      BY <1>0, <2>1
    <3> QED
      <4> HIDE DEF n, b
      <4>1. graph \in Graph /\ r \in Classes
        BY <1>1, <1>2
      <4> QED
        BY ONLY <4>1, <3>1, <3>2, <3>3, PartIsWhole, ZenonT(60)
  <2>3. Complete' = 1..n /\ Earlier' = seen'
    <3>1. Complete' = 1..n
      BY <1>4, <1>12 DEF Complete
    <3> QED
      BY <1>11, <3>1 DEF Earlier
  <2>4. PartsInv'
    <3>1. \A i \in 1..n : \E k \in Classes : components'[i] = Strong(k)
      BY <1>1, <1>4, <1>8, <1>9, <2>2
    <3> QED
      BY <1>2, <1>4, <1>10, <1>11, <3>1 DEF PartsInv
  <2>5. BegunInv'
    <3>1. \A i \in (b + 1)..Len(order) : order[i] \in Earlier'
      BY <1>0, <1>6, <1>7, <2>1, <2>3
    <3> QED
      BY <1>7, <3>1 DEF BegunInv, b
  <2>6. PartInv'
    BY <1>12 DEF PartInv
  <2> QED
    BY <1>5, <1>2, <2>4, <2>5, <2>6 DEF CollectAll
<1>13. CASE pending' # <<>>
  <2>1. Complete' = 1..(n - 1) /\ Earlier' = Earlier
    <3>1. Complete' = 1..(n - 1)
      <4>1. \A i \in 1..n : i < n <=> i \in 1..(n - 1)
        BY <1>1
      <4> QED
        BY <1>4, <1>8, <1>13, <4>1 DEF Complete
    <3>2. Earlier' = UNION {components'[i] : i \in 1..(n - 1)}
      BY <3>1 DEF Earlier
    <3> QED
      BY <1>1, <1>4, <3>1, <3>2
  <2>2. PartsInv'
    <3>1. \A i \in 1..(n - 1) : \E k \in Classes : components'[i] = Strong(k)
      BY <1>4, <1>9
    <3> QED
      BY <1>2, <1>4, <1>10, <1>11, <2>1, <3>1 DEF PartsInv
  <2>3. BegunInv'
    BY <1>7, <1>13, <2>1 DEF BegunInv, b
  <2>4. PartInv'
    <3>1. Len(todo') < Len(order') /\ Len(components') > 0
      BY <1>1, <1>4, <1>2 DEF b
    <3>2. Root' = Root /\ Strong(Root)' = Strong(Root)
      BY <1>0, <1>2, <1>6
    <3>3. components'[Len(components')] = part
      BY <1>4
    <3> QED
      BY <1>2, <2>1, <3>1, <3>2, <3>3 DEF PartInv
  <2> QED
    BY <1>2, <1>5, <2>2, <2>3, <2>4 DEF CollectAll
<1> QED
  BY <1>12, <1>13

(* What is taken from the stack is in the component, in an earlier one, or becomes part of it. *)
LEMMA CollectAppends == ASSUME CollectAll, AppendsComponent PROVE CollectAll'
<1> DEFINE n == Len(components)
<1>0. PICK key : key = Seqs!Last(pending)
  OBVIOUS
<1>1. /\ UNCHANGED <<graph, pc, todo, order>> /\ pending # <<>>
      /\ key \in seen => pending' = Seqs!Front(pending) /\ UNCHANGED <<seen, components>>
      /\ key \notin seen => /\ seen' = seen \cup {key}
                            /\ components' = [components EXCEPT ![n] = @ \cup {key}]
                            /\ pending' = Seqs!Front(pending) \o Predecessors(key)
  BY <1>0 DEF AppendsComponent
<1>2. /\ graph \in Graph /\ components \in Seq(SUBSET Classes) /\ pending \in Seq(Classes)
      /\ n \in Nat \ {0} /\ seen = Earlier \cup components[n] /\ components[n] \cap Earlier = {}
      /\ Root \in Classes /\ Earlier \subseteq Classes
  BY <1>1, PartShape DEF CollectAll, GraphInv
<1>3. /\ Root \in components[n] \cup Range(pending) /\ components[n] \subseteq Strong(Root) /\ Root \notin Earlier
      /\ Range(pending) \subseteq Strong(Root) \cup Earlier
      /\ \A k \in Classes : Range(graph[k]) \cap components[n] # {} => k \in seen \cup Range(pending)
  BY <1>1 DEF CollectAll, PartInv
<1>4. /\ Seqs!Front(pending) \in Seq(Classes) /\ key \in Classes
      /\ Range(pending) = Range(Seqs!Front(pending)) \cup {key}
  BY <1>0, <1>1, <1>2, FrontShape
<1> HIDE DEF n
<1>5. CASE key \in seen
  <2>1. pending' = Seqs!Front(pending) /\ seen' = seen /\ components' = components
    BY <1>1, <1>5
  <2>2. components' = [components EXCEPT ![n] = components[n]]
    BY <1>2, <2>1
  <2>3. seen' = Earlier \cup components[n] /\ pending' \in Seq(Classes)
    BY <1>2, <1>4, <2>1
  <2>4. Root \in components[n] \cup Range(pending')
    BY <1>2, <1>3, <1>4, <1>5, <2>1
  <2>5. Range(pending') \subseteq Strong(Root) \cup Earlier
    BY <1>3, <1>4, <2>1
  <2>6. \A k \in Classes : Range(graph[k]) \cap components[n] # {} => k \in seen' \cup Range(pending')
    BY <1>3, <1>4, <1>5, <2>1
  <2> QED
    BY <1>1, <1>2, <1>3, <2>2, <2>3, <2>4, <2>5, <2>6, PartGrows DEF n
<1>6. CASE key \notin seen
  <2> DEFINE part == components[n] \cup {key}
  <2>1. /\ seen' = seen \cup {key} /\ components' = [components EXCEPT ![n] = part]
        /\ pending' = Seqs!Front(pending) \o Predecessors(key)
    BY <1>1, <1>6
  <2>2. key \in Strong(Root)
    BY <1>2, <1>3, <1>4, <1>6
  <2>3. /\ Predecessors(key) \in Seq(Classes) /\ Range(Predecessors(key)) = {k \in Classes : key \in Range(graph[k])}
    BY <1>2, <1>4, KeysTypes
  <2>4. pending' \in Seq(Classes) /\ Range(pending') = Range(Seqs!Front(pending)) \cup Range(Predecessors(key))
    BY <1>4, <2>1, <2>3, RangeOfConcat
  <2>5. Range(Predecessors(key)) \subseteq Strong(Root) \cup Earlier
    BY <1>1, <2>2, <2>3, LeadsToRoot
  <2>6. part \in SUBSET Strong(Root) /\ part \cap Earlier = {} /\ seen' = Earlier \cup part
    BY <1>2, <1>3, <1>6, <2>1, <2>2
  <2>7. Root \in part \cup Range(pending') /\ Range(pending') \subseteq Strong(Root) \cup Earlier
    BY <1>3, <1>4, <2>4, <2>5
  <2>8. \A k \in Classes : Range(graph[k]) \cap part # {} => k \in seen' \cup Range(pending')
    BY <1>3, <1>4, <2>1, <2>3, <2>4
  <2> HIDE DEF part
  <2> QED
    BY <1>1, <1>3, <2>1, <2>4, <2>6, <2>7, <2>8, PartGrows DEF n
<1> QED
  BY <1>5, <1>6

(* When nothing is left to begin with, each class is in the one component that is its. *)
LEMMA CollectEnds ==
  ASSUME CollectAll, EndsComponents
  PROVE  (GraphInv /\ PostInv /\ OrderInv /\ CollectInv /\ ComponentsInv)'
<1> DEFINE n == Len(components)
<1>1. /\ UNCHANGED <<graph, todo, pending, seen, order, components>>
      /\ pending = <<>> /\ todo = <<>> /\ pc' = "sources"
  BY DEF EndsComponents, traversal
<1>2. /\ graph \in Graph /\ order \in Seq(Classes) /\ Range(order) = Classes /\ components \in Seq(SUBSET Classes)
      /\ Classes' = Classes /\ \A k : Strong(k)' = Strong(k) /\ Topped(k)' = Topped(k)
  BY <1>1, SameReach DEF CollectAll, GraphInv, OrderInv, Topped
<1>3. n \in Nat /\ DOMAIN components = 1..n /\ Complete = 1..n /\ Earlier = UNION {components[i] : i \in 1..n}
  <2>1. Complete = 1..n
    BY <1>1 DEF Complete
  <2> QED
    BY <1>2, <2>1 DEF Earlier
<1>4. \A k \in Classes : \E i \in 1..n : k \in components[i]
  <2>1. Len(todo) + 1 = 1 /\ \A i \in 1..Len(order) : i \in 1..Len(order)
    BY <1>1
  <2>2. \A i \in 1..Len(order) : order[i] \in Earlier
    BY <1>1, <2>1 DEF CollectAll, BegunInv
  <2>3. Classes = {order[i] : i \in 1..Len(order)}
    BY <1>2, RangeOfSeq
  <2> QED
    BY <1>3, <2>2, <2>3
<1> HIDE DEF n
<1>5. \A i \in 1..n : \E k \in Classes : components[i] = Strong(k)
  BY <1>3 DEF CollectAll, PartsInv, n
<1>6. Range(components) = {Strong(k) : k \in Classes}
  <2>1. Range(components) = {components[i] : i \in 1..n}
    BY <1>2, RangeOfSeq DEF n
  <2>2. ASSUME NEW k \in Classes PROVE \E i \in 1..n : components[i] = Strong(k)
    <3>1. PICK i \in 1..n : k \in components[i]
      BY <1>4
    <3>2. PICK r \in Classes : components[i] = Strong(r)
      BY <1>5
    <3>3. Strong(k) = Strong(r)
      BY <1>2, <3>1, <3>2, StrongClasses
    <3> QED
      BY <3>2, <3>3
  <2> QED
    BY <1>5, <2>1, <2>2
<1>7. IsInjective(components)
  <2>1. ASSUME NEW i \in 1..n, NEW j \in 1..n, components[i] = components[j] PROVE i = j
    <3>1. PICK k \in Classes : components[i] = Strong(k)
      BY <1>5
    <3>2. k \in components[i] \cap components[j]
      BY <2>1, <3>1, ReachesItself
    <3> QED
      BY <3>2 DEF CollectAll, PartsInv, n
  <2> QED
    BY <1>3, <2>1 DEF IsInjective
<1>8. GraphInv' /\ OrderInv'
  <2>1. GraphInv'
    BY <1>1, <1>2 DEF CollectAll, GraphInv
  <2> QED
    BY <1>1, <1>2, <2>1 DEF CollectAll, OrderInv
<1>9. ComponentsInv'
  BY <1>1, <1>2, <1>6, <1>7 DEF ComponentsInv
<1> QED
  BY <1>1, <1>8, <1>9 DEF PostInv, CollectInv

ClassesInv == GraphInv /\ PostInv /\ OrderInv /\ CollectInv /\ ComponentsInv

(* The invariant of the traversals: at the start, and kept by every step. *)
LEMMA ClassesInit == ASSUME CompositionInit PROVE ClassesInv
<1>1. /\ graph \in Graph /\ pc = "postorder" /\ todo = Keys /\ pending = <<>> /\ seen = {} /\ order = <<>> /\ components = <<>>
  BY DEF CompositionInit
<1>2. todo \in Seq(Classes) /\ Range(todo) = Classes
  BY <1>1, KeysTypes
<1>3. Grey = {} /\ 1..Len(pending) = {} /\ Range(order) = {} /\ IsInjective(order)
  <2>1. 1..Len(<<>>) = {} /\ Range(<<>>) = {} /\ DOMAIN <<>> = {}
    BY DEF Range
  <2> QED
    BY <1>1, <2>1 DEF Grey, IsInjective
<1>4. PostTypes /\ order \in Seq(Classes) /\ components \in Seq(SUBSET Classes)
  BY <1>1 DEF PostTypes
<1>5. SeenInv /\ EdgesInv /\ PathInv /\ ToppedInv
  BY <1>1, <1>2, <1>3 DEF SeenInv, EdgesInv, PathInv, ToppedInv
<1>6. GraphInv
  BY <1>1, <1>2, <1>4 DEF GraphInv
<1>7. OrderInv
  BY <1>1, <1>3, <1>4 DEF OrderInv
<1> QED
  BY <1>1, <1>4, <1>5, <1>6, <1>7 DEF ClassesInv, PostInv, CollectInv, ComponentsInv

(* What follows the components changes nothing of them.                              *)
SearchStep ==
  StartsChain \/ CachedDependency \/ CycleDependency \/ BoundedDependency \/ EntersDependency
  \/ CompletesFrame \/ AppendsName \/ Reports

LEMMA SearchSteps ==
  ASSUME SearchStep
  PROVE  /\ UNCHANGED <<graph, todo, pending, seen, order, components>>
         /\ pc \in {"sources", "search", "names"} /\ pc' \in {"sources", "search", "names"}
<1> USE DEF traversal, search
<1>1. CASE StartsChain
  BY <1>1 DEF StartsChain
<1>2. CASE CachedDependency
  BY <1>2 DEF CachedDependency, Searching
<1>3. CASE CycleDependency
  BY <1>3 DEF CycleDependency, Searching
<1>4. CASE BoundedDependency
  BY <1>4 DEF BoundedDependency, New, Searching
<1>5. CASE EntersDependency
  BY <1>5 DEF EntersDependency, New, Searching
<1>6. CASE CompletesFrame
  BY <1>6 DEF CompletesFrame
<1>7. CASE AppendsName
  BY <1>7 DEF AppendsName
<1>8. CASE Reports
  BY <1>8 DEF Reports
<1> QED
  BY <1>1, <1>2, <1>3, <1>4, <1>5, <1>6, <1>7, <1>8 DEF SearchStep

(* The invariant is about the graph, the traversals and the components only. *)
LEMMA ClassesStay ==
  ASSUME ClassesInv, UNCHANGED <<graph, todo, pending, seen, order, components>>,
         pc' = pc \/ (pc \in {"sources", "search", "names"} /\ pc' \in {"sources", "search", "names"})
  PROVE  ClassesInv'
<1>1. Classes' = Classes /\ \A k : Strong(k)' = Strong(k) /\ Reachable(k)' = Reachable(k) /\ Topped(k)' = Topped(k)
  BY SameReach DEF Topped
<1>2. GraphInv'
  BY <1>1 DEF ClassesInv, GraphInv
<1>3. OrderInv'
  BY <1>1 DEF ClassesInv, OrderInv
<1>4. ComponentsInv'
  BY <1>1 DEF ClassesInv, ComponentsInv
<1>5. PostInv'
  <2>1. Grey' = Grey /\ \A i : KeyAt(i)' = KeyAt(i)
    BY DEF Grey, KeyAt
  <2>2. PostTypes' <=> PostTypes
    BY <1>1 DEF PostTypes
  <2>3. SeenInv' <=> SeenInv
    BY <1>1, <2>1 DEF SeenInv
  <2>4. EdgesInv' <=> EdgesInv
    BY <2>1 DEF EdgesInv
  <2>5. PathInv' <=> PathInv
    BY <1>1, <2>1 DEF PathInv
  <2>6. ToppedInv' <=> ToppedInv
    BY <1>1, <2>1 DEF ToppedInv
  <2> QED
    BY <2>2, <2>3, <2>4, <2>5, <2>6 DEF ClassesInv, PostInv
<1>6. CollectInv'
  <2>1. Complete' = Complete /\ Root' = Root
    BY DEF Complete, Root
  <2>2. Earlier' = Earlier
    BY <2>1 DEF Earlier
  <2>3. PartsInv' <=> PartsInv
    BY <1>1, <2>1 DEF PartsInv
  <2>4. BegunInv' <=> BegunInv
    BY <2>2 DEF BegunInv
  <2>5. PartInv' <=> PartInv
    BY <1>1, <2>1, <2>2 DEF PartInv
  <2> QED
    BY <1>1, <2>3, <2>4, <2>5 DEF ClassesInv, CollectInv
<1> QED
  BY <1>2, <1>3, <1>4, <1>5, <1>6 DEF ClassesInv

(* Every step keeps the invariant. *)
LEMMA ClassesStep == ASSUME ClassesInv, [CompositionNext]_compositionVars PROVE ClassesInv'
<1> DEFINE Posts == StartsPostorder \/ Expanded \/ SeenBefore \/ Expands
           Collects == StartsComponent \/ AppendsComponent
<1>1. CASE Posts
  <2>1. PostAll
    <3>1. pc = "postorder"
      BY <1>1 DEF StartsPostorder, Expanded, SeenBefore, Expands
    <3> QED
      BY <3>1 DEF ClassesInv, PostInv, PostAll
  <2>2. PostAll'
    BY <1>1, <2>1, PostBegins, PostOrders, PostSkips, PostExpands
  <2>3. Range(todo)' \subseteq Classes'
    <3>1. todo' \in Seq(Classes')
      BY <2>2 DEF PostAll, GraphInv
    <3> QED
      BY <3>1, RangeOfSeq
  <2> QED
    BY <2>2, <2>3, StillPost DEF ClassesInv
<1>2. CASE EndsPostorder
  <2>1. PostAll
    <3>1. pc = "postorder"
      BY <1>2 DEF EndsPostorder
    <3> QED
      BY <3>1 DEF ClassesInv, PostInv, PostAll
  <2> QED
    BY <1>2, <2>1, PostEnds, StillCollects DEF ClassesInv
<1>3. CASE Collects
  <2>1. CollectAll
    <3>1. pc = "components"
      BY <1>3 DEF StartsComponent, AppendsComponent
    <3> QED
      BY <3>1 DEF ClassesInv, CollectInv, CollectAll
  <2> QED
    BY <1>3, <2>1, CollectBegins, CollectAppends, StillCollects DEF ClassesInv
<1>4. CASE EndsComponents
  <2>1. CollectAll
    <3>1. pc = "components"
      BY <1>4 DEF EndsComponents
    <3> QED
      BY <3>1 DEF ClassesInv, CollectInv, CollectAll
  <2> QED
    BY <1>4, <2>1, CollectEnds DEF ClassesInv
<1>5. CASE SearchStep
  BY <1>5, SearchSteps, ClassesStay
<1>6. CASE UNCHANGED compositionVars
  BY <1>6, ClassesStay DEF compositionVars, traversal
<1> QED
  BY <1>1, <1>2, <1>3, <1>4, <1>5, <1>6 DEF CompositionNext, SearchStep

(* Whatever the graph, CompositionComponents keeps to what Kosaraju's algorithm rests on: *)
(* what a class leads to is before it in the postorder, except for its own component, and *)
(* a component is whole when the next one is begun with.                               *)
THEOREM ClassesInvariant == CompositionSpec => []ClassesInv
<1> QED
  BY ClassesInit, ClassesStep, PTL DEF CompositionSpec

(* The representative of a component is a class of it. *)
LEMMA RepresentativeOf ==
  ASSUME NEW c \in SUBSET Nat, c # {}
  PROVE  representative(c) \in c
<1>1. \E key \in c : \A k \in c : key <= k
  BY SmallestOf
<1> QED
  BY <1>1 DEF representative

(* Of all the classes that lead to a class, the component of the last one is a source:  *)
(* what leads to that component leads to the class too, and comes last of what it       *)
(* reaches.                                                                          *)
LEMMA SourceAbove ==
  ASSUME graph \in Graph, OrderInv, pc # "postorder", NEW x \in Classes
  PROVE  \E k \in Classes : x \in Reachable(k) /\ \A j \in Classes \ Strong(k) : Range(graph[j]) \cap Strong(k) = {}
<1> DEFINE n == Len(order)
           A == {m \in 0..n : n - m \in 1..n /\ x \in Reachable(order[n - m])}
<1>1. /\ order \in Seq(Classes) /\ IsInjective(order) /\ n \in Nat /\ Classes = {order[i] : i \in 1..n}
      /\ DOMAIN order = 1..n /\ \A k \in Classes : Topped(k)
  BY RangeOfSeq DEF OrderInv
<1>2. A # {}
  <2>1. PICK i \in 1..n : x = order[i]
    BY <1>1
  <2>2. x \in Reachable(order[i])
    BY <2>1, ReachesItself
  <2>3. n - i \in 0..n /\ n - (n - i) = i
    BY <1>1
  <2> QED
    BY <2>2, <2>3
<1>3. PICK m \in A : \A l \in A : m <= l
  <2>1. A \in SUBSET Nat
    BY <1>1
  <2> HIDE DEF A
  <2> QED
    BY <1>2, <2>1, SmallestOf
<1>4. PICK i : i = n - m
  OBVIOUS
<1>5. i \in 1..n /\ x \in Reachable(order[i])
  BY <1>3, <1>4
<1>6. ASSUME NEW t \in 1..n, x \in Reachable(order[t]) PROVE t <= i
  <2>1. n - t \in 0..n /\ n - (n - t) = t
    BY <1>1
  <2>2. m <= n - t /\ m \in 0..n
    BY <1>3, <1>6, <2>1
  <2> QED
    BY <1>1, <1>4, <2>2
<1> HIDE DEF n, A
<1>7. PICK k \in Classes : k = order[i]
  BY <1>1, <1>5
<1>8. ASSUME NEW j \in Classes \ Strong(k), NEW d \in Range(graph[j]) \cap Strong(k) PROVE FALSE
  <2>1. j \in Reachable(j) /\ d \in Reachable(j) /\ k \in Reachable(d)
    <3>1. j \in Reachable(j)
      BY ReachesItself
    <3> QED
      BY <3>1, ReachesNext DEF Strong
  <2>2. k \in Reachable(j)
    BY <2>1, ReachesOn
  <2>3. x \in Reachable(j)
    BY <1>5, <1>7, <2>2, ReachesOn
  <2>4. PICK t \in 1..n : order[t] \in Strong(j) /\ Reachable(j) \subseteq {order[l] : l \in 1..t}
    BY <1>1 DEF Topped, n
  <2>5. Reachable(order[t]) = Reachable(j)
    BY <2>4, StrongClasses
  <2>6. t <= i
    BY <1>6, <2>3, <2>5
  <2>7. PICK l \in 1..t : order[l] = order[i]
    BY <1>7, <2>2, <2>4
  <2>8. l \in 1..n
    BY <1>1
  <2>9. l = i
    BY <1>1, <1>5, <2>7, <2>8 DEF IsInjective
  <2>10. t = i
    BY <1>5, <2>6, <2>9
  <2> QED
    BY <1>7, <2>4, <2>10, StrongClasses
<1> QED
  BY <1>5, <1>7, <1>8

(* The invariant says what the components are, and with SourceAbove what the sources are. *)
LEMMA StrongComponents == ClassesInv => ComponentsAreStrong
<1> SUFFICES ASSUME ClassesInv, pc = "sources", sources = Sources
             PROVE  /\ Range(components) = {{k \in Reachable(key) : key \in Reachable(k)} : key \in Classes}
                    /\ IsInjective(components)
                    /\ Classes = UNION {Reachable(representative(c)) : c \in Range(sources)}
  BY DEF ComponentsAreStrong
<1>1. /\ graph \in Graph /\ OrderInv /\ Range(components) = {Strong(k) : k \in Classes} /\ IsInjective(components)
      /\ components \in Seq(SUBSET Classes)
  BY DEF ClassesInv, GraphInv, ComponentsInv
<1>2. Range(sources) = Range(components) \cap {c \in Range(components) : \A k \in Classes \ c : Range(graph[k]) \cap c = {}}
  BY <1>1, OnlyThose DEF Sources
<1>3. ASSUME NEW x \in Classes PROVE \E c \in Range(sources) : x \in Reachable(representative(c))
  <2>1. PICK k \in Classes : x \in Reachable(k) /\ \A j \in Classes \ Strong(k) : Range(graph[j]) \cap Strong(k) = {}
    BY <1>1, SourceAbove
  <2>2. Strong(k) \in Range(sources)
    BY <1>1, <1>2, <2>1
  <2>3. Strong(k) \in SUBSET Nat /\ k \in Strong(k)
    BY <1>1, GraphTypes, ReachesItself DEF Strong, Reachable
  <2>4. representative(Strong(k)) \in Strong(k)
    BY <2>3, RepresentativeOf
  <2>5. Reachable(representative(Strong(k))) = Reachable(k)
    BY <1>1, <2>4, StrongClasses
  <2> QED
    BY <2>1, <2>2, <2>5
<1>4. \A k : Reachable(k) \subseteq Classes
  BY DEF Reachable
<1>5. Classes = UNION {Reachable(representative(c)) : c \in Range(sources)}
  BY <1>3, <1>4
<1> QED
  BY <1>1, <1>5 DEF Strong

(* source_components_from gives the chains a class of each component that no other       *)
(* component depends on, and every class of the graph is reached from one of these.     *)
THEOREM ComponentsOfTheGraph == CompositionSpec => []ComponentsAreStrong
<1> QED
  BY ClassesInvariant, StrongComponents, PTL

(* The search: what its stack and its answers are made of.                            *)
Answer == FoundState \cup {Nothing}
FrameShape ==
  [key : Classes, rest : Seq(Classes), depth : Nat, next : Classes \cup {Nothing}, cyclic : BOOLEAN,
   waiting : Classes \cup {Nothing}]
Distinct == \A i, j \in 1..Len(frames) : frames[i].key = frames[j].key => i = j
Waits == \A i \in 2..Len(frames) : frames[i - 1].waiting = frames[i].key
SearchInv ==
  /\ sources \in Seq((SUBSET Classes) \ {{}}) /\ contextual \subseteq Classes /\ names \in Seq(Classes)
  /\ states \in [Class -> Answer] /\ memo \in [Class -> Answer]
  /\ frames \in Seq(FrameShape) /\ Distinct /\ Waits
  /\ pc \in {"search", "names"} => sources # <<>>
  /\ pc = "search" => frames # <<>>
  /\ pc = "names" => names # <<>>

(* The frame of a class, of a step of its loop, and what is known of a class. *)
LEMMA FrameOf ==
  ASSUME graph \in Graph, NEW key \in Classes
  PROVE  ChainFrame(key) \in FrameShape /\ ChainFrame(key).key = key
  BY GraphTypes DEF ChainFrame, FrameShape

(* A stack with another frame in the place of its top, which is of the same class.    *)
LEMMA TopChanges ==
  ASSUME SearchInv, frames # <<>>, NEW f \in FrameShape, f.key = TopFrame.key, graph' = graph,
         frames' = [frames EXCEPT ![Len(frames)] = f]
  PROVE  (frames \in Seq(FrameShape) /\ Distinct /\ Waits /\ frames # <<>>)' /\ Len(frames') = Len(frames)
<1> DEFINE n == Len(frames)
<1>1. frames \in Seq(FrameShape) /\ n \in Nat \ {0} /\ FrameShape' = FrameShape
  <2>1. FrameShape' = FrameShape
    BY SameReach DEF FrameShape
  <2> QED
    BY <2>1 DEF SearchInv
<1>2. frames' \in Seq(FrameShape) /\ Len(frames') = n /\ frames' # <<>> /\ \A i \in 1..n : frames'[i] = IF i = n THEN f ELSE frames[i]
  BY <1>1
<1>3. \A i \in 1..n : frames'[i].key = frames[i].key
  BY <1>2 DEF TopFrame
<1>4. Distinct'
  BY <1>2, <1>3 DEF SearchInv, Distinct
<1>5. Waits'
  <2>1. \A i \in 2..n : i - 1 \in 1..n /\ i - 1 # n /\ i \in 1..n
    BY <1>1
  <2>2. \A i \in 2..n : frames'[i - 1] = frames[i - 1] /\ frames'[i].key = frames[i].key
    BY <1>2, <1>3, <2>1
  <2>3. \A i \in 2..n : frames[i - 1].waiting = frames[i].key
    BY DEF SearchInv, Waits
  <2> QED
    BY <1>2, <2>2, <2>3 DEF Waits
<1> QED
  BY <1>1, <1>2, <1>4, <1>5

(* The frame on top, and the dependency it is at. *)
LEMMA TopFrameTypes ==
  ASSUME SearchInv, GraphInv, pc = "search"
  PROVE  /\ frames \in Seq(FrameShape) /\ Len(frames) \in Nat \ {0} /\ TopFrame \in FrameShape /\ TopFrame = frames[Len(frames)]
         /\ TopFrame.rest # <<>> => Dependency \in Classes /\ Tail(TopFrame.rest) \in Seq(Classes)
<1>1. frames \in Seq(FrameShape) /\ frames # <<>>
  BY DEF SearchInv
<1>2. Len(frames) \in Nat \ {0} /\ frames[Len(frames)] \in FrameShape
  BY <1>1
<1>3. TopFrame.rest \in Seq(Classes)
  BY <1>2 DEF TopFrame, FrameShape
<1> QED
  BY <1>1, <1>2, <1>3 DEF TopFrame, Dependency

(* A frame that has gone on to its next dependency. *)
LEMMA SelectsFrame ==
  ASSUME NEW frame \in FrameShape, NEW key \in Classes, NEW depth \in Nat, Tail(frame.rest) \in Seq(Classes)
  PROVE  Selects(frame, key, depth) \in FrameShape /\ Selects(frame, key, depth).key = frame.key
<1> DEFINE longer == IF depth >= frame.depth THEN [frame EXCEPT !.depth = depth, !.next = key] ELSE frame
<1>1. longer \in FrameShape /\ longer.key = frame.key /\ longer.rest = frame.rest
  BY DEF FrameShape
<1> HIDE DEF longer
<1>2. /\ [longer EXCEPT !.rest = Tail(@), !.waiting = Nothing] \in FrameShape
      /\ [longer EXCEPT !.rest = Tail(@), !.waiting = Nothing].key = frame.key
  BY <1>1 DEF FrameShape
<1>3. Selects(frame, key, depth) = [longer EXCEPT !.rest = Tail(@), !.waiting = Nothing]
  BY DEF Selects, longer
<1> QED
  BY <1>2, <1>3

(* What is known of a class. *)
LEMMA KnownTypes ==
  ASSUME SearchInv, GraphInv, NEW key \in Classes
  PROVE  states[key] \in Answer /\ memo[key] \in Answer /\ Known(key) \in Answer /\ key \in Class
<1>1. key \in Class
  BY GraphTypes DEF GraphInv
<1> QED
  BY <1>1 DEF SearchInv, Known

(* A step that changes no more than the stack. *)
FrameStep ==
  UNCHANGED <<graph, pc, traversal, components, sources, states, contextual, memo, names, reported>>

(* It keeps the invariant if the stack is still a path. *)
LEMMA FramesOnly ==
  ASSUME SearchInv, FrameStep, (frames \in Seq(FrameShape) /\ Distinct /\ Waits /\ frames # <<>>)'
  PROVE  SearchInv'
<1>1. Classes' = Classes /\ Answer' = Answer
  BY SameReach DEF FrameStep, Answer, FoundState
<1> QED
  BY <1>1 DEF FrameStep, SearchInv

(* At the start nothing is searched. *)
LEMMA SearchInit == ASSUME CompositionInit PROVE SearchInv
<1>1. /\ sources = <<>> /\ frames = <<>> /\ names = <<>> /\ contextual = {} /\ states = Unknown /\ memo = Unknown
      /\ pc = "postorder"
  BY DEF CompositionInit
<1>2. Unknown \in [Class -> Answer]
  BY DEF Unknown, Answer
<1>3. Distinct /\ Waits
  <2>1. 1..Len(<<>>) = {} /\ 2..Len(<<>>) = {}
    OBVIOUS
  <2> QED
    BY <1>1, <2>1 DEF Distinct, Waits
<1> QED
  BY <1>1, <1>2, <1>3 DEF SearchInv

(* A dependency that is known is selected or not. *)
LEMMA SearchCached == ASSUME SearchInv, GraphInv, CachedDependency PROVE SearchInv'
<1> DEFINE d == Dependency
           f == Selects(TopFrame, d, Known(d).depth)
<1>1. pc = "search" /\ TopFrame.rest # <<>> /\ Known(d) # Nothing /\ FrameStep
  BY DEF CachedDependency, Searching, FrameStep
<1>2. d \in Classes /\ TopFrame \in FrameShape /\ Tail(TopFrame.rest) \in Seq(Classes)
  BY <1>1, TopFrameTypes
<1>3. Known(d).depth \in Nat
  BY <1>1, <1>2, KnownTypes DEF Answer, FoundState
<1>4. f \in FrameShape /\ f.key = TopFrame.key
  BY <1>2, <1>3, SelectsFrame
<1>5. frames' = [frames EXCEPT ![Len(frames)] = f] /\ frames # <<>> /\ graph' = graph
  <2>1. frames # <<>> /\ graph' = graph
    BY <1>1 DEF SearchInv, FrameStep
  <2> QED
    BY <2>1 DEF CachedDependency, TopFrame
<1> HIDE DEF f, d
<1> QED
  BY <1>1, <1>4, <1>5, TopChanges, FramesOnly

(* A dependency on the path closes a cycle, and all frames are told. *)
LEMMA SearchCycle == ASSUME SearchInv, GraphInv, CycleDependency PROVE SearchInv'
<1> DEFINE n == Len(frames)
           d == Dependency
           g(i) == IF i = n THEN Selects(frames[i], d, 1) ELSE frames[i]
<1>1. pc = "search" /\ TopFrame.rest # <<>> /\ FrameStep /\ frames' = [i \in DOMAIN frames |-> [g(i) EXCEPT !.cyclic = TRUE]]
  BY DEF CycleDependency, Searching, FrameStep
<1>2. /\ frames \in Seq(FrameShape) /\ n \in Nat \ {0} /\ d \in Classes /\ DOMAIN frames = 1..n
      /\ frames[n] \in FrameShape /\ Tail(frames[n].rest) \in Seq(Classes)
  BY <1>1, TopFrameTypes
<1>3. ASSUME NEW i \in 1..n
      PROVE  /\ [g(i) EXCEPT !.cyclic = TRUE] \in FrameShape /\ [g(i) EXCEPT !.cyclic = TRUE].key = frames[i].key
             /\ i # n => [g(i) EXCEPT !.cyclic = TRUE].waiting = frames[i].waiting
  <2>1. g(i) \in FrameShape /\ g(i).key = frames[i].key /\ (i # n => g(i) = frames[i])
    <3>1. Selects(frames[n], d, 1) \in FrameShape /\ Selects(frames[n], d, 1).key = frames[n].key
      BY <1>2, SelectsFrame
    <3>2. frames[i] \in FrameShape
      BY <1>2
    <3>3. CASE i = n
      BY <3>1, <3>3
    <3>4. CASE i # n
      BY <3>2, <3>4
    <3> QED
      BY <3>3, <3>4
  <2> HIDE DEF g
  <2> QED
    BY <2>1 DEF FrameShape
<1> HIDE DEF g, n, d
<1>4. frames' \in Seq(FrameShape) /\ Len(frames') = n /\ frames' # <<>>
  <2>1. frames' = [i \in 1..n |-> [g(i) EXCEPT !.cyclic = TRUE]]
    BY <1>1, <1>2
  <2>2. frames' \in [1..n -> FrameShape]
    BY <1>3, <2>1
  <2> QED
    BY <1>2, <2>2
<1>5. \A i \in 1..n : frames'[i].key = frames[i].key /\ (i # n => frames'[i].waiting = frames[i].waiting)
  BY <1>1, <1>2, <1>3
<1>6. FrameShape' = FrameShape
  BY <1>1, SameReach DEF FrameShape, FrameStep
<1>7. Distinct'
  BY <1>4, <1>5 DEF SearchInv, Distinct, n
<1>8. Waits'
  <2>1. \A i \in 2..n : i - 1 \in 1..n /\ i - 1 # n /\ i \in 1..n
    BY <1>2
  <2>2. \A i \in 2..n : frames[i - 1].waiting = frames[i].key
    BY DEF SearchInv, Waits, n
  <2> QED
    BY <1>4, <1>5, <2>1, <2>2 DEF Waits
<1> QED
  BY <1>1, <1>4, <1>6, <1>7, <1>8, FramesOnly

(* A dependency is left out at the bound. *)
LEMMA SearchBounded == ASSUME SearchInv, GraphInv, BoundedDependency PROVE SearchInv'
<1>1. /\ pc = "search" /\ TopFrame.rest # <<>> /\ FrameStep
      /\ frames' = [frames EXCEPT ![Len(frames)].rest = Tail(@)]
  BY DEF BoundedDependency, New, Searching, FrameStep
<1>2. TopFrame \in FrameShape /\ Tail(TopFrame.rest) \in Seq(Classes) /\ frames # <<>> /\ graph' = graph
  BY <1>1, TopFrameTypes DEF SearchInv, FrameStep
<1>3. PICK f : f = [TopFrame EXCEPT !.rest = Tail(@)]
  OBVIOUS
<1>4. f \in FrameShape /\ f.key = TopFrame.key
  BY <1>2, <1>3 DEF FrameShape
<1>5. frames' = [frames EXCEPT ![Len(frames)] = f]
  BY <1>1, <1>3 DEF TopFrame
<1> QED
  BY <1>1, <1>2, <1>4, <1>5, TopChanges, FramesOnly

(* A dependency that is not on the path is entered, and waited for by the top. *)
LEMMA SearchEnters == ASSUME SearchInv, GraphInv, EntersDependency PROVE SearchInv'
<1> DEFINE n == Len(frames)
<1>0. PICK d : d = Dependency
  OBVIOUS
<1>1. /\ pc = "search" /\ TopFrame.rest # <<>> /\ FrameStep /\ d \notin active
      /\ frames' = Append([frames EXCEPT ![n].waiting = d], ChainFrame(d))
  BY <1>0 DEF EntersDependency, New, Searching, FrameStep
<1>2. frames \in Seq(FrameShape) /\ n \in Nat \ {0} /\ d \in Classes /\ TopFrame \in FrameShape /\ TopFrame = frames[n]
  BY <1>0, <1>1, TopFrameTypes
<1>3. PICK f : f = [frames[n] EXCEPT !.waiting = d]
  OBVIOUS
<1>4. f \in FrameShape /\ f.key = frames[n].key /\ f.waiting = d
  BY <1>2, <1>3 DEF FrameShape
<1>5. PICK fs : fs = [frames EXCEPT ![n] = f]
  OBVIOUS
<1>6. fs \in Seq(FrameShape) /\ Len(fs) = n /\ \A i \in 1..n : fs[i] = IF i = n THEN f ELSE frames[i]
  BY <1>2, <1>4, <1>5
<1>7. PICK top : top = ChainFrame(d)
  OBVIOUS
<1>8. top \in FrameShape /\ top.key = d
  BY <1>2, <1>7, FrameOf DEF GraphInv
<1>9. frames' = Append(fs, top)
  BY <1>1, <1>3, <1>5, <1>7
<1> HIDE DEF n
<1>10. /\ frames' \in Seq(FrameShape) /\ Len(frames') = n + 1 /\ frames' # <<>> /\ frames'[n + 1] = top
       /\ \A i \in 1..n : frames'[i] = fs[i]
  BY <1>2, <1>6, <1>8, <1>9
<1>11. \A i \in 1..n : frames'[i].key = frames[i].key /\ frames[i].key # d
  <2>1. \A i \in 1..n : frames[i].key \in active
    BY <1>2 DEF active, n
  <2> QED
    BY <1>1, <1>4, <1>6, <1>10, <2>1
<1>12. Distinct'
  <2>1. \A i \in 1..(n + 1) : i \in 1..n \/ i = n + 1
    BY <1>2
  <2>2. \A i, j \in 1..n : frames[i].key = frames[j].key => i = j
    BY DEF SearchInv, Distinct, n
  <2> QED
    BY <1>8, <1>10, <1>11, <2>1, <2>2 DEF Distinct
<1>13. Waits'
  <2>1. \A i \in 2..n : frames[i - 1].waiting = frames[i].key
    BY DEF SearchInv, Waits, n
  <2>2. \A i \in 2..n : i - 1 \in 1..n /\ i - 1 # n /\ i \in 1..n
    BY <1>2
  <2>3. \A i \in 2..n : frames'[i - 1].waiting = frames'[i].key
    BY <1>6, <1>10, <1>11, <2>1, <2>2
  <2>4. frames'[(n + 1) - 1].waiting = frames'[n + 1].key
    <3>1. (n + 1) - 1 = n /\ n \in 1..n
      BY <1>2
    <3> QED
      BY <1>4, <1>6, <1>8, <1>10, <3>1
  <2>5. \A i \in 2..(n + 1) : i \in 2..n \/ i = n + 1
    BY <1>2
  <2> QED
    BY <1>10, <2>3, <2>4, <2>5 DEF Waits
<1>14. FrameShape' = FrameShape
  BY <1>1, SameReach DEF FrameShape, FrameStep
<1> QED
  BY <1>1, <1>10, <1>12, <1>13, <1>14, FramesOnly

(* A class that is done is answered and left. *)
LEMMA SearchCompletes == ASSUME SearchInv, GraphInv, CompletesFrame PROVE SearchInv'
<1> DEFINE n == Len(frames)
           state == [depth |-> TopFrame.depth + 1, next |-> TopFrame.next]
           key == TopFrame.key
<1>1. /\ pc = "search" /\ frames' = Seqs!Front(frames) /\ UNCHANGED <<graph, sources>>
      /\ states' = [states EXCEPT ![key] = state]
      /\ (contextual' = contextual \cup {key} /\ memo' = memo) \/ (memo' = [memo EXCEPT ![key] = state] /\ contextual' = contextual)
      /\ IF n = 1 THEN pc' = "names" /\ names' = <<key>> ELSE pc' = pc /\ names' = names
  BY DEF CompletesFrame
<1>2. frames \in Seq(FrameShape) /\ n \in Nat \ {0} /\ TopFrame \in FrameShape
  BY <1>1, TopFrameTypes
<1>3. key \in Classes /\ key \in Class /\ state \in FoundState
  BY <1>2, GraphTypes DEF FrameShape, FoundState, GraphInv
<1> HIDE DEF key, state
<1>4. Classes' = Classes /\ Answer' = Answer /\ FrameShape' = FrameShape
  BY <1>1, SameReach DEF Answer, FoundState, FrameShape
<1>5. states' \in [Class -> Answer] /\ memo' \in [Class -> Answer] /\ contextual' \subseteq Classes
  BY <1>1, <1>3 DEF SearchInv, Answer
<1>6. /\ frames' \in Seq(FrameShape) /\ Len(frames') = n - 1 /\ \A i \in 1..(n - 1) : frames'[i] = frames[i] /\ i \in 1..n
  BY <1>1, <1>2, FrontShape
<1> HIDE DEF n
<1>7. Distinct'
  BY <1>6 DEF SearchInv, Distinct, n
<1>8. Waits'
  <2>1. \A i \in 2..(n - 1) : i - 1 \in 1..(n - 1) /\ i \in 1..(n - 1) /\ i \in 2..n
    BY <1>2
  <2>2. \A i \in 2..n : frames[i - 1].waiting = frames[i].key
    BY DEF SearchInv, Waits, n
  <2> QED
    BY <1>6, <2>1, <2>2 DEF Waits
<1>9. names' \in Seq(Classes) /\ (pc' = "names" => names' # <<>>) /\ pc' \in {"search", "names"} /\ (pc' = "search" => frames' # <<>>)
  <2>1. CASE n = 1
    <3>1. names' = <<key>> /\ pc' = "names"
      BY <1>1, <2>1
    <3> QED
      BY <1>3, <3>1
  <2>2. CASE n # 1
    <3>1. Len(frames') # 0
      BY <1>2, <1>6, <2>2
    <3> QED
      BY <1>1, <2>2, <3>1 DEF SearchInv
  <2> QED
    BY <2>1, <2>2
<1>10. sources' \in Seq((SUBSET Classes) \ {{}}) /\ sources' # <<>>
  BY <1>1 DEF SearchInv
<1> QED
  BY <1>4, <1>5, <1>6, <1>7, <1>8, <1>9, <1>10 DEF SearchInv

(* A search begins with the representative of a component, or with what is known of it. *)
LEMMA SearchStarts == ASSUME SearchInv, GraphInv, StartsChain PROVE SearchInv'
<1>0. PICK key : key = representative(Head(sources))
  OBVIOUS
<1>1. /\ pc = "sources" /\ sources # <<>> /\ contextual' = {} /\ UNCHANGED <<graph, sources, memo>>
      /\ \/ memo[key] # Nothing /\ pc' = "names" /\ states' = [Unknown EXCEPT ![key] = memo[key]] /\ names' = <<key>> /\ frames' = frames
         \/ pc' = "search" /\ states' = Unknown /\ frames' = <<ChainFrame(key)>> /\ names' = names
  BY <1>0 DEF StartsChain
<1>2. graph \in Graph /\ Classes \subseteq Class /\ Class \subseteq Nat
  BY GraphTypes DEF GraphInv
<1>3. key \in Classes /\ key \in Class
  <2>1. sources \in Seq((SUBSET Classes) \ {{}})
    BY DEF SearchInv
  <2>2. PICK c \in (SUBSET Classes) \ {{}} : c = Head(sources)
    BY <1>1, <2>1
  <2>3. c \in SUBSET Nat /\ c # {}
    BY <1>2, <2>2
  <2>4. key \in c
    BY <1>0, <2>2, <2>3, RepresentativeOf
  <2> QED
    BY <1>2, <2>2, <2>4
<1>4. Classes' = Classes /\ Answer' = Answer /\ FrameShape' = FrameShape
  BY <1>1, SameReach DEF Answer, FoundState, FrameShape
<1>5. Unknown \in [Class -> Answer] /\ memo \in [Class -> Answer]
  BY DEF Unknown, Answer, SearchInv
<1>6. states' \in [Class -> Answer] /\ memo' \in [Class -> Answer]
  BY <1>1, <1>3, <1>5
<1>7. names' \in Seq(Classes) /\ (pc' = "names" => names' # <<>>)
  <2>1. names \in Seq(Classes) /\ <<key>> \in Seq(Classes) /\ <<key>> # <<>>
    BY <1>3 DEF SearchInv
  <2>2. (pc' = "names" /\ names' = <<key>>) \/ (pc' = "search" /\ names' = names)
    BY <1>1
  <2> QED
    BY <2>1, <2>2
<1>8. frames' \in Seq(FrameShape) /\ Distinct' /\ Waits' /\ (pc' = "search" => frames' # <<>>)
  <2>1. CASE frames' = frames /\ pc' = "names"
    BY <2>1 DEF SearchInv, Distinct, Waits
  <2>2. CASE frames' = <<ChainFrame(key)>>
    <3>1. PICK top : top = ChainFrame(key)
      OBVIOUS
    <3>2. top \in FrameShape
      BY <1>2, <1>3, <3>1, FrameOf
    <3>3. frames' \in Seq(FrameShape) /\ Len(frames') = 1 /\ 1..1 = {1} /\ 2..1 = {} /\ frames' # <<>>
      BY <2>2, <3>1, <3>2
    <3> QED
      BY <3>3 DEF Distinct, Waits
  <2> QED
    BY <1>1, <2>1, <2>2
<1>9. sources' \in Seq((SUBSET Classes) \ {{}}) /\ sources' # <<>>
  BY <1>1 DEF SearchInv
<1> QED
  BY <1>1, <1>4, <1>6, <1>7, <1>8, <1>9 DEF SearchInv

(* The chain goes on with the class that was selected. *)
LEMMA SearchNames == ASSUME SearchInv, GraphInv, AppendsName PROVE SearchInv'
<1>0. PICK last : last = Seqs!Last(names)
  OBVIOUS
<1>1. /\ pc = "names" /\ NextKey # Nothing /\ names' = Append(names, NextKey)
      /\ UNCHANGED <<graph, pc, sources, states, contextual, memo, frames>>
  BY DEF AppendsName, ChainEnds, search
<1>2. names \in Seq(Classes) /\ names # <<>>
  BY <1>1 DEF SearchInv
<1>3. last \in Classes
  BY <1>0, <1>2, FrontShape
<1>4. states[last] \in Answer /\ memo[last] \in Answer
  BY <1>3, KnownTypes
<1>5. NextKey \in Classes
  <2>1. PICK state : state = IF states[last] # Nothing THEN states[last] ELSE memo[last]
    OBVIOUS
  <2>2. NextKey = IF state = Nothing THEN Nothing ELSE state.next
    BY <1>0, <2>1 DEF NextKey
  <2>3. state \in FoundState /\ NextKey = state.next
    BY <1>1, <1>4, <2>1, <2>2 DEF Answer
  <2> QED
    BY <1>1, <2>3 DEF FoundState
<1>6. names' \in Seq(Classes) /\ names' # <<>>
  BY <1>1, <1>2, <1>5
<1>7. Classes' = Classes /\ Answer' = Answer /\ FrameShape' = FrameShape
  BY <1>1, SameReach DEF Answer, FoundState, FrameShape
<1>8. Distinct' /\ Waits'
  BY <1>1 DEF SearchInv, Distinct, Waits
<1> QED
  BY <1>1, <1>6, <1>7, <1>8 DEF SearchInv

(* The next component is turned to. *)
LEMMA SearchReports == ASSUME SearchInv, GraphInv, Reports PROVE SearchInv'
<1>1. /\ pc = "names" /\ pc' = "sources" /\ sources' = Tail(sources) /\ names' = <<>>
      /\ UNCHANGED <<graph, states, contextual, memo, frames>>
  BY DEF Reports, search
<1>2. sources' \in Seq((SUBSET Classes) \ {{}})
  <2>1. sources \in Seq((SUBSET Classes) \ {{}}) /\ sources # <<>>
    BY <1>1 DEF SearchInv
  <2> QED
    BY <1>1, <2>1
<1>3. Classes' = Classes /\ Answer' = Answer /\ FrameShape' = FrameShape
  BY <1>1, SameReach DEF Answer, FoundState, FrameShape
<1>4. Distinct' /\ Waits'
  BY <1>1 DEF SearchInv, Distinct, Waits
<1>5. names' \in Seq(Classes)
  BY <1>1
<1> QED
  BY <1>1, <1>2, <1>3, <1>4, <1>5 DEF SearchInv

(* The sources are components, and no component is empty. *)
LEMMA SearchGets == ASSUME SearchInv, ClassesInv, ClassesInv', EndsComponents PROVE SearchInv'
<1>1. /\ pc = "components" /\ pc' = "sources" /\ sources' = Sources
      /\ UNCHANGED <<graph, components, states, contextual, memo, frames, names>>
  BY DEF EndsComponents, search
<1>2. Classes' = Classes /\ Answer' = Answer /\ FrameShape' = FrameShape /\ \A k : Strong(k)' = Strong(k)
  BY <1>1, SameReach DEF Answer, FoundState, FrameShape
<1>3. Range(components) = {Strong(k) : k \in Classes} /\ components \in Seq(SUBSET Classes)
  <2>1. Range(components)' = {Strong(k) : k \in Classes}'
    BY <1>1 DEF ClassesInv, ComponentsInv
  <2>2. components' \in Seq(SUBSET Classes')
    BY DEF ClassesInv, GraphInv
  <2> QED
    BY <1>1, <1>2, <2>1, <2>2
<1>4. Range(components) \subseteq (SUBSET Classes) \ {{}}
  <2>1. \A k \in Classes : Strong(k) \subseteq Classes /\ Strong(k) # {}
    BY ReachesItself DEF Strong, Reachable
  <2>2. ASSUME NEW c \in Range(components) PROVE c \in (SUBSET Classes) \ {{}}
    <3>1. PICK k \in Classes : c = Strong(k)
      BY <1>3, <2>2
    <3>2. c \subseteq Classes /\ c # {}
      BY <2>1, <3>1
    <3> QED
      BY <3>2
  <2> QED
    BY <2>2
<1>5. components \in Seq((SUBSET Classes) \ {{}})
  BY <1>3, <1>4, SeqOfRange
<1>6. sources' \in Seq((SUBSET Classes) \ {{}})
  BY <1>1, <1>5, OnlyThose DEF Sources
<1>7. Distinct' /\ Waits'
  BY <1>1 DEF SearchInv, Distinct, Waits
<1> QED
  BY <1>1, <1>2, <1>6, <1>7 DEF SearchInv

(* The traversals change nothing of the search. *)
LEMMA SearchStays ==
  ASSUME SearchInv, UNCHANGED <<graph, sources, states, contextual, memo, frames, names>>,
         pc' = pc \/ pc' \notin {"search", "names"}
  PROVE  SearchInv'
<1>1. Classes' = Classes /\ Answer' = Answer /\ FrameShape' = FrameShape
  BY SameReach DEF Answer, FoundState, FrameShape
<1>2. Distinct' /\ Waits'
  BY DEF SearchInv, Distinct, Waits
<1> QED
  BY <1>1, <1>2 DEF SearchInv

(* Every step keeps the invariant of the search. *)
LEMMA SearchStepHolds == ASSUME ClassesInv, ClassesInv', SearchInv, [CompositionNext]_compositionVars PROVE SearchInv'
<1>1. GraphInv
  BY DEF ClassesInv
<1>2. CASE StartsPostorder \/ Expanded \/ SeenBefore \/ Expands \/ EndsPostorder \/ StartsComponent \/ AppendsComponent
  BY <1>2, SearchStays DEF StartsPostorder, Expanded, SeenBefore, Expands, EndsPostorder, StartsComponent, AppendsComponent, search
<1>3. CASE UNCHANGED compositionVars
  BY <1>3, SearchStays DEF compositionVars, search
<1> QED
  BY <1>1, <1>2, <1>3, SearchGets, SearchStarts, SearchCached, SearchCycle, SearchBounded, SearchEnters, SearchCompletes,
     SearchNames, SearchReports DEF CompositionNext

(* The two invariants give every variable its type. *)
LEMMA CompositionTypes == ASSUME ClassesInv, SearchInv PROVE CompositionTypeOK
<1>1. graph \in Graph /\ pc \in {"postorder", "components", "sources", "search", "names"}
      /\ todo \in Seq(Classes) /\ seen \subseteq Classes /\ components \in Seq(SUBSET Classes) /\ order \in Seq(Classes)
  BY DEF ClassesInv, GraphInv, OrderInv
<1>2. pending \in IF pc = "postorder" THEN Seq([key : Classes, expanded : BOOLEAN]) ELSE Seq(Classes)
  <2>1. CASE pc = "postorder"
    BY <2>1 DEF ClassesInv, PostInv, PostTypes
  <2>2. CASE pc = "components"
    BY <2>2 DEF ClassesInv, CollectInv
  <2>3. CASE pc \notin {"postorder", "components"}
    <3>1. pending = <<>>
      BY <2>3 DEF ClassesInv, ComponentsInv
    <3> QED
      BY <2>3, <3>1
  <2> QED
    BY <2>1, <2>2, <2>3
<1>3. sources \in Seq(SUBSET Classes)
  <2>1. sources \in Seq((SUBSET Classes) \ {{}})
    BY DEF SearchInv
  <2>2. Range(sources) \subseteq SUBSET Classes
    BY <2>1, RangeOfSeq
  <2> QED
    BY <2>1, <2>2, SeqOfRange
<1>4. \A k \in Class : states[k] \in FoundState \cup {Nothing} /\ memo[k] \in FoundState \cup {Nothing}
  BY DEF SearchInv, Answer
<1>5. /\ \A i, j \in DOMAIN frames : frames[i].key = frames[j].key => i = j
      /\ \A i \in 2..Len(frames) : frames[i - 1].waiting = frames[i].key
  <2>1. DOMAIN frames = 1..Len(frames)
    BY DEF SearchInv
  <2> QED
    BY <2>1 DEF SearchInv, Distinct, Waits
<1> QED
  BY <1>1, <1>2, <1>3, <1>4, <1>5 DEF CompositionTypeOK, SearchInv

(* Every variable stays within the values the code gives it, and the stack of the search *)
(* for a chain is a path: a class is on it once, and waited for by the one below it.     *)
THEOREM CompositionTypeCorrect == CompositionSpec => []CompositionTypeOK
<1>1. CompositionInit => ClassesInv /\ SearchInv
  BY ClassesInit, SearchInit
<1>2. ClassesInv /\ SearchInv /\ [CompositionNext]_compositionVars => (ClassesInv /\ SearchInv)'
  BY ClassesStep, SearchStepHolds
<1>3. ClassesInv /\ SearchInv => CompositionTypeOK
  BY CompositionTypes
<1> QED
  BY <1>1, <1>2, <1>3, PTL DEF CompositionSpec

(* The lengths of chains, as far as the definition of Longest goes.                   *)
ChainsTo(f) ==
  f = [before \in SUBSET Classes |->
         [k \in Classes |-> IF k \in before THEN 1
                            ELSE 1 + Max({0} \cup {f[before \cup {k}][d] : d \in Range(graph[k])})]]
Chain(k, before) == (CHOOSE f : ChainsTo(f))[before][k]

(* A chain that begins with nothing before it. *)
LEMMA LongestIsChain == ASSUME NEW k PROVE Longest(k) = Chain(k, {})
  BY DEF Longest, Chain, ChainsTo

(* A set of numbers with a bound has a largest one. *)
LEMMA LargestOf ==
  ASSUME NEW T \in SUBSET Nat, T # {}, NEW B \in Nat, \A x \in T : x <= B
  PROVE  Max(T) \in T /\ \A x \in T : x <= Max(T)
<1>0. \A x \in T : B - x \in Nat
  OBVIOUS
<1>1. PICK S : S = {B - x : x \in T}
  OBVIOUS
<1>2. S # {} /\ S \in SUBSET Nat
  BY <1>0, <1>1
<1>3. PICK m \in S : \A l \in S : m <= l
  BY <1>2, SmallestOf
<1>4. PICK y \in T : m = B - y
  BY <1>1, <1>3
<1>5. \A x \in T : x <= y
  BY <1>1, <1>3, <1>4
<1> QED
  BY <1>5 DEF Max

(* What is not yet on a path. *)
Free(before) == Cardinality(Classes \ before)

(* There are finitely many classes, and one less is free when one is added to a path. *)
LEMMA FreeTypes ==
  ASSUME graph \in Graph, NEW before \in SUBSET Classes
  PROVE  /\ IsFiniteSet(Classes) /\ Free(before) \in Nat /\ Free(before) <= Cardinality(Classes) /\ Cardinality(Classes) \in Nat
         /\ Free(before) = 0 => before = Classes
         /\ \A k \in Classes \ before : before \cup {k} \in SUBSET Classes /\ Free(before \cup {k}) = Free(before) - 1
<1>1. IsFiniteSet(Classes)
  <2>1. Order \in Seq(Nat) /\ Class = {Order[i] : i \in 1..Len(Order)} /\ Len(Order) \in Nat
    BY OrderAssumption, RangeOfSeq DEF Class
  <2>2. IsFiniteSet(1..Len(Order))
    BY <2>1, FS_Interval
  <2>3. IsFiniteSet(Class)
    <3>1. Order \in [1..Len(Order) -> Class]
      BY <2>1
    <3>2. \A k \in Class : \E i \in 1..Len(Order) : Order[i] = k
      BY <2>1
    <3>3. Order \in Surjection(1..Len(Order), Class)
      BY <3>1, <3>2 DEF Surjection
    <3> QED
      BY <2>2, <3>3, FS_Surjection
  <2> QED
    BY <2>3, GraphTypes, FS_Subset
<1>2. IsFiniteSet(Classes \ before) /\ Free(before) <= Cardinality(Classes)
  BY <1>1, FS_Subset DEF Free
<1>3. Free(before) \in Nat /\ Cardinality(Classes) \in Nat
  BY <1>1, <1>2, FS_CardinalityType DEF Free
<1>4. Free(before) = 0 => before = Classes
  BY <1>2, FS_EmptySet DEF Free
<1>5. ASSUME NEW k \in Classes \ before
      PROVE  before \cup {k} \in SUBSET Classes /\ Free(before \cup {k}) = Free(before) - 1
  <2>1. Classes \ (before \cup {k}) = (Classes \ before) \ {k}
    OBVIOUS
  <2> QED
    BY <1>2, <2>1, FS_RemoveElement DEF Free
<1> QED
  BY <1>1, <1>2, <1>3, <1>4, <1>5

(* One step of the recursion, and a function that is right where n classes are free.     *)
Step(f, k, before) ==
  IF k \in before THEN 1 ELSE 1 + Max({0} \cup {f[before \cup {k}][d] : d \in Range(graph[k])})
Right(f, n) ==
  \A k \in Classes, before \in SUBSET Classes :
    Free(before) <= n => f[before][k] = Step(f, k, before) /\ f[before][k] \in 1..(1 + Free(before))

(* What a step of the recursion gives, when the chains it goes on with are within their bound. *)
LEMMA StepTypes ==
  ASSUME graph \in Graph, NEW f, NEW k \in Classes, NEW before \in SUBSET Classes,
         k \notin before => \A d \in Classes : f[before \cup {k}][d] \in 1..Free(before)
  PROVE  /\ Step(f, k, before) \in 1..(1 + Free(before))
         /\ k \in before => Step(f, k, before) = 1
         /\ k \notin before =>
              /\ \A d \in Range(graph[k]) : Step(f, k, before) >= 1 + f[before \cup {k}][d]
              /\ Step(f, k, before) = 1 \/ \E d \in Range(graph[k]) : Step(f, k, before) = 1 + f[before \cup {k}][d]
<1>1. Free(before) \in Nat
  BY FreeTypes
<1>2. CASE k \in before
  BY <1>1, <1>2 DEF Step
<1>3. CASE k \notin before
  <2>1. PICK T : T = {0} \cup {f[before \cup {k}][d] : d \in Range(graph[k])}
    OBVIOUS
  <2>2. \A d \in Range(graph[k]) : f[before \cup {k}][d] \in 1..Free(before)
    BY <1>3, GraphTypes
  <2>3. T \in SUBSET Nat /\ T # {} /\ \A x \in T : x <= Free(before)
    BY <1>1, <2>1, <2>2
  <2>4. Max(T) \in T /\ \A x \in T : x <= Max(T)
    BY <1>1, <2>3, LargestOf
  <2>5. Step(f, k, before) = 1 + Max(T)
    BY <1>3, <2>1 DEF Step
  <2>6. PICK m \in Nat : m = Max(T)
    BY <2>3, <2>4
  <2>7. m <= Free(before) /\ m \in T /\ Step(f, k, before) = 1 + m
    BY <2>3, <2>4, <2>5, <2>6
  <2>8. \A d \in Range(graph[k]) : f[before \cup {k}][d] \in T
    BY <2>1
  <2>9. \A d \in Range(graph[k]) : f[before \cup {k}][d] <= m
    BY <2>4, <2>6, <2>8
  <2>10. m = 0 \/ \E d \in Range(graph[k]) : m = f[before \cup {k}][d]
    BY <2>1, <2>7
  <2>11. Step(f, k, before) \in 1..(1 + Free(before))
    BY <1>1, <2>7
  <2>12. \A d \in Range(graph[k]) : Step(f, k, before) >= 1 + f[before \cup {k}][d]
    BY <2>6, <2>7, <2>9, <2>2
  <2>13. Step(f, k, before) = 1 \/ \E d \in Range(graph[k]) : Step(f, k, before) = 1 + f[before \cup {k}][d]
    BY <2>7, <2>10
  <2> QED
    BY <1>3, <2>11, <2>12, <2>13
<1> QED
  BY <1>2, <1>3

(* A step depends on the function where one class less is free.                        *)
LEMMA SameStep ==
  ASSUME NEW f, NEW g, NEW k \in Classes, NEW before \in SUBSET Classes, graph \in Graph,
         k \notin before => \A d \in Classes : f[before \cup {k}][d] = g[before \cup {k}][d]
  PROVE  Step(f, k, before) = Step(g, k, before)
<1>1. CASE k \in before
  BY <1>1 DEF Step
<1>2. CASE k \notin before
  <2>1. {f[before \cup {k}][d] : d \in Range(graph[k])} = {g[before \cup {k}][d] : d \in Range(graph[k])}
    BY <1>2, GraphTypes
  <2> QED
    BY <1>2, <2>1 DEF Step
<1> QED
  BY <1>1, <1>2

(* There is a function that is right: a least number of free classes for which there is none would be none. *)
LEMMA RightExists ==
  ASSUME graph \in Graph, NEW n \in Nat
  PROVE  \E f : Right(f, n)
<1> DEFINE T == {m \in Nat : ~\E f : Right(f, m)}
<1>1. SUFFICES ASSUME T # {} PROVE FALSE
  OBVIOUS
<1>2. PICK m \in T : \A k \in T : m <= k
  BY <1>1, SmallestOf
<1>3. PICK g : m # 0 => Right(g, m - 1)
  BY <1>2
<1>4. PICK h : h = [before \in SUBSET Classes |-> [k \in Classes |->
                      IF Free(before) < m THEN g[before][k] ELSE Step(g, k, before)]]
  OBVIOUS
<1>5. m \in Nat /\ ~\E f : Right(f, m)
  BY <1>2
<1>6. ASSUME NEW k \in Classes, NEW before \in SUBSET Classes, Free(before) <= m
      PROVE  h[before][k] = Step(h, k, before) /\ h[before][k] \in 1..(1 + Free(before))
  <2>1. Free(before) \in Nat
    BY FreeTypes
  <2>2. h[before][k] = IF Free(before) < m THEN g[before][k] ELSE Step(g, k, before)
    BY <1>4
  <2>3. ASSUME k \notin before, NEW d \in Classes
        PROVE  h[before \cup {k}][d] = g[before \cup {k}][d] /\ g[before \cup {k}][d] \in 1..Free(before)
    <3>1. before \cup {k} \in SUBSET Classes /\ Free(before \cup {k}) = Free(before) - 1 /\ Free(before \cup {k}) \in Nat
      BY <2>3, FreeTypes
    <3>2. Free(before \cup {k}) < m /\ Free(before \cup {k}) <= m - 1 /\ m # 0
      BY <1>5, <1>6, <2>1, <3>1
    <3>3. h[before \cup {k}][d] = g[before \cup {k}][d]
      BY <1>4, <3>1, <3>2
    <3>4. g[before \cup {k}][d] \in 1..(1 + Free(before \cup {k}))
      BY <1>3, <3>1, <3>2 DEF Right
    <3>5. 1 + Free(before \cup {k}) = Free(before)
      BY <2>1, <3>1
    <3> QED
      BY <3>3, <3>4, <3>5
  <2>4. Step(h, k, before) = Step(g, k, before)
    BY <2>3, SameStep
  <2>5. Step(g, k, before) \in 1..(1 + Free(before))
    BY <2>3, StepTypes
  <2>6. CASE Free(before) < m
    <3>1. m # 0 /\ Free(before) <= m - 1
      BY <1>5, <2>1, <2>6
    <3>2. g[before][k] = Step(g, k, before)
      BY <1>3, <3>1 DEF Right
    <3> QED
      BY <2>2, <2>4, <2>5, <2>6, <3>2
  <2>7. CASE ~(Free(before) < m)
    BY <2>2, <2>4, <2>5, <2>7
  <2> QED
    BY <2>6, <2>7
<1>7. Right(h, m)
  BY <1>6 DEF Right
<1> QED
  BY <1>5, <1>7

(* And the lengths of chains are one, so that they obey the recursion. *)
LEMMA ChainIsRight == ASSUME graph \in Graph PROVE Right(CHOOSE f : ChainsTo(f), Cardinality(Classes))
<1> DEFINE n == Cardinality(Classes)
<1>1. n \in Nat /\ \A before \in SUBSET Classes : Free(before) <= n
  BY FreeTypes
<1>2. PICK f : Right(f, n)
  BY <1>1, RightExists
<1>3. PICK g : g = [before \in SUBSET Classes |-> [k \in Classes |-> f[before][k]]]
  OBVIOUS
<1> HIDE DEF n
<1>4. ASSUME NEW k \in Classes, NEW before \in SUBSET Classes PROVE g[before][k] = Step(g, k, before)
  <2>1. f[before][k] = Step(f, k, before) /\ g[before][k] = f[before][k]
    BY <1>1, <1>2, <1>3 DEF Right
  <2>2. \A d \in Classes : g[before \cup {k}][d] = f[before \cup {k}][d]
    BY <1>3, FreeTypes
  <2>3. Step(g, k, before) = Step(f, k, before)
    BY <2>2, SameStep
  <2> QED
    BY <2>1, <2>3
<1>5. ChainsTo(g)
  <2>1. g = [before \in SUBSET Classes |-> [k \in Classes |-> g[before][k]]]
    BY <1>3
  <2>2. g = [before \in SUBSET Classes |-> [k \in Classes |-> Step(g, k, before)]]
    BY <1>4, <2>1
  <2> QED
    BY <2>2 DEF ChainsTo, Step
<1>6. PICK h : h = (CHOOSE e : ChainsTo(e)) /\ ChainsTo(h)
  BY <1>5
<1> DEFINE T == {m \in Nat : ~Right(h, m)}
<1>7. ASSUME T # {} PROVE FALSE
  <2>1. PICK m \in T : \A k \in T : m <= k
    BY <1>7, SmallestOf
  <2>2. m \in Nat /\ ~Right(h, m) /\ (m # 0 => Right(h, m - 1))
    BY <2>1
  <2>3. ASSUME NEW k \in Classes, NEW before \in SUBSET Classes, Free(before) <= m
        PROVE  h[before][k] = Step(h, k, before) /\ h[before][k] \in 1..(1 + Free(before))
    <3>1. h[before][k] = Step(h, k, before)
      <4>1. h = [b \in SUBSET Classes |-> [c \in Classes |-> Step(h, c, b)]]
        BY <1>6 DEF ChainsTo, Step
      <4> QED
        BY <4>1
    <3>2. ASSUME k \notin before, NEW d \in Classes PROVE h[before \cup {k}][d] \in 1..Free(before)
      <4>1. Free(before) \in Nat /\ before \cup {k} \in SUBSET Classes /\ Free(before \cup {k}) = Free(before) - 1
            /\ Free(before \cup {k}) \in Nat
        BY <3>2, FreeTypes
      <4>2. m # 0 /\ Free(before \cup {k}) <= m - 1
        BY <2>2, <2>3, <4>1
      <4>3. h[before \cup {k}][d] \in 1..(1 + Free(before \cup {k}))
        BY <2>2, <4>1, <4>2 DEF Right
      <4>4. 1 + Free(before \cup {k}) = Free(before)
        BY <4>1
      <4> QED
        BY <4>3, <4>4
    <3>3. Step(h, k, before) \in 1..(1 + Free(before))
      BY <3>2, StepTypes
    <3> QED
      BY <3>1, <3>3
  <2> QED
    BY <2>2, <2>3 DEF Right
<1>8. Right(h, n)
  BY <1>1, <1>7
<1> QED
  BY <1>6, <1>8 DEF n

(* A chain is as long as the longest one that goes on from it, and one longer.          *)
LEMMA ChainStep ==
  ASSUME graph \in Graph, NEW k \in Classes, NEW before \in SUBSET Classes
  PROVE  /\ Chain(k, before) \in Nat \ {0}
         /\ k \in before => Chain(k, before) = 1
         /\ k \notin before =>
              /\ \A d \in Range(graph[k]) :
                   Chain(d, before \cup {k}) \in Nat \ {0} /\ Chain(k, before) >= 1 + Chain(d, before \cup {k})
              /\ Chain(k, before) = 1 \/ \E d \in Range(graph[k]) : Chain(k, before) = 1 + Chain(d, before \cup {k})
<1>1. PICK h : h = (CHOOSE f : ChainsTo(f)) /\ Right(h, Cardinality(Classes))
  BY ChainIsRight
<1>2. \A c, b : Chain(c, b) = h[b][c]
  BY <1>1 DEF Chain
<1>3. \A b \in SUBSET Classes : Free(b) \in Nat /\ Free(b) <= Cardinality(Classes)
  BY FreeTypes
<1>4. \A c \in Classes, b \in SUBSET Classes : h[b][c] = Step(h, c, b) /\ h[b][c] \in 1..(1 + Free(b))
  BY <1>1, <1>3 DEF Right
<1>5. ASSUME k \notin before, NEW d \in Classes PROVE h[before \cup {k}][d] \in 1..Free(before)
  <2>1. before \cup {k} \in SUBSET Classes /\ Free(before \cup {k}) = Free(before) - 1
    BY <1>5, FreeTypes
  <2>2. 1 + Free(before \cup {k}) = Free(before)
    BY <1>3, <2>1
  <2> QED
    BY <1>4, <2>1, <2>2
<1>6. /\ k \in before => h[before][k] = 1
      /\ k \notin before =>
           /\ \A d \in Range(graph[k]) : h[before][k] >= 1 + h[before \cup {k}][d]
           /\ h[before][k] = 1 \/ \E d \in Range(graph[k]) : h[before][k] = 1 + h[before \cup {k}][d]
  <2>1. k \notin before => \A d \in Classes : h[before \cup {k}][d] \in 1..Free(before)
    BY <1>5
  <2>2. h[before][k] = Step(h, k, before)
    BY <1>4
  <2> QED
    BY <2>1, <2>2, StepTypes
<1>7. h[before][k] \in Nat \ {0}
  BY <1>3, <1>4
<1>8. k \notin before => \A d \in Range(graph[k]) : h[before \cup {k}][d] \in Nat \ {0}
  <2>1. ASSUME k \notin before, NEW d \in Range(graph[k]) PROVE h[before \cup {k}][d] \in Nat \ {0}
    <3>1. h[before \cup {k}][d] \in 1..Free(before) /\ Free(before) \in Nat
      BY <1>3, <1>5, <2>1, GraphTypes
    <3> QED
      BY <3>1
  <2> QED
    BY <2>1
<1> QED
  BY <1>2, <1>6, <1>7, <1>8

(* What is kept for later searches: it is kept of all that the class leads to, and is    *)
(* the depth wherever the class is come to from.                                       *)
Kept == {k \in Classes : memo[k] # Nothing}
KeptInv ==
  \A k \in Kept :
    /\ Range(graph[k]) \subseteq Kept
    /\ \A b \in SUBSET Classes : b \cap Reachable(k) = {} => Chain(k, b) = memo[k].depth
    /\ IF memo[k].next = Nothing THEN memo[k].depth = 1
       ELSE memo[k].next \in Range(graph[k]) /\ memo[k].depth = memo[memo[k].next].depth + 1

(* What this search has found holds in every context, or is contextual.               *)
AnswersKept == \A k \in Classes : states[k] # Nothing /\ k \notin contextual => memo[k] = states[k]

(* The classes on the path to a frame, and the dependencies it is done with.           *)
Upto(i) == {frames[j].key : j \in 1..i}
Passed(i) == Range(graph[frames[i].key]) \ Range(frames[i].rest)

(* A depth so far up the path that the chain of the search is too long.               *)
TooLong(depth, i) == depth + i >= MaxDepth + 2
Deep(i) ==
  \/ \E j \in i..Len(frames) : TooLong(frames[j].depth, j)
  \/ TopFrame.waiting # Nothing /\ TooLong(states[TopFrame.waiting].depth, Len(frames))

(* A frame that was told of no cycle has its depth from what is kept.                  *)
CleanInv(i) ==
  LET frame == frames[i]
  IN  /\ \A d \in Passed(i) : d \in Kept /\ memo[d].depth <= frame.depth
      /\ IF frame.next = Nothing THEN frame.depth = 0
         ELSE frame.next \in Range(graph[frame.key]) \cap Kept /\ frame.depth = memo[frame.next].depth

(* The frames are a path of classes that nothing is kept of; the depth of each is that   *)
(* of a chain, and of the longest through what it is done with, unless the chain of the  *)
(* search will be too long anyway.                                                    *)
LevelInv(i) ==
  LET frame == frames[i]
  IN  /\ frame.key \notin Kept /\ Range(frame.rest) \subseteq Range(graph[frame.key])
      /\ \A j \in i..Len(frames) : frames[j].key \in Reachable(frame.key) /\ (frames[j].cyclic => frame.cyclic)
      /\ frame.depth = 0 \/ \E d \in Range(graph[frame.key]) : frame.depth <= Chain(d, Upto(i))
      /\ Deep(i) \/ \A d \in Passed(i) : Chain(d, Upto(i)) <= frame.depth
      /\ ~frame.cyclic => CleanInv(i)
      /\ frame.waiting # Nothing => frame.rest # <<>> /\ Head(frame.rest) = frame.waiting
StackInv == \A i \in 1..Len(frames) : LevelInv(i)

(* What was found for the frame on top holds on the path to it.                        *)
PendingInv ==
  LET d == TopFrame.waiting
      n == Len(frames)
  IN  d # Nothing =>
        /\ states[d] # Nothing /\ states[d].depth <= Chain(d, Upto(n))
        /\ Chain(d, Upto(n)) <= states[d].depth \/ TooLong(states[d].depth, n)
        /\ ~TopFrame.cyclic => memo[d] = states[d]
AcyclicInv == Acyclic(frames[1].key) => contextual = {} /\ \A i \in 1..Len(frames) : ~frames[i].cyclic

NamesInv ==
  LET k == names[1]
  IN  /\ states[k] # Nothing /\ states[k].depth <= Longest(k)
      /\ Longest(k) <= states[k].depth \/ TooLong(states[k].depth, 0)
      /\ Acyclic(k) => contextual = {} /\ \A i \in 1..Len(names) : names[i] \in Kept /\ memo[names[i]].depth = memo[k].depth - (i - 1)

DepthInv ==
  /\ KeptInv /\ AnswersKept
  /\ pc = "search" => StackInv /\ PendingInv /\ AcyclicInv
  /\ pc = "names" => NamesInv

DepthAll == GraphInv /\ SearchInv /\ KeptInv /\ AnswersKept /\ pc = "search" /\ StackInv /\ PendingInv /\ AcyclicInv

(* The lengths of chains are those of the graph. *)
LEMMA SameChain ==
  ASSUME graph' = graph
  PROVE  \A k : (\A b : Chain(k, b)' = Chain(k, b)) /\ Longest(k)' = Longest(k) /\ (Acyclic(k)' <=> Acyclic(k))
<1>1. Classes' = Classes
  BY SameReach
<1>2. ASSUME NEW k PROVE Acyclic(k)' <=> Acyclic(k)
  BY SameReach DEF Acyclic
<1>3. ASSUME NEW k, NEW b PROVE Chain(k, b)' = Chain(k, b)
  BY <1>1 DEF Chain, ChainsTo
<1>4. ASSUME NEW k PROVE Longest(k)' = Longest(k)
  BY <1>1 DEF Longest
<1> QED
  BY <1>2, <1>3, <1>4

(* What is kept is kept of all that the class reaches, and is the length of its longest   *)
(* chain on any path of classes that nothing is kept of.                               *)
LEMMA KeptReaches ==
  ASSUME KeptInv, NEW k \in Kept
  PROVE  k \in Classes /\ Reachable(k) \subseteq Kept
         /\ \A b \in SUBSET Classes : b \cap Kept = {} => Chain(k, b) = memo[k].depth
<1>1. Kept \in SUBSET Classes /\ \A c \in Kept : Range(graph[c]) \subseteq Kept
  BY DEF Kept, KeptInv
<1>2. Reachable(k) \subseteq Kept
  BY <1>1, ReachesAll
<1> QED
  BY <1>1, <1>2 DEF KeptInv

(* What is kept has a depth and names a class or nothing. *)
LEMMA KeptTypes ==
  ASSUME SearchInv, GraphInv, NEW k \in Kept
  PROVE  memo[k] \in FoundState /\ memo[k].depth \in Nat \ {0} /\ memo[k].next \in Classes \cup {Nothing}
<1>1. k \in Classes /\ memo[k] # Nothing
  BY DEF Kept
<1>2. memo[k] \in FoundState
  BY <1>1, KnownTypes DEF Answer
<1> QED
  BY <1>2 DEF FoundState

(* The path of the search, and the dependencies of the class on top. *)
LEMMA PathTypes ==
  ASSUME DepthAll
  PROVE  /\ graph \in Graph /\ Len(frames) \in Nat \ {0} /\ frames \in Seq(FrameShape) /\ TopFrame = frames[Len(frames)]
         /\ \A i \in 1..Len(frames) : frames[i] \in FrameShape /\ frames[i].key \in Classes /\ LevelInv(i)
         /\ \A i \in 1..Len(frames) : Upto(i) \in SUBSET Classes /\ Upto(i) \cap Kept = {}
         /\ active = Upto(Len(frames)) /\ TopFrame \in FrameShape /\ LevelInv(Len(frames))
<1>1. graph \in Graph /\ Len(frames) \in Nat \ {0} /\ frames \in Seq(FrameShape) /\ TopFrame = frames[Len(frames)]
  BY TopFrameTypes DEF DepthAll, GraphInv
<1>2. \A i \in 1..Len(frames) : frames[i] \in FrameShape /\ LevelInv(i)
  BY <1>1 DEF DepthAll, StackInv
<1>3. \A i \in 1..Len(frames) : frames[i].key \in Classes /\ frames[i].key \notin Kept
  BY <1>2 DEF FrameShape, LevelInv
<1>4. \A i \in 1..Len(frames) : Upto(i) \in SUBSET Classes /\ Upto(i) \cap Kept = {}
  <2>1. ASSUME NEW i \in 1..Len(frames) PROVE \A j \in 1..i : j \in 1..Len(frames)
    BY <1>1
  <2> QED
    BY <1>3, <2>1 DEF Upto
<1>5. active = Upto(Len(frames))
  BY <1>1 DEF active, Upto
<1> QED
  BY <1>1, <1>2, <1>3, <1>4, <1>5

(* What is known of the next dependency is the length of a chain that goes on from the    *)
(* path, and of the longest, unless that is too long; without a cycle it is kept.        *)
LEMMA KnownOnPath ==
  ASSUME DepthAll, TopFrame.rest # <<>>, NEW d, d = Dependency, NEW K, K = Known(d), K # Nothing
  PROVE  /\ d \in Classes /\ d \in Range(graph[TopFrame.key]) /\ K \in FoundState /\ K.depth \in Nat
         /\ K.depth <= Chain(d, Upto(Len(frames)))
         /\ Chain(d, Upto(Len(frames))) <= K.depth \/ TooLong(K.depth, Len(frames))
         /\ ~TopFrame.cyclic => d \in Kept /\ memo[d] = K
         /\ TopFrame.waiting # Nothing => TopFrame.waiting = d /\ states[d] = K
<1>1. /\ graph \in Graph /\ Len(frames) \in Nat \ {0} /\ TopFrame = frames[Len(frames)] /\ TopFrame \in FrameShape
      /\ LevelInv(Len(frames)) /\ Upto(Len(frames)) \in SUBSET Classes /\ Upto(Len(frames)) \cap Kept = {}
  BY PathTypes
<1>2. d \in Classes /\ d = Head(TopFrame.rest) /\ d # Nothing
  <2>1. d \in Classes
    BY TopFrameTypes DEF DepthAll
  <2> QED
    BY <1>1, <2>1, GraphTypes DEF Dependency
<1>3. d \in Range(graph[TopFrame.key])
  <2>1. TopFrame.rest \in Seq(Classes)
    BY <1>1 DEF FrameShape
  <2>2. d = TopFrame.rest[1] /\ d \in Range(TopFrame.rest)
    BY <1>2, <2>1, RangeOfTail
  <2> QED
    BY <1>1, <2>2 DEF LevelInv
<1>4. K \in FoundState /\ K.depth \in Nat
  <2>1. K \in FoundState
    BY <1>2, KnownTypes DEF DepthAll, Answer
  <2> QED
    BY <2>1 DEF FoundState
<1>5. TopFrame.waiting # Nothing => TopFrame.waiting = d
  BY <1>1, <1>2 DEF LevelInv
<1>6. CASE TopFrame.waiting = d
  <2>1. states[d] # Nothing /\ K = states[d]
    BY <1>2, <1>6 DEF DepthAll, PendingInv, Known
  <2>2. ~TopFrame.cyclic => memo[d] = states[d]
    BY <1>2, <1>6 DEF DepthAll, PendingInv
  <2>3. ~TopFrame.cyclic => d \in Kept
    BY <1>2, <2>1, <2>2 DEF Kept
  <2>4. K.depth <= Chain(d, Upto(Len(frames)))
    BY <1>2, <1>6, <2>1 DEF DepthAll, PendingInv
  <2>5. Chain(d, Upto(Len(frames))) <= K.depth \/ TooLong(K.depth, Len(frames))
    BY <1>2, <1>6, <2>1 DEF DepthAll, PendingInv
  <2> QED
    BY <1>2, <1>3, <1>4, <1>6, <2>1, <2>2, <2>3, <2>4, <2>5
<1>7. CASE TopFrame.waiting # d
  <2>1. K = memo[d]
    BY <1>2, <1>7 DEF Known, DepthAll, AnswersKept
  <2>2. d \in Kept
    BY <1>2, <2>1 DEF Kept
  <2>3. Chain(d, Upto(Len(frames))) = K.depth
    BY <1>1, <2>1, <2>2, KeptReaches DEF DepthAll
  <2> QED
    BY <1>2, <1>3, <1>4, <1>5, <1>7, <2>1, <2>2, <2>3
<1> QED
  BY <1>6, <1>7

(* What a step is about that changes the frames but pushes none and takes none.         *)
LevelStep == UNCHANGED <<graph, pc, states, contextual, memo>>

(* What is kept stays, when the answers do not change. *)
LEMMA SameKept ==
  ASSUME KeptInv, AnswersKept, UNCHANGED <<graph, states, contextual, memo>>
  PROVE  Kept' = Kept /\ KeptInv' /\ AnswersKept'
<1>1. Classes' = Classes /\ (\A k : Reachable(k)' = Reachable(k)) /\ \A k : \A b : Chain(k, b)' = Chain(k, b)
  BY SameReach, SameChain
<1>2. Kept' = Kept
  BY <1>1 DEF Kept
<1>3. KeptInv'
  BY <1>1, <1>2 DEF KeptInv
<1>4. AnswersKept'
  BY <1>1 DEF AnswersKept
<1> QED
  BY <1>2, <1>3, <1>4

(* The frame on top goes on with its next dependency; when that closes a cycle of        *)
(* classes, all frames are told (c).                                                  *)
LEMMA LevelsMove ==
  ASSUME DepthAll, LevelStep, NEW n, n = Len(frames), NEW f \in FrameShape, NEW c \in BOOLEAN,
         Len(frames') = n, frames'[n] = f, frames' \in Seq(FrameShape),
         \A i \in 1..n : frames'[i].key = frames[i].key /\ (frames'[i].cyclic <=> frames[i].cyclic \/ c),
         \A i \in 1..(n - 1) : /\ frames'[i].rest = frames[i].rest /\ frames'[i].depth = frames[i].depth
                               /\ frames'[i].next = frames[i].next /\ frames'[i].waiting = frames[i].waiting,
         f.waiting = Nothing, Range(f.rest) \subseteq Range(graph[f.key]), f.depth >= TopFrame.depth,
         f.depth = 0 \/ \E d \in Range(graph[f.key]) : f.depth <= Chain(d, Upto(n)),
         Deep(n) => TooLong(f.depth, n),
         TooLong(f.depth, n) \/ \A d \in Range(graph[f.key]) \ Range(f.rest) : Chain(d, Upto(n)) <= f.depth,
         ~f.cyclic =>
           /\ \A d \in Range(graph[f.key]) \ Range(f.rest) : d \in Kept /\ memo[d].depth <= f.depth
           /\ IF f.next = Nothing THEN f.depth = 0 ELSE f.next \in Range(graph[f.key]) \cap Kept /\ f.depth = memo[f.next].depth,
         c => ~Acyclic(frames[1].key)
  PROVE  DepthAll' \/ ~(GraphInv' /\ SearchInv')
<1>1. /\ graph \in Graph /\ n \in Nat \ {0} /\ frames \in Seq(FrameShape) /\ TopFrame = frames[n] /\ TopFrame' = f
      /\ \A i \in 1..n : frames[i] \in FrameShape /\ frames'[i] \in FrameShape /\ LevelInv(i)
  BY PathTypes DEF TopFrame
<1>2. /\ UNCHANGED <<graph, pc, states, contextual, memo>> /\ Kept' = Kept /\ KeptInv' /\ AnswersKept'
      /\ (\A k : Reachable(k)' = Reachable(k)) /\ (\A k : \A b : Chain(k, b)' = Chain(k, b))
      /\ \A k : Acyclic(k)' <=> Acyclic(k)
  BY SameKept, SameReach, SameChain DEF DepthAll, LevelStep
<1>3. \A i \in 1..n : i = n \/ i \in 1..(n - 1)
  BY <1>1
<1>4. \A i \in 1..n : Upto(i)' = Upto(i)
  <2>1. ASSUME NEW i \in 1..n PROVE \A j \in 1..i : j \in 1..n
    BY <1>1
  <2> QED
    BY <2>1 DEF Upto
<1>5. TooLong(f.depth, n) => \A i \in 1..n : Deep(i)'
  <2>1. ASSUME NEW i \in 1..n PROVE n \in i..n
    BY <1>1
  <2> QED
    BY <2>1 DEF Deep, TooLong
<1>6. ASSUME NEW i \in 1..(n - 1), Deep(i) PROVE Deep(i)'
  <2>1. n \in i..n /\ n \in n..n /\ i \in 1..n
    BY <1>1
  <2>2. CASE \E j \in i..(n - 1) : TooLong(frames[j].depth, j)
    <3>1. PICK j \in i..(n - 1) : TooLong(frames[j].depth, j)
      BY <2>2
    <3>2. j \in i..n /\ j \in 1..(n - 1)
      BY <1>1, <3>1
    <3>3. TooLong(frames'[j].depth, j)
      BY <3>1, <3>2
    <3> QED
      BY <3>2, <3>3 DEF Deep, TooLong
  <2>3. CASE Deep(n)
    BY <1>5, <2>1, <2>3
  <2>4. \A j \in i..n : j = n \/ j \in i..(n - 1)
    BY <1>1
  <2> QED
    BY <1>6, <2>1, <2>2, <2>3, <2>4 DEF Deep
<1>7. ASSUME NEW i \in 1..n
      PROVE  \A j \in i..n : /\ j \in 1..n /\ frames'[j].key \in Reachable(frames'[i].key)
                             /\ frames'[j].cyclic => frames'[i].cyclic
  <2>1. \A j \in i..n : j \in 1..n
    BY <1>1
  <2>2. \A j \in i..n : frames[j].key \in Reachable(frames[i].key) /\ (frames[j].cyclic => frames[i].cyclic)
    BY <1>1 DEF LevelInv
  <2> QED
    BY <2>1, <2>2
<1>8. ASSUME NEW i \in 1..(n - 1) PROVE LevelInv(i)'
  <2>1. i \in 1..n /\ LevelInv(i)
    BY <1>1
  <2>2. /\ frames'[i].key = frames[i].key /\ frames'[i].rest = frames[i].rest /\ frames'[i].depth = frames[i].depth
        /\ frames'[i].next = frames[i].next /\ frames'[i].waiting = frames[i].waiting
        /\ ~frames'[i].cyclic => ~frames[i].cyclic
    BY <2>1
  <2>3. Passed(i)' = Passed(i)
    BY <1>2, <2>2 DEF Passed
  <2>4. /\ frames'[i].key \notin Kept' /\ Range(frames'[i].rest) \subseteq Range(graph[frames'[i].key])
        /\ frames'[i].waiting # Nothing => frames'[i].rest # <<>> /\ Head(frames'[i].rest) = frames'[i].waiting
    BY <1>2, <2>1, <2>2 DEF LevelInv
  <2>5. frames'[i].depth = 0 \/ \E d \in Range(graph[frames'[i].key]) : frames'[i].depth <= Chain(d, Upto(i))
    BY <2>1, <2>2 DEF LevelInv
  <2>6. Deep(i)' \/ \A d \in Passed(i) : Chain(d, Upto(i)) <= frames'[i].depth
    BY <1>6, <2>1, <2>2 DEF LevelInv
  <2>7. ~frames'[i].cyclic => CleanInv(i)'
    <3>1. ASSUME ~frames'[i].cyclic PROVE CleanInv(i)
      BY <2>1, <2>2, <3>1 DEF LevelInv
    <3> QED
      BY <1>2, <2>2, <2>3, <3>1 DEF CleanInv
  <2> QED
    BY <1>2, <1>4, <1>7, <2>1, <2>3, <2>4, <2>5, <2>6, <2>7 DEF LevelInv
<1>9. LevelInv(n)'
  <2>1. n \in 1..n /\ LevelInv(n) /\ f.key = frames[n].key
    BY <1>1
  <2>2. Passed(n)' = Range(graph[f.key]) \ Range(f.rest)
    BY <1>2 DEF Passed
  <2>3. f.key \notin Kept'
    BY <1>2, <2>1 DEF LevelInv
  <2>4. Deep(n)' \/ \A d \in Passed(n)' : Chain(d, Upto(n)) <= f.depth
    BY <1>5, <2>1, <2>2
  <2>5. ~f.cyclic => CleanInv(n)'
    BY <1>2, <2>2 DEF CleanInv
  <2> QED
    BY <1>2, <1>4, <1>7, <2>1, <2>3, <2>4, <2>5 DEF LevelInv
<1>10. StackInv'
  BY <1>3, <1>8, <1>9 DEF StackInv
<1>11. PendingInv'
  BY <1>1 DEF PendingInv
<1>12. AcyclicInv'
  <2>1. 1 \in 1..n
    BY <1>1
  <2>2. AcyclicInv
    BY DEF DepthAll
  <2> QED
    BY <1>2, <2>1, <2>2 DEF AcyclicInv
<1> QED
  BY <1>2, <1>10, <1>11, <1>12 DEF DepthAll

(* A frame that has gone on to its next dependency, field by field. *)
LEMMA SelectsFields ==
  ASSUME NEW frame \in FrameShape, NEW key, NEW depth
  PROVE  /\ Selects(frame, key, depth).rest = Tail(frame.rest) /\ Selects(frame, key, depth).waiting = Nothing
         /\ Selects(frame, key, depth).cyclic = frame.cyclic /\ Selects(frame, key, depth).key = frame.key
         /\ IF depth >= frame.depth
            THEN Selects(frame, key, depth).depth = depth /\ Selects(frame, key, depth).next = key
            ELSE Selects(frame, key, depth).depth = frame.depth /\ Selects(frame, key, depth).next = frame.next
<1> DEFINE longer == IF depth >= frame.depth THEN [frame EXCEPT !.depth = depth, !.next = key] ELSE frame
<1>1. /\ longer.rest = frame.rest /\ longer.cyclic = frame.cyclic /\ longer.key = frame.key
      /\ IF depth >= frame.depth THEN longer.depth = depth /\ longer.next = key
         ELSE longer.depth = frame.depth /\ longer.next = frame.next
      /\ longer = [key |-> longer.key, rest |-> longer.rest, depth |-> longer.depth, next |-> longer.next,
                   cyclic |-> longer.cyclic, waiting |-> longer.waiting]
  BY DEF FrameShape
<1> HIDE DEF longer
<1>2. PICK g : g = [longer EXCEPT !.rest = Tail(@), !.waiting = Nothing]
  OBVIOUS
<1>3. /\ g.rest = Tail(longer.rest) /\ g.waiting = Nothing /\ g.cyclic = longer.cyclic /\ g.key = longer.key
      /\ g.depth = longer.depth /\ g.next = longer.next
  BY <1>1, <1>2
<1>4. Selects(frame, key, depth) = g
  BY <1>2 DEF Selects, longer
<1> QED
  BY <1>1, <1>3, <1>4

(* What the frame on top is like when it goes on with a dependency and the length of a   *)
(* chain from it (D).                                                                *)
LEMMA TopMoves ==
  ASSUME DepthAll, TopFrame.rest # <<>>, NEW n, n = Len(frames), NEW d, d = Dependency, NEW D \in Nat,
         D <= Chain(d, Upto(n)), Chain(d, Upto(n)) <= D \/ TooLong(D, n),
         TopFrame.waiting # Nothing => TopFrame.waiting = d /\ states[d].depth = D,
         NEW f \in FrameShape, f.key = TopFrame.key, f.rest = Tail(TopFrame.rest),
         IF D >= TopFrame.depth THEN f.depth = D /\ f.next = d ELSE f.depth = TopFrame.depth /\ f.next = TopFrame.next,
         ~f.cyclic => ~TopFrame.cyclic /\ d \in Kept /\ memo[d].depth = D
  PROVE  /\ Range(f.rest) \subseteq Range(graph[f.key]) /\ f.depth >= TopFrame.depth
         /\ f.depth = 0 \/ \E k \in Range(graph[f.key]) : f.depth <= Chain(k, Upto(n))
         /\ Deep(n) => TooLong(f.depth, n)
         /\ TooLong(f.depth, n) \/ \A k \in Range(graph[f.key]) \ Range(f.rest) : Chain(k, Upto(n)) <= f.depth
         /\ ~f.cyclic =>
              /\ \A k \in Range(graph[f.key]) \ Range(f.rest) : k \in Kept /\ memo[k].depth <= f.depth
              /\ IF f.next = Nothing THEN f.depth = 0 ELSE f.next \in Range(graph[f.key]) \cap Kept /\ f.depth = memo[f.next].depth
<1>1. /\ graph \in Graph /\ n \in Nat \ {0} /\ TopFrame = frames[n] /\ TopFrame \in FrameShape /\ LevelInv(n)
      /\ Upto(n) \in SUBSET Classes
  BY PathTypes
<1>2. /\ TopFrame.key \in Classes /\ TopFrame.depth \in Nat /\ TopFrame.rest \in Seq(Classes) /\ f.depth \in Nat
      /\ TopFrame.next \in Classes \cup {Nothing}
  BY <1>1 DEF FrameShape
<1>3. d \in Classes /\ d # Nothing /\ d \in Range(TopFrame.rest) /\ Range(TopFrame.rest) = {d} \cup Range(f.rest)
  <2>1. d = TopFrame.rest[1] /\ d \in Classes
    BY <1>2 DEF Dependency
  <2>2. Range(TopFrame.rest) = {TopFrame.rest[1]} \cup Range(Tail(TopFrame.rest))
    BY <1>2, RangeOfTail
  <2> QED
    BY <1>1, <2>1, <2>2, GraphTypes
<1>4. /\ Range(TopFrame.rest) \subseteq Range(graph[f.key]) /\ Range(graph[f.key]) \subseteq Classes
      /\ Passed(n) = Range(graph[f.key]) \ Range(TopFrame.rest)
  BY <1>1, <1>2, GraphTypes DEF LevelInv, Passed
<1>5. \A k \in Range(graph[f.key]) \ Range(f.rest) : k = d \/ k \in Passed(n)
  BY <1>3, <1>4
<1>6. f.depth >= TopFrame.depth /\ f.depth >= D /\ (TooLong(D, n) => TooLong(f.depth, n))
      /\ (TooLong(TopFrame.depth, n) => TooLong(f.depth, n))
  <2>1. f.depth >= TopFrame.depth /\ f.depth >= D
    BY <1>2
  <2> QED
    BY <1>1, <1>2, <2>1, DepthAssumption DEF TooLong
<1>7. f.depth = 0 \/ \E k \in Range(graph[f.key]) : f.depth <= Chain(k, Upto(n))
  <2>1. CASE D >= TopFrame.depth
    BY <1>3, <1>4, <2>1
  <2>2. CASE ~(D >= TopFrame.depth)
    BY <1>1, <2>2 DEF LevelInv
  <2> QED
    BY <2>1, <2>2
<1>8. Deep(n) => TooLong(f.depth, n)
  <2>1. ASSUME NEW j \in n..Len(frames) PROVE j = n
    BY <1>1, <2>1
  <2> QED
    BY <1>1, <1>6, <2>1 DEF Deep
<1>9. TooLong(f.depth, n) \/ \A k \in Range(graph[f.key]) \ Range(f.rest) : Chain(k, Upto(n)) <= f.depth
  <2>1. SUFFICES ASSUME ~TooLong(f.depth, n), NEW k \in Range(graph[f.key]) \ Range(f.rest) PROVE Chain(k, Upto(n)) <= f.depth
    OBVIOUS
  <2>2. k \in Classes /\ Chain(k, Upto(n)) \in Nat \ {0}
    BY <1>1, <1>4, ChainStep
  <2>3. CASE k = d
    BY <1>2, <1>6, <2>1, <2>2, <2>3
  <2>4. CASE k \in Passed(n)
    <3>1. Chain(k, Upto(n)) <= TopFrame.depth
      BY <1>1, <1>8, <2>1, <2>4 DEF LevelInv
    <3> QED
      BY <1>2, <1>6, <2>2, <3>1
  <2> QED
    BY <1>5, <2>3, <2>4
<1>10. ASSUME ~f.cyclic
       PROVE  /\ \A k \in Range(graph[f.key]) \ Range(f.rest) : k \in Kept /\ memo[k].depth <= f.depth
              /\ IF f.next = Nothing THEN f.depth = 0 ELSE f.next \in Range(graph[f.key]) \cap Kept /\ f.depth = memo[f.next].depth
  <2>1. CleanInv(n) /\ d \in Kept /\ memo[d].depth = D
    BY <1>1, <1>10 DEF LevelInv
  <2>2. ASSUME NEW k \in Range(graph[f.key]) \ Range(f.rest) PROVE k \in Kept /\ memo[k].depth <= f.depth
    <3>1. CASE k = d
      BY <1>6, <2>1, <3>1
    <3>2. CASE k \in Passed(n)
      <4>1. k \in Kept /\ memo[k].depth <= TopFrame.depth
        BY <1>1, <2>1, <3>2 DEF CleanInv
      <4>2. memo[k].depth \in Nat \ {0}
        BY <4>1, KeptTypes DEF DepthAll
      <4> QED
        BY <1>2, <1>6, <4>1, <4>2
    <3> QED
      BY <1>5, <3>1, <3>2
  <2>3. IF f.next = Nothing THEN f.depth = 0 ELSE f.next \in Range(graph[f.key]) \cap Kept /\ f.depth = memo[f.next].depth
    <3>1. CASE D >= TopFrame.depth
      BY <1>3, <1>4, <2>1, <3>1
    <3>2. CASE ~(D >= TopFrame.depth)
      BY <1>1, <2>1, <3>2 DEF CleanInv
    <3> QED
      BY <3>1, <3>2
  <2> QED
    BY <2>2, <2>3
<1> QED
  BY <1>4, <1>3, <1>6, <1>7, <1>8, <1>9, <1>10

(* A dependency that is known of, *)
LEMMA DepthCached == ASSUME DepthAll, CachedDependency, GraphInv', SearchInv' PROVE DepthAll'
<1>0. PICK d, K, n : d = Dependency /\ K = Known(d) /\ n = Len(frames)
  OBVIOUS
<1>1. TopFrame.rest # <<>> /\ K # Nothing /\ LevelStep /\ frames' = [frames EXCEPT ![n] = Selects(@, d, K.depth)]
  BY <1>0 DEF CachedDependency, Searching, LevelStep
<1>2. /\ n \in Nat \ {0} /\ frames \in Seq(FrameShape) /\ TopFrame = frames[n] /\ TopFrame \in FrameShape
      /\ Tail(TopFrame.rest) \in Seq(Classes) /\ \A i \in 1..n : frames[i] \in FrameShape
  BY <1>0, <1>1, PathTypes, TopFrameTypes DEF DepthAll
<1>3. /\ d \in Classes /\ K.depth \in Nat
      /\ K.depth <= Chain(d, Upto(n))
      /\ Chain(d, Upto(n)) <= K.depth \/ TooLong(K.depth, n)
      /\ ~TopFrame.cyclic => d \in Kept /\ memo[d] = K
      /\ TopFrame.waiting # Nothing => TopFrame.waiting = d /\ states[d] = K
  BY <1>0, <1>1, KnownOnPath
<1>4. PICK f : f = Selects(TopFrame, d, K.depth)
  OBVIOUS
<1>5. /\ f \in FrameShape /\ f.key = TopFrame.key /\ f.rest = Tail(TopFrame.rest) /\ f.waiting = Nothing
      /\ f.cyclic = TopFrame.cyclic
      /\ IF K.depth >= TopFrame.depth THEN f.depth = K.depth /\ f.next = d
         ELSE f.depth = TopFrame.depth /\ f.next = TopFrame.next
  BY <1>2, <1>3, <1>4, SelectsFrame, SelectsFields
<1>6. frames' = [frames EXCEPT ![n] = f]
  BY <1>1, <1>2, <1>4
<1>7. frames' \in Seq(FrameShape) /\ Len(frames') = n /\ frames'[n] = f /\ \A i \in 1..(n - 1) : frames'[i] = frames[i]
  BY <1>0, <1>2, <1>5, <1>6
<1>99. PICK c \in BOOLEAN : ~c
  OBVIOUS
<1>8. \A i \in 1..n : frames'[i].key = frames[i].key /\ (frames'[i].cyclic <=> frames[i].cyclic \/ c)
  <2>1. \A i \in 1..n : i = n \/ i \in 1..(n - 1)
    BY <1>2
  <2> QED
    BY <1>2, <1>5, <1>7, <1>99, <2>1
<1>9. PICK D \in Nat : D = K.depth
  BY <1>3
<1>10. /\ Range(f.rest) \subseteq Range(graph[f.key]) /\ f.depth >= TopFrame.depth
       /\ f.depth = 0 \/ \E k \in Range(graph[f.key]) : f.depth <= Chain(k, Upto(n))
       /\ Deep(n) => TooLong(f.depth, n)
       /\ TooLong(f.depth, n) \/ \A k \in Range(graph[f.key]) \ Range(f.rest) : Chain(k, Upto(n)) <= f.depth
       /\ ~f.cyclic =>
            /\ \A k \in Range(graph[f.key]) \ Range(f.rest) : k \in Kept /\ memo[k].depth <= f.depth
            /\ IF f.next = Nothing THEN f.depth = 0 ELSE f.next \in Range(graph[f.key]) \cap Kept /\ f.depth = memo[f.next].depth
  <2>1. /\ D <= Chain(d, Upto(n)) /\ (Chain(d, Upto(n)) <= D \/ TooLong(D, n))
        /\ (TopFrame.waiting # Nothing => TopFrame.waiting = d /\ states[d].depth = D)
        /\ (~f.cyclic => ~TopFrame.cyclic /\ d \in Kept /\ memo[d].depth = D)
        /\ IF D >= TopFrame.depth THEN f.depth = D /\ f.next = d ELSE f.depth = TopFrame.depth /\ f.next = TopFrame.next
    BY <1>3, <1>5, <1>9
  <2> QED
    BY <1>0, <1>1, <1>5, <2>1, TopMoves
<1>11. \A i \in 1..(n - 1) : /\ frames'[i].rest = frames[i].rest /\ frames'[i].depth = frames[i].depth
                             /\ frames'[i].next = frames[i].next /\ frames'[i].waiting = frames[i].waiting
  BY <1>7
<1>12. DepthAll' \/ ~(GraphInv' /\ SearchInv')
  BY <1>0, <1>1, <1>5, <1>7, <1>8, <1>99, <1>10, <1>11, LevelsMove
<1> QED
  BY <1>12

(* A dependency that is on the path closes a cycle, which the first class leads to. *)
LEMMA CycleOnPath ==
  ASSUME DepthAll, TopFrame.rest # <<>>, Dependency \in active
  PROVE  Chain(Dependency, Upto(Len(frames))) = 1 /\ ~Acyclic(frames[1].key)
<1>0. PICK d, n : d = Dependency /\ n = Len(frames)
  OBVIOUS
<1>1. /\ graph \in Graph /\ n \in Nat \ {0} /\ TopFrame = frames[n] /\ TopFrame \in FrameShape
      /\ Upto(n) \in SUBSET Classes /\ d \in Upto(n) /\ \A i \in 1..n : LevelInv(i) /\ frames[i].key \in Classes
  BY <1>0, PathTypes
<1>2. d \in Classes
  BY <1>1
<1>3. Chain(d, Upto(n)) = 1
  BY <1>1, <1>2, ChainStep
<1>4. PICK i \in 1..n : frames[i].key = d
  BY <1>1 DEF Upto
<1>5. n \in i..n /\ 1 \in 1..n /\ i \in 1..n
  BY <1>1
<1>6. TopFrame.key \in Reachable(d) /\ TopFrame.key \in Reachable(frames[1].key) /\ d \in Reachable(frames[1].key)
  BY <1>0, <1>1, <1>4, <1>5 DEF LevelInv
<1>7. d \in Range(graph[TopFrame.key])
  <2>1. TopFrame.rest \in Seq(Classes)
    BY <1>1 DEF FrameShape
  <2>2. d \in Range(TopFrame.rest)
    BY <1>0, <2>1, RangeOfTail DEF Dependency
  <2>3. LevelInv(n)
    BY <1>1
  <2> QED
    BY <1>1, <2>2, <2>3 DEF LevelInv
<1>8. ~Acyclic(frames[1].key)
  BY <1>6, <1>7 DEF Acyclic
<1> QED
  BY <1>0, <1>3, <1>8

(* one that closes a cycle, *)
LEMMA DepthCycle == ASSUME DepthAll, CycleDependency, GraphInv', SearchInv' PROVE DepthAll'
<1>0. PICK d, n : d = Dependency /\ n = Len(frames)
  OBVIOUS
<1>1. /\ TopFrame.rest # <<>> /\ Known(d) = Nothing /\ d \in active /\ LevelStep
      /\ frames' = [i \in DOMAIN frames |->
           [(IF i = n THEN Selects(frames[i], d, 1) ELSE frames[i]) EXCEPT !.cyclic = TRUE]]
  BY <1>0 DEF CycleDependency, Searching, LevelStep
<1>2. /\ n \in Nat \ {0} /\ frames \in Seq(FrameShape) /\ TopFrame = frames[n] /\ TopFrame \in FrameShape
      /\ Tail(TopFrame.rest) \in Seq(Classes) /\ d \in Classes /\ \A i \in 1..n : frames[i] \in FrameShape
  BY <1>0, <1>1, PathTypes, TopFrameTypes DEF DepthAll
<1>3. Chain(d, Upto(n)) = 1 /\ ~Acyclic(frames[1].key)
  BY <1>0, <1>1, CycleOnPath
<1>4. TopFrame.waiting = Nothing
  <2>1. SUFFICES ASSUME TopFrame.waiting # Nothing PROVE FALSE
    OBVIOUS
  <2>2. LevelInv(n) /\ TopFrame.waiting = d
    BY <1>0, <1>2, <2>1, PathTypes DEF LevelInv, Dependency
  <2>3. states[d] # Nothing
    BY <1>0, <1>2, <2>1, <2>2 DEF DepthAll, PendingInv
  <2> QED
    BY <1>1, <2>2, <2>3 DEF Known
<1>5. PICK s : s = Selects(TopFrame, d, 1)
  OBVIOUS
<1>6. /\ s \in FrameShape /\ s.key = TopFrame.key /\ s.rest = Tail(TopFrame.rest) /\ s.waiting = Nothing
      /\ IF 1 >= TopFrame.depth THEN s.depth = 1 /\ s.next = d ELSE s.depth = TopFrame.depth /\ s.next = TopFrame.next
  BY <1>2, <1>5, SelectsFrame, SelectsFields
<1>7. PICK f : f = [s EXCEPT !.cyclic = TRUE]
  OBVIOUS
<1>8. /\ f \in FrameShape /\ f.key = TopFrame.key /\ f.rest = Tail(TopFrame.rest) /\ f.waiting = Nothing /\ f.cyclic = TRUE
      /\ IF 1 >= TopFrame.depth THEN f.depth = 1 /\ f.next = d ELSE f.depth = TopFrame.depth /\ f.next = TopFrame.next
  BY <1>6, <1>7 DEF FrameShape
<1>9. DOMAIN frames = 1..n /\ DOMAIN frames' = 1..n /\ n \in 1..n
  BY <1>0, <1>1, <1>2
<1>10. frames'[n] = f /\ \A i \in 1..(n - 1) : frames'[i] = [frames[i] EXCEPT !.cyclic = TRUE] /\ i \in 1..n
  <2>1. frames'[n] = f
    BY <1>1, <1>2, <1>5, <1>7, <1>9
  <2>2. ASSUME NEW i \in 1..(n - 1) PROVE frames'[i] = [frames[i] EXCEPT !.cyclic = TRUE] /\ i \in 1..n
    <3>1. i \in 1..n /\ i # n
      BY <1>2
    <3> QED
      BY <1>1, <1>9, <3>1
  <2> QED
    BY <2>1, <2>2
<1>11. \A i \in 1..(n - 1) : /\ frames'[i].key = frames[i].key /\ frames'[i].cyclic = TRUE
                             /\ frames'[i].rest = frames[i].rest /\ frames'[i].depth = frames[i].depth
                             /\ frames'[i].next = frames[i].next /\ frames'[i].waiting = frames[i].waiting
                             /\ frames'[i] \in FrameShape
  <2>1. ASSUME NEW i \in 1..(n - 1)
        PROVE  /\ frames'[i].key = frames[i].key /\ frames'[i].cyclic = TRUE
               /\ frames'[i].rest = frames[i].rest /\ frames'[i].depth = frames[i].depth
               /\ frames'[i].next = frames[i].next /\ frames'[i].waiting = frames[i].waiting
               /\ frames'[i] \in FrameShape
    <3>1. frames[i] \in FrameShape /\ frames'[i] = [frames[i] EXCEPT !.cyclic = TRUE]
      BY <1>2, <1>10
    <3> QED
      BY <3>1 DEF FrameShape
  <2> QED
    BY <2>1
<1>12. frames' \in Seq(FrameShape) /\ Len(frames') = n
  <2>1. \A i \in 1..n : i = n \/ i \in 1..(n - 1)
    BY <1>2
  <2>2. \A i \in 1..n : frames'[i] \in FrameShape
    BY <1>8, <1>10, <1>11, <2>1
  <2>3. frames' = [i \in 1..n |-> frames'[i]]
    BY <1>1, <1>9
  <2> QED
    BY <1>2, <2>2, <2>3
<1>99. PICK c \in BOOLEAN : c
  OBVIOUS
<1>13. \A i \in 1..n : frames'[i].key = frames[i].key /\ (frames'[i].cyclic <=> frames[i].cyclic \/ c)
  <2>1. \A i \in 1..n : i = n \/ i \in 1..(n - 1)
    BY <1>2
  <2> QED
    BY <1>2, <1>8, <1>10, <1>11, <1>99, <2>1
<1>14. /\ Range(f.rest) \subseteq Range(graph[f.key]) /\ f.depth >= TopFrame.depth
       /\ f.depth = 0 \/ \E k \in Range(graph[f.key]) : f.depth <= Chain(k, Upto(n))
       /\ Deep(n) => TooLong(f.depth, n)
       /\ TooLong(f.depth, n) \/ \A k \in Range(graph[f.key]) \ Range(f.rest) : Chain(k, Upto(n)) <= f.depth
  <2>1. 1 \in Nat /\ 1 <= Chain(d, Upto(n)) /\ Chain(d, Upto(n)) <= 1
    BY <1>3
  <2> QED
    BY <1>0, <1>1, <1>4, <1>8, <2>1, TopMoves
<1>100. /\ LevelStep /\ (Deep(n) => TooLong(f.depth, n)) /\ f.cyclic /\ (c => ~Acyclic(frames[1].key))
        /\ TooLong(f.depth, n) \/ \A k \in Range(graph[f.key]) \ Range(f.rest) : Chain(k, Upto(n)) <= f.depth
  BY <1>1, <1>3, <1>8, <1>14
<1>15. DepthAll' \/ ~(GraphInv' /\ SearchInv')
  BY <1>0, <1>8, <1>10, <1>11, <1>12, <1>13, <1>14, <1>100, LevelsMove
<1> QED
  BY <1>15

(* one that is left out at the bound: the chain is too long by then, *)
LEMMA DepthBounded == ASSUME DepthAll, BoundedDependency, GraphInv', SearchInv' PROVE DepthAll'
<1>0. PICK d, n : d = Dependency /\ n = Len(frames)
  OBVIOUS
<1>1. /\ TopFrame.rest # <<>> /\ Known(d) = Nothing /\ LevelStep /\ TopFrame.cyclic /\ n >= MaxDepth + 2
      /\ frames' = [frames EXCEPT ![n].rest = Tail(@)]
  BY <1>0 DEF BoundedDependency, New, Searching, LevelStep, Bounded
<1>2. /\ n \in Nat \ {0} /\ frames \in Seq(FrameShape) /\ TopFrame = frames[n] /\ TopFrame \in FrameShape
      /\ Tail(TopFrame.rest) \in Seq(Classes) /\ d \in Classes /\ LevelInv(n) /\ \A i \in 1..n : frames[i] \in FrameShape
  BY <1>0, <1>1, PathTypes, TopFrameTypes DEF DepthAll
<1>3. TopFrame.waiting = Nothing
  <2>1. SUFFICES ASSUME TopFrame.waiting # Nothing PROVE FALSE
    OBVIOUS
  <2>2. TopFrame.waiting = d
    BY <1>0, <1>2, <2>1 DEF LevelInv, Dependency
  <2>3. states[d] # Nothing
    BY <1>0, <1>2, <2>1, <2>2 DEF DepthAll, PendingInv
  <2> QED
    BY <1>1, <2>2, <2>3 DEF Known
<1>4. PICK f : f = [TopFrame EXCEPT !.rest = Tail(@)]
  OBVIOUS
<1>5. /\ f \in FrameShape /\ f.key = TopFrame.key /\ f.rest = Tail(TopFrame.rest) /\ f.waiting = Nothing
      /\ f.cyclic = TopFrame.cyclic /\ f.depth = TopFrame.depth /\ f.depth \in Nat
  BY <1>2, <1>3, <1>4 DEF FrameShape
<1>6. frames' = [frames EXCEPT ![n] = f]
  BY <1>1, <1>2, <1>4
<1>7. frames' \in Seq(FrameShape) /\ Len(frames') = n /\ frames'[n] = f /\ \A i \in 1..(n - 1) : frames'[i] = frames[i]
  BY <1>0, <1>2, <1>5, <1>6
<1>99. PICK c \in BOOLEAN : ~c
  OBVIOUS
<1>8. \A i \in 1..n : frames'[i].key = frames[i].key /\ (frames'[i].cyclic <=> frames[i].cyclic \/ c)
  <2>1. \A i \in 1..n : i = n \/ i \in 1..(n - 1)
    BY <1>2
  <2> QED
    BY <1>2, <1>5, <1>7, <1>99, <2>1
<1>9. TooLong(f.depth, n)
  BY <1>1, <1>2, <1>5, DepthAssumption DEF TooLong
<1>10. Range(f.rest) \subseteq Range(graph[f.key])
  <2>1. TopFrame.rest \in Seq(Classes)
    BY <1>2 DEF FrameShape
  <2>2. Range(Tail(TopFrame.rest)) \subseteq Range(TopFrame.rest)
    BY <1>1, <2>1, RangeOfTail
  <2> QED
    BY <1>2, <1>5, <2>2 DEF LevelInv
<1>11. f.depth >= TopFrame.depth /\ (f.depth = 0 \/ \E k \in Range(graph[f.key]) : f.depth <= Chain(k, Upto(n)))
  BY <1>2, <1>5 DEF LevelInv
<1>12. \A i \in 1..(n - 1) : /\ frames'[i].rest = frames[i].rest /\ frames'[i].depth = frames[i].depth
                             /\ frames'[i].next = frames[i].next /\ frames'[i].waiting = frames[i].waiting
  BY <1>7
<1>100. /\ LevelStep /\ (Deep(n) => TooLong(f.depth, n)) /\ f.cyclic /\ (c => ~Acyclic(frames[1].key))
        /\ TooLong(f.depth, n) \/ \A k \in Range(graph[f.key]) \ Range(f.rest) : Chain(k, Upto(n)) <= f.depth
  BY <1>1, <1>5, <1>9, <1>99
<1>13. DepthAll' \/ ~(GraphInv' /\ SearchInv')
  BY <1>0, <1>5, <1>7, <1>8, <1>10, <1>11, <1>12, <1>100, LevelsMove
<1> QED
  BY <1>13

(* A frame that begins. *)
LEMMA LevelBegins ==
  ASSUME graph \in Graph, NEW k \in Classes, NEW f, f = ChainFrame(k)
  PROVE  /\ f \in FrameShape /\ f.key = k /\ f.rest = graph[k] /\ f.depth = 0 /\ f.next = Nothing
         /\ f.cyclic = FALSE /\ f.waiting = Nothing
  BY FrameOf DEF ChainFrame

(* Nothing is known of a dependency that is entered. *)
LEMMA NewOnPath ==
  ASSUME DepthAll, TopFrame.rest # <<>>, NEW d, d = Dependency, Known(d) = Nothing
  PROVE  d \in Classes /\ d # Nothing /\ d \in Range(graph[TopFrame.key]) /\ d \notin Kept /\ TopFrame.waiting = Nothing
<1>1. /\ graph \in Graph /\ Len(frames) \in Nat \ {0} /\ TopFrame = frames[Len(frames)] /\ TopFrame \in FrameShape
      /\ LevelInv(Len(frames))
  BY PathTypes
<1>2. d \in Classes /\ d # Nothing
  <2>1. d \in Classes
    BY TopFrameTypes DEF DepthAll
  <2> QED
    BY <1>1, <2>1, GraphTypes
<1>3. d \in Range(graph[TopFrame.key])
  <2>1. TopFrame.rest \in Seq(Classes)
    BY <1>1 DEF FrameShape
  <2>2. d \in Range(TopFrame.rest)
    BY <2>1, RangeOfTail DEF Dependency
  <2> QED
    BY <1>1, <2>2 DEF LevelInv
<1>4. TopFrame.waiting = Nothing
  <2>1. SUFFICES ASSUME TopFrame.waiting # Nothing PROVE FALSE
    OBVIOUS
  <2>2. TopFrame.waiting = d
    BY <1>1, <2>1 DEF LevelInv, Dependency
  <2>3. states[d] # Nothing
    BY <2>1, <2>2 DEF DepthAll, PendingInv
  <2> QED
    BY <2>2, <2>3 DEF Known
<1>5. memo[d] = Nothing
  BY DEF Known
<1> QED
  BY <1>2, <1>3, <1>4, <1>5 DEF Kept

(* and one that is entered: the invariant is kept. *)
LEMMA DepthEnters == ASSUME DepthAll, EntersDependency, GraphInv', SearchInv' PROVE DepthAll'
<1>0. PICK d, n, top : d = Dependency /\ n = Len(frames) /\ top = ChainFrame(d)
  OBVIOUS
<1>1. /\ TopFrame.rest # <<>> /\ Known(d) = Nothing /\ d \notin active
      /\ UNCHANGED <<graph, pc, states, contextual, memo>>
      /\ frames' = Append([frames EXCEPT ![n].waiting = d], top)
  BY <1>0 DEF EntersDependency, New, Searching
<1>2. d \in Classes /\ d # Nothing /\ d \in Range(graph[TopFrame.key]) /\ d \notin Kept /\ TopFrame.waiting = Nothing
  BY <1>0, <1>1, NewOnPath
<1>3. /\ graph \in Graph /\ n \in Nat \ {0} /\ frames \in Seq(FrameShape) /\ TopFrame = frames[n]
      /\ \A i \in 1..n : frames[i] \in FrameShape /\ frames[i].key \in Classes /\ LevelInv(i)
  BY <1>0, PathTypes
<1>4. /\ top \in FrameShape /\ top.key = d /\ top.rest = graph[d] /\ top.depth = 0 /\ top.next = Nothing
      /\ top.cyclic = FALSE /\ top.waiting = Nothing
  BY <1>0, <1>2, <1>3, LevelBegins
<1>5. PICK f : f = [frames[n] EXCEPT !.waiting = d]
  OBVIOUS
<1>6. /\ f \in FrameShape /\ f.key = frames[n].key /\ f.rest = frames[n].rest /\ f.depth = frames[n].depth
      /\ f.next = frames[n].next /\ f.cyclic = frames[n].cyclic /\ f.waiting = d
  <2>1. frames[n] \in FrameShape
    BY <1>3
  <2> QED
    BY <1>2, <1>5, <2>1 DEF FrameShape
<1>7. PICK fs : fs = [frames EXCEPT ![n] = f]
  OBVIOUS
<1>8. fs \in Seq(FrameShape) /\ Len(fs) = n /\ \A i \in 1..n : fs[i] = IF i = n THEN f ELSE frames[i]
  BY <1>0, <1>3, <1>6, <1>7
<1>9. frames' = Append(fs, top)
  BY <1>1, <1>3, <1>5, <1>7
<1>10. Len(frames') = n + 1 /\ frames'[n + 1] = top /\ \A i \in 1..n : frames'[i] = IF i = n THEN f ELSE frames[i]
  BY <1>3, <1>4, <1>8, <1>9
<1>11. TopFrame' = top
  BY <1>10 DEF TopFrame
<1>12. \A i \in 1..n : /\ frames'[i].key = frames[i].key /\ frames'[i].rest = frames[i].rest /\ frames'[i].depth = frames[i].depth
                       /\ frames'[i].next = frames[i].next /\ frames'[i].cyclic = frames[i].cyclic
                       /\ frames'[i].waiting = IF i = n THEN d ELSE frames[i].waiting
  BY <1>6, <1>10
<1>13. /\ Kept' = Kept /\ KeptInv' /\ AnswersKept' /\ Classes' = Classes
       /\ (\A k : Reachable(k)' = Reachable(k)) /\ (\A k : \A b : Chain(k, b)' = Chain(k, b))
       /\ \A k : Acyclic(k)' <=> Acyclic(k)
  BY <1>1, SameKept, SameReach, SameChain DEF DepthAll
<1>14. \A i \in 1..(n + 1) : i = n + 1 \/ i \in 1..n
  BY <1>3
<1>15. \A i \in 1..n : Upto(i)' = Upto(i) /\ Passed(i)' = Passed(i)
  <2>1. ASSUME NEW i \in 1..n PROVE \A j \in 1..i : j \in 1..n
    BY <1>3
  <2>2. \A i \in 1..n : Upto(i)' = Upto(i)
    BY <1>12, <2>1 DEF Upto
  <2>3. \A i \in 1..n : Passed(i)' = Passed(i)
    BY <1>1, <1>12 DEF Passed
  <2> QED
    BY <2>2, <2>3
<1>16. ASSUME NEW i \in 1..n, Deep(i) PROVE Deep(i)'
  <2>1. PICK j \in i..n : TooLong(frames[j].depth, j)
    BY <1>0, <1>2, <1>16 DEF Deep
  <2>2. j \in 1..n /\ j \in i..(n + 1)
    BY <1>3
  <2>3. TooLong(frames'[j].depth, j)
    BY <1>12, <2>1, <2>2
  <2> QED
    BY <1>10, <2>2, <2>3 DEF Deep, TooLong
<1>17. ASSUME NEW i \in 1..n
       PROVE  \A j \in i..(n + 1) : /\ frames'[j].key \in Reachable(frames'[i].key)
                                    /\ frames'[j].cyclic => frames'[i].cyclic
  <2>1. \A j \in i..(n + 1) : j = n + 1 \/ (j \in i..n /\ j \in 1..n)
    BY <1>3
  <2>2. \A j \in i..n : frames[j].key \in Reachable(frames[i].key) /\ (frames[j].cyclic => frames[i].cyclic)
    BY <1>0, <1>3 DEF LevelInv
  <2>3. n \in i..n
    BY <1>3
  <2>4. d \in Reachable(frames[i].key)
    BY <1>2, <1>3, <2>2, <2>3, ReachesNext
  <2> QED
    BY <1>4, <1>10, <1>12, <2>1, <2>2, <2>4
<1>18. ASSUME NEW i \in 1..n PROVE LevelInv(i)'
  <2>1. LevelInv(i)
    BY <1>3
  <2>2. /\ frames'[i].key \notin Kept' /\ Range(frames'[i].rest) \subseteq Range(graph[frames'[i].key])
        /\ frames'[i].waiting # Nothing => frames'[i].rest # <<>> /\ Head(frames'[i].rest) = frames'[i].waiting
    <3>1. frames'[i].key \notin Kept' /\ Range(frames'[i].rest) \subseteq Range(graph[frames'[i].key])
      BY <1>12, <1>13, <2>1 DEF LevelInv
    <3>2. CASE i = n
      BY <1>0, <1>1, <1>3, <1>12, <3>1, <3>2 DEF Dependency
    <3>3. CASE i # n
      BY <1>12, <2>1, <3>1, <3>3 DEF LevelInv
    <3> QED
      BY <3>2, <3>3
  <2>3. frames'[i].depth = 0 \/ \E k \in Range(graph[frames'[i].key]) : frames'[i].depth <= Chain(k, Upto(i))
    BY <1>12, <2>1 DEF LevelInv
  <2>4. Deep(i)' \/ \A k \in Passed(i) : Chain(k, Upto(i)) <= frames'[i].depth
    BY <1>12, <1>16, <2>1 DEF LevelInv
  <2>5. ~frames'[i].cyclic => CleanInv(i)'
    <3>1. ASSUME ~frames'[i].cyclic PROVE CleanInv(i)
      BY <1>12, <2>1, <3>1 DEF LevelInv
    <3> QED
      BY <1>1, <1>12, <1>13, <1>15, <3>1 DEF CleanInv
  <2> QED
    BY <1>1, <1>10, <1>13, <1>15, <1>17, <2>2, <2>3, <2>4, <2>5 DEF LevelInv
<1>19. LevelInv(n + 1)'
  <2>1. Passed(n + 1)' = {}
    BY <1>1, <1>4, <1>10 DEF Passed
  <2>2. \A j \in (n + 1)..(n + 1) : j = n + 1
    BY <1>3
  <2>3. d \in Reachable(d)
    BY <1>2, ReachesItself
  <2>4. CleanInv(n + 1)'
    BY <1>4, <1>10, <2>1 DEF CleanInv
  <2> QED
    BY <1>1, <1>2, <1>4, <1>10, <1>13, <2>1, <2>2, <2>3, <2>4 DEF LevelInv
<1>20. StackInv'
  BY <1>10, <1>14, <1>18, <1>19 DEF StackInv
<1>21. PendingInv'
  BY <1>4, <1>11 DEF PendingInv
<1>22. AcyclicInv'
  <2>1. 1 \in 1..n
    BY <1>3
  <2>2. Acyclic(frames[1].key) => contextual = {} /\ \A i \in 1..n : ~frames[i].cyclic
    BY <1>0 DEF DepthAll, AcyclicInv
  <2>3. Acyclic(frames'[1].key) => contextual' = {} /\ \A i \in 1..(n + 1) : ~frames'[i].cyclic
    BY <1>1, <1>4, <1>10, <1>12, <1>14, <2>1, <2>2
  <2> QED
    BY <1>10, <1>13, <2>3 DEF AcyclicInv
<1> QED
  BY <1>1, <1>13, <1>20, <1>21, <1>22 DEF DepthAll

(* A frame that is done: its depth is that of the longest chain from its class, on the    *)
(* path to it, unless that is too long.                                               *)
LEMMA TopDone ==
  ASSUME DepthAll, TopFrame.rest = <<>>, NEW n, n = Len(frames), NEW key, key = TopFrame.key,
         NEW D, D = TopFrame.depth + 1
  PROVE  /\ key \in Classes /\ key \notin Kept /\ Upto(n - 1) \in SUBSET Classes /\ D \in Nat \ {0}
         /\ key \notin Upto(n - 1) /\ Upto(n) = Upto(n - 1) \cup {key} /\ TopFrame.waiting = Nothing
         /\ D <= Chain(key, Upto(n - 1)) /\ (Chain(key, Upto(n - 1)) <= D \/ TooLong(D, n - 1))
         /\ ~TopFrame.cyclic => \A b \in SUBSET Classes : b \cap Reachable(key) = {} => Chain(key, b) = D
<1>1. /\ graph \in Graph /\ n \in Nat \ {0} /\ TopFrame = frames[n] /\ TopFrame \in FrameShape /\ LevelInv(n)
      /\ Upto(n) \in SUBSET Classes /\ \A i \in 1..n : frames[i].key \in Classes
  BY PathTypes
<1>2. key \in Classes /\ key \notin Kept /\ TopFrame.depth \in Nat /\ D \in Nat \ {0} /\ TopFrame.waiting = Nothing
      /\ Passed(n) = Range(graph[key])
  <2>1. key \in Classes /\ key \notin Kept /\ TopFrame.depth \in Nat /\ D \in Nat \ {0}
    BY <1>1 DEF LevelInv, FrameShape
  <2>2. TopFrame.waiting = Nothing
    BY <1>1 DEF LevelInv
  <2>3. Passed(n) = Range(graph[key])
    BY <1>1 DEF Passed, Range
  <2> QED
    BY <2>1, <2>2, <2>3
<1>3. /\ Upto(n - 1) \in SUBSET Classes /\ key \notin Upto(n - 1) /\ Upto(n) = Upto(n - 1) \cup {key}
  <2>1. \A i \in 1..n : i = n \/ i \in 1..(n - 1)
    BY <1>1
  <2>2. \A i \in 1..(n - 1) : i \in 1..n /\ i # n
    BY <1>1
  <2>3. n \in 1..n
    BY <1>1
  <2>4. \A i \in 1..(n - 1) : frames[i].key # key
    BY <1>1, <2>2, <2>3 DEF DepthAll, SearchInv, Distinct
  <2>5. Upto(n) = Upto(n - 1) \cup {key}
    BY <1>1, <2>1, <2>2, <2>3 DEF Upto
  <2> QED
    BY <1>1, <2>4, <2>5 DEF Upto
<1>4. \A d \in Range(graph[key]) : d \in Classes /\ Chain(d, Upto(n)) \in Nat \ {0}
  BY <1>1, <1>2, GraphTypes, ChainStep
<1>5. D <= Chain(key, Upto(n - 1))
  <2>1. Chain(key, Upto(n - 1)) \in Nat \ {0} /\ \A d \in Range(graph[key]) : Chain(key, Upto(n - 1)) >= 1 + Chain(d, Upto(n))
    BY <1>1, <1>2, <1>3, ChainStep
  <2>2. CASE TopFrame.depth = 0
    BY <2>1, <2>2
  <2>3. CASE TopFrame.depth # 0
    <3>1. PICK d \in Range(graph[key]) : TopFrame.depth <= Chain(d, Upto(n))
      BY <1>1, <2>3 DEF LevelInv
    <3>2. PICK x \in Nat, y \in Nat : x = Chain(d, Upto(n)) /\ y = Chain(key, Upto(n - 1))
      BY <1>4, <2>1
    <3>3. y >= 1 + x /\ TopFrame.depth <= x
      BY <2>1, <3>1, <3>2
    <3> QED
      BY <1>2, <3>2, <3>3
  <2> QED
    BY <2>2, <2>3
<1>6. Chain(key, Upto(n - 1)) <= D \/ TooLong(D, n - 1)
  <2>1. CASE Deep(n)
    <3>1. ASSUME NEW j \in n..Len(frames) PROVE j = n
      BY <1>1, <3>1
    <3>2. TooLong(TopFrame.depth, n)
      BY <1>1, <1>2, <2>1, <3>1 DEF Deep
    <3> QED
      BY <1>1, <1>2, <3>2, DepthAssumption DEF TooLong
  <2>2. CASE ~Deep(n)
    <3>1. \A d \in Range(graph[key]) : Chain(d, Upto(n)) <= TopFrame.depth
      BY <1>1, <1>2, <2>2 DEF LevelInv
    <3>2. Chain(key, Upto(n - 1)) = 1 \/ \E d \in Range(graph[key]) : Chain(key, Upto(n - 1)) = 1 + Chain(d, Upto(n))
      <4>1. PICK b : b = Upto(n - 1) /\ Upto(n) = b \cup {key} /\ b \in SUBSET Classes /\ key \notin b
        BY <1>3
      <4>2. Chain(key, b) = 1 \/ \E d \in Range(graph[key]) : Chain(key, b) = 1 + Chain(d, b \cup {key})
        BY <1>1, <1>2, <4>1, ChainStep
      <4> QED
        BY <4>1, <4>2
    <3>3. CASE Chain(key, Upto(n - 1)) = 1
      BY <1>2, <3>3
    <3>4. CASE \E d \in Range(graph[key]) : Chain(key, Upto(n - 1)) = 1 + Chain(d, Upto(n))
      <4>1. PICK d \in Range(graph[key]) : Chain(key, Upto(n - 1)) = 1 + Chain(d, Upto(n))
        BY <3>4
      <4>2. PICK x \in Nat : x = Chain(d, Upto(n))
        BY <1>4
      <4>3. x <= TopFrame.depth /\ Chain(key, Upto(n - 1)) = 1 + x
        BY <3>1, <4>1, <4>2
      <4> QED
        BY <1>2, <4>2, <4>3
    <3> QED
      BY <3>2, <3>3, <3>4
  <2> QED
    BY <2>1, <2>2
<1>7. ASSUME ~TopFrame.cyclic, NEW b \in SUBSET Classes, b \cap Reachable(key) = {}
      PROVE  Chain(key, b) = D
  <2>1. CleanInv(n)
    BY <1>1, <1>7 DEF LevelInv
  <2>2. key \in Reachable(key) /\ key \notin b /\ b \cup {key} \in SUBSET Classes
    BY <1>2, <1>7, ReachesItself
  <2>3. ASSUME NEW d \in Range(graph[key])
        PROVE  d \in Kept /\ Chain(d, b \cup {key}) = memo[d].depth /\ memo[d].depth \in Nat \ {0} /\ memo[d].depth <= TopFrame.depth
    <3>1. d \in Kept /\ memo[d].depth <= TopFrame.depth
      BY <1>1, <1>2, <2>1 DEF CleanInv
    <3>2. Reachable(d) \subseteq Kept
      BY <3>1, KeptReaches DEF DepthAll
    <3>3. Reachable(d) \subseteq Reachable(key)
      BY <1>1, <2>2, ReachesNext, ReachesOn
    <3>4. (b \cup {key}) \cap Reachable(d) = {}
      BY <1>2, <1>7, <3>2, <3>3
    <3>5. Chain(d, b \cup {key}) = memo[d].depth
      BY <2>2, <3>1, <3>4 DEF DepthAll, KeptInv
    <3>6. memo[d].depth \in Nat \ {0}
      BY <3>1, KeptTypes DEF DepthAll
    <3> QED
      BY <3>1, <3>5, <3>6
  <2>4. /\ \A d \in Range(graph[key]) : Chain(key, b) >= 1 + Chain(d, b \cup {key})
        /\ Chain(key, b) = 1 \/ \E d \in Range(graph[key]) : Chain(key, b) = 1 + Chain(d, b \cup {key})
        /\ Chain(key, b) \in Nat \ {0}
    BY <1>1, <1>2, <2>2, ChainStep
  <2>5. Chain(key, b) <= D
    <3>1. CASE Chain(key, b) = 1
      BY <1>2, <3>1
    <3>2. CASE \E d \in Range(graph[key]) : Chain(key, b) = 1 + Chain(d, b \cup {key})
      <4>1. PICK d \in Range(graph[key]) : Chain(key, b) = 1 + memo[d].depth
        BY <2>3, <3>2
      <4>2. memo[d].depth \in Nat \ {0} /\ memo[d].depth <= TopFrame.depth
        BY <2>3
      <4>3. 1 + memo[d].depth <= TopFrame.depth + 1
        BY <1>2, <4>2
      <4> QED
        BY <4>1, <4>3
    <3> QED
      BY <2>4, <3>1, <3>2
  <2>6. Chain(key, b) >= D
    <3>1. CASE TopFrame.next = Nothing
      BY <1>1, <1>2, <2>1, <2>4, <3>1 DEF CleanInv
    <3>2. CASE TopFrame.next # Nothing
      <4>1. TopFrame.next \in Range(graph[key]) /\ TopFrame.depth = memo[TopFrame.next].depth
        BY <1>1, <2>1, <3>2 DEF CleanInv
      <4>2. Chain(key, b) >= 1 + TopFrame.depth
        BY <2>3, <2>4, <4>1
      <4> QED
        BY <1>2, <2>4, <4>2
    <3> QED
      BY <3>1, <3>2
  <2> QED
    BY <1>2, <2>4, <2>5, <2>6
<1> QED
  BY <1>2, <1>3, <1>5, <1>6, <1>7

(* What a frame without a cycle found is kept. *)
LEMMA KeptGrows ==
  ASSUME DepthAll, TopFrame.rest = <<>>, ~TopFrame.cyclic, NEW key, key = TopFrame.key,
         NEW state, state.depth = TopFrame.depth + 1, state.next = TopFrame.next, state # Nothing,
         graph' = graph, contextual' = contextual,
         \A k \in Class : memo'[k] = (IF k = key THEN state ELSE memo[k]) /\ states'[k] = (IF k = key THEN state ELSE states[k])
  PROVE  /\ Kept' = Kept \cup {key} /\ KeptInv' /\ AnswersKept' /\ memo'[key] = state
         /\ \A k \in Kept : memo'[k] = memo[k]
<1>1. /\ graph \in Graph /\ TopFrame = frames[Len(frames)] /\ TopFrame \in FrameShape /\ LevelInv(Len(frames))
      /\ Len(frames) \in Nat \ {0}
  BY PathTypes
<1>2. PICK D, n : D = TopFrame.depth + 1 /\ n = Len(frames)
  OBVIOUS
<1>3. /\ key \in Classes /\ key \notin Kept /\ D \in Nat \ {0}
      /\ \A b \in SUBSET Classes : b \cap Reachable(key) = {} => Chain(key, b) = D
  BY <1>2, TopDone
<1>4. state.depth = D /\ state.next = TopFrame.next /\ state # Nothing
  BY <1>2
<1>5. /\ memo \in [Class -> Answer] /\ states \in [Class -> Answer] /\ Classes \subseteq Class /\ key \in Class
  BY <1>1, <1>3, GraphTypes DEF DepthAll, SearchInv
<1>6. memo'[key] = state /\ states'[key] = state /\ \A k \in Class : k # key => memo'[k] = memo[k] /\ states'[k] = states[k]
  BY <1>5
<1>7. Classes' = Classes /\ (\A k : Reachable(k)' = Reachable(k)) /\ \A k : \A b : Chain(k, b)' = Chain(k, b)
  BY SameReach, SameChain
<1>8. Kept' = Kept \cup {key}
  BY <1>3, <1>4, <1>5, <1>6, <1>7 DEF Kept
<1>9. \A k \in Kept : memo'[k] = memo[k] /\ k \in Classes
  BY <1>3, <1>5, <1>6 DEF Kept
<1>10. CleanInv(Len(frames)) /\ Passed(Len(frames)) = Range(graph[key])
  BY <1>1 DEF LevelInv, Passed, Range
<1>11. ASSUME NEW k \in Kept'
       PROVE  /\ Range(graph[k]) \subseteq Kept'
              /\ \A b \in SUBSET Classes : b \cap Reachable(k) = {} => Chain(k, b) = memo'[k].depth
              /\ IF memo'[k].next = Nothing THEN memo'[k].depth = 1
                 ELSE memo'[k].next \in Range(graph[k]) /\ memo'[k].depth = memo'[memo'[k].next].depth + 1
  <2>1. CASE k \in Kept
    <3>1. /\ Range(graph[k]) \subseteq Kept
          /\ \A b \in SUBSET Classes : b \cap Reachable(k) = {} => Chain(k, b) = memo[k].depth
          /\ IF memo[k].next = Nothing THEN memo[k].depth = 1
             ELSE memo[k].next \in Range(graph[k]) /\ memo[k].depth = memo[memo[k].next].depth + 1
      BY <2>1 DEF DepthAll, KeptInv
    <3>2. memo'[k] = memo[k] /\ (memo[k].next \in Kept => memo'[memo[k].next] = memo[memo[k].next])
      BY <1>9, <2>1
    <3> QED
      BY <1>8, <3>1, <3>2
  <2>2. CASE k = key
    <3>1. Range(graph[key]) \subseteq Kept
      BY <1>10, <1>1 DEF CleanInv
    <3>2. IF TopFrame.next = Nothing THEN TopFrame.depth = 0
          ELSE TopFrame.next \in Range(graph[key]) \cap Kept /\ TopFrame.depth = memo[TopFrame.next].depth
      BY <1>1, <1>10 DEF CleanInv
    <3>3. IF state.next = Nothing THEN state.depth = 1
          ELSE state.next \in Range(graph[key]) /\ state.depth = memo'[state.next].depth + 1
      BY <1>2, <1>4, <1>9, <3>2
    <3> QED
      BY <1>3, <1>4, <1>6, <1>8, <2>2, <3>1, <3>3
  <2> QED
    BY <1>8, <2>1, <2>2
<1>12. KeptInv'
  BY <1>7, <1>11 DEF KeptInv
<1>13. AnswersKept'
  <2>1. ASSUME NEW k \in Classes, states'[k] # Nothing, k \notin contextual PROVE memo'[k] = states'[k]
    <3>1. CASE k = key
      BY <1>6, <3>1
    <3>2. CASE k # key
      BY <1>5, <1>6, <2>1, <3>2 DEF DepthAll, AnswersKept
    <3> QED
      BY <3>1, <3>2
  <2> QED
    BY <1>7, <2>1 DEF AnswersKept
<1> QED
  BY <1>6, <1>8, <1>9, <1>12, <1>13

(* What a frame that is done leaves behind. *)
LEMMA TopAnswers ==
  ASSUME DepthAll, CompletesFrame, NEW key, key = TopFrame.key
  PROVE  /\ KeptInv' /\ AnswersKept' /\ Kept \subseteq Kept' /\ Kept' \subseteq Kept \cup {key}
         /\ \A k \in Kept : memo'[k] = memo[k]
         /\ states'[key] # Nothing /\ states'[key].depth = TopFrame.depth + 1
         /\ ~TopFrame.cyclic => memo'[key] = states'[key] /\ key \in Kept' /\ contextual' = contextual
         /\ graph' = graph
<1>0. PICK state : state = [depth |-> TopFrame.depth + 1, next |-> TopFrame.next]
  OBVIOUS
<1>1. /\ TopFrame.rest = <<>> /\ graph' = graph /\ states' = [states EXCEPT ![key] = state]
      /\ IF TopFrame.cyclic THEN contextual' = contextual \cup {key} /\ memo' = memo
         ELSE memo' = [memo EXCEPT ![key] = state] /\ contextual' = contextual
  BY <1>0 DEF CompletesFrame
<1>2. /\ graph \in Graph /\ TopFrame \in FrameShape /\ states \in [Class -> Answer] /\ Classes \subseteq Class /\ key \in Classes
  BY <1>1, PathTypes, TopDone, GraphTypes DEF DepthAll, SearchInv
<1>3. states'[key] = state /\ \A k \in Class : k # key => states'[k] = states[k]
  BY <1>1, <1>2
<1>4. state # Nothing /\ state.depth = TopFrame.depth + 1 /\ state.next = TopFrame.next
  <2>1. TopFrame.depth \in Nat /\ TopFrame.next \in Class \cup {Nothing}
    BY <1>2 DEF FrameShape
  <2>2. state \in [depth : Nat \ {0}, next : Class \cup {Nothing}]
    BY <1>0, <2>1
  <2> QED
    BY <1>0, <2>2, NothingAssumption
<1>5. Classes' = Classes /\ (\A k : Reachable(k)' = Reachable(k)) /\ \A k : \A b : Chain(k, b)' = Chain(k, b)
  BY <1>1, SameReach, SameChain
<1>6. CASE TopFrame.cyclic
  <2>1. memo' = memo /\ contextual' = contextual \cup {key}
    BY <1>1, <1>6
  <2>2. Kept' = Kept
    BY <1>5, <2>1 DEF Kept
  <2>3. KeptInv'
    BY <1>1, <1>5, <2>1, <2>2 DEF DepthAll, KeptInv
  <2>4. AnswersKept'
    BY <1>2, <1>3, <1>5, <2>1 DEF DepthAll, AnswersKept
  <2> QED
    BY <1>1, <1>3, <1>4, <1>6, <2>1, <2>2, <2>3, <2>4
<1>7. CASE ~TopFrame.cyclic
  <2>1. /\ memo' = [memo EXCEPT ![key] = state] /\ contextual' = contextual /\ TopFrame.rest = <<>> /\ graph' = graph
    BY <1>1, <1>7
  <2>3. memo \in [Class -> Answer]
    BY DEF DepthAll, SearchInv
  <2>4. \A k \in Class : memo'[k] = (IF k = key THEN state ELSE memo[k]) /\ states'[k] = (IF k = key THEN state ELSE states[k])
    BY <1>2, <1>3, <2>1, <2>3
  <2>2. /\ Kept' = Kept \cup {key} /\ KeptInv' /\ AnswersKept' /\ memo'[key] = state
        /\ \A k \in Kept : memo'[k] = memo[k]
    BY <1>4, <1>7, <2>1, <2>4, KeptGrows
  <2> QED
    BY <1>1, <1>3, <1>4, <2>1, <2>2
<1> QED
  BY <1>6, <1>7

(* A class that is done is pending for the frame below it. *)
LEMMA DepthCompletes == ASSUME DepthAll, CompletesFrame, Len(frames) # 1, GraphInv', SearchInv' PROVE DepthAll'
<1>0. PICK n, key, D : n = Len(frames) /\ key = TopFrame.key /\ D = TopFrame.depth + 1
  OBVIOUS
<1>1. TopFrame.rest = <<>> /\ frames' = Seqs!Front(frames) /\ graph' = graph /\ pc' = pc
  BY DEF CompletesFrame
<1>2. /\ graph \in Graph /\ n \in Nat \ {0, 1} /\ frames \in Seq(FrameShape) /\ TopFrame = frames[n] /\ TopFrame \in FrameShape
      /\ \A i \in 1..n : frames[i] \in FrameShape /\ LevelInv(i)
  BY <1>0, PathTypes
<1>3. Len(frames') = n - 1 /\ \A i \in 1..(n - 1) : frames'[i] = frames[i] /\ i \in 1..n /\ i # n
  BY <1>0, <1>1, <1>2, FrontShape
<1>4. /\ key \in Classes /\ key \notin Kept /\ D \in Nat \ {0} /\ Upto(n) = Upto(n - 1) \cup {key}
      /\ D <= Chain(key, Upto(n - 1)) /\ (Chain(key, Upto(n - 1)) <= D \/ TooLong(D, n - 1)) /\ TopFrame.waiting = Nothing
  BY <1>0, <1>1, TopDone
<1>5. /\ KeptInv' /\ AnswersKept' /\ Kept \subseteq Kept' /\ Kept' \subseteq Kept \cup {key}
      /\ \A k \in Kept : memo'[k] = memo[k]
      /\ states'[key] # Nothing /\ states'[key].depth = D
      /\ ~TopFrame.cyclic => memo'[key] = states'[key] /\ key \in Kept' /\ contextual' = contextual
  BY <1>0, TopAnswers
<1>6. /\ Classes' = Classes /\ (\A k : Reachable(k)' = Reachable(k)) /\ (\A k : \A b : Chain(k, b)' = Chain(k, b))
      /\ \A k : Acyclic(k)' <=> Acyclic(k)
  BY <1>1, SameReach, SameChain
<1>7. TopFrame' = frames[n - 1] /\ n - 1 \in 1..(n - 1) /\ frames[n - 1].waiting = key /\ key # Nothing
  <2>1. TopFrame' = frames[n - 1] /\ n - 1 \in 1..(n - 1)
    BY <1>2, <1>3 DEF TopFrame
  <2>2. n \in 2..n
    BY <1>2
  <2>3. frames[n - 1].waiting = key
    BY <1>0, <1>2, <2>2 DEF DepthAll, SearchInv, Waits
  <2> QED
    BY <1>2, <1>4, <2>1, <2>3, GraphTypes
<1>8. \A i \in 1..(n - 1) : Upto(i)' = Upto(i) /\ Passed(i)' = Passed(i)
  <2>1. ASSUME NEW i \in 1..(n - 1) PROVE \A j \in 1..i : j \in 1..(n - 1)
    BY <1>2
  <2>2. \A i \in 1..(n - 1) : Upto(i)' = Upto(i)
    BY <1>3, <2>1 DEF Upto
  <2>3. \A i \in 1..(n - 1) : Passed(i)' = Passed(i)
    BY <1>1, <1>3 DEF Passed
  <2> QED
    BY <2>2, <2>3
<1>9. TooLong(TopFrame.depth, n) => TooLong(D, n - 1)
  <2>1. TopFrame.depth \in Nat
    BY <1>2 DEF FrameShape
  <2> QED
    BY <1>0, <1>2, <2>1, DepthAssumption DEF TooLong
<1>10. ASSUME NEW i \in 1..(n - 1), Deep(i) PROVE Deep(i)'
  <2>1. PICK j \in i..n : TooLong(frames[j].depth, j)
    BY <1>0, <1>4, <1>10 DEF Deep
  <2>2. CASE j = n
    <3>1. TooLong(states'[key].depth, n - 1)
      BY <1>2, <1>5, <1>9, <2>1, <2>2
    <3>2. TopFrame'.waiting = key
      BY <1>7
    <3> QED
      BY <1>3, <1>7, <3>1, <3>2 DEF Deep, TooLong
  <2>3. CASE j # n
    <3>1. j \in i..(n - 1) /\ j \in 1..(n - 1)
      BY <1>2, <2>3
    <3>2. TooLong(frames'[j].depth, j)
      BY <1>3, <2>1, <3>1
    <3> QED
      BY <1>3, <3>1, <3>2 DEF Deep, TooLong
  <2> QED
    BY <2>2, <2>3
<1>11. ASSUME NEW i \in 1..(n - 1) PROVE LevelInv(i)'
  <2>1. LevelInv(i) /\ frames'[i] = frames[i]
    BY <1>2, <1>3
  <2>2. frames[i].key \notin Kept'
    <3>1. frames[i].key # key
      <4>1. n \in 1..n /\ i \in 1..n /\ i # n
        BY <1>2, <1>3
      <4>2. \A j, k \in 1..n : frames[j].key = frames[k].key => j = k
        BY <1>0 DEF DepthAll, SearchInv, Distinct
      <4> QED
        BY <1>0, <1>2, <4>1, <4>2
    <3> QED
      BY <1>5, <2>1, <3>1 DEF LevelInv
  <2>3. \A j \in i..(n - 1) : frames'[j].key \in Reachable(frames[i].key) /\ (frames'[j].cyclic => frames[i].cyclic)
    <3>1. \A j \in i..(n - 1) : j \in i..n /\ j \in 1..(n - 1)
      BY <1>2
    <3> QED
      BY <1>0, <1>3, <2>1, <3>1 DEF LevelInv
  <2>4. Deep(i)' \/ \A k \in Passed(i) : Chain(k, Upto(i)) <= frames[i].depth
    BY <1>10, <2>1 DEF LevelInv
  <2>5. ~frames[i].cyclic => CleanInv(i)'
    <3>1. ASSUME ~frames[i].cyclic PROVE CleanInv(i)
      BY <2>1, <3>1 DEF LevelInv
    <3> QED
      BY <1>1, <1>5, <1>8, <2>1, <3>1 DEF CleanInv
  <2>6. /\ Range(frames[i].rest) \subseteq Range(graph[frames[i].key])
        /\ frames[i].depth = 0 \/ \E d \in Range(graph[frames[i].key]) : frames[i].depth <= Chain(d, Upto(i))
        /\ frames[i].waiting # Nothing => frames[i].rest # <<>> /\ Head(frames[i].rest) = frames[i].waiting
    BY <2>1 DEF LevelInv
  <2> QED
    BY <1>1, <1>3, <1>6, <1>8, <2>1, <2>2, <2>3, <2>4, <2>5, <2>6 DEF LevelInv
<1>12. StackInv'
  BY <1>3, <1>11 DEF StackInv
<1>13. PendingInv'
  <2>1. TopFrame'.waiting = key /\ Upto(n - 1)' = Upto(n - 1) /\ Len(frames') = n - 1
    BY <1>3, <1>7, <1>8
  <2>2. ~TopFrame'.cyclic => memo'[key] = states'[key]
    <3>1. n \in (n - 1)..n /\ LevelInv(n - 1)
      BY <1>2, <1>7
    <3>2. frames[n].cyclic => frames[n - 1].cyclic
      BY <1>0, <3>1 DEF LevelInv
    <3> QED
      BY <1>2, <1>5, <1>7, <3>2
  <2>3. states'[key].depth <= Chain(key, Upto(n - 1)) /\ (Chain(key, Upto(n - 1)) <= states'[key].depth \/ TooLong(states'[key].depth, n - 1))
    BY <1>4, <1>5
  <2> QED
    BY <1>5, <1>6, <2>1, <2>2, <2>3 DEF PendingInv, TooLong
<1>14. AcyclicInv'
  <2>1. ASSUME Acyclic(frames[1].key) PROVE contextual' = {} /\ \A i \in 1..(n - 1) : ~frames'[i].cyclic
    <3>1. contextual = {} /\ \A i \in 1..n : ~frames[i].cyclic
      BY <1>0, <2>1 DEF DepthAll, AcyclicInv
    <3>2. n \in 1..n
      BY <1>2
    <3> QED
      BY <1>2, <1>3, <1>5, <3>1, <3>2
  <2>2. frames'[1] = frames[1]
    <3>1. 1 \in 1..(n - 1)
      BY <1>2
    <3> QED
      BY <1>3, <3>1
  <2> QED
    BY <1>3, <1>6, <2>1, <2>2 DEF AcyclicInv
<1> QED
  BY <1>1, <1>5, <1>12, <1>13, <1>14 DEF DepthAll

(* The class the search began with is done, and the chain begins with it. *)
LEMMA DepthFound ==
  ASSUME DepthAll, CompletesFrame, Len(frames) = 1
  PROVE  KeptInv' /\ AnswersKept' /\ pc' = "names" /\ NamesInv'
<1>0. PICK key, D : key = TopFrame.key /\ D = TopFrame.depth + 1
  OBVIOUS
<1>1. TopFrame.rest = <<>> /\ graph' = graph /\ pc' = "names" /\ names' = <<key>>
  BY <1>0 DEF CompletesFrame
<1>2. /\ graph \in Graph /\ TopFrame = frames[1] /\ TopFrame \in FrameShape
  BY PathTypes
<1>3. /\ key \in Classes /\ D \in Nat \ {0} /\ D <= Chain(key, Upto(0)) /\ (Chain(key, Upto(0)) <= D \/ TooLong(D, 0))
  <2>1. PICK n : n = Len(frames) /\ n - 1 = 0
    OBVIOUS
  <2> QED
    BY <1>0, <1>1, <2>1, TopDone
<1>4. Upto(0) = {}
  <2>1. 1..0 = {}
    OBVIOUS
  <2> QED
    BY <2>1 DEF Upto
<1>5. /\ KeptInv' /\ AnswersKept' /\ states'[key] # Nothing /\ states'[key].depth = D
      /\ ~TopFrame.cyclic => memo'[key] = states'[key] /\ key \in Kept' /\ contextual' = contextual
  BY <1>0, TopAnswers
<1>6. (\A k : Longest(k)' = Longest(k) /\ (Acyclic(k)' <=> Acyclic(k))) /\ Longest(key) = Chain(key, Upto(0))
  BY <1>1, <1>4, SameChain, LongestIsChain
<1>7. Acyclic(key) => contextual' = {} /\ key \in Kept' /\ memo'[key].depth = D
  <2>1. 1 \in 1..Len(frames)
    OBVIOUS
  <2>2. Acyclic(key) => contextual = {} /\ ~TopFrame.cyclic
    BY <1>0, <1>2, <2>1 DEF DepthAll, AcyclicInv
  <2> QED
    BY <1>5, <2>2
<1>8. names'[1] = key /\ Len(names') = 1 /\ 1..1 = {1}
  BY <1>1
<1>9. NamesInv'
  <2>1. states'[key].depth <= Longest(key) /\ (Longest(key) <= states'[key].depth \/ TooLong(states'[key].depth, 0))
    BY <1>3, <1>5, <1>6
  <2>2. Acyclic(key) => contextual' = {} /\ \A i \in 1..1 : names'[i] \in Kept' /\ memo'[names'[i]].depth = memo'[key].depth - (i - 1)
    BY <1>3, <1>7, <1>8
  <2> QED
    BY <1>5, <1>6, <1>8, <2>1, <2>2 DEF NamesInv, TooLong
<1> QED
  BY <1>1, <1>5, <1>9

(* The names of a chain without a cycle are followed by what is kept. *)
LEMMA NextIsKept ==
  ASSUME GraphInv, SearchInv, DepthInv, pc = "names", Acyclic(names[1]), NEW m, m = Len(names), NEW last, last = Seqs!Last(names)
  PROVE  /\ m \in Nat \ {0} /\ last = names[m] /\ last \in Kept /\ NextKey = memo[last].next
         /\ \A i \in 1..m : names[i] \in Kept /\ memo[names[i]].depth = memo[names[1]].depth - (i - 1)
<1>1. names \in Seq(Classes) /\ m \in Nat \ {0} /\ last = names[m] /\ last \in Classes
  <2>1. names \in Seq(Classes) /\ names # <<>>
    BY DEF SearchInv
  <2> QED
    BY <2>1, FrontShape
<1>2. contextual = {} /\ \A i \in 1..m : names[i] \in Kept /\ memo[names[i]].depth = memo[names[1]].depth - (i - 1)
  BY DEF DepthInv, NamesInv
<1>3. last \in Kept
  <2>1. m \in 1..m
    BY <1>1
  <2> QED
    BY <1>1, <1>2, <2>1
<1>4. memo[last] # Nothing /\ (states[last] # Nothing => states[last] = memo[last])
  BY <1>1, <1>2, <1>3 DEF Kept, DepthInv, AnswersKept
<1>5. NextKey = memo[last].next
  <2>1. (IF states[last] # Nothing THEN states[last] ELSE memo[last]) = memo[last]
    BY <1>4
  <2> QED
    BY <1>4, <2>1 DEF NextKey
<1> QED
  BY <1>1, <1>2, <1>3, <1>5

(* The chain goes on with the class that was selected, which is one less deep. *)
LEMMA DepthNames == ASSUME GraphInv, SearchInv, DepthInv, AppendsName PROVE DepthInv'
<1>0. PICK m, last, k, next : m = Len(names) /\ last = Seqs!Last(names) /\ k = names[1] /\ next = NextKey
  OBVIOUS
<1>1. /\ pc = "names" /\ next # Nothing /\ names' = Append(names, next)
      /\ UNCHANGED <<graph, pc, states, contextual, memo>>
  BY <1>0 DEF AppendsName, ChainEnds, search
<1>2. /\ Kept' = Kept /\ KeptInv' /\ AnswersKept' /\ \A c : Longest(c)' = Longest(c) /\ (Acyclic(c)' <=> Acyclic(c))
  BY <1>1, SameKept, SameChain DEF DepthInv
<1>3. names \in Seq(Classes) /\ m \in Nat \ {0}
  BY <1>0, <1>1 DEF SearchInv
<1>4. names \in Seq(Classes \cup {next})
  BY <1>3, RangeOfSeq, SeqOfRange
<1>5. names'[1] = k /\ Len(names') = m + 1 /\ names'[m + 1] = next /\ \A i \in 1..m : names'[i] = names[i]
  BY <1>0, <1>1, <1>3, <1>4
<1>6. /\ states[k] # Nothing /\ states[k].depth <= Longest(k)
      /\ Longest(k) <= states[k].depth \/ TooLong(states[k].depth, 0)
      /\ Acyclic(k) => contextual = {}
  BY <1>0, <1>1 DEF DepthInv, NamesInv
<1>7. ASSUME Acyclic(k), NEW i \in 1..(m + 1) PROVE names'[i] \in Kept /\ memo[names'[i]].depth = memo[k].depth - (i - 1)
  <2>1. /\ last = names[m] /\ last \in Kept /\ next = memo[last].next
        /\ \A j \in 1..m : names[j] \in Kept /\ memo[names[j]].depth = memo[k].depth - (j - 1)
    BY <1>0, <1>1, <1>7, NextIsKept
  <2>2. CASE i \in 1..m
    BY <1>5, <2>1, <2>2
  <2>3. CASE i = m + 1
    <3>1. next \in Kept /\ memo[last].depth = memo[next].depth + 1
      BY <1>1, <2>1 DEF DepthInv, KeptInv
    <3>2. memo[next].depth \in Nat /\ memo[last].depth \in Nat /\ k \in Kept
      <4>1. 1 \in 1..m
        BY <1>3
      <4> QED
        BY <1>0, <2>1, <3>1, <4>1, KeptTypes
    <3>3. memo[k].depth \in Nat
      BY <3>2, KeptTypes
    <3>4. memo[last].depth = memo[k].depth - (m - 1)
      <4>1. m \in 1..m
        BY <1>3
      <4> QED
        BY <2>1, <4>1
    <3>5. memo[next].depth = memo[k].depth - ((m + 1) - 1)
      BY <1>3, <3>1, <3>2, <3>3, <3>4
    <3> QED
      BY <1>5, <2>3, <3>1, <3>5
  <2>4. i \in 1..m \/ i = m + 1
    BY <1>3
  <2> QED
    BY <2>2, <2>3, <2>4
<1>8. NamesInv'
  BY <1>1, <1>2, <1>5, <1>6, <1>7 DEF NamesInv, TooLong
<1> QED
  BY <1>1, <1>2, <1>8 DEF DepthInv

(* A search begins with a frame alone, or with what is kept of the class. *)
LEMMA DepthStarts == ASSUME GraphInv, SearchInv, DepthInv, StartsChain, SearchInv' PROVE DepthInv'
<1>0. PICK key, top : key = representative(Head(sources)) /\ top = ChainFrame(key)
  OBVIOUS
<1>1. /\ contextual' = {} /\ memo' = memo /\ graph' = graph
      /\ \/ /\ memo[key] # Nothing /\ pc' = "names" /\ states' = [Unknown EXCEPT ![key] = memo[key]] /\ names' = <<key>>
         \/ memo[key] = Nothing /\ pc' = "search" /\ states' = Unknown /\ frames' = <<top>>
  BY <1>0 DEF StartsChain
<1>2. /\ Classes' = Classes /\ (\A k : Reachable(k)' = Reachable(k)) /\ (\A k : \A b : Chain(k, b)' = Chain(k, b))
      /\ \A k : Longest(k)' = Longest(k) /\ (Acyclic(k)' <=> Acyclic(k))
  BY <1>1, SameReach, SameChain
<1>3. Kept' = Kept /\ KeptInv'
  <2>1. Kept' = Kept
    BY <1>1, <1>2 DEF Kept
  <2>2. KeptInv
    BY DEF DepthInv
  <2> QED
    BY <1>1, <1>2, <2>1, <2>2 DEF KeptInv
<1>4. graph \in Graph /\ Classes \subseteq Class
  BY GraphTypes DEF GraphInv
<1>5. CASE memo[key] # Nothing /\ pc' = "names" /\ states' = [Unknown EXCEPT ![key] = memo[key]] /\ names' = <<key>>
  <2>1. names'[1] = key /\ Len(names') = 1 /\ 1..1 = {1}
    BY <1>5
  <2>2. key \in Classes
    <3>1. names' \in Seq(Classes)
      BY <1>2 DEF SearchInv
    <3> QED
      BY <2>1, <3>1
  <2>3. \A k \in Classes : states'[k] = IF k = key THEN memo[key] ELSE Nothing
    BY <1>4, <1>5, <2>2 DEF Unknown
  <2>4. AnswersKept'
    BY <1>1, <1>2, <2>3 DEF AnswersKept
  <2>5. key \in Kept
    BY <1>5, <2>2 DEF Kept
  <2>6. Longest(key) = memo[key].depth
    BY <2>5, KeptReaches, LongestIsChain DEF DepthInv
  <2>7. memo[key].depth \in Nat
    BY <2>5, KeptTypes
  <2>8. NamesInv'
    <3>1. states'[key] = memo[key] /\ memo[key] # Nothing
      BY <1>5, <2>2, <2>3
    <3>2. states'[key].depth <= Longest(key) /\ Longest(key) <= states'[key].depth
      BY <2>6, <2>7, <3>1
    <3>3. \A i \in 1..1 : names'[i] \in Kept' /\ memo'[names'[i]].depth = memo'[key].depth - (i - 1)
      BY <1>1, <1>3, <2>1, <2>5, <2>7
    <3> QED
      BY <1>1, <1>2, <2>1, <3>1, <3>2, <3>3 DEF NamesInv
  <2> QED
    BY <1>3, <1>5, <2>4, <2>8 DEF DepthInv
<1>6. CASE memo[key] = Nothing /\ pc' = "search" /\ states' = Unknown /\ frames' = <<top>>
  <2>1. frames'[1] = top /\ Len(frames') = 1 /\ 1..1 = {1} /\ TopFrame' = top
    BY <1>6 DEF TopFrame
  <2>2. key \in Classes
    <3>1. frames' \in Seq(FrameShape')
      BY DEF SearchInv
    <3>2. top \in FrameShape'
      BY <2>1, <3>1
    <3>3. top.key \in Classes
      BY <1>2, <3>2 DEF FrameShape
    <3>4. top.key = key
      BY <1>0 DEF ChainFrame
    <3> QED
      BY <3>3, <3>4
  <2>3. /\ top.key = key /\ top.rest = graph[key] /\ top.depth = 0 /\ top.next = Nothing
        /\ top.cyclic = FALSE /\ top.waiting = Nothing
    BY <1>0, <1>4, <2>2, LevelBegins
  <2>4. AnswersKept'
    BY <1>2, <1>4, <1>6 DEF AnswersKept, Unknown
  <2>5. Passed(1)' = {}
    BY <1>1, <2>1, <2>3 DEF Passed
  <2>6. key \notin Kept /\ key \in Reachable(key)
    BY <1>6, <2>2, ReachesItself DEF Kept
  <2>7. CleanInv(1)'
    BY <2>1, <2>3, <2>5 DEF CleanInv
  <2>8. LevelInv(1)'
    BY <1>1, <1>2, <1>3, <2>1, <2>3, <2>5, <2>6, <2>7 DEF LevelInv
  <2>9. StackInv'
    BY <2>1, <2>8 DEF StackInv
  <2>10. PendingInv'
    BY <2>1, <2>3 DEF PendingInv
  <2>11. AcyclicInv'
    BY <1>1, <2>1, <2>3 DEF AcyclicInv
  <2> QED
    BY <1>3, <1>6, <2>4, <2>9, <2>10, <2>11 DEF DepthInv
<1> QED
  BY <1>1, <1>5, <1>6

(* At the start nothing is found. *)
LEMMA DepthInit == ASSUME CompositionInit PROVE DepthInv
<1>1. pc = "postorder" /\ states = Unknown /\ memo = Unknown /\ graph \in Graph
  BY DEF CompositionInit
<1>2. Classes \subseteq Class
  BY <1>1, GraphTypes
<1>3. Kept = {}
  BY <1>1, <1>2 DEF Kept, Unknown
<1>4. KeptInv
  BY <1>3 DEF KeptInv
<1>5. AnswersKept
  BY <1>1, <1>2 DEF AnswersKept, Unknown
<1> QED
  BY <1>1, <1>4, <1>5 DEF DepthInv

(* A step that does not concern what is found. *)
LEMMA DepthStays ==
  ASSUME DepthInv, UNCHANGED <<graph, states, contextual, memo>>, pc' \notin {"search", "names"}
  PROVE  DepthInv'
  BY SameKept DEF DepthInv

(* Nor one that changes nothing. *)
LEMMA DepthStutters == ASSUME DepthInv, UNCHANGED compositionVars PROVE DepthInv'
<1>1. UNCHANGED <<graph, pc, states, contextual, memo, frames, names>>
  BY DEF compositionVars, search
<1>2. /\ Kept' = Kept /\ KeptInv' /\ AnswersKept' /\ (\A k : Reachable(k)' = Reachable(k))
      /\ (\A k : \A b : Chain(k, b)' = Chain(k, b)) /\ \A k : Longest(k)' = Longest(k) /\ (Acyclic(k)' <=> Acyclic(k))
  BY <1>1, SameKept, SameChain, SameReach DEF DepthInv
<1>3. (StackInv <=> StackInv') /\ (PendingInv <=> PendingInv') /\ (AcyclicInv <=> AcyclicInv') /\ (NamesInv <=> NamesInv')
  <2>1. TopFrame' = TopFrame /\ (\A i : Upto(i)' = Upto(i)) /\ (\A i : Passed(i)' = Passed(i)) /\ \A i, k : TooLong(i, k)' <=> TooLong(i, k)
    BY <1>1 DEF TopFrame, Upto, Passed, TooLong
  <2>2. \A i : (Deep(i)' <=> Deep(i)) /\ (CleanInv(i)' <=> CleanInv(i))
    BY <1>1, <1>2, <2>1 DEF Deep, CleanInv
  <2>3. \A i : LevelInv(i)' <=> LevelInv(i)
    BY <1>1, <1>2, <2>1, <2>2 DEF LevelInv
  <2>4. StackInv <=> StackInv'
    BY <1>1, <2>3 DEF StackInv
  <2>5. PendingInv <=> PendingInv'
    BY <1>1, <1>2, <2>1 DEF PendingInv
  <2>6. AcyclicInv <=> AcyclicInv'
    BY <1>1, <1>2 DEF AcyclicInv
  <2>7. NamesInv <=> NamesInv'
    BY <1>1, <1>2, <2>1 DEF NamesInv
  <2> QED
    BY <2>4, <2>5, <2>6, <2>7
<1> QED
  BY <1>1, <1>2, <1>3 DEF DepthInv

(* Every step keeps the invariant. *)
LEMMA DepthStep ==
  ASSUME GraphInv, SearchInv, DepthInv, [CompositionNext]_compositionVars, GraphInv', SearchInv'
  PROVE  DepthInv'
<1>1. CASE StartsPostorder \/ Expanded \/ SeenBefore \/ Expands \/ EndsPostorder \/ StartsComponent \/ AppendsComponent
           \/ EndsComponents \/ Reports
  BY <1>1, DepthStays DEF StartsPostorder, Expanded, SeenBefore, Expands, EndsPostorder, StartsComponent, AppendsComponent,
     EndsComponents, Reports, search
<1>2. CASE CachedDependency \/ CycleDependency \/ BoundedDependency \/ EntersDependency \/ CompletesFrame
  <2>1. DepthAll
    BY <1>2 DEF DepthAll, DepthInv, CachedDependency, CycleDependency, BoundedDependency, EntersDependency, CompletesFrame,
       New, Searching
  <2>2. DepthAll' => DepthInv'
    BY DEF DepthAll, DepthInv
  <2>3. CASE CompletesFrame /\ Len(frames) = 1
    BY <2>1, <2>3, DepthFound DEF DepthInv
  <2> QED
    BY <1>2, <2>1, <2>2, <2>3, DepthCached, DepthCycle, DepthBounded, DepthEnters, DepthCompletes
<1> QED
  BY <1>1, <1>2, DepthStarts, DepthNames, DepthStutters DEF CompositionNext

(* What is kept is the length of the longest chain. *)
LEMMA KeptIsLongest == ASSUME GraphInv, SearchInv, DepthInv PROVE MemoIsExact
<1>1. ASSUME NEW k \in Classes, memo[k] # Nothing PROVE memo[k].depth = Longest(k)
  <2>1. k \in Kept
    BY <1>1 DEF Kept
  <2> QED
    BY <2>1, KeptReaches, LongestIsChain DEF DepthInv
<1> QED
  BY <1>1 DEF MemoIsExact

(* What was found decides, and without a cycle the names go on to its depth. *)
LEMMA NamesAreLongest == ASSUME GraphInv, SearchInv, DepthInv PROVE SearchDecides
<1>1. SUFFICES ASSUME pc = "names" PROVE SearchDecides
  BY DEF SearchDecides
<1>2. PICK k, m : k = names[1] /\ m = Len(names)
  OBVIOUS
<1>3. k \in Classes /\ m \in Nat \ {0} /\ names \in Seq(Classes) /\ names # <<>>
  BY <1>1, <1>2 DEF SearchInv
<1>4. PICK depth \in Nat : depth = states[k].depth
  <2>1. states[k] # Nothing
    BY <1>1, <1>2 DEF DepthInv, NamesInv
  <2> QED
    BY <1>3, <2>1, KnownTypes DEF Answer, FoundState
<1>5. PICK longest \in Nat : longest = Longest(k)
  BY <1>3, LongestIsChain, ChainStep DEF GraphInv
<1>6. depth <= longest /\ (longest <= depth \/ depth + 0 >= MaxDepth + 2)
  BY <1>1, <1>2, <1>4, <1>5 DEF DepthInv, NamesInv, TooLong
<1>7. depth <= longest /\ (depth > MaxDepth <=> longest > MaxDepth)
  BY <1>6, DepthAssumption
<1>8. ASSUME ChainEnds, Acyclic(k) PROVE m = longest
  <2>0. PICK last : last = Seqs!Last(names)
    OBVIOUS
  <2>1. /\ last = names[m] /\ last \in Kept /\ NextKey = memo[last].next
        /\ \A i \in 1..m : names[i] \in Kept /\ memo[names[i]].depth = memo[k].depth - (i - 1)
    BY <1>1, <1>2, <1>8, <2>0, NextIsKept
  <2>2. k \in Kept /\ memo[last].depth = memo[k].depth - (m - 1)
    <3>1. 1 \in 1..m /\ m \in 1..m
      BY <1>3
    <3> QED
      BY <1>2, <2>1, <3>1
  <2>3. memo[k].depth \in Nat /\ memo[k].depth = longest
    BY <1>5, <2>2, KeptTypes, KeptReaches, LongestIsChain DEF DepthInv
  <2>4. ~Repeats
    <3>1. SUFFICES ASSUME Repeats PROVE FALSE
      OBVIOUS
    <3>2. Seqs!Front(names) \in Seq(Classes) /\ Len(Seqs!Front(names)) = m - 1 /\ \A i \in 1..(m - 1) : Seqs!Front(names)[i] = names[i]
      BY <1>2, <1>3, FrontShape
    <3>3. PICK i \in 1..(m - 1) : last = names[i]
      <4>1. last \in {Seqs!Front(names)[i] : i \in 1..Len(Seqs!Front(names))}
        BY <2>0, <3>1, <3>2, RangeOfSeq DEF Repeats
      <4> QED
        BY <3>2, <4>1
    <3>4. i \in 1..m /\ i # m /\ i \in Nat
      BY <1>3
    <3>5. memo[last].depth = memo[k].depth - (i - 1)
      BY <2>1, <3>3, <3>4
    <3> QED
      BY <1>3, <2>2, <2>3, <3>4, <3>5
  <2>5. memo[last].depth = 1
    <3>1. memo[last].next = Nothing
      BY <1>8, <2>1, <2>4 DEF ChainEnds
    <3> QED
      BY <2>1, <3>1 DEF DepthInv, KeptInv
  <2> QED
    BY <1>3, <2>2, <2>3, <2>5
<1> QED
  BY <1>2, <1>4, <1>5, <1>7, <1>8 DEF SearchDecides

(* Whatever the graph, what the search keeps is the length of the longest chain from   *)
(* wherever the class is come to, and what it has found on its stack is that of the      *)
(* longest chain from the path to it, or one that is too long in any case.              *)
THEOREM FoundInvariant == CompositionSpec => [](ClassesInv /\ SearchInv /\ DepthInv)
<1>1. CompositionInit => ClassesInv /\ SearchInv /\ DepthInv
  BY ClassesInit, SearchInit, DepthInit
<1>2. (ClassesInv => GraphInv) /\ (ClassesInv' => GraphInv')
  BY DEF ClassesInv
<1>3. ClassesInv /\ SearchInv /\ DepthInv /\ [CompositionNext]_compositionVars => (ClassesInv /\ SearchInv /\ DepthInv)'
  BY <1>2, ClassesStep, SearchStepHolds, DepthStep
<1> QED
  BY <1>1, <1>3, PTL DEF CompositionSpec

(* No depth that append_bounded_dependency or a cycle cut short gets into the memo that   *)
(* later components search with: it is the length of the longest chain, for every graph. *)
THEOREM MemoExact == CompositionSpec => []MemoIsExact
<1>1. ClassesInv /\ SearchInv /\ DepthInv => MemoIsExact
  BY KeptIsLongest DEF ClassesInv
<1> QED
  BY <1>1, FoundInvariant, PTL

(* append_bounded_dependency leaves out no chain that would decide differently: the depth  *)
(* found is over the limit if and only if the longest chain is; and for a class that      *)
(* leads to no cycle chain_names puts together the longest chain.                        *)
THEOREM SearchDecidesDepth == CompositionSpec => []SearchDecides
<1>1. ClassesInv /\ SearchInv /\ DepthInv => SearchDecides
  BY NamesAreLongest DEF ClassesInv
<1> QED
  BY <1>1, FoundInvariant, PTL
================================================================================
