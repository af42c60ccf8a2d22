--------------------------- MODULE CompositionDepth ---------------------------
(***************************************************************************)
(* CompositionAnalyzer: how deep the classes of a project are nested in each   *)
(* other.  CompositionComponents groups the classes that depend on each other, *)
(* CompositionChain looks for the longest chain of dependencies from one class *)
(* of each group that no other group depends on, and a chain that is too long  *)
(* is reported.  The search keeps the depths it has found in a memo that later *)
(* searches share; what it has found inside of a cycle depends on where it came *)
(* from and is kept for the moment only.                                       *)
(*                                                                          *)
(* All of it is one synchronous computation with stacks of its own; one step   *)
(* is one turn of one of its loops.  Keys are numbers, in the order of the     *)
(* strings they stand for; a dependency is always a class of the graph, which  *)
(* is how ClassDependencyMap makes it.                                        *)
(***************************************************************************)
EXTENDS Integers, Sequences, Functions, FiniteSetsExt

Seqs == INSTANCE SequencesExt

CONSTANTS Graph,    \* the graphs to start from: the dependencies of each class
          Order,    \* the order in which the files declare the classes
          Nothing,  \* no class, no state
          MaxDepth  \* MAX_COMPOSITION_DEPTH

Class == Range(Order)

ASSUME OrderAssumption == Order \in Seq(Nat) /\ Nothing \notin Class /\ IsInjective(Order)
ASSUME NothingAssumption == Nothing \notin [depth : Nat \ {0}, next : Class \cup {Nothing}]
ASSUME GraphAssumption == \A g \in Graph : DOMAIN g \subseteq Class /\ g \in [DOMAIN g -> Seq(DOMAIN g)]
ASSUME DepthAssumption == MaxDepth \in Nat \ {0}

VARIABLES
  graph,      \* the dependencies of each class, in the order of the code
  pc,         \* the loop that is running
  todo,       \* the classes that the loop has still to begin with
  pending,    \* its stack, the top last
  seen,       \* the classes it has seen
  order,      \* the classes in postorder
  components, \* the strongly connected components
  sources,    \* those still to be searched from
  frames,     \* the stack of the search for a chain, the top last
  states,     \* what this search has found, per class
  contextual, \* the classes of which that depends on the way there
  memo,       \* what is kept for later searches
  names,      \* the chain that is put together
  reported    \* the chains that are too long

traversal == <<todo, pending, seen, order>>
search == <<frames, states, contextual, memo>>
compositionVars == <<graph, pc, traversal, components, sources, search, names, reported>>

Classes == DOMAIN graph
Unknown == [k \in Class |-> Nothing]

(* What of a sequence is in a set, in its order. *)
Only(s, S) ==
  LET kept[i \in 0..Len(s)] ==
        IF i = 0 THEN <<>> ELSE IF s[i] \in S THEN Append(kept[i - 1], s[i]) ELSE kept[i - 1]
  IN  kept[Len(s)]

(* graph.classes.keys() *)
Keys == Only(Order, Classes)

CompositionInit ==
  /\ graph \in Graph /\ pc = "postorder"
  /\ todo = Keys /\ pending = <<>> /\ seen = {} /\ order = <<>>
  /\ components = <<>> /\ sources = <<>>
  /\ frames = <<>> /\ states = Unknown /\ contextual = {} /\ memo = Unknown
  /\ names = <<>> /\ reported = {}
-----------------------------------------------------------------------------
(* CompositionComponents.postorder *)
Entry(key, expanded) == [key |-> key, expanded |-> expanded]

StartsPostorder ==
  /\ pc = "postorder" /\ pending = <<>> /\ todo # <<>>
  /\ pending' = <<Entry(Head(todo), FALSE)>> /\ todo' = Tail(todo)
  /\ UNCHANGED <<graph, pc, seen, order, components, sources, search, names, reported>>

(* append_postorder_state: its dependencies are done, *)
Expanded ==
  /\ pc = "postorder" /\ pending # <<>> /\ Seqs!Last(pending).expanded
  /\ order' = Append(order, Seqs!Last(pending).key) /\ pending' = Seqs!Front(pending)
  /\ UNCHANGED <<graph, pc, todo, seen, components, sources, search, names, reported>>

(* or it was seen before, *)
SeenBefore ==
  /\ pc = "postorder" /\ pending # <<>> /\ ~Seqs!Last(pending).expanded /\ Seqs!Last(pending).key \in seen
  /\ pending' = Seqs!Front(pending)
  /\ UNCHANGED <<graph, pc, todo, seen, order, components, sources, search, names, reported>>

(* or its dependencies are to be done first.                                     *)
Expands ==
  /\ pc = "postorder" /\ pending # <<>> /\ ~Seqs!Last(pending).expanded
  /\ LET key == Seqs!Last(pending).key
         unvisited == Only(graph[key], Classes \ seen')
     IN  /\ key \notin seen /\ seen' = seen \cup {key}
         /\ pending' = Seqs!Front(pending) \o <<Entry(key, TRUE)>> \o [i \in DOMAIN unvisited |-> Entry(unvisited[i], FALSE)]
  /\ UNCHANGED <<graph, pc, todo, order, components, sources, search, names, reported>>

EndsPostorder ==
  /\ pc = "postorder" /\ pending = <<>> /\ todo = <<>>
  /\ pc' = "components" /\ todo' = Seqs!Reverse(order) /\ seen' = {}
  /\ UNCHANGED <<graph, pending, order, components, sources, search, names, reported>>
-----------------------------------------------------------------------------
(* The edges as they are. *)
PredecessorsUnreversed(key) == graph[key]

(* reverse_graph *)
Predecessors(key) == Only(Keys, {k \in Classes : key \in Range(graph[k])})

(* components_from: the next key in reverse postorder begins a component, unless it *)
(* is in one already,                                                            *)
StartsComponent ==
  /\ pc = "components" /\ pending = <<>> /\ todo # <<>> /\ todo' = Tail(todo)
  /\ IF Head(todo) \in seen THEN UNCHANGED <<pending, components>>
     ELSE pending' = <<Head(todo)>> /\ components' = Append(components, {})
  /\ UNCHANGED <<graph, pc, seen, order, sources, search, names, reported>>

(* and append_component adds what leads to it.                                   *)
AppendsComponent ==
  /\ pc = "components" /\ pending # <<>>
  /\ LET key == Seqs!Last(pending)
     IN  IF key \in seen THEN pending' = Seqs!Front(pending) /\ UNCHANGED <<seen, components>>
         ELSE /\ seen' = seen \cup {key}
              /\ components' = [components EXCEPT ![Len(components)] = @ \cup {key}]
              /\ pending' = Seqs!Front(pending) \o Predecessors(key)
  /\ UNCHANGED <<graph, pc, todo, order, sources, search, names, reported>>

(* source_components_from: those without an edge from another one.                *)
Sources == Only(components, {c \in Range(components) : \A k \in Classes \ c : Range(graph[k]) \cap c = {}})

EndsComponents ==
  /\ pc = "components" /\ pending = <<>> /\ todo = <<>>
  /\ pc' = "sources" /\ sources' = Sources
  /\ UNCHANGED <<graph, traversal, components, search, names, reported>>
-----------------------------------------------------------------------------
representative(component) == CHOOSE key \in component : \A k \in component : key <= k

(* CompositionChain: a frame of the search. *)
ChainFrame(key) == [key |-> key, rest |-> graph[key], depth |-> 0, next |-> Nothing, cyclic |-> FALSE, waiting |-> Nothing]

TopFrame == frames[Len(frames)]
active == {frames[i].key : i \in DOMAIN frames}

(* chain: nothing is searched for a class that is in the memo.                    *)
StartsChain ==
  /\ pc = "sources" /\ sources # <<>> /\ contextual' = {}
  /\ LET key == representative(Head(sources))
     IN  IF memo[key] # Nothing
         THEN pc' = "names" /\ states' = [Unknown EXCEPT ![key] = memo[key]] /\ names' = <<key>> /\ UNCHANGED frames
         ELSE pc' = "search" /\ states' = Unknown /\ frames' = <<ChainFrame(key)>> /\ UNCHANGED names
  /\ UNCHANGED <<graph, traversal, components, sources, memo, reported>>

Searching == pc = "search" /\ TopFrame.rest # <<>>
Dependency == Head(TopFrame.rest)

(* What this search has found is used wherever it was found. *)
KnownInAnyContext(key) == IF states[key] # Nothing THEN states[key] ELSE memo[key]

(* What this search found in another context is not used.                         *)
KnownWithoutWaiting(key) ==
  IF states[key] # Nothing /\ key \notin contextual THEN states[key] ELSE memo[key]

(* append_cached_dependency: what this search has found, if it holds in every       *)
(* context or was just found for this frame; or what is in the memo.                *)
Known(key) ==
  IF states[key] # Nothing /\ (TopFrame.waiting = key \/ key \notin contextual) THEN states[key] ELSE memo[key]

(* select_chain: the last of the longest; then the next dependency.                *)
Selects(frame, key, depth) ==
  LET longer == IF depth >= frame.depth THEN [frame EXCEPT !.depth = depth, !.next = key] ELSE frame
  IN  [longer EXCEPT !.rest = Tail(@), !.waiting = Nothing]

CachedDependency ==
  /\ Searching /\ Known(Dependency) # Nothing
  /\ frames' = [frames EXCEPT ![Len(frames)] = Selects(@, Dependency, Known(Dependency).depth)]
  /\ UNCHANGED <<graph, pc, traversal, components, sources, states, contextual, memo, names, reported>>

(* A cycle of which only the class that closes it is told. *)
CycleDependencyOfTop ==
  /\ Searching /\ Known(Dependency) = Nothing /\ Dependency \in active
  /\ frames' = [frames EXCEPT ![Len(frames)] = [Selects(@, Dependency, 1) EXCEPT !.cyclic = TRUE]]
  /\ UNCHANGED <<graph, pc, traversal, components, sources, states, contextual, memo, names, reported>>

CycleDependency ==
  /\ Searching /\ Known(Dependency) = Nothing /\ Dependency \in active
  /\ frames' = [i \in DOMAIN frames |->
       [(IF i = Len(frames) THEN Selects(frames[i], Dependency, 1) ELSE frames[i]) EXCEPT !.cyclic = TRUE]]
  /\ UNCHANGED <<graph, pc, traversal, components, sources, states, contextual, memo, names, reported>>

(* append_bounded_dependency *)
Bounded == TopFrame.cyclic /\ Len(frames) >= MaxDepth + 2

(* A class may be entered again below itself. *)
NewOrActive == Searching /\ Known(Dependency) = Nothing

New == Searching /\ Known(Dependency) = Nothing /\ Dependency \notin active

BoundedDependency ==
  /\ New /\ Bounded /\ frames' = [frames EXCEPT ![Len(frames)].rest = Tail(@)]
  /\ UNCHANGED <<graph, pc, traversal, components, sources, states, contextual, memo, names, reported>>

EntersDependency ==
  /\ New /\ ~Bounded
  /\ frames' = Append([frames EXCEPT ![Len(frames)].waiting = Dependency], ChainFrame(Dependency))
  /\ UNCHANGED <<graph, pc, traversal, components, sources, states, contextual, memo, names, reported>>

(* complete_frame *)
CompletesFrame ==
  /\ pc = "search" /\ TopFrame.rest = <<>> /\ frames' = Seqs!Front(frames)
  /\ LET state == [depth |-> TopFrame.depth + 1, next |-> TopFrame.next]
     IN  /\ states' = [states EXCEPT ![TopFrame.key] = state]
         /\ IF TopFrame.cyclic
            THEN contextual' = contextual \cup {TopFrame.key} /\ UNCHANGED memo
            ELSE memo' = [memo EXCEPT ![TopFrame.key] = state] /\ UNCHANGED contextual
  /\ IF Len(frames) = 1 THEN pc' = "names" /\ names' = <<TopFrame.key>> ELSE UNCHANGED <<pc, names>>
  /\ UNCHANGED <<graph, traversal, components, sources, reported>>
-----------------------------------------------------------------------------
(* chain_next_key of the last of the names.                                      *)
NextKey ==
  LET state == IF states[Seqs!Last(names)] # Nothing THEN states[Seqs!Last(names)] ELSE memo[Seqs!Last(names)]
  IN  IF state = Nothing THEN Nothing ELSE state.next

Repeats == Seqs!Last(names) \in Range(Seqs!Front(names))
ChainEnds == Repeats \/ NextKey = Nothing

(* chain_names: the states are followed to their end, or to a class that was there. *)
AppendsName ==
  /\ pc = "names" /\ ~ChainEnds /\ names' = Append(names, NextKey)
  /\ UNCHANGED <<graph, pc, traversal, components, sources, search, reported>>

(* depth_violation, then the next component. *)
Reports ==
  /\ pc = "names" /\ ChainEnds
  /\ pc' = "sources" /\ sources' = Tail(sources) /\ names' = <<>>
  /\ reported' = IF Len(names) > MaxDepth THEN reported \cup {names} ELSE reported
  /\ UNCHANGED <<graph, traversal, components, search>>

CompositionNext ==
  \/ StartsPostorder \/ Expanded \/ SeenBefore \/ Expands \/ EndsPostorder
  \/ StartsComponent \/ AppendsComponent \/ EndsComponents
  \/ StartsChain \/ CachedDependency \/ CycleDependency \/ BoundedDependency \/ EntersDependency
  \/ CompletesFrame \/ AppendsName \/ Reports

(* The computation goes on: it is synchronous code.                               *)
CompositionSpec == CompositionInit /\ [][CompositionNext]_compositionVars /\ WF_compositionVars(CompositionNext)
-----------------------------------------------------------------------------
(* What the algorithms are for.                                                  *)
Reachable(key) ==
  {k \in Classes : \A closed \in SUBSET Classes :
     key \in closed /\ (\A c \in closed : Range(graph[c]) \subseteq closed) => k \in closed}

(* The length of the longest chain of dependencies: it ends where there is none, or *)
(* with the first class that is in it already.                                    *)
Longest(key) ==
  LET from[before \in SUBSET Classes] ==
        [k \in Classes |-> IF k \in before THEN 1
                           ELSE 1 + Max({0} \cup {from[before \cup {k}][d] : d \in Range(graph[k])})]
  IN  from[{}][key]

Acyclic(key) == \A k \in Reachable(key) : \A d \in Range(graph[k]) : k \notin Reachable(d)

FoundState == [depth : Nat \ {0}, next : Classes \cup {Nothing}]

(* Every variable stays within the values the code gives it; the class at the top of *)
(* the search is entered once, and waited for by the one below it.                 *)
CompositionTypeOK ==
  /\ graph \in Graph /\ pc \in {"postorder", "components", "sources", "search", "names"}
  /\ todo \in Seq(Classes) /\ seen \subseteq Classes /\ order \in Seq(Classes)
  /\ pending \in IF pc = "postorder" THEN Seq([key : Classes, expanded : BOOLEAN]) ELSE Seq(Classes)
  /\ components \in Seq(SUBSET Classes) /\ sources \in Seq(SUBSET Classes)
  /\ \A k \in Class : states[k] \in FoundState \cup {Nothing} /\ memo[k] \in FoundState \cup {Nothing}
  /\ contextual \subseteq Classes /\ names \in Seq(Classes)
  /\ \A i, j \in DOMAIN frames : frames[i].key = frames[j].key => i = j
  /\ \A i \in 2..Len(frames) : frames[i - 1].waiting = frames[i].key

(* The components are the classes that reach each other, and every class is reached *)
(* from one of the classes that the search for chains begins with.                 *)
ComponentsAreStrong ==
  pc = "sources" /\ sources = Sources =>
    /\ Range(components) = {{k \in Reachable(key) : key \in Reachable(k)} : key \in Classes}
    /\ IsInjective(components)
    /\ Classes = UNION {Reachable(representative(c)) : c \in Range(sources)}

(* What is kept for later searches holds wherever they come from: no depth that was  *)
(* cut short in a cycle is kept, whichever class the cycle was entered by.          *)
MemoIsExact == pc \in {"sources", "names"} => \A k \in Classes : memo[k] # Nothing => memo[k].depth = Longest(k)

(* A search decides whether its class is nested too deeply, in spite of its bound on *)
(* chains through cycles; for a class that leads to no cycle, the chain that is put    *)
(* together from what was found is the longest there is.                            *)
SearchDecides ==
  pc = "names" =>
    LET longest == Longest(names[1])
        depth == states[names[1]].depth
    IN  /\ depth <= longest /\ (depth > MaxDepth <=> longest > MaxDepth)
        /\ ChainEnds /\ Acyclic(names[1]) => Len(names) = longest

(* The analysis of any graph comes to an end.                                    *)
AnalysisEnds == <>(pc = "sources" /\ sources = <<>>)
=============================================================================
