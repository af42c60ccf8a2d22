-------------------------- MODULE MCCompositionDepth --------------------------
(***************************************************************************)
(* Graphs of four classes, of six that enter cycles by several ways, and one   *)
(* of six that the search has to bound.                                       *)
(***************************************************************************)
EXTENDS CompositionDepth, SequencesExt

MCOrder == <<3, 1, 4, 2, 6, 5>>

Ascending(s) == SetToSortSeq(s, LAMBDA x, y : x < y)
Dependencies(k) == {Ascending(s) : s \in SUBSET (1..4 \ {k})}
Few == {<<>>, <<1>>, <<4>>, <<2, 4>>, <<4, 2, 3>>, <<1, 4>>}

(* Three classes depend on each other in any way; of the six ways of the fourth, four *)
(* lead to itself and one closes a cycle of all four.                              *)
Small == {<<one, two, three, four>> : one \in Dependencies(1), two \in Dependencies(2),
                                      three \in Dependencies(3), four \in Few}

(* two others lead into their cycles, *)
Entered == {<<one, two, three, four, <<five>>, six>> :
              one \in {<<2>>, <<2, 3>>, <<3, 2>>}, two \in {<<1>>, <<3, 1>>, <<1, 4>>}, three \in {<<4>>, <<1, 4>>},
              four \in {<<>>, <<4>>, <<2>>}, five \in 1..3, six \in {<<1>>, <<2>>, <<3, 2>>}}

(* and every class depends on all others.                                        *)
Dense == [k \in 1..6 |-> SetToSortSeq(1..6 \ {k}, LAMBDA x, y : (x + k) % 6 < (y + k) % 6)]

MCGraph == Small \cup Entered \cup {Dense}
=============================================================================
