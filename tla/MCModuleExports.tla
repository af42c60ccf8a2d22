---------------------------- MODULE MCModuleExports ----------------------------
(***************************************************************************)
(* Two modules that re-export each other, one with what they lead to, one that *)
(* is on the disk and not in the project, and a script.                       *)
(***************************************************************************)
EXTENDS ModuleExports

CONSTANTS a, b, c, d, e, x

MCModule == {a, b, c, d, e}
MCShared == {a, b, c}
MCScript == {e}
MCName == {x, Default}

None1 == [n \in MCName |-> <<>>]
Blank == [exported |-> {}, declared |-> {}, defaults |-> <<>>, assigned |-> <<>>,
          imports |-> None1, links |-> None1, stars |-> <<>>]
To(candidates, name) == [from |-> candidates, name |-> name]

(* `export *` from each of the modules, in this order. *)
Stars(modules) == [Blank EXCEPT !.stars = [i \in DOMAIN modules |-> <<modules[i]>>]]

(* What the two hold: they re-export each other before or after what declares x, of  *)
(* which there may be several, *)
One == {Stars(<<b, c>>), Stars(<<c, b>>), Stars(<<b, d>>),
        [Stars(<<b>>) EXCEPT !.links[x] = <<To(<<d, c>>, x)>>],
        [Stars(<<b>>) EXCEPT !.links[x] = <<To(<<e>>, x)>>]}

(* and pass it on by `export *`, by `import x` and `export { x }`, by `import { x }`    *)
(* and `export default x`, or by `export { default as x } from`.                     *)
Two == {Stars(<<a>>), Stars(<<a, d>>),
        [Stars(<<a>>) EXCEPT !.links[x] = <<To(None, x)>>, !.imports[x] = <<To(<<c>>, Default)>>],
        [Blank EXCEPT !.assigned = <<x>>, !.imports[x] = <<To(<<a>>, x)>>],
        [Stars(<<d>>) EXCEPT !.links[x] = <<To(<<a>>, Default)>>]}

(* What they lead to: nothing, x, an expression, a class that is the default.        *)
Exporting == [Blank EXCEPT !.exported = {x}]
Ends ==
  {<<Blank, Exporting>>, <<Exporting, Exporting>>,
   <<[Blank EXCEPT !.assigned = <<None>>], [Blank EXCEPT !.declared = {x}, !.defaults = <<x>>, !.stars = <<<<a>>>>]>>}

MCProgram ==
  {[m \in MCModule |-> CASE m = a -> one [] m = b -> two [] m = c -> ends[1] [] m = d -> ends[2] [] m = e -> Exporting] :
     one \in One, two \in Two, ends \in Ends}
MCAsks == {a, b} \X {x}
=============================================================================
