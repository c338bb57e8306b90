--------------------------- MODULE MCProfiledHeap ---------------------------
EXTENDS ProfiledHeap

CONSTANTS f, g   (* two instrumented functions *)

MCFunction == {f, g}

(* Called by f itself, called by code below g that is not instrumented,    *)
(* and called where no instrumented function runs.                         *)
MCSites ==
  {[func |-> f, direct |-> TRUE], [func |-> g, direct |-> FALSE],
   [func |-> NoFunction, direct |-> FALSE]}

(* The sites of a program whose main is instrumented.                      *)
MCSitesBelowMain == {s \in MCSites : s.func # NoFunction}

=============================================================================
