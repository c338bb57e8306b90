----------------------------- MODULE MCCallTree -----------------------------
EXTENDS CallTree, TLC

CONSTANTS f, g   (* two instrumented functions *)

MCFunction == {f, g}

(* Two names of their own, and that of code that is not instrumented.      *)
MCSymbols == {"f", "g", "qsort"}

MCSymbol == f :> "f" @@ g :> "g"

=============================================================================
