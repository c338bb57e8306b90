----------------------------- MODULE MCSession -----------------------------
EXTENDS Session, TLC

CONSTANTS P, Q, R   (* the profilee and two programs it starts *)

(* A program with a shared library, and two that are linked statically.    *)
MCObjectFiles == P :> 2 @@ Q :> 1 @@ R :> 1

(* A full buffer and a rest for the profilee.                              *)
MCMaxPackets == P :> 3 @@ Q :> 2 @@ R :> 2

MCSymmetry == Permutations(Others)

=============================================================================
