--------------------------- MODULE MCBinarySearch ---------------------------
EXTENDS BinarySearch, FiniteSets

CONSTANT Top   (* the largest address an array holds *)

(* The array that holds exactly the addresses of S.                        *)
ArrayOf(S) ==
  [k \in 1 .. Cardinality(S) |->
     [address |-> CHOOSE a \in S : Cardinality({b \in S : b <= a}) = k]]

(* Every sorted array over 1..Top, and every address in it or around it.   *)
MCArrays == {ArrayOf(S) : S \in SUBSET (1 .. Top)}

MCAddresses == 0 .. Top + 1

=============================================================================
