---------------------------- MODULE BinarySearch ----------------------------
(***************************************************************************)
(* The loop blocklist_get_by_address and blocklist_add share, one probe of *)
(* the array a step (graprof/blocklist.c).  left, right and i are the int  *)
(* variables of the C functions and count from zero.                       *)
(***************************************************************************)
EXTENDS Blocklist

CONSTANTS
  Arrays,     (* the arrays the search may be started on *)
  Addresses   (* the addresses it may be asked for       *)

ASSUME AddressesAreNat == Addresses \subseteq Nat

ASSUME ArraysAreSorted ==
  \A bs \in Arrays : /\ bs \in Seq([address : Nat])
                     /\ Sorted(bs)

VARIABLES blocks, address, left, right, i, pc

vars == <<blocks, address, left, right, i, pc>>

(* The middle of the window, and what is left of it on either side.        *)
Middle(l, r) == (l + r) \div 2

BelowSkippingOne(m) == m - 2
Below(m) == m - 1

AboveWithMiddle(m) == m
Above(m) == m + 1

(* When the probed entry is the one searched for.                          *)
MatchesAbove(probed, wanted) == probed >= wanted
Matches(probed, wanted) == probed = wanted

(* The search starts with the whole array in the window.                   *)
InitPastEnd ==
  /\ blocks \in Arrays
  /\ address \in Addresses
  /\ left = 0
  /\ right = Len(blocks)
  /\ i = 0
  /\ pc = "loop"

Init ==
  /\ blocks \in Arrays
  /\ address \in Addresses
  /\ left = 0
  /\ right = Len(blocks) - 1
  /\ i = 0
  /\ pc = "loop"

(* One turn of the loop: look at the middle, return it or drop a half.     *)
Probe ==
  /\ pc = "loop"
  /\ left <= right
  /\ i' = Middle(left, right)
  /\ LET probed == blocks[Middle(left, right) + 1].address
     IN  \/ Matches(probed, address) /\ pc' = "found" /\ UNCHANGED <<left, right>>
         \/ /\ ~Matches(probed, address) /\ probed > address
            /\ right' = Below(Middle(left, right)) /\ UNCHANGED <<left, pc>>
         \/ /\ ~Matches(probed, address) /\ probed < address
            /\ left' = Above(Middle(left, right)) /\ UNCHANGED <<right, pc>>
  /\ UNCHANGED <<blocks, address>>

(* The window is empty: the address is in no entry.                        *)
GiveUp ==
  /\ pc = "loop"
  /\ left > right
  /\ pc' = "absent"
  /\ UNCHANGED <<blocks, address, left, right, i>>

Next == Probe \/ GiveUp

(* A C loop with no blocking call in it: it keeps running.                 *)
Spec == Init /\ [][Next]_vars /\ WF_vars(Next)

-----------------------------------------------------------------------------
(* The variables stay in range; in particular no probe leaves the array.   *)
TypeOK ==
  /\ blocks \in Arrays
  /\ address \in Addresses
  /\ left \in 0 .. Len(blocks)
  /\ right \in -1 .. Len(blocks) - 1
  /\ left <= right + 1
  /\ i \in 0 .. Len(blocks)
  /\ pc \in {"loop", "found", "absent"}

(* Nothing outside the window left..right can have the address: what was   *)
(* cut off on the left lies below it, what was cut off on the right above. *)
Window ==
  \A k \in 1 .. Len(blocks) :
    /\ k <= left => blocks[k].address < address
    /\ k > right + 1 => blocks[k].address > address

(* The search answers with the place Blocklist says: the entry that has    *)
(* the address, or the place where inserting it keeps the array sorted.    *)
SearchIsCorrect ==
  /\ pc = "found" => /\ i < Len(blocks)
                     /\ blocks[i + 1].address = address
                     /\ IsPosition(blocks, address, i)
  /\ pc = "absent" => /\ ~Present(blocks, address)
                      /\ IsPosition(blocks, address, left)

(* Every probe that does not return makes the window strictly smaller.     *)
WindowShrinks ==
  [][pc = "loop" /\ pc' = "loop" => right' - left' < right - left]_vars

(* The loop always ends.                                                   *)
SearchEnds == <>(pc # "loop")

=============================================================================
