-------------------------------- MODULE Heap --------------------------------
(***************************************************************************)
(* What a memory profile speaks about: the live blocks of a program, each  *)
(* with its size and the function that asked for it, the bytes ever        *)
(* allocated and freed, and the most bytes that were in use at a time.     *)
(***************************************************************************)
EXTENDS Integers, FiniteSetsExt

CONSTANTS Addresses, Sizes, Askers

VARIABLES live, allocated, freed, peak

vars == <<live, allocated, freed, peak>>

Init ==
  /\ live = [a \in {} |-> 0]
  /\ allocated = 0
  /\ freed = 0
  /\ peak = 0

(* peak is the highest value allocated - freed has had.                    *)
Reaches(inUse) == peak' = Max({peak, inUse})

Allocate(address, size, asker) ==
  /\ address \notin DOMAIN live
  /\ live' = [a \in DOMAIN live \cup {address} |->
                IF a = address THEN [size |-> size, func |-> asker] ELSE live[a]]
  /\ allocated' = allocated + size
  /\ Reaches(allocated + size - freed)
  /\ UNCHANGED freed

Release(address) ==
  /\ address \in DOMAIN live
  /\ live' = [a \in DOMAIN live \ {address} |-> live[a]]
  /\ freed' = freed + live[address].size
  /\ UNCHANGED <<allocated, peak>>

(* In place, or moved to a free address; the asker stays the same.         *)
Resize(address, new, size) ==
  /\ address \in DOMAIN live
  /\ new \notin DOMAIN live \ {address}
  /\ live' = [a \in (DOMAIN live \ {address}) \cup {new} |->
                IF a = new THEN [live[address] EXCEPT !.size = size] ELSE live[a]]
  /\ allocated' = allocated + Max({0, size - live[address].size})
  /\ freed' = freed + Max({0, live[address].size - size})
  /\ Reaches(allocated - freed + size - live[address].size)

Next ==
  \E address \in Addresses :
    \/ Release(address)
    \/ \E size \in Sizes, asker \in Askers : Allocate(address, size, asker)
    \/ \E size \in Sizes, new \in Addresses : Resize(address, new, size)

Spec == Init /\ [][Next]_vars

=============================================================================
