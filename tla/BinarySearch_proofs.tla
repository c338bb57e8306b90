------------------------ MODULE BinarySearch_proofs ------------------------
(***************************************************************************)
(* The loop of blocklist.c answers correctly on every sorted array.        *)
(*                                                                         *)
(* Window is inductive only together with the types, and the answer of a   *)
(* search that has found its entry has to be carried along to the end:     *)
(* Inv adds both.                                                          *)
(***************************************************************************)
EXTENDS BinarySearch, SequenceTheorems, TLAPS

Found == pc = "found" => i < Len(blocks) /\ blocks[i + 1].address = address

Absent == pc = "absent" => left > right

Inv == TypeOK /\ Window /\ Found /\ Absent

-----------------------------------------------------------------------------
(* Every array a search may run on has natural numbers for its addresses.  *)
LEMMA ArrayFacts ==
  ASSUME NEW bs \in Arrays
  PROVE  /\ Len(bs) \in Nat
         /\ \A k \in 1 .. Len(bs) : bs[k].address \in Nat
         /\ Sorted(bs)
<1>1. bs \in Seq([address : Nat]) /\ Sorted(bs)
  BY ArraysAreSorted
<1> DEFINE Entry == [address : Nat]
<1>2. Len(bs) \in Nat /\ \A k \in 1 .. Len(bs) : bs[k] \in Entry
  <2> HIDE DEF Entry
  <2>1. bs \in Seq(Entry)
    BY <1>1 DEF Entry
  <2> QED
    BY <2>1, ElementOfSeq, LenProperties
<1> QED
  BY <1>1, <1>2

(* What Middle returns lies in the window, so that Below and Above leave   *)
(* less of it.                                                             *)
LEMMA MiddleInWindow ==
  ASSUME NEW l \in Int, NEW r \in Int, l <= r
  PROVE  Middle(l, r) \in Int /\ l <= Middle(l, r) /\ Middle(l, r) <= r
  BY DEF Middle

(* The first probe of every search is still to come.                       *)
LEMMA InitInv == Init => Inv
<1> SUFFICES ASSUME Init PROVE Inv
  OBVIOUS
<1>1. Len(blocks) \in Nat
  BY ArrayFacts DEF Init
<1>2. TypeOK
  BY <1>1 DEF Init, TypeOK
<1>3. Window
  BY <1>1 DEF Init, Window
<1> QED
  BY <1>2, <1>3 DEF Init, Inv, Found, Absent

(* A probe and the end of the loop both keep Inv.                          *)
LEMMA NextInv == Inv /\ [Next]_vars => Inv'
<1> SUFFICES ASSUME Inv, [Next]_vars PROVE Inv'
  OBVIOUS
<1> USE DEF Inv
<1>1. /\ Len(blocks) \in Nat
      /\ \A k \in 1 .. Len(blocks) : blocks[k].address \in Nat
      /\ Sorted(blocks)
  BY ArrayFacts DEF TypeOK
<1>2. address \in Nat
  BY AddressesAreNat DEF TypeOK
<1>3. CASE Probe
  <2> DEFINE m == Middle(left, right)
  <2>1. m \in Int /\ left <= m /\ m <= right
    BY <1>1, <1>3, MiddleInWindow DEF Probe, TypeOK
  <2>2. m + 1 \in 1 .. Len(blocks)
    BY <1>1, <2>1 DEF TypeOK
  <2>3. /\ i' = m /\ blocks' = blocks /\ address' = address /\ pc = "loop"
    BY <1>3 DEF Probe
  <2> HIDE DEF m
  <2>4. CASE /\ blocks[m + 1].address = address /\ pc' = "found"
             /\ left' = left /\ right' = right
    BY <1>1, <2>1, <2>2, <2>3, <2>4 DEF TypeOK, Window, Found, Absent
  <2>5. CASE /\ blocks[m + 1].address > address /\ pc' = pc
             /\ right' = m - 1 /\ left' = left
    <3>1. TypeOK'
      BY <1>1, <2>1, <2>2, <2>3, <2>5 DEF TypeOK
    <3>2. ASSUME NEW k \in 1 .. Len(blocks), k > right' + 1
          PROVE  blocks[k].address > address
      <4>1. k = m + 1 \/ m + 1 < k
        BY <1>1, <2>1, <2>5, <3>2
      <4>2. CASE k = m + 1
        BY <2>5, <4>2
      <4>3. CASE m + 1 < k
        <5>1. blocks[m + 1].address < blocks[k].address
          BY <1>1, <2>2, <4>3 DEF Sorted
        <5> QED
          BY <1>1, <1>2, <2>2, <2>5, <5>1
      <4> QED
        BY <4>1, <4>2, <4>3
    <3>3. Window'
      BY <2>3, <2>5, <3>2 DEF Window
    <3> QED
      BY <2>3, <2>5, <3>1, <3>3 DEF Found, Absent
  <2>6. CASE /\ blocks[m + 1].address < address /\ pc' = pc
             /\ left' = m + 1 /\ right' = right
    <3>1. TypeOK'
      BY <1>1, <2>1, <2>2, <2>3, <2>6 DEF TypeOK
    <3>2. ASSUME NEW k \in 1 .. Len(blocks), k <= left'
          PROVE  blocks[k].address < address
      <4>1. k = m + 1 \/ k < m + 1
        BY <1>1, <2>1, <2>6, <3>2
      <4>2. CASE k = m + 1
        BY <2>6, <4>2
      <4>3. CASE k < m + 1
        <5>1. blocks[k].address < blocks[m + 1].address
          BY <1>1, <2>2, <4>3 DEF Sorted
        <5> QED
          BY <1>1, <1>2, <2>2, <2>6, <5>1
      <4> QED
        BY <4>1, <4>2, <4>3
    <3>3. Window'
      BY <2>3, <2>6, <3>2 DEF Window
    <3> QED
      BY <2>3, <2>6, <3>1, <3>3 DEF Found, Absent
  <2> QED
    BY <1>3, <2>4, <2>5, <2>6 DEF Probe, Matches, Below, Above, m
<1>4. CASE GiveUp
  BY <1>4 DEF GiveUp, TypeOK, Window, Found, Absent
<1>5. CASE UNCHANGED vars
  BY <1>5 DEF vars, TypeOK, Window, Found, Absent
<1> QED
  BY <1>3, <1>4, <1>5 DEF Next

(* The invariant the other theorems rest on.                               *)
THEOREM SpecInv == Spec => []Inv
<1> QED
  BY InitInv, NextInv, PTL DEF Spec

-----------------------------------------------------------------------------
(* No probe leaves the array: i, left and right keep their ranges.         *)
THEOREM SpecTypeOK == Spec => []TypeOK
<1>1. Inv => TypeOK
  BY DEF Inv
<1> QED
  BY <1>1, SpecInv, PTL

(* What a search has cut off never contains the address.                   *)
THEOREM SpecWindow == Spec => []Window
<1>1. Inv => Window
  BY DEF Inv
<1> QED
  BY <1>1, SpecInv, PTL

(* When the loop of blocklist_get_by_address or of blocklist_add ends, it  *)
(* ends where Position says, for every sorted array and every address.     *)
THEOREM SpecSearchIsCorrect == Spec => []SearchIsCorrect
<1>1. ASSUME Inv PROVE SearchIsCorrect
  <2>1. /\ Len(blocks) \in Nat
        /\ \A k \in 1 .. Len(blocks) : blocks[k].address \in Nat
        /\ Sorted(blocks)
    BY <1>1, ArrayFacts DEF Inv, TypeOK
  <2>2. address \in Nat
    BY <1>1, AddressesAreNat DEF Inv, TypeOK
  <2>3. ASSUME pc = "found"
        PROVE  /\ i < Len(blocks) /\ blocks[i + 1].address = address
               /\ IsPosition(blocks, address, i)
    <3>1. /\ i \in 0 .. Len(blocks) /\ i + 1 \in 1 .. Len(blocks)
          /\ blocks[i + 1].address = address
      BY <1>1, <2>1, <2>3 DEF Inv, TypeOK, Found
    <3>2. ASSUME NEW k \in 1 .. Len(blocks), k <= i
          PROVE  blocks[k].address < address
      BY <2>1, <3>1, <3>2 DEF Sorted
    <3>3. ASSUME NEW k \in 1 .. Len(blocks), ~(k <= i)
          PROVE  blocks[k].address >= address
      <4>1. k = i + 1 \/ i + 1 < k
        BY <2>1, <3>1, <3>3
      <4>2. i + 1 < k => address < blocks[k].address
        BY <2>1, <3>1 DEF Sorted
      <4> QED
        BY <2>1, <2>2, <3>1, <4>1, <4>2
    <3> QED
      BY <1>1, <2>1, <2>3, <3>1, <3>2, <3>3 DEF IsPosition, Inv, Found
  <2>4. ASSUME pc = "absent"
        PROVE  ~Present(blocks, address) /\ IsPosition(blocks, address, left)
    <3>1. left = right + 1 /\ left \in 0 .. Len(blocks)
      BY <1>1, <2>1, <2>4 DEF Inv, TypeOK, Absent
    <3>2. \A k \in 1 .. Len(blocks) :
            IF k <= left THEN blocks[k].address < address
                         ELSE blocks[k].address > address
      BY <1>1, <2>1, <3>1 DEF Inv, Window
    <3> QED
      BY <2>1, <2>2, <3>1, <3>2 DEF Present, IsPosition
  <2> QED
    BY <2>3, <2>4 DEF SearchIsCorrect
<1> QED
  BY <1>1, SpecInv, PTL

(* Every probe that does not return leaves less to search.                 *)
THEOREM SpecWindowShrinks == Spec => WindowShrinks
<1>1. ASSUME Inv, [Next]_vars
      PROVE  [pc = "loop" /\ pc' = "loop" => right' - left' < right - left]_vars
  <2>1. Len(blocks) \in Nat
    BY <1>1, ArrayFacts DEF Inv, TypeOK
  <2>2. CASE Probe
    <3>1. /\ Middle(left, right) \in Int
          /\ left <= Middle(left, right) /\ Middle(left, right) <= right
      BY <1>1, <2>1, <2>2, MiddleInWindow DEF Probe, Inv, TypeOK
    <3> QED
      BY <1>1, <2>1, <2>2, <3>1 DEF Probe, Below, Above, Inv, TypeOK
  <2>3. CASE GiveUp
    BY <2>3 DEF GiveUp
  <2>4. CASE UNCHANGED vars
    BY <2>4
  <2> QED
    BY <1>1, <2>2, <2>3, <2>4 DEF Next
<1> QED
  BY <1>1, SpecInv, PTL DEF Spec, WindowShrinks

=============================================================================
