----------------------------- MODULE Blocklist -----------------------------
(***************************************************************************)
(* The array of allocation records that graprof/blocklist.c keeps sorted   *)
(* by address.  A freed block is not taken out of the array: its size is   *)
(* set to zero and the entry is recycled when the address is handed out    *)
(* again.  An index into the array is 1-based here; 0 stands for NULL.     *)
(*                                                                         *)
(* Lookup and insertion share one binary search.  Position says where that *)
(* search ends in a sorted array; module BinarySearch models the loop      *)
(* itself and BinarySearch_proofs shows that it ends exactly there.        *)
(***************************************************************************)
EXTENDS Integers, Sequences

(* struct block.  direct_call says that the entry owns its file and func   *)
(* strings; origin names the event that allocated the block, and with it   *)
(* the strings that event duplicated; func is the function blamed for it.  *)
BlockRecord(Addr, Size, Func) ==
  [address : Addr, size : Size, direct_call : BOOLEAN, func : Func, origin : Nat]

(* The order the two binary searches rely on: strictly ascending, hence    *)
(* one entry per address.                                                  *)
Sorted(bs) ==
  \A i, j \in 1 .. Len(bs) : i < j => bs[i].address < bs[j].address

(* What the loop leaves in left: how many entries lie below the address.   *)
IsPosition(bs, address, p) ==
  /\ p \in 0 .. Len(bs)
  /\ \A i \in 1 .. Len(bs) : IF i <= p THEN bs[i].address < address
                                       ELSE bs[i].address >= address

Position(bs, address) ==
  CHOOSE p \in 0 .. Len(bs) : IsPosition(bs, address, p)

(* The search stops early on an entry that has the address, live or not.   *)
Present(bs, address) == \E i \in 1 .. Len(bs) : bs[i].address = address

(* blocklist_get_by_address: the entry, unless its size has been zeroed.   *)
GetFreedToo(bs, address) ==
  IF Present(bs, address) THEN Position(bs, address) + 1 ELSE 0

blocklist_get_by_address(bs, address) ==
  LET i == Position(bs, address) + 1
  IN  IF Present(bs, address) /\ bs[i].size # 0 THEN i ELSE 0

(* blocklist_add: the recycled entry as it stands, or a zeroed entry at    *)
(* the position the search ended on, every later entry moved up by one.    *)
InsertBlock(bs, p, b) ==
  [i \in 1 .. Len(bs) + 1 |-> IF i <= p THEN bs[i]
                              ELSE IF i = p + 1 THEN b ELSE bs[i - 1]]

AddAtEnd(bs, address, zeroed) ==
  IF Present(bs, address) THEN bs
  ELSE Append(bs, [zeroed EXCEPT !.address = address])

blocklist_add(bs, address, zeroed) ==
  IF Present(bs, address) THEN bs
  ELSE InsertBlock(bs, Position(bs, address), [zeroed EXCEPT !.address = address])

(* The index of the entry blocklist_add returns.                           *)
AddedIndex(bs, address) == Position(bs, address) + 1

(* blocklist_relocate: invalidate the old entry, add one for the new       *)
(* address and copy the old contents into it.                              *)
RelocateKeepingNames(bs, k, address, zeroed) ==
  LET old == [bs EXCEPT ![k].size = 0]
  IN  [blocklist_add(old, address, zeroed) EXCEPT
         ![AddedIndex(old, address)] = [bs[k] EXCEPT !.address = address]]

RelocateKeepingOld(bs, k, address, zeroed) ==
  [blocklist_add(bs, address, zeroed) EXCEPT
     ![AddedIndex(bs, address)] = [bs[k] EXCEPT !.address = address]]

blocklist_relocate(bs, k, address, zeroed) ==
  LET old == [bs EXCEPT ![k].size = 0, ![k].direct_call = FALSE]
  IN  [blocklist_add(old, address, zeroed) EXCEPT
         ![AddedIndex(old, address)] = [bs[k] EXCEPT !.address = address]]

(* blocklist_remove: the strings are freed by the caller of this operator. *)
blocklist_remove(bs, k) ==
  [bs EXCEPT ![k].size = 0, ![k].direct_call = FALSE]

=============================================================================
