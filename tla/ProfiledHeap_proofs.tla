------------------------- MODULE ProfiledHeap_proofs -------------------------
(***************************************************************************)
(* The proofs about the block array, the memory profile and the profile of *)
(* a program with a heap.                                                  *)
(*                                                                         *)
(* The memory profile keeps its books on every trace: types, the order of  *)
(* the block array, the balance of the byte totals, the call counters; no  *)
(* string is freed twice; and the blocks never hold more bytes than the    *)
(* totals say.  The order of the array (SortedBlocks) is what makes the    *)
(* others hold: without it a lookup may return any entry or none.  The     *)
(* first four are proved together as one inductive invariant, Inv;         *)
(* OwnedInv and Covered are inductive relative to it.                      *)
(*                                                                         *)
(* The profile of a program with a heap is true, for every program whose   *)
(* sizes are below 2 GiB, that asks malloc for no zero bytes and does not  *)
(* free NULL; without the last two it is not (see the README).  What ties  *)
(* the two sides together is the set of the live entries of the block      *)
(* array: each lemma about blocklist.c says what an operation makes of     *)
(* that set, and Agree says that it is the heap.                           *)
(***************************************************************************)
EXTENDS ProfiledHeap, SequenceTheorems, WellFoundedInduction, Sums

(***************************************************************************)
(* The operations on the block array, whatever the blocks in it are.       *)
(***************************************************************************)

(* What a binary search needs of an array.                                 *)
Searchable(bs) ==
  /\ Len(bs) \in Nat
  /\ \A i \in 1 .. Len(bs) : bs[i].address \in Nat
  /\ Sorted(bs)

-----------------------------------------------------------------------------
(* In a sorted array every address has its position: the least n such that *)
(* no entry behind n lies below the address.                               *)
LEMMA PositionExists ==
  ASSUME NEW bs, Searchable(bs), NEW a \in Nat
  PROVE  IsPosition(bs, a, Position(bs, a))
<1> DEFINE T == {n \in 0 .. Len(bs) : \A k \in n + 1 .. Len(bs) : bs[k].address >= a}
<1>1. Len(bs) \in Nat /\ \A k \in 1 .. Len(bs) : bs[k].address \in Nat
  BY DEF Searchable
<1>2. T \subseteq Nat /\ Len(bs) \in T
  BY <1>1
<1>3. PICK p \in T : \A n \in T : ~(n < p)
  <2>1. \E p \in T : \A n \in T : <<n, p>> \notin OpToRel(<, Nat)
    <3> HIDE DEF T
    <3> QED
      BY <1>2, NatLessThanWellFounded, WFMin
  <2> QED
    BY <1>2, <2>1 DEF OpToRel
<1>4. ASSUME NEW k \in 1 .. Len(bs), k <= p PROVE bs[k].address < a
  <2>1. p - 1 \in 0 .. Len(bs) /\ p - 1 \notin T
    <3>1. p \in 0 .. Len(bs)
      BY <1>3
    <3>2. p - 1 \in 0 .. Len(bs) /\ p - 1 < p
      BY <1>1, <1>4, <3>1
    <3> QED
      BY <1>3, <3>2
  <2>2. PICK j \in (p - 1) + 1 .. Len(bs) : ~(bs[j].address >= a)
    BY <2>1
  <2>3. j = p /\ p \in 1 .. Len(bs)
    BY <1>1, <1>3, <2>1, <2>2
  <2>4. bs[p].address < a
    BY <1>1, <2>2, <2>3
  <2>5. k < p => bs[k].address < bs[p].address
    BY <1>4, <2>3 DEF Searchable, Sorted
  <2> QED
    BY <1>1, <1>4, <2>3, <2>4, <2>5
<1>5. IsPosition(bs, a, p)
  <2>1. p \in 0 .. Len(bs) /\ \A k \in 1 .. Len(bs) : ~(k <= p) => bs[k].address >= a
    BY <1>1, <1>3
  <2> QED
    BY <1>4, <2>1 DEF IsPosition
<1>6. p \in 0 .. Len(bs)
  BY <1>5 DEF IsPosition
<1> HIDE DEF T
<1> QED
  BY <1>5, <1>6 DEF Position

(* An entry that has the address stands just behind its position.          *)
LEMMA PresentIsAddedIndex ==
  ASSUME NEW bs, Searchable(bs), NEW a \in Nat, Present(bs, a)
  PROVE  /\ AddedIndex(bs, a) \in 1 .. Len(bs)
         /\ bs[AddedIndex(bs, a)].address = a
<1>1. IsPosition(bs, a, Position(bs, a))
  BY PositionExists
<1>2. PICK k \in 1 .. Len(bs) : bs[k].address = a
  BY DEF Present
<1>3. Position(bs, a) \in Nat /\ Position(bs, a) + 1 \in 1 .. k
  BY <1>1, <1>2 DEF IsPosition, Searchable
<1>4. CASE Position(bs, a) + 1 = k
  BY <1>2, <1>4 DEF AddedIndex
<1>5. CASE Position(bs, a) + 1 < k
  <2>1. bs[Position(bs, a) + 1].address < bs[k].address
    BY <1>2, <1>3, <1>5 DEF Searchable, Sorted
  <2>2. bs[Position(bs, a) + 1].address >= a
    BY <1>1, <1>2, <1>3, <1>5 DEF IsPosition, Searchable
  <2>3. bs[Position(bs, a) + 1].address \in Nat
    BY <1>2, <1>3, <1>5 DEF Searchable
  <2> QED
    BY <1>2, <2>1, <2>2, <2>3
<1> QED
  BY <1>2, <1>3, <1>4, <1>5

(* blocklist_get_by_address returns a live entry that has the address.     *)
LEMMA GetByAddress ==
  ASSUME NEW bs, Searchable(bs), NEW a \in Nat, blocklist_get_by_address(bs, a) # 0
  PROVE  LET k == blocklist_get_by_address(bs, a)
         IN  k \in 1 .. Len(bs) /\ bs[k].address = a /\ bs[k].size # 0
BY PresentIsAddedIndex DEF blocklist_get_by_address, AddedIndex

(* An entry may be overwritten by one for the same address.                *)
LEMMA OverwriteSearchable ==
  ASSUME NEW bs, Searchable(bs), NEW S, bs \in Seq(S),
         NEW k \in 1 .. Len(bs), NEW b \in S, b.address = bs[k].address
  PROVE  /\ [bs EXCEPT ![k] = b] \in Seq(S)
         /\ Searchable([bs EXCEPT ![k] = b])
<1>1. /\ [bs EXCEPT ![k] = b] \in Seq(S)
      /\ Len([bs EXCEPT ![k] = b]) = Len(bs)
      /\ \A j \in 1 .. Len(bs) : [bs EXCEPT ![k] = b][j] = IF j = k THEN b ELSE bs[j]
  BY ExceptSeq
<1>2. \A j \in 1 .. Len(bs) : [bs EXCEPT ![k] = b][j].address = bs[j].address
  BY <1>1
<1> QED
  BY <1>1, <1>2 DEF Searchable, Sorted

(* Inserting where the search ended keeps every entry and the order.       *)
LEMMA InsertSearchable ==
  ASSUME NEW bs, Searchable(bs), NEW S, bs \in Seq(S),
         NEW b \in S, b.address \in Nat, ~Present(bs, b.address)
  PROVE  LET p == Position(bs, b.address)
         IN  /\ p \in 0 .. Len(bs)
             /\ InsertBlock(bs, p, b) \in Seq(S)
             /\ Len(InsertBlock(bs, p, b)) = Len(bs) + 1
             /\ InsertBlock(bs, p, b)[p + 1] = b
             /\ Searchable(InsertBlock(bs, p, b))
<1> DEFINE p  == Position(bs, b.address)
           nb == InsertBlock(bs, p, b)
<1>1. Len(bs) \in Nat
  BY DEF Searchable
<1>2. IsPosition(bs, b.address, p)
  BY PositionExists
<1>3. p \in 0 .. Len(bs)
  BY <1>2 DEF IsPosition
<1> HIDE DEF p
<1>4. \A i \in 1 .. Len(bs) : /\ bs[i] \in S /\ bs[i].address \in Nat
                              /\ i <= p => bs[i].address < b.address
                              /\ i > p => bs[i].address > b.address
  BY <1>1, <1>2, <1>3 DEF Searchable, IsPosition, Present
<1>5. nb = [i \in 1 .. Len(bs) + 1 |-> IF i <= p THEN bs[i]
                                       ELSE IF i = p + 1 THEN b ELSE bs[i - 1]]
  BY DEF InsertBlock
<1>6. nb \in Seq(S) /\ Len(nb) = Len(bs) + 1
  <2>1. nb \in [1 .. Len(bs) + 1 -> S]
    BY <1>1, <1>3, <1>4, <1>5
  <2> QED
    BY <1>1, <2>1, <1>5
<1> HIDE DEF nb
<1>7. /\ nb[p + 1] = b
      /\ \A i \in 1 .. Len(bs) + 1 : /\ i <= p => nb[i] = bs[i]
                                     /\ i > p + 1 => nb[i] = bs[i - 1]
  BY <1>1, <1>3, <1>5
<1>8. \A i \in 1 .. Len(nb) : nb[i].address \in Nat
  <2> SUFFICES ASSUME NEW i \in 1 .. Len(bs) + 1 PROVE nb[i].address \in Nat
    BY <1>6
  <2>1. CASE i <= p
    <3>1. i \in 1 .. Len(bs)
      BY <1>1, <1>3, <2>1
    <3> QED
      BY <1>4, <1>7, <2>1, <3>1
  <2>2. CASE i = p + 1
    BY <1>7, <2>2
  <2>3. CASE i > p + 1
    <3>1. i - 1 \in 1 .. Len(bs)
      BY <1>1, <1>3, <2>3
    <3> QED
      BY <1>4, <1>7, <2>3, <3>1
  <2> QED
    BY <1>3, <2>1, <2>2, <2>3
<1>9. Sorted(nb)
  <2> SUFFICES ASSUME NEW i \in 1 .. Len(bs) + 1, NEW j \in 1 .. Len(bs) + 1, i < j
               PROVE  nb[i].address < nb[j].address
    BY <1>6 DEF Sorted
  <2>1. \A x, y \in 1 .. Len(bs) : x < y => bs[x].address < bs[y].address
    BY DEF Searchable, Sorted
  <2>2. CASE j <= p
    <3>1. i \in 1 .. Len(bs) /\ j \in 1 .. Len(bs) /\ i <= p
      BY <1>1, <1>3, <2>2
    <3> QED
      BY <1>7, <2>1, <2>2, <3>1
  <2>3. CASE j = p + 1
    <3>1. i \in 1 .. Len(bs) /\ i <= p
      BY <1>1, <1>3, <2>3
    <3> QED
      BY <1>4, <1>7, <2>3, <3>1
  <2>4. CASE j > p + 1
    <3>1. j - 1 \in 1 .. Len(bs) /\ j - 1 > p
      BY <1>1, <1>3, <2>4
    <3>2. nb[j] = bs[j - 1] /\ bs[j - 1].address > b.address
      BY <1>4, <1>7, <2>4, <3>1
    <3>3. CASE i <= p
      <4>1. i \in 1 .. Len(bs) /\ i < j - 1
        BY <1>1, <1>3, <3>1, <3>3
      <4> QED
        BY <1>7, <2>1, <3>1, <3>2, <3>3, <4>1
    <3>4. CASE i = p + 1
      BY <1>4, <1>7, <3>1, <3>2, <3>4
    <3>5. CASE i > p + 1
      <4>1. i - 1 \in 1 .. Len(bs) /\ i - 1 < j - 1
        BY <1>1, <1>3, <3>5
      <4> QED
        BY <1>7, <2>1, <3>1, <3>2, <3>5, <4>1
    <3> QED
      BY <1>3, <3>3, <3>4, <3>5
  <2> QED
    BY <1>3, <2>2, <2>3, <2>4
<1>10. Searchable(nb)
  BY <1>1, <1>6, <1>8, <1>9 DEF Searchable
<1> QED
  BY <1>3, <1>6, <1>7, <1>10 DEF p, nb

(* blocklist_add returns an entry for the address; the array it leaves is  *)
(* still one for binary search.                                            *)
LEMMA AddSearchable ==
  ASSUME NEW bs, Searchable(bs), NEW S, bs \in Seq(S), NEW a \in Nat,
         NEW z, [z EXCEPT !.address = a] \in S, [z EXCEPT !.address = a].address = a
  PROVE  /\ blocklist_add(bs, a, z) \in Seq(S)
         /\ Searchable(blocklist_add(bs, a, z))
         /\ AddedIndex(bs, a) \in 1 .. Len(blocklist_add(bs, a, z))
         /\ blocklist_add(bs, a, z)[AddedIndex(bs, a)].address = a
<1>1. CASE Present(bs, a)
  BY <1>1, PresentIsAddedIndex DEF blocklist_add
<1>2. CASE ~Present(bs, a)
  <2> DEFINE b == [z EXCEPT !.address = a]
  <2>1. b \in S /\ b.address = a /\ Len(bs) \in Nat
    BY DEF Searchable
  <2> HIDE DEF b
  <2>2. LET p == Position(bs, b.address)
         IN  /\ p \in 0 .. Len(bs)
             /\ InsertBlock(bs, p, b) \in Seq(S)
             /\ Len(InsertBlock(bs, p, b)) = Len(bs) + 1
             /\ InsertBlock(bs, p, b)[p + 1] = b
             /\ Searchable(InsertBlock(bs, p, b))
    BY <1>2, <2>1, InsertSearchable
  <2>3. blocklist_add(bs, a, z) = InsertBlock(bs, Position(bs, a), b)
    BY <1>2 DEF blocklist_add, b
  <2> QED
    BY <2>1, <2>2, <2>3 DEF AddedIndex
<1> QED
  BY <1>1, <1>2

-----------------------------------------------------------------------------
Inv == TypeOK /\ SortedBlocks /\ BalancedTotals /\ CallsCounted

USE DEF NULL

-----------------------------------------------------------------------------
(* The array of a state that has its types can be searched.                *)
LEMMA TypedIsSearchable ==
  ASSUME NEW bs \in Seq(Block), Sorted(bs)
  PROVE  Searchable(bs)
<1>1. /\ Len(bs) \in Nat
      /\ \A i \in 1 .. Len(bs) : bs[i] \in Block
  BY ElementOfSeq, LenProperties
<1>2. \A i \in 1 .. Len(bs) : bs[i].address \in Nat
  BY <1>1, AddressesAssumption DEF Block, BlockRecord
<1> QED
  BY <1>1, <1>2 DEF Searchable

(* A zeroed entry that has got an address is a block.                      *)
LEMMA ZeroedIsBlock ==
  ASSUME NEW a \in Addresses
  PROVE  /\ [Zeroed EXCEPT !.address = a] \in Block
         /\ [Zeroed EXCEPT !.address = a].address = a
BY DEF Zeroed, Block, BlockRecord

(* Writing a block for a into the entry blocklist_add returns for a.       *)
LEMMA AddAndWrite ==
  ASSUME NEW bs \in Seq(Block), Sorted(bs), NEW b \in Block
  PROVE  LET nb == [blocklist_add(bs, b.address, Zeroed) EXCEPT
                      ![AddedIndex(bs, b.address)] = b]
         IN  nb \in Seq(Block) /\ Sorted(nb)
<1> DEFINE a  == b.address
           ab == blocklist_add(bs, a, Zeroed)
           x  == AddedIndex(bs, a)
<1>1. a \in Addresses /\ a \in Nat
  BY AddressesAssumption DEF Block, BlockRecord
<1>2. /\ ab \in Seq(Block) /\ Searchable(ab)
      /\ x \in 1 .. Len(ab) /\ ab[x].address = a
  <2>1. Searchable(bs)
    BY TypedIsSearchable
  <2>2. [Zeroed EXCEPT !.address = a] \in Block /\ [Zeroed EXCEPT !.address = a].address = a
    BY <1>1, ZeroedIsBlock
  <2> HIDE DEF a
  <2> QED
    BY <1>1, <2>1, <2>2, AddSearchable
<1> HIDE DEF ab, x
<1>3. [ab EXCEPT ![x] = b] \in Seq(Block) /\ Searchable([ab EXCEPT ![x] = b])
  BY <1>2, OverwriteSearchable
<1> QED
  BY <1>3 DEF Searchable, ab, x

(* The entry a lookup returns may be changed as long as it stays a block   *)
(* for the same address.                                                   *)
LEMMA ChangeFound ==
  ASSUME NEW bs \in Seq(Block), Sorted(bs), NEW k \in 1 .. Len(bs),
         NEW b \in Block, b.address = bs[k].address
  PROVE  [bs EXCEPT ![k] = b] \in Seq(Block) /\ Sorted([bs EXCEPT ![k] = b])
BY TypedIsSearchable, OverwriteSearchable DEF Searchable

(* What a lookup of a found block returns.                                 *)
LEMMA FoundBlock ==
  ASSUME NEW bs \in Seq(Block), Sorted(bs), NEW a \in Addresses \cup {NULL},
         blocklist_get_by_address(bs, a) # 0
  PROVE  LET k == blocklist_get_by_address(bs, a)
         IN  /\ k \in 1 .. Len(bs)
             /\ bs[k] \in Block
             /\ bs[k].address = a
             /\ bs[k].size \in Nat
<1>1. a \in Nat
  BY AddressesAssumption
<1>2. LET k == blocklist_get_by_address(bs, a)
      IN  k \in 1 .. Len(bs) /\ bs[k].address = a
  BY <1>1, TypedIsSearchable, GetByAddress
<1>3. bs[blocklist_get_by_address(bs, a)] \in Block
  BY <1>2, ElementOfSeq
<1>4. \A b \in Block : b.size \in Nat
  <2>1. Sizes \cup {0} \subseteq Nat
    BY SizesAssumption
  <2>2. \A b \in Block : b.size \in Sizes \cup {0}
    BY DEF Block, BlockRecord
  <2> QED
    BY <2>1, <2>2
<1> QED
  BY <1>2, <1>3, <1>4

(* The conversion to int and the high-water mark yield integers.           *)
LEMMA ToIntType ==
  ASSUME NEW n \in Int PROVE ToInt(n) \in Int
BY IntSpanAssumption DEF ToInt

LEMMA HighestType ==
  ASSUME NEW c \in Int, maximum_allocated \in Int
  PROVE  Highest(c) \in Int
BY DEF Highest

-----------------------------------------------------------------------------
(* What the three handlers share: everything but the call counters and the *)
(* number of events.                                                       *)
Books ==
  /\ blocks \in Seq(Block) /\ Sorted(blocks)
  /\ total_allocated \in Nat /\ current_allocated \in Int
  /\ maximum_allocated \in Int /\ total_freed \in Nat
  /\ total_allocated - total_freed = current_allocated
  /\ failed_mallocs \in Seq(Sizes)
  /\ failed_reallocs \in Seq(FailedRealloc)
  /\ failed_frees \in Seq(Addresses \cup {NULL})
  /\ released \subseteq Nat
  /\ status \in {"running", "segfault"}

(* memory_malloc behind its counter keeps the books.                       *)
LEMMA MallocBooks ==
  ASSUME Books, nevents \in Nat, NEW size \in Sizes, NEW site \in Site,
         NEW result \in Addresses \cup {NULL}, Malloc(size, site, result)
  PROVE  Books'
<1>1. CASE RecordFailedMalloc(size, site)
  <2>1. Append(failed_mallocs, size) \in Seq(Sizes)
    BY AppendProperties DEF Books
  <2> QED
    BY <1>1, <2>1 DEF RecordFailedMalloc, Report, Books, bytes
<1>2. CASE result # NULL /\ RecordBlock(size, site, result)
  <2> DEFINE b == [address |-> result, size |-> size, direct_call |-> site.direct,
                   func |-> site.func, origin |-> nevents + 1]
  <2>1. b \in Block /\ b.address = result
    BY <1>2 DEF Block, BlockRecord, Site
  <2>2. blocks' = [blocklist_add(blocks, b.address, Zeroed) EXCEPT
                     ![AddedIndex(blocks, b.address)] = b]
    BY <1>2, <2>1 DEF RecordBlock
  <2> HIDE DEF b
  <2>3. blocks' \in Seq(Block) /\ Sorted(blocks')
    BY <2>1, <2>2, AddAndWrite DEF Books
  <2>4. size \in Nat
    BY SizesAssumption
  <2>5. Highest(current_allocated + size) \in Int
    BY <2>4, HighestType DEF Books
  <2> QED
    BY <1>2, <2>3, <2>4, <2>5 DEF RecordBlock, Books, failures
<1> QED
  BY <1>1, <1>2 DEF Malloc

(* memory_free behind its counter keeps the books.                         *)
LEMMA FreeBooks ==
  ASSUME Books, NEW site \in Site, NEW ptr \in Addresses \cup {NULL},
         Free(ptr, site)
  PROVE  Books'
<1>1. CASE RecordFailedFree(ptr, site)
  <2>1. Append(failed_frees, ptr) \in Seq(Addresses \cup {NULL})
    BY AppendProperties DEF Books
  <2> QED
    BY <1>1, <2>1 DEF RecordFailedFree, Report, Books, bytes
<1>2. CASE ForgetBlock(ptr)
  <2> DEFINE k == blocklist_get_by_address(blocks, ptr)
             b == [blocks[k] EXCEPT !.size = 0, !.direct_call = FALSE]
  <2>1. /\ k \in 1 .. Len(blocks) /\ blocks[k] \in Block
        /\ blocks[k].size \in Nat
    BY <1>2, FoundBlock DEF ForgetBlock, Books
  <2>2. b \in Block /\ b.address = blocks[k].address
    BY <2>1 DEF Block, BlockRecord
  <2>3. blocks' = [blocks EXCEPT ![k] = b]
    BY <1>2, <2>1 DEF ForgetBlock, blocklist_remove
  <2>4. /\ total_freed' = total_freed + blocks[k].size
        /\ current_allocated' = current_allocated - blocks[k].size
        /\ released' = IF blocks[k].direct_call THEN released \cup {blocks[k].origin}
                                                ELSE released
        /\ UNCHANGED <<total_allocated, maximum_allocated, failures, status>>
    BY <1>2 DEF ForgetBlock
  <2> HIDE DEF k, b
  <2>5. blocks' \in Seq(Block) /\ Sorted(blocks')
    BY <2>1, <2>2, <2>3, ChangeFound DEF Books
  <2>6. released' \subseteq Nat
    BY <2>1, <2>4 DEF Books, Block, BlockRecord
  <2>7. /\ total_freed' \in Nat /\ current_allocated' \in Int
        /\ total_allocated' - total_freed' = current_allocated'
    <3>1. /\ total_allocated' = total_allocated /\ blocks[k].size \in Nat
          /\ total_freed' = total_freed + blocks[k].size
          /\ current_allocated' = current_allocated - blocks[k].size
      BY <2>1, <2>4
    <3>2. /\ total_allocated \in Nat /\ current_allocated \in Int /\ total_freed \in Nat
          /\ total_allocated - total_freed = current_allocated
      BY DEF Books
    <3> QED
      BY <3>1, <3>2
  <2>8. UNCHANGED <<total_allocated, maximum_allocated, failed_mallocs,
                    failed_reallocs, failed_frees, status>>
    BY <2>4 DEF failures
  <2> QED
    BY <2>5, <2>6, <2>7, <2>8 DEF Books
<1> QED
  BY <1>1, <1>2 DEF Free

(* memory_realloc keeps the books when it does not relay the call.         *)
LEMMA ReallocBooks ==
  ASSUME Books, NEW site \in Site, NEW ptr \in Addresses, NEW size \in Sizes,
         NEW result \in Addresses \cup {NULL},
         ReallocBlock(ptr, size, site, result)
  PROVE  Books'
<1> DEFINE k == blocklist_get_by_address(blocks, ptr)
<1>1. k # 0 => /\ k \in 1 .. Len(blocks) /\ blocks[k] \in Block
               /\ blocks[k].address = ptr /\ blocks[k].size \in Nat
  BY FoundBlock DEF Books
<1>2. CASE RecordFailedRealloc(ptr, size, site, result)
  <2> DEFINE f == [ptr |-> ptr, end_size |-> size,
                   start_size |-> IF k = 0 THEN 0 ELSE blocks[k].size,
                   reason |-> IF k = 0 THEN "FAILED_INVALID_PTR" ELSE "FAILED_RESULT"]
  <2>1. f \in FailedRealloc
    BY <1>1 DEF FailedRealloc, Block, BlockRecord
  <2>2. /\ Report(failed_reallocs, f, site)
        /\ UNCHANGED <<failed_mallocs, failed_frees>>
    BY <1>2 DEF RecordFailedRealloc
  <2> HIDE DEF f
  <2>3. Append(failed_reallocs, f) \in Seq(FailedRealloc)
    BY <2>1, AppendProperties DEF Books
  <2> QED
    BY <2>2, <2>3 DEF Report, Books, bytes
<1>3. CASE ResizeBlock(ptr, size, result)
  <2> DEFINE diff    == ToInt(size - blocks[k].size)
             grown   == [blocks[k] EXCEPT !.size = size]
             resized == [blocks EXCEPT ![k].size = size]
  <2>1. k # 0 /\ result # NULL
    BY <1>3 DEF ResizeBlock
  <2>2. /\ total_allocated' = total_allocated + Grown(diff)
        /\ total_freed' = total_freed + Shrunk(diff)
        /\ current_allocated' = current_allocated + diff
        /\ maximum_allocated' = Highest(current_allocated + diff)
        /\ blocks' = IF result = ptr THEN resized
                     ELSE blocklist_relocate(resized, k, result, Zeroed)
        /\ UNCHANGED <<failures, released, status>>
    BY <1>3 DEF ResizeBlock
  <2>3. diff \in Int
    <3>1. size \in Nat /\ blocks[k].size \in Nat
      BY <1>1, <2>1, SizesAssumption
    <3>2. size - blocks[k].size \in Int
      BY <3>1
    <3> QED
      BY <3>2, ToIntType
  <2>4. grown \in Block /\ grown.address = ptr /\ resized = [blocks EXCEPT ![k] = grown]
    BY <1>1, <2>1 DEF Block, BlockRecord
  <2> HIDE DEF diff, grown, k
  <2>5. resized \in Seq(Block) /\ Sorted(resized)
    BY <1>1, <2>1, <2>4, ChangeFound DEF Books
  <2>6. Len(resized) = Len(blocks) /\ resized[k] = grown
    BY <1>1, <2>1, <2>4, ExceptSeq DEF Books
  <2> HIDE DEF resized
  <2>7. ASSUME result # ptr PROVE blocks' \in Seq(Block) /\ Sorted(blocks')
    <3> DEFINE dead == [grown EXCEPT !.size = 0, !.direct_call = FALSE]
               old  == [resized EXCEPT ![k].size = 0, ![k].direct_call = FALSE]
               new  == [grown EXCEPT !.address = result]
    <3>1. dead \in Block /\ dead.address = ptr
      BY <2>4 DEF Block, BlockRecord
    <3>2. new \in Block /\ new.address = result
      BY <2>1, <2>4 DEF Block, BlockRecord
    <3>3. old = [resized EXCEPT ![k] = dead]
      BY <1>1, <2>1, <2>5, <2>6
    <3>4. blocks' = [blocklist_add(old, result, Zeroed) EXCEPT
                       ![AddedIndex(old, result)] = new]
      BY <2>2, <2>6, <2>7 DEF blocklist_relocate
    <3> HIDE DEF dead, old, new
    <3>5. old \in Seq(Block) /\ Sorted(old)
      BY <1>1, <2>1, <2>4, <2>5, <2>6, <3>1, <3>3, ChangeFound
    <3> QED
      BY <3>2, <3>4, <3>5, AddAndWrite
  <2>8. blocks' \in Seq(Block) /\ Sorted(blocks')
    BY <2>2, <2>5, <2>7
  <2>9. Highest(current_allocated + diff) \in Int
    BY <2>3, HighestType DEF Books
  <2>10. /\ Grown(diff) \in Nat /\ Shrunk(diff) \in Nat
         /\ Grown(diff) - Shrunk(diff) = diff
    BY <2>3 DEF Grown, Shrunk
  <2>11. /\ total_allocated' \in Nat /\ total_freed' \in Nat
         /\ current_allocated' \in Int /\ maximum_allocated' \in Int
         /\ total_allocated' - total_freed' = current_allocated'
    <3>1. /\ total_allocated' = total_allocated + Grown(diff)
          /\ total_freed' = total_freed + Shrunk(diff)
          /\ current_allocated' = current_allocated + diff
          /\ maximum_allocated' \in Int
      BY <2>2, <2>9
    <3>2. /\ total_allocated \in Nat /\ current_allocated \in Int /\ total_freed \in Nat
          /\ total_allocated - total_freed = current_allocated
      BY DEF Books
    <3> QED
      BY <2>3, <2>10, <3>1, <3>2
  <2>12. UNCHANGED <<failed_mallocs, failed_reallocs, failed_frees, released, status>>
    BY <2>2 DEF failures
  <2> QED
    BY <2>8, <2>11, <2>12 DEF Books
<1> QED
  BY <1>2, <1>3 DEF ReallocBlock

-----------------------------------------------------------------------------
(* The part of Inv the three handlers treat differently.                   *)
Tallies ==
  /\ total_allocations \in Nat /\ total_reallocations \in Nat /\ total_frees \in Nat
  /\ nevents \in 0 .. MaxEvents
  /\ total_allocations + total_reallocations + total_frees = nevents

LEMMA InitInv == Init => Inv
<1> SUFFICES ASSUME Init PROVE Inv
  OBVIOUS
<1>1. /\ <<>> \in Seq(Block) /\ <<>> \in Seq(Sizes) /\ <<>> \in Seq(FailedRealloc)
      /\ <<>> \in Seq(Addresses \cup {NULL}) /\ Sorted(<<>>)
  BY EmptySeq DEF Sorted
<1> QED
  BY <1>1, MaxEventsAssumption DEF Init, Inv, TypeOK, SortedBlocks, BalancedTotals,
     CallsCounted

(* Each handler keeps the books and counts its event once.                 *)
LEMMA NextInv == Inv /\ [Next]_vars => Inv'
<1> SUFFICES ASSUME Inv, [Next]_vars PROVE Inv'
  OBVIOUS
<1>1. Books /\ Tallies
  BY DEF Inv, TypeOK, SortedBlocks, BalancedTotals, CallsCounted, Books, Tallies
<1>2. Books' /\ Tallies'
  <2>1. CASE UNCHANGED vars
    BY <1>1, <2>1 DEF vars, bytes, counters, failures, Books, Tallies
  <2>2. CASE Next
    <3>1. PICK site \in Site, address \in Addresses \cup {NULL} :
            \/ memory_free(address, site)
            \/ \E size \in Sizes :
                 \/ memory_malloc(size, site, address)
                 \/ \E ptr \in Addresses \cup {NULL} :
                      memory_realloc(ptr, size, site, address)
      BY <2>2 DEF Next
    <3>2. /\ nevents \in Nat /\ MaxEvents \in Nat
          /\ nevents' = nevents + 1 /\ nevents' \in 0 .. MaxEvents
      BY <1>1, <2>2, MaxEventsAssumption DEF Next, NextEvent, Tallies
    <3>3. CASE memory_free(address, site)
      <4>1. Books'
        BY <1>1, <3>3, FreeBooks DEF memory_free
      <4>2. Tallies'
        BY <1>1, <3>2, <3>3 DEF memory_free, Tallies
      <4> QED
        BY <4>1, <4>2
    <3>4. ASSUME NEW size \in Sizes, memory_malloc(size, site, address)
          PROVE  Books' /\ Tallies'
      <4>1. Books'
        BY <1>1, <3>2, <3>4, MallocBooks DEF memory_malloc
      <4>2. Tallies'
        BY <1>1, <3>2, <3>4 DEF memory_malloc, Tallies
      <4> QED
        BY <4>1, <4>2
    <3>5. ASSUME NEW size \in Sizes, NEW ptr \in Addresses \cup {NULL},
                 memory_realloc(ptr, size, site, address)
          PROVE  Books' /\ Tallies'
      <4>1. total_reallocations' = total_reallocations + 1
        BY <3>5 DEF memory_realloc
      <4>2. CASE ReallocNull(size, site, address)
        <5>1. Books'
          BY <1>1, <3>2, <4>2, MallocBooks DEF ReallocNull
        <5>2. Tallies'
          BY <1>1, <3>2, <4>1, <4>2 DEF ReallocNull, Relayed, Tallies
        <5> QED
          BY <5>1, <5>2
      <4>3. CASE ReallocZero(ptr, site)
        <5>1. Books'
          BY <1>1, <4>3, FreeBooks DEF ReallocZero
        <5>2. Tallies'
          BY <1>1, <3>2, <4>1, <4>3 DEF ReallocZero, Relayed, Tallies
        <5> QED
          BY <5>1, <5>2
      <4>4. CASE ptr # NULL /\ ReallocBlock(ptr, size, site, address)
        <5>1. Books'
          BY <1>1, <4>4, ReallocBooks
        <5>2. Tallies'
          BY <1>1, <3>2, <4>1, <4>4 DEF ReallocBlock, Tallies
        <5> QED
          BY <5>1, <5>2
      <4> QED
        BY <3>5, <4>2, <4>3, <4>4 DEF memory_realloc
    <3> QED
      BY <3>1, <3>3, <3>4, <3>5
  <2> QED
    BY <2>1, <2>2
<1> QED
  BY <1>2 DEF Inv, TypeOK, SortedBlocks, BalancedTotals, CallsCounted, Books, Tallies

(* The invariant the other theorems rest on.                               *)
THEOREM SpecInv == Spec => []Inv
<1> QED
  BY InitInv, NextInv, PTL DEF Spec

-----------------------------------------------------------------------------
(* Types, and no counter below zero.                                       *)
THEOREM SpecTypeOK == Spec => []TypeOK
<1>1. Inv => TypeOK
  BY DEF Inv
<1> QED
  BY <1>1, SpecInv, PTL

(* The block array stays sorted with one entry per address, for every      *)
(* sequence of events: the binary searches of blocklist.c always get the   *)
(* array BinarySearch_proofs assumes.                                      *)
THEOREM SpecSortedBlocks == Spec => []SortedBlocks
<1>1. Inv => SortedBlocks
  BY DEF Inv
<1> QED
  BY <1>1, SpecInv, PTL

(* Bytes allocated minus bytes freed is bytes in use, even where the int   *)
(* in memory_realloc has cut a difference short, and every event is        *)
(* counted once, relayed or not.                                           *)
THEOREM SpecBooksBalance == Spec => []BooksBalance
<1>1. Inv => BooksBalance
  BY DEF Inv, BooksBalance
<1> QED
  BY <1>1, SpecInv, PTL

-----------------------------------------------------------------------------
(* Who owns which strings.  A direct call's entry owns the strings of one  *)
(* event among the first n, none of those released, and no other entry     *)
(* owns them too.                                                          *)
Owned(bs, rel, n) ==
  /\ rel \subseteq 1 .. n
  /\ \A i \in 1 .. Len(bs) : bs[i].direct_call => bs[i].origin \in (1 .. n) \ rel
  /\ \A i, j \in 1 .. Len(bs) :
       i # j /\ bs[i].direct_call /\ bs[j].direct_call => bs[i].origin # bs[j].origin

OwnedInv == Owned(blocks, released, nevents)

(* The strings of b may go into entry k: no other entry owns them.         *)
FreeFor(bs, rel, n, k, b) ==
  b.direct_call =>
    /\ b.origin \in (1 .. n) \ rel
    /\ \A i \in 1 .. Len(bs) : i # k /\ bs[i].direct_call => bs[i].origin # b.origin

(* Another event uses no strings of its own unless it records a block.     *)
LEMMA OwnedLater ==
  ASSUME NEW bs, NEW rel, NEW n \in Nat, Owned(bs, rel, n)
  PROVE  Owned(bs, rel, n + 1)
BY DEF Owned

(* An entry may be overwritten by one whose strings are free.              *)
LEMMA OwnedOverwrite ==
  ASSUME NEW bs \in Seq(Block), NEW rel, NEW n \in Nat, Owned(bs, rel, n),
         NEW k \in 1 .. Len(bs), NEW b \in Block, FreeFor(bs, rel, n, k, b)
  PROVE  Owned([bs EXCEPT ![k] = b], rel, n)
<1> DEFINE nb == [bs EXCEPT ![k] = b]
<1>1. /\ Len(nb) = Len(bs)
      /\ \A j \in 1 .. Len(bs) : nb[j] = IF j = k THEN b ELSE bs[j]
  BY ExceptSeq
<1> HIDE DEF nb
<1>2. Owned(nb, rel, n)
  BY <1>1 DEF Owned, FreeFor
<1> QED
  BY <1>2 DEF nb

(* An entry that owns nothing leaves strings free that it may have owned.  *)
LEMMA OwnedRelease ==
  ASSUME NEW bs \in Seq(Block), NEW rel, NEW n \in Nat, Owned(bs, rel, n),
         NEW k \in 1 .. Len(bs), NEW b \in Block, ~b.direct_call
  PROVE  /\ Owned([bs EXCEPT ![k] = b], rel, n)
         /\ bs[k].direct_call => Owned([bs EXCEPT ![k] = b], rel \cup {bs[k].origin}, n)
<1> DEFINE nb == [bs EXCEPT ![k] = b]
<1>1. /\ Len(nb) = Len(bs)
      /\ \A j \in 1 .. Len(bs) : nb[j] = IF j = k THEN b ELSE bs[j]
  BY ExceptSeq
<1> HIDE DEF nb
<1>2. Owned(nb, rel, n)
  BY <1>1 DEF Owned
<1>3. bs[k].direct_call => Owned(nb, rel \cup {bs[k].origin}, n)
  BY <1>1 DEF Owned
<1> QED
  BY <1>2, <1>3 DEF nb

(* blocklist_add changes no owner: it adds an entry that owns nothing.     *)
LEMMA OwnedAdd ==
  ASSUME NEW bs \in Seq(Block), Sorted(bs), NEW rel, NEW n \in Nat, Owned(bs, rel, n),
         NEW a \in Addresses
  PROVE  LET ab == blocklist_add(bs, a, Zeroed)
         IN  /\ Owned(ab, rel, n)
             /\ \A i \in 1 .. Len(ab) : ab[i].direct_call =>
                  \E j \in 1 .. Len(bs) : bs[j].direct_call /\ bs[j].origin = ab[i].origin
<1>1. CASE Present(bs, a)
  BY <1>1 DEF blocklist_add
<1>2. CASE ~Present(bs, a)
  <2> DEFINE z  == [Zeroed EXCEPT !.address = a]
             p  == Position(bs, a)
             ab == InsertBlock(bs, p, z)
  <2>1. z \in Block /\ z.address = a /\ ~z.direct_call
    BY DEF Zeroed, Block, BlockRecord
  <2>2. a \in Nat /\ Len(bs) \in Nat
    BY AddressesAssumption
  <2>3. p \in 0 .. Len(bs) /\ Len(ab) = Len(bs) + 1
    <3>1. Searchable(bs) /\ z.address \in Nat /\ ~Present(bs, z.address)
      BY <1>2, <2>1, <2>2, TypedIsSearchable
    <3>2. z \in Block /\ p = Position(bs, z.address)
      BY <2>1
    <3> HIDE DEF z
    <3> QED
      BY <3>1, <3>2, InsertSearchable
  <2>4. blocklist_add(bs, a, Zeroed) = ab
    BY <1>2 DEF blocklist_add
  <2>5. \A i \in 1 .. Len(ab) : ab[i] = IF i <= p THEN bs[i]
                                        ELSE IF i = p + 1 THEN z ELSE bs[i - 1]
    BY <2>2, <2>3 DEF InsertBlock
  <2> HIDE DEF z, p, ab
  <2> DEFINE From(i) == IF i <= p THEN i ELSE i - 1
  <2>6. \A i \in 1 .. Len(ab) :
           ab[i].direct_call => From(i) \in 1 .. Len(bs) /\ ab[i] = bs[From(i)]
    BY <2>1, <2>2, <2>3, <2>5
  <2>7. \A i, j \in 1 .. Len(ab) :
           i # j /\ ab[i].direct_call /\ ab[j].direct_call => From(i) # From(j)
    BY <2>1, <2>2, <2>3, <2>5
  <2> HIDE DEF From
  <2>8. Owned(ab, rel, n)
    BY <2>6, <2>7, SMTT(30) DEF Owned
  <2> QED
    BY <2>4, <2>6, <2>8
<1> QED
  BY <1>1, <1>2

(* The entry blocklist_add returns may be given strings nobody owns.       *)
LEMMA OwnedAddAndWrite ==
  ASSUME NEW bs \in Seq(Block), Sorted(bs), NEW rel, NEW n \in Nat, Owned(bs, rel, n),
         NEW b \in Block, FreeFor(bs, rel, n, 0, b)
  PROVE  Owned([blocklist_add(bs, b.address, Zeroed) EXCEPT
                  ![AddedIndex(bs, b.address)] = b], rel, n)
<1> DEFINE a  == b.address
           ab == blocklist_add(bs, a, Zeroed)
           x  == AddedIndex(bs, a)
<1>1. a \in Addresses /\ a \in Nat /\ Len(bs) \in Nat
  <2>1. a \in Addresses
    BY DEF Block, BlockRecord
  <2> HIDE DEF a
  <2> QED
    BY <2>1, AddressesAssumption
<1>2. ab \in Seq(Block) /\ x \in 1 .. Len(ab)
  <2>1. Searchable(bs)
    BY TypedIsSearchable
  <2>2. [Zeroed EXCEPT !.address = a] \in Block /\ [Zeroed EXCEPT !.address = a].address = a
    BY <1>1, ZeroedIsBlock
  <2> HIDE DEF a
  <2> QED
    BY <1>1, <2>1, <2>2, AddSearchable
<1>3. /\ Owned(ab, rel, n)
      /\ \A i \in 1 .. Len(ab) : ab[i].direct_call =>
           \E j \in 1 .. Len(bs) : bs[j].direct_call /\ bs[j].origin = ab[i].origin
  BY <1>1, OwnedAdd
<1> HIDE DEF a, ab, x
<1>4. FreeFor(ab, rel, n, x, b)
  <2>1. \A j \in 1 .. Len(bs) : j # 0
    BY <1>1
  <2> QED
    BY <1>3, <2>1 DEF FreeFor
<1> QED
  BY <1>2, <1>3, <1>4, OwnedOverwrite DEF a, ab, x

(* memory_malloc behind its counter: the block's strings are the event's.  *)
LEMMA MallocOwned ==
  ASSUME Books, OwnedInv, nevents \in Nat, NEW size \in Sizes, NEW site \in Site,
         NEW result \in Addresses \cup {NULL}, Malloc(size, site, result)
  PROVE  Owned(blocks', released', nevents + 1)
<1>1. Owned(blocks, released, nevents + 1)
  BY OwnedLater DEF OwnedInv
<1>2. CASE RecordFailedMalloc(size, site)
  BY <1>1, <1>2 DEF RecordFailedMalloc, Report
<1>3. CASE result # NULL /\ RecordBlock(size, site, result)
  <2> DEFINE b == [address |-> result, size |-> size, direct_call |-> site.direct,
                   func |-> site.func, origin |-> nevents + 1]
  <2>1. b \in Block /\ b.address = result /\ b.origin = nevents + 1
    BY <1>3 DEF Block, BlockRecord, Site
  <2>2. /\ blocks' = [blocklist_add(blocks, b.address, Zeroed) EXCEPT
                        ![AddedIndex(blocks, b.address)] = b]
        /\ released' = released
    BY <1>3, <2>1 DEF RecordBlock
  <2> HIDE DEF b
  <2>3. FreeFor(blocks, released, nevents + 1, 0, b)
    BY <2>1 DEF FreeFor, OwnedInv, Owned
  <2>4. blocks \in Seq(Block) /\ Sorted(blocks) /\ nevents + 1 \in Nat
    BY DEF Books
  <2>5. Owned([blocklist_add(blocks, b.address, Zeroed) EXCEPT
                 ![AddedIndex(blocks, b.address)] = b], released, nevents + 1)
    BY <1>1, <2>1, <2>3, <2>4, OwnedAddAndWrite
  <2> QED
    BY <2>2, <2>5
<1> QED
  BY <1>2, <1>3 DEF Malloc

(* memory_free behind its counter: the entry gives up what it frees.       *)
LEMMA FreeOwned ==
  ASSUME Books, OwnedInv, nevents \in Nat, NEW site \in Site,
         NEW ptr \in Addresses \cup {NULL}, Free(ptr, site)
  PROVE  Owned(blocks', released', nevents + 1)
<1>1. Owned(blocks, released, nevents + 1)
  BY OwnedLater DEF OwnedInv
<1>2. CASE RecordFailedFree(ptr, site)
  BY <1>1, <1>2 DEF RecordFailedFree, Report
<1>3. CASE ForgetBlock(ptr)
  <2> DEFINE k == blocklist_get_by_address(blocks, ptr)
             b == [blocks[k] EXCEPT !.size = 0, !.direct_call = FALSE]
  <2>1. k \in 1 .. Len(blocks) /\ blocks[k] \in Block
    BY <1>3, FoundBlock DEF ForgetBlock, Books
  <2>2. b \in Block /\ ~b.direct_call
    BY <2>1 DEF Block, BlockRecord
  <2>3. /\ blocks' = [blocks EXCEPT ![k] = b]
        /\ released' = IF blocks[k].direct_call THEN released \cup {blocks[k].origin}
                                                ELSE released
    BY <1>3, <2>1 DEF ForgetBlock, blocklist_remove
  <2> HIDE DEF k, b
  <2>4. blocks \in Seq(Block) /\ nevents + 1 \in Nat
    BY DEF Books
  <2>5. /\ Owned([blocks EXCEPT ![k] = b], released, nevents + 1)
        /\ blocks[k].direct_call =>
             Owned([blocks EXCEPT ![k] = b], released \cup {blocks[k].origin}, nevents + 1)
    BY <1>1, <2>1, <2>2, <2>4, OwnedRelease
  <2> QED
    BY <2>3, <2>5
<1> QED
  BY <1>2, <1>3 DEF Free

(* memory_realloc: a block that moves takes its strings along.             *)
LEMMA ReallocOwned ==
  ASSUME Books, OwnedInv, nevents \in Nat, NEW site \in Site, NEW ptr \in Addresses,
         NEW size \in Sizes, NEW result \in Addresses \cup {NULL},
         ReallocBlock(ptr, size, site, result)
  PROVE  Owned(blocks', released', nevents + 1)
<1> DEFINE k == blocklist_get_by_address(blocks, ptr)
           n == nevents + 1
<1>1. Owned(blocks, released, n) /\ n \in Nat
  BY OwnedLater DEF OwnedInv
<1>2. CASE RecordFailedRealloc(ptr, size, site, result)
  BY <1>1, <1>2 DEF RecordFailedRealloc, Report
<1>3. CASE ResizeBlock(ptr, size, result)
  <2> DEFINE grown   == [blocks[k] EXCEPT !.size = size]
             resized == [blocks EXCEPT ![k].size = size]
  <2>1. /\ k # 0 /\ result \in Addresses
        /\ blocks' = IF result = ptr THEN resized
                     ELSE blocklist_relocate(resized, k, result, Zeroed)
        /\ released' = released
    BY <1>3 DEF ResizeBlock
  <2>2. /\ k \in 1 .. Len(blocks) /\ blocks[k] \in Block /\ blocks[k].address = ptr
        /\ blocks \in Seq(Block) /\ Sorted(blocks)
    BY <2>1, FoundBlock DEF Books
  <2>3. /\ grown \in Block /\ grown.address = ptr
        /\ grown.direct_call = blocks[k].direct_call /\ grown.origin = blocks[k].origin
        /\ resized = [blocks EXCEPT ![k] = grown]
    BY <2>2 DEF Block, BlockRecord
  <2> HIDE DEF k, grown, n
  <2>4. FreeFor(blocks, released, n, k, grown)
    BY <1>1, <2>2, <2>3 DEF FreeFor, Owned
  <2>5. Owned(resized, released, n)
    BY <1>1, <2>2, <2>3, <2>4, OwnedOverwrite
  <2>6. resized \in Seq(Block) /\ Sorted(resized)
    BY <2>2, <2>3, ChangeFound
  <2>7. Len(resized) = Len(blocks) /\ resized[k] = grown
    BY <2>2, <2>3, ExceptSeq
  <2> HIDE DEF resized
  <2>8. ASSUME result # ptr PROVE Owned(blocks', released, n)
    <3> DEFINE dead == [grown EXCEPT !.size = 0, !.direct_call = FALSE]
               old  == [resized EXCEPT ![k].size = 0, ![k].direct_call = FALSE]
               new  == [grown EXCEPT !.address = result]
    <3>1. dead \in Block /\ dead.address = ptr /\ ~dead.direct_call
      BY <2>3 DEF Block, BlockRecord
    <3>2. /\ new \in Block /\ new.address = result
          /\ new.direct_call = grown.direct_call /\ new.origin = grown.origin
      BY <2>1, <2>3 DEF Block, BlockRecord
    <3>3. old = [resized EXCEPT ![k] = dead]
      BY <2>2, <2>6, <2>7
    <3>4. blocks' = [blocklist_add(old, result, Zeroed) EXCEPT
                       ![AddedIndex(old, result)] = new]
      BY <2>1, <2>7, <2>8 DEF blocklist_relocate
    <3> HIDE DEF dead, old, new
    <3>5. old \in Seq(Block) /\ Sorted(old)
      BY <2>2, <2>3, <2>6, <2>7, <3>1, <3>3, ChangeFound
    <3>6. Owned(old, released, n)
      BY <1>1, <2>2, <2>5, <2>6, <2>7, <3>1, <3>3, OwnedRelease
    <3>7. /\ Len(old) = Len(resized)
          /\ \A i \in 1 .. Len(resized) : old[i] = IF i = k THEN dead ELSE resized[i]
      BY <2>2, <2>6, <2>7, <3>1, <3>3, ExceptSeq
    <3>8. FreeFor(old, released, n, 0, new)
      <4> SUFFICES ASSUME new.direct_call
                   PROVE  /\ new.origin \in (1 .. n) \ released
                          /\ \A i \in 1 .. Len(old) :
                               old[i].direct_call => old[i].origin # new.origin
        BY DEF FreeFor
      <4>1. /\ k \in 1 .. Len(resized) /\ resized[k].direct_call
            /\ resized[k].origin = new.origin
        BY <2>2, <2>7, <3>2
      <4>2. new.origin \in (1 .. n) \ released
        BY <2>5, <4>1 DEF Owned
      <4>3. \A i \in 1 .. Len(resized) :
              i # k /\ resized[i].direct_call => resized[i].origin # new.origin
        BY <2>5, <4>1 DEF Owned
      <4> QED
        BY <3>1, <3>7, <4>2, <4>3
    <3>9. Owned([blocklist_add(old, new.address, Zeroed) EXCEPT
                   ![AddedIndex(old, new.address)] = new], released, n)
      BY <1>1, <3>2, <3>5, <3>6, <3>8, OwnedAddAndWrite
    <3> QED
      BY <3>2, <3>4, <3>9
  <2> QED
    BY <2>1, <2>5, <2>8 DEF n
<1> QED
  BY <1>2, <1>3 DEF ReallocBlock

LEMMA NextOwned == Inv /\ OwnedInv /\ [Next]_vars => OwnedInv'
<1> SUFFICES ASSUME Inv, OwnedInv, [Next]_vars PROVE OwnedInv'
  OBVIOUS
<1>1. Books /\ nevents \in Nat
  BY MaxEventsAssumption DEF Inv, TypeOK, SortedBlocks, BalancedTotals, Books
<1>2. CASE UNCHANGED vars
  BY <1>2 DEF vars, OwnedInv
<1>3. CASE Next
  <2>1. PICK site \in Site, address \in Addresses \cup {NULL} :
          \/ memory_free(address, site)
          \/ \E size \in Sizes :
               \/ memory_malloc(size, site, address)
               \/ \E ptr \in Addresses \cup {NULL} :
                    memory_realloc(ptr, size, site, address)
    BY <1>3 DEF Next
  <2>2. nevents' = nevents + 1
    BY <1>3 DEF Next, NextEvent
  <2>3. CASE memory_free(address, site)
    BY <1>1, <2>2, <2>3, FreeOwned DEF memory_free, OwnedInv
  <2>4. ASSUME NEW size \in Sizes, memory_malloc(size, site, address) PROVE OwnedInv'
    BY <1>1, <2>2, <2>4, MallocOwned DEF memory_malloc, OwnedInv
  <2>5. ASSUME NEW size \in Sizes, NEW ptr \in Addresses \cup {NULL},
               memory_realloc(ptr, size, site, address)
        PROVE  OwnedInv'
    <3>1. CASE ReallocNull(size, site, address)
      BY <1>1, <2>2, <3>1, MallocOwned DEF ReallocNull, OwnedInv
    <3>2. CASE ReallocZero(ptr, site)
      BY <1>1, <2>2, <3>2, FreeOwned DEF ReallocZero, OwnedInv
    <3>3. CASE ptr # NULL /\ ReallocBlock(ptr, size, site, address)
      BY <1>1, <2>2, <3>3, ReallocOwned DEF OwnedInv
    <3> QED
      BY <2>5, <3>1, <3>2, <3>3 DEF memory_realloc
  <2> QED
    BY <2>1, <2>3, <2>4, <2>5
<1> QED
  BY <1>2, <1>3

(* The strings of a directly called allocation are freed once, by the      *)
(* entry that owns them, wherever realloc has moved the block and whatever *)
(* block has taken its old entry: no double free in memory_free.           *)
THEOREM SpecOwnedOnce == Spec => []OwnedOnce
<1>1. Init => OwnedInv
  BY DEF Init, OwnedInv, Owned
<1>2. Inv /\ OwnedInv => OwnedOnce
  BY DEF OwnedInv, Owned, OwnedOnce
<1> QED
  BY <1>1, <1>2, SpecInv, NextOwned, PTL DEF Spec

-----------------------------------------------------------------------------
(* The bytes the entries of an array hold.                                 *)
SizesOf(bs) == [i \in 1 .. Len(bs) |-> bs[i].size]

BytesOf(bs) == SumOf(SizesOf(bs), 1 .. Len(bs))

LEMMA BytesFacts ==
  ASSUME NEW bs \in Seq(Block)
  PROVE  /\ Len(bs) \in Nat /\ IsFiniteSet(1 .. Len(bs))
         /\ \A i \in 1 .. Len(bs) : SizesOf(bs)[i] = bs[i].size /\ bs[i].size \in Nat
         /\ Numbered(SizesOf(bs), 1 .. Len(bs))
         /\ BytesOf(bs) \in Nat
<1>1. Len(bs) \in Nat /\ IsFiniteSet(1 .. Len(bs))
  BY FS_Interval
<1>2. \A i \in 1 .. Len(bs) : bs[i].size \in Nat
  <2>1. \A i \in 1 .. Len(bs) : bs[i] \in Block
    BY ElementOfSeq
  <2>2. Sizes \cup {0} \subseteq Nat
    BY SizesAssumption
  <2>3. \A b \in Block : b.size \in Sizes \cup {0}
    BY DEF Block, BlockRecord
  <2> QED
    BY <2>1, <2>2, <2>3
<1>3. \A i \in 1 .. Len(bs) : SizesOf(bs)[i] = bs[i].size
  BY DEF SizesOf
<1>4. \A i \in 1 .. Len(bs) : SizesOf(bs)[i] \in Nat
  BY <1>2, <1>3
<1>5. SumOf(SizesOf(bs), 1 .. Len(bs)) \in Nat
  BY <1>1, <1>4, SumNatural
<1> QED
  BY <1>1, <1>2, <1>3, <1>4, <1>5 DEF BytesOf, Numbered

(* LiveBytes is that sum over the blocks.                                  *)
FoldStep(g, bs) ==
  g = [s \in SUBSET DOMAIN bs |->
         IF s = {} THEN 0
         ELSE bs[CHOOSE x \in s : TRUE].size + g[s \ {CHOOSE x \in s : TRUE}]]

LEMMA LiveBytesIsSum ==
  ASSUME blocks \in Seq(Block)
  PROVE  LiveBytes = BytesOf(blocks)
<1> DEFINE D == 1 .. Len(blocks)
           w == SizesOf(blocks)
<1>1. LiveBytes = (CHOOSE g : FoldStep(g, blocks))[DOMAIN blocks]
  BY Zenon DEF LiveBytes, FoldFunction, FoldFunctionOnSet, MapThenFoldSet, FoldStep
<1>2. /\ DOMAIN blocks = D /\ IsFiniteSet(D) /\ Numbered(w, D)
      /\ \A i \in D : w[i] = blocks[i].size
  BY BytesFacts
<1>3. \A g : FoldStep(g, blocks) <=> SumStep(g, w, D)
  <2> SUFFICES ASSUME NEW g PROVE FoldStep(g, blocks) <=> SumStep(g, w, D)
    OBVIOUS
  <2>1. \A s \in SUBSET D : s # {} => Chosen(s) \in s
    BY DEF Chosen
  <2> DEFINE item(s) == IF s = {} THEN 0 ELSE blocks[Chosen(s)].size + g[s \ {Chosen(s)}]
  <2>2. FoldStep(g, blocks) <=> g = [s \in SUBSET D |-> item(s)]
    BY <1>2 DEF FoldStep, Chosen
  <2>3. \A s \in SUBSET D : item(s) = SumItem(g, w, s)
    BY <1>2, <2>1 DEF SumItem
  <2> HIDE DEF item
  <2>4. [s \in SUBSET D |-> item(s)] = [s \in SUBSET D |-> SumItem(g, w, s)]
    BY <2>3
  <2> QED
    BY <2>2, <2>4 DEF SumStep
<1> HIDE DEF D, w
<1>4. PICK g : FoldStep(g, blocks)
  BY <1>2, <1>3, SumExists
<1>5. FoldStep((CHOOSE h : FoldStep(h, blocks)), blocks)
  BY <1>4
<1>6. PICK h : FoldStep(h, blocks) /\ LiveBytes = h[D]
  BY <1>1, <1>2, <1>5
<1>7. h[D] = SumOf(w, D)
  BY <1>2, <1>3, <1>6, SumIs
<1> QED
  BY <1>6, <1>7 DEF BytesOf, D, w

(* An entry overwritten.                                                   *)
LEMMA BytesOverwrite ==
  ASSUME NEW bs \in Seq(Block), NEW k \in 1 .. Len(bs), NEW b \in Block
  PROVE  BytesOf([bs EXCEPT ![k] = b]) = BytesOf(bs) - bs[k].size + b.size
<1> DEFINE nb == [bs EXCEPT ![k] = b]
<1>1. /\ nb \in Seq(Block) /\ Len(nb) = Len(bs)
      /\ \A j \in 1 .. Len(bs) : nb[j] = IF j = k THEN b ELSE bs[j]
  BY ExceptSeq
<1> HIDE DEF nb
<1> DEFINE w == SizesOf(bs)
           v == SizesOf(nb)
<1>2. /\ IsFiniteSet(1 .. Len(bs)) /\ Numbered(w, 1 .. Len(bs))
      /\ w[k] = bs[k].size /\ v[k] = b.size /\ v[k] \in Int
      /\ \A j \in 1 .. Len(bs) : w[j] = bs[j].size /\ v[j] = nb[j].size
  BY <1>1, BytesFacts
<1>3. \A j \in (1 .. Len(bs)) \ {k} : v[j] = w[j]
  BY <1>1, <1>2
<1> HIDE DEF w, v
<1>4. SumOf(v, 1 .. Len(bs)) = SumOf(w, 1 .. Len(bs)) - w[k] + v[k]
  BY <1>2, <1>3, SumChange
<1> QED
  BY <1>1, <1>2, <1>4 DEF BytesOf, w, v, nb

(* A zeroed entry added.                                                   *)
LEMMA BytesAdd ==
  ASSUME NEW bs \in Seq(Block), Sorted(bs), NEW a \in Addresses
  PROVE  BytesOf(blocklist_add(bs, a, Zeroed)) = BytesOf(bs)
<1>1. CASE Present(bs, a)
  BY <1>1 DEF blocklist_add
<1>2. CASE ~Present(bs, a)
  <2> DEFINE z  == [Zeroed EXCEPT !.address = a]
             p  == Position(bs, a)
             ab == InsertBlock(bs, p, z)
             n  == Len(bs)
  <2>1. z \in Block /\ z.address = a /\ z.size = 0
    BY DEF Zeroed, Block, BlockRecord
  <2>2. a \in Nat /\ n \in Nat
    BY AddressesAssumption
  <2>3. p \in 0 .. n /\ ab \in Seq(Block) /\ Len(ab) = n + 1
    <3>1. Searchable(bs) /\ z.address \in Nat /\ ~Present(bs, z.address)
      BY <1>2, <2>1, <2>2, TypedIsSearchable
    <3>2. z \in Block /\ p = Position(bs, z.address) /\ n = Len(bs)
      BY <2>1
    <3> HIDE DEF z, n
    <3> QED
      BY <3>1, <3>2, InsertSearchable
  <2>4. blocklist_add(bs, a, Zeroed) = ab
    BY <1>2 DEF blocklist_add
  <2>5. \A i \in 1 .. n + 1 : ab[i] = IF i <= p THEN bs[i]
                                     ELSE IF i = p + 1 THEN z ELSE bs[i - 1]
    BY <2>2, <2>3 DEF InsertBlock
  <2> HIDE DEF z, p, ab
  <2> DEFINE S == (1 .. n + 1) \ {p + 1}
             f == [i \in S |-> IF i <= p THEN i ELSE i - 1]
             w == SizesOf(ab)
             v == SizesOf(bs)
  <2>6. /\ \A i \in 1 .. n + 1 : w[i] = ab[i].size
        /\ \A i \in 1 .. n : v[i] = bs[i].size
        /\ IsFiniteSet(1 .. n + 1) /\ IsFiniteSet(1 .. n) /\ Numbered(w, 1 .. n + 1)
    BY <2>3, BytesFacts
  <2> HIDE DEF n, w, v
  <2>7. /\ \A i \in S : f[i] \in 1 .. n
        /\ \A i, j \in S : f[i] = f[j] => i = j
    BY <2>2, <2>3
  <2>8. \A j \in 1 .. n : \E i \in S : f[i] = j
    <3> SUFFICES ASSUME NEW j \in 1 .. n PROVE \E i \in S : f[i] = j
      OBVIOUS
    <3>1. CASE j <= p
      <4>1. j \in S /\ f[j] = j
        BY <2>2, <2>3, <3>1
      <4> QED
        BY <4>1
    <3>2. CASE ~(j <= p)
      <4>1. j + 1 \in S /\ f[j + 1] = j
        BY <2>2, <2>3, <3>2
      <4> QED
        BY <4>1
    <3> QED
      BY <3>1, <3>2
  <2>9. \A i \in S : w[i] = v[f[i]]
    <3> SUFFICES ASSUME NEW i \in S PROVE w[i] = v[f[i]]
      OBVIOUS
    <3>1. f[i] \in 1 .. n /\ i \in 1 .. n + 1
      BY <2>7
    <3>2. ab[i] = bs[f[i]]
      BY <2>2, <2>3, <2>5, <3>1
    <3> QED
      BY <2>6, <3>1, <3>2
  <2>10. p + 1 \in 1 .. n + 1 /\ w[p + 1] = 0
    BY <2>1, <2>2, <2>3, <2>5, <2>6
  <2>11. IsFiniteSet(S) /\ Numbered(w, S)
    BY <2>6, FS_RemoveElement DEF Numbered
  <2> HIDE DEF f
  <2>12. SumOf(w, 1 .. n + 1) = w[p + 1] + SumOf(w, S)
    BY <2>6, <2>10, SumRemove
  <2> HIDE DEF S
  <2>13. SumOf(w, S) = SumOf(v, 1 .. n) /\ SumOf(w, S) \in Int
    <3>1. SumOf(w, S) \in Int
      BY <2>11, SumSplit
    <3> DEFINE T == 1 .. n
    <3>2. /\ IsFiniteSet(T) /\ (\A i \in S : f[i] \in T)
          /\ \A j \in T : \E i \in S : f[i] = j
      BY <2>6, <2>7, <2>8
    <3> HIDE DEF T
    <3>3. SumOf(w, S) = SumOf(v, T)
      BY <2>7, <2>9, <2>11, <3>2, SumRenamed
    <3> QED
      BY <3>1, <3>3 DEF T
  <2>14. SumOf(w, 1 .. n + 1) = SumOf(v, 1 .. n)
    BY <2>10, <2>12, <2>13
  <2> QED
    BY <2>3, <2>4, <2>14 DEF BytesOf, w, v, n
<1> QED
  BY <1>1, <1>2

(* A block written into the entry blocklist_add returns: what that entry   *)
(* held before is dropped from the sum.                                    *)
LEMMA BytesAddAndWrite ==
  ASSUME NEW bs \in Seq(Block), Sorted(bs), NEW b \in Block
  PROVE  BytesOf([blocklist_add(bs, b.address, Zeroed) EXCEPT
                    ![AddedIndex(bs, b.address)] = b]) <= BytesOf(bs) + b.size
<1> DEFINE a  == b.address
           ab == blocklist_add(bs, a, Zeroed)
           x  == AddedIndex(bs, a)
<1>1. a \in Addresses
  BY DEF Block, BlockRecord
<1>2. ab \in Seq(Block) /\ x \in 1 .. Len(ab)
  <2>1. Searchable(bs)
    BY TypedIsSearchable
  <2>2. [Zeroed EXCEPT !.address = a] \in Block /\ [Zeroed EXCEPT !.address = a].address = a
    BY <1>1, ZeroedIsBlock
  <2>3. a \in Nat
    BY <1>1, AddressesAssumption
  <2> HIDE DEF a
  <2> QED
    BY <2>1, <2>2, <2>3, AddSearchable
<1>3. BytesOf(ab) = BytesOf(bs)
  BY <1>1, BytesAdd
<1> HIDE DEF a, ab, x
<1>4. BytesOf([ab EXCEPT ![x] = b]) = BytesOf(ab) - ab[x].size + b.size
  BY <1>2, BytesOverwrite
<1>5. BytesOf(ab) \in Nat /\ ab[x].size \in Nat
  BY <1>2, BytesFacts
<1>6. b.size \in Nat
  <2>1. b.size \in Sizes \cup {0}
    BY DEF Block, BlockRecord
  <2>2. Sizes \cup {0} \subseteq Nat
    BY SizesAssumption
  <2> QED
    BY <2>1, <2>2
<1>7. BytesOf([ab EXCEPT ![x] = b]) <= BytesOf(bs) + b.size
  <2> DEFINE y == BytesOf([ab EXCEPT ![x] = b])
  <2>1. y = BytesOf(ab) - ab[x].size + b.size
    BY <1>4
  <2> HIDE DEF y
  <2>2. y <= BytesOf(bs) + b.size
    BY <1>3, <1>5, <1>6, <2>1
  <2> QED
    BY <2>2 DEF y
<1> QED
  BY <1>7 DEF a, ab, x

-----------------------------------------------------------------------------
(* Two sizes of the profilee differ by what an int can hold.  An int has   *)
(* 2^32 values: the hypothesis is that no size is 2 GiB or more.           *)
SmallSizes == \A s \in Sizes : 2 * s < IntSpan

LEMMA ToIntExact ==
  ASSUME SmallSizes, NEW s \in Sizes, NEW z \in Sizes \cup {0}
  PROVE  ToInt(s - z) = s - z
<1> DEFINE h == IntSpan \div 2
           m == s - z + h
<1>1. s \in Nat /\ z \in Nat /\ IntSpan \in Nat \ {0}
  BY SizesAssumption, IntSpanAssumption
<1>2. 2 * s < IntSpan /\ 2 * z < IntSpan
  BY <1>1 DEF SmallSizes
<1>3. h \in Int /\ 2 * h <= IntSpan /\ IntSpan <= 2 * h + 1
  BY <1>1
<1>4. m \in Int /\ 0 <= m /\ m < IntSpan
  <2> HIDE DEF h
  <2> QED
    BY <1>1, <1>2, <1>3
<1>5. m % IntSpan = m
  <2> HIDE DEF m
  <2> QED
    BY <1>1, <1>4
<1>6. ToInt(s - z) = m - h
  BY <1>5 DEF ToInt
<1> HIDE DEF h
<1> QED
  BY <1>1, <1>3, <1>6

(* The maximum goes up with what is allocated, which is never negative.    *)
LEMMA HighestAbove ==
  ASSUME NEW c \in Nat, maximum_allocated \in Nat
  PROVE  /\ Highest(c) \in Nat /\ c <= Highest(c) /\ maximum_allocated <= Highest(c)
         /\ Highest(c) = c \/ Highest(c) = maximum_allocated
BY DEF Highest, Above

Covered ==
  /\ BytesOf(blocks) <= current_allocated
  /\ current_allocated <= maximum_allocated

(* What is in use is not negative, since the blocks fit into it.           *)
LEMMA CoveredNat ==
  ASSUME Books, Covered
  PROVE  /\ current_allocated \in Nat /\ maximum_allocated \in Nat
         /\ BytesOf(blocks) \in Nat
<1>1. BytesOf(blocks) \in Nat
  BY BytesFacts DEF Books
<1> QED
  BY <1>1 DEF Books, Covered

LEMMA MallocCovered ==
  ASSUME Books, Covered, nevents \in Nat, NEW size \in Sizes, NEW site \in Site,
         NEW result \in Addresses \cup {NULL}, Malloc(size, site, result)
  PROVE  Covered'
<1>1. CASE RecordFailedMalloc(size, site)
  <2>1. UNCHANGED <<blocks, current_allocated, maximum_allocated>>
    BY <1>1 DEF RecordFailedMalloc, Report, bytes
  <2> QED
    BY <2>1 DEF Covered
<1>2. CASE result # NULL /\ RecordBlock(size, site, result)
  <2> DEFINE b == [address |-> result, size |-> size, direct_call |-> site.direct,
                   func |-> site.func, origin |-> nevents + 1]
  <2>1. b \in Block /\ b.address = result /\ b.size = size
    BY <1>2 DEF Block, BlockRecord, Site
  <2>2. /\ blocks' = [blocklist_add(blocks, b.address, Zeroed) EXCEPT
                        ![AddedIndex(blocks, b.address)] = b]
        /\ current_allocated' = current_allocated + size
        /\ maximum_allocated' = Highest(current_allocated + size)
    BY <1>2, <2>1 DEF RecordBlock
  <2> HIDE DEF b
  <2>3. BytesOf(blocks') <= BytesOf(blocks) + size
    <3>1. blocks \in Seq(Block) /\ Sorted(blocks)
      BY DEF Books
    <3> QED
      BY <2>1, <2>2, <3>1, BytesAddAndWrite
  <2>4. blocks' \in Seq(Block)
    BY MallocBooks DEF Books
  <2>5. BytesOf(blocks') \in Nat /\ size \in Nat
    BY <2>4, BytesFacts, SizesAssumption
  <2>6. current_allocated + size \in Nat /\ current_allocated + size <= maximum_allocated'
    BY <2>2, <2>5, CoveredNat, HighestAbove
  <2> QED
    BY <2>2, <2>3, <2>5, <2>6, CoveredNat DEF Covered
<1> QED
  BY <1>1, <1>2 DEF Malloc

LEMMA FreeCovered ==
  ASSUME Books, Covered, NEW site \in Site, NEW ptr \in Addresses \cup {NULL},
         Free(ptr, site)
  PROVE  Covered'
<1>1. CASE RecordFailedFree(ptr, site)
  <2>1. UNCHANGED <<blocks, current_allocated, maximum_allocated>>
    BY <1>1 DEF RecordFailedFree, Report, bytes
  <2> QED
    BY <2>1 DEF Covered
<1>2. CASE ForgetBlock(ptr)
  <2> DEFINE k == blocklist_get_by_address(blocks, ptr)
             b == [blocks[k] EXCEPT !.size = 0, !.direct_call = FALSE]
  <2>1. k \in 1 .. Len(blocks) /\ blocks[k] \in Block /\ blocks[k].size \in Nat
    BY <1>2, FoundBlock DEF ForgetBlock, Books
  <2>2. b \in Block /\ b.size = 0
    BY <2>1 DEF Block, BlockRecord
  <2>3. /\ blocks' = [blocks EXCEPT ![k] = b]
        /\ current_allocated' = current_allocated - blocks[k].size
        /\ maximum_allocated' = maximum_allocated
    BY <1>2, <2>1 DEF ForgetBlock, blocklist_remove
  <2> HIDE DEF k, b
  <2>4. BytesOf(blocks') = BytesOf(blocks) - blocks[k].size
    <3>1. BytesOf(blocks') = BytesOf(blocks) - blocks[k].size + 0
      BY <2>1, <2>2, <2>3, BytesOverwrite DEF Books
    <3>2. BytesOf(blocks) \in Nat
      BY CoveredNat
    <3> QED
      BY <2>1, <3>1, <3>2
  <2> QED
    BY <2>1, <2>3, <2>4, CoveredNat DEF Covered
<1> QED
  BY <1>1, <1>2 DEF Free

LEMMA ReallocCovered ==
  ASSUME SmallSizes, Books, Covered, NEW site \in Site, NEW ptr \in Addresses,
         NEW size \in Sizes, NEW result \in Addresses \cup {NULL},
         ReallocBlock(ptr, size, site, result)
  PROVE  Covered'
<1> DEFINE k == blocklist_get_by_address(blocks, ptr)
<1>1. CASE RecordFailedRealloc(ptr, size, site, result)
  <2>1. UNCHANGED <<blocks, current_allocated, maximum_allocated>>
    BY <1>1 DEF RecordFailedRealloc, Report, bytes
  <2> QED
    BY <2>1 DEF Covered
<1>2. CASE ResizeBlock(ptr, size, result)
  <2> DEFINE diff    == ToInt(size - blocks[k].size)
             grown   == [blocks[k] EXCEPT !.size = size]
             resized == [blocks EXCEPT ![k].size = size]
  <2>1. /\ k # 0 /\ result \in Addresses
        /\ current_allocated' = current_allocated + diff
        /\ maximum_allocated' = Highest(current_allocated + diff)
        /\ blocks' = IF result = ptr THEN resized
                     ELSE blocklist_relocate(resized, k, result, Zeroed)
    BY <1>2 DEF ResizeBlock
  <2>2. /\ k \in 1 .. Len(blocks) /\ blocks[k] \in Block /\ blocks[k].address = ptr
        /\ blocks[k].size \in Nat /\ blocks[k].size \in Sizes \cup {0}
        /\ blocks \in Seq(Block) /\ Sorted(blocks)
    BY <2>1, FoundBlock DEF Books, Block, BlockRecord
  <2>3. diff = size - blocks[k].size
    BY <2>2, ToIntExact
  <2>4. /\ grown \in Block /\ grown.address = ptr /\ grown.size = size
        /\ resized = [blocks EXCEPT ![k] = grown]
    BY <2>2 DEF Block, BlockRecord
  <2> HIDE DEF k, diff, grown
  <2>5. resized \in Seq(Block) /\ Sorted(resized)
    BY <2>2, <2>4, ChangeFound
  <2>6. Len(resized) = Len(blocks) /\ resized[k] = grown
    BY <2>2, <2>4, ExceptSeq
  <2>7. BytesOf(resized) = BytesOf(blocks) - blocks[k].size + size
    BY <2>2, <2>4, BytesOverwrite
  <2> HIDE DEF resized
  <2>8. ASSUME result # ptr PROVE BytesOf(blocks') <= BytesOf(resized)
    <3> DEFINE dead == [grown EXCEPT !.size = 0, !.direct_call = FALSE]
               old  == [resized EXCEPT ![k].size = 0, ![k].direct_call = FALSE]
               new  == [grown EXCEPT !.address = result]
    <3>1. dead \in Block /\ dead.address = ptr /\ dead.size = 0
      BY <2>4 DEF Block, BlockRecord
    <3>2. new \in Block /\ new.address = result /\ new.size = size
      BY <2>1, <2>4 DEF Block, BlockRecord
    <3>3. old = [resized EXCEPT ![k] = dead]
      BY <2>2, <2>5, <2>6
    <3>4. blocks' = [blocklist_add(old, result, Zeroed) EXCEPT
                       ![AddedIndex(old, result)] = new]
      BY <2>1, <2>6, <2>8 DEF blocklist_relocate
    <3> HIDE DEF dead, old, new
    <3>5. old \in Seq(Block) /\ Sorted(old)
      BY <2>2, <2>4, <2>5, <2>6, <3>1, <3>3, ChangeFound
    <3>6. BytesOf(old) = BytesOf(resized) - size + 0
      <4>1. k \in 1 .. Len(resized) /\ resized[k].size = size
        BY <2>2, <2>4, <2>6
      <4>2. BytesOf([resized EXCEPT ![k] = dead]) = BytesOf(resized) - resized[k].size + dead.size
        BY <2>5, <3>1, <4>1, BytesOverwrite
      <4> QED
        BY <3>1, <3>3, <4>1, <4>2
    <3>7. BytesOf(blocks') <= BytesOf(old) + size
      BY <3>2, <3>4, <3>5, BytesAddAndWrite
    <3>8. BytesOf(old) \in Nat /\ BytesOf(resized) \in Nat /\ size \in Nat
      BY <2>5, <3>5, BytesFacts, SizesAssumption
    <3>9. BytesOf(blocks') \in Nat
      BY ReallocBooks, BytesFacts DEF Books
    <3> QED
      BY <3>6, <3>7, <3>8, <3>9
  <2>9. BytesOf(blocks') <= BytesOf(resized)
    <3>1. BytesOf(resized) \in Nat
      BY <2>5, BytesFacts
    <3> QED
      BY <2>1, <2>8, <3>1
  <2>10. BytesOf(blocks') \in Nat /\ size \in Nat
    BY ReallocBooks, BytesFacts, SizesAssumption DEF Books
  <2>11. BytesOf(blocks') <= current_allocated + diff
    BY <2>2, <2>3, <2>7, <2>9, <2>10, CoveredNat, SMTT(30) DEF Covered
  <2>12. current_allocated + diff \in Nat
    BY <2>2, <2>3, <2>10, <2>11, CoveredNat
  <2>13. current_allocated + diff <= maximum_allocated'
    BY <2>1, <2>12, CoveredNat, HighestAbove
  <2> QED
    BY <2>1, <2>11, <2>13 DEF Covered
<1> QED
  BY <1>1, <1>2 DEF ReallocBlock

LEMMA NextCovered ==
  ASSUME SmallSizes, Inv, Covered, [Next]_vars
  PROVE  Covered'
<1>1. Books /\ nevents \in Nat
  BY MaxEventsAssumption DEF Inv, TypeOK, SortedBlocks, BalancedTotals, Books
<1>2. CASE UNCHANGED vars
  BY <1>2 DEF vars, bytes, Covered
<1>3. CASE Next
  <2>1. PICK site \in Site, address \in Addresses \cup {NULL} :
          \/ memory_free(address, site)
          \/ \E size \in Sizes :
               \/ memory_malloc(size, site, address)
               \/ \E ptr \in Addresses \cup {NULL} :
                    memory_realloc(ptr, size, site, address)
    BY <1>3 DEF Next
  <2>2. CASE memory_free(address, site)
    BY <1>1, <2>2, FreeCovered DEF memory_free
  <2>3. ASSUME NEW size \in Sizes, memory_malloc(size, site, address) PROVE Covered'
    BY <1>1, <2>3, MallocCovered DEF memory_malloc
  <2>4. ASSUME NEW size \in Sizes, NEW ptr \in Addresses \cup {NULL},
               memory_realloc(ptr, size, site, address)
        PROVE  Covered'
    <3>1. CASE ReallocNull(size, site, address)
      BY <1>1, <3>1, MallocCovered DEF ReallocNull
    <3>2. CASE ReallocZero(ptr, site)
      BY <1>1, <3>2, FreeCovered DEF ReallocZero
    <3>3. CASE ptr # NULL /\ ReallocBlock(ptr, size, site, address)
      BY <1>1, <3>3, ReallocCovered
    <3> QED
      BY <2>4, <3>1, <3>2, <3>3 DEF memory_realloc
  <2> QED
    BY <2>1, <2>2, <2>3, <2>4
<1> QED
  BY <1>2, <1>3

LEMMA InitCovered == Init => Covered
<1> SUFFICES ASSUME Init PROVE Covered
  OBVIOUS
<1>1. blocks \in Seq(Block) /\ Len(blocks) = 0
  BY EmptySeq DEF Init
<1>2. SumOf(SizesOf(blocks), {}) = 0
  BY FS_EmptySet, SumSplit DEF Numbered
<1>3. 1 .. Len(blocks) = {}
  BY <1>1
<1>4. BytesOf(blocks) = 0
  BY <1>2, <1>3 DEF BytesOf
<1> QED
  BY <1>4 DEF Init, Covered

(* The blocks listed never hold more than the total says is allocated, nor *)
(* that more than the maximum, whatever the trace: an address may be       *)
(* handed out twice, freed twice or moved onto another.  Sizes are below   *)
(* 2 GiB.                                                                  *)
THEOREM SpecCoveredByCurrent ==
  ASSUME SmallSizes
  PROVE  Spec => []CoveredByCurrent
<1>1. Init => Covered
  BY InitCovered
<1>2. Inv /\ Covered /\ [Next]_vars => Covered'
  BY NextCovered
<1>3. Inv /\ Covered => CoveredByCurrent
  BY LiveBytesIsSum DEF Inv, TypeOK, Covered, CoveredByCurrent
<1> QED
  BY <1>1, <1>2, <1>3, SpecInv, PTL DEF Spec

-----------------------------------------------------------------------------
(***************************************************************************)
(* A program and its heap.                                                 *)
(***************************************************************************)

-----------------------------------------------------------------------------
(* Every step of the program is an event of the trace that Memory accepts. *)
LEMMA StepsAreEvents == [PNext]_allvars => [Next]_vars
<1> SUFFICES ASSUME PNext PROVE Next
  BY DEF allvars
<1>1. /\ Callers \subseteq Site /\ Asked \subseteq Sizes /\ Resized \subseteq Sizes
      /\ StrayFrees \subseteq Addresses \cup {NULL}
  BY CallersAssumption, AskedAssumption, StrayFreesAssumption
<1>2. PICK site \in Site :
       \/ \E size \in Sizes :
            \/ OutOfMemory(size, site)
            \/ \E result \in Addresses : CallMalloc(size, site, result)
       \/ \E ptr \in Addresses : CallFree(ptr, site)
       \/ \E ptr \in Addresses \cup {NULL} : StrayFree(ptr, site)
       \/ \E ptr \in Addresses, size \in Sizes :
            \/ ReallocRefused(ptr, size, site)
            \/ \E result \in Addresses : CallRealloc(ptr, size, site, result)
  BY <1>1 DEF PNext
<1>3. ASSUME NEW size \in Sizes, OutOfMemory(size, site) PROVE Next
  BY <1>3 DEF OutOfMemory, RecordMalloc, PNext, Next
<1>4. ASSUME NEW size \in Sizes, NEW result \in Addresses, CallMalloc(size, site, result)
      PROVE  Next
  BY <1>4 DEF CallMalloc, RecordMalloc, PNext, Next
<1>5. ASSUME NEW ptr \in Addresses, CallFree(ptr, site) PROVE Next
  BY <1>1, <1>5 DEF CallFree, PNext, Next
<1>6. ASSUME NEW ptr \in Addresses \cup {NULL}, StrayFree(ptr, site) PROVE Next
  BY <1>6 DEF StrayFree, PNext, Next
<1>7. ASSUME NEW ptr \in Addresses, NEW size \in Sizes, ReallocRefused(ptr, size, site)
      PROVE  Next
  BY <1>7 DEF ReallocRefused, PNext, Next
<1>8. ASSUME NEW ptr \in Addresses, NEW size \in Sizes, NEW result \in Addresses,
             CallRealloc(ptr, size, site, result)
      PROVE  Next
  BY <1>8 DEF CallRealloc, PNext, Next
<1> QED
  BY <1>2, <1>3, <1>4, <1>5, <1>6, <1>7, <1>8

(* So what holds of every trace holds of a program's: PSpec implements     *)
(* the specification of Memory.                                            *)
THEOREM ProgramIsTrace == PSpec => Spec
<1>1. PInit => Init
  BY DEF PInit
<1> QED
  BY <1>1, StepsAreEvents, PTL DEF PSpec, Spec

-----------------------------------------------------------------------------
(* The entries that stand for a live block.                                *)
LiveEntries(bs) == {bs[i] : i \in {j \in 1 .. Len(bs) : bs[j].size # 0}}

(* Two entries of an ordered array do not have the same address.           *)
LEMMA AddressOnce ==
  ASSUME NEW bs \in Seq(Block), Sorted(bs), NEW i \in 1 .. Len(bs), NEW j \in 1 .. Len(bs),
         bs[i].address = bs[j].address
  PROVE  i = j
<1>1. /\ Len(bs) \in Nat /\ bs[i].address \in Nat /\ bs[j].address \in Nat
  BY TypedIsSearchable DEF Searchable
<1>2. (i < j => bs[i].address < bs[j].address) /\ (j < i => bs[j].address < bs[i].address)
  BY DEF Sorted
<1> QED
  BY <1>1, <1>2

(* A lookup finds what is there.                                           *)
LEMMA LookupFinds ==
  ASSUME NEW bs \in Seq(Block), Sorted(bs), NEW i \in 1 .. Len(bs), bs[i].size # 0
  PROVE  blocklist_get_by_address(bs, bs[i].address) = i
<1> DEFINE a == bs[i].address
           k == AddedIndex(bs, a)
<1>1. Searchable(bs) /\ a \in Nat
  BY TypedIsSearchable DEF Searchable
<1>2. Present(bs, a)
  BY DEF Present
<1> HIDE DEF a
<1>3. k \in 1 .. Len(bs) /\ bs[k].address = a
  BY <1>1, <1>2, PresentIsAddedIndex
<1>4. k = i
  BY <1>3, AddressOnce DEF a
<1>5. blocklist_get_by_address(bs, a) = i
  BY <1>2, <1>4, AddressesAssumption DEF blocklist_get_by_address, AddedIndex
<1> QED
  BY <1>5 DEF a

(* An entry overwritten by one for the same address.                       *)
LEMMA LiveOverwrite ==
  ASSUME NEW bs \in Seq(Block), Sorted(bs), NEW k \in 1 .. Len(bs), NEW b \in Block,
         b.address = bs[k].address
  PROVE  LiveEntries([bs EXCEPT ![k] = b])
           = {e \in LiveEntries(bs) : e.address # b.address}
             \cup (IF b.size # 0 THEN {b} ELSE {})
<1> DEFINE nb == [bs EXCEPT ![k] = b]
<1>1. /\ Len(nb) = Len(bs)
      /\ \A j \in 1 .. Len(bs) : nb[j] = IF j = k THEN b ELSE bs[j]
  BY ExceptSeq
<1>2. \A j \in 1 .. Len(bs) : j # k => bs[j].address # b.address
  BY AddressOnce
<1> HIDE DEF nb
<1>3. LiveEntries(nb) = {e \in LiveEntries(bs) : e.address # b.address}
                        \cup (IF b.size # 0 THEN {b} ELSE {})
  BY <1>1, <1>2 DEF LiveEntries
<1> QED
  BY <1>3 DEF nb

(* An entry that dies.                                                     *)
LEMMA LiveClear ==
  ASSUME NEW bs \in Seq(Block), Sorted(bs), NEW k \in 1 .. Len(bs), NEW b \in Block,
         b.address = bs[k].address, b.size = 0
  PROVE  LiveEntries([bs EXCEPT ![k] = b]) = {e \in LiveEntries(bs) : e.address # b.address}
<1> DEFINE L == LiveEntries([bs EXCEPT ![k] = b])
           R == {e \in LiveEntries(bs) : e.address # b.address}
<1>1. L = R \cup (IF b.size # 0 THEN {b} ELSE {})
  BY LiveOverwrite
<1> HIDE DEF L, R
<1>2. L = R
  BY <1>1
<1> QED
  BY <1>2 DEF L, R

(* A zeroed entry added.                                                   *)
LEMMA LiveAdd ==
  ASSUME NEW bs \in Seq(Block), Sorted(bs), NEW a \in Addresses
  PROVE  LiveEntries(blocklist_add(bs, a, Zeroed)) = LiveEntries(bs)
<1>1. CASE Present(bs, a)
  BY <1>1 DEF blocklist_add
<1>2. CASE ~Present(bs, a)
  <2> DEFINE z  == [Zeroed EXCEPT !.address = a]
             p  == Position(bs, a)
             ab == InsertBlock(bs, p, z)
             n  == Len(bs)
  <2>1. z \in Block /\ z.address = a /\ z.size = 0
    BY DEF Zeroed, Block, BlockRecord
  <2>2. a \in Nat /\ n \in Nat
    BY AddressesAssumption
  <2>3. p \in 0 .. n /\ Len(ab) = n + 1
    <3>1. Searchable(bs) /\ z.address \in Nat /\ ~Present(bs, z.address)
      BY <1>2, <2>1, <2>2, TypedIsSearchable
    <3>2. z \in Block /\ p = Position(bs, z.address) /\ n = Len(bs)
      BY <2>1
    <3> HIDE DEF z, n
    <3> QED
      BY <3>1, <3>2, InsertSearchable
  <2>4. blocklist_add(bs, a, Zeroed) = ab
    BY <1>2 DEF blocklist_add
  <2>5. \A i \in 1 .. n + 1 : ab[i] = IF i <= p THEN bs[i]
                                     ELSE IF i = p + 1 THEN z ELSE bs[i - 1]
    BY <2>2, <2>3 DEF InsertBlock
  <2> HIDE DEF z, p, ab
  <2>6. ASSUME NEW i \in 1 .. n + 1, ab[i].size # 0
        PROVE  \E j \in 1 .. n : ab[i] = bs[j]
    <3>1. CASE i <= p
      <4>1. i \in 1 .. n /\ ab[i] = bs[i]
        BY <2>2, <2>3, <2>5, <3>1
      <4> QED
        BY <4>1
    <3>2. CASE ~(i <= p)
      <4>1. i # p + 1
        BY <2>1, <2>5, <2>6, <3>2
      <4>2. i - 1 \in 1 .. n /\ ab[i] = bs[i - 1]
        BY <2>2, <2>3, <2>5, <3>2, <4>1
      <4> QED
        BY <4>2
    <3> QED
      BY <3>1, <3>2
  <2>7. ASSUME NEW j \in 1 .. n
        PROVE  \E i \in 1 .. n + 1 : ab[i] = bs[j]
    <3>1. CASE j <= p
      <4>1. j \in 1 .. n + 1 /\ ab[j] = bs[j]
        BY <2>2, <2>5, <3>1
      <4> QED
        BY <4>1
    <3>2. CASE ~(j <= p)
      <4>1. j + 1 \in 1 .. n + 1 /\ ab[j + 1] = bs[j]
        BY <2>2, <2>3, <2>5, <3>2
      <4> QED
        BY <4>1
    <3> QED
      BY <3>1, <3>2
  <2> HIDE DEF n
  <2>8. LiveEntries(ab) = LiveEntries(bs)
    BY <2>3, <2>6, <2>7 DEF LiveEntries, n
  <2> QED
    BY <2>4, <2>8
<1> QED
  BY <1>1, <1>2

(* A block written into the entry blocklist_add returns.                   *)
LEMMA LiveAddAndWrite ==
  ASSUME NEW bs \in Seq(Block), Sorted(bs), NEW b \in Block, b.size # 0
  PROVE  LiveEntries([blocklist_add(bs, b.address, Zeroed) EXCEPT
                        ![AddedIndex(bs, b.address)] = b])
           = {e \in LiveEntries(bs) : e.address # b.address} \cup {b}
<1> DEFINE a  == b.address
           ab == blocklist_add(bs, a, Zeroed)
           x  == AddedIndex(bs, a)
<1>1. a \in Addresses
  BY DEF Block, BlockRecord
<1>2. ab \in Seq(Block) /\ Searchable(ab) /\ x \in 1 .. Len(ab) /\ ab[x].address = a
  <2>1. Searchable(bs)
    BY TypedIsSearchable
  <2>2. [Zeroed EXCEPT !.address = a] \in Block /\ [Zeroed EXCEPT !.address = a].address = a
    BY <1>1, ZeroedIsBlock
  <2>3. a \in Nat
    BY <1>1, AddressesAssumption
  <2> HIDE DEF a
  <2> QED
    BY <2>1, <2>2, <2>3, AddSearchable
<1>3. LiveEntries(ab) = LiveEntries(bs)
  BY <1>1, LiveAdd
<1> HIDE DEF ab, x
<1>4. Sorted(ab) /\ b.address = ab[x].address
  BY <1>2 DEF Searchable
<1>5. LiveEntries([ab EXCEPT ![x] = b])
        = {e \in LiveEntries(ab) : e.address # b.address} \cup {b}
  BY <1>2, <1>4, LiveOverwrite
<1> QED
  BY <1>3, <1>5 DEF ab, x

-----------------------------------------------------------------------------
(* The live entries bs has are the heap lv.                                *)
SameHeap(bs, lv) ==
  /\ lv = [a \in {e.address : e \in LiveEntries(bs)} |-> lv[a]]
  /\ \A e \in LiveEntries(bs) : lv[e.address] = [size |-> e.size, func |-> e.func]

(* A live block has exactly one live entry, and the lookup finds it.       *)
LEMMA HeapLookup ==
  ASSUME NEW bs \in Seq(Block), Sorted(bs), NEW lv, SameHeap(bs, lv),
         NEW a \in Addresses \cup {NULL}
  PROVE  LET k == blocklist_get_by_address(bs, a)
         IN  /\ k # 0 <=> a \in DOMAIN lv
             /\ k # 0 => /\ k \in 1 .. Len(bs) /\ bs[k] \in Block
                         /\ bs[k].address = a /\ bs[k].size # 0
                         /\ lv[a] = [size |-> bs[k].size, func |-> bs[k].func]
<1> DEFINE k == blocklist_get_by_address(bs, a)
<1>1. a \in Nat
  BY AddressesAssumption
<1>2. k # 0 => /\ k \in 1 .. Len(bs) /\ bs[k].address = a /\ bs[k].size # 0
               /\ bs[k] \in Block
  BY <1>1, TypedIsSearchable, GetByAddress, FoundBlock
<1>3. k # 0 => bs[k] \in LiveEntries(bs)
  BY <1>2 DEF LiveEntries
<1>4. ASSUME a \in DOMAIN lv PROVE k # 0
  <2>1. PICK i \in 1 .. Len(bs) : bs[i].size # 0 /\ bs[i].address = a
    BY <1>4 DEF SameHeap, LiveEntries
  <2>2. k = i /\ Len(bs) \in Nat
    BY <2>1, LookupFinds
  <2> QED
    BY <2>2
<1> HIDE DEF k
<1>5. k # 0 => a \in DOMAIN lv /\ lv[a] = [size |-> bs[k].size, func |-> bs[k].func]
  BY <1>2, <1>3 DEF SameHeap
<1> QED
  BY <1>2, <1>4, <1>5 DEF k

(* The heap when a block has come, has gone or has been resized.           *)
Allocated(lv, address, size, asker) ==
  [a \in DOMAIN lv \cup {address} |->
     IF a = address THEN [size |-> size, func |-> asker] ELSE lv[a]]

Released(lv, address) == [a \in DOMAIN lv \ {address} |-> lv[a]]

Moved(lv, address, new, size) ==
  [a \in (DOMAIN lv \ {address}) \cup {new} |->
     IF a = new THEN [lv[address] EXCEPT !.size = size] ELSE lv[a]]

(* What the live entries become makes the heap that.                       *)
LEMMA SameAllocated ==
  ASSUME NEW bs, NEW lv, SameHeap(bs, lv), NEW nb, NEW b, b.size # 0,
         LiveEntries(nb) = {e \in LiveEntries(bs) : e.address # b.address} \cup {b}
  PROVE  SameHeap(nb, Allocated(lv, b.address, b.size, b.func))
<1> DEFINE nl == Allocated(lv, b.address, b.size, b.func)
<1>1. DOMAIN lv = {e.address : e \in LiveEntries(bs)}
  BY DEF SameHeap
<1>2. {e.address : e \in LiveEntries(nb)} = DOMAIN lv \cup {b.address}
  BY <1>1
<1>3. \A e \in LiveEntries(nb) : nl[e.address] = [size |-> e.size, func |-> e.func]
  BY <1>1 DEF SameHeap, Allocated
<1>4. nl = [a \in DOMAIN lv \cup {b.address} |-> nl[a]]
  BY DEF Allocated
<1> QED
  BY <1>2, <1>3, <1>4 DEF SameHeap

LEMMA SameReleased ==
  ASSUME NEW bs, NEW lv, SameHeap(bs, lv), NEW nb, NEW address,
         LiveEntries(nb) = {e \in LiveEntries(bs) : e.address # address}
  PROVE  SameHeap(nb, Released(lv, address))
<1> DEFINE nl == Released(lv, address)
<1>1. DOMAIN lv = {e.address : e \in LiveEntries(bs)}
  BY DEF SameHeap
<1>2. {e.address : e \in LiveEntries(nb)} = DOMAIN lv \ {address}
  BY <1>1
<1>3. \A e \in LiveEntries(nb) : nl[e.address] = [size |-> e.size, func |-> e.func]
  BY <1>1 DEF SameHeap, Released
<1>4. nl = [a \in DOMAIN lv \ {address} |-> nl[a]]
  BY DEF Released
<1> QED
  BY <1>2, <1>3, <1>4 DEF SameHeap

(* Moving is releasing the old address and allocating the new one.         *)
LEMMA ResizeIsReleaseAllocate ==
  ASSUME NEW lv, NEW address, NEW new, NEW size, NEW old, NEW func,
         lv[address] = [size |-> old, func |-> func]
  PROVE  Moved(lv, address, new, size) = Allocated(Released(lv, address), new, size, func)
<1>1. [lv[address] EXCEPT !.size = size] = [size |-> size, func |-> func]
  OBVIOUS
<1>2. DOMAIN Released(lv, address) = DOMAIN lv \ {address}
  BY DEF Released
<1>3. \A a \in DOMAIN lv \ {address} : Released(lv, address)[a] = lv[a]
  BY DEF Released
<1> QED
  BY <1>1, <1>2, <1>3 DEF Moved, Allocated

-----------------------------------------------------------------------------
(* As long as graprof runs, the profile and the heap agree on everything.  *)
Agree ==
  status = "running" =>
    /\ SameHeap(blocks, live)
    /\ total_allocated = allocated
    /\ total_freed = freed
    /\ maximum_allocated = peak
    /\ mishaps = [mallocs |-> failed_mallocs, reallocs |-> failed_reallocs,
                  frees |-> failed_frees]

(* The programs the theorems are about: see the head of the module.        *)
Honest == SmallSizes /\ 0 \notin Asked /\ NULL \notin StrayFrees

LEMMA InvBooks ==
  ASSUME Inv
  PROVE  /\ Books /\ nevents \in Nat /\ blocks \in Seq(Block) /\ Sorted(blocks)
         /\ total_allocated \in Nat /\ total_freed \in Nat
         /\ current_allocated = total_allocated - total_freed
BY MaxEventsAssumption DEF Inv, TypeOK, SortedBlocks, BalancedTotals, Books

LEMMA MaxOfTwo ==
  ASSUME NEW m \in Int, NEW n \in Int
  PROVE  Max({m, n}) = IF n > m THEN n ELSE m
<1> DEFINE t == IF n > m THEN n ELSE m
<1>1. t \in {m, n} /\ \A y \in {m, n} : t >= y
  OBVIOUS
<1>2. \A x \in {m, n} : (\A y \in {m, n} : x >= y) => x = t
  OBVIOUS
<1> HIDE DEF t
<1>3. Max({m, n}) = t
  BY <1>1, <1>2 DEF Max
<1> QED
  BY <1>3 DEF t

(* The peak moves as the maximum does.                                     *)
LEMMA PeakIsMaximum ==
  ASSUME NEW c \in Nat, maximum_allocated \in Nat, peak = maximum_allocated,
         Real!Reaches(c)
  PROVE  peak' = Highest(c)
<1>1. peak' = Max({peak, c})
  BY DEF Real!Reaches, Real!Max, Max
<1>2. Max({peak, c}) = IF c > peak THEN c ELSE peak
  BY MaxOfTwo
<1> QED
  BY <1>1, <1>2 DEF Highest, Above

(* One more failure, on both sides.                                        *)
LEMMA OneMoreMishap ==
  ASSUME NEW m, NEW x, NEW ms, NEW rs, NEW fs,
         m = [mallocs |-> ms, reallocs |-> rs, frees |-> fs]
  PROVE  /\ [m EXCEPT !.mallocs = Append(@, x)]
              = [mallocs |-> Append(ms, x), reallocs |-> rs, frees |-> fs]
         /\ [m EXCEPT !.reallocs = Append(@, x)]
              = [mallocs |-> ms, reallocs |-> Append(rs, x), frees |-> fs]
         /\ [m EXCEPT !.frees = Append(@, x)]
              = [mallocs |-> ms, reallocs |-> rs, frees |-> Append(fs, x)]
<1>1. m.mallocs = ms /\ m.reallocs = rs /\ m.frees = fs
  OBVIOUS
<1>2. \A v : [m EXCEPT !.mallocs = v] = [mallocs |-> v, reallocs |-> rs, frees |-> fs]
  OBVIOUS
<1>3. \A v : [m EXCEPT !.reallocs = v] = [mallocs |-> ms, reallocs |-> v, frees |-> fs]
  OBVIOUS
<1>4. \A v : [m EXCEPT !.frees = v] = [mallocs |-> ms, reallocs |-> rs, frees |-> v]
  OBVIOUS
<1> QED
  BY <1>1, <1>2, <1>3, <1>4

(* A step that changes neither the blocks nor the heap.                    *)
LEMMA FailureAgrees ==
  ASSUME Agree, status = "running",
         UNCHANGED <<live, allocated, freed, peak>>,
         UNCHANGED <<blocks, total_allocated, total_freed, maximum_allocated>>,
         status' = "running" =>
           mishaps' = [mallocs |-> failed_mallocs', reallocs |-> failed_reallocs',
                       frees |-> failed_frees']
  PROVE  Agree'
<1>1. SameHeap(blocks', live')
  BY DEF Agree
<1> QED
  BY <1>1 DEF Agree

(* A call that allocates.                                                  *)
LEMMA CallMallocAgrees ==
  ASSUME Honest, Inv, Covered, Agree, status = "running", NEW size \in Asked,
         NEW site \in Site, NEW result \in Addresses, CallMalloc(size, site, result)
  PROVE  Agree'
<1>1. RecordBlock(size, site, result)
  BY AddressesAssumption DEF CallMalloc, RecordMalloc, memory_malloc, memory_realloc,
     ReallocNull, Malloc
<1>2. Real!Allocate(result, size, site.func) /\ UNCHANGED mishaps
  BY DEF CallMalloc
<1>3. /\ size \in Sizes /\ size \in Nat /\ size # 0
      /\ blocks \in Seq(Block) /\ Sorted(blocks)
  BY AskedAssumption, SizesAssumption, InvBooks DEF Honest
<1> DEFINE b == [address |-> result, size |-> size, direct_call |-> site.direct,
                 func |-> site.func, origin |-> nevents + 1]
<1>4. b \in Block /\ b.address = result /\ b.size = size /\ b.func = site.func
  BY <1>3, InvBooks DEF Block, BlockRecord, Site
<1>5. /\ blocks' = [blocklist_add(blocks, b.address, Zeroed) EXCEPT
                      ![AddedIndex(blocks, b.address)] = b]
      /\ total_allocated' = total_allocated + size
      /\ maximum_allocated' = Highest(current_allocated + size)
      /\ UNCHANGED <<total_freed, failures, status>>
  BY <1>1, <1>4 DEF RecordBlock
<1> HIDE DEF b
<1>6. SameHeap(blocks', live')
  <2>1. LiveEntries(blocks') = {e \in LiveEntries(blocks) : e.address # b.address} \cup {b}
    BY <1>3, <1>4, <1>5, LiveAddAndWrite
  <2>2. SameHeap(blocks', Allocated(live, b.address, b.size, b.func))
    BY <1>3, <1>4, <2>1, SameAllocated DEF Agree
  <2>3. live' = Allocated(live, result, size, site.func)
    BY <1>2 DEF Real!Allocate, Allocated
  <2> QED
    BY <1>4, <2>2, <2>3
<1>7. maximum_allocated' = peak'
  <2> DEFINE c == current_allocated + size
  <2>1. c \in Nat /\ maximum_allocated \in Nat
    BY <1>3, CoveredNat, InvBooks
  <2>2. c = allocated + size - freed
    BY <1>3, InvBooks DEF Agree
  <2>3. Real!Reaches(allocated + size - freed)
    BY <1>2 DEF Real!Allocate
  <2>4. maximum_allocated' = Highest(c) /\ Real!Reaches(c)
    BY <1>5, <2>2, <2>3
  <2> HIDE DEF c
  <2> QED
    BY <2>1, <2>4, PeakIsMaximum DEF Agree
<1>8. total_allocated' = allocated' /\ total_freed' = freed'
  BY <1>2, <1>5 DEF Real!Allocate, Agree
<1> QED
  BY <1>2, <1>5, <1>6, <1>7, <1>8 DEF Agree, failures

(* A call of malloc that fails.                                            *)
LEMMA OutOfMemoryAgrees ==
  ASSUME Agree, status = "running", NEW size \in Sizes, NEW site \in Site,
         OutOfMemory(size, site)
  PROVE  Agree'
<1>1. RecordFailedMalloc(size, site)
  BY DEF OutOfMemory, RecordMalloc, memory_malloc, memory_realloc, ReallocNull, Malloc
<1>2. /\ UNCHANGED <<live, allocated, freed, peak>>
      /\ mishaps' = [mishaps EXCEPT !.mallocs = Append(@, size)]
  BY DEF OutOfMemory, heapvars
<1>3. /\ UNCHANGED <<blocks, total_allocated, total_freed, maximum_allocated,
                     failed_reallocs, failed_frees>>
      /\ status' = "running" => failed_mallocs' = Append(failed_mallocs, size)
  BY <1>1 DEF RecordFailedMalloc, Report, bytes
<1>4. status' = "running" =>
        mishaps' = [mallocs |-> failed_mallocs', reallocs |-> failed_reallocs',
                    frees |-> failed_frees']
  <2>1. mishaps = [mallocs |-> failed_mallocs, reallocs |-> failed_reallocs,
                   frees |-> failed_frees]
    BY DEF Agree
  <2>2. [mishaps EXCEPT !.mallocs = Append(@, size)]
          = [mallocs |-> Append(failed_mallocs, size), reallocs |-> failed_reallocs,
             frees |-> failed_frees]
    BY <2>1, OneMoreMishap
  <2> QED
    BY <1>2, <1>3, <2>2
<1> QED
  BY <1>2, <1>3, <1>4, FailureAgrees

(* A call that frees a block.                                              *)
LEMMA CallFreeAgrees ==
  ASSUME Inv, Agree, status = "running", NEW site \in Site, NEW ptr \in Addresses,
         CallFree(ptr, site)
  PROVE  Agree'
<1> DEFINE k == blocklist_get_by_address(blocks, ptr)
           b == [blocks[k] EXCEPT !.size = 0, !.direct_call = FALSE]
<1>1. Real!Release(ptr) /\ UNCHANGED mishaps /\ Free(ptr, site)
  BY AddressesAssumption DEF CallFree, memory_free, memory_realloc, ReallocZero
<1>2. /\ ptr \in DOMAIN live /\ live' = Released(live, ptr)
      /\ freed' = freed + live[ptr].size /\ UNCHANGED <<allocated, peak>>
  BY <1>1 DEF Real!Release, Released
<1>3. /\ blocks \in Seq(Block) /\ Sorted(blocks) /\ SameHeap(blocks, live)
  BY InvBooks DEF Agree
<1>4. /\ k # 0 /\ k \in 1 .. Len(blocks) /\ blocks[k] \in Block
      /\ blocks[k].address = ptr
      /\ live[ptr] = [size |-> blocks[k].size, func |-> blocks[k].func]
  <2>1. ptr \in Addresses \cup {NULL}
    OBVIOUS
  <2>2. k # 0
    BY <1>2, <1>3, <2>1, HeapLookup
  <2> QED
    BY <1>3, <2>1, <2>2, HeapLookup
<1>5. ForgetBlock(ptr)
  BY <1>1, <1>4 DEF Free, RecordFailedFree
<1>6. b \in Block /\ b.address = ptr /\ b.size = 0
  BY <1>4 DEF Block, BlockRecord
<1>7. /\ blocks' = [blocks EXCEPT ![k] = b]
      /\ total_freed' = total_freed + blocks[k].size
      /\ UNCHANGED <<total_allocated, maximum_allocated, failures, status>>
  BY <1>4, <1>5 DEF ForgetBlock, blocklist_remove
<1> HIDE DEF k, b
<1>8. SameHeap(blocks', live')
  <2>1. LiveEntries(blocks') = {e \in LiveEntries(blocks) : e.address # ptr}
    <3>1. b.address = blocks[k].address
      BY <1>4, <1>6
    <3>2. LiveEntries([blocks EXCEPT ![k] = b])
            = {e \in LiveEntries(blocks) : e.address # b.address}
      BY <1>3, <1>4, <1>6, <3>1, LiveClear
    <3> QED
      BY <1>6, <1>7, <3>2
  <2> QED
    BY <1>2, <1>3, <2>1, SameReleased
<1>9. total_freed' = freed'
  BY <1>2, <1>4, <1>7 DEF Agree
<1> QED
  BY <1>1, <1>2, <1>7, <1>8, <1>9 DEF Agree, failures

(* A call of free that is a mistake.                                       *)
LEMMA StrayFreeAgrees ==
  ASSUME Inv, Agree, status = "running", NEW site \in Site, NEW ptr \in Addresses,
         StrayFree(ptr, site)
  PROVE  Agree'
<1>1. /\ UNCHANGED <<live, allocated, freed, peak>> /\ ptr \notin DOMAIN live
      /\ mishaps' = [mishaps EXCEPT !.frees = Append(@, ptr)]
      /\ Free(ptr, site)
  BY AddressesAssumption DEF StrayFree, heapvars, memory_free
<1>2. blocklist_get_by_address(blocks, ptr) = 0
  BY <1>1, HeapLookup, InvBooks DEF Agree
<1>3. Report(failed_frees, ptr, site) /\ UNCHANGED <<failed_mallocs, failed_reallocs>>
  BY <1>1, <1>2 DEF Free, ForgetBlock, RecordFailedFree
<1>4. /\ UNCHANGED <<blocks, total_allocated, total_freed, maximum_allocated>>
      /\ status' = "running" => failed_frees' = Append(failed_frees, ptr)
  BY <1>3 DEF Report, bytes
<1>5. status' = "running" =>
        mishaps' = [mallocs |-> failed_mallocs', reallocs |-> failed_reallocs',
                    frees |-> failed_frees']
  <2>1. mishaps = [mallocs |-> failed_mallocs, reallocs |-> failed_reallocs,
                   frees |-> failed_frees]
    BY DEF Agree
  <2>2. [mishaps EXCEPT !.frees = Append(@, ptr)]
          = [mallocs |-> failed_mallocs, reallocs |-> failed_reallocs,
             frees |-> Append(failed_frees, ptr)]
    BY <2>1, OneMoreMishap
  <2> QED
    BY <1>1, <1>3, <1>4, <2>2
<1> QED
  BY <1>1, <1>4, <1>5, FailureAgrees

(* A call of realloc that fails.                                           *)
LEMMA ReallocRefusedAgrees ==
  ASSUME Inv, Agree, status = "running", NEW site \in Site, NEW ptr \in Addresses,
         NEW size \in Sizes \ {0}, ReallocRefused(ptr, size, site)
  PROVE  Agree'
<1> DEFINE k == blocklist_get_by_address(blocks, ptr)
           f == [ptr |-> ptr, start_size |-> live[ptr].size, end_size |-> size,
                 reason |-> "FAILED_RESULT"]
<1>1. /\ UNCHANGED <<live, allocated, freed, peak>> /\ ptr \in DOMAIN live
      /\ mishaps' = [mishaps EXCEPT !.reallocs = Append(@, f)]
      /\ ReallocBlock(ptr, size, site, NULL)
  BY AddressesAssumption DEF ReallocRefused, heapvars, memory_realloc
<1>2. k # 0 /\ live[ptr].size = blocks[k].size
  <2>1. /\ blocks \in Seq(Block) /\ Sorted(blocks) /\ SameHeap(blocks, live)
        /\ ptr \in Addresses \cup {NULL}
    BY InvBooks DEF Agree
  <2>2. k # 0
    BY <1>1, <2>1, HeapLookup
  <2>3. live[ptr] = [size |-> blocks[k].size, func |-> blocks[k].func]
    BY <2>1, <2>2, HeapLookup
  <2> QED
    BY <2>2, <2>3
<1>3. /\ Report(failed_reallocs, f, site) /\ UNCHANGED <<failed_mallocs, failed_frees>>
  BY <1>1, <1>2 DEF ReallocBlock, ResizeBlock, RecordFailedRealloc
<1> HIDE DEF k, f
<1>4. /\ UNCHANGED <<blocks, total_allocated, total_freed, maximum_allocated>>
      /\ status' = "running" => failed_reallocs' = Append(failed_reallocs, f)
  BY <1>3 DEF Report, bytes
<1>5. status' = "running" =>
        mishaps' = [mallocs |-> failed_mallocs', reallocs |-> failed_reallocs',
                    frees |-> failed_frees']
  <2>1. mishaps = [mallocs |-> failed_mallocs, reallocs |-> failed_reallocs,
                   frees |-> failed_frees]
    BY DEF Agree
  <2>2. [mishaps EXCEPT !.reallocs = Append(@, f)]
          = [mallocs |-> failed_mallocs, reallocs |-> Append(failed_reallocs, f),
             frees |-> failed_frees]
    BY <2>1, OneMoreMishap
  <2> QED
    BY <1>1, <1>3, <1>4, <2>2
<1> QED
  BY <1>1, <1>4, <1>5, FailureAgrees

(* A call of realloc that resizes a block, in place or not.                *)
LEMMA CallReallocAgrees ==
  ASSUME Honest, Inv, Covered, Covered', Agree, status = "running", NEW site \in Site,
         NEW ptr \in Addresses, NEW size \in Sizes \ {0}, NEW result \in Addresses,
         CallRealloc(ptr, size, site, result)
  PROVE  Agree'
<1> DEFINE k       == blocklist_get_by_address(blocks, ptr)
           diff    == ToInt(size - blocks[k].size)
           grown   == [blocks[k] EXCEPT !.size = size]
           resized == [blocks EXCEPT ![k].size = size]
<1>1. Real!Resize(ptr, result, size) /\ UNCHANGED mishaps /\ ReallocBlock(ptr, size, site, result)
  BY AddressesAssumption DEF CallRealloc, memory_realloc
<1>2. /\ ptr \in DOMAIN live /\ result \notin DOMAIN live \ {ptr}
      /\ live' = Moved(live, ptr, result, size)
      /\ allocated' = allocated + Real!Max({0, size - live[ptr].size})
      /\ freed' = freed + Real!Max({0, live[ptr].size - size})
      /\ Real!Reaches(allocated - freed + size - live[ptr].size)
  BY <1>1 DEF Real!Resize, Moved
<1>3. /\ blocks \in Seq(Block) /\ Sorted(blocks) /\ SameHeap(blocks, live)
      /\ Len(blocks) \in Nat
  BY InvBooks DEF Agree
<1>4. /\ k # 0 /\ k \in 1 .. Len(blocks) /\ blocks[k] \in Block
      /\ blocks[k].address = ptr
      /\ live[ptr] = [size |-> blocks[k].size, func |-> blocks[k].func]
  <2>1. ptr \in Addresses \cup {NULL}
    OBVIOUS
  <2>2. k # 0
    BY <1>2, <1>3, <2>1, HeapLookup
  <2> QED
    BY <1>3, <2>1, <2>2, HeapLookup
<1>5. blocks[k].size \in Sizes \cup {0} /\ blocks[k].size \in Nat /\ size \in Nat
  <2>1. blocks[k].size \in Sizes \cup {0}
    BY <1>4 DEF Block, BlockRecord
  <2>2. Sizes \cup {0} \subseteq Nat
    BY SizesAssumption
  <2> QED
    BY <2>1, <2>2
<1>6. diff = size - blocks[k].size
  BY <1>5, ToIntExact DEF Honest
<1>7. ResizeBlock(ptr, size, result)
  BY <1>1, <1>4, AddressesAssumption DEF ReallocBlock, RecordFailedRealloc
<1>8. /\ total_allocated' = total_allocated + Grown(diff)
      /\ total_freed' = total_freed + Shrunk(diff)
      /\ current_allocated' = current_allocated + diff
      /\ maximum_allocated' = Highest(current_allocated + diff)
      /\ blocks' = IF result = ptr THEN resized
                   ELSE blocklist_relocate(resized, k, result, Zeroed)
      /\ UNCHANGED <<failures, status>>
  BY <1>7 DEF ResizeBlock
<1>9. /\ grown \in Block /\ grown.address = ptr /\ grown.size = size
      /\ grown.func = blocks[k].func
      /\ resized = [blocks EXCEPT ![k] = grown]
  BY <1>4 DEF Block, BlockRecord
<1> HIDE DEF k, diff, grown
<1>10. resized \in Seq(Block) /\ Sorted(resized) /\ Len(resized) = Len(blocks)
       /\ resized[k] = grown
  <2>1. grown.address = blocks[k].address
    BY <1>4, <1>9
  <2>2. resized \in Seq(Block) /\ Sorted(resized)
    BY <1>3, <1>4, <1>9, <2>1, ChangeFound
  <2>3. Len(resized) = Len(blocks) /\ resized[k] = grown
    BY <1>3, <1>4, <1>9, ExceptSeq
  <2> QED
    BY <2>2, <2>3
<1>11. LiveEntries(resized) = {e \in LiveEntries(blocks) : e.address # ptr} \cup {grown}
  <2>1. grown.address = blocks[k].address /\ grown.size # 0
    BY <1>4, <1>9
  <2> QED
    BY <1>3, <1>4, <1>9, <2>1, LiveOverwrite
<1> HIDE DEF resized
<1>12. live' = Allocated(Released(live, ptr), result, size, blocks[k].func)
  BY <1>2, <1>4, ResizeIsReleaseAllocate
<1>13. SameHeap(blocks', live')
  <2> DEFINE dead == [grown EXCEPT !.size = 0, !.direct_call = FALSE]
             old  == [resized EXCEPT ![k].size = 0, ![k].direct_call = FALSE]
             new  == [grown EXCEPT !.address = result]
  <2>1. dead \in Block /\ dead.address = ptr /\ dead.size = 0
    BY <1>9 DEF Block, BlockRecord
  <2>2. /\ new \in Block /\ new.address = result /\ new.size = size
        /\ new.func = blocks[k].func /\ (result = ptr => new = grown)
    BY <1>9 DEF Block, BlockRecord
  <2>3. old = [resized EXCEPT ![k] = dead]
    BY <1>4, <1>10
  <2>4. result # ptr => blocks' = [blocklist_add(old, result, Zeroed) EXCEPT
                                     ![AddedIndex(old, result)] = new]
    BY <1>8, <1>10 DEF blocklist_relocate
  <2> HIDE DEF dead, old, new
  <2>5. old \in Seq(Block) /\ Sorted(old)
    BY <1>4, <1>9, <1>10, <2>1, <2>3, ChangeFound
  <2>6. LiveEntries(old) = {e \in LiveEntries(blocks) : e.address # ptr}
    <3>1. k \in 1 .. Len(resized) /\ dead.address = resized[k].address
      BY <1>4, <1>9, <1>10, <2>1
    <3>2. LiveEntries(old) = {e \in LiveEntries(resized) : e.address # ptr}
      <4>1. LiveEntries([resized EXCEPT ![k] = dead])
              = {e \in LiveEntries(resized) : e.address # dead.address}
        BY <1>10, <2>1, <3>1, LiveClear
      <4> QED
        BY <2>1, <2>3, <4>1
    <3> QED
      BY <1>9, <1>11, <3>2
  <2>7. SameHeap(old, Released(live, ptr))
    BY <1>3, <2>6, SameReleased
  <2>8. LiveEntries(blocks') = {e \in LiveEntries(old) : e.address # new.address} \cup {new}
    <3>1. CASE result = ptr
      BY <1>8, <1>11, <2>2, <2>6, <3>1
    <3>2. CASE result # ptr
      <4>1. blocks' = [blocklist_add(old, new.address, Zeroed) EXCEPT
                         ![AddedIndex(old, new.address)] = new]
        BY <2>2, <2>4, <3>2
      <4> QED
        BY <2>2, <2>5, <4>1, LiveAddAndWrite
    <3> QED
      BY <3>1, <3>2
  <2>9. SameHeap(blocks', Allocated(Released(live, ptr), new.address, new.size, new.func))
    BY <2>2, <2>7, <2>8, SameAllocated
  <2> QED
    BY <1>12, <2>2, <2>9
<1>14. total_allocated' = allocated' /\ total_freed' = freed'
  <2>1. live[ptr].size = blocks[k].size
    BY <1>4
  <2>2. /\ Real!Max({0, size - live[ptr].size}) = Grown(diff)
        /\ Real!Max({0, live[ptr].size - size}) = Shrunk(diff)
    <3>1. /\ Max({0, size - live[ptr].size}) = IF size - live[ptr].size > 0 THEN size - live[ptr].size ELSE 0
          /\ Max({0, live[ptr].size - size}) = IF live[ptr].size - size > 0 THEN live[ptr].size - size ELSE 0
      BY <1>5, <2>1, MaxOfTwo
    <3>2. \A S : Real!Max(S) = Max(S)
      BY DEF Real!Max, Max
    <3> QED
      BY <1>5, <1>6, <2>1, <3>1, <3>2 DEF Grown, Shrunk
  <2> QED
    BY <1>2, <1>8, <2>2 DEF Agree
<1>15. maximum_allocated' = peak'
  <2> DEFINE c == current_allocated + diff
  <2>1. c \in Nat /\ maximum_allocated \in Nat
    <3>1. Books'
      BY <1>1, InvBooks, ReallocBooks
    <3>2. blocks' \in Seq(Block) /\ current_allocated' \in Int
      BY <3>1 DEF Books
    <3>3. BytesOf(blocks') \in Nat
      BY <3>2, BytesFacts
    <3>4. BytesOf(blocks') <= current_allocated' /\ current_allocated' = c
      BY <1>8 DEF Covered
    <3>5. maximum_allocated \in Nat
      BY CoveredNat, InvBooks
    <3> HIDE DEF c
    <3> QED
      BY <3>2, <3>3, <3>4, <3>5
  <2>2. c = allocated - freed + size - live[ptr].size
    BY <1>4, <1>5, <1>6, InvBooks DEF Agree
  <2>3. maximum_allocated' = Highest(c) /\ Real!Reaches(c)
    BY <1>2, <1>8, <2>2
  <2> HIDE DEF c
  <2> QED
    BY <2>1, <2>3, PeakIsMaximum DEF Agree
<1> QED
  BY <1>1, <1>8, <1>13, <1>14, <1>15 DEF Agree, failures

-----------------------------------------------------------------------------
(* What holds in every state of an honest program.                         *)
ProfileInv == Inv /\ Covered /\ Agree

LEMMA InitProfile == PInit => ProfileInv
<1> SUFFICES ASSUME PInit PROVE ProfileInv
  OBVIOUS
<1>1. Inv /\ Covered
  BY InitInv, InitCovered DEF PInit
<1>2. SameHeap(blocks, live)
  <2>1. LiveEntries(blocks) = {}
    BY EmptySeq DEF PInit, Init, LiveEntries
  <2>2. live = [a \in {} |-> 0]
    BY DEF PInit, Real!Init
  <2> QED
    BY <2>1, <2>2 DEF SameHeap
<1> QED
  BY <1>1, <1>2 DEF ProfileInv, Agree, PInit, Init, Real!Init

(* Every call of an honest program keeps profile and heap together.        *)
LEMMA NextAgrees ==
  ASSUME Honest, ProfileInv, PNext, Covered'
  PROVE  Agree'
<1>1. /\ Inv /\ Covered /\ Agree /\ status = "running"
      /\ Callers \subseteq Site /\ Asked \subseteq Sizes /\ Resized \subseteq Sizes
      /\ StrayFrees \subseteq Addresses
  BY CallersAssumption, AskedAssumption, StrayFreesAssumption
     DEF ProfileInv, PNext, NextEvent, Honest
<1>2. PICK site \in Callers :
       \/ \E size \in Asked :
            \/ OutOfMemory(size, site)
            \/ \E result \in Addresses : CallMalloc(size, site, result)
       \/ \E ptr \in Addresses : CallFree(ptr, site)
       \/ \E ptr \in StrayFrees : StrayFree(ptr, site)
       \/ \E ptr \in Addresses, size \in Resized \ {0} :
            \/ ReallocRefused(ptr, size, site)
            \/ \E result \in Addresses : CallRealloc(ptr, size, site, result)
  BY DEF PNext
<1>3. site \in Site
  BY <1>1
<1>4. ASSUME NEW size \in Asked, OutOfMemory(size, site) PROVE Agree'
  <2>1. size \in Sizes
    BY <1>1
  <2> QED
    BY <1>1, <1>3, <1>4, <2>1, OutOfMemoryAgrees
<1>5. ASSUME NEW size \in Asked, NEW result \in Addresses, CallMalloc(size, site, result)
      PROVE  Agree'
  BY <1>1, <1>3, <1>5, CallMallocAgrees
<1>6. ASSUME NEW ptr \in Addresses, CallFree(ptr, site) PROVE Agree'
  BY <1>1, <1>3, <1>6, CallFreeAgrees
<1>7. ASSUME NEW ptr \in StrayFrees, StrayFree(ptr, site) PROVE Agree'
  <2>1. ptr \in Addresses
    BY <1>1
  <2> QED
    BY <1>1, <1>3, <1>7, <2>1, StrayFreeAgrees
<1>8. ASSUME NEW ptr \in Addresses, NEW size \in Resized \ {0},
             ReallocRefused(ptr, size, site)
      PROVE  Agree'
  <2>1. size \in Sizes \ {0}
    BY <1>1
  <2> QED
    BY <1>1, <1>3, <1>8, <2>1, ReallocRefusedAgrees
<1>9. ASSUME NEW ptr \in Addresses, NEW size \in Resized \ {0}, NEW result \in Addresses,
             CallRealloc(ptr, size, site, result)
      PROVE  Agree'
  <2>1. size \in Sizes \ {0}
    BY <1>1
  <2> QED
    BY <1>1, <1>3, <1>9, <2>1, CallReallocAgrees
<1> QED
  BY <1>2, <1>4, <1>5, <1>6, <1>7, <1>8, <1>9

LEMMA NextProfile ==
  ASSUME Honest, ProfileInv, [PNext]_allvars
  PROVE  ProfileInv'
<1>1. [Next]_vars
  BY StepsAreEvents
<1>2. Inv' /\ Covered'
  BY <1>1, NextInv, NextCovered DEF ProfileInv, Honest
<1>3. CASE PNext
  BY <1>2, <1>3, NextAgrees DEF ProfileInv
<1>4. CASE UNCHANGED allvars
  <2>1. Agree'
    <3>1. UNCHANGED <<blocks, live>>
      BY <1>4 DEF allvars, vars, heapvars
    <3>2. Agree => (status = "running" => SameHeap(blocks', live'))
      BY <3>1 DEF Agree
    <3> QED
      BY <1>4, <3>2 DEF ProfileInv, Agree, allvars, vars, heapvars, bytes, failures
  <2> QED
    BY <1>2, <2>1 DEF ProfileInv
<1> QED
  BY <1>3, <1>4

(* Profile and heap agree in every state of an honest program.             *)
THEOREM SpecProfile ==
  ASSUME Honest PROVE PSpec => []ProfileInv
<1>1. ProfileInv /\ [PNext]_allvars => ProfileInv'
  BY NextProfile
<1> QED
  BY <1>1, InitProfile, PTL DEF PSpec

(* The failures reported are the calls that failed, in their order.        *)
THEOREM SpecReportsAreTrue ==
  ASSUME Honest PROVE PSpec => []ReportsAreTrue
<1>1. ProfileInv => ReportsAreTrue
  BY DEF ProfileInv, Agree, ReportsAreTrue
<1> QED
  BY <1>1, SpecProfile, PTL

(* The maximum reported is the most that ever was in use.                  *)
THEOREM SpecMaximumIsPeak ==
  ASSUME Honest PROVE PSpec => []MaximumIsPeak
<1>1. ProfileInv => MaximumIsPeak
  BY DEF ProfileInv, Agree, MaximumIsPeak
<1> QED
  BY <1>1, SpecProfile, PTL

-----------------------------------------------------------------------------
(* What the report would list of an array: Listed is that of blocks.       *)
ListedIn(bs) ==
  LET entries == {i \in 1 .. Len(bs) : bs[i].size # 0}
      entry(a) == CHOOSE i \in entries : bs[i].address = a
  IN  [a \in {bs[i].address : i \in entries} |->
         [size |-> bs[entry(a)].size, func |-> bs[entry(a)].func]]

(* The entry it takes for an address is the only one.                      *)
LEMMA ListedIsHeap ==
  ASSUME NEW bs \in Seq(Block), Sorted(bs), NEW lv, SameHeap(bs, lv)
  PROVE  ListedIn(bs) = lv
<1> DEFINE entries == {i \in 1 .. Len(bs) : bs[i].size # 0}
           entry(a) == CHOOSE i \in entries : bs[i].address = a
           D == {bs[i].address : i \in entries}
<1>1. D = {e.address : e \in LiveEntries(bs)}
  BY DEF LiveEntries
<1>2. ASSUME NEW a \in D
      PROVE  [size |-> bs[entry(a)].size, func |-> bs[entry(a)].func] = lv[a]
  <2>1. \E i \in entries : bs[i].address = a
    OBVIOUS
  <2>2. entry(a) \in entries /\ bs[entry(a)].address = a
    BY <2>1
  <2>3. bs[entry(a)] \in LiveEntries(bs)
    BY <2>2 DEF LiveEntries
  <2> QED
    BY <2>2, <2>3 DEF SameHeap
<1>3. lv = [a \in D |-> lv[a]]
  BY <1>1 DEF SameHeap
<1>4. ListedIn(bs) = [a \in D |-> [size |-> bs[entry(a)].size, func |-> bs[entry(a)].func]]
  BY DEF ListedIn
<1> HIDE DEF D, entry
<1> QED
  BY <1>2, <1>3, <1>4

LEMMA ListedIsLive ==
  ASSUME ProfileInv, status = "running" PROVE Listed = live
<1>1. ListedIn(blocks) = live
  BY ListedIsHeap, InvBooks DEF ProfileInv, Agree
<1> QED
  BY <1>1 DEF Listed, ListedIn

(* The profile lists the live blocks with their sizes and those who asked  *)
(* for them, and its byte counts are the true ones.                        *)
THEOREM SpecProfileMatchesHeap ==
  ASSUME Honest PROVE PSpec => []ProfileMatchesHeap
<1>1. ProfileInv => ProfileMatchesHeap
  BY ListedIsLive DEF ProfileInv, Agree, ProfileMatchesHeap
<1> QED
  BY <1>1, SpecProfile, PTL

-----------------------------------------------------------------------------
(* The event that makes graprof crash changes nothing of the profile.      *)
LEMMA CrashKeepsProfile ==
  ASSUME PNext, status' # status
  PROVE  UNCHANGED <<blocks, bytes>>
<1>1. ASSUME NEW size, NEW site, NEW result, memory_malloc(size, site, result)
      PROVE  UNCHANGED <<blocks, bytes>>
  BY <1>1 DEF memory_malloc, Malloc, RecordFailedMalloc, RecordBlock, Report
<1>2. ASSUME NEW ptr, NEW site, memory_free(ptr, site)
      PROVE  UNCHANGED <<blocks, bytes>>
  BY <1>2 DEF memory_free, Free, RecordFailedFree, ForgetBlock, Report
<1>3. ASSUME NEW ptr, NEW size, NEW site, NEW result,
             memory_realloc(ptr, size, site, result)
      PROVE  UNCHANGED <<blocks, bytes>>
  BY <1>3 DEF memory_realloc, ReallocNull, ReallocZero, ReallocBlock, Malloc, Free,
     RecordFailedMalloc, RecordBlock, RecordFailedFree, ForgetBlock,
     RecordFailedRealloc, ResizeBlock, Report
<1> QED
  BY <1>1, <1>2, <1>3 DEF PNext, OutOfMemory, CallMalloc, CallFree, StrayFree,
     ReallocRefused, CallRealloc, RecordMalloc

(* The step of the heap behind a call.                                     *)
LEMMA StepOfHeap ==
  PNext => \/ UNCHANGED heapvars
           \/ \E a \in Addresses :
                \/ Real!Release(a)
                \/ \E size \in Asked \cup Resized, asker \in Function \cup {NoFunction} :
                     Real!Allocate(a, size, asker)
                \/ \E size \in Asked \cup Resized, new \in Addresses :
                     Real!Resize(a, new, size)
<1> SUFFICES ASSUME PNext, ~UNCHANGED heapvars
             PROVE  \E a \in Addresses :
                \/ Real!Release(a)
                \/ \E size \in Asked \cup Resized, asker \in Function \cup {NoFunction} :
                     Real!Allocate(a, size, asker)
                \/ \E size \in Asked \cup Resized, new \in Addresses :
                     Real!Resize(a, new, size)
  OBVIOUS
<1>1. PICK site \in Callers :
       \/ \E size \in Asked, result \in Addresses : CallMalloc(size, site, result)
       \/ \E ptr \in Addresses : CallFree(ptr, site)
       \/ \E ptr \in Addresses, size \in Resized \ {0}, result \in Addresses :
            CallRealloc(ptr, size, site, result)
  BY DEF PNext, OutOfMemory, StrayFree, ReallocRefused
<1>2. site.func \in Function \cup {NoFunction}
  BY CallersAssumption DEF Site
<1> QED
  BY <1>1, <1>2 DEF CallMalloc, CallFree, CallRealloc

(* The profile of an honest program is itself a heap: each event           *)
(* allocates, releases or resizes one block of it or leaves it as it is.   *)
THEOREM SpecProfileIsHeap ==
  ASSUME Honest PROVE PSpec => ProfileIsHeap
<1>1. PInit => Profile!Init
  <2> SUFFICES ASSUME PInit PROVE Profile!Init
    OBVIOUS
  <2>1. Listed = live
    BY InitProfile, ListedIsLive DEF PInit, Init
  <2> QED
    BY <2>1 DEF PInit, Init, Real!Init, Profile!Init
<1>2. ASSUME ProfileInv, ProfileInv', [PNext]_allvars PROVE [Profile!Next]_Profile!vars
  <2>1. CASE UNCHANGED <<blocks, bytes>>
    <3>1. Listed' = Listed
      BY <2>1 DEF Listed
    <3> QED
      BY <2>1, <3>1 DEF Profile!vars, bytes
  <2>2. CASE PNext /\ status' = status
    <3>1. /\ Listed = live /\ Listed' = live'
          /\ total_allocated = allocated /\ total_allocated' = allocated'
          /\ total_freed = freed /\ total_freed' = freed'
          /\ maximum_allocated = peak /\ maximum_allocated' = peak'
      <4>1. status = "running" /\ status' = "running"
        BY <2>2 DEF PNext, NextEvent
      <4>2. Listed = live
        BY <1>2, <4>1, ListedIsLive
      <4>3. Listed' = live'
        <5>1. /\ blocks' \in Seq(Block) /\ Sorted(blocks') /\ SameHeap(blocks', live')
          BY <1>2, <4>1 DEF ProfileInv, Inv, TypeOK, SortedBlocks, Agree
        <5>2. ListedIn(blocks') = live'
          BY <5>1, ListedIsHeap
        <5> QED
          BY <5>2 DEF Listed, ListedIn
      <4> QED
        BY <1>2, <4>1, <4>2, <4>3 DEF ProfileInv, Agree
    <3>2. CASE UNCHANGED heapvars
      BY <3>1, <3>2 DEF heapvars, Profile!vars
    <3>3. CASE \E a \in Addresses :
                \/ Real!Release(a)
                \/ \E size \in Asked \cup Resized, asker \in Function \cup {NoFunction} :
                     Real!Allocate(a, size, asker)
                \/ \E size \in Asked \cup Resized, new \in Addresses :
                     Real!Resize(a, new, size)
      <4>1. \A S : Real!Max(S) = Profile!Max(S)
        BY DEF Real!Max, Profile!Max
      <4>2. \A n : Real!Reaches(n) => Profile!Reaches(n)
        BY <3>1, <4>1 DEF Real!Reaches, Profile!Reaches
      <4>3. \A a : Real!Release(a) => Profile!Release(a)
        BY <3>1 DEF Real!Release, Profile!Release
      <4>4. \A a, size, asker : Real!Allocate(a, size, asker)
                                  => Profile!Allocate(a, size, asker)
        BY <3>1, <4>2 DEF Real!Allocate, Profile!Allocate
      <4>5. \A a, size, new : Real!Resize(a, new, size) => Profile!Resize(a, new, size)
        BY <3>1, <4>1, <4>2 DEF Real!Resize, Profile!Resize
      <4>6. Profile!Next
        BY <3>3, <4>3, <4>4, <4>5 DEF Profile!Next
      <4> QED
        BY <4>6
    <3> QED
      BY <2>2, <3>2, <3>3, StepOfHeap
  <2>3. CASE PNext /\ status' # status
    BY <2>1, <2>3, CrashKeepsProfile
  <2>4. CASE UNCHANGED allvars
    BY <2>1, <2>4 DEF allvars, vars
  <2> QED
    BY <1>2, <2>2, <2>3, <2>4
<1> QED
  BY <1>1, <1>2, SpecProfile, PTL DEF PSpec, ProfileIsHeap, Profile!Spec

-----------------------------------------------------------------------------
(* A program whose every call comes from below an instrumented function    *)
(* never makes graprof read through the NULL of function_get_current.      *)
THEOREM SpecNeverSegfaults ==
  ASSUME \A site \in Callers : site.func # NoFunction
  PROVE  PSpec => []NeverSegfaults
<1> DEFINE Running == status = "running"
<1>1. PInit => Running
  BY DEF PInit, Init
<1>2. ASSUME Running, [PNext]_allvars PROVE Running'
  <2>1. CASE PNext
    <3>1. PICK site \in Callers :
           \/ \E size \in Asked :
                \/ OutOfMemory(size, site)
                \/ \E result \in Addresses : CallMalloc(size, site, result)
           \/ \E ptr \in Addresses : CallFree(ptr, site)
           \/ \E ptr \in StrayFrees : StrayFree(ptr, site)
           \/ \E ptr \in Addresses, size \in Resized \ {0} :
                \/ ReallocRefused(ptr, size, site)
                \/ \E result \in Addresses : CallRealloc(ptr, size, site, result)
      BY <2>1 DEF PNext
    <3>2. ASSUME NEW size, NEW result, Malloc(size, site, result) PROVE Running'
      BY <1>2, <3>2 DEF Malloc, RecordFailedMalloc, RecordBlock, Report
    <3>3. ASSUME NEW ptr, Free(ptr, site) PROVE Running'
      BY <1>2, <3>3 DEF Free, RecordFailedFree, ForgetBlock, Report
    <3>4. ASSUME NEW ptr, NEW size, NEW result, ReallocBlock(ptr, size, site, result)
          PROVE  Running'
      BY <1>2, <3>4 DEF ReallocBlock, RecordFailedRealloc, ResizeBlock, Report
    <3> HIDE DEF Running
    <3>5. \A ptr, size, result : memory_realloc(ptr, size, site, result) => Running'
      BY <3>2, <3>3, <3>4 DEF memory_realloc, ReallocNull, ReallocZero
    <3>6. \A ptr, size, result :
            memory_malloc(size, site, result) \/ memory_free(ptr, site) => Running'
      BY <3>2, <3>3 DEF memory_malloc, memory_free
    <3> QED
      BY <3>1, <3>5, <3>6 DEF OutOfMemory, CallMalloc, CallFree, StrayFree,
         ReallocRefused, CallRealloc, RecordMalloc
  <2>2. CASE UNCHANGED allvars
    BY <1>2, <2>2 DEF allvars, vars
  <2> QED
    BY <1>2, <2>1, <2>2
<1>3. Running => NeverSegfaults
  BY DEF NeverSegfaults
<1> QED
  BY <1>1, <1>2, <1>3, PTL DEF PSpec

=============================================================================
