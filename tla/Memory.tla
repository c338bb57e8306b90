------------------------------- MODULE Memory -------------------------------
(***************************************************************************)
(* The memory profile graprof/memory.c builds from the allocation events   *)
(* of a trace: the block array, the byte totals, the call counters and the *)
(* lists of failures.  One action is one event handed over by trace.c.     *)
(*                                                                         *)
(* The byte totals are 64 bit.  A model never adds up to 2^63, so a total  *)
(* below zero stands for itself plus 2^64; only the comparison that moves  *)
(* the maximum can tell.  The int in the middle of memory_realloc keeps    *)
(* its width: IntSpan is 2^32 in the code.                                 *)
(***************************************************************************)
EXTENDS Blocklist, Functions

CONSTANTS
  Addresses,    (* where the allocator of the profilee may place a block   *)
  Sizes,        (* the sizes, in bytes, that are asked for                 *)
  Function,     (* the instrumented functions                              *)
  NoFunction,   (* function_get_current() = NULL: no instrumented function *)
  IntSpan,      (* how many values an int has                              *)
  MaxEvents     (* bound: the number of events in the trace                *)

NULL == 0

ASSUME AddressesAssumption == Addresses \subseteq Nat \ {NULL}
ASSUME SizesAssumption == Sizes \subseteq Nat
ASSUME FunctionAssumption == NoFunction \notin Function
ASSUME IntSpanAssumption == IntSpan \in Nat \ {0}
ASSUME MaxEventsAssumption == MaxEvents \in Nat

VARIABLES
  blocks, total_allocated, current_allocated, maximum_allocated, total_freed,
  total_allocations, total_reallocations, total_frees,
  failed_mallocs, failed_reallocs, failed_frees,
  released,     (* history: the allocations whose name strings were freed  *)
  nevents,      (* history: how many events were processed                 *)
  status        (* "running", or "segfault" once graprof has crashed       *)

bytes    == <<total_allocated, current_allocated, maximum_allocated, total_freed>>
counters == <<total_allocations, total_reallocations, total_frees>>
failures == <<failed_mallocs, failed_reallocs, failed_frees>>
vars     == <<blocks, bytes, counters, failures, released, nevents, status>>

-----------------------------------------------------------------------------
(* Where an event comes from: the function on top of the call tree, and    *)
(* whether the caller of malloc lies in it (function_compare says 0).      *)
Site ==
  {s \in [func : Function \cup {NoFunction}, direct : BOOLEAN] :
     s.direct => s.func # NoFunction}

Zeroed ==
  [address |-> NULL, size |-> 0, direct_call |-> FALSE, func |-> NoFunction,
   origin |-> 0]

(* An int keeps the low bits of what is assigned to it.                    *)
ToInt(n) == ((n + IntSpan \div 2) % IntSpan) - IntSpan \div 2

(* a > b for two unsigned totals, one below zero being a very large one.   *)
Above(a, b) == IF (a < 0) = (b < 0) THEN a > b ELSE a < 0

(* The high-water mark after current_allocated has become c.               *)
HighestLatest(c) == c
HighestInverted(c) == IF Above(c, maximum_allocated) THEN maximum_allocated ELSE c
Highest(c) == IF Above(c, maximum_allocated) THEN c ELSE maximum_allocated

(* A counter after a call that memory_realloc relays to another handler:   *)
(* counted there and taken back.                                           *)
RelayedTwice(counter) == counter + 1
RelayedNever(counter) == counter - 1
Relayed(counter) == counter

(* How a resize by diff moves the two sums that never go down.             *)
Grown(diff) == IF diff > 0 THEN diff ELSE 0
ShrunkSigned(diff) == IF diff > 0 THEN 0 ELSE diff
Shrunk(diff) == IF diff > 0 THEN 0 ELSE -diff

Init ==
  /\ blocks = <<>>
  /\ total_allocated = 0 /\ current_allocated = 0
  /\ maximum_allocated = 0 /\ total_freed = 0
  /\ total_allocations = 0 /\ total_reallocations = 0 /\ total_frees = 0
  /\ failed_mallocs = <<>> /\ failed_reallocs = <<>> /\ failed_frees = <<>>
  /\ released = {}
  /\ nevents = 0
  /\ status = "running"

(* The memory_add_failed_... functions read the file and the line of the   *)
(* current function without asking whether there is one.                   *)
Report(list, failure, site) ==
  /\ \/ /\ site.func # NoFunction
        /\ list' = Append(list, failure)
        /\ UNCHANGED status
     \/ /\ site.func = NoFunction
        /\ status' = "segfault"
        /\ UNCHANGED list
  /\ UNCHANGED <<blocks, bytes, released>>

-----------------------------------------------------------------------------
(* The part of memory_malloc behind its counter.                           *)
RecordFailedMalloc(size, site) ==
  /\ Report(failed_mallocs, size, site)
  /\ UNCHANGED <<failed_reallocs, failed_frees>>

RecordBlock(size, site, result) ==
  /\ total_allocated' = total_allocated + size
  /\ current_allocated' = current_allocated + size
  /\ maximum_allocated' = Highest(current_allocated + size)
  /\ blocks' = [blocklist_add(blocks, result, Zeroed) EXCEPT
                  ![AddedIndex(blocks, result)] =
                     [address |-> result, size |-> size, direct_call |-> site.direct,
                      func |-> site.func, origin |-> nevents + 1]]
  /\ UNCHANGED <<total_freed, failures, released, status>>

Malloc(size, site, result) ==
  \/ result = NULL /\ RecordFailedMalloc(size, site)
  \/ result # NULL /\ RecordBlock(size, site, result)

(* The part of memory_free behind its counter.                             *)
RecordFailedFree(ptr, site) ==
  /\ blocklist_get_by_address(blocks, ptr) = 0
  /\ Report(failed_frees, ptr, site)
  /\ UNCHANGED <<failed_mallocs, failed_reallocs>>

ForgetBlock(ptr) ==
  LET k == blocklist_get_by_address(blocks, ptr)
  IN  /\ k # 0
      /\ total_freed' = total_freed + blocks[k].size
      /\ current_allocated' = current_allocated - blocks[k].size
      /\ blocks' = blocklist_remove(blocks, k)
      /\ released' = IF blocks[k].direct_call THEN released \cup {blocks[k].origin}
                                              ELSE released
      /\ UNCHANGED <<total_allocated, maximum_allocated, failures, status>>

Free(ptr, site) == RecordFailedFree(ptr, site) \/ ForgetBlock(ptr)

(* The two ways memory_realloc itself reports a failure.                   *)
RecordFailedRealloc(ptr, size, site, result) ==
  LET k == blocklist_get_by_address(blocks, ptr)
  IN  /\ k = 0 \/ result = NULL
      /\ Report(failed_reallocs,
                [ptr |-> ptr, end_size |-> size,
                 start_size |-> IF k = 0 THEN 0 ELSE blocks[k].size,
                 reason |-> IF k = 0 THEN "FAILED_INVALID_PTR" ELSE "FAILED_RESULT"],
                site)
      /\ UNCHANGED <<failed_mallocs, failed_frees>>

ResizeBlock(ptr, size, result) ==
  LET k       == blocklist_get_by_address(blocks, ptr)
      diff    == ToInt(size - blocks[k].size)
      resized == [blocks EXCEPT ![k].size = size]
  IN  /\ k # 0 /\ result # NULL
      /\ total_allocated' = total_allocated + Grown(diff)
      /\ total_freed' = total_freed + Shrunk(diff)
      /\ current_allocated' = current_allocated + diff
      /\ maximum_allocated' = Highest(current_allocated + diff)
      /\ blocks' = IF result = ptr THEN resized
                   ELSE blocklist_relocate(resized, k, result, Zeroed)
      /\ UNCHANGED <<failures, released, status>>

-----------------------------------------------------------------------------
(* The three handlers trace.c calls.                                       *)
memory_malloc(size, site, result) ==
  /\ Malloc(size, site, result)
  /\ total_allocations' = total_allocations + 1
  /\ UNCHANGED <<total_reallocations, total_frees>>

memory_free(ptr, site) ==
  /\ Free(ptr, site)
  /\ total_frees' = total_frees + 1
  /\ UNCHANGED <<total_allocations, total_reallocations>>

ReallocNull(size, site, result) ==
  /\ Malloc(size, site, result)
  /\ total_allocations' = Relayed(total_allocations)
  /\ UNCHANGED total_frees

ReallocZero(ptr, site) ==
  /\ Free(ptr, site)
  /\ total_frees' = Relayed(total_frees)
  /\ UNCHANGED total_allocations

ReallocBlock(ptr, size, site, result) ==
  /\ \/ RecordFailedRealloc(ptr, size, site, result)
     \/ ResizeBlock(ptr, size, result)
  /\ UNCHANGED <<total_allocations, total_frees>>

memory_realloc(ptr, size, site, result) ==
  /\ \/ ptr = NULL /\ ReallocNull(size, site, result)
     \/ ptr # NULL /\ size = 0 /\ ReallocZero(ptr, site)
     \/ ptr # NULL /\ size # 0 /\ ReallocBlock(ptr, size, site, result)
  /\ total_reallocations' = total_reallocations + 1

(* One more event of the trace.  Its ptr and its result are not bound by   *)
(* what was recorded before: memalign and mmap are not intercepted, and    *)
(* calls made while another hook runs leave no event.                      *)
NextEvent ==
  /\ status = "running"
  /\ nevents < MaxEvents
  /\ nevents' = nevents + 1

Next ==
  /\ NextEvent
  /\ \E site \in Site, address \in Addresses \cup {NULL} :
       \/ memory_free(address, site)
       \/ \E size \in Sizes :
            \/ memory_malloc(size, site, address)
            \/ \E ptr \in Addresses \cup {NULL} :
                 memory_realloc(ptr, size, site, address)

Spec == Init /\ [][Next]_vars

-----------------------------------------------------------------------------
Block == BlockRecord(Addresses, Sizes \cup {0}, Function \cup {NoFunction})

FailedRealloc ==
  [ptr : Addresses, start_size : Sizes \cup {0}, end_size : Sizes,
   reason : {"FAILED_INVALID_PTR", "FAILED_RESULT"}]

(* Every variable has its type; the counters, which memory_realloc counts  *)
(* down again after it has relayed a call, never drop below zero.          *)
TypeOK ==
  /\ blocks \in Seq(Block)
  /\ total_allocated \in Nat /\ current_allocated \in Int
  /\ maximum_allocated \in Int /\ total_freed \in Nat
  /\ total_allocations \in Nat /\ total_reallocations \in Nat /\ total_frees \in Nat
  /\ failed_mallocs \in Seq(Sizes)
  /\ failed_reallocs \in Seq(FailedRealloc)
  /\ failed_frees \in Seq(Addresses \cup {NULL})
  /\ released \subseteq Nat
  /\ nevents \in 0 .. MaxEvents
  /\ status \in {"running", "segfault"}

(* Whatever is added, relocated or removed, the array stays sorted with    *)
(* one entry per address: the binary searches need nothing else.           *)
SortedBlocks == Sorted(blocks)

(* What was allocated and not given back is what is allocated now.         *)
BalancedTotals == total_allocated - total_freed = current_allocated

(* The three call counters of the report add up to the events, although    *)
(* memory_realloc hands some of its calls on to the other two handlers.    *)
CallsCounted == total_allocations + total_reallocations + total_frees = nevents

(* Both books: bytes and calls, after whatever events.                     *)
BooksBalance == BalancedTotals /\ CallsCounted

(* The blocks listed as never freed never hold more bytes than the total   *)
(* says are allocated, nor that total more than the maximum.  They may     *)
(* hold less: an address handed out twice drops the first block.           *)
LiveBytes == FoldFunction(LAMBDA b, sum : b.size + sum, 0, blocks)

CoveredByCurrent ==
  LiveBytes <= current_allocated /\ current_allocated <= maximum_allocated

(* The strings a direct call's block owns are freed once: no two entries   *)
(* own the same strings, and no entry owns strings already freed.          *)
OwnedOnce ==
  \A i, j \in 1 .. Len(blocks) :
    blocks[i].direct_call =>
      /\ blocks[i].origin \notin released
      /\ blocks[j].direct_call /\ i # j => blocks[i].origin # blocks[j].origin

=============================================================================
