---------------------------- MODULE ProfiledHeap ----------------------------
(***************************************************************************)
(* A single-threaded program, its heap, and the memory profile graprof     *)
(* makes of the events that the wrappers in libgraprof/mallhooks.c record: *)
(* one event per call, with the result the C library really returned.      *)
(* The heap is that of module Heap; the profile is that of module Memory.  *)
(***************************************************************************)
EXTENDS Memory

CONSTANTS
  Asked,        (* the sizes passed to malloc and calloc                   *)
  Resized,      (* the sizes passed to realloc; realloc(p, 0) frees        *)
  StrayFrees,   (* what free is called with when no live block is there    *)
  Callers       (* the sites the program calls from                        *)

ASSUME CallersAssumption == Callers \subseteq Site
ASSUME AskedAssumption == Asked \subseteq Sizes /\ Resized \subseteq Sizes
ASSUME StrayFreesAssumption == StrayFrees \subseteq Addresses \cup {NULL}

VARIABLES
  live, allocated, freed, peak,   (* the heap as it is                     *)
  mishaps                         (* history: the calls that really failed *)

Real == INSTANCE Heap WITH Sizes <- Asked \cup Resized,
                           Askers <- Function \cup {NoFunction}

heapvars == <<live, allocated, freed, peak>>
allvars  == <<vars, heapvars, mishaps>>

PInit ==
  /\ Init
  /\ Real!Init
  /\ mishaps = [mallocs |-> <<>>, reallocs |-> <<>>, frees |-> <<>>]

-----------------------------------------------------------------------------
(* malloc, calloc or realloc(NULL, size).                                  *)
RecordMalloc(size, site, result) ==
  memory_malloc(size, site, result) \/ memory_realloc(NULL, size, site, result)

CallMalloc(size, site, result) ==
  /\ Real!Allocate(result, size, site.func)
  /\ RecordMalloc(size, site, result)
  /\ UNCHANGED mishaps

OutOfMemory(size, site) ==
  /\ RecordMalloc(size, site, NULL)
  /\ mishaps' = [mishaps EXCEPT !.mallocs = Append(@, size)]
  /\ UNCHANGED heapvars

CallFree(ptr, site) ==
  /\ Real!Release(ptr)
  /\ memory_free(ptr, site) \/ (0 \in Resized /\ memory_realloc(ptr, 0, site, NULL))
  /\ UNCHANGED mishaps

(* free(NULL) is a call like any other; everything else is a mistake, and  *)
(* one the C library lets pass.                                            *)
StrayFree(ptr, site) ==
  /\ ptr \notin DOMAIN live
  /\ memory_free(ptr, site)
  /\ mishaps' = IF ptr = NULL THEN mishaps
                ELSE [mishaps EXCEPT !.frees = Append(@, ptr)]
  /\ UNCHANGED heapvars

CallRealloc(ptr, size, site, result) ==
  /\ Real!Resize(ptr, result, size)
  /\ memory_realloc(ptr, size, site, result)
  /\ UNCHANGED mishaps

ReallocRefused(ptr, size, site) ==
  /\ ptr \in DOMAIN live
  /\ memory_realloc(ptr, size, site, NULL)
  /\ mishaps' = [mishaps EXCEPT !.reallocs =
                   Append(@, [ptr |-> ptr, start_size |-> live[ptr].size,
                              end_size |-> size, reason |-> "FAILED_RESULT"])]
  /\ UNCHANGED heapvars

PNext ==
  /\ NextEvent
  /\ \E site \in Callers :
       \/ \E size \in Asked :
            \/ OutOfMemory(size, site)
            \/ \E result \in Addresses : CallMalloc(size, site, result)
       \/ \E ptr \in Addresses : CallFree(ptr, site)
       \/ \E ptr \in StrayFrees : StrayFree(ptr, site)
       \/ \E ptr \in Addresses, size \in Resized \ {0} :
            \/ ReallocRefused(ptr, size, site)
            \/ \E result \in Addresses : CallRealloc(ptr, size, site, result)

PSpec == PInit /\ [][PNext]_allvars

-----------------------------------------------------------------------------
(* The blocks the profile holds: what it would list as never freed.        *)
Listed ==
  LET entries == {i \in 1 .. Len(blocks) : blocks[i].size # 0}
      entry(a) == CHOOSE i \in entries : blocks[i].address = a
  IN  [a \in {blocks[i].address : i \in entries} |->
         [size |-> blocks[entry(a)].size, func |-> blocks[entry(a)].func]]

(* As long as graprof runs, the profile knows the heap: the blocks it      *)
(* lists are the live ones, with their sizes and the functions that asked  *)
(* for them, wherever realloc has moved them and however often an address  *)
(* was handed out; and the byte counts are the true ones.                  *)
ProfileMatchesHeap ==
  status = "running" =>
    /\ Listed = live
    /\ total_allocated = allocated
    /\ total_freed = freed

(* The maximum is the most bytes that were ever allocated at a time.       *)
MaximumIsPeak == status = "running" => maximum_allocated = peak

(* The failures the profile reports are the calls that failed, in order.   *)
ReportsAreTrue ==
  status = "running" =>
    /\ failed_mallocs = mishaps.mallocs
    /\ failed_reallocs = mishaps.reallocs
    /\ failed_frees = mishaps.frees

(* No event of a program makes graprof itself crash.                       *)
NeverSegfaults == status # "segfault"

(* The profile alone is a heap: every event it processes allocates,        *)
(* releases or resizes one block of it or leaves it as it is.              *)
Profile == INSTANCE Heap WITH
  Sizes <- Asked \cup Resized, Askers <- Function \cup {NoFunction},
  live <- Listed, allocated <- total_allocated, freed <- total_freed,
  peak <- maximum_allocated

ProfileIsHeap == Profile!Spec

=============================================================================
