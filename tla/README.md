# graprof in TLA+

graprof profiles a C program without changing its source. The program (the
*profilee*) is compiled with `-finstrument-functions` and linked to libgraprof,
which records every function entry, function exit and allocator call in a trace
file. graprof then reads the trace and prints a flat profile, a call graph and a
memory profile.

This directory holds TLA+ models of the parts of graprof that keep state, the
configurations that check them with TLC, and TLAPS proofs of what can be proved
for every value of the constants.

## 1. Inventory

### Parts, their state, their operations

| part | source | state | operations |
|---|---|---|---|
| block list | `graprof/blocklist.c` | `blocks`, an array sorted by address; a freed block stays with size 0 | look up, add or recycle, relocate, remove, free at exit |
| memory profile | `graprof/memory.c` | byte totals, call counters, three lists of failures | `memory_malloc`, `memory_realloc`, `memory_free` |
| call tree | `graprof/function.c` | `functions` with callers and callees, the tree of calls, the current node, the root | `function_enter`, `function_exit`, `function_exit_all` with the aggregation of times |
| bitmask | `graprof/bitmask.c` | an array of words | set, get, used while aggregating |
| trace dispatch | `graprof/trace.c` | the total runtime | one handler per packet type, end of trace |
| trace buffer | `common/tracebuffer.c` | `tracebuffer_buffer[1024]`, `tracebuffer_index`, the file | writing: open, header, append, flush, close; reading: header, packets |
| library | `libgraprof/libgraprof.c`, `instrument.c` | `libgraprof_hooked`, one static packet per hook | constructor, destructor, entry hook, exit hook |
| allocator wrappers | `libgraprof/mallhooks.c` | the same flag, their own static packets | `malloc`, `calloc`, `realloc`, `free` |
| timer | `libgraprof/highrestimer.c` | the start time | `highrestimer_get` |
| address translation | `graprof/addr.c` | symbol tables | extract symbols, look up an address |
| command line | `graprof/graprof.c` | options | fork and run the profilee, read the trace, print |
| reports | `graprof/flatprofile.c`, `callgraph.c`, `memprofile.c`, `strtime.c` | none | formatting |
| digest | `common/digest.c` | none | MD5 of an object file |
| traceview | `traceview/*.c` | focus, help, selection and scrolling of the list, function shown, bars | keys, resize handler; not built: its sources are commented out in `Makefile.am:47-56`, its call is below `#if 0` (`graprof.c:105`) |

### How they interact

The two halves meet only in the trace file. On the writing side the hooks, called
from compiled code and from the wrappers, share one flag, one buffer and one index
with whatever interrupts them: signal handlers, other threads, and the allocator
calls of the C library itself. On the reading side everything is sequential:
`trace.c` hands packet after packet to `function.c` and `memory.c`; `memory.c`
asks `function.c` for the current function (and for the comparison that decides
whether a call was direct) and keeps its blocks in `blocklist.c`; the last packet
makes `function.c` close the open calls and aggregate the times. Before the first
packet, `addr.c` has read the symbols of the executable named in the header, and
`function.c` decides by the names it finds whether an address lies in a function.
traceview shows what `function.c` has collected; it is a loop over keys, and shares all its
variables with a signal handler that redraws when the terminal changes its size.

### What is hard here

* A hook can be interrupted between any two statements, also between testing
  `libgraprof_hooked` and clearing it; the interrupting code calls hooks too.
* The buffer has no bounds check: its only protection is that every flush
  resets the index in time.
* `errno` has to survive the hook, including a failed write of the trace.
* A profilee that is killed or exits inside a hook leaves a trace that is cut off.
* The events of a trace are not a well-formed history: calls made inside a hook,
  `memalign`, `mmap`, `longjmp` and a stack that is not empty when the hooks are
  armed leave frees of unknown blocks, known addresses allocated again, exits
  without an entry.
* The block array is sorted, searched, grown, and moved by `realloc` while
  pointers into it are in use; its entries own strings, which move with them.
* All totals and times are unsigned: one subtraction too many wraps around.
* The symbol of a function ends where the next one begins, in an array that has no
  next one at its end, in an order made by a comparison that truncates.
* A terminal may be too small, change its size inside a redraw, and send the bytes
  of a key late or in one piece with those of the next.
* Recursive calls and calls whose caller is unknown must not be counted twice
  when times are summed over the tree.

`PROJECT.json` lists each of these hazards at the line where it bites, with the
properties that cover it.

### What makes each part correct

* *block list*: a lookup finds exactly the live block with the address, after any
  sequence of insertions, relocations and recycled addresses; an owned string is
  freed once.
* *memory profile*: for a real program the listed blocks are the live ones, the
  bytes and the maximum are the true ones, the reported failures are the calls
  that failed; for any trace at all the books balance.
* *call tree*: the path to the current node is the stack of the profilee; calls
  and times are conserved; callers and callees agree; no time is counted twice.
* *library*: what is in the file is what the hooks recorded, in the order of its
  times, well nested, with a complete header; the profilee keeps its errno; the
  hooks always come back on; exit writes everything.
* *address translation*: a name is given to an address only if it is that of the
  function it lies in, and two addresses compare equal only if they lie in one function.
* *traceview*: keys arrive as pressed; no index leaves its array; what is on the screen,
  and what ENTER opens, is what the variables say.
* *trace buffer*: no packet is stored outside the array; a reader gets a beginning of
  one process's trace, wherever it was cut off, and all of it after a normal exit.

## 2. Modules

| module | models | main abstraction |
|---|---|---|
| `Blocklist` | `blocklist.c` as operators on an array | the place where the search ends is *defined*: the number of entries below the address |
| `BinarySearch` | the loop of `blocklist_get_by_address`, one turn a step | nothing but the addresses; `int` is unbounded, an array of 2^30 blocks being out of reach |
| `Memory` | `memory.c` over `Blocklist` | file, line and time of an event are left out; names are the event that duplicated them (`origin`) |
| `Heap` | *abstract*: live blocks, bytes, peak | - |
| `ProfiledHeap` | a program whose allocator is intercepted, its heap and its profile | one event per call, with the result the C library really returned |
| `Tracebuffer` | the writing half of `tracebuffer.c` | the file is a header count, header entries and packets, not bytes |
| `Libgraprof` | `libgraprof.c`, `instrument.c`, `mallhooks.c` over `Tracebuffer` | the four allocator hooks are one kind of hook, since they are built alike |
| `CallTree` | `function.c` | the two child arrays of a node are the nodes naming it as parent; a symbol is a name, not an address range |
| `Bitmask` | `bitmask.c` as operators, used by `CallTree` | a word is the set of its bits |
| `Addr` | `addr.c`, the header handler of `trace.c`, `function_compare` | a symbol is an address and a name; BFD is the set of symbols it returns; file and line are always unknown |
| `TraceviewKeys` | `traceview_keys.c` and the terminal in front of it | the tree of keys is the set of the first parts of all codes |
| `FlatprofileWindow` | the selection and scrolling of `traceview_window_flatprofile.c` as operators, `function_sort` | text, colours, the scrollbar and the width are left out |
| `Traceview` | `traceview.c` and the windows, over the two above | ncurses refuses windows that are empty or do not fit, and nothing else |
| `Session` | `graprof.c`, the reading half of `tracebuffer.c`, `trace.c` | a file is a sequence of cells (magic number, count, entries, packets); a hook is one step |

`MCBinarySearch`, `MCProfiledHeap`, `MCCallTree`, `MCSession` and `MCTraceview` hold the model values and the
enumerations of inputs; the other three modules are checked directly, because their
constants fit in a configuration. The modules whose names end in `_proofs` hold the theorems, each
about the module it is named after (`ProfiledHeap_proofs` also those about `Blocklist` and `Memory`, which
`ProfiledHeap` extends); `Sums` holds what they need to know about sums over
finite sets and about induction on them.

### State and actions against the code

*Memory.* One action is one call of a handler by `trace.c`, from the counter to
the last assignment. `realloc(NULL, n)` and `realloc(p, 0)` go through the parts
`Malloc` and `Free` of the other handlers with the counter taken back
(`memory.c:226-227`, `235-236`). `Report` crashes (`status = "segfault"`) where the code
dereferences the current function without one. The totals are 64 bit and never
come near their limit, so they are integers on which only `Above` compares like
unsigned ones; `int diff` in `memory_realloc` keeps its width (`IntSpan`). The
variable `released` is history: whose strings have been freed.

*CallTree.* The tree is a sequence of nodes in the order in which they are made;
a node's `direct` field tells `children` from `orphans`. `function_exit_all` is one
action, from closing the open nodes to the aggregated function times, because
nothing comes between. The order of the aggregation (children before their
parent) is a fold over the sequence from its end. The set of functions met on the
way down is a bitmask, copied for each child as in the code (`MaskAt`); the bit of a
function is its place in the order of first entries (`FunctionId`).

*Libgraprof.* Each hook is the sequence of its statements (`Steps`) and a
position in it; the local `errnum`, the slot the packet goes into and the time
are kept in the context. A context is a program or one of its signal handlers; a
signal pushes a context on the thread at any statement, and only the topmost runs.
`tracebuffer_append` is three steps (read the index, store and increment, compare
and flush). Filling the static packet and reading the clock is one step: in
between, nothing else touches the packet as long as the hooks are off. With two
threads in the same hook this step is coarser than the code, so the threads of the
model do less harm than real ones, and the violation found there stands. A
handler does not call the allocator, which POSIX forbids. `fwrite` succeeds or
stops after any number of packets. `kill` leaves any beginning of the packets
handed to `fwrite`, since stdio and the kernel have buffers of their own.

*Session.* `tracebuffer_openw` is two steps, `Unlink` and `Open`, between which other
processes may do the same. Every `fopen` begins a file that is named after the process that called it. If the
name still led to a file, because its `unlink` has failed or another process has made it since, that file
has been truncated: whoever writes to it shares the new one (`Sharers`). The contents of a file are followed as long
as it has the name and one writer. What several processes write into one file, each at its own
position, is not: a reader finds any of their headers and anything for packets (`Scrambled`). `kept` and
`overwritten` are history. What a reader finds of a file still being written, and
what a killed process leaves, is any first part of it with its last cell whole or
cut off (`OnDisk`); the header is whole once its count is written, because of the
two `fseek`. A header entry begins with the load address, which is zero for the
program itself and stands where a packet has its type: entries taken for packets
are refused by `trace_handle_packet`, unless they are too short for one packet.
Each of the two passes opens the name anew. If it names another file by then, the
packets are anything as well; and if that is shorter than the offset found in the first pass, the
length wraps (`tracebuffer.c:202`) and the reader runs off the mapping (`Overrun`), as it may when the file is
truncated while it is mapped. `Leave` is an exit with the hooks off, which
includes one from a handler that has interrupted a hook. `Corrupt` may always happen, as an object file
whose digest is to be compared may be gone.

*Addr.* The state is what has been read of the header and the symbol tables made of
it; looking up an address changes nothing and is an operator. `qsort` gives any order that agrees
with the comparison, and any at all if that is not an order (`IsOrder`), which is what the
C standard says. Subtracting addresses wraps at `AddrSpan`, the returned `int` at
`IntSpan`. The header is written by `libgraprof_write_trace_header`: the executable at offset 0, relocated
or not, then a library, at an offset, which `addr_extract_symbols` passes over.

*Traceview.* A key is dispatched in one step, up to the first thing drawn: it changes
the selection or the focus and leaves a sequence of statements (`todo`). Each of them is
a step, and the redraw of the list is one step for each group of statements that share
variables with the handler: the header, the height, the counts, the two scroll
corrections with their comparison, the placing of the window, the test for the array of sorted functions, its
`malloc`, its filling and sorting (`Sort`), the lines. `array` tells whether `sorted_functions` is `NULL`, is published but not
ready, or ready. A handler that finds it not ready draws lines of whatever is there (`Misreads`): it
may crash, or take any function for the focused one, also one behind the array (`Stray`); `misread` is history. `Resize`, the
handler, is one step, since SIGWINCH is blocked while it runs; it can come between any two others and also
interrupts the wait for a key. A redraw in the handler that fails is only warned about; one
outside of it ends traceview, except the one in `switch_focus`, whose result is not
looked at. All variables are unsigned and wrap at `Word`; the casts to `int` in the key
handlers are `AsInt`. `rows` is the height of the window that is being filled, which the handler may
change. What the handler does while `traceview_init` runs is taken to be the call of a redraw that is still NULL;
once the windows are registered there, it is a resize just before.

*TraceviewKeys.* Bytes arrive after their key was pressed, and the reader that has got
an ESC may find nothing behind it (`ReadNothing`), or the bytes of the next key. `garbled` and
`meant` are history: whether the bytes on the line can still be told apart as
pressed, and which key the one just returned should be.

*ProfiledHeap.* The program is single-threaded and calls the allocator only where the
hooks are on, so that each call leaves one event; what a trace with holes does to
the profile is checked in `Memory`, where events are arbitrary.

## 3. Runs

All passing runs were made with the bounds in the `.cfg` files.

| run | checks | size | shows |
|---|---|---|---|
| `BinarySearch` | `TypeOK` `SearchIsCorrect` `SearchEnds` | every sorted array over 1..6, addresses 0..7 | the loop stays in the array, ends, and answers with the position `Blocklist` defines |
| `Memory` | `TypeOK` `SortedBlocks` `BooksBalance` `CoveredByCurrent` `OwnedOnce` | 4 events, 2 addresses, sizes 0, 1, 3 | the books balance for any events, possible or not |
| `ProfiledHeap` | `ProfileMatchesHeap` `MaximumIsPeak` `ReportsAreTrue` `ProfileIsHeap` | 4 calls, 3 addresses, 3 sites | the profile knows the heap and implements `Heap` |
| `Libgraprof` | `TypeOK` `NothingLost` `TraceReadable` `ErrnoKept` `ExitCloses` `OverrunOnlyAfterFailure` `HooksRearmed` | 1 thread, 1 signal at any statement, 3 hooked calls, a buffer of 2 | one interrupted hook after another still gives a faithful trace |
| `CallTree` | `TypeOK` `PathIsStack` `CallsConserved` `PairsAgree` `IntervalsNested` `TimesConserved` `PairTimesAddUpOtherwise` `CrashesOnlyIfSkewed` | 5 events, 2 functions, durations 1 and 4, words of one bit | calls and times are conserved, recursion and unknown callers included |
| `Session` | `TypeOK` `OneTrace` `EarlierOnlyIfUntraced` `CompleteIfExited` | a profilee with 2 object files and 3 packets, two programs started by it with 1 and 2, a buffer of 2 | what is presented is a beginning of one process's trace, outside of the stated exceptions, and all of it after a normal exit |
| `Addr` | `NamesTheEnclosing` `ComparesFunctions` `CrashesOnFunctionLast` | every table of up to 4 symbols at 5 addresses of 16, an `int` of 8 values, 2 load addresses | whatever the order of equal symbols, an address is given the name of its function or none |
| `Traceview` | `TypeOK` `KeysAsPressed` `IndexesInArray` `FocusShown` `ScreenIsState` `StopsOnlyIf` | 12 keys and an unknown one, 3 heights, 0 or 2 functions, sorted before or not | keys and resizes in any order keep selection, screen and variables together, outside of the stated exceptions |
| `ZeroSize` | `ReportsAreTrue`, violated | as `ProfiledHeap`, with `malloc(0)` | finding 1 |
| `NoCurrentFunction` | `NeverSegfaults`, violated | as `ProfiledHeap` | finding 2 |
| `FailedFlush` | `NoOverrun`, violated | no signals | finding 3 |
| `SharedCallee` | `PairTimesAddUp`, violated | one duration | finding 4 |

### Why the bounds are enough

* `BinarySearch`: arrays of 0 to 6 entries have windows of every parity on both
  sides, and the loop looks at no more than three entries of any of them. The
  theorems drop the bound.
* `Memory`: two addresses suffice to insert before and after an entry, relocate in
  both directions and onto an entry freed before. Four events suffice to
  allocate two, move one onto the other and free it.
* `ProfiledHeap`: three addresses let a block move between two others.
* `Libgraprof`: with a buffer of two, three calls and a signal, one run has an entry
  with its exit, a full buffer, a buffer filled by the handler alone, a flush
  inside the handler, and a flush at exit of a part of the buffer.
  `MaxSignals = 1` gives every pair of a hook and a statement it is interrupted at; a
  second handler on top of the first would find the hooks in a state the first
  one could find them in.
* `Session`: two object files let the header be cut off before, between and behind
  entries, three packets with a buffer of two make one flush and a rest. Two programs are started,
  since two are needed to interleave `unlink` and `fopen` without the profilee, and to have one file with two writers while
  a third has its own; they are alike, so that the run takes them as symmetric, which is sound for invariants. They record one packet less than the
  profilee, so that they flush but have no rest, which the profilee has.
* `CallTree`: five events reach direct and mutual recursion of depth five, two siblings
  with their exits, and a function that is both child and orphan of one parent. Two
  distances (1 and 4) make the sums of different parts of the tree differ. With
  `FIELDWIDTH = 1` the second function has its bit in a second word.
* `Addr`: four symbols make a function between two others, one that shares its address, an
  undefined one at 0 and a last one. The addresses are 1, 2 and 3, where a function can be a
  single place, and 6, which is too far from 0 and 1 for an `int` of 8 values (`Near` excludes tables that
  hold both). An executable loaded at 8 lies behind all of its symbols.
* `Traceview`: in 2 lines nothing fits, in 11 the window of the list fits but holds no line of it, and in 12 it holds one, so that a focus
  on the second function has to scroll; larger terminals are left to the theorems. `Stray = {2}` is the first place behind the two functions. The reader
  of keys does not depend on what the handler has drawn, so that after lines were misread keys come one at a time
  (`AheadOnceMisread = FALSE`), which saves states. Both functions have the same time and are
  listed by name, against their order in the array. `Word = 256` is far beyond all values,
  so that wrapping is told from small numbers. `MaxAhead` lets a key be
  pressed while one byte is unread. `MaxLost` stops pressing keys once the focus,
  lost as below, has moved more than one place before the list: it would be moved through the
  whole range of an `int`.

The deadlock check is off in all runs: a trace ends, a search ends, a program
exits.

### Fairness

`BinarySearch` has weak fairness of its step: a loop that calls nothing keeps running.
`Libgraprof` has, for each thread, weak fairness of the next statement of a hook
(nothing in a hook waits for anything; `fwrite` to a file returns) and of a handler
returning from its functions and then itself. It assumes nothing of the program, which
may stop calling anything, nor of signals. `HooksRearmed` needs both: a handler that never
returned would keep the interrupted hook, and with it all the hooks, off. The other
modules have no liveness.

### Findings

1. `memory.c:189` records `malloc(0)` as a block of size 0, which is how
   `blocklist.c` marks a freed one. Its `free` is reported as "double free or
   invalid ptr".
2. `memory.c:80`, `125` and `162`: a failed call reads the file and line of the
   current function even where there is none, and graprof crashes. The reports
   have a text for this case ("last parent unknown") that no failed call ever gets.
3. `tracebuffer.c:101-103`: a short `fwrite` leaves the index at `BUFSIZE`; the next
   packet goes past the end of the array, and the test for `BUFSIZE` never holds again.
4. `function.c:211`: the time of a call whose caller is `<spontaneous>` goes to the
   pair of the function above it, if that pair exists.

More disagreements, without runs of their own. README 5.2 and 5.3 say that the trace is kept in
memory and written at clean termination; the code writes it every 1024 packets. And
a profilee that calls `exit` from a signal handler that has interrupted a hook ends
with the hooks off, so `libgraprof_fini` writes nothing: `ExitCloses` says that
this is the only case. The manual (`docs/graprof.1:69`) has the option `-t` to "reuse
older tracefiles", but a session without it presents an older trace just as well, if the
program cannot be executed, is not instrumented, cannot open its trace or is killed before it does
(`EarlierOnlyIfUntraced` says that it happens in no other case). A
profilee that starts another instrumented program loses its trace to that program,
whose profile is presented instead.

* Two programs that the profilee starts at once may both be behind `unlink` (`tracebuffer.c:46`) before
  either opens the name; the second `fopen` then truncates the file of the first, both write to it, and what
  graprof presents is neither's trace. The file of the profilee itself is in danger only if an `unlink` fails, whose result is
  not looked at (`OneTrace` says so).
* A program that outlives the profilee can put another file in place between the two passes of the
  reader. The offset found in the first may lie behind its end: the length wraps at `tracebuffer.c:202`,
  and graprof reads behind the mapping (`Overrun`).
* `memory.c:252`: the difference of two `size_t` goes through an `int`; with
  `IntSpan = 4`, `MaximumIsPeak` does not hold in `ProfiledHeap`, while README:279 promises the maximum.
* `NEWS:18` speaks of fixed crashes on concurrent access; with two threads and `BUFSIZE = 1`,
  `OverrunOnlyAfterFailure` does not hold in `Libgraprof`. README 5.4 promises nothing.
* The executable is in the header with offset 0 wherever it was loaded
  (`libgraprof.c:67`), so that all functions of a position independent executable are named
  "??", and each is taken for any other (`NamesTheEnclosing` and `ComparesFunctions` allow for both).
* A function that is the last symbol makes `addr.c:101` read the pointer behind the array
  (`CrashesOnFunctionLast`); addresses more than an `int` apart can be sorted wrongly.
* PAGE DOWN in a terminal of ten lines or fewer, where the list has less than no line,
  moves the focus out of the list (`cramped` in `IndexesInArray`), and only ARROW keys bring it back.
* A resize before `traceview_init` is through calls a redraw that is NULL; the call graph of a trace
  without functions reads `functions[0]`; a resize while the first redraw of the list sorts the functions finds
  `sorted_functions` published by `function.c:281` before it is filled, and the handler may crash on a pointer `malloc` has left
  there, or make ENTER lead outside the array; a resize inside a redraw may make it fail, and
  traceview with it. `StopsOnlyIf` says that these are the only cases, of those the model has: `malloc` does not fail there, and
  ncurses itself, whose functions the handler calls from anywhere, is taken to stand it.
* `function.h:152` and README:249 have the functions sorted by total runtime; `cmpfunction` (`function.c:264-276`) sorts by self time,
  as `flatprofile.c:101` says.
* An unknown code is read as its parts: F2 of an xterm, ESC O Q, is an unknown key and then
  `Q`, which quits.

## 4. Proofs

All proofs are checked by tlapm 1.4.5 with Z3, Zenon and LS4. The theorems hold for
every value of the constants that satisfies the named assumptions of their modules.

* **The search loop** (`BinarySearch_proofs`), from `ArraysAreSorted`: any sorted
  array. `Window` (what was cut off cannot have the address) is inductive only
  together with the types (the run checks only its consequences, `TypeOK` and
  `SearchIsCorrect`); `Inv` adds what `found` and `absent` stand for when the
  loop is over. `SpecSearchIsCorrect` and `SpecWindowShrinks` follow.
* **The array** (`ProfiledHeap_proofs`): the position exists in every sorted array,
  insertion there keeps it sorted, overwriting an entry with the same address keeps
  it sorted, and the entry returned by `blocklist_add` has the address asked for.
  The position is the least number such that no entry behind it lies below the
  address; it exists because every set of naturals has a least element, which takes
  the place of an induction over the array.
* **The memory profile** (`ProfiledHeap_proofs` too): `Inv` is `TypeOK`, `SortedBlocks`
  and `BooksBalance` together. `SortedBlocks` is what carries the others: without it a
  lookup is a `CHOOSE` from nothing. The two relayed calls of `memory_realloc` are why the
  lemmas `MallocBooks` and `FreeBooks` speak of the parts behind the counters. The
  proof is independent of `IntSpan`: the books balance even when a truncated
  difference makes them wrong. `OwnedOnce` needs that origins are events already
  past, so that the next one is new. `CoveredByCurrent` has the hypothesis `SmallSizes` (a size
  is below `IntSpan`, which is 2 GiB in the code), without which it is false:
  the bytes of the listed blocks are a sum over the array, and each event changes one entry of it.
* **Sums** (`Sums`): `SetInduction` is induction over the subsets of a finite set; from it follow that
  the recursive function behind `MapThenSumSet` exists, whatever element it takes first, and how a sum changes
  with its set and with one of its terms; that it can be taken over the classes of a partition (`SumPartition`); and
  that intervals which do not overlap fit into one as long as all of them (`IntervalsFit`). The path from a
  node to the root in `CallTree`, the fold of the aggregation and its bitmask are recursive functions too,
  and are handled alike.
* **The profile of a heap** (`ProfiledHeap_proofs` too): `ProgramIsTrace` carries over what holds for
  any trace. The invariant says that the entries with a size are the live blocks with
  size and caller (`Agree`), that their bytes are those of the heap, and that the maximum is the
  peak. `Honest` is the hypothesis of the theorems: `SmallSizes`; no request of zero bytes, which finding 1 is
  about; and no `free(NULL)`, which `memory_free` counts as failed.
  `SpecProfileIsHeap` is the refinement of `Heap`, event by event. `SpecNeverSegfaults` needs another
  hypothesis, that every call comes from below an instrumented function: finding 2 is that without
  it graprof crashes.
* **The library** (`Libgraprof_proofs`): the types (`TypeInv`) hold for any number of threads. The rest is
  for one thread (`OneThread`) with any nesting of signal handlers, and is false for two (section 3). `ThreadInv`
  says what stands in the buffer for each statement the interrupted hooks may have stopped at: at most one
  context is past `Check` with the hooks off, all above it find them off; `NestInv` says that the functions entered
  and not yet left in the recorded packets are those of the contexts from the bottom up.
* **The call tree** (`CallTree_proofs`): `SpecPairsAgree`. Agreement needs that callers
  and callees are in the array (`Closed`), that entries are records (`Shaped`), and
  that the current node names a known function (`GoodTree`), which needs that a
  parent comes before its children. Aggregation keeps agreement because both sides
  take their times from the same nodes. `SpecCallsConserved` is a sum of which every entry
  changes one term, on the side of the function and on the side of its callers. `SpecPathIsStack`
  rests on `Chain`, a path in which each node is followed by a child of it: there is
  one such path to each node, and it is what `PathTo` computes (`PathOfChain`).
* **The times of the call tree** (`CallTree_proofs` too): `IntervalsNested` is not inductive, as it speaks of the
  end. `TimesInv` says what holds while the trace is read (`Ordered`): every node off the path has been left
  within its parent's interval, and before whatever was entered later and is not below it; leaving all of the path at once makes
  that `Nested`. The aggregation is a fold from the last node to the first, taken one node at a time by `SettleOne` and
  `SettledMore`: what a settled node holds is its duration (`SettledFrom`), and
  its self time is not below zero (`Spent`), because the calls it made lie within it and do not overlap, and so fit. That is
  what `SpecTypeOK` needs. `SpecTimesConserved` has three parts.
  The functions are told what their nodes hold (`Totals`), the
  functions partition the nodes, and the self times of all nodes telescope to the durations of the top level.
  Nodes of which none lies below another do not overlap either (`ApartFits`), hence no function has more time than the run.
  And those counted for a function are such nodes (`OutermostFacts`): the ids given in the order of first calls
  differ, and setting and getting a bit of the bitmask is adding to and looking in a set, whatever the
  width of a word (`SetBit`).
* **Callers and callees in time** (`CallTree_proofs` too): for `PairTimesAddUpOtherwise` it has to be known which
  callees a function has: those it has called at a direct node of the tree (`Recorded`), and they are told what
  their nodes right below those of the function hold (`PairTotals`). Both sides of the
  equation are the times of the direct calls made by the nodes of the function: its children time when
  they are taken caller by caller (`ChildrenTimeOfCalls`), the callees when they are taken function by function
  (`CalleesTimeOfCalls`). The second needs that no node of a callee below the function is an orphan, which
  `~CalledBothWays` says; finding 4 is what happens otherwise.
* **The session** (`Session_proofs`): `Files` says of the file of each process what may stand at each place of
  it (`File`) and where it may be cut (`CutFile`), depending on how far its
  writer has come (`Writer`, `Held`), as long as it has no other. `Alone` says that nobody writes an older trace, `HeaderRead` and `Mapping` what
  the two passes know of the file they have opened, `Handling` that the packets handled are the
  beginning of those of one process. `Private` says who may share a file: a process that comes to `fopen` while the profilee has the
  name has either removed that name first or failed to (`kept`), so that the profilee is among the sharers of no file
  but a `kept` one; and as nobody else runs once graprof reads unless it has outlived the profilee, a name
  that changes under the reader, or a truncated file, means that one has. That a header can be told from packets rests on the count in front of it
  being the number of its entries (`OneCount`).
* **Address translation** (`Addr_proofs`): `Inv` says that what was read is at most one table, made of the
  symbols of the executable in some order of `qsort`, and when reading has crashed. If the differences fit (`Near`), the
  comparison is an order, so that the order of `qsort` is ascending and has each symbol once
  (`qsortFacts`, by counting). A function that is kept has a symbol behind it (`KeptFacts`), the bounds of the table
  are those of its first and last one (`TableFacts`), and what is found around an address are the functions between
  which and the next symbol it lies (`FoundFacts`). The closest symbol of a place is then the last of the order
  that is not behind it. A relocated executable lies below all its places, and none has a name.
* **The interface** (`Traceview_proofs`): the properties speak of the moment in which traceview waits for a key. What
  holds then depends on what was planned when the last key was dispatched, on how far the plan (`todo`) and within it the
  redraw (`step`) have come, and on the resizes in between. `Plans` lists the plans there are and `Plan` says
  which points of them can be reached; `Indexes` keeps the selection in the list, with the counts and the target that
  the next steps compare it with; `Settled` and `Progress` say what each group of statements of a redraw has
  established if no resize has undone it; `Sorting` ties the array to the statement
  that is filling it, so that no redraw outside of the handler draws lines of one that is not ready; `Bars` and `Screen` what the drawn parts show. Together they are
  inductive, at each statement, with each wrap at `Word`: the differences that wrap in a small terminal are
  negative again as an `int` (`Wraps`, `Casts`). That the list is a permutation of the functions follows from
  `cmpfunction` being a strict order, by counting the functions before each.
* **The keys** (`Traceview_proofs` too): the bytes on the line behind the node reached are the codes of the keys pressed
  and not yet dispatched (`Readable`), unless they are `garbled`. A reader that follows the tree then takes just the code of the next
  key, because no code is the beginning of another (`KeyTableAssumption`), and because a lone ESC can be told from the
  beginning of another code only as the last byte (`Lone`).

The constants are assumed to be what the code makes them: addresses and sizes are naturals, `NULL` is not
an address, bounds are naturals, a stray `free` is of an address, the object files are numbered from 1,
an executable is loaded at its own addresses or behind all of them, the number of functions and the height of a terminal
fit in an `int`, and `NameRank` tells any two functions apart (equal names by the order `qsort` leaves them in).

Only model-checked: liveness (`SearchEnds`, `HooksRearmed`), which is out of the
prover's reach. Every invariant of a passing run is a theorem.

## 5. Not modelled

* Formatting, translation of units, options: no state.
* What several programs write into one file, byte by byte (`Session` says only that it may be read as
  anything), and writers of a file that has lost its name.
* A profilee that forks without `exec`: both processes hold the buffered packets.
* `digest.c`: MD5 from a library; only a warning depends on it.
* traceview: the scroll variables of the call graph window, which are computed and
  draw nothing; the scrollbar; terminals too narrow; the handler of SIGWINCH after
  `traceview_fini`, where it draws on a screen that is no longer there.
* The BFD library: the symbols it returns are the input of `Addr`.
* Failed allocations inside graprof itself, that of `function_sort` included: each ends in `feedback_assert` or in the
  error path that ends the program.
* The two back ends of the timer: a monotonic clock is assumed.

## 6. Plan

Order, the most important behaviour first:

1. *done* `Blocklist`, `BinarySearch`: what everything in the memory profile rests on.
2. *done* `Memory`, `Heap`, `ProfiledHeap`: the profile of any trace; the profile of a
   real heap, refining the abstract one.
3. *done* `Tracebuffer`, `Libgraprof`: the recorder under signals, failures and threads.
4. *done* `CallTree`: stack, counts and times.
5. *done* `Session`: what graprof reads after the profilee was killed at any moment,
   could not be started, left an older trace behind or started another program.
6. *done* `Bitmask`, `Addr`: the pure parts that the call tree rests on.
7. *done* `TraceviewKeys`, `FlatprofileWindow`, `Traceview`: the interface under resizes.
8. `CallTree` with a trace whose events also come from the allocator; `Strtime`.
