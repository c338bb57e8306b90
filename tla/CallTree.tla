------------------------------ MODULE CallTree ------------------------------
(***************************************************************************)
(* The call tree and the function profiles that graprof/function.c builds  *)
(* from the entry and exit events of a trace.                              *)
(*                                                                         *)
(* The array of functions is a function on the addresses seen so far, the  *)
(* callers and callees of each are functions on its neighbours: all three  *)
(* are searched for an entry before one is added.  The tree is a sequence  *)
(* of nodes in the order of their creation; node 1 is call_tree_root, and  *)
(* node 0 stands for NULL.  The two child arrays of a node are the nodes   *)
(* that name it as parent, with direct telling them apart.                 *)
(***************************************************************************)
EXTENDS Integers, SequencesExt, Bitmask

CONSTANTS
  Function,     (* the instrumented functions, by address                  *)
  Symbols,      (* what addr_translate can answer                          *)
  Symbol,       (* the name of each function                               *)
  Spontaneous,  (* function_id -1: the root of the tree, an unknown caller *)
  Durations,    (* the times that may pass between two events              *)
  MaxEvents     (* bound: the number of entry and exit events              *)

ASSUME FunctionAssumption == Spontaneous \notin Function
ASSUME SymbolAssumption == Symbol \in [Function -> Symbols]
ASSUME DurationsAssumption == Durations \subseteq Nat
ASSUME MaxEventsAssumption == MaxEvents \in Nat

VARIABLES
  functions, total_calls, call_tree, call_tree_current_node,
  clock,        (* the time of the last event                              *)
  nevents,
  entered,      (* history: the functions entered and not yet left         *)
  skewed,       (* history: an exit came when none was left                *)
  status        (* "reading", "done" or "segfault"                         *)

vars == <<functions, total_calls, call_tree, call_tree_current_node, clock, nevents,
          entered, skewed, status>>

ROOT == 1
NULL == 0

-----------------------------------------------------------------------------
(* struct tree_entry, struct call_data and struct function.                *)
NewNode(func, time, parent, direct) ==
  [function |-> func, parent |-> parent, direct |-> direct,
   entry_time |-> time, exit_time |-> 0,
   self_time |-> 0, children_time |-> 0, orphan_time |-> 0]

NoCalls == [calls |-> 0, self_time |-> 0, children_time |-> 0]

NewFunction ==
  [calls |-> 0, self_time |-> 0, children_time |-> 0,
   callers |-> [c \in {} |-> NoCalls], callees |-> [c \in {} |-> NoCalls],
   primaries |-> {}, secondaries |-> {}]

Init ==
  /\ functions = [f \in {} |-> NewFunction]
  /\ total_calls = 0
  /\ call_tree = <<NewNode(Spontaneous, 0, NULL, FALSE)>>
  /\ call_tree_current_node = ROOT
  /\ clock = 0
  /\ nevents = 0
  /\ entered = <<>>
  /\ skewed = FALSE
  /\ status = "reading"

Current == call_tree[call_tree_current_node]

(* Looking up a function may find none yet; function_push adds it.         *)
Known(fs, f) == [g \in DOMAIN fs \cup {f} |-> IF g \in DOMAIN fs THEN fs[g] ELSE NewFunction]

(* function_add_caller and function_add_callee: one more call between the  *)
(* function and that neighbour.                                            *)
OnlyFirstCall(neighbours, n) ==
  [m \in DOMAIN neighbours \cup {n} |->
     IF m \in DOMAIN neighbours THEN neighbours[m] ELSE [NoCalls EXCEPT !.calls = 1]]

OneMoreCall(neighbours, n) ==
  [m \in DOMAIN neighbours \cup {n} |->
     LET old == IF m \in DOMAIN neighbours THEN neighbours[m] ELSE NoCalls
     IN  IF m = n THEN [old EXCEPT !.calls = @ + 1] ELSE old]

(* The caller is the function on top of the stack if the address of the    *)
(* call lies in a symbol of its name.                                      *)
IsDirect(symbol) ==
  Current.parent # NULL /\ Symbol[Current.function] = symbol

Caller(symbol) == IF IsDirect(symbol) THEN Current.function ELSE Spontaneous

(* A call counts for the function and its caller, and, if that is known,   *)
(* for the caller and this callee of it.                                   *)
CountCaller(fs, f, c) ==
  [Known(fs, f) EXCEPT ![f].calls = @ + 1, ![f].callers = OneMoreCall(@, c)]

CountNoCallee(fs, f, c) == fs

CountCallee(fs, f, c) ==
  IF c = Spontaneous THEN fs ELSE [fs EXCEPT ![c].callees = OneMoreCall(@, f)]

(* The time of the next event.                                             *)
Tick == \E d \in Durations : clock' = clock + d

NextEvent == status = "reading" /\ nevents < MaxEvents /\ nevents' = nevents + 1

-----------------------------------------------------------------------------
function_enter(f, symbol) ==
  /\ NextEvent
  /\ call_tree_current_node # NULL
  /\ Tick
  /\ total_calls' = total_calls + 1
  /\ functions' = CountCallee(CountCaller(functions, f, Caller(symbol)), f, Caller(symbol))
  /\ call_tree' =
       Append(call_tree, NewNode(f, clock', call_tree_current_node, IsDirect(symbol)))
  /\ call_tree_current_node' = Len(call_tree')
  /\ entered' = Append(entered, f)
  /\ UNCHANGED <<skewed, status>>

(* A node is left, and the one above it is current again.                  *)
ParentLeft(n, time) ==
  IF call_tree[n].parent = NULL THEN call_tree
  ELSE [call_tree EXCEPT ![call_tree[n].parent].exit_time = time]

Left(n, time) == [call_tree EXCEPT ![n].exit_time = time]

RootAbove(n) == IF n = ROOT THEN NULL ELSE ROOT
Above(n) == call_tree[n].parent

(* An exit on an empty stack is warned about and leaves no current node.   *)
function_exit ==
  /\ NextEvent
  /\ call_tree_current_node # NULL
  /\ Tick
  /\ call_tree' = Left(call_tree_current_node, clock')
  /\ call_tree_current_node' = Above(call_tree_current_node)
  /\ entered' = IF entered = <<>> THEN <<>> ELSE Front(entered)
  /\ skewed' = (skewed \/ entered = <<>>)
  /\ UNCHANGED <<functions, total_calls, status>>

(* Every handler dereferences the current node first.                      *)
Dereference ==
  /\ status = "reading"
  /\ call_tree_current_node = NULL
  /\ status' = "segfault"
  /\ UNCHANGED <<functions, total_calls, call_tree, call_tree_current_node, clock, nevents,
                 entered, skewed>>

-----------------------------------------------------------------------------
(* The end of the trace: the nodes on the stack are left at the time of    *)
(* the last event, which may have been one of the allocator's.             *)
PathTo(tree, node) ==
  LET path[n \in 0 .. Len(tree)] ==
        IF n = NULL THEN <<>> ELSE Append(path[tree[n].parent], n)
  IN  path[node]

OpenNodes == ToSet(Tail(PathTo(call_tree, call_tree_current_node)))

TopLeft(time) ==
  [call_tree EXCEPT ![call_tree_current_node].exit_time = time]

AllLeft(time) ==
  [n \in DOMAIN call_tree |->
     IF n \in OpenNodes THEN [call_tree[n] EXCEPT !.exit_time = time] ELSE call_tree[n]]

(* function_aggregate_call_tree_node_times, from the leaves to the root: a *)
(* node that has the times of everything below it settles its self time    *)
(* and passes all of them on to its parent.                                *)
Below(tree, n, direct) == {m \in DOMAIN tree : tree[m].parent = n /\ tree[m].direct = direct}

SettledKeepingOrphans(node) ==
  [node EXCEPT !.self_time = node.exit_time - node.entry_time - node.children_time]

Settled(node) ==
  [node EXCEPT !.self_time =
     node.exit_time - node.entry_time - node.children_time - node.orphan_time]

PassedOnAlike(parent, node) ==
  [parent EXCEPT !.children_time = @ + node.self_time + node.children_time,
                 !.orphan_time = @ + node.orphan_time]

PassedOn(parent, node) ==
  LET own == node.self_time + node.children_time
  IN  IF node.direct
      THEN [parent EXCEPT !.children_time = @ + own, !.orphan_time = @ + node.orphan_time]
      ELSE [parent EXCEPT !.orphan_time = @ + own + node.orphan_time]

SettleNode(n, tree) ==
  LET node == Settled(tree[n])
  IN  [m \in DOMAIN tree |->
         CASE m = n           -> node
           [] m = node.parent -> PassedOn(tree[m], node)
           [] OTHER           -> tree[m]]

WithTimes(tree) == FoldRight(SettleNode, [n \in DOMAIN tree |-> n], tree)

(* The id of a function is its place in the array of functions, which are  *)
(* in the order in which they were first entered.                          *)
NodesOf(tree, f) == {n \in DOMAIN tree : tree[n].function = f}

FunctionId(tree, f) ==
  LET first == Min(NodesOf(tree, f))
  IN  Cardinality({tree[n].function : n \in ROOT + 1 .. first - 1})

(* function_create_call_vector_from_node goes down the tree with a bitmask *)
(* of the functions met on the way, and each branch with a copy of its     *)
(* own: only the outermost call of a function is primary.                  *)
MaskAt(tree, n) ==
  LET mask[m \in 1 .. n] ==
        LET above == tree[m].parent
        IN  IF m = ROOT \/ above = ROOT
            THEN bitmask_create(Cardinality({tree[k].function : k \in ROOT + 1 .. Len(tree)}))
            ELSE bitmask_set(mask[above], FunctionId(tree, tree[above].function))
  IN  mask[n]

OutermostAlways(tree, n) == TRUE
Outermost(tree, n) ==
  ~bitmask_get(MaskAt(tree, n), FunctionId(tree, tree[n].function))

Total(tree, nodes) ==
  LET primary == {n \in nodes : Outermost(tree, n)}
  IN  [self_time     |-> MapThenSumSet(LAMBDA n : tree[n].self_time, nodes),
       children_time |-> MapThenSumSet(LAMBDA n : tree[n].children_time, primary)]

(* The times of a caller-callee pair: of all nodes of f right below a node *)
(* of c, if the pair is recorded at all.  Nothing goes to an unknown       *)
(* caller.                                                                 *)
PairNodes(tree, c, f) == {n \in NodesOf(tree, f) : tree[tree[n].parent].function = c}

WithPairTimes(tree, call, c, f) ==
  LET total == Total(tree, PairNodes(tree, c, f))
  IN  IF c = Spontaneous THEN call
      ELSE [calls |-> call.calls, self_time |-> total.self_time,
            children_time |-> total.children_time]

Aggregated(tree) ==
  [f \in DOMAIN functions |->
     LET nodes == NodesOf(tree, f)
         total == Total(tree, nodes)
         fn    == functions[f]
     IN  [calls |-> fn.calls,
          self_time |-> total.self_time,
          children_time |-> total.children_time,
          callers |-> [c \in DOMAIN fn.callers |-> WithPairTimes(tree, fn.callers[c], c, f)],
          callees |-> [g \in DOMAIN fn.callees |-> WithPairTimes(tree, fn.callees[g], f, g)],
          primaries |-> {n \in nodes : Outermost(tree, n)},
          secondaries |-> {n \in nodes : ~Outermost(tree, n)}]]

function_exit_all ==
  /\ status = "reading"
  /\ call_tree_current_node # NULL
  /\ \E d \in Durations \cup {0} : clock' = clock + d
  /\ call_tree' = WithTimes(AllLeft(clock'))
  /\ functions' = Aggregated(call_tree')
  /\ call_tree_current_node' = ROOT
  /\ status' = "done"
  /\ UNCHANGED <<total_calls, nevents, entered, skewed>>

Next ==
  \/ \E f \in Function, symbol \in Symbols : function_enter(f, symbol)
  \/ function_exit
  \/ function_exit_all
  \/ Dereference

Spec == Init /\ [][Next]_vars

-----------------------------------------------------------------------------
Node ==
  [function : Function \cup {Spontaneous}, parent : Nat, direct : BOOLEAN,
   entry_time : Nat, exit_time : Nat,
   self_time : Int, children_time : Int, orphan_time : Int]

Call == [calls : Nat, self_time : Int, children_time : Int]

(* Types; no time, all of them unsigned in the code, has dropped below     *)
(* zero; and a node's parent was made before the node.                     *)
TypeOK ==
  /\ call_tree \in Seq(Node)
  /\ \A n \in DOMAIN call_tree :
       /\ call_tree[n].parent < n
       /\ n # ROOT => call_tree[n].self_time >= 0 /\ call_tree[n].parent # NULL
  /\ call_tree_current_node \in 0 .. Len(call_tree)
  /\ DOMAIN functions \subseteq Function
  /\ \A f \in DOMAIN functions :
       /\ functions[f].calls \in Nat \ {0}
       /\ DOMAIN functions[f].callers \subseteq Function \cup {Spontaneous}
       /\ \A c \in DOMAIN functions[f].callers : functions[f].callers[c] \in Call
       /\ DOMAIN functions[f].callees \subseteq Function
       /\ \A g \in DOMAIN functions[f].callees : functions[f].callees[g] \in Call
  /\ total_calls \in Nat /\ clock \in Nat /\ nevents \in 0 .. MaxEvents
  /\ entered \in Seq(Function) /\ skewed \in BOOLEAN
  /\ status \in {"reading", "done", "segfault"}

(* The path from the root to the current node spells the functions entered *)
(* and not left, so that the function blamed for an allocation is the one  *)
(* the profilee was in.                                                    *)
PathIsStack ==
  status = "reading" /\ ~skewed =>
    LET path == PathTo(call_tree, call_tree_current_node)
    IN  entered = [k \in 1 .. Len(path) - 1 |-> call_tree[path[k + 1]].function]

(* The calls of a function are the calls made by its callers, and those of *)
(* all functions are the calls of the trace.                               *)
CallsConserved ==
  /\ total_calls = MapThenSumSet(LAMBDA f : functions[f].calls, DOMAIN functions)
  /\ \A f \in DOMAIN functions :
       functions[f].calls =
         MapThenSumSet(LAMBDA c : functions[f].callers[c].calls, DOMAIN functions[f].callers)

(* What a function says of a callee the callee says of that caller: the    *)
(* same number of calls and the same times.                                *)
PairsAgree ==
  \A c \in DOMAIN functions, f \in DOMAIN functions :
    /\ f \in DOMAIN functions[c].callees <=> c \in DOMAIN functions[f].callers
    /\ f \in DOMAIN functions[c].callees =>
         functions[c].callees[f] = functions[f].callers[c]

(* The intervals of a node's children and orphans lie within its own and   *)
(* do not overlap, on which all subtractions of times rest.                *)
IntervalsNested ==
  status = "done" =>
    \A m, n \in DOMAIN call_tree \ {ROOT} :
      LET inner == call_tree[m]
          outer == call_tree[n]
      IN  /\ inner.entry_time <= inner.exit_time
          /\ inner.parent = n =>
               outer.entry_time <= inner.entry_time /\ inner.exit_time <= outer.exit_time
          /\ inner.parent = outer.parent /\ m < n => inner.exit_time <= outer.entry_time

TopLevel == Below(call_tree, ROOT, FALSE)

(* No nanosecond is lost or counted twice: the self times of all functions *)
(* add up to the time during which an instrumented function was running.   *)
RuntimeAccounted ==
  MapThenSumSet(LAMBDA f : functions[f].self_time, DOMAIN functions)
    = MapThenSumSet(LAMBDA n : call_tree[n].exit_time - call_tree[n].entry_time, TopLevel)

(* No function has taken more time, in itself or in its descendants, than  *)
(* the whole run, recursive calls or not.                                  *)
WithinRuntime ==
  \A f \in DOMAIN functions :
    functions[f].self_time <= clock /\ functions[f].children_time <= clock

(* The descendants of a function are counted for just those of its calls   *)
(* that have no other call of the function around them, however the array  *)
(* of bits is divided into words.                                          *)
CountedOnce ==
  \A f \in DOMAIN functions :
    functions[f].primaries =
      {n \in NodesOf(call_tree, f) :
         f \notin {call_tree[m].function : m \in ToSet(Front(PathTo(call_tree, n)))}}

(* All three, when the whole trace has been read.                          *)
TimesConserved == status = "done" => RuntimeAccounted /\ WithinRuntime /\ CountedOnce

(* The times of a function's callees add up to its children time, unless a *)
(* function calls itself or one is also called from below without the      *)
(* caller being known.                                                     *)
PairTimesAddUp ==
  \A c \in DOMAIN functions :
    status = "done" /\ (\A f \in DOMAIN functions : functions[f].secondaries = {}) =>
      MapThenSumSet(LAMBDA f : functions[c].callees[f].self_time
                               + functions[c].callees[f].children_time,
                    DOMAIN functions[c].callees)
        = functions[c].children_time

CalledBothWays ==
  \E m, n \in DOMAIN call_tree \ {ROOT} :
    /\ call_tree[m].function = call_tree[n].function
    /\ call_tree[m].direct /\ ~call_tree[n].direct

PairTimesAddUpOtherwise == CalledBothWays \/ PairTimesAddUp

(* Only an exit without an entry makes the reader crash.                   *)
CrashesOnlyIfSkewed == status = "segfault" => skewed

=============================================================================
