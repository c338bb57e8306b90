-------------------------- MODULE CallTree_proofs --------------------------
(***************************************************************************)
(* Theorems about module CallTree, for every trace, however long, skewed   *)
(* or recursive: what callers and callees are told of each other agrees,   *)
(* every call is counted once in its function and once in a caller, the    *)
(* path to the current node spells the functions entered and not left, and *)
(* the intervals of calls lie within each other. Hence no time is below    *)
(* zero when all of them have been subtracted, and the times the functions *)
(* are told add up to the time in which any of them ran: their self times  *)
(* by the sum over all nodes, their descendants' times because the bitmask *)
(* of the aggregation picks nodes that do not lie below each other. The    *)
(* times of a function's callees are those of the direct calls made by its *)
(* nodes, and so is its own share of its descendants' times.               *)
(***************************************************************************)
EXTENDS CallTree, SequenceTheorems, Sums

(* The property, of any array of functions.                                *)
Agree(fs) ==
  \A c, f \in DOMAIN fs :
    /\ f \in DOMAIN fs[c].callees <=> c \in DOMAIN fs[f].callers
    /\ f \in DOMAIN fs[c].callees => fs[c].callees[f] = fs[f].callers[c]

(* Neighbours are functions seen before, or the unknown caller.            *)
Closed(fs) ==
  \A f \in DOMAIN fs :
    /\ DOMAIN fs[f].callees \subseteq DOMAIN fs
    /\ DOMAIN fs[f].callers \subseteq DOMAIN fs \cup {Spontaneous}

(* Every entry of the array has the fields of struct function.             *)
Shaped(fs) ==
  \A f \in DOMAIN fs :
    fs[f] = [calls |-> fs[f].calls, self_time |-> fs[f].self_time,
             children_time |-> fs[f].children_time,
             callers |-> fs[f].callers, callees |-> fs[f].callees,
             primaries |-> fs[f].primaries, secondaries |-> fs[f].secondaries]

GoodFunctions(fs) ==
  /\ fs = [f \in DOMAIN fs |-> fs[f]]
  /\ DOMAIN fs \subseteq Function
  /\ Agree(fs) /\ Closed(fs) /\ Shaped(fs)

(* While the trace is read, the nodes of the tree are calls of functions   *)
(* that are in the array, and parents come before their children.          *)
GoodTree ==
  status = "reading" =>
    /\ Len(call_tree) \in Nat
    /\ DOMAIN call_tree = 1 .. Len(call_tree)
    /\ call_tree_current_node \in 0 .. Len(call_tree)
    /\ \A n \in DOMAIN call_tree :
         /\ call_tree[n].function \in DOMAIN functions \cup {Spontaneous}
         /\ call_tree[n].parent \in 0 .. n - 1

Inv == GoodFunctions(functions) /\ GoodTree

-----------------------------------------------------------------------------
(* Looking a function up keeps the array good, whether or not it was there *)
(* before.                                                                 *)
LEMMA KnownGood ==
  ASSUME NEW fs, GoodFunctions(fs), NEW f \in Function
  PROVE  /\ GoodFunctions(Known(fs, f))
         /\ DOMAIN Known(fs, f) = DOMAIN fs \cup {f}
<1> DEFINE K == Known(fs, f)
<1>1. /\ K = [g \in DOMAIN K |-> K[g]]
      /\ DOMAIN K = DOMAIN fs \cup {f}
      /\ \A g \in DOMAIN fs : K[g] = fs[g]
      /\ f \notin DOMAIN fs => K[f] = NewFunction
  BY DEF Known
<1>2. /\ DOMAIN NewFunction.callers = {} /\ DOMAIN NewFunction.callees = {}
      /\ NewFunction = [calls |-> NewFunction.calls, self_time |-> NewFunction.self_time,
                        children_time |-> NewFunction.children_time,
                        callers |-> NewFunction.callers, callees |-> NewFunction.callees,
                        primaries |-> NewFunction.primaries,
                        secondaries |-> NewFunction.secondaries]
  BY DEF NewFunction
<1> HIDE DEF K
<1>3. Shaped(K)
  BY <1>1, <1>2 DEF GoodFunctions, Shaped
<1>4. Closed(K)
  BY <1>1, <1>2 DEF GoodFunctions, Closed
<1>5. Agree(K)
  <2> SUFFICES ASSUME NEW c \in DOMAIN K, NEW g \in DOMAIN K
               PROVE  /\ g \in DOMAIN K[c].callees <=> c \in DOMAIN K[g].callers
                      /\ g \in DOMAIN K[c].callees => K[c].callees[g] = K[g].callers[c]
    BY DEF Agree
  <2>1. CASE c \in DOMAIN fs /\ g \in DOMAIN fs
    BY <2>1, <1>1 DEF GoodFunctions, Agree
  <2>2. CASE c \notin DOMAIN fs \/ g \notin DOMAIN fs
    BY <2>2, <1>1, <1>2, FunctionAssumption DEF GoodFunctions, Closed
  <2> QED
    BY <2>1, <2>2
<1>6. DOMAIN K \subseteq Function
  BY <1>1 DEF GoodFunctions
<1> QED
  BY <1>1, <1>3, <1>4, <1>5, <1>6 DEF GoodFunctions, K

(* What one more call does to a list of neighbours: it changes the entry   *)
(* of that neighbour and no other.                                         *)
OneMore(neighbours, n) ==
  [(IF n \in DOMAIN neighbours THEN neighbours[n] ELSE NoCalls) EXCEPT !.calls = @ + 1]

LEMMA OneMoreCallFacts ==
  ASSUME NEW ns, NEW n
  PROVE  /\ DOMAIN OneMoreCall(ns, n) = DOMAIN ns \cup {n}
         /\ \A m \in DOMAIN ns : m # n => OneMoreCall(ns, n)[m] = ns[m]
         /\ OneMoreCall(ns, n)[n] = OneMore(ns, n)
  BY DEF OneMoreCall, OneMore

(* The two updates of one entry of the array, field by field.              *)
CountedCaller(fn, c) == [fn EXCEPT !.calls = @ + 1, !.callers = OneMoreCall(@, c)]

LEMMA CountedCallerFields ==
  ASSUME NEW calls, NEW self, NEW children, NEW callers, NEW callees, NEW prim, NEW sec, NEW c
  PROVE  CountedCaller([calls |-> calls, self_time |-> self, children_time |-> children,
                        callers |-> callers, callees |-> callees,
                        primaries |-> prim, secondaries |-> sec], c) =
           [calls |-> calls + 1, self_time |-> self, children_time |-> children,
            callers |-> OneMoreCall(callers, c), callees |-> callees,
            primaries |-> prim, secondaries |-> sec]
<1> DEFINE old   == [calls |-> calls, self_time |-> self, children_time |-> children,
                     callers |-> callers, callees |-> callees,
                     primaries |-> prim, secondaries |-> sec]
           once  == [old EXCEPT !.calls = calls + 1]
<1>1. once = [calls |-> calls + 1, self_time |-> self, children_time |-> children,
              callers |-> callers, callees |-> callees,
              primaries |-> prim, secondaries |-> sec]
  OBVIOUS
<1>2. [once EXCEPT !.callers = OneMoreCall(callers, c)] =
        [calls |-> calls + 1, self_time |-> self, children_time |-> children,
         callers |-> OneMoreCall(callers, c), callees |-> callees,
         primaries |-> prim, secondaries |-> sec]
  <2> HIDE DEF once
  <2> QED
    BY <1>1
<1>3. CountedCaller(old, c) = [once EXCEPT !.callers = OneMoreCall(callers, c)]
  <2>1. old.calls = calls /\ old.callers = callers
    OBVIOUS
  <2> HIDE DEF old
  <2> QED
    BY <2>1 DEF CountedCaller
<1> QED
  BY <1>2, <1>3

(* What one more call between a caller and a callee does to the array.     *)
LEMMA CountFields ==
  ASSUME NEW fs, GoodFunctions(fs), NEW f \in Function,
         NEW c \in DOMAIN fs \cup {Spontaneous}
  PROVE  LET K == Known(fs, f)
             G == CountCallee(CountCaller(fs, f, c), f, c)
         IN  /\ G = [g \in DOMAIN K |-> G[g]]
             /\ DOMAIN G = DOMAIN K
             /\ Shaped(G)
             /\ \A g \in DOMAIN K :
                  G[g].calls = IF g = f THEN K[g].calls + 1 ELSE K[g].calls
             /\ \A g \in DOMAIN K :
                  G[g].callers = IF g = f THEN OneMoreCall(K[g].callers, c) ELSE K[g].callers
             /\ \A g \in DOMAIN K :
                  G[g].callees = IF g = c THEN OneMoreCall(K[g].callees, f) ELSE K[g].callees
<1> DEFINE K  == Known(fs, f)
           G1 == CountCaller(fs, f, c)
           G  == CountCallee(G1, f, c)
<1>1. GoodFunctions(K) /\ DOMAIN K = DOMAIN fs \cup {f}
  BY KnownGood
<1>2. /\ G1 = [g \in DOMAIN K |-> G1[g]]
      /\ DOMAIN G1 = DOMAIN K
      /\ Shaped(G1)
      /\ \A g \in DOMAIN K : g # f => G1[g] = K[g]
      /\ G1[f].calls = K[f].calls + 1
      /\ G1[f].callers = OneMoreCall(K[f].callers, c)
      /\ G1[f].callees = K[f].callees
  <2> HIDE DEF K
  <2>0. f \in DOMAIN K
    BY <1>1
  <2>1. G1 = [K EXCEPT ![f] = CountedCaller(K[f], c)]
    BY DEF CountCaller, CountedCaller, K
  <2>2. /\ G1 = [g \in DOMAIN K |-> IF g = f THEN CountedCaller(K[f], c) ELSE K[g]]
        /\ K[f] = [calls |-> K[f].calls, self_time |-> K[f].self_time,
                    children_time |-> K[f].children_time,
                    callers |-> K[f].callers, callees |-> K[f].callees,
                    primaries |-> K[f].primaries, secondaries |-> K[f].secondaries]
    BY <2>0, <2>1, <1>1 DEF GoodFunctions, Shaped
  <2>3. CountedCaller(K[f], c) =
          [calls |-> K[f].calls + 1, self_time |-> K[f].self_time,
           children_time |-> K[f].children_time,
           callers |-> OneMoreCall(K[f].callers, c), callees |-> K[f].callees,
           primaries |-> K[f].primaries, secondaries |-> K[f].secondaries]
    BY <2>2, CountedCallerFields
  <2> HIDE DEF G1
  <2>4. /\ DOMAIN G1 = DOMAIN K
        /\ \A g \in DOMAIN K : g # f => G1[g] = K[g]
        /\ G1[f] = CountedCaller(K[f], c)
    BY <2>0, <2>2, Zenon
  <2>5. /\ G1[f].calls = K[f].calls + 1
        /\ G1[f].callers = OneMoreCall(K[f].callers, c)
        /\ G1[f].callees = K[f].callees
    BY <2>3, <2>4
  <2>6. ASSUME NEW g \in DOMAIN K
        PROVE  G1[g] = [calls |-> G1[g].calls, self_time |-> G1[g].self_time,
                        children_time |-> G1[g].children_time,
                        callers |-> G1[g].callers, callees |-> G1[g].callees,
                        primaries |-> G1[g].primaries, secondaries |-> G1[g].secondaries]
    <3>1. CASE g = f
      BY <2>3, <2>4, <3>1
    <3>2. CASE g # f
      BY <2>4, <3>2, <1>1, Zenon DEF GoodFunctions, Shaped
    <3> QED
      BY <3>1, <3>2
  <2>7. Shaped(G1)
    BY <2>4, <2>6, Zenon DEF Shaped
  <2>8. G1 = [g \in DOMAIN K |-> G1[g]]
    BY <2>2, <2>4, Zenon
  <2> QED
    BY <2>4, <2>5, <2>7, <2>8
<1>3. /\ G = [g \in DOMAIN K |-> G[g]]
      /\ DOMAIN G = DOMAIN K
      /\ Shaped(G)
      /\ \A g \in DOMAIN K : G[g].calls = G1[g].calls /\ G[g].callers = G1[g].callers
      /\ \A g \in DOMAIN K :
           G[g].callees = IF g = c THEN OneMoreCall(G1[g].callees, f) ELSE G1[g].callees
  <2> HIDE DEF G1, K
  <2>1. CASE c = Spontaneous
    <3>1. c \notin DOMAIN K
      BY <2>1, <1>1, FunctionAssumption DEF GoodFunctions
    <3> QED
      BY <2>1, <3>1, <1>2 DEF CountCallee
  <2>2. CASE c # Spontaneous
    <3>0. c \in DOMAIN K
      BY <2>2, <1>1
    <3>1. G = [G1 EXCEPT ![c] = [G1[c] EXCEPT !.callees = OneMoreCall(G1[c].callees, f)]]
      BY <2>2, <3>0, <1>2 DEF CountCallee
    <3>2. [G1[c] EXCEPT !.callees = OneMoreCall(G1[c].callees, f)]
          = [calls |-> G1[c].calls, self_time |-> G1[c].self_time,
             children_time |-> G1[c].children_time,
             callers |-> G1[c].callers, callees |-> OneMoreCall(G1[c].callees, f),
             primaries |-> G1[c].primaries, secondaries |-> G1[c].secondaries]
      BY <3>0, <1>2 DEF Shaped
    <3> QED
      BY <3>0, <3>1, <3>2, <1>2 DEF Shaped
  <2> QED
    BY <2>1, <2>2
<1> HIDE DEF G, G1, K
<1> QED
  BY <1>2, <1>3 DEF G, G1, K

(* One more call between a caller and a callee, counted on both sides or,  *)
(* when the caller is unknown, on the side of the callee only.             *)
LEMMA CountGood ==
  ASSUME NEW fs, GoodFunctions(fs), NEW f \in Function,
         NEW c \in DOMAIN fs \cup {Spontaneous}
  PROVE  /\ GoodFunctions(CountCallee(CountCaller(fs, f, c), f, c))
         /\ DOMAIN CountCallee(CountCaller(fs, f, c), f, c) = DOMAIN fs \cup {f}
<1> DEFINE K == Known(fs, f)
           G == CountCallee(CountCaller(fs, f, c), f, c)
<1>1. GoodFunctions(K) /\ DOMAIN K = DOMAIN fs \cup {f}
  BY KnownGood
<1>3. /\ G = [g \in DOMAIN K |-> G[g]] /\ DOMAIN G = DOMAIN K /\ Shaped(G)
      /\ \A g \in DOMAIN K :
           G[g].callers = IF g = f THEN OneMoreCall(K[g].callers, c) ELSE K[g].callers
      /\ \A g \in DOMAIN K :
           G[g].callees = IF g = c THEN OneMoreCall(K[g].callees, f) ELSE K[g].callees
  BY CountFields
<1> HIDE DEF G, K
<1>4. /\ \A g \in DOMAIN K :
           G[g].callers = IF g = f THEN OneMoreCall(K[g].callers, c) ELSE K[g].callers
      /\ \A g \in DOMAIN K :
           G[g].callees = IF g = c THEN OneMoreCall(K[g].callees, f) ELSE K[g].callees
  BY <1>3
<1>5. \A g \in DOMAIN K :
        /\ DOMAIN OneMoreCall(K[g].callers, c) = DOMAIN K[g].callers \cup {c}
        /\ DOMAIN OneMoreCall(K[g].callees, f) = DOMAIN K[g].callees \cup {f}
        /\ \A m \in DOMAIN K[g].callers :
             m # c => OneMoreCall(K[g].callers, c)[m] = K[g].callers[m]
        /\ \A m \in DOMAIN K[g].callees :
             m # f => OneMoreCall(K[g].callees, f)[m] = K[g].callees[m]
        /\ OneMoreCall(K[g].callers, c)[c] = OneMore(K[g].callers, c)
        /\ OneMoreCall(K[g].callees, f)[f] = OneMore(K[g].callees, f)
  BY OneMoreCallFacts
<1>6. Closed(G)
  <2> SUFFICES ASSUME NEW g \in DOMAIN K
               PROVE  /\ DOMAIN G[g].callees \subseteq DOMAIN K
                      /\ DOMAIN G[g].callers \subseteq DOMAIN K \cup {Spontaneous}
    BY <1>3 DEF Closed
  <2>1. /\ DOMAIN K[g].callees \subseteq DOMAIN K
        /\ DOMAIN K[g].callers \subseteq DOMAIN K \cup {Spontaneous}
    BY <1>1 DEF GoodFunctions, Closed
  <2>2. DOMAIN G[g].callees \subseteq DOMAIN K[g].callees \cup {f}
    BY <1>4, <1>5
  <2>3. DOMAIN G[g].callers \subseteq DOMAIN K[g].callers \cup {c}
    BY <1>4, <1>5
  <2> QED
    BY <2>1, <2>2, <2>3, <1>1
<1>7. Agree(G)
  <2> SUFFICES ASSUME NEW p \in DOMAIN K, NEW g \in DOMAIN K
               PROVE  /\ g \in DOMAIN G[p].callees <=> p \in DOMAIN G[g].callers
                      /\ g \in DOMAIN G[p].callees => G[p].callees[g] = G[g].callers[p]
    BY <1>3 DEF Agree
  <2>0. /\ g \in DOMAIN K[p].callees <=> p \in DOMAIN K[g].callers
        /\ g \in DOMAIN K[p].callees => K[p].callees[g] = K[g].callers[p]
    BY <1>1 DEF GoodFunctions, Agree
  <2>a. /\ p = c => G[p].callees = OneMoreCall(K[p].callees, f)
        /\ p # c => G[p].callees = K[p].callees
        /\ g = f => G[g].callers = OneMoreCall(K[g].callers, c)
        /\ g # f => G[g].callers = K[g].callers
    BY <1>4
  <2>1. CASE p = c /\ g = f
    <3>1. OneMore(K[p].callees, f) = OneMore(K[g].callers, c)
      BY <2>0, <2>1 DEF OneMore
    <3>2. /\ DOMAIN G[p].callees = DOMAIN K[p].callees \cup {f}
          /\ DOMAIN G[g].callers = DOMAIN K[g].callers \cup {c}
          /\ G[p].callees[f] = OneMore(K[p].callees, f)
          /\ G[g].callers[c] = OneMore(K[g].callers, c)
      BY <2>1, <2>a, <1>5, Zenon
    <3> QED
      BY <2>1, <3>1, <3>2, Zenon
  <2>2. CASE p = c /\ g # f
    <3>0. /\ DOMAIN OneMoreCall(K[p].callees, f) = DOMAIN K[p].callees \cup {f}
          /\ \A m \in DOMAIN K[p].callees :
               m # f => OneMoreCall(K[p].callees, f)[m] = K[p].callees[m]
      BY OneMoreCallFacts
    <3>1. /\ DOMAIN G[p].callees = DOMAIN K[p].callees \cup {f}
          /\ g \in DOMAIN K[p].callees => G[p].callees[g] = K[p].callees[g]
      BY <2>2, <2>a, <3>0, Zenon
    <3> QED
      BY <2>0, <2>2, <2>a, <3>1
  <2>3. CASE p # c /\ g = f
    <3>0. /\ DOMAIN OneMoreCall(K[g].callers, c) = DOMAIN K[g].callers \cup {c}
          /\ \A m \in DOMAIN K[g].callers :
               m # c => OneMoreCall(K[g].callers, c)[m] = K[g].callers[m]
      BY OneMoreCallFacts
    <3>1. /\ DOMAIN G[g].callers = DOMAIN K[g].callers \cup {c}
          /\ p \in DOMAIN K[g].callers => G[g].callers[p] = K[g].callers[p]
      BY <2>3, <2>a, <3>0, Zenon
    <3> QED
      BY <2>0, <2>3, <2>a, <3>1
  <2>4. CASE p # c /\ g # f
    BY <2>0, <2>4, <2>a
  <2> QED
    BY <2>1, <2>2, <2>3, <2>4
<1> QED
  BY <1>1, <1>3, <1>6, <1>7 DEF GoodFunctions, G, K

(* Handing out the times leaves the calls as they are and gives both sides *)
(* of a pair the same times.                                               *)
LEMMA AggregatedGood ==
  ASSUME GoodFunctions(functions), NEW tree
  PROVE  GoodFunctions(Aggregated(tree))
<1> DEFINE A == Aggregated(tree)
<1>1. /\ A = [f \in DOMAIN functions |-> A[f]]
      /\ DOMAIN A = DOMAIN functions
      /\ Shaped(A)
      /\ \A f \in DOMAIN functions :
           /\ A[f].callers = [c \in DOMAIN functions[f].callers |->
                                WithPairTimes(tree, functions[f].callers[c], c, f)]
           /\ A[f].callees = [g \in DOMAIN functions[f].callees |->
                                WithPairTimes(tree, functions[f].callees[g], f, g)]
  BY DEF Aggregated, Shaped
<1> HIDE DEF A
<1>2. Agree(A)
  <2> SUFFICES ASSUME NEW c \in DOMAIN functions, NEW f \in DOMAIN functions
               PROVE  /\ f \in DOMAIN A[c].callees <=> c \in DOMAIN A[f].callers
                      /\ f \in DOMAIN A[c].callees => A[c].callees[f] = A[f].callers[c]
    BY <1>1 DEF Agree
  <2>1. /\ DOMAIN A[c].callees = DOMAIN functions[c].callees
        /\ DOMAIN A[f].callers = DOMAIN functions[f].callers
        /\ f \in DOMAIN functions[c].callees =>
             A[c].callees[f] = WithPairTimes(tree, functions[c].callees[f], c, f)
        /\ c \in DOMAIN functions[f].callers =>
             A[f].callers[c] = WithPairTimes(tree, functions[f].callers[c], c, f)
    <3>1. /\ A[f].callers = [d \in DOMAIN functions[f].callers |->
                            WithPairTimes(tree, functions[f].callers[d], d, f)]
          /\ A[c].callees = [g \in DOMAIN functions[c].callees |->
                            WithPairTimes(tree, functions[c].callees[g], c, g)]
      BY <1>1, Zenon
    <3> QED
      BY <3>1, Zenon
  <2>2. /\ f \in DOMAIN functions[c].callees <=> c \in DOMAIN functions[f].callers
        /\ f \in DOMAIN functions[c].callees =>
             functions[c].callees[f] = functions[f].callers[c]
    BY DEF GoodFunctions, Agree
  <2> QED
    BY <2>1, <2>2
<1>3. Closed(A)
  <2>1. ASSUME NEW f \in DOMAIN functions
        PROVE  /\ DOMAIN A[f].callers = DOMAIN functions[f].callers
               /\ DOMAIN A[f].callees = DOMAIN functions[f].callees
    BY <1>1, Zenon
  <2>2. Closed(functions)
    BY DEF GoodFunctions
  <2> QED
    BY <1>1, <2>1, <2>2, Zenon DEF Closed
<1> QED
  BY <1>1, <1>2, <1>3 DEF GoodFunctions, A

-----------------------------------------------------------------------------
LEMMA InitInv == Init => Inv
<1> SUFFICES ASSUME Init PROVE Inv
  OBVIOUS
<1>1. GoodFunctions(functions)
  BY DEF Init, GoodFunctions, Agree, Closed, Shaped
<1>2. GoodTree
  BY DEF Init, GoodTree, NewNode, ROOT, NULL
<1> QED
  BY <1>1, <1>2 DEF Inv

LEMMA NextInv == Inv /\ [Next]_vars => Inv'
<1> SUFFICES ASSUME Inv, [Next]_vars PROVE Inv'
  OBVIOUS
<1> USE DEF Inv
<1>1. ASSUME NEW f \in Function, NEW symbol \in Symbols, function_enter(f, symbol)
      PROVE  Inv'
  <2>0. /\ status = "reading" /\ status' = "reading"
        /\ call_tree_current_node \in DOMAIN call_tree
    BY <1>1 DEF function_enter, NextEvent, GoodTree, NULL
  <2>1. Caller(symbol) \in DOMAIN functions \cup {Spontaneous}
    BY <2>0 DEF Caller, Current, GoodTree
  <2>2. GoodFunctions(functions') /\ DOMAIN functions' = DOMAIN functions \cup {f}
    BY <2>1, <1>1, CountGood DEF function_enter
  <2>3. PICK node : /\ call_tree' = Append(call_tree, node)
                    /\ node.function = f
                    /\ node.parent = call_tree_current_node
    BY <1>1 DEF function_enter, NewNode
  <2>4. /\ Len(call_tree') = Len(call_tree) + 1
        /\ DOMAIN call_tree' = 1 .. Len(call_tree) + 1
        /\ \A n \in DOMAIN call_tree : call_tree'[n] = call_tree[n]
        /\ call_tree'[Len(call_tree) + 1] = node
    BY <2>3, <2>0 DEF GoodTree
  <2>5. GoodTree'
    BY <2>0, <2>2, <2>3, <2>4, <1>1 DEF GoodTree, function_enter
  <2> QED
    BY <2>2, <2>5
<1>2. CASE function_exit
  <2>0. /\ status = "reading" /\ status' = "reading"
        /\ call_tree_current_node \in DOMAIN call_tree
        /\ functions' = functions
    BY <1>2 DEF function_exit, NextEvent, GoodTree, NULL
  <2>1. /\ Len(call_tree') = Len(call_tree)
        /\ DOMAIN call_tree' = DOMAIN call_tree
        /\ \A n \in DOMAIN call_tree :
             /\ call_tree'[n].function = call_tree[n].function
             /\ call_tree'[n].parent = call_tree[n].parent
    BY <1>2, <2>0 DEF function_exit, Left, GoodTree
  <2>2. GoodTree'
    BY <1>2, <2>0, <2>1 DEF GoodTree, function_exit, Above
  <2> QED
    BY <2>0, <2>2
<1>3. CASE function_exit_all
  BY <1>3, AggregatedGood DEF function_exit_all, GoodTree
<1>4. CASE Dereference
  BY <1>4 DEF Dereference, GoodTree
<1>5. CASE UNCHANGED vars
  BY <1>5 DEF vars, GoodTree
<1> QED
  BY <1>1, <1>2, <1>3, <1>4, <1>5 DEF Next

(* The invariant the other theorems rest on.                               *)
THEOREM SpecInv == Spec => []Inv
<1> QED
  BY InitInv, NextInv, PTL DEF Spec

(* A caller's list of callees and a callee's list of callers never differ  *)
(* in a number of calls or in a time: function_enter counts both sides of  *)
(* every call, and the aggregation finds both sides of every pair.         *)
THEOREM SpecPairsAgree == Spec => []PairsAgree
<1>1. Inv => PairsAgree
  BY DEF Inv, GoodFunctions, Agree, PairsAgree
<1> QED
  BY <1>1, SpecInv, PTL

-----------------------------------------------------------------------------
(* The calls of a list of functions or of neighbours, and their sum.       *)
CallsOf(ns) == [x \in DOMAIN ns |-> ns[x].calls]

AllCalls(ns) == SumOf(CallsOf(ns), DOMAIN ns)

Counting(ns) == IsFiniteSet(DOMAIN ns) /\ \A x \in DOMAIN ns : ns[x].calls \in Nat

(* The equation of the recursion in the sums of CallsConserved.            *)
CallsStep(g, ns) ==
  g = [s \in SUBSET DOMAIN ns |->
         IF s = {} THEN 0
         ELSE ns[CHOOSE x \in s : TRUE].calls + g[s \ {CHOOSE x \in s : TRUE}]]

LEMMA CallsOfFacts ==
  ASSUME NEW ns, Counting(ns)
  PROVE  /\ IsFiniteSet(DOMAIN ns)
         /\ \A x \in DOMAIN ns : CallsOf(ns)[x] = ns[x].calls /\ ns[x].calls \in Nat
         /\ Numbered(CallsOf(ns), DOMAIN ns)
BY DEF Counting, CallsOf, Numbered

LEMMA CallsAreSum ==
  ASSUME NEW ns, Counting(ns)
  PROVE  MapThenSumSet(LAMBDA x : ns[x].calls, DOMAIN ns) = AllCalls(ns)
<1> DEFINE D == DOMAIN ns
           w == CallsOf(ns)
           m == MapThenSumSet(LAMBDA x : ns[x].calls, DOMAIN ns)
<1>1. m = (CHOOSE g : CallsStep(g, ns))[D]
  BY Zenon DEF MapThenSumSet, MapThenFoldSet, CallsStep
<1>2. /\ IsFiniteSet(D) /\ Numbered(w, D)
      /\ \A x \in D : w[x] = ns[x].calls
  BY CallsOfFacts
<1>3. \A g : CallsStep(g, ns) <=> SumStep(g, w, D)
  <2> SUFFICES ASSUME NEW g PROVE CallsStep(g, ns) <=> SumStep(g, w, D)
    OBVIOUS
  <2>1. \A s \in SUBSET D : s # {} => Chosen(s) \in s
    BY DEF Chosen
  <2> DEFINE item(s) == IF s = {} THEN 0 ELSE ns[Chosen(s)].calls + g[s \ {Chosen(s)}]
  <2>2. CallsStep(g, ns) <=> g = [s \in SUBSET D |-> item(s)]
    BY DEF CallsStep, Chosen
  <2>3. \A s \in SUBSET D : item(s) = SumItem(g, w, s)
    BY <1>2, <2>1 DEF SumItem
  <2> HIDE DEF item
  <2>4. [s \in SUBSET D |-> item(s)] = [s \in SUBSET D |-> SumItem(g, w, s)]
    BY <2>3
  <2> QED
    BY <2>2, <2>4 DEF SumStep
<1> HIDE DEF D, w, m
<1>4. PICK g : CallsStep(g, ns)
  BY <1>2, <1>3, SumExists
<1>5. CallsStep((CHOOSE h : CallsStep(h, ns)), ns)
  BY <1>4
<1>6. PICK h : CallsStep(h, ns) /\ m = h[D]
  BY <1>1, <1>5
<1>7. h[D] = SumOf(w, D)
  BY <1>2, <1>3, <1>6, SumIs
<1> QED
  BY <1>6, <1>7 DEF AllCalls, D, w, m

(* One more call of one of them, known already or new.                     *)
LEMMA OneMoreOfAll ==
  ASSUME NEW ns, Counting(ns), NEW n, NEW ms,
         DOMAIN ms = DOMAIN ns \cup {n},
         \A x \in DOMAIN ns : x # n => ms[x].calls = ns[x].calls,
         ms[n].calls = IF n \in DOMAIN ns THEN ns[n].calls + 1 ELSE 1
  PROVE  Counting(ms) /\ AllCalls(ms) = AllCalls(ns) + 1
<1> DEFINE D == DOMAIN ns
           E == DOMAIN ms
           v == CallsOf(ns)
           w == CallsOf(ms)
<1>1. /\ IsFiniteSet(D) /\ Numbered(v, D)
      /\ \A x \in D : v[x] = ns[x].calls /\ ns[x].calls \in Nat
  BY CallsOfFacts
<1>2. Counting(ms)
  <2>1. IsFiniteSet(E)
    BY <1>1, FS_AddElement
  <2>2. ASSUME NEW x \in E PROVE ms[x].calls \in Nat
    <3>1. CASE x # n
      BY <1>1, <3>1
    <3>2. CASE x = n
      BY <1>1, <3>2
    <3> QED
      BY <3>1, <3>2
  <2> QED
    BY <2>1, <2>2 DEF Counting
<1>3. /\ IsFiniteSet(E) /\ Numbered(w, E)
      /\ \A x \in E : w[x] = ms[x].calls /\ ms[x].calls \in Nat
  BY <1>2, CallsOfFacts
<1>4. E = D \cup {n} /\ \A x \in D : x # n => w[x] = v[x]
  BY <1>1, <1>3
<1>5. n \in D => v[n] \in Nat /\ w[n] = v[n] + 1
  BY <1>1, <1>3
<1>6. n \notin D => w[n] = 1
  BY <1>3
<1> HIDE DEF D, E, v, w
<1>7. SumOf(w, E) = SumOf(v, D) + 1
  <2>1. CASE n \in D
    <3>1. E = D
      BY <1>4, <2>1
    <3>2. w[n] \in Int /\ \A x \in D \ {n} : w[x] = v[x]
      BY <1>4, <1>5, <2>1
    <3>3. SumOf(w, D) = SumOf(v, D) - v[n] + w[n]
      BY <1>1, <2>1, <3>2, SumChange
    <3>4. SumOf(v, D) \in Int
      BY <1>1, SumSplit
    <3> QED
      BY <1>5, <2>1, <3>1, <3>3, <3>4
  <2>2. CASE n \notin D
    <3>1. Numbered(w, D \cup {n})
      BY <1>3, <1>4
    <3>0. IsFiniteSet(D)
      BY <1>1
    <3>2. SumOf(w, D \cup {n}) = SumOf(w, D) + w[n]
      BY <2>2, <3>0, <3>1, SumAdd, Zenon
    <3>3. SumOf(v, D) = SumOf(w, D)
      BY <1>1, <1>4, <2>2, SumSame
    <3> QED
      BY <1>4, <1>6, <2>2, <3>2, <3>3
  <2> QED
    BY <2>1, <2>2
<1> QED
  BY <1>2, <1>7 DEF AllCalls, D, E, v, w

(* The same calls.                                                         *)
LEMMA SameCalls ==
  ASSUME NEW ns, Counting(ns), NEW ms, DOMAIN ms = DOMAIN ns,
         \A x \in DOMAIN ns : ms[x].calls = ns[x].calls
  PROVE  Counting(ms) /\ AllCalls(ms) = AllCalls(ns)
<1>1. Counting(ms)
  BY DEF Counting
<1>2. CallsOf(ms) = CallsOf(ns)
  BY DEF CallsOf
<1> QED
  BY <1>1, <1>2 DEF AllCalls

-----------------------------------------------------------------------------
(* Every function has been called by its callers, and all of them as often *)
(* as the trace says.                                                      *)
Conserved(fs, total) ==
  /\ Counting(fs) /\ AllCalls(fs) = total
  /\ \A f \in DOMAIN fs :
       Counting(fs[f].callers) /\ AllCalls(fs[f].callers) = fs[f].calls

LEMMA NoneConserved ==
  ASSUME NEW fs, DOMAIN fs = {}
  PROVE  Counting(fs) /\ AllCalls(fs) = 0
<1>1. IsFiniteSet(DOMAIN fs) /\ Counting(fs)
  BY FS_EmptySet DEF Counting
<1>2. Numbered(CallsOf(fs), DOMAIN fs)
  BY <1>1, CallsOfFacts
<1>3. SumOf(CallsOf(fs), DOMAIN fs) = 0
  BY <1>1, <1>2, SumSplit
<1> QED
  BY <1>1, <1>3 DEF AllCalls

LEMMA CountConserved ==
  ASSUME NEW fs, GoodFunctions(fs), NEW total \in Nat, Conserved(fs, total),
         NEW f \in Function, NEW c \in DOMAIN fs \cup {Spontaneous}
  PROVE  Conserved(CountCallee(CountCaller(fs, f, c), f, c), total + 1)
<1> DEFINE K == Known(fs, f)
           G == CountCallee(CountCaller(fs, f, c), f, c)
<1>1. /\ DOMAIN G = DOMAIN K
      /\ \A g \in DOMAIN K :
           /\ G[g].calls = IF g = f THEN K[g].calls + 1 ELSE K[g].calls
           /\ G[g].callers = IF g = f THEN OneMoreCall(K[g].callers, c) ELSE K[g].callers
  BY CountFields
<1>2. /\ DOMAIN K = DOMAIN fs \cup {f}
      /\ \A g \in DOMAIN fs : K[g] = fs[g]
      /\ f \notin DOMAIN fs => K[f] = NewFunction
  BY DEF Known
<1>3. NewFunction.calls = 0 /\ DOMAIN NewFunction.callers = {}
  BY DEF NewFunction
<1> HIDE DEF K, G
<1>4. Counting(G) /\ AllCalls(G) = total + 1
  <2>1. DOMAIN G = DOMAIN fs \cup {f}
    BY <1>1, <1>2
  <2>2. \A g \in DOMAIN fs : g # f => G[g].calls = fs[g].calls
    BY <1>1, <1>2
  <2>3. G[f].calls = IF f \in DOMAIN fs THEN fs[f].calls + 1 ELSE 1
    BY <1>1, <1>2, <1>3
  <2>4. Counting(fs) /\ AllCalls(fs) = total
    BY DEF Conserved
  <2> QED
    BY <2>1, <2>2, <2>3, <2>4, OneMoreOfAll
<1>5. ASSUME NEW g \in DOMAIN G
      PROVE  Counting(G[g].callers) /\ AllCalls(G[g].callers) = G[g].calls
  <2>1. CASE g # f
    <3>1. g \in DOMAIN fs /\ G[g].calls = fs[g].calls /\ G[g].callers = fs[g].callers
      BY <1>1, <1>2, <1>5, <2>1
    <3> QED
      BY <3>1 DEF Conserved
  <2>2. CASE g = f
    <3> DEFINE ns == K[f].callers
               ms == OneMoreCall(ns, c)
    <3>1. Counting(ns) /\ AllCalls(ns) = K[f].calls
      <4>1. CASE f \in DOMAIN fs
        BY <1>2, <4>1 DEF Conserved
      <4>2. CASE f \notin DOMAIN fs
        BY <1>2, <1>3, <4>2, NoneConserved
      <4> QED
        BY <4>1, <4>2
    <3>2. /\ DOMAIN ms = DOMAIN ns \cup {c}
          /\ \A m \in DOMAIN ns : m # c => ms[m] = ns[m]
          /\ ms[c] = OneMore(ns, c)
      BY OneMoreCallFacts
    <3>3. G[g].callers = ms /\ G[g].calls = K[f].calls + 1
      BY <1>1, <1>2, <2>2
    <3> HIDE DEF ns, ms
    <3>4. ms[c].calls = IF c \in DOMAIN ns THEN ns[c].calls + 1 ELSE 1
      BY <3>2 DEF OneMore, NoCalls
    <3>5. Counting(ms) /\ AllCalls(ms) = AllCalls(ns) + 1
      BY <3>1, <3>2, <3>4, OneMoreOfAll
    <3> QED
      BY <3>1, <3>3, <3>5
  <2> QED
    BY <2>1, <2>2
<1> QED
  BY <1>4, <1>5 DEF Conserved, G

LEMMA AggregatedConserved ==
  ASSUME Conserved(functions, total_calls), NEW tree
  PROVE  Conserved(Aggregated(tree), total_calls)
<1> DEFINE A == Aggregated(tree)
<1>1. /\ DOMAIN A = DOMAIN functions
      /\ \A f \in DOMAIN functions :
           /\ A[f].calls = functions[f].calls
           /\ A[f].callers = [c \in DOMAIN functions[f].callers |->
                                WithPairTimes(tree, functions[f].callers[c], c, f)]
  BY DEF Aggregated
<1>2. \A call, c, f : WithPairTimes(tree, call, c, f).calls = call.calls
  BY DEF WithPairTimes
<1> HIDE DEF A
<1>3. Counting(A) /\ AllCalls(A) = total_calls
  BY <1>1, SameCalls DEF Conserved
<1>4. ASSUME NEW f \in DOMAIN functions
      PROVE  Counting(A[f].callers) /\ AllCalls(A[f].callers) = A[f].calls
  <2> DEFINE ns == functions[f].callers
             ms == A[f].callers
  <2>1. DOMAIN ms = DOMAIN ns /\ \A c \in DOMAIN ns : ms[c].calls = ns[c].calls
    <3>1. ms = [c \in DOMAIN ns |-> WithPairTimes(tree, ns[c], c, f)]
      BY <1>1
    <3> HIDE DEF ms, ns
    <3>2. DOMAIN ms = DOMAIN ns /\ \A c \in DOMAIN ns : ms[c] = WithPairTimes(tree, ns[c], c, f)
      BY <3>1
    <3> QED
      BY <1>2, <3>2
  <2>2. Counting(ns) /\ AllCalls(ns) = A[f].calls
    BY <1>1 DEF Conserved
  <2> HIDE DEF ns, ms
  <2>3. Counting(ms) /\ AllCalls(ms) = AllCalls(ns)
    BY <2>1, <2>2, SameCalls
  <2> QED
    BY <2>2, <2>3 DEF ms
<1> QED
  BY <1>1, <1>3, <1>4 DEF Conserved, A

CallsInv == total_calls \in Nat /\ Conserved(functions, total_calls)

LEMMA InitCalls == Init => CallsInv
<1> SUFFICES ASSUME Init PROVE CallsInv
  OBVIOUS
<1>1. DOMAIN functions = {} /\ total_calls = 0
  BY DEF Init
<1> QED
  BY <1>1, NoneConserved DEF CallsInv, Conserved

LEMMA NextCalls == Inv /\ CallsInv /\ [Next]_vars => CallsInv'
<1> SUFFICES ASSUME Inv, CallsInv, [Next]_vars PROVE CallsInv'
  OBVIOUS
<1>1. ASSUME NEW f \in Function, NEW symbol \in Symbols, function_enter(f, symbol)
      PROVE  CallsInv'
  <2>1. /\ GoodFunctions(functions)
        /\ Caller(symbol) \in DOMAIN functions \cup {Spontaneous}
    BY <1>1 DEF function_enter, NextEvent, Inv, GoodTree, NULL, Caller, Current
  <2>2. Conserved(functions', total_calls + 1)
    BY <1>1, <2>1, CountConserved DEF function_enter, CallsInv
  <2> QED
    BY <1>1, <2>2 DEF function_enter, CallsInv
<1>2. CASE function_exit
  BY <1>2 DEF function_exit, CallsInv
<1>3. CASE function_exit_all
  <2>1. functions' = Aggregated(call_tree') /\ total_calls' = total_calls
    BY <1>3 DEF function_exit_all
  <2>2. \A tree : Conserved(Aggregated(tree), total_calls)
    BY AggregatedConserved DEF CallsInv
  <2> QED
    BY <2>1, <2>2 DEF CallsInv
<1>4. CASE Dereference
  BY <1>4 DEF Dereference, CallsInv
<1>5. CASE UNCHANGED vars
  BY <1>5 DEF vars, CallsInv
<1> QED
  BY <1>1, <1>2, <1>3, <1>4, <1>5 DEF Next

(* No call is lost or counted twice: the calls of a function are those its *)
(* callers made, an unknown one included, and those of all functions are   *)
(* the entries of the trace, whatever their order.                         *)
THEOREM SpecCallsConserved == Spec => []CallsConserved
<1>1. CallsInv => CallsConserved
  <2> SUFFICES ASSUME CallsInv PROVE CallsConserved
    OBVIOUS
  <2>1. total_calls = MapThenSumSet(LAMBDA f : functions[f].calls, DOMAIN functions)
    BY CallsAreSum DEF CallsInv, Conserved
  <2>2. ASSUME NEW f \in DOMAIN functions
        PROVE  functions[f].calls =
                 MapThenSumSet(LAMBDA c : functions[f].callers[c].calls,
                               DOMAIN functions[f].callers)
    <3>1. Counting(functions[f].callers) /\ AllCalls(functions[f].callers) = functions[f].calls
      BY DEF CallsInv, Conserved
    <3> QED
      BY <3>1, CallsAreSum
  <2> QED
    BY <2>1, <2>2 DEF CallsConserved
<1> QED
  BY <1>1, InitCalls, NextCalls, SpecInv, PTL DEF Spec

-----------------------------------------------------------------------------
(* PathTo is defined by recursion on the parent, which is an earlier node. *)
Rooted(tree) ==
  /\ Len(tree) \in Nat \ {0}
  /\ \A n \in 1 .. Len(tree) : tree[n].parent \in 0 .. n - 1
  /\ tree[ROOT].parent = NULL

PathItem(p, tree, n) == IF n = NULL THEN <<>> ELSE Append(p[tree[n].parent], n)

PathStep(p, tree, m) == p = [n \in 0 .. m |-> PathItem(p, tree, n)]

LEMMA PathExists ==
  ASSUME NEW tree, Rooted(tree)
  PROVE  \E p : PathStep(p, tree, Len(tree))
<1> DEFINE S == {m \in Nat : m <= Len(tree) => \E p : PathStep(p, tree, m)}
<1>1. 0 \in S
  <2> DEFINE p == [n \in 0 .. 0 |-> <<>>]
  <2>1. \A n \in 0 .. 0 : PathItem(p, tree, n) = <<>>
    BY DEF PathItem, NULL
  <2>2. p = [n \in 0 .. 0 |-> PathItem(p, tree, n)]
    BY <2>1
  <2> HIDE DEF p
  <2> QED
    BY <2>2 DEF PathStep
<1>2. ASSUME NEW m \in Nat, m \in S PROVE m + 1 \in S
  <2> SUFFICES ASSUME m + 1 <= Len(tree) PROVE \E p : PathStep(p, tree, m + 1)
    OBVIOUS
  <2>1. PICK old : PathStep(old, tree, m)
    BY <1>2 DEF Rooted
  <2> DEFINE p == [n \in 0 .. m + 1 |-> PathItem(old, tree, n)]
  <2>2. \A n \in 0 .. m : p[n] = old[n]
    BY <2>1 DEF PathStep
  <2>3. \A n \in 1 .. m + 1 : tree[n].parent \in 0 .. m
    BY DEF Rooted
  <2>4. \A n \in 0 .. m + 1 : PathItem(p, tree, n) = PathItem(old, tree, n)
    <3> HIDE DEF p
    <3> SUFFICES ASSUME NEW n \in 0 .. m + 1
                 PROVE  PathItem(p, tree, n) = PathItem(old, tree, n)
      OBVIOUS
    <3>1. CASE n = 0
      BY <3>1 DEF PathItem, NULL
    <3>2. CASE n # 0
      <4>1. n \in 1 .. m + 1
        BY <3>2
      <4>2. p[tree[n].parent] = old[tree[n].parent]
        BY <2>2, <2>3, <4>1
      <4> QED
        BY <4>2 DEF PathItem
    <3> QED
      BY <3>1, <3>2
  <2>5. p = [n \in 0 .. m + 1 |-> PathItem(p, tree, n)]
    BY <2>4
  <2> HIDE DEF p
  <2> QED
    BY <2>5 DEF PathStep
<1> HIDE DEF S
<1>3. Nat \subseteq S
  BY <1>1, <1>2, SetInduction
<1>4. Len(tree) \in Nat /\ Len(tree) \in S
  BY <1>3 DEF Rooted
<1> QED
  BY <1>4 DEF S

(* A path from the root down, each node the parent of the next one.        *)
Chain(tree, path) ==
  /\ path \in Seq(Nat) /\ Len(path) # 0
  /\ \A k \in 1 .. Len(path) : path[k] \in 1 .. Len(tree)
  /\ path[1] = ROOT
  /\ \A k \in 1 .. Len(path) - 1 : tree[path[k + 1]].parent = path[k]

(* There is only one such path to a node, and PathTo finds it.             *)
LEMMA PathOfChain ==
  ASSUME NEW tree, Rooted(tree), NEW path, Chain(tree, path)
  PROVE  PathTo(tree, path[Len(path)]) = path
<1> DEFINE p == CHOOSE q : PathStep(q, tree, Len(tree))
           Reached(k) == /\ p[path[k]] \in Seq(Nat)
                         /\ Len(p[path[k]]) = k
                         /\ \A i \in 1 .. k : p[path[k]][i] = path[i]
           S == {k \in Nat : k + 1 \in 1 .. Len(path) => Reached(k + 1)}
<1>1. PathTo(tree, path[Len(path)]) = p[path[Len(path)]]
  BY Zenon DEF PathTo, PathStep, PathItem
<1>2. PathStep(p, tree, Len(tree))
  BY PathExists
<1> HIDE DEF p
<1>3. \A n \in 0 .. Len(tree) : p[n] = PathItem(p, tree, n)
  BY <1>2 DEF PathStep
<1>4. /\ Len(path) \in Nat \ {0} /\ Len(tree) \in Nat
      /\ \A k \in 1 .. Len(path) : path[k] \in 1 .. Len(tree) /\ path[k] \in Nat
  BY DEF Chain, Rooted
<1>5. \A k \in 1 .. Len(path) : p[path[k]] = Append(p[tree[path[k]].parent], path[k])
  <2> SUFFICES ASSUME NEW k \in 1 .. Len(path)
               PROVE  p[path[k]] = Append(p[tree[path[k]].parent], path[k])
    OBVIOUS
  <2>1. path[k] \in 1 .. Len(tree)
    BY <1>4
  <2>2. p[path[k]] = PathItem(p, tree, path[k])
    BY <1>3, <1>4, <2>1
  <2>3. path[k] # NULL
    BY <1>4, <2>1 DEF NULL
  <2> QED
    BY <2>2, <2>3, Zenon DEF PathItem
<1>6. 0 \in S
  <2>1. path[1] = ROOT /\ p[path[1]] = Append(p[tree[ROOT].parent], path[1]) /\ path[1] \in Nat
    <3>1. 1 \in 1 .. Len(path) /\ path[1] = ROOT
      BY <1>4 DEF Chain
    <3>2. p[path[1]] = Append(p[tree[path[1]].parent], path[1]) /\ path[1] \in Nat
      BY <1>4, <1>5, <3>1
    <3> QED
      BY <3>1, <3>2
  <2>2. p[tree[ROOT].parent] = <<>>
    BY <1>3, <1>4 DEF Rooted, PathItem, NULL
  <2> DEFINE q == p[path[1]]
             r == <<>>
  <2>3. q = Append(r, path[1]) /\ path[1] \in Nat
    BY <2>1, <2>2
  <2>4. r \in Seq(Nat) /\ Len(r) = 0
    BY EmptySeq
  <2> HIDE DEF q, r
  <2>5. q \in Seq(Nat) /\ Len(q) = 1 /\ q[1] = path[1]
    BY <2>3, <2>4, AppendProperties
  <2>6. Reached(1)
    BY <2>5 DEF q
  <2> HIDE DEF Reached
  <2>7. 0 + 1 = 1 /\ 0 \in Nat
    OBVIOUS
  <2> QED
    BY <2>6, <2>7
<1>7. ASSUME NEW k \in Nat, k \in S PROVE k + 1 \in S
  <2> SUFFICES ASSUME k + 2 \in 1 .. Len(path) PROVE Reached(k + 2)
    OBVIOUS
  <2> DEFINE r == p[path[k + 1]]
             q == p[path[k + 2]]
  <2>1. r \in Seq(Nat) /\ Len(r) = k + 1 /\ \A i \in 1 .. k + 1 : r[i] = path[i]
    <3>1. Reached(k + 1)
      BY <1>4, <1>7
    <3> QED
      BY <3>1
  <2>2. q = Append(r, path[k + 2]) /\ path[k + 2] \in Nat
    <3>1. tree[path[k + 2]].parent = path[k + 1]
      <4>1. k + 1 \in 1 .. Len(path) - 1 /\ (k + 1) + 1 = k + 2
        BY <1>4
      <4> QED
        BY <4>1 DEF Chain
    <3> QED
      BY <1>4, <1>5, <3>1
  <2> HIDE DEF r, q
  <2>3. /\ q \in Seq(Nat) /\ Len(q) = k + 2
        /\ \A i \in 1 .. k + 1 : q[i] = r[i]
        /\ q[k + 2] = path[k + 2]
    BY <2>1, <2>2, AppendProperties
  <2>4. \A i \in 1 .. k + 2 : q[i] = path[i]
    BY <2>1, <2>3
  <2> QED
    BY <2>3, <2>4 DEF q
<1> HIDE DEF S
<1>8. Nat \subseteq S
  BY <1>6, <1>7, SetInduction
<1>9. Reached(Len(path))
  <2>1. Len(path) - 1 \in Nat /\ (Len(path) - 1) + 1 = Len(path)
    BY <1>4
  <2>2. Len(path) - 1 \in S
    BY <1>8, <2>1
  <2> QED
    BY <1>4, <2>1, <2>2 DEF S
<1>10. p[path[Len(path)]] = path
  BY <1>9, SeqEqual DEF Chain
<1> QED
  BY <1>1, <1>10

(* The names on a path to a node are those of a stack.                     *)
Stacked(tree, node, names, path) ==
  /\ Chain(tree, path) /\ path[Len(path)] = node
  /\ Len(names) = Len(path) - 1
  /\ \A k \in 1 .. Len(names) : names[k] = tree[path[k + 1]].function

StackInv ==
  /\ entered \in Seq(Function) /\ skewed \in BOOLEAN
  /\ status # "done" => Rooted(call_tree)
  /\ status = "reading" /\ ~skewed =>
       \E path : Stacked(call_tree, call_tree_current_node, entered, path)
  /\ status = "segfault" => skewed

LEMMA InitStack == Init => StackInv
<1> SUFFICES ASSUME Init PROVE StackInv
  OBVIOUS
<1>1. Len(call_tree) = 1 /\ call_tree[1].parent = NULL
  BY DEF Init, NewNode
<1>2. Rooted(call_tree)
  BY <1>1 DEF Rooted, NULL, ROOT
<1>3. entered \in Seq(Function) /\ Len(entered) = 0
  BY EmptySeq DEF Init
<1>4. Stacked(call_tree, call_tree_current_node, entered, <<ROOT>>)
  BY <1>1, <1>3 DEF Init, Stacked, Chain, ROOT
<1> QED
  BY <1>2, <1>3, <1>4 DEF StackInv, Init

(* A function entered: a node below the current one.                       *)
LEMMA EnterStack ==
  ASSUME NEW tree, Rooted(tree), NEW names \in Seq(Function), NEW node, NEW path,
         Stacked(tree, node, names, path), NEW f \in Function, NEW new,
         DOMAIN tree = 1 .. Len(tree),
         Len(new) = Len(tree) + 1,
         \A n \in 1 .. Len(tree) : new[n] = tree[n],
         new[Len(tree) + 1].parent = node, new[Len(tree) + 1].function = f
  PROVE  /\ Rooted(new)
         /\ Stacked(new, Len(tree) + 1, Append(names, f), Append(path, Len(tree) + 1))
<1> DEFINE m == Len(tree) + 1
           np == Append(path, m)
           nn == Append(names, f)
           l == Len(path)
<1>1. /\ path \in Seq(Nat) /\ l \in Nat \ {0} /\ Len(tree) \in Nat \ {0} /\ m \in Nat
      /\ \A k \in 1 .. l : path[k] \in 1 .. Len(tree)
      /\ path[1] = ROOT /\ path[l] = node
      /\ \A k \in 1 .. l - 1 : tree[path[k + 1]].parent = path[k]
      /\ Len(names) = l - 1
      /\ \A k \in 1 .. Len(names) : names[k] = tree[path[k + 1]].function
  BY DEF Stacked, Chain, Rooted
<1>2. /\ np \in Seq(Nat) /\ Len(np) = l + 1 /\ np[l + 1] = m
      /\ \A k \in 1 .. l : np[k] = path[k]
  BY <1>1, AppendProperties
<1>3. /\ Len(nn) = l /\ nn[l] = f
      /\ \A k \in 1 .. l - 1 : nn[k] = names[k]
  <2>1. /\ Len(nn) = Len(names) + 1 /\ nn[Len(names) + 1] = f
        /\ \A k \in 1 .. Len(names) : nn[k] = names[k]
    BY AppendProperties
  <2> HIDE DEF nn, l
  <2>2. Len(names) + 1 = l
    BY <1>1
  <2> QED
    BY <1>1, <2>1, <2>2
<1>4. new[m].parent = node /\ new[m].function = f /\ Len(new) = m
  OBVIOUS
<1>5. Rooted(new)
  <2>1. node \in 1 .. Len(tree)
    BY <1>1
  <2>2. ASSUME NEW n \in 1 .. m PROVE new[n].parent \in 0 .. n - 1
    <3>1. CASE n = m
      BY <1>1, <1>4, <2>1, <3>1
    <3>2. CASE n # m
      <4>1. n \in 1 .. Len(tree)
        BY <1>1, <3>2
      <4> QED
        BY <4>1 DEF Rooted
    <3> QED
      BY <3>1, <3>2
  <2>3. new[ROOT].parent = NULL
    BY <1>1 DEF Rooted, ROOT
  <2> QED
    BY <1>1, <1>4, <2>2, <2>3 DEF Rooted
<1> HIDE DEF m, np, nn, l
<1>6. \A k \in 1 .. l + 1 : np[k] \in 1 .. Len(new)
  <2>1. Len(new) = Len(tree) + 1 /\ m = Len(tree) + 1
    BY DEF m
  <2> SUFFICES ASSUME NEW k \in 1 .. l + 1 PROVE np[k] \in 1 .. Len(new)
    OBVIOUS
  <2>2. CASE k = l + 1
    BY <1>1, <1>2, <2>1, <2>2
  <2>3. CASE k # l + 1
    <3>1. k \in 1 .. l
      BY <1>1, <2>3
    <3>2. np[k] \in 1 .. Len(tree)
      BY <1>1, <1>2, <3>1
    <3> QED
      BY <1>1, <2>1, <3>2
  <2> QED
    BY <2>2, <2>3
<1>7. \A k \in 1 .. l : new[np[k + 1]].parent = np[k]
  <2> SUFFICES ASSUME NEW k \in 1 .. l PROVE new[np[k + 1]].parent = np[k]
    OBVIOUS
  <2>1. CASE k = l
    BY <1>1, <1>2, <1>4, <2>1
  <2>2. CASE k # l
    <3>1. k \in 1 .. l - 1 /\ k + 1 \in 1 .. l
      BY <1>1, <2>2
    <3>2. np[k + 1] = path[k + 1] /\ np[k] = path[k] /\ path[k + 1] \in 1 .. Len(tree)
      BY <1>1, <1>2, <3>1
    <3> QED
      BY <1>1, <3>1, <3>2
  <2> QED
    BY <2>1, <2>2
<1>8. \A k \in 1 .. l : nn[k] = new[np[k + 1]].function
  <2> SUFFICES ASSUME NEW k \in 1 .. l PROVE nn[k] = new[np[k + 1]].function
    OBVIOUS
  <2>1. CASE k = l
    BY <1>1, <1>2, <1>3, <1>4, <2>1
  <2>2. CASE k # l
    <3>1. k \in 1 .. l - 1 /\ k + 1 \in 1 .. l
      BY <1>1, <2>2
    <3>2. np[k + 1] = path[k + 1] /\ path[k + 1] \in 1 .. Len(tree)
      BY <1>1, <1>2, <3>1
    <3> QED
      BY <1>1, <1>3, <3>1, <3>2
  <2> QED
    BY <2>1, <2>2
<1>9. Stacked(new, m, nn, np)
  <2>1. Chain(new, np)
    <3>1. Len(np) # 0 /\ Len(np) = l + 1 /\ Len(np) - 1 = l
      BY <1>1, <1>2
    <3>2. 1 \in 1 .. l
      BY <1>1
    <3>3. np[1] = ROOT
      BY <1>1, <1>2, <3>2
    <3> QED
      BY <1>2, <1>6, <1>7, <3>1, <3>3 DEF Chain
  <2> QED
    BY <1>1, <1>2, <1>3, <1>8, <2>1 DEF Stacked
<1> QED
  BY <1>5, <1>9 DEF m, np, nn

LEMMA FrontFacts ==
  ASSUME NEW S, NEW s \in Seq(S), Len(s) # 0
  PROVE  /\ Front(s) \in Seq(S) /\ Len(Front(s)) = Len(s) - 1
         /\ \A k \in 1 .. Len(s) - 1 : Front(s)[k] = s[k]
<1> DEFINE n == Len(s) - 1
           r == Front(s)
<1>1. r = SubSeq(s, 1, n) /\ n \in Nat /\ n \in Int /\ 1 \in Int
  BY LenProperties DEF Front
<1>2. \A k \in 1 .. n : s[k] \in S
  BY <1>1, ElementOfSeq, LenProperties
<1> HIDE DEF n, r
<1>3. /\ r \in Seq(S) /\ Len(r) = (IF 1 <= n THEN n - 1 + 1 ELSE 0)
      /\ \A k \in 1 .. n - 1 + 1 : r[k] = s[1 + k - 1]
  BY <1>1, <1>2, SubSeqProperties
<1>4. Len(r) = n
  BY <1>1, <1>3
<1>5. ASSUME NEW k \in 1 .. n PROVE r[k] = s[k]
  <2>1. k \in 1 .. n - 1 + 1 /\ 1 + k - 1 = k
    BY <1>1
  <2> QED
    BY <1>3, <2>1
<1> QED
  BY <1>3, <1>4, <1>5 DEF n, r

(* A function left: the node above is current again.                       *)
LEMMA ExitStack ==
  ASSUME NEW tree, Rooted(tree), NEW names \in Seq(Function), names # <<>>, NEW node, NEW path,
         Stacked(tree, node, names, path)
  PROVE  /\ Front(names) \in Seq(Function)
         /\ Stacked(tree, tree[node].parent, Front(names), Front(path))
<1> DEFINE np == Front(path)
           nn == Front(names)
           l == Len(path)
<1>1. /\ path \in Seq(Nat) /\ l \in Nat \ {0} /\ Len(tree) \in Nat \ {0}
      /\ \A k \in 1 .. l : path[k] \in 1 .. Len(tree)
      /\ path[1] = ROOT /\ path[l] = node
      /\ \A k \in 1 .. l - 1 : tree[path[k + 1]].parent = path[k]
      /\ Len(names) = l - 1
      /\ \A k \in 1 .. Len(names) : names[k] = tree[path[k + 1]].function
  BY DEF Stacked, Chain, Rooted
<1>2. Len(names) \in Nat \ {0}
  BY EmptySeq
<1>3. /\ np \in Seq(Nat) /\ Len(np) = l - 1
      /\ \A k \in 1 .. l - 1 : np[k] = path[k]
  BY <1>1, FrontFacts
<1>4. /\ nn \in Seq(Function) /\ Len(nn) = l - 2
      /\ \A k \in 1 .. l - 2 : nn[k] = names[k]
  <2>1. /\ nn \in Seq(Function) /\ Len(nn) = Len(names) - 1
        /\ \A k \in 1 .. Len(names) - 1 : nn[k] = names[k]
    BY FrontFacts
  <2> HIDE DEF nn, l
  <2>2. Len(names) - 1 = l - 2
    BY <1>1
  <2> QED
    BY <2>1, <2>2
<1> HIDE DEF np, nn, l
<1>5. tree[node].parent = path[l - 1] /\ l - 1 \in Nat \ {0}
  <2>1. l - 1 \in 1 .. l - 1 /\ (l - 1) + 1 = l
    BY <1>1, <1>2
  <2> QED
    BY <1>1, <2>1, SMTT(30)
<1>6. Chain(tree, np)
  <2>1. ASSUME NEW k \in 1 .. l - 1 PROVE np[k] \in 1 .. Len(tree)
    <3>1. k \in 1 .. l
      BY <1>1
    <3> QED
      BY <1>1, <1>3, <3>1
  <2>2. ASSUME NEW k \in 1 .. l - 2 PROVE tree[np[k + 1]].parent = np[k]
    <3>1. k \in 1 .. l - 1 /\ k + 1 \in 1 .. l - 1
      BY <1>1, SMTT(30)
    <3> QED
      BY <1>1, <1>3, <3>1
  <2>3. Len(np) # 0 /\ Len(np) - 1 = l - 2 /\ 1 \in 1 .. l - 1
    BY <1>1, <1>3, <1>5
  <2>4. np[1] = ROOT
    BY <1>1, <1>3, <2>3
  <2> QED
    BY <1>3, <2>1, <2>2, <2>3, <2>4 DEF Chain
<1>7. ASSUME NEW k \in 1 .. l - 2 PROVE nn[k] = tree[np[k + 1]].function
  <2>1. k \in 1 .. Len(names) /\ k + 1 \in 1 .. l - 1
    BY <1>1, SMTT(30)
  <2> QED
    BY <1>1, <1>3, <1>4, <2>1
<1>8. Stacked(tree, tree[node].parent, nn, np)
  <2>1. Len(nn) = Len(np) - 1 /\ np[Len(np)] = tree[node].parent
    <3>1. l - 1 \in 1 .. l - 1
      BY <1>1, <1>5
    <3> QED
      BY <1>1, <1>3, <1>4, <1>5, <3>1
  <2> QED
    BY <1>4, <1>6, <1>7, <2>1 DEF Stacked
<1> QED
  BY <1>4, <1>8 DEF nn, np

(* Only functions and parents matter.                                      *)
LEMMA SameStack ==
  ASSUME NEW tree, NEW new, Len(new) = Len(tree), Rooted(tree),
         \A n \in 1 .. Len(tree) : /\ new[n].function = tree[n].function
                                   /\ new[n].parent = tree[n].parent
  PROVE  /\ Rooted(new)
         /\ \A node, names, path : Stacked(tree, node, names, path) =>
                                     Stacked(new, node, names, path)
<1>1. Rooted(new)
  BY DEF Rooted, ROOT
<1>2. ASSUME NEW node, NEW names, NEW path, Stacked(tree, node, names, path)
      PROVE  Stacked(new, node, names, path)
  <2>1. Len(path) \in Nat
    BY <1>2 DEF Stacked, Chain
  <2>2. Chain(new, path)
    BY <1>2, <2>1, SMTT(30) DEF Stacked, Chain
  <2>3. ASSUME NEW k \in 1 .. Len(names) PROVE names[k] = new[path[k + 1]].function
    <3>1. k + 1 \in 1 .. Len(path)
      BY <1>2, <2>1 DEF Stacked
    <3>2. path[k + 1] \in 1 .. Len(tree) /\ names[k] = tree[path[k + 1]].function
      BY <1>2, <3>1 DEF Stacked, Chain
    <3> QED
      BY <3>2
  <2> QED
    BY <1>2, <2>2, <2>3 DEF Stacked
<1> QED
  BY <1>1, <1>2

LEMMA NextStack == Inv /\ StackInv /\ [Next]_vars => StackInv'
<1> SUFFICES ASSUME Inv, StackInv, [Next]_vars PROVE StackInv'
  OBVIOUS
<1>1. ASSUME NEW f \in Function, NEW symbol \in Symbols, function_enter(f, symbol)
      PROVE  StackInv'
  <2>1. /\ status = "reading" /\ status' = status /\ skewed' = skewed
        /\ entered' = Append(entered, f)
        /\ call_tree_current_node' = Len(call_tree')
    BY <1>1 DEF function_enter, NextEvent
  <2>2. PICK node : /\ call_tree' = Append(call_tree, node)
                    /\ node.function = f
                    /\ node.parent = call_tree_current_node
    BY <1>1 DEF function_enter, NewNode
  <2>3. /\ Len(call_tree) \in Nat /\ DOMAIN call_tree = 1 .. Len(call_tree)
        /\ call_tree_current_node \in 1 .. Len(call_tree)
    BY <1>1, <2>1 DEF Inv, GoodTree, function_enter, NULL
  <2>4. /\ Len(call_tree') = Len(call_tree) + 1
        /\ \A n \in 1 .. Len(call_tree) : call_tree'[n] = call_tree[n]
        /\ call_tree'[Len(call_tree) + 1] = node
    BY <2>2, <2>3
  <2>5. Rooted(call_tree) /\ entered \in Seq(Function) /\ skewed \in BOOLEAN
    BY <2>1 DEF StackInv
  <2>6. Rooted(call_tree')
    <3>1. ASSUME NEW n \in 1 .. Len(call_tree) + 1 PROVE call_tree'[n].parent \in 0 .. n - 1
      <4>1. CASE n = Len(call_tree) + 1
        BY <2>2, <2>3, <2>4, <4>1
      <4>2. CASE n # Len(call_tree) + 1
        <5>1. n \in 1 .. Len(call_tree)
          BY <2>3, <4>2
        <5> QED
          BY <2>4, <2>5, <5>1 DEF Rooted
      <4> QED
        BY <4>1, <4>2
    <3>2. call_tree'[ROOT].parent = NULL
      BY <2>4, <2>5 DEF Rooted, ROOT
    <3> QED
      BY <2>3, <2>4, <3>1, <3>2 DEF Rooted
  <2>7. ASSUME ~skewed
        PROVE  \E path : Stacked(call_tree', call_tree_current_node', entered', path)
    <3>1. PICK path : Stacked(call_tree, call_tree_current_node, entered, path)
      BY <2>1, <2>7 DEF StackInv
    <3>2. /\ call_tree'[Len(call_tree) + 1].parent = call_tree_current_node
          /\ call_tree'[Len(call_tree) + 1].function = f
      BY <2>2, <2>4
    <3>3. Stacked(call_tree', Len(call_tree) + 1, Append(entered, f),
                  Append(path, Len(call_tree) + 1))
      BY <2>3, <2>4, <2>5, <3>1, <3>2, EnterStack
    <3> QED
      BY <2>1, <2>4, <3>3
  <2>8. entered' \in Seq(Function)
    BY <2>1, <2>5, AppendProperties
  <2> QED
    BY <2>1, <2>5, <2>6, <2>7, <2>8 DEF StackInv
<1>2. CASE function_exit
  <2>1. /\ status = "reading" /\ status' = status
        /\ entered' = IF entered = <<>> THEN <<>> ELSE Front(entered)
        /\ skewed' = (skewed \/ entered = <<>>)
        /\ call_tree_current_node' = call_tree[call_tree_current_node].parent
    BY <1>2 DEF function_exit, NextEvent, Above
  <2>2. /\ Len(call_tree) \in Nat /\ DOMAIN call_tree = 1 .. Len(call_tree)
        /\ call_tree_current_node \in 1 .. Len(call_tree)
    BY <1>2, <2>1 DEF Inv, GoodTree, function_exit, NULL
  <2>3. /\ Len(call_tree') = Len(call_tree)
        /\ \A n \in 1 .. Len(call_tree) :
             /\ call_tree'[n].function = call_tree[n].function
             /\ call_tree'[n].parent = call_tree[n].parent
    BY <1>2, <2>2 DEF function_exit, Left
  <2>4. Rooted(call_tree) /\ entered \in Seq(Function) /\ skewed \in BOOLEAN
    BY <2>1 DEF StackInv
  <2>5. /\ Rooted(call_tree')
        /\ \A node, names, path : Stacked(call_tree, node, names, path) =>
                                    Stacked(call_tree', node, names, path)
    BY <2>3, <2>4, SameStack
  <2>6. entered' \in Seq(Function) /\ skewed' \in BOOLEAN
    <3>1. CASE entered = <<>>
      BY <2>1, <2>4, <3>1, EmptySeq
    <3>2. CASE entered # <<>>
      <4>1. Len(entered) # 0
        BY <2>4, <3>2, EmptySeq
      <4> QED
        BY <2>1, <2>4, <3>2, <4>1, FrontFacts
    <3> QED
      BY <3>1, <3>2
  <2>7. ASSUME ~skewed'
        PROVE  \E path : Stacked(call_tree', call_tree_current_node', entered', path)
    <3>1. ~skewed /\ entered # <<>> /\ entered' = Front(entered)
      BY <2>1, <2>7
    <3>2. PICK path : Stacked(call_tree, call_tree_current_node, entered, path)
      BY <2>1, <3>1 DEF StackInv
    <3>3. Stacked(call_tree, call_tree[call_tree_current_node].parent, Front(entered), Front(path))
      BY <2>4, <3>1, <3>2, ExitStack
    <3> QED
      BY <2>1, <2>5, <3>1, <3>3
  <2> QED
    BY <2>1, <2>5, <2>6, <2>7 DEF StackInv
<1>3. CASE function_exit_all
  BY <1>3 DEF function_exit_all, StackInv
<1>4. CASE Dereference
  <2>1. ASSUME ~skewed PROVE FALSE
    <3>1. status = "reading" /\ call_tree_current_node = NULL
      BY <1>4 DEF Dereference
    <3>2. PICK path : Stacked(call_tree, call_tree_current_node, entered, path)
      BY <2>1, <3>1 DEF StackInv
    <3>3. Len(path) \in 1 .. Len(path)
      <4>1. path \in Seq(Nat) /\ Len(path) # 0
        BY <3>2 DEF Stacked, Chain
      <4>2. Len(path) \in Nat
        BY <4>1, LenProperties
      <4> QED
        BY <4>1, <4>2
    <3>4. call_tree_current_node \in 1 .. Len(call_tree)
      BY <3>2, <3>3 DEF Stacked, Chain
    <3> QED
      BY <3>1, <3>4 DEF NULL
  <2> QED
    BY <1>4, <2>1 DEF Dereference, StackInv
<1>5. CASE UNCHANGED vars
  BY <1>5 DEF vars, StackInv
<1> QED
  BY <1>1, <1>2, <1>3, <1>4, <1>5 DEF Next

(* The types of the stack, the order of the nodes and the stack hold in    *)
(* every state.                                                            *)
THEOREM SpecStack == Spec => []StackInv
<1> QED
  BY InitStack, NextStack, SpecInv, PTL DEF Spec

(* Whatever functions were entered and left, the path from the root to the *)
(* current node spells those that are still open: function_get_current     *)
(* blames the right one for an allocation.                                 *)
THEOREM SpecPathIsStack == Spec => []PathIsStack
<1>1. StackInv => PathIsStack
  <2> SUFFICES ASSUME StackInv, status = "reading", ~skewed
               PROVE  LET path == PathTo(call_tree, call_tree_current_node)
                      IN  entered = [k \in 1 .. Len(path) - 1 |-> call_tree[path[k + 1]].function]
    BY DEF PathIsStack
  <2>1. PICK path : Stacked(call_tree, call_tree_current_node, entered, path)
    BY DEF StackInv
  <2>2. PathTo(call_tree, call_tree_current_node) = path
    BY <2>1, PathOfChain DEF StackInv, Stacked
  <2>3. entered = [k \in 1 .. Len(entered) |-> entered[k]]
    BY LenProperties DEF StackInv
  <2>4. entered = [k \in 1 .. Len(path) - 1 |-> call_tree[path[k + 1]].function]
    BY <2>1, <2>3 DEF Stacked
  <2> QED
    BY <2>2, <2>4
<1> QED
  BY <1>1, SpecStack, PTL

(* The reader comes to a NULL node only behind an exit that no entry goes  *)
(* with, however deep the calls are.                                       *)
THEOREM SpecCrashesOnlyIfSkewed == Spec => []CrashesOnlyIfSkewed
<1>1. StackInv => CrashesOnlyIfSkewed
  BY DEF StackInv, CrashesOnlyIfSkewed
<1> QED
  BY <1>1, SpecStack, PTL

-----------------------------------------------------------------------------
(* Nodes that lie on the path to n, and nodes on a path.                   *)
On(path, m) == \E k \in 1 .. Len(path) : path[k] = m

OnPathTo(tree, m, n) == \E path : Chain(tree, path) /\ path[Len(path)] = n /\ On(path, m)

(* A path ascends: parents come before their children.                     *)
LEMMA ChainAscends ==
  ASSUME NEW tree, Rooted(tree), NEW path, Chain(tree, path),
         NEW i \in 1 .. Len(path), NEW j \in 1 .. Len(path), i < j
  PROVE  path[i] < path[j]
<1> DEFINE S == {d \in Nat : i + d + 1 <= Len(path) => path[i] < path[i + d + 1]}
<1>1. /\ Len(path) \in Nat \ {0}
      /\ \A k \in 1 .. Len(path) : path[k] \in 1 .. Len(tree) /\ path[k] \in Nat
      /\ \A k \in 1 .. Len(path) - 1 : tree[path[k + 1]].parent = path[k]
      /\ \A n \in 1 .. Len(tree) : tree[n].parent \in 0 .. n - 1
  BY LenProperties DEF Chain, Rooted
<1>2. ASSUME NEW k \in 1 .. Len(path) - 1 PROVE path[k] < path[k + 1]
  <2>1. k + 1 \in 1 .. Len(path)
    BY <1>1
  <2>2. path[k + 1] \in 1 .. Len(tree) /\ path[k + 1] \in Nat /\ tree[path[k + 1]].parent = path[k]
    BY <1>1, <2>1
  <2>3. tree[path[k + 1]].parent \in 0 .. path[k + 1] - 1
    BY <1>1, <2>2
  <2> QED
    BY <2>2, <2>3
<1>3. 0 \in S
  <2>1. i + 0 + 1 = i + 1
    OBVIOUS
  <2> QED
    BY <1>1, <1>2, <2>1
<1>4. ASSUME NEW d \in Nat, d \in S PROVE d + 1 \in S
  <2> SUFFICES ASSUME i + (d + 1) + 1 <= Len(path) PROVE path[i] < path[i + (d + 1) + 1]
    OBVIOUS
  <2>1. /\ i + d + 1 \in 1 .. Len(path) - 1 /\ (i + d + 1) + 1 = i + (d + 1) + 1
        /\ i + (d + 1) + 1 \in 1 .. Len(path)
    BY <1>1
  <2>2. path[i] < path[i + d + 1]
    BY <1>1, <1>4, <2>1
  <2>3. path[i + d + 1] < path[i + (d + 1) + 1]
    BY <1>2, <2>1
  <2>4. i + d + 1 \in 1 .. Len(path)
    BY <1>1, <2>1
  <2> QED
    BY <1>1, <2>1, <2>2, <2>3, <2>4
<1> HIDE DEF S
<1>5. Nat \subseteq S
  BY <1>3, <1>4, SetInduction
<1>6. j - i - 1 \in Nat /\ i + (j - i - 1) + 1 = j
  BY <1>1
<1>7. j - i - 1 \in S
  BY <1>5, <1>6
<1> QED
  BY <1>1, <1>6, <1>7 DEF S

(* So a path that is one node shorter has all nodes but the last.          *)
LEMMA OnFront ==
  ASSUME NEW tree, Rooted(tree), NEW path, Chain(tree, path)
  PROVE  \A m : On(Front(path), m) <=> On(path, m) /\ m # path[Len(path)]
<1> DEFINE l == Len(path)
<1>1. path \in Seq(Nat) /\ l \in Nat \ {0} /\ \A k \in 1 .. l : path[k] \in Nat
  BY LenProperties DEF Chain
<1>2. Len(Front(path)) = l - 1 /\ \A k \in 1 .. l - 1 : Front(path)[k] = path[k]
  BY <1>1, FrontFacts
<1>3. \A k \in 1 .. l - 1 : path[k] < path[l] /\ k \in 1 .. l
  <2> SUFFICES ASSUME NEW k \in 1 .. l - 1 PROVE path[k] < path[l] /\ k \in 1 .. l
    OBVIOUS
  <2>1. k \in 1 .. l /\ l \in 1 .. l /\ k < l
    BY <1>1
  <2> QED
    BY <2>1, ChainAscends
<1> HIDE DEF l
<1> SUFFICES ASSUME NEW m PROVE On(Front(path), m) <=> On(path, m) /\ m # path[l]
  BY DEF l
<1>4. On(Front(path), m) => On(path, m) /\ m # path[l]
  <2> SUFFICES ASSUME NEW k \in 1 .. l - 1, Front(path)[k] = m
               PROVE  On(path, m) /\ m # path[l]
    BY <1>2 DEF On
  <2>1. path[k] = m /\ k \in 1 .. l /\ path[k] < path[l] /\ path[k] \in Nat
    BY <1>1, <1>2, <1>3
  <2>2. l \in 1 .. l
    BY <1>1
  <2> QED
    BY <1>1, <2>1, <2>2 DEF On, l
<1>5. On(path, m) /\ m # path[l] => On(Front(path), m)
  <2> SUFFICES ASSUME NEW k \in 1 .. l, path[k] = m, m # path[l]
               PROVE  On(Front(path), m)
    BY DEF On, l
  <2>1. k \in 1 .. l - 1
    BY <1>1
  <2>2. k \in 1 .. Len(Front(path)) /\ Front(path)[k] = m
    BY <1>2, <2>1
  <2> QED
    BY <2>2 DEF On
<1> QED
  BY <1>4, <1>5

LEMMA OnAppend ==
  ASSUME NEW path \in Seq(Nat), NEW n \in Nat
  PROVE  \A m : On(Append(path, n), m) <=> On(path, m) \/ m = n
<1> DEFINE l == Len(path)
           np == Append(path, n)
<1>1. /\ l \in Nat /\ Len(np) = l + 1 /\ np[l + 1] = n
      /\ \A k \in 1 .. l : np[k] = path[k]
  BY AppendProperties, LenProperties
<1> HIDE DEF np
<1> SUFFICES ASSUME NEW m PROVE On(np, m) <=> On(path, m) \/ m = n
  BY DEF np
<1>2. ASSUME On(np, m) PROVE On(path, m) \/ m = n
  <2>1. PICK k \in 1 .. l + 1 : np[k] = m
    BY <1>1, <1>2 DEF On
  <2>2. CASE k = l + 1
    BY <1>1, <2>1, <2>2
  <2>3. CASE k # l + 1
    <3>1. k \in 1 .. l
      BY <1>1, <2>3
    <3> QED
      BY <1>1, <2>1, <3>1 DEF On
  <2> QED
    BY <2>2, <2>3
<1>3. ASSUME On(path, m) PROVE On(np, m)
  <2>1. PICK k \in 1 .. l : path[k] = m
    BY <1>3 DEF On
  <2>2. k \in 1 .. l + 1 /\ np[k] = m
    BY <1>1, <2>1
  <2> QED
    BY <1>1, <2>2 DEF On
<1>4. ASSUME m = n PROVE On(np, m)
  <2>1. l + 1 \in 1 .. l + 1
    BY <1>1
  <2> QED
    BY <1>1, <1>4, <2>1 DEF On
<1> QED
  BY <1>2, <1>3, <1>4

(* A path stays one as long as the parents stay.                           *)
LEMMA ChainKept ==
  ASSUME NEW tree, NEW new, Len(tree) \in Nat, Len(new) \in Nat, Len(tree) <= Len(new),
         \A n \in 1 .. Len(tree) : new[n].parent = tree[n].parent
  PROVE  /\ \A path : Chain(tree, path) => Chain(new, path)
         /\ \A m, n : OnPathTo(tree, m, n) => OnPathTo(new, m, n)
<1>1. ASSUME NEW path, Chain(tree, path) PROVE Chain(new, path)
  <2>1. /\ path \in Seq(Nat) /\ Len(path) # 0 /\ Len(path) \in Nat
        /\ \A k \in 1 .. Len(path) : path[k] \in 1 .. Len(tree)
        /\ path[1] = ROOT
        /\ \A k \in 1 .. Len(path) - 1 : tree[path[k + 1]].parent = path[k]
    BY <1>1, LenProperties DEF Chain
  <2>2. \A k \in 1 .. Len(path) : path[k] \in 1 .. Len(new)
    BY <2>1
  <2>3. ASSUME NEW k \in 1 .. Len(path) - 1 PROVE new[path[k + 1]].parent = path[k]
    <3>1. k + 1 \in 1 .. Len(path)
      BY <2>1
    <3> QED
      BY <2>1, <3>1
  <2> QED
    BY <2>1, <2>2, <2>3 DEF Chain
<1> QED
  BY <1>1 DEF OnPathTo

-----------------------------------------------------------------------------
(* What is known of the times while the trace is read, path being the one  *)
(* to the current node: nodes off the path have been left, in the time of  *)
(* their parent, and before whatever was entered later, unless that lies   *)
(* below them.                                                             *)
Clocked(tree, time) ==
  \A n \in 1 .. Len(tree) :
    /\ tree[n].entry_time \in Nat /\ tree[n].entry_time <= time
    /\ tree[n].exit_time \in Nat /\ tree[n].exit_time <= time

Parented(tree) ==
  \A n \in 2 .. Len(tree) :
    /\ tree[n].parent \in 1 .. n - 1
    /\ tree[tree[n].parent].entry_time <= tree[n].entry_time

LeftInOrder(tree, path) ==
  /\ \A n \in 1 .. Len(tree) : ~On(path, n) => tree[n].entry_time <= tree[n].exit_time
  /\ \A n \in 2 .. Len(tree) :
       ~On(path, tree[n].parent) =>
         /\ ~On(path, n)
         /\ tree[n].exit_time <= tree[tree[n].parent].exit_time
  /\ \A m, n \in 1 .. Len(tree) :
       m < n => \/ OnPathTo(tree, m, n)
                \/ ~On(path, m) /\ tree[m].exit_time <= tree[n].entry_time

Ordered(tree, path, time) ==
  Rooted(tree) /\ Chain(tree, path) /\ Clocked(tree, time) /\ Parented(tree) /\ LeftInOrder(tree, path)

LEMMA EnterOrdered ==
  ASSUME NEW tree, NEW path, NEW time \in Nat, NEW later \in Nat, time <= later,
         Ordered(tree, path, time), NEW new, Rooted(new),
         Len(new) = Len(tree) + 1,
         \A n \in 1 .. Len(tree) : new[n] = tree[n],
         Chain(new, Append(path, Len(tree) + 1)),
         new[Len(tree) + 1].parent = path[Len(path)],
         new[Len(tree) + 1].entry_time = later,
         new[Len(tree) + 1].exit_time = 0
  PROVE  Ordered(new, Append(path, Len(tree) + 1), later)
<1> DEFINE l == Len(tree)
           m == l + 1
           np == Append(path, m)
           cur == path[Len(path)]
<1>1. /\ l \in Nat \ {0} /\ m \in Nat /\ path \in Seq(Nat) /\ Len(path) \in Nat \ {0}
      /\ \A k \in 1 .. Len(path) : path[k] \in 1 .. l
      /\ cur \in 1 .. l
      /\ \A n \in 1 .. l : new[n].parent = tree[n].parent
  <2>1. l \in Nat \ {0} /\ m \in Nat
    BY DEF Ordered, Rooted
  <2>2. path \in Seq(Nat) /\ Len(path) \in Nat \ {0} /\ \A k \in 1 .. Len(path) : path[k] \in 1 .. l
    BY LenProperties DEF Ordered, Chain
  <2>3. cur \in 1 .. l
    BY <2>2
  <2> QED
    BY <2>1, <2>2, <2>3
<1>2. \A n : On(np, n) <=> On(path, n) \/ n = m
  BY <1>1, OnAppend
<1>3. ~On(path, m) /\ On(path, cur)
  BY <1>1 DEF On
<1>4. /\ \A p : Chain(tree, p) => Chain(new, p)
      /\ \A i, n : OnPathTo(tree, i, n) => OnPathTo(new, i, n)
  BY <1>1, ChainKept
<1>5. Chain(new, np) /\ np[Len(np)] = m
  BY <1>1, AppendProperties
<1>6. /\ Len(new) = m /\ new[m].parent = cur /\ new[m].entry_time = later /\ new[m].exit_time = 0
      /\ \A n \in 1 .. l : new[n] = tree[n]
  OBVIOUS
<1> HIDE DEF m, np, cur
<1>7. \A n \in 1 .. m : n \in 1 .. l \/ n = m
  <2>1. l \in Nat /\ m = l + 1
    BY <1>1 DEF m
  <2> QED
    BY <2>1
<1>8. Clocked(new, later)
  <2> SUFFICES ASSUME NEW n \in 1 .. m
               PROVE  /\ new[n].entry_time \in Nat /\ new[n].entry_time <= later
                      /\ new[n].exit_time \in Nat /\ new[n].exit_time <= later
    BY <1>6 DEF Clocked
  <2>1. CASE n = m
    BY <1>6, <2>1
  <2>2. CASE n \in 1 .. l
    BY <1>6, <2>2 DEF Ordered, Clocked
  <2> QED
    BY <1>7, <2>1, <2>2
<1>9. Parented(new)
  <2> SUFFICES ASSUME NEW n \in 2 .. m
               PROVE  /\ new[n].parent \in 1 .. n - 1
                      /\ new[new[n].parent].entry_time <= new[n].entry_time
    BY <1>6 DEF Parented
  <2>1. CASE n = m
    <3>1. tree[cur].entry_time \in Nat /\ tree[cur].entry_time <= time
      BY <1>1 DEF Ordered, Clocked
    <3>2. cur \in 1 .. m - 1
      BY <1>1 DEF m
    <3> QED
      BY <1>1, <1>6, <2>1, <3>1, <3>2
  <2>2. CASE n # m
    <3>1. n \in 2 .. l /\ n \in 1 .. l
      BY <1>1, <2>2 DEF m
    <3>2. tree[n].parent \in 1 .. n - 1 /\ tree[tree[n].parent].entry_time <= tree[n].entry_time
      BY <3>1 DEF Ordered, Parented
    <3>3. tree[n].parent \in 1 .. l
      BY <1>1, <3>1, <3>2
    <3> QED
      BY <1>6, <3>1, <3>2, <3>3
  <2> QED
    BY <2>1, <2>2
<1>10. LeftInOrder(new, np)
  <2>1. ASSUME NEW n \in 1 .. m, ~On(np, n) PROVE new[n].entry_time <= new[n].exit_time
    <3>1. n \in 1 .. l /\ ~On(path, n)
      BY <1>2, <1>7, <2>1
    <3> QED
      BY <1>6, <3>1 DEF Ordered, LeftInOrder
  <2>2. ASSUME NEW n \in 2 .. m, ~On(np, new[n].parent)
        PROVE  ~On(np, n) /\ new[n].exit_time <= new[new[n].parent].exit_time
    <3>1. n # m
      BY <1>2, <1>3, <1>6, <2>2
    <3>2. n \in 2 .. l /\ n \in 1 .. l
      BY <1>1, <3>1 DEF m
    <3>3. tree[n].parent \in 1 .. n - 1
      BY <3>2 DEF Ordered, Parented
    <3>4. tree[n].parent \in 1 .. l
      BY <1>1, <3>2, <3>3
    <3>5. ~On(path, tree[n].parent) /\ new[n] = tree[n]
      BY <1>2, <1>6, <2>2, <3>2
    <3>6. ~On(path, n) /\ tree[n].exit_time <= tree[tree[n].parent].exit_time
      BY <3>2, <3>5 DEF Ordered, LeftInOrder
    <3> QED
      BY <1>2, <1>6, <3>1, <3>4, <3>5, <3>6
  <2>3. ASSUME NEW i \in 1 .. m, NEW n \in 1 .. m, i < n
        PROVE  \/ OnPathTo(new, i, n)
               \/ ~On(np, i) /\ new[i].exit_time <= new[n].entry_time
    <3>1. i \in 1 .. l /\ i # m
      BY <1>1, <2>3 DEF m
    <3>2. CASE n = m
      <4>1. CASE On(path, i)
        BY <1>2, <1>5, <3>2, <4>1 DEF OnPathTo
      <4>2. CASE ~On(path, i)
        <5>1. tree[i].exit_time \in Nat /\ tree[i].exit_time <= time
          BY <3>1 DEF Ordered, Clocked
        <5> QED
          BY <1>2, <1>6, <3>1, <3>2, <4>2, <5>1
      <4> QED
        BY <4>1, <4>2
    <3>3. CASE n \in 1 .. l
      <4>1. \/ OnPathTo(tree, i, n)
            \/ ~On(path, i) /\ tree[i].exit_time <= tree[n].entry_time
        BY <2>3, <3>1, <3>3 DEF Ordered, LeftInOrder
      <4> QED
        BY <1>2, <1>4, <1>6, <3>1, <3>3, <4>1
    <3> QED
      BY <1>7, <3>2, <3>3
  <2> QED
    BY <1>6, <2>1, <2>2, <2>3 DEF LeftInOrder
<1> QED
  BY <1>5, <1>8, <1>9, <1>10 DEF Ordered, np, m

(* The current node is left: everything below it has been left before.     *)
LEMMA ExitOrdered ==
  ASSUME NEW tree, NEW path, NEW time \in Nat, NEW later \in Nat, time <= later,
         Ordered(tree, path, time), NEW new, Rooted(new), Len(new) = Len(tree),
         Chain(new, Front(path)),
         \A n \in 1 .. Len(tree) :
           /\ new[n].parent = tree[n].parent
           /\ new[n].entry_time = tree[n].entry_time
           /\ new[n].exit_time = IF n = path[Len(path)] THEN later ELSE tree[n].exit_time
  PROVE  Ordered(new, Front(path), later)
<1> DEFINE l == Len(tree)
           np == Front(path)
           cur == path[Len(path)]
<1>1. /\ l \in Nat \ {0} /\ path \in Seq(Nat) /\ Len(path) \in Nat \ {0}
      /\ \A k \in 1 .. Len(path) : path[k] \in 1 .. l
      /\ cur \in 1 .. l
  BY LenProperties DEF Ordered, Rooted, Chain
<1>2. \A n : On(np, n) <=> On(path, n) /\ n # cur
  BY OnFront DEF Ordered
<1>3. On(path, cur)
  BY <1>1 DEF On
<1>4. \A i, n : OnPathTo(tree, i, n) => OnPathTo(new, i, n)
  BY <1>1, ChainKept
<1>5. ASSUME NEW n \in 1 .. l
      PROVE  /\ tree[n].entry_time \in Nat /\ tree[n].entry_time <= time
             /\ tree[n].exit_time \in Nat /\ tree[n].exit_time <= time
             /\ new[n].parent = tree[n].parent
             /\ new[n].entry_time = tree[n].entry_time
             /\ n = cur => new[n].exit_time = later
             /\ n # cur => new[n].exit_time = tree[n].exit_time
  BY DEF Ordered, Clocked
<1> HIDE DEF np, cur
<1>6. Clocked(new, later)
  <2> SUFFICES ASSUME NEW n \in 1 .. l
               PROVE  /\ new[n].entry_time \in Nat /\ new[n].entry_time <= later
                      /\ new[n].exit_time \in Nat /\ new[n].exit_time <= later
    BY DEF Clocked
  <2> QED
    BY <1>5
<1>7. ASSUME NEW n \in 2 .. l
      PROVE  /\ n \in 1 .. l /\ tree[n].parent \in 1 .. n - 1 /\ tree[n].parent \in 1 .. l
             /\ tree[tree[n].parent].entry_time <= tree[n].entry_time
  <2>1. tree[n].parent \in 1 .. n - 1 /\ tree[tree[n].parent].entry_time <= tree[n].entry_time
    BY DEF Ordered, Parented
  <2> QED
    BY <1>1, <2>1
<1>8. Parented(new)
  <2> SUFFICES ASSUME NEW n \in 2 .. l
               PROVE  /\ new[n].parent \in 1 .. n - 1
                      /\ new[new[n].parent].entry_time <= new[n].entry_time
    BY DEF Parented
  <2>1. n \in 1 .. l /\ tree[n].parent \in 1 .. l /\ tree[n].parent \in 1 .. n - 1
        /\ tree[tree[n].parent].entry_time <= tree[n].entry_time
    BY <1>7
  <2>2. new[n].parent = tree[n].parent /\ new[n].entry_time = tree[n].entry_time
    BY <1>5, <2>1
  <2>3. new[tree[n].parent].entry_time = tree[tree[n].parent].entry_time
    BY <1>5, <2>1
  <2> QED
    BY <2>1, <2>2, <2>3
<1>9. LeftInOrder(new, np)
  <2>1. ASSUME NEW n \in 1 .. l, ~On(np, n) PROVE new[n].entry_time <= new[n].exit_time
    <3>1. CASE n = cur
      BY <1>5, <3>1
    <3>2. CASE n # cur
      <4>1. tree[n].entry_time <= tree[n].exit_time
        BY <1>2, <2>1, <3>2 DEF Ordered, LeftInOrder
      <4> QED
        BY <1>5, <3>2, <4>1
    <3> QED
      BY <3>1, <3>2
  <2>2. ASSUME NEW n \in 2 .. l, ~On(np, new[n].parent)
        PROVE  ~On(np, n) /\ new[n].exit_time <= new[new[n].parent].exit_time
    <3> DEFINE p == tree[n].parent
    <3>1. n \in 1 .. l /\ p \in 1 .. l /\ p < n /\ new[n].parent = p
      BY <1>5, <1>7
    <3>2. CASE p = cur
      <4>1. ~On(np, n)
        <5> SUFFICES ASSUME NEW k \in 1 .. Len(path), path[k] = n PROVE FALSE
          BY <1>2 DEF On
        <5>1. CASE k = Len(path)
          BY <3>1, <3>2, <5>1 DEF cur
        <5>2. CASE k # Len(path)
          <6>1. k < Len(path) /\ Len(path) \in 1 .. Len(path)
            BY <1>1, <5>2
          <6>2. path[k] < path[Len(path)]
            BY <6>1, ChainAscends DEF Ordered
          <6> QED
            BY <3>1, <3>2, <6>2 DEF cur
        <5> QED
          BY <5>1, <5>2
      <4>2. n # cur
        BY <3>1, <3>2
      <4> QED
        BY <1>5, <3>1, <3>2, <4>1, <4>2
    <3>3. CASE p # cur
      <4>1. ~On(path, p)
        BY <1>2, <2>2, <3>1, <3>3
      <4>2. ~On(path, n) /\ tree[n].exit_time <= tree[p].exit_time
        BY <4>1 DEF Ordered, LeftInOrder
      <4>3. n # cur
        BY <1>3, <4>2
      <4> QED
        BY <1>2, <1>5, <3>1, <3>3, <4>2, <4>3
    <3> QED
      BY <3>2, <3>3
  <2>3. ASSUME NEW i \in 1 .. l, NEW n \in 1 .. l, i < n
        PROVE  \/ OnPathTo(new, i, n)
               \/ ~On(np, i) /\ new[i].exit_time <= new[n].entry_time
    <3>1. \/ OnPathTo(tree, i, n)
          \/ ~On(path, i) /\ tree[i].exit_time <= tree[n].entry_time
      BY <2>3 DEF Ordered, LeftInOrder
    <3>2. ~On(path, i) => i # cur
      BY <1>3
    <3> QED
      BY <1>2, <1>4, <1>5, <3>1, <3>2
  <2> QED
    BY <2>1, <2>2, <2>3 DEF LeftInOrder
<1> QED
  BY <1>6, <1>8, <1>9 DEF Ordered, np

-----------------------------------------------------------------------------
(* FoldRight settles the nodes one after the other, from the last to the   *)
(* first: t[k] is the tree with the nodes from k on settled.               *)
TreeItem(g, tree, s) ==
  IF s = {} THEN tree ELSE SettleNode([n \in DOMAIN tree |-> n][Min(s)], g[s \ {Min(s)}])

TreeStep(g, tree) ==
  g = [s \in SUBSET DOMAIN [n \in DOMAIN tree |-> n] |-> TreeItem(g, tree, s)]

TreeUpTo(g, tree, k) ==
  g = [s \in UpTo(DOMAIN [n \in DOMAIN tree |-> n], k) |-> TreeItem(g, tree, s)]

LEMMA TreesExist ==
  ASSUME NEW tree, NEW L \in Nat, DOMAIN tree = 1 .. L
  PROVE  \E g : TreeStep(g, tree)
<1> DEFINE S == DOMAIN [n \in DOMAIN tree |-> n]
           N == {k \in Nat : \E g : TreeUpTo(g, tree, k)}
<1>0. S = 1 .. L /\ IsFiniteSet(S)
  BY FS_Interval
<1> HIDE DEF S
<1>1. \A s \in SUBSET S : IsFiniteSet(s) /\ Cardinality(s) \in Nat
                          /\ Cardinality(s) <= Cardinality(S) /\ s \subseteq Nat
  <2>1. S \subseteq Nat
    BY <1>0
  <2> QED
    BY <1>0, <2>1, FS_Subset, FS_CardinalityType
<1>2. 0 \in N
  <2> DEFINE g == [s \in UpTo(S, 0) |-> tree]
  <2>1. \A s \in UpTo(S, 0) : s = {}
    BY <1>1, FS_EmptySet DEF UpTo
  <2>2. \A s \in UpTo(S, 0) : TreeItem(g, tree, s) = tree
    BY <2>1 DEF TreeItem
  <2>3. g = [s \in UpTo(S, 0) |-> TreeItem(g, tree, s)]
    BY <2>2
  <2> HIDE DEF g
  <2> QED
    BY <2>3 DEF TreeUpTo, S
<1>3. ASSUME NEW k \in Nat, k \in N PROVE k + 1 \in N
  <2>1. PICK old : TreeUpTo(old, tree, k)
    BY <1>3
  <2> DEFINE g == [s \in UpTo(S, k + 1) |-> TreeItem(old, tree, s)]
  <2>2. ASSUME NEW s \in UpTo(S, k + 1) PROVE TreeItem(g, tree, s) = TreeItem(old, tree, s)
    <3>1. CASE s = {}
      BY <3>1 DEF TreeItem
    <3>2. CASE s # {}
      <4> DEFINE r == s \ {Min(s)}
      <4>1. s \in SUBSET S /\ Cardinality(s) <= k + 1
        BY DEF UpTo
      <4>2. IsFiniteSet(s) /\ Cardinality(s) \in Nat /\ s \subseteq Nat
        BY <1>1, <4>1
      <4>3. Min(s) \in s
        BY <3>2, <4>2, MinFacts
      <4>4. Cardinality(r) = Cardinality(s) - 1 /\ Cardinality(r) \in Nat
        BY <4>2, <4>3, FS_RemoveElement, FS_CardinalityType
      <4>5. r \in SUBSET S
        BY <4>1
      <4> HIDE DEF r
      <4>6. Cardinality(r) <= k /\ Cardinality(r) <= k + 1
        BY <4>1, <4>2, <4>4
      <4>7. r \in UpTo(S, k) /\ r \in UpTo(S, k + 1)
        BY <4>5, <4>6 DEF UpTo
      <4>8. g[r] = TreeItem(old, tree, r)
        BY <4>7
      <4>9. old[r] = TreeItem(old, tree, r)
        BY <2>1, <4>7 DEF TreeUpTo, S
      <4> HIDE DEF g
      <4>10. g[s \ {Min(s)}] = old[s \ {Min(s)}]
        BY <4>8, <4>9 DEF r
      <4> HIDE DEF r
      <4> QED
        BY <4>10 DEF TreeItem
    <3> QED
      BY <3>1, <3>2
  <2>3. g = [s \in UpTo(S, k + 1) |-> TreeItem(g, tree, s)]
    BY <2>2
  <2> HIDE DEF g
  <2> QED
    BY <2>3 DEF TreeUpTo, S
<1> HIDE DEF N
<1>4. Cardinality(S) \in N
  BY <1>0, <1>2, <1>3, SetInduction, FS_CardinalityType
<1>5. UpTo(S, Cardinality(S)) = SUBSET S
  BY <1>1 DEF UpTo
<1> QED
  BY <1>4, <1>5 DEF N, TreeUpTo, TreeStep, S

LEMMA SettleSteps ==
  ASSUME NEW tree, NEW L \in Nat, DOMAIN tree = 1 .. L
  PROVE  \E t : /\ t[L + 1] = tree
                /\ \A k \in 1 .. L : t[k] = SettleNode(k, t[k + 1])
                /\ WithTimes(tree) = t[1]
<1> DEFINE g == CHOOSE q : TreeStep(q, tree)
           t == [k \in 1 .. L + 1 |-> g[k .. L]]
           D == DOMAIN [n \in DOMAIN tree |-> n]
<1>1. WithTimes(tree) = g[D]
  BY Zenon DEF WithTimes, FoldRight, MapThenFoldSet, TreeStep, TreeItem
<1>2. TreeStep(g, tree)
  BY TreesExist
<1>3. D = 1 .. L
  OBVIOUS
<1> HIDE DEF g
<1>4. \A s \in SUBSET (1 .. L) : g[s] = TreeItem(g, tree, s)
  <2>1. g = [s \in SUBSET D |-> TreeItem(g, tree, s)]
    BY <1>2 DEF TreeStep
  <2> HIDE DEF D
  <2> QED
    BY <1>3, <2>1
<1>5. t[L + 1] = tree
  <2>1. t[L + 1] = g[(L + 1) .. L] /\ (L + 1) .. L = {}
    OBVIOUS
  <2>2. g[{}] = TreeItem(g, tree, {})
    BY <1>4
  <2> QED
    BY <2>1, <2>2 DEF TreeItem
<1>6. ASSUME NEW k \in 1 .. L PROVE t[k] = SettleNode(k, t[k + 1])
  <2>1. k .. L \in SUBSET (1 .. L) /\ k \in k .. L /\ k .. L \subseteq Nat
    OBVIOUS
  <2>2. Min(k .. L) = k
    <3>1. Min(k .. L) \in k .. L /\ \A y \in k .. L : Min(k .. L) <= y
      BY <2>1, MinFacts
    <3> QED
      BY <2>1, <3>1
  <2>3. (k .. L) \ {k} = (k + 1) .. L
    OBVIOUS
  <2>4. g[k .. L] = SettleNode([n \in DOMAIN tree |-> n][k], g[(k + 1) .. L])
    <3>1. g[k .. L] = TreeItem(g, tree, k .. L)
      BY <1>4, <2>1
    <3>2. k .. L # {}
      BY <2>1
    <3> QED
      BY <2>2, <2>3, <3>1, <3>2, Zenon DEF TreeItem
  <2>5. [n \in DOMAIN tree |-> n][k] = k
    OBVIOUS
  <2>6. t[k] = g[k .. L] /\ t[k + 1] = g[(k + 1) .. L]
    OBVIOUS
  <2> HIDE DEF t
  <2> QED
    BY <2>4, <2>5, <2>6
<1>7. t[1] = g[1 .. L]
  OBVIOUS
<1> HIDE DEF t, D
<1> QED
  BY <1>1, <1>3, <1>5, <1>6, <1>7

-----------------------------------------------------------------------------
(* A tree of nodes, and one that differs from it in the times spent only.  *)
Nodes(tree, L) == L \in Nat /\ tree \in [1 .. L -> Node]

LEMMA SameLength ==
  ASSUME NEW a \in Nat, NEW b \in Nat, 1 .. a = 1 .. b
  PROVE  a = b
<1>1. a # 0 => a \in 1 .. b
  <2>1. a # 0 => a \in 1 .. a
    OBVIOUS
  <2> QED
    BY <2>1
<1>2. b # 0 => b \in 1 .. a
  <2>1. b # 0 => b \in 1 .. b
    OBVIOUS
  <2> QED
    BY <2>1
<1> QED
  BY <1>1, <1>2

LEMMA NodesAreSeq ==
  ASSUME NEW tree, NEW L, Nodes(tree, L)
  PROVE  tree \in Seq(Node) /\ Len(tree) = L
<1>1. tree \in Seq(Node)
  BY SeqDef DEF Nodes
<1>2. Len(tree) \in Nat /\ DOMAIN tree = 1 .. Len(tree) /\ DOMAIN tree = 1 .. L /\ L \in Nat
  BY <1>1, LenProperties DEF Nodes
<1>3. Len(tree) = L
  <2>1. 1 .. Len(tree) = 1 .. L
    BY <1>2
  <2> QED
    BY <1>2, <2>1, SameLength
<1> QED
  BY <1>1, <1>3

SameNode(old, new) ==
  /\ new.function = old.function /\ new.parent = old.parent /\ new.direct = old.direct
  /\ new.entry_time = old.entry_time /\ new.exit_time = old.exit_time

LEMMA SettledFacts ==
  ASSUME NEW node \in Node
  PROVE  /\ Settled(node) \in Node /\ SameNode(node, Settled(node))
         /\ Settled(node).self_time =
              node.exit_time - node.entry_time - node.children_time - node.orphan_time
         /\ Settled(node).children_time = node.children_time
         /\ Settled(node).orphan_time = node.orphan_time
BY DEF Settled, SameNode, Node

LEMMA PassedOnFacts ==
  ASSUME NEW parent \in Node, NEW node \in Node
  PROVE  /\ PassedOn(parent, node) \in Node /\ SameNode(parent, PassedOn(parent, node))
         /\ PassedOn(parent, node).self_time = parent.self_time
         /\ node.direct =>
              /\ PassedOn(parent, node).children_time =
                   parent.children_time + (node.self_time + node.children_time)
              /\ PassedOn(parent, node).orphan_time = parent.orphan_time + node.orphan_time
         /\ ~node.direct =>
              /\ PassedOn(parent, node).children_time = parent.children_time
              /\ PassedOn(parent, node).orphan_time =
                   parent.orphan_time + (node.self_time + node.children_time) + node.orphan_time
<1> DEFINE new == PassedOn(parent, node)
           Kept == new \in Node /\ SameNode(parent, new) /\ new.self_time = parent.self_time
           own == node.self_time + node.children_time
<1>0. /\ own \in Int /\ node.orphan_time \in Int
      /\ parent.children_time \in Int /\ parent.orphan_time \in Int
  BY DEF Node
<1>1. ASSUME node.direct
      PROVE  /\ Kept
             /\ new.children_time = parent.children_time + (node.self_time + node.children_time)
             /\ new.orphan_time = parent.orphan_time + node.orphan_time
  <2>1. new = [parent EXCEPT !.children_time = @ + own, !.orphan_time = @ + node.orphan_time]
    BY <1>1 DEF PassedOn
  <2> HIDE DEF new, own
  <2>2. Kept
    <3> DEFINE x == parent.children_time + own
               y == parent.orphan_time + node.orphan_time
               half == [parent EXCEPT !.children_time = x]
    <3>1. x \in Int /\ y \in Int
      BY <1>0
    <3> HIDE DEF x, y
    <3>2. half \in Node /\ SameNode(parent, half) /\ half.self_time = parent.self_time
      BY <3>1 DEF SameNode, Node
    <3>3. new = [half EXCEPT !.orphan_time = y]
      BY <2>1 DEF x, y, Node
    <3> HIDE DEF half
    <3> QED
      BY <3>1, <3>2, <3>3 DEF SameNode, Node
  <2>3. /\ new.children_time = parent.children_time + own
        /\ new.orphan_time = parent.orphan_time + node.orphan_time
    BY <1>0, <2>1 DEF Node
  <2> QED
    BY <2>2, <2>3 DEF own
<1>2. ASSUME ~node.direct
      PROVE  /\ Kept
             /\ new.children_time = parent.children_time
             /\ new.orphan_time =
                  parent.orphan_time + (node.self_time + node.children_time) + node.orphan_time
  <2>1. new = [parent EXCEPT !.orphan_time = @ + own + node.orphan_time]
    BY <1>2 DEF PassedOn
  <2> HIDE DEF new, own
  <2>2. Kept
    BY <1>0, <2>1 DEF SameNode, Node
  <2>3. /\ new.children_time = parent.children_time
        /\ new.orphan_time = parent.orphan_time + own + node.orphan_time
    BY <1>0, <2>1 DEF Node
  <2> QED
    BY <2>2, <2>3 DEF own
<1>3. Kept
  BY <1>1, <1>2
<1> QED
  BY <1>1, <1>2, <1>3, Zenon

(* One step of the aggregation: node k is settled, its parent takes what   *)
(* it passes on, and the others stay.                                      *)
LEMMA SettleOne ==
  ASSUME NEW tree, NEW L, Nodes(tree, L), NEW k \in 1 .. L, tree[k].parent # k
  PROVE  /\ Nodes(SettleNode(k, tree), L)
         /\ \A n \in 1 .. L : SameNode(tree[n], SettleNode(k, tree)[n])
         /\ SettleNode(k, tree)[k] = Settled(tree[k])
         /\ tree[k].parent \in 1 .. L =>
              SettleNode(k, tree)[tree[k].parent]
                = PassedOn(tree[tree[k].parent], Settled(tree[k]))
         /\ \A n \in 1 .. L : n # k /\ n # tree[k].parent => SettleNode(k, tree)[n] = tree[n]
<1> DEFINE node == Settled(tree[k])
           new == SettleNode(k, tree)
           p == tree[k].parent
<1>1. tree[k] \in Node
  BY DEF Nodes
<1>2. node \in Node /\ SameNode(tree[k], node) /\ node.parent = p
  BY <1>1, SettledFacts DEF SameNode
<1>3. new = [m \in 1 .. L |-> CASE m = k           -> node
                               [] m = node.parent -> PassedOn(tree[m], node)
                               [] OTHER           -> tree[m]]
  BY DEF SettleNode, Nodes
<1> HIDE DEF new, node
<1>4. new[k] = node
  BY <1>2, <1>3
<1>5. p \in 1 .. L => new[p] = PassedOn(tree[p], node)
  BY <1>2, <1>3
<1>6. \A n \in 1 .. L : n # k /\ n # p => new[n] = tree[n]
  BY <1>2, <1>3
<1>7. ASSUME NEW n \in 1 .. L PROVE new[n] \in Node /\ SameNode(tree[n], new[n])
  <2>1. tree[n] \in Node
    BY DEF Nodes
  <2>2. CASE n = k
    BY <1>2, <1>4, <2>2
  <2>3. CASE n = p
    BY <1>2, <1>5, <2>1, <2>3, PassedOnFacts
  <2>4. CASE n # k /\ n # p
    BY <1>6, <2>1, <2>4 DEF SameNode
  <2> QED
    BY <2>2, <2>3, <2>4
<1>8. Nodes(new, L)
  BY <1>3, <1>7 DEF Nodes
<1> QED
  BY <1>4, <1>5, <1>6, <1>7, <1>8 DEF new, node

-----------------------------------------------------------------------------
(* The tree new with its nodes from k on settled: each node has got the    *)
(* durations of its settled children, and from the direct ones what they   *)
(* count as their own; what a settled node has is its duration.            *)
Duration(tree) == [n \in DOMAIN tree |-> tree[n].exit_time - tree[n].entry_time]

Own(tree) == [n \in DOMAIN tree |-> tree[n].self_time + tree[n].children_time]

Children(tree, L, k, n) == {m \in k .. L : tree[m].parent = n}

DirectChildren(tree, L, k, n) == {m \in Children(tree, L, k, n) : tree[m].direct}

SettledFrom(tree, L, new, k) ==
  /\ Nodes(new, L)
  /\ \A n \in 1 .. L :
       /\ SameNode(tree[n], new[n])
       /\ new[n].children_time + new[n].orphan_time
            = SumOf(Duration(tree), Children(tree, L, k, n))
       /\ new[n].children_time = SumOf(Own(new), DirectChildren(tree, L, k, n))
       /\ n >= k => new[n].self_time + new[n].children_time + new[n].orphan_time
                      = Duration(tree)[n]

Parents(tree, L) ==
  \A n \in 1 .. L : tree[n].parent \in 0 .. n - 1

LEMMA SettledMore ==
  ASSUME NEW tree, NEW L, Nodes(tree, L), Parents(tree, L), NEW k \in 1 .. L, NEW old,
         SettledFrom(tree, L, old, k + 1)
  PROVE  SettledFrom(tree, L, SettleNode(k, old), k)
<1> DEFINE new == SettleNode(k, old)
           p == tree[k].parent
           d == Duration(tree)
<1>1. /\ L \in Nat /\ k \in Nat /\ p \in 0 .. k - 1
      /\ \A n \in 1 .. L : tree[n].entry_time \in Nat /\ tree[n].exit_time \in Nat
  BY DEF Nodes, Node, Parents
<1>2. /\ Nodes(old, L)
      /\ \A n \in 1 .. L : /\ SameNode(tree[n], old[n]) /\ old[n] \in Node
                           /\ old[n].parent = tree[n].parent
                           /\ old[n].direct = tree[n].direct
                           /\ old[n].entry_time = tree[n].entry_time
                           /\ old[n].exit_time = tree[n].exit_time
  BY DEF SettledFrom, SameNode, Nodes
<1>3. /\ \A n \in 1 .. L : d[n] = tree[n].exit_time - tree[n].entry_time /\ d[n] \in Int
      /\ \A S : S \subseteq 1 .. L => Numbered(d, S) /\ IsFiniteSet(S)
  <2>1. DOMAIN tree = 1 .. L
    BY DEF Nodes
  <2>2. \A n \in 1 .. L : d[n] = tree[n].exit_time - tree[n].entry_time
    BY <2>1 DEF Duration
  <2>3. \A n \in 1 .. L : d[n] \in Int
    BY <1>1, <2>2
  <2>4. IsFiniteSet(1 .. L)
    BY <1>1, FS_Interval
  <2> HIDE DEF d
  <2> QED
    BY <2>2, <2>3, <2>4, FS_Subset DEF Numbered
<1>4. /\ Nodes(new, L)
      /\ \A n \in 1 .. L : SameNode(old[n], new[n])
      /\ new[k] = Settled(old[k])
      /\ p \in 1 .. L => new[p] = PassedOn(old[p], new[k])
      /\ \A n \in 1 .. L : n # k /\ n # p => new[n] = old[n]
  <2>1. old[k].parent = p /\ p # k
    BY <1>1, <1>2
  <2> QED
    BY <1>2, <2>1, SettleOne
<1> HIDE DEF new
<1>5. \A n \in 1 .. L : /\ SameNode(tree[n], new[n]) /\ new[n] \in Node
                        /\ new[n].direct = tree[n].direct
  BY <1>2, <1>4 DEF SameNode, Nodes
<1>6. /\ new[k].children_time = old[k].children_time
      /\ new[k].orphan_time = old[k].orphan_time
      /\ new[k].self_time + new[k].children_time + new[k].orphan_time = d[k]
      /\ new[k].self_time \in Int /\ new[k].children_time \in Int /\ new[k].orphan_time \in Int
  <2>1. old[k] \in Node /\ new[k] \in Node
    BY <1>2, <1>5
  <2>2. /\ new[k].children_time = old[k].children_time
        /\ new[k].orphan_time = old[k].orphan_time
        /\ new[k].self_time =
             old[k].exit_time - old[k].entry_time - old[k].children_time - old[k].orphan_time
    BY <1>4, <2>1, SettledFacts
  <2>3. /\ new[k].self_time \in Int /\ old[k].children_time \in Int /\ old[k].orphan_time \in Int
        /\ old[k].exit_time \in Int /\ old[k].entry_time \in Int
    BY <2>1 DEF Node
  <2>4. d[k] = old[k].exit_time - old[k].entry_time
    BY <1>2, <1>3
  <2> HIDE DEF d
  <2> QED
    BY <2>2, <2>3, <2>4
<1>7. /\ \A n \in 1 .. L : old[n].children_time \in Int /\ old[n].orphan_time \in Int
                           /\ old[n].self_time \in Int
      /\ \A n \in 1 .. L : new[n].children_time \in Int /\ new[n].orphan_time \in Int
                           /\ new[n].self_time \in Int
  BY <1>2, <1>5 DEF Node
<1>8. /\ \A n \in 1 .. L : Own(old)[n] = old[n].self_time + old[n].children_time
      /\ \A n \in 1 .. L : Own(new)[n] = new[n].self_time + new[n].children_time
      /\ \A n \in 1 .. L : Own(old)[n] \in Int /\ Own(new)[n] \in Int
  <2>1. DOMAIN old = 1 .. L /\ DOMAIN new = 1 .. L
    BY <1>2, <1>4 DEF Nodes
  <2>2. /\ \A n \in 1 .. L : Own(old)[n] = old[n].self_time + old[n].children_time
        /\ \A n \in 1 .. L : Own(new)[n] = new[n].self_time + new[n].children_time
    BY <2>1 DEF Own
  <2> QED
    BY <1>7, <2>2
<1>9. \A n \in k + 1 .. L : n \in 1 .. L /\ new[n] = old[n] /\ Own(new)[n] = Own(old)[n]
  <2> SUFFICES ASSUME NEW n \in k + 1 .. L
               PROVE  n \in 1 .. L /\ new[n] = old[n] /\ Own(new)[n] = Own(old)[n]
    OBVIOUS
  <2>1. n \in 1 .. L /\ n # k /\ n # p
    BY <1>1
  <2>2. new[n] = old[n]
    BY <1>4, <2>1
  <2> QED
    BY <1>8, <2>1, <2>2
(* What becomes of the sets of settled children.                           *)
<1>10. ASSUME NEW n \in 1 .. L
       PROVE  /\ Children(tree, L, k + 1, n) \subseteq k + 1 .. L
              /\ k \notin Children(tree, L, k + 1, n)
              /\ n = p => Children(tree, L, k, n) = Children(tree, L, k + 1, n) \cup {k}
              /\ n # p => Children(tree, L, k, n) = Children(tree, L, k + 1, n)
              /\ DirectChildren(tree, L, k + 1, n) \subseteq k + 1 .. L
              /\ k \notin DirectChildren(tree, L, k + 1, n)
              /\ n = p /\ tree[k].direct =>
                   DirectChildren(tree, L, k, n) = DirectChildren(tree, L, k + 1, n) \cup {k}
              /\ n # p \/ ~tree[k].direct =>
                   DirectChildren(tree, L, k, n) = DirectChildren(tree, L, k + 1, n)
  <2>1. k .. L = (k + 1 .. L) \cup {k} /\ k \notin k + 1 .. L
    BY <1>1
  <2> QED
    BY <2>1 DEF Children, DirectChildren
<1>11. ASSUME NEW n \in 1 .. L
       PROVE  /\ SumOf(Own(new), DirectChildren(tree, L, k + 1, n)) = old[n].children_time
              /\ SumOf(d, Children(tree, L, k + 1, n)) = old[n].children_time + old[n].orphan_time
              /\ Numbered(Own(new), DirectChildren(tree, L, k + 1, n) \cup {k})
              /\ Numbered(d, Children(tree, L, k + 1, n) \cup {k})
              /\ IsFiniteSet(DirectChildren(tree, L, k + 1, n))
              /\ IsFiniteSet(Children(tree, L, k + 1, n))
  <2> DEFINE C == Children(tree, L, k + 1, n)
             D == DirectChildren(tree, L, k + 1, n)
  <2>1. C \subseteq k + 1 .. L /\ D \subseteq k + 1 .. L /\ k + 1 .. L \subseteq 1 .. L
    BY <1>1, <1>10
  <2>2. /\ old[n].children_time + old[n].orphan_time = SumOf(d, C)
        /\ old[n].children_time = SumOf(Own(old), D)
    BY DEF SettledFrom
  <2> HIDE DEF C, D, d
  <2>3. C \cup {k} \subseteq 1 .. L /\ D \cup {k} \subseteq 1 .. L
    BY <2>1
  <2>4. IsFiniteSet(C) /\ IsFiniteSet(D) /\ Numbered(d, C \cup {k})
    BY <1>3, <2>1, <2>3
  <2>5. Numbered(Own(new), D \cup {k}) /\ Numbered(Own(old), D)
    BY <1>8, <2>1, <2>3 DEF Numbered
  <2>6. \A m \in D : Own(old)[m] = Own(new)[m]
    BY <1>9, <2>1
  <2>7. SumOf(Own(old), D) = SumOf(Own(new), D)
    BY <2>4, <2>5, <2>6, SumSame
  <2> QED
    BY <2>2, <2>4, <2>5, <2>7 DEF C, D
<1>12. ASSUME NEW n \in 1 .. L
       PROVE  /\ new[n].children_time + new[n].orphan_time = SumOf(d, Children(tree, L, k, n))
              /\ new[n].children_time = SumOf(Own(new), DirectChildren(tree, L, k, n))
  <2>1. CASE n # p
    <3>1. /\ new[n].children_time = old[n].children_time
          /\ new[n].orphan_time = old[n].orphan_time
      BY <1>4, <1>6, <2>1
    <3> HIDE DEF d, p
    <3> QED
      BY <1>10, <1>11, <2>1, <3>1
  <2>2. CASE n = p
    <3>1. /\ new[n] = PassedOn(old[n], new[k])
          /\ old[n] \in Node /\ new[k] \in Node /\ new[k].direct = tree[k].direct
      BY <1>2, <1>4, <1>5, <2>2
    <3>2. /\ tree[k].direct =>
               /\ new[n].children_time =
                    old[n].children_time + (new[k].self_time + new[k].children_time)
               /\ new[n].orphan_time = old[n].orphan_time + new[k].orphan_time
          /\ ~tree[k].direct =>
               /\ new[n].children_time = old[n].children_time
               /\ new[n].orphan_time =
                    old[n].orphan_time + (new[k].self_time + new[k].children_time) + new[k].orphan_time
      <4> DEFINE o == old[n]
                 c == new[k]
      <4>1. o \in Node /\ c \in Node /\ new[n] = PassedOn(o, c) /\ c.direct = tree[k].direct
        BY <3>1
      <4> HIDE DEF o, c
      <4>2. /\ c.direct =>
                 /\ PassedOn(o, c).children_time = o.children_time + (c.self_time + c.children_time)
                 /\ PassedOn(o, c).orphan_time = o.orphan_time + c.orphan_time
            /\ ~c.direct =>
                 /\ PassedOn(o, c).children_time = o.children_time
                 /\ PassedOn(o, c).orphan_time =
                      o.orphan_time + (c.self_time + c.children_time) + c.orphan_time
        BY <4>1, PassedOnFacts
      <4> QED
        BY <4>1, <4>2 DEF o, c
    <3>3. SumOf(d, Children(tree, L, k, n)) = old[n].children_time + old[n].orphan_time + d[k]
      <4>1. SumOf(d, Children(tree, L, k + 1, n) \cup {k})
              = SumOf(d, Children(tree, L, k + 1, n)) + d[k]
        <5> DEFINE C == Children(tree, L, k + 1, n)
        <5>1. k \notin C /\ Numbered(d, C \cup {k}) /\ IsFiniteSet(C)
          BY <1>10, <1>11
        <5> HIDE DEF C, d
        <5>2. SumOf(d, C \cup {k}) = SumOf(d, C) + d[k]
          BY <5>1, SumAdd
        <5> QED
          BY <5>2 DEF C
      <4> HIDE DEF d
      <4> QED
        BY <1>10, <1>11, <2>2, <4>1
    <3> HIDE DEF d, p
    <3>4. /\ old[n].children_time \in Int /\ old[n].orphan_time \in Int
          /\ Own(new)[k] = new[k].self_time + new[k].children_time
      BY <1>7, <1>8
    <3>5. CASE tree[k].direct
      <4>1. SumOf(Own(new), DirectChildren(tree, L, k + 1, n) \cup {k})
              = SumOf(Own(new), DirectChildren(tree, L, k + 1, n)) + Own(new)[k]
        <5> DEFINE D == DirectChildren(tree, L, k + 1, n)
        <5>1. k \notin D /\ Numbered(Own(new), D \cup {k}) /\ IsFiniteSet(D)
          BY <1>10, <1>11
        <5> HIDE DEF D
        <5>2. SumOf(Own(new), D \cup {k}) = SumOf(Own(new), D) + Own(new)[k]
          BY <5>1, SumAdd
        <5> QED
          BY <5>2 DEF D
      <4>2. SumOf(Own(new), DirectChildren(tree, L, k, n)) = old[n].children_time + Own(new)[k]
        BY <1>10, <1>11, <2>2, <3>5, <4>1
      <4> QED
        BY <1>6, <3>2, <3>3, <3>4, <3>5, <4>2
    <3>6. CASE ~tree[k].direct
      <4>1. SumOf(Own(new), DirectChildren(tree, L, k, n)) = old[n].children_time
        BY <1>10, <1>11, <3>6
      <4> QED
        BY <1>6, <3>2, <3>3, <3>4, <3>6, <4>1
    <3> QED
      BY <3>5, <3>6
  <2> QED
    BY <2>1, <2>2
<1>13. ASSUME NEW n \in 1 .. L, n >= k
       PROVE  new[n].self_time + new[n].children_time + new[n].orphan_time = d[n]
  <2>1. CASE n = k
    BY <1>6, <2>1
  <2>2. CASE n # k
    <3>1. n \in k + 1 .. L /\ n >= k + 1
      BY <1>1, <1>13, <2>2
    <3>2. old[n].self_time + old[n].children_time + old[n].orphan_time = d[n]
      BY <3>1 DEF SettledFrom
    <3> HIDE DEF d
    <3> QED
      BY <1>9, <3>1, <3>2
  <2> QED
    BY <2>1, <2>2
<1> QED
  BY <1>4, <1>5, <1>12, <1>13 DEF SettledFrom, new

-----------------------------------------------------------------------------
(* No time spent is below zero, as long as the calls made by a function    *)
(* take no longer than the function itself.                                *)
Spent(tree, L) ==
  \A n \in 1 .. L :
    /\ tree[n].children_time >= 0 /\ tree[n].orphan_time >= 0
    /\ n # ROOT => tree[n].self_time >= 0

Fit(tree, L) ==
  \A n \in 2 .. L : SumOf(Duration(tree), Children(tree, L, n + 1, n)) <= Duration(tree)[n]

LEMMA SpentMore ==
  ASSUME NEW tree, NEW L, Nodes(tree, L), Parents(tree, L), Fit(tree, L), NEW k \in 1 .. L,
         NEW old, SettledFrom(tree, L, old, k + 1), Spent(old, L)
  PROVE  Spent(SettleNode(k, old), L)
<1> DEFINE new == SettleNode(k, old)
           p == old[k].parent
<1>1. /\ Nodes(old, L) /\ L \in Nat /\ k \in Nat
      /\ \A n \in 1 .. L : old[n] \in Node /\ old[n].children_time \in Int
                           /\ old[n].orphan_time \in Int /\ old[n].self_time \in Int
  BY DEF SettledFrom, Nodes, Node
<1>2. p \in 0 .. k - 1 /\ p # k
  <2>1. p = tree[k].parent
    BY DEF SettledFrom, SameNode
  <2> QED
    BY <1>1, <2>1 DEF Parents
<1>3. /\ Nodes(new, L)
      /\ new[k] = Settled(old[k])
      /\ p \in 1 .. L => new[p] = PassedOn(old[p], new[k])
      /\ \A n \in 1 .. L : n # k /\ n # p => new[n] = old[n]
  BY <1>1, <1>2, SettleOne
<1> HIDE DEF new
<1>4. new[k] \in Node /\ old[k] \in Node
  BY <1>1, <1>3 DEF Nodes
<1>5. /\ new[k].self_time =
           old[k].exit_time - old[k].entry_time - old[k].children_time - old[k].orphan_time
      /\ new[k].children_time = old[k].children_time
      /\ new[k].orphan_time = old[k].orphan_time
  BY <1>3, <1>4, SettledFacts
<1>6. k # ROOT => new[k].self_time >= 0
  <2> SUFFICES ASSUME k # ROOT PROVE new[k].self_time >= 0
    OBVIOUS
  <2> DEFINE s == SumOf(Duration(tree), Children(tree, L, k + 1, k))
  <2>1. k \in 2 .. L
    BY DEF ROOT
  <2>2. s <= Duration(tree)[k]
    BY <2>1 DEF Fit
  <2>3. Duration(tree)[k] = tree[k].exit_time - tree[k].entry_time
    BY DEF Duration, Nodes
  <2>4. /\ tree[k].exit_time = old[k].exit_time /\ tree[k].entry_time = old[k].entry_time
        /\ old[k].children_time + old[k].orphan_time = s
    BY DEF SettledFrom, SameNode
  <2>5. old[k].exit_time \in Int /\ old[k].entry_time \in Int
    BY <1>4 DEF Node
  <2> HIDE DEF s
  <2> QED
    BY <1>1, <1>5, <2>2, <2>3, <2>4, <2>5
<1> SUFFICES ASSUME NEW n \in 1 .. L
             PROVE  /\ new[n].children_time >= 0 /\ new[n].orphan_time >= 0
                    /\ n # ROOT => new[n].self_time >= 0
  BY DEF Spent, new
<1>7. CASE n = k
  BY <1>5, <1>6, <1>7 DEF Spent
<1>8. CASE n = p
  <2> DEFINE o == old[n]
             c == new[k]
  <2>1. o \in Node /\ c \in Node /\ new[n] = PassedOn(o, c)
    BY <1>1, <1>3, <1>4, <1>8
  <2>2. k # ROOT
    BY <1>2, <1>8 DEF ROOT
  <2>3. /\ c.self_time >= 0 /\ c.children_time >= 0 /\ c.orphan_time >= 0
        /\ o.children_time >= 0 /\ o.orphan_time >= 0 /\ (n # ROOT => o.self_time >= 0)
    BY <1>5, <1>6, <2>2 DEF Spent
  <2>4. /\ c.self_time \in Int /\ c.children_time \in Int /\ c.orphan_time \in Int
        /\ o.children_time \in Int /\ o.orphan_time \in Int
    BY <2>1 DEF Node
  <2> HIDE DEF o, c
  <2>5. /\ new[n].self_time = o.self_time
        /\ c.direct =>
             /\ new[n].children_time = o.children_time + (c.self_time + c.children_time)
             /\ new[n].orphan_time = o.orphan_time + c.orphan_time
        /\ ~c.direct =>
             /\ new[n].children_time = o.children_time
             /\ new[n].orphan_time =
                  o.orphan_time + (c.self_time + c.children_time) + c.orphan_time
    BY <2>1, PassedOnFacts
  <2>6. CASE c.direct
    BY <2>3, <2>4, <2>5, <2>6
  <2>7. CASE ~c.direct
    BY <2>3, <2>4, <2>5, <2>7
  <2> QED
    BY <2>6, <2>7
<1>9. CASE n # k /\ n # p
  BY <1>3, <1>9 DEF Spent
<1> QED
  BY <1>7, <1>8, <1>9

(* All nodes settled.                                                      *)
Blank(tree, L) ==
  \A n \in 1 .. L :
    tree[n].self_time = 0 /\ tree[n].children_time = 0 /\ tree[n].orphan_time = 0

LEMMA WithTimesSettled ==
  ASSUME NEW tree, NEW L, Nodes(tree, L), L # 0, Parents(tree, L), Blank(tree, L), Fit(tree, L)
  PROVE  /\ SettledFrom(tree, L, WithTimes(tree), 1)
         /\ Spent(WithTimes(tree), L)
<1>1. L \in Nat \ {0} /\ DOMAIN tree = 1 .. L
  BY DEF Nodes
<1>2. PICK t : /\ t[L + 1] = tree
               /\ \A k \in 1 .. L : t[k] = SettleNode(k, t[k + 1])
               /\ WithTimes(tree) = t[1]
  BY <1>1, SettleSteps
<1> DEFINE Good(k) == SettledFrom(tree, L, t[k], k) /\ Spent(t[k], L)
           S == {d \in Nat : d <= L => Good(L + 1 - d)}
<1>3. Good(L + 1)
  <2>1. \A n \in 1 .. L : /\ Children(tree, L, L + 1, n) = {}
                          /\ DirectChildren(tree, L, L + 1, n) = {}
    BY <1>1 DEF Children, DirectChildren
  <2>2. \A w : SumOf(w, {}) = 0
    <3>1. IsFiniteSet({}) /\ \A w : Numbered(w, {})
      BY FS_EmptySet DEF Numbered
    <3> QED
      BY <3>1, SumSplit
  <2>3. \A n \in 1 .. L : SameNode(tree[n], tree[n]) /\ ~(n >= L + 1)
    BY <1>1 DEF SameNode
  <2>4. \A n \in 1 .. L :
          /\ tree[n].self_time = 0 /\ tree[n].children_time = 0 /\ tree[n].orphan_time = 0
    BY DEF Blank
  <2>5. SettledFrom(tree, L, tree, L + 1)
    BY <2>1, <2>2, <2>3, <2>4 DEF SettledFrom
  <2>6. Spent(tree, L)
    BY <2>4 DEF Spent
  <2> QED
    BY <1>2, <2>5, <2>6
<1>4. ASSUME NEW k \in 1 .. L, Good(k + 1) PROVE Good(k)
  <2>1. t[k] = SettleNode(k, t[k + 1])
    BY <1>2
  <2> QED
    BY <1>4, <2>1, SettledMore, SpentMore
<1> HIDE DEF Good
<1>5. 0 \in S
  <2>1. L + 1 - 0 = L + 1
    BY <1>1
  <2> QED
    BY <1>3, <2>1
<1>6. ASSUME NEW d \in Nat, d \in S PROVE d + 1 \in S
  <2> SUFFICES ASSUME d + 1 <= L PROVE Good(L + 1 - (d + 1))
    OBVIOUS
  <2>1. L + 1 - (d + 1) \in 1 .. L /\ (L + 1 - (d + 1)) + 1 = L + 1 - d /\ d <= L
    BY <1>1
  <2>2. Good(L + 1 - d)
    BY <1>6, <2>1
  <2>3. Good((L + 1 - (d + 1)) + 1)
    BY <2>1, <2>2
  <2> QED
    BY <1>4, <2>1, <2>3
<1> HIDE DEF S
<1>7. Nat \subseteq S
  BY <1>5, <1>6, SetInduction
<1>8. Good(1)
  <2>1. L \in S /\ L + 1 - L = 1
    BY <1>1, <1>7
  <2> QED
    BY <1>1, <2>1 DEF S
<1> QED
  BY <1>2, <1>8 DEF Good

-----------------------------------------------------------------------------
(* The tree when all nodes have been left: the intervals of calls lie in   *)
(* those of their callers, and those of calls of which none lies on the    *)
(* path to the other follow each other.                                    *)
Nested(tree, L, time) ==
  /\ Nodes(tree, L) /\ Len(tree) = L /\ Rooted(tree) /\ Clocked(tree, time)
  /\ \A n \in 2 .. L :
       /\ tree[n].parent \in 1 .. n - 1
       /\ tree[n].entry_time <= tree[n].exit_time
       /\ tree[tree[n].parent].entry_time <= tree[n].entry_time
       /\ tree[n].parent # ROOT => tree[n].exit_time <= tree[tree[n].parent].exit_time
  /\ \A m, n \in 2 .. L :
       m < n => OnPathTo(tree, m, n) \/ tree[m].exit_time <= tree[n].entry_time

LEMMA LeftAll ==
  ASSUME NEW tree, NEW path, NEW time \in Nat, NEW later \in Nat, time <= later,
         Nodes(tree, Len(tree)), Ordered(tree, path, time), NEW new, Nodes(new, Len(tree)),
         Len(new) = Len(tree),
         \A n \in 1 .. Len(tree) :
           /\ new[n].parent = tree[n].parent
           /\ new[n].entry_time = tree[n].entry_time
           /\ new[n].exit_time = IF On(path, n) /\ n # ROOT THEN later ELSE tree[n].exit_time
  PROVE  Nested(new, Len(tree), later)
<1> DEFINE L == Len(tree)
<1>1. /\ L \in Nat \ {0} /\ Len(new) = L /\ Rooted(tree)
      /\ \A n \in 1 .. L : n \in 2 .. L <=> n # ROOT
      /\ \A n \in 2 .. L : n \in 1 .. L /\ n # ROOT
  BY DEF Ordered, Rooted, ROOT
<1>2. \A m, n : OnPathTo(tree, m, n) => OnPathTo(new, m, n)
  BY <1>1, ChainKept
<1>3. Rooted(new)
  <2>1. new[ROOT].parent = tree[ROOT].parent
    BY <1>1 DEF ROOT
  <2> QED
    BY <1>1, <2>1 DEF Rooted
<1> HIDE DEF L
<1>4. ASSUME NEW n \in 1 .. L
      PROVE  /\ tree[n].entry_time \in Nat /\ tree[n].entry_time <= time
             /\ tree[n].exit_time \in Nat /\ tree[n].exit_time <= time
             /\ new[n].parent = tree[n].parent
             /\ new[n].entry_time = tree[n].entry_time
             /\ On(path, n) /\ n # ROOT => new[n].exit_time = later
             /\ ~On(path, n) => new[n].exit_time = tree[n].exit_time
             /\ new[n].exit_time \in {later, tree[n].exit_time}
  BY DEF Ordered, Clocked, L
<1>5. ASSUME NEW n \in 2 .. L
      PROVE  /\ tree[n].parent \in 1 .. n - 1 /\ tree[n].parent \in 1 .. L
             /\ tree[tree[n].parent].entry_time <= tree[n].entry_time
             /\ ~On(path, n) => tree[n].entry_time <= tree[n].exit_time
             /\ ~On(path, tree[n].parent) =>
                  /\ ~On(path, n)
                  /\ tree[n].exit_time <= tree[tree[n].parent].exit_time
  <2>1. /\ tree[n].parent \in 1 .. n - 1
        /\ tree[tree[n].parent].entry_time <= tree[n].entry_time
    BY DEF Ordered, Parented, L
  <2>2. tree[n].parent \in 1 .. L
    BY <1>1, <2>1
  <2>3. ~On(path, n) => tree[n].entry_time <= tree[n].exit_time
    BY <1>1 DEF Ordered, LeftInOrder, L
  <2>4. ~On(path, tree[n].parent) =>
          /\ ~On(path, n)
          /\ tree[n].exit_time <= tree[tree[n].parent].exit_time
    BY DEF Ordered, LeftInOrder, L
  <2> QED
    BY <2>1, <2>2, <2>3, <2>4
<1>6. Clocked(new, later)
  <2> SUFFICES ASSUME NEW n \in 1 .. L
               PROVE  /\ new[n].entry_time \in Nat /\ new[n].entry_time <= later
                      /\ new[n].exit_time \in Nat /\ new[n].exit_time <= later
    BY <1>1 DEF Clocked
  <2> QED
    BY <1>4
<1>7. ASSUME NEW n \in 2 .. L
      PROVE  /\ new[n].parent \in 1 .. n - 1
             /\ new[n].entry_time <= new[n].exit_time
             /\ new[new[n].parent].entry_time <= new[n].entry_time
             /\ new[n].parent # ROOT => new[n].exit_time <= new[new[n].parent].exit_time
  <2> DEFINE p == tree[n].parent
  <2>1. n \in 1 .. L /\ n # ROOT /\ new[n].parent = p /\ p \in 1 .. L
    BY <1>1, <1>4, <1>5
  <2>2. new[n].entry_time <= new[n].exit_time
    <3>1. CASE On(path, n)
      BY <1>4, <2>1, <3>1
    <3>2. CASE ~On(path, n)
      BY <1>4, <1>5, <2>1, <3>2
    <3> QED
      BY <3>1, <3>2
  <2>3. p # ROOT => new[n].exit_time <= new[p].exit_time
    <3>1. CASE On(path, p)
      <4>1. p # ROOT => new[p].exit_time = later
        BY <1>4, <2>1, <3>1
      <4>2. p # ROOT => new[n].exit_time <= later
        BY <1>4, <2>1
      <4> QED
        BY <4>1, <4>2
    <3>2. CASE ~On(path, p)
      <4>1. new[p].exit_time = tree[p].exit_time
        BY <1>4, <2>1, <3>2
      <4>2. ~On(path, n) /\ tree[n].exit_time <= tree[p].exit_time
        BY <1>5, <3>2
      <4>3. new[n].exit_time = tree[n].exit_time
        BY <1>4, <2>1, <4>2
      <4> QED
        BY <4>1, <4>2, <4>3
    <3> QED
      BY <3>1, <3>2
  <2>4. new[p].entry_time <= new[n].entry_time /\ p \in 1 .. n - 1
    BY <1>4, <1>5, <2>1
  <2> HIDE DEF p
  <2> QED
    BY <2>1, <2>2, <2>3, <2>4
<1>8. ASSUME NEW m \in 2 .. L, NEW n \in 2 .. L, m < n
      PROVE  OnPathTo(new, m, n) \/ new[m].exit_time <= new[n].entry_time
  <2>1. \/ OnPathTo(tree, m, n)
        \/ ~On(path, m) /\ tree[m].exit_time <= tree[n].entry_time
    BY <1>1, <1>8 DEF Ordered, LeftInOrder, L
  <2> QED
    BY <1>1, <1>2, <1>4, <2>1
<1> QED
  BY <1>1, <1>3, <1>6, <1>7, <1>8 DEF Nested, L

(* No call lies on the path to a call of the same caller.                  *)
LEMMA SiblingsApart ==
  ASSUME NEW tree, Rooted(tree), NEW m \in 1 .. Len(tree), NEW n \in 2 .. Len(tree), m < n,
         tree[m].parent = tree[n].parent
  PROVE  ~OnPathTo(tree, m, n)
<1> SUFFICES ASSUME NEW path, Chain(tree, path), path[Len(path)] = n,
                    NEW k \in 1 .. Len(path), path[k] = m
             PROVE  FALSE
  BY DEF OnPathTo, On
<1> DEFINE l == Len(path)
<1>1. /\ l \in Nat \ {0} /\ Len(tree) \in Nat /\ path[1] = ROOT
      /\ \A i \in 1 .. l : path[i] \in 1 .. Len(tree)
      /\ \A i \in 1 .. l - 1 : tree[path[i + 1]].parent = path[i]
      /\ \A i \in 1 .. Len(tree) : tree[i].parent \in 0 .. i - 1
  BY LenProperties DEF Chain, Rooted
<1> HIDE DEF l
<1>2. k # l /\ l # 1
  BY <1>1 DEF ROOT, l
<1>3. l - 1 \in 1 .. l - 1 /\ l - 1 \in 1 .. l /\ k \in 1 .. l - 1 /\ (l - 1) + 1 = l
  BY <1>1, <1>2 DEF l
<1>4. path[l - 1] = tree[n].parent
  BY <1>1, <1>3 DEF l
<1>5. path[k] <= path[l - 1]
  <2>1. CASE k = l - 1
    BY <1>1, <1>3, <2>1
  <2>2. CASE k # l - 1
    <3>0. k < l - 1 /\ k \in 1 .. l /\ l - 1 \in 1 .. l
      <4>1. l \in Nat /\ k \in 1 .. l - 1
        BY <1>1, <1>3
      <4> QED
        BY <1>3, <2>2, <4>1
    <3>1. k < l - 1 /\ k \in 1 .. Len(path) /\ l - 1 \in 1 .. Len(path)
      BY <3>0 DEF l
    <3>2. path[k] < path[l - 1]
      BY <3>1, ChainAscends
    <3> QED
      BY <1>1, <1>3, <3>2
  <2> QED
    BY <2>1, <2>2
<1>6. tree[m].parent \in 0 .. m - 1
  BY <1>1
<1> QED
  BY <1>1, <1>4, <1>5, <1>6

(* So the calls made by a function fit into its time.                      *)
LEMMA NestedFits ==
  ASSUME NEW tree, NEW L, NEW time \in Nat, Nested(tree, L, time)
  PROVE  L # 0 /\ Parents(tree, L) /\ Fit(tree, L)
<1>1. /\ L \in Nat \ {0} /\ Len(tree) = L /\ Rooted(tree) /\ DOMAIN tree = 1 .. L
      /\ \A n \in 1 .. L : tree[n].entry_time \in Nat /\ tree[n].exit_time \in Nat
  BY DEF Nested, Rooted, Nodes, Clocked
<1>2. Parents(tree, L)
  BY <1>1 DEF Rooted, Parents
<1>3. ASSUME NEW n \in 2 .. L
      PROVE  SumOf(Duration(tree), Children(tree, L, n + 1, n)) <= Duration(tree)[n]
  <2> DEFINE C == Children(tree, L, n + 1, n)
             w == Duration(tree)
             begin == [m \in 1 .. L |-> tree[m].entry_time]
             end == [m \in 1 .. L |-> tree[m].exit_time]
  <2>1. /\ C \subseteq 2 .. L /\ C \subseteq 1 .. L /\ C \subseteq Nat
        /\ \A m \in C : tree[m].parent = n
    BY <1>1 DEF Children
  <2>2. IsFiniteSet(C)
    <3>1. IsFiniteSet(1 .. L)
      BY <1>1, FS_Interval
    <3> HIDE DEF C
    <3> QED
      BY <2>1, <3>1, FS_Subset
  <2>3. n # ROOT /\ n \in 1 .. L
    BY <1>1 DEF ROOT
  <2> HIDE DEF C
  <2>4. \A m \in C : /\ tree[n].entry_time <= tree[m].entry_time
                     /\ tree[m].entry_time <= tree[m].exit_time
                     /\ tree[m].exit_time <= tree[n].exit_time
    <3> SUFFICES ASSUME NEW m \in C
                 PROVE  /\ tree[n].entry_time <= tree[m].entry_time
                        /\ tree[m].entry_time <= tree[m].exit_time
                        /\ tree[m].exit_time <= tree[n].exit_time
      OBVIOUS
    <3>1. m \in 2 .. L /\ tree[m].parent = n
      BY <2>1
    <3> QED
      BY <2>3, <3>1 DEF Nested
  <2>5. \A m, i \in C : m < i => tree[m].exit_time <= tree[i].entry_time
    <3> SUFFICES ASSUME NEW m \in C, NEW i \in C, m < i
                 PROVE  tree[m].exit_time <= tree[i].entry_time
      OBVIOUS
    <3>1. m \in 2 .. L /\ m \in 1 .. L /\ i \in 2 .. L /\ tree[m].parent = tree[i].parent
      BY <2>1
    <3>2. ~OnPathTo(tree, m, i)
      BY <1>1, <3>1, SiblingsApart
    <3> QED
      BY <3>1, <3>2 DEF Nested
  <2>6. /\ \A m \in 1 .. L : w[m] = tree[m].exit_time - tree[m].entry_time
        /\ \A m \in 1 .. L : begin[m] = tree[m].entry_time /\ end[m] = tree[m].exit_time
    BY <1>1 DEF Duration
  <2> HIDE DEF w, begin, end
  <2>7. \A m \in C : /\ begin[m] \in Int /\ end[m] \in Int /\ w[m] = end[m] - begin[m]
                     /\ begin[n] <= begin[m] /\ begin[m] <= end[m] /\ end[m] <= end[n]
    <3> SUFFICES ASSUME NEW m \in C
                 PROVE  /\ begin[m] \in Int /\ end[m] \in Int /\ w[m] = end[m] - begin[m]
                        /\ begin[n] <= begin[m] /\ begin[m] <= end[m] /\ end[m] <= end[n]
      OBVIOUS
    <3>1. m \in 1 .. L
      BY <2>1
    <3>2. /\ tree[m].entry_time \in Nat /\ tree[m].exit_time \in Nat
          /\ begin[m] = tree[m].entry_time /\ end[m] = tree[m].exit_time
          /\ begin[n] = tree[n].entry_time /\ end[n] = tree[n].exit_time
          /\ w[m] = tree[m].exit_time - tree[m].entry_time
      BY <1>1, <2>3, <2>6, <3>1
    <3> QED
      BY <2>4, <3>2
  <2>8. \A m, i \in C : m < i => end[m] <= begin[i]
    BY <2>1, <2>5, <2>6
  <2>9. begin[n] \in Int /\ end[n] \in Int /\ begin[n] <= end[n]
    <3>1. tree[n].entry_time <= tree[n].exit_time
      BY DEF Nested
    <3> QED
      BY <1>1, <2>3, <2>6, <3>1
  <2>10. SumOf(w, C) <= end[n] - begin[n]
    BY <2>1, <2>2, <2>7, <2>8, <2>9, IntervalsFit
  <2> QED
    BY <2>3, <2>6, <2>10 DEF C, w
<1> QED
  BY <1>1, <1>2, <1>3 DEF Fit

-----------------------------------------------------------------------------
(* What the tree looks like, and what is known of its times: while the     *)
(* trace is read, and when all is settled.                                 *)
Formed(tree) ==
  /\ tree[ROOT].function = Spontaneous
  /\ \A n \in 2 .. Len(tree) :
       /\ tree[n].function \in Function
       /\ tree[n].parent \in 1 .. n - 1
       /\ tree[n].direct => tree[n].parent # ROOT

Unsettled(tree) == Nodes(tree, Len(tree)) /\ Blank(tree, Len(tree)) /\ Formed(tree)

Reading ==
  /\ skewed => call_tree_current_node = NULL
  /\ ~skewed => Ordered(call_tree, PathTo(call_tree, call_tree_current_node), clock)

Complete(tree) ==
  /\ Nested(tree, Len(call_tree), clock) /\ Formed(tree)
  /\ SettledFrom(tree, Len(call_tree), call_tree, 1)
  /\ Spent(call_tree, Len(call_tree))

TimesInv ==
  /\ clock \in Nat
  /\ status \in {"reading", "done", "segfault"}
  /\ status # "done" => Unsettled(call_tree)
  /\ status = "reading" => Reading
  /\ status = "done" => \E tree : Complete(tree)

LEMMA InitTimes == Init => TimesInv
<1> SUFFICES ASSUME Init PROVE TimesInv
  OBVIOUS
<1>1. /\ Len(call_tree) = 1 /\ call_tree \in [1 .. 1 -> Node]
      /\ call_tree[1] = NewNode(Spontaneous, 0, NULL, FALSE)
      /\ \A n \in 1 .. Len(call_tree) : n = 1
  <2> DEFINE node == NewNode(Spontaneous, 0, NULL, FALSE)
  <2>1. node \in Node
    BY DEF NewNode, Node, NULL
  <2>2. call_tree = <<node>>
    BY DEF Init
  <2> HIDE DEF node
  <2>3. Len(call_tree) = 1 /\ call_tree \in [1 .. 1 -> Node] /\ call_tree[1] = node
    BY <2>1, <2>2
  <2> QED
    BY <2>3 DEF node
<1>2. /\ call_tree[1].function = Spontaneous /\ call_tree[1].parent = NULL
      /\ call_tree[1].entry_time = 0 /\ call_tree[1].exit_time = 0
      /\ call_tree[1].self_time = 0 /\ call_tree[1].children_time = 0
      /\ call_tree[1].orphan_time = 0
  <2> DEFINE node == NewNode(Spontaneous, 0, NULL, FALSE)
  <2>1. /\ node.function = Spontaneous /\ node.parent = NULL
        /\ node.entry_time = 0 /\ node.exit_time = 0
        /\ node.self_time = 0 /\ node.children_time = 0 /\ node.orphan_time = 0
    BY DEF NewNode
  <2> HIDE DEF node
  <2>2. call_tree[1] = node
    BY <1>1 DEF node
  <2> QED
    BY <2>1, <2>2
<1> HIDE DEF Init
<1>3. Rooted(call_tree)
  <2>1. \A n \in 1 .. Len(call_tree) : call_tree[n].parent = 0 /\ n = 1
    BY <1>1, <1>2 DEF NULL
  <2>2. \A n \in 1 .. Len(call_tree) : call_tree[n].parent \in 0 .. n - 1
    BY <2>1
  <2> QED
    <3>1. Len(call_tree) \in Nat \ {0}
      BY <1>1
    <3>2. call_tree[ROOT].parent = NULL
      BY <1>2 DEF ROOT
    <3> QED
      BY <2>2, <3>1, <3>2 DEF Rooted
<1> DEFINE path == <<ROOT>>
<1>4. Chain(call_tree, path) /\ path[Len(path)] = ROOT
  BY <1>1 DEF Chain, ROOT
<1>5. PathTo(call_tree, call_tree_current_node) = path
  BY <1>3, <1>4, PathOfChain DEF Init
<1>6. Ordered(call_tree, path, clock)
  <2>1. On(path, 1)
    BY DEF On, ROOT
  <2>2. Clocked(call_tree, clock)
    <3>1. clock = 0
      BY DEF Init
    <3> SUFFICES ASSUME NEW n \in 1 .. Len(call_tree)
                 PROVE  /\ call_tree[n].entry_time \in Nat /\ call_tree[n].entry_time <= clock
                        /\ call_tree[n].exit_time \in Nat /\ call_tree[n].exit_time <= clock
      BY DEF Clocked
    <3>2. n = 1
      BY <1>1
    <3> QED
      BY <1>2, <3>1, <3>2
  <2>3. Parented(call_tree)
    BY <1>1 DEF Parented
  <2>4. LeftInOrder(call_tree, path)
    BY <1>1, <2>1 DEF LeftInOrder
  <2> QED
    BY <1>3, <1>4, <2>2, <2>3, <2>4 DEF Ordered
<1>7. Nodes(call_tree, Len(call_tree)) /\ Blank(call_tree, Len(call_tree)) /\ Formed(call_tree)
  <2>1. Nodes(call_tree, Len(call_tree))
    BY <1>1 DEF Nodes
  <2>2. Blank(call_tree, Len(call_tree))
    BY <1>1, <1>2 DEF Blank
  <2>3. 2 .. Len(call_tree) = {}
    BY <1>1
  <2>4. Formed(call_tree)
    BY <1>2, <2>3 DEF Formed, ROOT
  <2> QED
    BY <2>1, <2>2, <2>4
<1> QED
  BY <1>5, <1>6, <1>7 DEF Init, TimesInv, Reading, Unsettled

LEMMA EnterTimes ==
  ASSUME Inv, StackInv, TimesInv, NEW f \in Function, NEW symbol \in Symbols,
         function_enter(f, symbol), StackInv'
  PROVE  TimesInv'
<1> DEFINE cur == call_tree_current_node
           L == Len(call_tree)
<1>1. /\ status = "reading" /\ status' = "reading" /\ skewed' = skewed /\ cur # NULL
      /\ cur' = Len(call_tree') /\ entered' = Append(entered, f)
      /\ call_tree' = Append(call_tree, NewNode(f, clock', cur, IsDirect(symbol)))
  BY DEF function_enter, NextEvent
<1>2. clock \in Nat /\ clock' \in Nat /\ clock <= clock'
  BY DurationsAssumption DEF function_enter, Tick, TimesInv
<1>3. /\ Reading /\ ~skewed /\ entered \in Seq(Function)
      /\ Nodes(call_tree, L) /\ Blank(call_tree, L) /\ Formed(call_tree)
      /\ Ordered(call_tree, PathTo(call_tree, cur), clock)
  BY <1>1 DEF TimesInv, Reading, Unsettled, StackInv
<1>4. L \in Nat \ {0} /\ DOMAIN call_tree = 1 .. L /\ Rooted(call_tree)
  BY <1>3 DEF Nodes, Rooted, Ordered
<1>5. PICK path : Stacked(call_tree, cur, entered, path) /\ PathTo(call_tree, cur) = path
  <2>1. PICK path : Stacked(call_tree, cur, entered, path)
    BY <1>1, <1>3 DEF StackInv
  <2> QED
    BY <1>4, <2>1, PathOfChain DEF Stacked
<1>6. Chain(call_tree, path) /\ path[Len(path)] = cur /\ cur \in 1 .. L
  <2>1. Len(path) \in 1 .. Len(path)
    BY <1>5, LenProperties DEF Stacked, Chain
  <2> QED
    BY <1>5, <2>1 DEF Stacked, Chain
<1> DEFINE node == NewNode(f, clock', cur, IsDirect(symbol))
<1>7. /\ node \in Node /\ node.function = f /\ node.parent = cur /\ node.direct = IsDirect(symbol)
      /\ node.entry_time = clock' /\ node.exit_time = 0
      /\ node.self_time = 0 /\ node.children_time = 0 /\ node.orphan_time = 0
  <2>1. IsDirect(symbol) \in BOOLEAN
    BY DEF IsDirect
  <2>2. cur \in Nat
    BY <1>4, <1>6
  <2> HIDE DEF cur
  <2> QED
    BY <1>2, <2>1, <2>2 DEF NewNode, Node
<1>8. node.direct => cur # ROOT
  <2>1. IsDirect(symbol) => call_tree[cur].parent # NULL
    BY DEF IsDirect, Current
  <2> QED
    BY <1>4, <1>7, <2>1 DEF Rooted
<1> HIDE DEF node
<1>9. /\ Len(call_tree') = L + 1
      /\ \A n \in 1 .. L : call_tree'[n] = call_tree[n]
      /\ call_tree'[L + 1] = node
      /\ Nodes(call_tree', L + 1)
  <2>1. call_tree \in Seq(Node)
    BY <1>3, NodesAreSeq
  <2>2. call_tree' = Append(call_tree, node)
    BY <1>1 DEF node
  <2>3. /\ call_tree' \in Seq(Node) /\ Len(call_tree') = L + 1
        /\ \A n \in 1 .. L : call_tree'[n] = call_tree[n]
        /\ call_tree'[L + 1] = node
    BY <1>7, <2>1, <2>2, AppendProperties
  <2>4. call_tree' \in [1 .. L + 1 -> Node]
    BY <2>3, LenProperties
  <2> QED
    BY <1>4, <2>3, <2>4 DEF Nodes
<1>10. /\ Rooted(call_tree')
       /\ Stacked(call_tree', L + 1, Append(entered, f), Append(path, L + 1))
  BY <1>3, <1>4, <1>5, <1>7, <1>9, EnterStack
<1>11. PathTo(call_tree', cur') = Append(path, L + 1)
  <2> DEFINE np == Append(path, L + 1)
  <2>1. Chain(call_tree', np) /\ np[Len(np)] = cur'
    BY <1>1, <1>9, <1>10 DEF Stacked
  <2> HIDE DEF np
  <2>2. PathTo(call_tree', cur') = np
    BY <1>10, <2>1, PathOfChain
  <2> QED
    BY <2>2 DEF np
<1>12. Ordered(call_tree', Append(path, L + 1), clock')
  <2>1. Chain(call_tree', Append(path, L + 1))
    BY <1>10 DEF Stacked
  <2>2. Ordered(call_tree, path, clock)
    BY <1>3, <1>5
  <2> QED
    BY <1>2, <1>6, <1>7, <1>9, <1>10, <2>1, <2>2, EnterOrdered
<1>13. Blank(call_tree', L + 1)
  <2> SUFFICES ASSUME NEW n \in 1 .. L + 1
               PROVE  /\ call_tree'[n].self_time = 0 /\ call_tree'[n].children_time = 0
                      /\ call_tree'[n].orphan_time = 0
    BY DEF Blank
  <2>1. CASE n = L + 1
    BY <1>7, <1>9, <2>1
  <2>2. CASE n # L + 1
    <3>1. n \in 1 .. L
      BY <1>4, <2>2
    <3> QED
      BY <1>3, <1>9, <3>1 DEF Blank
  <2> QED
    BY <2>1, <2>2
<1>14. Formed(call_tree')
  <2>1. call_tree'[ROOT] = call_tree[ROOT]
    BY <1>4, <1>9 DEF ROOT
  <2>2. ASSUME NEW n \in 2 .. L + 1
        PROVE  /\ call_tree'[n].function \in Function
               /\ call_tree'[n].parent \in 1 .. n - 1
               /\ call_tree'[n].direct => call_tree'[n].parent # ROOT
    <3>1. CASE n = L + 1
      BY <1>4, <1>6, <1>7, <1>8, <1>9, <3>1
    <3>2. CASE n # L + 1
      <4>1. n \in 1 .. L /\ n \in 2 .. L
        BY <1>4, <3>2
      <4> QED
        BY <1>3, <1>9, <4>1 DEF Formed
    <3> QED
      BY <3>1, <3>2
  <2> QED
    BY <1>3, <1>9, <2>1, <2>2 DEF Formed
<1>15. Reading'
  BY <1>1, <1>3, <1>11, <1>12 DEF Reading
<1>16. Unsettled(call_tree')
  BY <1>9, <1>13, <1>14 DEF Unsettled
<1> QED
  BY <1>1, <1>2, <1>15, <1>16 DEF TimesInv

(* The node left is the current one, and its parent is current then.       *)
LEMMA ExitTimes ==
  ASSUME Inv, StackInv, TimesInv, function_exit, StackInv'
  PROVE  TimesInv'
<1> DEFINE cur == call_tree_current_node
           L == Len(call_tree)
<1>1. /\ status = "reading" /\ status' = "reading" /\ cur # NULL
      /\ skewed' = (skewed \/ entered = <<>>)
      /\ entered' = IF entered = <<>> THEN <<>> ELSE Front(entered)
      /\ cur' = call_tree[cur].parent
      /\ call_tree' = [call_tree EXCEPT ![cur].exit_time = clock']
  BY DEF function_exit, NextEvent, Above, Left
<1>2. clock \in Nat /\ clock' \in Nat /\ clock <= clock'
  BY DurationsAssumption DEF function_exit, Tick, TimesInv
<1>3. /\ Reading /\ ~skewed /\ entered \in Seq(Function)
      /\ Nodes(call_tree, L) /\ Blank(call_tree, L) /\ Formed(call_tree)
      /\ Ordered(call_tree, PathTo(call_tree, cur), clock)
  BY <1>1 DEF TimesInv, Reading, Unsettled, StackInv
<1>4. L \in Nat \ {0} /\ DOMAIN call_tree = 1 .. L /\ Rooted(call_tree)
  BY <1>3 DEF Nodes, Rooted, Ordered
<1>5. PICK path : Stacked(call_tree, cur, entered, path) /\ PathTo(call_tree, cur) = path
  <2>1. PICK path : Stacked(call_tree, cur, entered, path)
    BY <1>1, <1>3 DEF StackInv
  <2> QED
    BY <1>4, <2>1, PathOfChain DEF Stacked
<1>6. Chain(call_tree, path) /\ path[Len(path)] = cur /\ cur \in 1 .. L
  <2>1. Len(path) \in 1 .. Len(path)
    BY <1>5, LenProperties DEF Stacked, Chain
  <2> QED
    BY <1>5, <2>1 DEF Stacked, Chain
<1> HIDE DEF cur
<1>7. ASSUME NEW n \in 1 .. L
      PROVE  /\ call_tree'[n] \in Node
             /\ call_tree'[n].function = call_tree[n].function
             /\ call_tree'[n].parent = call_tree[n].parent
             /\ call_tree'[n].direct = call_tree[n].direct
             /\ call_tree'[n].entry_time = call_tree[n].entry_time
             /\ call_tree'[n].exit_time = IF n = cur THEN clock' ELSE call_tree[n].exit_time
             /\ call_tree'[n].self_time = call_tree[n].self_time
             /\ call_tree'[n].children_time = call_tree[n].children_time
             /\ call_tree'[n].orphan_time = call_tree[n].orphan_time
  <2>1. call_tree[n] \in Node
    BY <1>3 DEF Nodes
  <2>2. CASE n = cur
    <3>1. call_tree'[n] = [call_tree[n] EXCEPT !.exit_time = clock']
      BY <1>1, <1>4, <1>6, <2>2
    <3> QED
      BY <1>2, <2>1, <2>2, <3>1 DEF Node
  <2>3. CASE n # cur
    <3>1. call_tree'[n] = call_tree[n]
      BY <1>1, <1>4, <1>6, <2>3
    <3> QED
      BY <2>1, <2>3, <3>1
  <2> QED
    BY <2>2, <2>3
<1>8. Nodes(call_tree', L) /\ Len(call_tree') = L
  <2>1. call_tree' = [n \in 1 .. L |-> call_tree'[n]]
    BY <1>1, <1>4
  <2>2. \A n \in 1 .. L : call_tree'[n] \in Node
    BY <1>7
  <2>3. call_tree' \in [1 .. L -> Node]
    BY <2>1, <2>2
  <2>4. Nodes(call_tree', L)
    BY <1>4, <2>3 DEF Nodes
  <2> QED
    BY <2>4, NodesAreSeq
<1>9. Blank(call_tree', L)
  BY <1>3, <1>7 DEF Blank
<1>10. Formed(call_tree')
  <2>1. /\ ROOT \in 1 .. L
        /\ \A n \in 2 .. L : n \in 1 .. L
    BY <1>4 DEF ROOT
  <2>2. call_tree'[ROOT].function = Spontaneous
    BY <1>3, <1>7, <2>1 DEF Formed
  <2>3. ASSUME NEW n \in 2 .. L
        PROVE  /\ call_tree'[n].function \in Function /\ call_tree'[n].parent \in 1 .. n - 1
               /\ call_tree'[n].direct => call_tree'[n].parent # ROOT
    <3>1. /\ call_tree[n].function \in Function /\ call_tree[n].parent \in 1 .. n - 1
          /\ call_tree[n].direct => call_tree[n].parent # ROOT
      BY <1>3 DEF Formed
    <3>2. /\ call_tree'[n].function = call_tree[n].function /\ call_tree'[n].parent = call_tree[n].parent
          /\ call_tree'[n].direct = call_tree[n].direct
      BY <1>7, <2>1
    <3> QED
      BY <3>1, <3>2
  <2> QED
    BY <1>8, <2>2, <2>3 DEF Formed
<1>13. Unsettled(call_tree')
  BY <1>8, <1>9, <1>10 DEF Unsettled
<1>11. CASE entered = <<>>
  <2>1. path[1] = ROOT /\ Len(path) = 1
    <3>1. Len(path) - 1 = 0 /\ Len(path) \in Nat
      BY <1>5, <1>6, <1>11, LenProperties DEF Stacked, Chain
    <3> QED
      BY <1>6, <3>1 DEF Chain
  <2>2. cur' = NULL
    BY <1>1, <1>4, <1>6, <2>1 DEF Rooted
  <2>3. skewed' = TRUE
    BY <1>1, <1>11
  <2>4. Reading'
    BY <2>2, <2>3 DEF Reading, cur
  <2> QED
    BY <1>1, <1>2, <1>13, <2>4 DEF TimesInv
<1>12. CASE entered # <<>>
  <2>1. ~skewed' /\ entered' = Front(entered)
    BY <1>1, <1>3, <1>12
  <2>2. Stacked(call_tree, call_tree[cur].parent, Front(entered), Front(path))
    BY <1>3, <1>4, <1>5, <1>12, ExitStack
  <2>3. /\ Rooted(call_tree')
        /\ Stacked(call_tree', cur', Front(entered), Front(path))
    <3>1. /\ Rooted(call_tree')
          /\ \A node, names, p : Stacked(call_tree, node, names, p) =>
                                   Stacked(call_tree', node, names, p)
      BY <1>4, <1>7, <1>8, SameStack
    <3> QED
      BY <1>1, <2>2, <3>1
  <2>4. Chain(call_tree', Front(path)) /\ PathTo(call_tree', cur') = Front(path)
    <3> DEFINE np == Front(path)
    <3>1. Chain(call_tree', np) /\ np[Len(np)] = cur'
      BY <2>3 DEF Stacked
    <3> HIDE DEF np
    <3>2. PathTo(call_tree', cur') = np
      BY <2>3, <3>1, PathOfChain
    <3> QED
      BY <3>1, <3>2 DEF np
  <2>5. Ordered(call_tree', Front(path), clock')
    <3>1. Ordered(call_tree, path, clock)
      BY <1>3, <1>5
    <3> QED
      BY <1>2, <1>6, <1>7, <1>8, <2>3, <2>4, <3>1, ExitOrdered
  <2>6. Reading'
    BY <2>1, <2>4, <2>5 DEF Reading, cur
  <2> QED
    BY <1>1, <1>2, <1>13, <2>6 DEF TimesInv
<1> QED
  BY <1>11, <1>12

(* At the end of the trace, the nodes on the path are left.                *)
LEMMA TailOn ==
  ASSUME NEW tree, Rooted(tree), NEW path, Chain(tree, path)
  PROVE  \A m : m \in ToSet(Tail(path)) <=> On(path, m) /\ m # ROOT
<1> DEFINE l == Len(path)
           r == Tail(path)
<1>1. /\ path \in Seq(Nat) /\ l \in Nat \ {0} /\ path[1] = ROOT
      /\ \A k \in 1 .. l : path[k] \in Nat
  BY LenProperties DEF Chain
<1>2. /\ r \in Seq(Nat) /\ Len(r) = l - 1
      /\ \A k \in 1 .. l - 1 : r[k] = path[k + 1]
  BY <1>1, HeadTailProperties, EmptySeq
<1>3. \A m : m \in ToSet(r) <=> \E k \in 1 .. l - 1 : r[k] = m
  <2>1. DOMAIN r = 1 .. l - 1
    BY <1>2, LenProperties
  <2> HIDE DEF r, l
  <2> QED
    BY <2>1 DEF ToSet
<1>4. \A k \in 1 .. l : k # 1 => path[k] # ROOT
  <2> SUFFICES ASSUME NEW k \in 1 .. l, k # 1 PROVE path[k] # ROOT
    OBVIOUS
  <2>1. 1 \in 1 .. l /\ 1 < k
    BY <1>1
  <2>2. path[1] < path[k]
    BY <2>1, ChainAscends
  <2> QED
    BY <1>1, <2>1, <2>2 DEF ROOT
<1> SUFFICES ASSUME NEW m PROVE m \in ToSet(r) <=> On(path, m) /\ m # ROOT
  OBVIOUS
<1> HIDE DEF r
<1>5. ASSUME m \in ToSet(r) PROVE On(path, m) /\ m # ROOT
  <2>1. PICK k \in 1 .. l - 1 : r[k] = m
    BY <1>3, <1>5
  <2>2. k + 1 \in 1 .. l /\ k + 1 # 1
    BY <1>1, <2>1
  <2>3. path[k + 1] = m
    BY <1>2, <2>1
  <2> QED
    BY <1>4, <2>2, <2>3 DEF On
<1>6. ASSUME On(path, m), m # ROOT PROVE m \in ToSet(r)
  <2>1. PICK k \in 1 .. l : path[k] = m
    BY <1>6 DEF On
  <2>2. k # 1
    BY <1>1, <1>6, <2>1
  <2> HIDE DEF l
  <2>3. k - 1 \in 1 .. l - 1 /\ (k - 1) + 1 = k
    BY <1>1, <2>1, <2>2
  <2>4. r[k - 1] = m
    BY <1>2, <2>1, <2>3
  <2> QED
    BY <1>3, <2>3, <2>4
<1> QED
  BY <1>5, <1>6 DEF r

LEMMA ExitAllTimes ==
  ASSUME Inv, StackInv, TimesInv, function_exit_all
  PROVE  /\ TimesInv'
         /\ Len(call_tree') = Len(call_tree)
         /\ \A n \in 1 .. Len(call_tree) :
              /\ call_tree'[n].function = call_tree[n].function
              /\ call_tree'[n].parent = call_tree[n].parent
              /\ call_tree'[n].direct = call_tree[n].direct
<1> DEFINE cur == call_tree_current_node
           L == Len(call_tree)
           tree == AllLeft(clock')
<1>1. /\ status = "reading" /\ status' = "done" /\ cur # NULL
      /\ call_tree' = WithTimes(tree)
  BY DEF function_exit_all
<1>2. clock \in Nat /\ clock' \in Nat /\ clock <= clock'
  BY DurationsAssumption DEF function_exit_all, TimesInv
<1>3. /\ Reading /\ ~skewed /\ entered \in Seq(Function)
      /\ Nodes(call_tree, L) /\ Blank(call_tree, L) /\ Formed(call_tree)
      /\ Ordered(call_tree, PathTo(call_tree, cur), clock)
  BY <1>1 DEF TimesInv, Reading, Unsettled, StackInv
<1>4. L \in Nat \ {0} /\ DOMAIN call_tree = 1 .. L /\ Rooted(call_tree)
  BY <1>3 DEF Nodes, Rooted, Ordered
<1>5. PICK path : /\ PathTo(call_tree, cur) = path
                  /\ Chain(call_tree, path) /\ Ordered(call_tree, path, clock)
  BY <1>3 DEF Ordered
<1>6. \A n : n \in OpenNodes <=> On(path, n) /\ n # ROOT
  BY <1>4, <1>5, TailOn DEF OpenNodes
<1>7. tree = [n \in 1 .. L |-> IF n \in OpenNodes THEN [call_tree[n] EXCEPT !.exit_time = clock']
                               ELSE call_tree[n]]
  BY <1>4 DEF AllLeft
<1> HIDE DEF tree
<1>8. ASSUME NEW n \in 1 .. L
      PROVE  /\ tree[n] \in Node
             /\ tree[n].function = call_tree[n].function
             /\ tree[n].parent = call_tree[n].parent
             /\ tree[n].direct = call_tree[n].direct
             /\ tree[n].entry_time = call_tree[n].entry_time
             /\ tree[n].exit_time =
                  IF On(path, n) /\ n # ROOT THEN clock' ELSE call_tree[n].exit_time
             /\ tree[n].self_time = call_tree[n].self_time
             /\ tree[n].children_time = call_tree[n].children_time
             /\ tree[n].orphan_time = call_tree[n].orphan_time
  <2>1. call_tree[n] \in Node
    BY <1>3 DEF Nodes
  <2>2. CASE n \in OpenNodes
    <3>1. tree[n] = [call_tree[n] EXCEPT !.exit_time = clock'] /\ On(path, n) /\ n # ROOT
      BY <1>6, <1>7, <2>2
    <3> QED
      BY <1>2, <2>1, <3>1 DEF Node
  <2>3. CASE n \notin OpenNodes
    <3>1. tree[n] = call_tree[n] /\ ~(On(path, n) /\ n # ROOT)
      BY <1>6, <1>7, <2>3
    <3> QED
      BY <2>1, <3>1
  <2> QED
    BY <2>2, <2>3
<1>9. Nodes(tree, L) /\ Len(tree) = L
  <2>1. tree = [n \in 1 .. L |-> tree[n]]
    BY <1>7
  <2>2. \A n \in 1 .. L : tree[n] \in Node
    BY <1>8
  <2>3. tree \in [1 .. L -> Node]
    BY <2>1, <2>2
  <2>4. Nodes(tree, L)
    BY <1>4, <2>3 DEF Nodes
  <2> QED
    BY <2>4, NodesAreSeq
<1>10. Nested(tree, L, clock')
  BY <1>2, <1>3, <1>5, <1>8, <1>9, LeftAll
<1>11. Blank(tree, L)
  BY <1>3, <1>8 DEF Blank
<1>12. Formed(tree)
  <2>1. /\ ROOT \in 1 .. L
        /\ \A n \in 2 .. L : n \in 1 .. L
    BY <1>4 DEF ROOT
  <2>2. tree[ROOT].function = Spontaneous
    BY <1>3, <1>8, <2>1 DEF Formed
  <2>3. ASSUME NEW n \in 2 .. L
        PROVE  /\ tree[n].function \in Function /\ tree[n].parent \in 1 .. n - 1
               /\ tree[n].direct => tree[n].parent # ROOT
    <3>1. /\ call_tree[n].function \in Function /\ call_tree[n].parent \in 1 .. n - 1
          /\ call_tree[n].direct => call_tree[n].parent # ROOT
      BY <1>3 DEF Formed
    <3>2. /\ tree[n].function = call_tree[n].function /\ tree[n].parent = call_tree[n].parent
          /\ tree[n].direct = call_tree[n].direct
      BY <1>8, <2>1
    <3> QED
      BY <3>1, <3>2
  <2> QED
    BY <1>9, <2>2, <2>3 DEF Formed
<1>13. SettledFrom(tree, L, call_tree', 1) /\ Spent(call_tree', L)
  <2>1. L # 0 /\ Parents(tree, L) /\ Fit(tree, L)
    BY <1>2, <1>10, NestedFits
  <2> QED
    BY <1>1, <1>9, <1>11, <2>1, WithTimesSettled
<1>14. Len(call_tree') = L
  <2>1. Nodes(call_tree', L)
    BY <1>13 DEF SettledFrom
  <2> QED
    BY <2>1, NodesAreSeq
<1>16. \A n \in 1 .. L : /\ call_tree'[n].function = call_tree[n].function
                        /\ call_tree'[n].parent = call_tree[n].parent
                        /\ call_tree'[n].direct = call_tree[n].direct
  BY <1>8, <1>13 DEF SettledFrom, SameNode
<1> HIDE DEF L
<1>15. \E t : Nested(t, L, clock') /\ Formed(t) /\ SettledFrom(t, L, call_tree', 1) /\ Spent(call_tree', L)
  BY <1>10, <1>12, <1>13
<1>17. TimesInv'
  BY <1>1, <1>2, <1>14, <1>15 DEF TimesInv, Complete
<1> QED
  BY <1>14, <1>16, <1>17 DEF L

-----------------------------------------------------------------------------
LEMMA NextTimes == Inv /\ StackInv /\ TimesInv /\ [Next]_vars /\ StackInv' => TimesInv'
<1> SUFFICES ASSUME Inv, StackInv, TimesInv, [Next]_vars, StackInv' PROVE TimesInv'
  OBVIOUS
<1>1. ASSUME NEW f \in Function, NEW symbol \in Symbols, function_enter(f, symbol)
      PROVE  TimesInv'
  BY <1>1, EnterTimes
<1>2. CASE function_exit
  BY <1>2, ExitTimes
<1>3. CASE function_exit_all
  BY <1>3, ExitAllTimes
<1>4. CASE Dereference
  BY <1>4 DEF Dereference, TimesInv
<1>5. CASE UNCHANGED vars
  BY <1>5 DEF vars, TimesInv, Unsettled, Reading, Complete
<1> QED
  BY <1>1, <1>2, <1>3, <1>4, <1>5 DEF Next

THEOREM SpecTimes == Spec => []TimesInv
<1> QED
  BY InitTimes, NextTimes, SpecInv, SpecStack, PTL DEF Spec

(* The intervals of children and orphans lie in that of their parent and   *)
(* follow each other, for any trace: a node of the tree is left no later   *)
(* than the one above, whether by an exit or by the end of the trace.      *)
THEOREM SpecIntervalsNested == Spec => []IntervalsNested
<1>1. TimesInv => IntervalsNested
  <2> SUFFICES ASSUME TimesInv, status = "done",
                      NEW m \in DOMAIN call_tree \ {ROOT}, NEW n \in DOMAIN call_tree \ {ROOT}
               PROVE  /\ call_tree[m].entry_time <= call_tree[m].exit_time
                      /\ call_tree[m].parent = n =>
                           /\ call_tree[n].entry_time <= call_tree[m].entry_time
                           /\ call_tree[m].exit_time <= call_tree[n].exit_time
                      /\ call_tree[m].parent = call_tree[n].parent /\ m < n =>
                           call_tree[m].exit_time <= call_tree[n].entry_time
    BY DEF IntervalsNested
  <2> DEFINE L == Len(call_tree)
  <2>1. PICK tree : Complete(tree)
    BY DEF TimesInv
  <2>2. /\ Nested(tree, L, clock) /\ Rooted(tree) /\ Len(tree) = L /\ L \in Nat \ {0}
        /\ DOMAIN call_tree = 1 .. L
        /\ \A i \in 1 .. L : /\ call_tree[i].parent = tree[i].parent
                             /\ call_tree[i].entry_time = tree[i].entry_time
                             /\ call_tree[i].exit_time = tree[i].exit_time
    BY <2>1 DEF Complete, Nested, Rooted, SettledFrom, SameNode, Nodes
  <2> HIDE DEF L
  <2>3. m \in 2 .. L /\ m \in 1 .. L /\ n \in 2 .. L /\ n \in 1 .. L /\ n # ROOT
    BY <2>2 DEF ROOT
  <2>4. tree[m].entry_time <= tree[m].exit_time
    BY <2>2, <2>3 DEF Nested
  <2>5. ASSUME tree[m].parent = n
        PROVE  tree[n].entry_time <= tree[m].entry_time /\ tree[m].exit_time <= tree[n].exit_time
    BY <2>2, <2>3, <2>5 DEF Nested
  <2>6. ASSUME tree[m].parent = tree[n].parent, m < n
        PROVE  tree[m].exit_time <= tree[n].entry_time
    <3>1. ~OnPathTo(tree, m, n)
      BY <2>2, <2>3, <2>6, SiblingsApart
    <3> QED
      BY <2>2, <2>3, <2>6, <3>1 DEF Nested
  <2> QED
    BY <2>2, <2>3, <2>4, <2>5, <2>6
<1> QED
  BY <1>1, SpecTimes, PTL

-----------------------------------------------------------------------------
(* The times of nodes, or of functions, and their sums.                    *)
SelfTimes(ns) == [x \in DOMAIN ns |-> ns[x].self_time]

ChildrenTimes(ns) == [x \in DOMAIN ns |-> ns[x].children_time]

(* The equations of the recursion in the sums of the aggregation.          *)
SelfStep(g, ns, S) ==
  g = [s \in SUBSET S |->
         IF s = {} THEN 0
         ELSE ns[CHOOSE x \in s : TRUE].self_time + g[s \ {CHOOSE x \in s : TRUE}]]

ChildrenStep(g, ns, S) ==
  g = [s \in SUBSET S |->
         IF s = {} THEN 0
         ELSE ns[CHOOSE x \in s : TRUE].children_time + g[s \ {CHOOSE x \in s : TRUE}]]

LEMMA SelfTimesAreSum ==
  ASSUME NEW ns, NEW S, IsFiniteSet(S), S \subseteq DOMAIN ns,
         \A x \in S : ns[x].self_time \in Int
  PROVE  /\ MapThenSumSet(LAMBDA x : ns[x].self_time, S) = SumOf(SelfTimes(ns), S)
         /\ Numbered(SelfTimes(ns), S)
<1> DEFINE w == SelfTimes(ns)
           m == MapThenSumSet(LAMBDA x : ns[x].self_time, S)
<1>1. m = (CHOOSE g : SelfStep(g, ns, S))[S]
  BY Zenon DEF MapThenSumSet, MapThenFoldSet, SelfStep
<1>2. Numbered(w, S) /\ \A x \in S : w[x] = ns[x].self_time
  BY DEF SelfTimes, Numbered
<1>3. \A g : SelfStep(g, ns, S) <=> SumStep(g, w, S)
  <2> SUFFICES ASSUME NEW g PROVE SelfStep(g, ns, S) <=> SumStep(g, w, S)
    OBVIOUS
  <2>1. \A s \in SUBSET S : s # {} => Chosen(s) \in s
    BY DEF Chosen
  <2> DEFINE item(s) == IF s = {} THEN 0 ELSE ns[Chosen(s)].self_time + g[s \ {Chosen(s)}]
  <2>2. SelfStep(g, ns, S) <=> g = [s \in SUBSET S |-> item(s)]
    BY DEF SelfStep, Chosen
  <2>3. \A s \in SUBSET S : item(s) = SumItem(g, w, s)
    BY <1>2, <2>1 DEF SumItem
  <2> HIDE DEF item
  <2>4. [s \in SUBSET S |-> item(s)] = [s \in SUBSET S |-> SumItem(g, w, s)]
    BY <2>3
  <2> QED
    BY <2>2, <2>4 DEF SumStep
<1> HIDE DEF w, m
<1>4. PICK g : SelfStep(g, ns, S)
  BY <1>2, <1>3, SumExists
<1>5. SelfStep((CHOOSE h : SelfStep(h, ns, S)), ns, S)
  BY <1>4
<1>6. PICK h : SelfStep(h, ns, S) /\ m = h[S]
  BY <1>1, <1>5
<1>7. h[S] = SumOf(w, S)
  BY <1>2, <1>3, <1>6, SumIs
<1> QED
  BY <1>2, <1>6, <1>7 DEF w, m

LEMMA ChildrenTimesAreSum ==
  ASSUME NEW ns, NEW S, IsFiniteSet(S), S \subseteq DOMAIN ns,
         \A x \in S : ns[x].children_time \in Int
  PROVE  /\ MapThenSumSet(LAMBDA x : ns[x].children_time, S) = SumOf(ChildrenTimes(ns), S)
         /\ Numbered(ChildrenTimes(ns), S)
<1> DEFINE w == ChildrenTimes(ns)
           m == MapThenSumSet(LAMBDA x : ns[x].children_time, S)
<1>1. m = (CHOOSE g : ChildrenStep(g, ns, S))[S]
  BY Zenon DEF MapThenSumSet, MapThenFoldSet, ChildrenStep
<1>2. Numbered(w, S) /\ \A x \in S : w[x] = ns[x].children_time
  BY DEF ChildrenTimes, Numbered
<1>3. \A g : ChildrenStep(g, ns, S) <=> SumStep(g, w, S)
  <2> SUFFICES ASSUME NEW g PROVE ChildrenStep(g, ns, S) <=> SumStep(g, w, S)
    OBVIOUS
  <2>1. \A s \in SUBSET S : s # {} => Chosen(s) \in s
    BY DEF Chosen
  <2> DEFINE item(s) == IF s = {} THEN 0 ELSE ns[Chosen(s)].children_time + g[s \ {Chosen(s)}]
  <2>2. ChildrenStep(g, ns, S) <=> g = [s \in SUBSET S |-> item(s)]
    BY DEF ChildrenStep, Chosen
  <2>3. \A s \in SUBSET S : item(s) = SumItem(g, w, s)
    BY <1>2, <2>1 DEF SumItem
  <2> HIDE DEF item
  <2>4. [s \in SUBSET S |-> item(s)] = [s \in SUBSET S |-> SumItem(g, w, s)]
    BY <2>3
  <2> QED
    BY <2>2, <2>4 DEF SumStep
<1> HIDE DEF w, m
<1>4. PICK g : ChildrenStep(g, ns, S)
  BY <1>2, <1>3, SumExists
<1>5. ChildrenStep((CHOOSE h : ChildrenStep(h, ns, S)), ns, S)
  BY <1>4
<1>6. PICK h : ChildrenStep(h, ns, S) /\ m = h[S]
  BY <1>1, <1>5
<1>7. h[S] = SumOf(w, S)
  BY <1>2, <1>3, <1>6, SumIs
<1> QED
  BY <1>2, <1>6, <1>7 DEF w, m

(* The times handed out are sums of those of nodes.                        *)
LEMMA TotalFacts ==
  ASSUME NEW tree, NEW L, Nodes(tree, L), NEW nodes, nodes \subseteq 1 .. L
  PROVE  /\ Total(tree, nodes).self_time = SumOf(SelfTimes(tree), nodes)
         /\ Total(tree, nodes).children_time
              = SumOf(ChildrenTimes(tree), {n \in nodes : Outermost(tree, n)})
         /\ Total(tree, nodes).self_time \in Int
         /\ Total(tree, nodes).children_time \in Int
<1> DEFINE primary == {n \in nodes : Outermost(tree, n)}
<1>1. IsFiniteSet(nodes) /\ IsFiniteSet(primary)
  <2>1. IsFiniteSet(1 .. L)
    BY FS_Interval DEF Nodes
  <2> HIDE DEF primary
  <2>2. \A S : S \subseteq 1 .. L => IsFiniteSet(S)
    BY <2>1, FS_Subset
  <2> QED
    BY <2>2 DEF primary
<1>2. \A n \in 1 .. L : tree[n].self_time \in Int /\ tree[n].children_time \in Int
  BY DEF Nodes, Node
<1>3. DOMAIN tree = 1 .. L
  BY DEF Nodes
<1> DEFINE selves == MapThenSumSet(LAMBDA n : tree[n].self_time, nodes)
           below == MapThenSumSet(LAMBDA n : tree[n].children_time, primary)
<1>4. selves = SumOf(SelfTimes(tree), nodes) /\ selves \in Int
  <2>1. selves = SumOf(SelfTimes(tree), nodes) /\ Numbered(SelfTimes(tree), nodes)
    BY <1>1, <1>2, <1>3, SelfTimesAreSum
  <2> HIDE DEF selves
  <2> QED
    BY <1>1, <2>1, SumSplit
<1>5. below = SumOf(ChildrenTimes(tree), primary) /\ below \in Int
  <2>0. primary \subseteq 1 .. L
    OBVIOUS
  <2>1. below = SumOf(ChildrenTimes(tree), primary) /\ Numbered(ChildrenTimes(tree), primary)
    <3> HIDE DEF primary
    <3> QED
      BY <1>1, <1>2, <1>3, <2>0, ChildrenTimesAreSum
  <2> HIDE DEF below, primary
  <2> QED
    BY <1>1, <2>1, SumSplit
<1>6. Total(tree, nodes) = [self_time |-> selves, children_time |-> below]
  BY DEF Total
<1> HIDE DEF selves, below
<1> QED
  BY <1>4, <1>5, <1>6 DEF primary

(* What the array of functions holds.                                      *)
CallTypes(fs) ==
  \A f \in DOMAIN fs :
    /\ fs[f].calls \in Nat \ {0}
    /\ \A c \in DOMAIN fs[f].callers : fs[f].callers[c] \in Call
    /\ \A g \in DOMAIN fs[f].callees : fs[f].callees[g] \in Call

LEMMA OneMoreTypes ==
  ASSUME NEW ns, \A m \in DOMAIN ns : ns[m] \in Call, NEW n
  PROVE  \A m \in DOMAIN OneMoreCall(ns, n) : OneMoreCall(ns, n)[m] \in Call
<1> DEFINE ms == OneMoreCall(ns, n)
<1>1. /\ DOMAIN ms = DOMAIN ns \cup {n}
      /\ \A m \in DOMAIN ns : m # n => ms[m] = ns[m]
      /\ ms[n] = OneMore(ns, n)
  BY OneMoreCallFacts
<1>2. OneMore(ns, n) \in Call
  BY DEF OneMore, NoCalls, Call
<1> HIDE DEF ms
<1>3. \A m \in DOMAIN ms : ms[m] \in Call
  BY <1>1, <1>2
<1> QED
  BY <1>3 DEF ms

LEMMA CountTypes ==
  ASSUME NEW fs, GoodFunctions(fs), CallTypes(fs), NEW f \in Function,
         NEW c \in DOMAIN fs \cup {Spontaneous}
  PROVE  CallTypes(CountCallee(CountCaller(fs, f, c), f, c))
<1> DEFINE K == Known(fs, f)
           G == CountCallee(CountCaller(fs, f, c), f, c)
<1>1. /\ DOMAIN G = DOMAIN K
      /\ \A g \in DOMAIN K :
           /\ G[g].calls = IF g = f THEN K[g].calls + 1 ELSE K[g].calls
           /\ G[g].callers = IF g = f THEN OneMoreCall(K[g].callers, c) ELSE K[g].callers
           /\ G[g].callees = IF g = c THEN OneMoreCall(K[g].callees, f) ELSE K[g].callees
  BY CountFields
<1>2. /\ DOMAIN K = DOMAIN fs \cup {f}
      /\ \A g \in DOMAIN fs : K[g] = fs[g]
      /\ f \notin DOMAIN fs => K[f] = NewFunction
  BY DEF Known
<1>3. /\ NewFunction.calls = 0
      /\ DOMAIN NewFunction.callers = {} /\ DOMAIN NewFunction.callees = {}
  BY DEF NewFunction
<1> HIDE DEF K, G
<1>4. ASSUME NEW g \in DOMAIN K
      PROVE  /\ K[g].calls \in Nat /\ (g # f => K[g].calls # 0)
             /\ \A m \in DOMAIN K[g].callers : K[g].callers[m] \in Call
             /\ \A m \in DOMAIN K[g].callees : K[g].callees[m] \in Call
  <2>1. CASE g \in DOMAIN fs
    BY <1>2, <2>1 DEF CallTypes
  <2>2. CASE g \notin DOMAIN fs
    BY <1>2, <1>3, <2>2
  <2> QED
    BY <2>1, <2>2
<1>5. ASSUME NEW g \in DOMAIN K
      PROVE  /\ G[g].calls \in Nat \ {0}
             /\ \A m \in DOMAIN G[g].callers : G[g].callers[m] \in Call
             /\ \A m \in DOMAIN G[g].callees : G[g].callees[m] \in Call
  <2>1. G[g].calls \in Nat \ {0}
    <3>1. K[g].calls \in Nat /\ (g # f => K[g].calls # 0)
      BY <1>4
    <3>2. G[g].calls = IF g = f THEN K[g].calls + 1 ELSE K[g].calls
      BY <1>1
    <3> QED
      BY <3>1, <3>2
  <2>2. \A m \in DOMAIN G[g].callers : G[g].callers[m] \in Call
    BY <1>1, <1>4, OneMoreTypes
  <2>3. \A m \in DOMAIN G[g].callees : G[g].callees[m] \in Call
    BY <1>1, <1>4, OneMoreTypes
  <2> QED
    BY <2>1, <2>2, <2>3
<1> QED
  BY <1>1, <1>5 DEF CallTypes, G

LEMMA AggregatedTypes ==
  ASSUME CallTypes(functions), NEW tree, NEW L, Nodes(tree, L)
  PROVE  CallTypes(Aggregated(tree))
<1> DEFINE A == Aggregated(tree)
<1>1. /\ DOMAIN A = DOMAIN functions
      /\ \A f \in DOMAIN functions :
           /\ A[f].calls = functions[f].calls
           /\ A[f].callers = [c \in DOMAIN functions[f].callers |->
                                WithPairTimes(tree, functions[f].callers[c], c, f)]
           /\ A[f].callees = [g \in DOMAIN functions[f].callees |->
                                WithPairTimes(tree, functions[f].callees[g], f, g)]
  BY DEF Aggregated
<1> HIDE DEF A
<1>2. ASSUME NEW call \in Call, NEW c, NEW f PROVE WithPairTimes(tree, call, c, f) \in Call
  <2> DEFINE total == Total(tree, PairNodes(tree, c, f))
  <2>1. PairNodes(tree, c, f) \subseteq 1 .. L
    BY DEF PairNodes, NodesOf, Nodes
  <2>2. total.self_time \in Int /\ total.children_time \in Int
    BY <2>1, TotalFacts
  <2>3. WithPairTimes(tree, call, c, f) =
          IF c = Spontaneous THEN call
          ELSE [calls |-> call.calls, self_time |-> total.self_time,
                children_time |-> total.children_time]
    BY DEF WithPairTimes
  <2> HIDE DEF total
  <2> QED
    BY <2>2, <2>3 DEF Call
<1>3. ASSUME NEW f \in DOMAIN functions
      PROVE  /\ A[f].calls \in Nat \ {0}
             /\ \A c \in DOMAIN A[f].callers : A[f].callers[c] \in Call
             /\ \A g \in DOMAIN A[f].callees : A[f].callees[g] \in Call
  <2>1. /\ A[f].calls = functions[f].calls /\ functions[f].calls \in Nat \ {0}
        /\ A[f].callers = [c \in DOMAIN functions[f].callers |->
                              WithPairTimes(tree, functions[f].callers[c], c, f)]
        /\ A[f].callees = [g \in DOMAIN functions[f].callees |->
                              WithPairTimes(tree, functions[f].callees[g], f, g)]
        /\ \A c \in DOMAIN functions[f].callers : functions[f].callers[c] \in Call
        /\ \A g \in DOMAIN functions[f].callees : functions[f].callees[g] \in Call
    BY <1>1 DEF CallTypes
  <2> DEFINE above == functions[f].callers
             below == functions[f].callees
  <2>2. /\ \A c \in DOMAIN above : WithPairTimes(tree, above[c], c, f) \in Call
        /\ \A g \in DOMAIN below : WithPairTimes(tree, below[g], f, g) \in Call
    BY <1>2, <2>1
  <2>3. /\ A[f].callers = [c \in DOMAIN above |-> WithPairTimes(tree, above[c], c, f)]
        /\ A[f].callees = [g \in DOMAIN below |-> WithPairTimes(tree, below[g], f, g)]
    BY <2>1
  <2> HIDE DEF above, below
  <2> QED
    BY <2>1, <2>2, <2>3
<1> QED
  BY <1>1, <1>3 DEF CallTypes, A

-----------------------------------------------------------------------------
Types ==
  /\ CallTypes(functions)
  /\ nevents \in 0 .. MaxEvents
  /\ Len(call_tree) \in Nat
  /\ call_tree_current_node \in 0 .. Len(call_tree)

LEMMA InitTypes == Init => Types
<1> SUFFICES ASSUME Init PROVE Types
  OBVIOUS
<1>1. CallTypes(functions)
  BY DEF Init, CallTypes
<1>2. Len(call_tree) = 1
  BY DEF Init
<1>3. call_tree_current_node = 1 /\ nevents = 0
  BY DEF Init, ROOT
<1> QED
  BY <1>1, <1>2, <1>3, MaxEventsAssumption DEF Types

LEMMA NextTypes == Inv /\ TimesInv /\ TimesInv' /\ Types /\ [Next]_vars => Types'
<1> SUFFICES ASSUME Inv, TimesInv, TimesInv', Types, [Next]_vars PROVE Types'
  OBVIOUS
<1>1. ASSUME NEW f \in Function, NEW symbol \in Symbols, function_enter(f, symbol)
      PROVE  Types'
  <2>1. /\ GoodFunctions(functions)
        /\ Caller(symbol) \in DOMAIN functions \cup {Spontaneous}
    BY <1>1 DEF function_enter, NextEvent, Inv, GoodTree, NULL, Caller, Current
  <2>2. CallTypes(functions')
    BY <1>1, <2>1, CountTypes DEF function_enter, Types
  <2>3. nevents' \in 0 .. MaxEvents
    BY <1>1, MaxEventsAssumption DEF function_enter, NextEvent, Types
  <2>4. Len(call_tree') \in Nat
    <3>1. status' # "done"
      BY <1>1 DEF function_enter, NextEvent
    <3> QED
      BY <3>1, NodesAreSeq DEF TimesInv, Unsettled, Nodes
  <2>5. call_tree_current_node' = Len(call_tree')
    BY <1>1 DEF function_enter
  <2> QED
    BY <2>2, <2>3, <2>4, <2>5 DEF Types
<1>2. CASE function_exit
  <2>1. /\ functions' = functions /\ call_tree_current_node # NULL /\ status = "reading"
        /\ call_tree_current_node' = call_tree[call_tree_current_node].parent
        /\ call_tree' = [call_tree EXCEPT ![call_tree_current_node].exit_time = clock']
    BY <1>2 DEF function_exit, NextEvent, Above, Left
  <2>2. nevents' \in 0 .. MaxEvents
    BY <1>2, MaxEventsAssumption DEF function_exit, NextEvent, Types
  <2>3. /\ Len(call_tree') = Len(call_tree) /\ Len(call_tree) \in Nat
        /\ call_tree_current_node \in 1 .. Len(call_tree)
    BY <2>1 DEF Types, NULL, Inv, GoodTree
  <2>4. call_tree_current_node' \in 0 .. Len(call_tree)
    BY <2>1, <2>3 DEF Inv, GoodTree
  <2> QED
    BY <2>1, <2>2, <2>3, <2>4 DEF Types
<1>3. CASE function_exit_all
  <2>1. /\ functions' = Aggregated(call_tree') /\ call_tree_current_node' = ROOT
        /\ status' = "done" /\ nevents' = nevents
    BY <1>3 DEF function_exit_all
  <2>2. PICK tree : Nodes(call_tree', Len(call_tree')) /\ Nested(tree, Len(call_tree'), clock')
    BY <2>1 DEF TimesInv, Complete, SettledFrom
  <2>3. CallTypes(functions')
    BY <2>1, <2>2, AggregatedTypes DEF Types
  <2>4. Len(call_tree') \in Nat \ {0}
    BY <2>2 DEF Nested, Rooted
  <2> QED
    BY <2>1, <2>3, <2>4 DEF Types, ROOT
<1>4. CASE Dereference
  BY <1>4 DEF Dereference, Types
<1>5. CASE UNCHANGED vars
  BY <1>5 DEF vars, Types
<1> QED
  BY <1>1, <1>2, <1>3, <1>4, <1>5 DEF Next

(* Every state is well formed: no time has dropped below zero, although    *)
(* the aggregation subtracts those of all calls from that of their caller, *)
(* a node is created behind its parent, and no function is in the array    *)
(* that was never called.                                                  *)
THEOREM SpecTypeOK == Spec => []TypeOK
<1>1. Inv /\ CallsInv /\ StackInv /\ TimesInv /\ Types => TypeOK
  <2> SUFFICES ASSUME Inv, CallsInv, StackInv, TimesInv, Types PROVE TypeOK
    OBVIOUS
  <2>1. /\ call_tree \in Seq(Node) /\ DOMAIN call_tree = 1 .. Len(call_tree)
        /\ \A n \in 1 .. Len(call_tree) :
             /\ call_tree[n].parent \in 0 .. n - 1
             /\ n # ROOT => call_tree[n].self_time >= 0 /\ call_tree[n].parent # NULL
    <3> DEFINE L == Len(call_tree)
    <3>1. CASE status # "done"
      <4>1. Nodes(call_tree, L) /\ Blank(call_tree, L) /\ Formed(call_tree)
        BY <3>1 DEF TimesInv, Unsettled
      <4>2. call_tree \in Seq(Node) /\ DOMAIN call_tree = 1 .. L
        BY <4>1, NodesAreSeq DEF Nodes
      <4>3. ASSUME NEW n \in 1 .. L
            PROVE  /\ call_tree[n].parent \in 0 .. n - 1
                   /\ n # ROOT => call_tree[n].self_time >= 0 /\ call_tree[n].parent # NULL
        <5>1. call_tree[n].self_time = 0
          BY <4>1 DEF Blank
        <5>2. n # ROOT => call_tree[n].parent \in 1 .. n - 1
          BY <4>1 DEF Formed, ROOT
        <5>3. call_tree[n].parent \in 0 .. n - 1
          BY <3>1 DEF StackInv, Rooted
        <5> QED
          BY <5>1, <5>2, <5>3 DEF NULL
      <4> QED
        BY <4>2, <4>3
    <3>2. CASE status = "done"
      <4>1. PICK tree : Complete(tree)
        BY <3>2 DEF TimesInv
      <4>2. Nodes(call_tree, L) /\ Spent(call_tree, L)
        BY <4>1 DEF Complete, SettledFrom
      <4>3. call_tree \in Seq(Node) /\ DOMAIN call_tree = 1 .. L
        BY <4>2, NodesAreSeq DEF Nodes
      <4>4. ASSUME NEW n \in 1 .. L
            PROVE  /\ call_tree[n].parent \in 0 .. n - 1
                   /\ n # ROOT => call_tree[n].self_time >= 0 /\ call_tree[n].parent # NULL
        <5>1. n # ROOT => call_tree[n].self_time >= 0
          BY <4>2 DEF Spent
        <5>2. /\ call_tree[n].parent = tree[n].parent /\ Len(tree) = L
              /\ n # ROOT => tree[n].parent \in 1 .. n - 1
          BY <4>1 DEF Complete, SettledFrom, SameNode, Nested, ROOT
        <5>3. tree[n].parent \in 0 .. n - 1
          BY <4>1, <5>2 DEF Complete, Nested, Rooted
        <5> QED
          BY <5>1, <5>2, <5>3 DEF NULL
      <4> QED
        BY <4>3, <4>4
    <3> QED
      BY <3>1, <3>2
  <2>2. \A n \in DOMAIN call_tree :
          /\ call_tree[n].parent < n
          /\ n # ROOT => call_tree[n].self_time >= 0 /\ call_tree[n].parent # NULL
    BY <2>1 DEF Types
  <2>3. ASSUME NEW f \in DOMAIN functions
        PROVE  /\ functions[f].calls \in Nat \ {0}
               /\ DOMAIN functions[f].callers \subseteq Function \cup {Spontaneous}
               /\ \A c \in DOMAIN functions[f].callers : functions[f].callers[c] \in Call
               /\ DOMAIN functions[f].callees \subseteq Function
               /\ \A g \in DOMAIN functions[f].callees : functions[f].callees[g] \in Call
    <3>1. /\ DOMAIN functions \subseteq Function
          /\ DOMAIN functions[f].callees \subseteq DOMAIN functions
          /\ DOMAIN functions[f].callers \subseteq DOMAIN functions \cup {Spontaneous}
      BY DEF Inv, GoodFunctions, Closed
    <3> QED
      BY <3>1 DEF Types, CallTypes
  <2>4. DOMAIN functions \subseteq Function
    BY DEF Inv, GoodFunctions
  <2> QED
    BY <2>1, <2>2, <2>3, <2>4 DEF TypeOK, Types, CallsInv, StackInv, TimesInv
<1> QED
  BY <1>1, InitTypes, NextTypes, InitCalls, NextCalls, SpecInv, SpecStack, SpecTimes, PTL DEF Spec

-----------------------------------------------------------------------------
(* What the functions are told is what their nodes have.                   *)
Totals ==
  status = "done" =>
    /\ \A n \in 2 .. Len(call_tree) : call_tree[n].function \in DOMAIN functions
    /\ \A f \in DOMAIN functions :
         LET nodes == NodesOf(call_tree, f)
         IN  /\ functions[f].self_time = Total(call_tree, nodes).self_time
             /\ functions[f].children_time = Total(call_tree, nodes).children_time
             /\ functions[f].primaries = {n \in nodes : Outermost(call_tree, n)}

LEMMA AggregatedTotals ==
  ASSUME NEW tree, NEW f \in DOMAIN functions
  PROVE  LET A == Aggregated(tree)
             nodes == NodesOf(tree, f)
         IN  /\ A[f].self_time = Total(tree, nodes).self_time
             /\ A[f].children_time = Total(tree, nodes).children_time
             /\ A[f].primaries = {n \in nodes : Outermost(tree, n)}
BY DEF Aggregated

LEMMA NextTotals == Inv /\ StackInv /\ TimesInv /\ Totals /\ [Next]_vars => Totals'
<1> SUFFICES ASSUME Inv, StackInv, TimesInv, Totals, [Next]_vars PROVE Totals'
  OBVIOUS
<1>1. ASSUME NEW f \in Function, NEW symbol \in Symbols, function_enter(f, symbol)
      PROVE  Totals'
  BY <1>1 DEF function_enter, NextEvent, Totals
<1>2. CASE function_exit
  BY <1>2 DEF function_exit, NextEvent, Totals
<1>3. CASE function_exit_all
  <2>1. /\ functions' = Aggregated(call_tree') /\ status = "reading"
        /\ DOMAIN functions' = DOMAIN functions
    BY <1>3 DEF function_exit_all, Aggregated
  <2>2. /\ Len(call_tree') = Len(call_tree)
        /\ \A n \in 1 .. Len(call_tree) : call_tree'[n].function = call_tree[n].function
    BY <1>3, ExitAllTimes
  <2>3. ASSUME NEW n \in 2 .. Len(call_tree)
        PROVE  call_tree[n].function \in DOMAIN functions /\ n \in 1 .. Len(call_tree)
    <3>1. Formed(call_tree) /\ Len(call_tree) \in Nat
      BY <2>1 DEF TimesInv, Unsettled, Nodes
    <3>2. n \in 1 .. Len(call_tree)
      BY <3>1
    <3>3. call_tree[n].function \in Function
      BY <3>1 DEF Formed
    <3>4. call_tree[n].function \in DOMAIN functions \cup {Spontaneous}
      BY <2>1, <3>2 DEF Inv, GoodTree
    <3> QED
      BY <3>2, <3>3, <3>4, FunctionAssumption
  <2>4. \A n \in 2 .. Len(call_tree') : call_tree'[n].function \in DOMAIN functions'
    BY <2>1, <2>2, <2>3
  <2>5. \A f \in DOMAIN functions' :
          LET nodes == NodesOf(call_tree', f)
          IN  /\ functions'[f].self_time = Total(call_tree', nodes).self_time
              /\ functions'[f].children_time = Total(call_tree', nodes).children_time
              /\ functions'[f].primaries = {n \in nodes : Outermost(call_tree', n)}
    BY <2>1, AggregatedTotals
  <2> QED
    BY <2>4, <2>5 DEF Totals
<1>4. CASE Dereference
  BY <1>4 DEF Dereference, Totals
<1>5. CASE UNCHANGED vars
  BY <1>5 DEF vars, Totals
<1> QED
  BY <1>1, <1>2, <1>3, <1>4, <1>5 DEF Next

THEOREM SpecTotals == Spec => []Totals
<1>1. Init => Totals
  BY DEF Init, Totals
<1> QED
  BY <1>1, NextTotals, SpecInv, SpecStack, SpecTimes, PTL DEF Spec

-----------------------------------------------------------------------------
(* The time of nodes that do not overlap is no more than that of the run.  *)
DurationStep(g, ns, S) ==
  g = [s \in SUBSET S |->
         IF s = {} THEN 0
         ELSE (ns[CHOOSE x \in s : TRUE].exit_time - ns[CHOOSE x \in s : TRUE].entry_time)
              + g[s \ {CHOOSE x \in s : TRUE}]]

LEMMA DurationsAreSum ==
  ASSUME NEW ns, NEW S, IsFiniteSet(S), S \subseteq DOMAIN ns,
         \A x \in S : ns[x].exit_time - ns[x].entry_time \in Int
  PROVE  /\ MapThenSumSet(LAMBDA x : ns[x].exit_time - ns[x].entry_time, S) = SumOf(Duration(ns), S)
         /\ Numbered(Duration(ns), S)
<1> DEFINE w == Duration(ns)
           m == MapThenSumSet(LAMBDA x : ns[x].exit_time - ns[x].entry_time, S)
<1>1. m = (CHOOSE g : DurationStep(g, ns, S))[S]
  BY Zenon DEF MapThenSumSet, MapThenFoldSet, DurationStep
<1>2. Numbered(w, S) /\ \A x \in S : w[x] = ns[x].exit_time - ns[x].entry_time
  BY DEF Duration, Numbered
<1>3. \A g : DurationStep(g, ns, S) <=> SumStep(g, w, S)
  <2> SUFFICES ASSUME NEW g PROVE DurationStep(g, ns, S) <=> SumStep(g, w, S)
    OBVIOUS
  <2>1. \A s \in SUBSET S : s # {} => Chosen(s) \in s
    BY DEF Chosen
  <2> DEFINE item(s) == IF s = {} THEN 0 ELSE (ns[Chosen(s)].exit_time - ns[Chosen(s)].entry_time) + g[s \ {Chosen(s)}]
  <2>2. DurationStep(g, ns, S) <=> g = [s \in SUBSET S |-> item(s)]
    BY DEF DurationStep, Chosen
  <2>3. \A s \in SUBSET S : item(s) = SumItem(g, w, s)
    BY <1>2, <2>1 DEF SumItem
  <2> HIDE DEF item
  <2>4. [s \in SUBSET S |-> item(s)] = [s \in SUBSET S |-> SumItem(g, w, s)]
    BY <2>3
  <2> QED
    BY <2>2, <2>4 DEF SumStep
<1> HIDE DEF w, m
<1>4. PICK g : DurationStep(g, ns, S)
  BY <1>2, <1>3, SumExists
<1>5. DurationStep((CHOOSE h : DurationStep(h, ns, S)), ns, S)
  BY <1>4
<1>6. PICK h : DurationStep(h, ns, S) /\ m = h[S]
  BY <1>1, <1>5
<1>7. h[S] = SumOf(w, S)
  BY <1>2, <1>3, <1>6, SumIs
<1> QED
  BY <1>2, <1>6, <1>7 DEF w, m

LEMMA ApartFits ==
  ASSUME NEW tree, NEW L, NEW time \in Nat, Nested(tree, L, time), NEW C, C \subseteq 2 .. L,
         \A m, n \in C : m < n => ~OnPathTo(tree, m, n)
  PROVE  SumOf(Duration(tree), C) <= time
<1> DEFINE w == Duration(tree)
           begin == [m \in 1 .. L |-> tree[m].entry_time]
           end == [m \in 1 .. L |-> tree[m].exit_time]
<1>1. /\ L \in Nat \ {0} /\ DOMAIN tree = 1 .. L /\ Len(tree) = L
      /\ \A n \in 1 .. L : /\ tree[n].entry_time \in Nat /\ tree[n].exit_time \in Nat
                            /\ tree[n].entry_time <= time /\ tree[n].exit_time <= time
  BY DEF Nested, Rooted, Nodes, Clocked
<1>2. IsFiniteSet(C) /\ C \subseteq 1 .. L /\ C \subseteq Nat
  <2>1. IsFiniteSet(1 .. L)
    BY <1>1, FS_Interval
  <2>2. C \subseteq 1 .. L /\ C \subseteq Nat
    BY <1>1
  <2> QED
    BY <2>1, <2>2, FS_Subset
<1>3. \A m \in C : /\ begin[m] = tree[m].entry_time /\ end[m] = tree[m].exit_time
                    /\ w[m] = tree[m].exit_time - tree[m].entry_time
  BY <1>1, <1>2 DEF Duration
<1> HIDE DEF w, begin, end
<1>4. ASSUME NEW m \in C
      PROVE  /\ begin[m] \in Int /\ end[m] \in Int /\ w[m] = end[m] - begin[m]
             /\ 0 <= begin[m] /\ begin[m] <= end[m] /\ end[m] <= time
  <2>1. m \in 1 .. L /\ m \in 2 .. L
    BY <1>2
  <2>2. tree[m].entry_time <= tree[m].exit_time
    BY <2>1 DEF Nested
  <2> QED
    BY <1>1, <1>3, <2>1, <2>2
<1>5. ASSUME NEW m \in C, NEW n \in C, m < n PROVE end[m] <= begin[n]
  <2>1. OnPathTo(tree, m, n) \/ tree[m].exit_time <= tree[n].entry_time
    BY <1>5 DEF Nested
  <2> QED
    BY <1>3, <1>5, <2>1
<1>6. SumOf(w, C) \in Int /\ SumOf(w, C) <= time - 0
  <2>1. 0 \in Int /\ time \in Int /\ 0 <= time
    OBVIOUS
  <2> QED
    BY <1>2, <1>4, <1>5, <2>1, IntervalsFit
<1> QED
  BY <1>6 DEF w

(* What is spent in all nodes is what is spent in the outermost ones.      *)
LEMMA SelfTimeOfAll ==
  ASSUME NEW tree, NEW L, NEW time \in Nat, Nested(tree, L, time), NEW new,
         SettledFrom(tree, L, new, 1)
  PROVE  SumOf(SelfTimes(new), 2 .. L) = SumOf(Duration(tree), Children(tree, L, 1, ROOT))
<1> DEFINE d == Duration(tree)
           self == SelfTimes(new)
           ch == [n \in 1 .. L |-> SumOf(d, Children(tree, L, 1, n))]
           key == [n \in 1 .. L |-> tree[n].parent]
<1>1. /\ L \in Nat \ {0} /\ DOMAIN tree = 1 .. L /\ DOMAIN new = 1 .. L
      /\ \A n \in 1 .. L : /\ tree[n].entry_time \in Nat /\ tree[n].exit_time \in Nat
                            /\ new[n] \in Node
  BY DEF Nested, Rooted, Nodes, Clocked, SettledFrom
<1>2. IsFiniteSet(1 .. L) /\ \A S : S \subseteq 1 .. L => IsFiniteSet(S)
  <2>1. IsFiniteSet(1 .. L)
    BY <1>1, FS_Interval
  <2> QED
    BY <2>1, FS_Subset
<1>3. \A n \in 1 .. L : d[n] \in Int /\ d[n] = tree[n].exit_time - tree[n].entry_time
  <2>1. \A n \in 1 .. L : d[n] = tree[n].exit_time - tree[n].entry_time
    BY <1>1 DEF Duration
  <2> HIDE DEF d
  <2> QED
    BY <1>1, <2>1
<1>4. \A n \in 1 .. L : self[n] = new[n].self_time /\ self[n] \in Int
  BY <1>1 DEF SelfTimes, Node
<1> HIDE DEF d, self
<1>5. \A n \in 1 .. L : ch[n] = SumOf(d, Children(tree, L, 1, n)) /\ ch[n] \in Int
  <2>1. \A n \in 1 .. L : ch[n] = SumOf(d, Children(tree, L, 1, n))
    OBVIOUS
  <2>2. \A n : Children(tree, L, 1, n) \subseteq 1 .. L
    BY DEF Children
  <2>3. \A n : /\ IsFiniteSet(Children(tree, L, 1, n))
               /\ Numbered(d, Children(tree, L, 1, n))
    BY <1>2, <1>3, <2>2 DEF Numbered
  <2> HIDE DEF ch
  <2> QED
    BY <2>1, <2>3, SumSplit
<1> HIDE DEF ch
<1>6. \A n \in 1 .. L : d[n] = self[n] + ch[n]
  <2> SUFFICES ASSUME NEW n \in 1 .. L PROVE d[n] = self[n] + ch[n]
    OBVIOUS
  <2>1. /\ new[n].children_time + new[n].orphan_time = SumOf(d, Children(tree, L, 1, n))
        /\ new[n].self_time + new[n].children_time + new[n].orphan_time = d[n]
    BY <1>1 DEF SettledFrom, d
  <2>2. /\ new[n].self_time \in Int /\ new[n].children_time \in Int
        /\ new[n].orphan_time \in Int
    BY <1>1 DEF Node
  <2> QED
    BY <1>4, <1>5, <2>1, <2>2
<1> DEFINE S == 2 .. L
<1>7. S \subseteq 1 .. L /\ IsFiniteSet(S) /\ ROOT \in 1 .. L /\ S = (1 .. L) \ {ROOT}
  BY <1>1, <1>2 DEF ROOT
<1> HIDE DEF S
<1>8. /\ Numbered(d, S) /\ Numbered(self, S) /\ Numbered(ch, S) /\ Numbered(ch, 1 .. L)
      /\ \A n \in S : d[n] = self[n] + ch[n]
  BY <1>3, <1>4, <1>5, <1>6, <1>7 DEF Numbered
<1>9. SumOf(d, S) = SumOf(self, S) + SumOf(ch, S)
  BY <1>7, <1>8, SumPlus
<1>10. SumOf(ch, 1 .. L) = ch[ROOT] + SumOf(ch, S)
  BY <1>2, <1>7, <1>8, SumRemove
<1>11. SumOf(ch, 1 .. L) = SumOf(d, S)
  <2>1. \A n \in 1 .. L : key[n] = tree[n].parent
    OBVIOUS
  <2>2. \A n \in S : tree[n].parent \in 1 .. L
    <3> SUFFICES ASSUME NEW n \in S PROVE tree[n].parent \in 1 .. L
      OBVIOUS
    <3>1. n \in 2 .. L /\ tree[n].parent \in 1 .. n - 1
      BY DEF S, Nested
    <3> QED
      BY <1>1, <3>1
  <2>3. tree[ROOT].parent = NULL
    BY DEF Nested, Rooted
  <2> HIDE DEF key
  <2>4. \A n \in S : key[n] \in 1 .. L
    BY <1>7, <2>1, <2>2
  <2>5. ASSUME NEW i \in 1 .. L PROVE Class(key, S, i) = Children(tree, L, 1, i)
    <3>1. i # NULL
      BY DEF NULL
    <3> QED
      BY <1>7, <2>1, <2>3, <3>1 DEF Class, Children
  <2>6. \A i \in 1 .. L : ch[i] = SumOf(d, Class(key, S, i))
    BY <1>5, <2>5
  <2> DEFINE I == 1 .. L
  <2>7. IsFiniteSet(I) /\ (\A n \in S : key[n] \in I) /\ \A i \in I : ch[i] = SumOf(d, Class(key, S, i))
    BY <1>2, <2>4, <2>6
  <2> HIDE DEF I
  <2>8. SumOf(ch, I) = SumOf(d, S)
    <3>1. IsFiniteSet(S) /\ Numbered(d, S)
      BY <1>7, <1>8
    <3>2. \A n \in S : key[n] \in I
      BY <2>7
    <3>3. \A i \in I : ch[i] = SumOf(d, Class(key, S, i))
      BY <2>7
    <3>4. IsFiniteSet(I)
      BY <2>7
    <3> QED
      BY <3>1, <3>2, <3>3, <3>4, SumPartition, SMT
  <2> QED
    BY <2>8 DEF I
<1>12. SumOf(self, S) \in Int /\ SumOf(ch, S) \in Int
  BY <1>7, <1>8, SumSplit
<1>13. SumOf(self, S) = ch[ROOT]
  <2>1. ch[ROOT] \in Int
    BY <1>5, <1>7
  <2> QED
    BY <1>9, <1>10, <1>11, <1>12, <2>1
<1> QED
  BY <1>5, <1>7, <1>13 DEF S, self, d

-----------------------------------------------------------------------------
(* The nodes of a complete tree.                                           *)
LEMMA CompleteFacts ==
  ASSUME TimesInv, status = "done"
  PROVE  \E tree : /\ Complete(tree)
                   /\ Nodes(call_tree, Len(call_tree)) /\ Len(call_tree) \in Nat \ {0}
                   /\ DOMAIN call_tree = 1 .. Len(call_tree)
                   /\ \A n \in 1 .. Len(call_tree) :
                        SameNode(tree[n], call_tree[n]) /\ call_tree[n] \in Node
                   /\ \A n \in 2 .. Len(call_tree) :
                        n \in 1 .. Len(call_tree) /\ call_tree[n].function \in Function
                   /\ call_tree[ROOT].function = Spontaneous
<1>1. PICK tree : Complete(tree)
  BY DEF TimesInv
<1> DEFINE L == Len(call_tree)
<1>2. /\ Nodes(call_tree, L) /\ Nested(tree, L, clock) /\ Formed(tree)
      /\ \A n \in 1 .. L : SameNode(tree[n], call_tree[n])
  BY <1>1 DEF Complete, SettledFrom
<1>3. L \in Nat \ {0} /\ DOMAIN call_tree = 1 .. L /\ Len(tree) = L
  BY <1>2 DEF Nested, Nodes, Rooted
<1> HIDE DEF L
<1>4. \A n \in 1 .. L : call_tree[n] \in Node
  BY <1>2 DEF Nodes
<1>5. \A n \in 2 .. L : n \in 1 .. L /\ call_tree[n].function \in Function
  <2>1. \A n \in 2 .. L : n \in 1 .. L
    BY <1>3
  <2> QED
    BY <1>2, <1>3, <2>1 DEF Formed, SameNode
<1>6. call_tree[ROOT].function = Spontaneous
  <2>1. ROOT \in 1 .. L
    BY <1>3 DEF ROOT
  <2> QED
    BY <1>2, <2>1 DEF Formed, SameNode
<1> QED
  BY <1>1, <1>2, <1>3, <1>4, <1>5, <1>6 DEF L

LEMMA NodesOfFunction ==
  ASSUME TimesInv, status = "done", NEW f \in Function
  PROVE  NodesOf(call_tree, f) \subseteq 2 .. Len(call_tree)
<1>1. /\ DOMAIN call_tree = 1 .. Len(call_tree) /\ Len(call_tree) \in Nat \ {0}
      /\ call_tree[ROOT].function = Spontaneous
  BY CompleteFacts
<1>2. \A n \in 1 .. Len(call_tree) : n # ROOT => n \in 2 .. Len(call_tree)
  BY <1>1 DEF ROOT
<1> QED
  BY <1>1, <1>2, FunctionAssumption DEF NodesOf

(* The self times of all functions are those of all nodes.                 *)
LEMMA SelfTimeOfFunctions ==
  ASSUME Inv, CallsInv, TimesInv, Totals, status = "done"
  PROVE  LET all == SumOf(SelfTimes(call_tree), 2 .. Len(call_tree))
         IN  /\ MapThenSumSet(LAMBDA f : functions[f].self_time, DOMAIN functions) = all
             /\ \A f \in DOMAIN functions : functions[f].self_time <= all
<1> DEFINE L == Len(call_tree)
           D == DOMAIN functions
           S == 2 .. L
           w == SelfTimes(call_tree)
           v == SelfTimes(functions)
           key == [n \in 1 .. L |-> call_tree[n].function]
<1>1. /\ Nodes(call_tree, L) /\ L \in Nat \ {0} /\ DOMAIN call_tree = 1 .. L
      /\ \A n \in 1 .. L : call_tree[n] \in Node
      /\ \A n \in S : n \in 1 .. L /\ call_tree[n].function \in Function
      /\ Spent(call_tree, L)
  BY CompleteFacts DEF Complete
<1>2. IsFiniteSet(D) /\ D \subseteq Function
  BY DEF CallsInv, Conserved, Counting, Inv, GoodFunctions
<1>3. IsFiniteSet(S) /\ S \subseteq 1 .. L /\ \A n \in S : n # ROOT
  <2>1. \A n \in S : n # ROOT
    BY DEF ROOT
  <2> QED
    BY <1>1, <2>1, FS_Interval
<1> HIDE DEF S
<1>4. \A n \in S : w[n] = call_tree[n].self_time /\ w[n] \in Nat
  <2> SUFFICES ASSUME NEW n \in S PROVE w[n] = call_tree[n].self_time /\ w[n] \in Nat
    OBVIOUS
  <2>1. n \in 1 .. L
    BY <1>3
  <2>2. w[n] = call_tree[n].self_time
    BY <1>1, <2>1 DEF SelfTimes
  <2>3. call_tree[n].self_time \in Int
    BY <1>1, <2>1 DEF Node
  <2>4. call_tree[n].self_time >= 0
    BY <1>1, <1>3, <2>1 DEF Spent
  <2> QED
    BY <2>2, <2>3, <2>4
<1> HIDE DEF w, v
<1>5. ASSUME NEW f \in D
      PROVE  /\ NodesOf(call_tree, f) = Class(key, S, f) /\ NodesOf(call_tree, f) \subseteq S
             /\ v[f] = functions[f].self_time
             /\ v[f] = SumOf(w, Class(key, S, f)) /\ v[f] \in Int
  <2> DEFINE nodes == NodesOf(call_tree, f)
  <2>1. nodes \subseteq S /\ nodes \subseteq 1 .. L
    BY <1>2, <1>3, NodesOfFunction DEF S
  <2>2. \A n \in 1 .. L : key[n] = call_tree[n].function
    OBVIOUS
  <2> HIDE DEF key
  <2>3. nodes = Class(key, S, f)
    BY <1>1, <1>3, <2>1, <2>2 DEF NodesOf, Class
  <2>4. v[f] = functions[f].self_time
    BY DEF v, SelfTimes
  <2>5. functions[f].self_time = Total(call_tree, nodes).self_time
    BY DEF Totals
  <2> HIDE DEF nodes
  <2>6. Total(call_tree, nodes).self_time = SumOf(w, nodes) /\ Total(call_tree, nodes).self_time \in Int
    BY <1>1, <2>1, TotalFacts DEF w
  <2>7. nodes = NodesOf(call_tree, f)
    BY DEF nodes
  <2> QED
    BY <2>1, <2>3, <2>4, <2>5, <2>6, <2>7
<1>6. \A n \in S : key[n] \in D
  <2>1. \A n \in S : key[n] = call_tree[n].function
    BY <1>3
  <2>2. \A n \in S : call_tree[n].function \in D
    BY DEF Totals, S
  <2> HIDE DEF key
  <2> QED
    BY <2>1, <2>2
<1> HIDE DEF key
<1>7. SumOf(v, D) = SumOf(w, S)
  <2>1. Numbered(w, S)
    BY <1>4 DEF Numbered
  <2>2. \A f \in D : v[f] = SumOf(w, Class(key, S, f))
    BY <1>5
  <2> HIDE DEF D
  <2>3. IsFiniteSet(S) /\ IsFiniteSet(D)
    BY <1>2, <1>3
  <2> QED
    BY <1>6, <2>1, <2>2, <2>3, SumPartition, SMT
<1>8. MapThenSumSet(LAMBDA f : functions[f].self_time, D) = SumOf(v, D)
  <2>1. \A f \in D : functions[f].self_time \in Int
    BY <1>5
  <2> QED
    BY <1>2, <2>1, SelfTimesAreSum DEF v
<1>9. ASSUME NEW f \in D PROVE functions[f].self_time <= SumOf(w, S)
  <2> DEFINE nodes == Class(key, S, f)
  <2>1. nodes \subseteq S /\ functions[f].self_time = SumOf(w, nodes)
    BY <1>5
  <2> HIDE DEF nodes
  <2>2. SumOf(w, nodes) <= SumOf(w, S)
    BY <1>3, <1>4, <2>1, SumOfPart
  <2> QED
    BY <2>1, <2>2
<1> QED
  BY <1>7, <1>8, <1>9 DEF w, S

(* All times add up to that of the calls made by no instrumented function, *)
(* and those follow each other.                                            *)
LEMMA RuntimeOfTree ==
  ASSUME TimesInv, status = "done"
  PROVE  LET all == SumOf(SelfTimes(call_tree), 2 .. Len(call_tree))
         IN  /\ MapThenSumSet(LAMBDA n : call_tree[n].exit_time - call_tree[n].entry_time, TopLevel)
                  = all
             /\ all <= clock
<1> DEFINE L == Len(call_tree)
<1>1. PICK tree : /\ Complete(tree)
                  /\ Nodes(call_tree, L) /\ L \in Nat \ {0} /\ DOMAIN call_tree = 1 .. L
                  /\ \A n \in 1 .. L : SameNode(tree[n], call_tree[n]) /\ call_tree[n] \in Node
  BY CompleteFacts
<1>2. /\ Nested(tree, L, clock) /\ Formed(tree) /\ clock \in Nat /\ Len(tree) = L
      /\ SettledFrom(tree, L, call_tree, 1) /\ DOMAIN tree = 1 .. L
  BY <1>1 DEF Complete, TimesInv, Nested, Nodes
<1> HIDE DEF L
<1> DEFINE C == Children(tree, L, 1, ROOT)
<1>3. C \subseteq 2 .. L /\ C \subseteq 1 .. L
  <2>1. tree[ROOT].parent # ROOT
    BY <1>2 DEF Nested, Rooted, ROOT, NULL
  <2>2. \A n \in 1 .. L : n # ROOT => n \in 2 .. L
    BY <1>1 DEF ROOT
  <2> QED
    BY <2>1, <2>2 DEF Children
<1>4. C = TopLevel
  <2>1. \A n \in C : ~tree[n].direct
    BY <1>2, <1>3 DEF Formed, Children
  <2>2. \A n \in 1 .. L : /\ call_tree[n].direct \in BOOLEAN
                          /\ call_tree[n].direct = tree[n].direct
                          /\ call_tree[n].parent = tree[n].parent
    BY <1>1 DEF SameNode, Node
  <2>3. C = {n \in 1 .. L : tree[n].parent = ROOT}
    BY DEF Children
  <2> HIDE DEF C
  <2>4. TopLevel = {n \in 1 .. L : call_tree[n].parent = ROOT /\ call_tree[n].direct = FALSE}
    BY <1>1 DEF TopLevel, Below
  <2> QED
    BY <2>1, <2>2, <2>3, <2>4
<1> DEFINE d == Duration(tree)
           e == Duration(call_tree)
<1>5. \A n \in 1 .. L : /\ d[n] = tree[n].exit_time - tree[n].entry_time
                        /\ e[n] = call_tree[n].exit_time - call_tree[n].entry_time
                        /\ d[n] = e[n] /\ d[n] \in Int
                        /\ call_tree[n].exit_time - call_tree[n].entry_time \in Int
  <2>1. \A n \in 1 .. L : /\ d[n] = tree[n].exit_time - tree[n].entry_time
                          /\ e[n] = call_tree[n].exit_time - call_tree[n].entry_time
    BY <1>1, <1>2 DEF Duration
  <2> HIDE DEF d, e
  <2>2. \A n \in 1 .. L : call_tree[n].exit_time \in Int /\ call_tree[n].entry_time \in Int
    BY <1>1 DEF Node
  <2> QED
    BY <1>1, <2>1, <2>2 DEF SameNode
<1>6. IsFiniteSet(C)
  <2>1. IsFiniteSet(1 .. L)
    BY <1>1, FS_Interval
  <2> HIDE DEF C
  <2> QED
    BY <1>3, <2>1, FS_Subset
<1> HIDE DEF C, d, e
<1>7. SumOf(d, C) = SumOf(e, C)
  <2>1. Numbered(d, C) /\ \A n \in C : d[n] = e[n]
    BY <1>3, <1>5 DEF Numbered
  <2> QED
    BY <1>6, <2>1, SumSame
<1>8. MapThenSumSet(LAMBDA n : call_tree[n].exit_time - call_tree[n].entry_time, C) = SumOf(e, C)
  <2>1. C \subseteq DOMAIN call_tree
        /\ \A n \in C : call_tree[n].exit_time - call_tree[n].entry_time \in Int
    BY <1>1, <1>3, <1>5
  <2> QED
    BY <1>6, <2>1, DurationsAreSum DEF e
<1>9. SumOf(SelfTimes(call_tree), 2 .. L) = SumOf(d, C)
  BY <1>2, SelfTimeOfAll DEF d, C
<1>10. SumOf(d, C) <= clock
  <2>1. \A m, n \in C : m < n => ~OnPathTo(tree, m, n)
    <3> SUFFICES ASSUME NEW m \in C, NEW n \in C, m < n PROVE ~OnPathTo(tree, m, n)
      OBVIOUS
    <3>1. /\ m \in 1 .. Len(tree) /\ n \in 2 .. Len(tree)
          /\ tree[m].parent = tree[n].parent /\ Rooted(tree)
      BY <1>2, <1>3 DEF C, Children, Nested
    <3> QED
      BY <3>1, SiblingsApart
  <2> QED
    BY <1>2, <1>3, <2>1, ApartFits DEF d
<1> QED
  BY <1>4, <1>7, <1>8, <1>9, <1>10 DEF L

-----------------------------------------------------------------------------
(* The array of words holds a set of the numbers below its width.          *)
LEMMA WordAndBit ==
  ASSUME NEW i \in Nat
  PROVE  /\ Field(i) \in Nat /\ Bit(i) \in 0 .. FIELDWIDTH - 1
         /\ i = FIELDWIDTH * Field(i) + Bit(i)
BY FieldwidthAssumption DEF Field, Bit

LEMMA Product ==
  ASSUME NEW w \in Nat, NEW a \in Nat, NEW b \in Nat, a < b
  PROVE  w * a + w <= w * b
<1>1. w * b = w * a + w * (b - a)
  OBVIOUS
<1>2. b - a - 1 \in Nat /\ b - a = (b - a - 1) + 1
  OBVIOUS
<1>3. w * (b - a) = w * (b - a - 1) + w
  BY <1>2
<1>4. w * (b - a - 1) \in Nat /\ w * a \in Nat
  BY <1>2
<1> QED
  BY <1>1, <1>3, <1>4

LEMMA EnoughWords ==
  ASSUME NEW width \in Nat, NEW i \in 0 .. width - 1
  PROVE  Field(i) \in 0 .. Nfields(width) - 1
<1> DEFINE a == Field(i)
           q == Field(width)
           r == Bit(width)
           w == FIELDWIDTH
<1>1. /\ i \in Nat /\ i < width /\ a \in Nat /\ q \in Nat /\ w \in Nat \ {0}
      /\ r \in 0 .. w - 1 /\ width = w * q + r
      /\ Bit(i) \in 0 .. w - 1 /\ i = w * a + Bit(i)
  BY WordAndBit, FieldwidthAssumption
<1>2. Nfields(width) = IF r # 0 THEN q + 1 ELSE q
  BY <1>1 DEF Nfields, Field, Bit
<1> HIDE DEF a, q, r, w
<1>3. a <= q
  <2> SUFFICES ASSUME q < a PROVE FALSE
    BY <1>1
  <2>1. w * q + w <= w * a
    BY <1>1, Product
  <2>2. w * q \in Nat /\ w * a \in Nat
    BY <1>1
  <2> QED
    BY <1>1, <2>1, <2>2
<1>4. a = q => r # 0
  <2> SUFFICES ASSUME a = q, r = 0 PROVE FALSE
    OBVIOUS
  <2>1. w * q = w * a /\ w * a \in Nat
    BY <1>1
  <2> QED
    BY <1>1, <2>1
<1> QED
  BY <1>1, <1>2, <1>3, <1>4 DEF a

Mask(b, width) ==
  /\ b = [width |-> width, fields |-> b.fields]
  /\ b.fields = [k \in 0 .. Nfields(width) - 1 |-> b.fields[k]]

LEMMA CreatedMask ==
  ASSUME NEW width \in Nat
  PROVE  /\ Mask(bitmask_create(width), width)
         /\ \A j \in 0 .. width - 1 : ~bitmask_get(bitmask_create(width), j)
<1> DEFINE none == [k \in 0 .. Nfields(width) - 1 |-> {}]
           b == bitmask_create(width)
<1>1. b.fields = none /\ b = [width |-> width, fields |-> none]
  BY DEF bitmask_create
<1>2. Mask(b, width)
  BY <1>1 DEF Mask
<1>3. \A j \in 0 .. width - 1 : none[Field(j)] = {}
  BY EnoughWords
<1> HIDE DEF b
<1>4. \A j \in 0 .. width - 1 : ~bitmask_get(b, j)
  BY <1>1, <1>3 DEF bitmask_get
<1> QED
  BY <1>2, <1>4 DEF b

LEMMA SetBit ==
  ASSUME NEW width \in Nat, NEW b, Mask(b, width), NEW i \in 0 .. width - 1
  PROVE  /\ Mask(bitmask_set(b, i), width)
         /\ \A j \in 0 .. width - 1 :
              bitmask_get(bitmask_set(b, i), j) <=> j = i \/ bitmask_get(b, j)
<1> DEFINE fs == b.fields
           gs == [fs EXCEPT ![Field(i)] = @ \cup {Bit(i)}]
           new == bitmask_set(b, i)
           F == 0 .. Nfields(width) - 1
<1>1. /\ b = [width |-> width, fields |-> fs] /\ fs = [k \in F |-> fs[k]]
      /\ Field(i) \in F
  BY EnoughWords DEF Mask
<1>2. new = [width |-> width, fields |-> gs] /\ new.fields = gs
  <2>1. new = [b EXCEPT !.fields = gs]
    BY DEF bitmask_set
  <2> HIDE DEF fs, gs, new
  <2> QED
    BY <1>1, <2>1
<1>3. gs = [k \in F |-> IF k = Field(i) THEN fs[k] \cup {Bit(i)} ELSE fs[k]]
  BY <1>1
<1> HIDE DEF fs, gs, new
<1>4. Mask(new, width)
  <2>1. gs = [k \in F |-> gs[k]]
    BY <1>3
  <2> QED
    BY <1>2, <2>1 DEF Mask
<1>5. ASSUME NEW j \in 0 .. width - 1 PROVE bitmask_get(new, j) <=> j = i \/ bitmask_get(b, j)
  <2>1. Field(j) \in F
    BY EnoughWords
  <2>2. /\ bitmask_get(new, j) <=> Bit(j) \in gs[Field(j)]
        /\ bitmask_get(b, j) <=> Bit(j) \in fs[Field(j)]
    BY <1>2 DEF bitmask_get, fs
  <2>3. j = i <=> Field(j) = Field(i) /\ Bit(j) = Bit(i)
    <3>1. i \in Nat /\ j \in Nat
      OBVIOUS
    <3>2. i = FIELDWIDTH * Field(i) + Bit(i) /\ j = FIELDWIDTH * Field(j) + Bit(j)
      BY <3>1, WordAndBit
    <3> QED
      BY <3>2
  <2>4. gs[Field(j)] = IF Field(j) = Field(i) THEN fs[Field(j)] \cup {Bit(i)} ELSE fs[Field(j)]
    BY <1>3, <2>1
  <2> QED
    BY <2>2, <2>3, <2>4
<1> QED
  BY <1>4, <1>5 DEF new

-----------------------------------------------------------------------------
(* Paths, seen from their ends.                                            *)
CallsOfRoot(tree) ==
  /\ Rooted(tree) /\ DOMAIN tree = 1 .. Len(tree)
  /\ tree[ROOT].function = Spontaneous
  /\ \A n \in 2 .. Len(tree) :
       tree[n].function \in Function /\ tree[n].parent \in 1 .. n - 1

LEMMA PathOfRoot ==
  ASSUME NEW tree, Rooted(tree), NEW k, OnPathTo(tree, k, ROOT)
  PROVE  k = ROOT
<1>1. PICK path : Chain(tree, path) /\ path[Len(path)] = ROOT /\ On(path, k)
  BY DEF OnPathTo
<1>2. Len(path) \in Nat \ {0} /\ path[1] = ROOT /\ \A i \in 1 .. Len(path) : path[i] \in Nat
  BY <1>1, LenProperties DEF Chain
<1>3. Len(path) = 1
  <2> SUFFICES ASSUME Len(path) # 1 PROVE FALSE
    OBVIOUS
  <2>1. 1 \in 1 .. Len(path) /\ Len(path) \in 1 .. Len(path) /\ 1 < Len(path)
    <3>1. Len(path) \in Nat \ {0}
      BY <1>2
    <3>2. \A l \in Nat \ {0} : l # 1 => 1 \in 1 .. l /\ l \in 1 .. l /\ 1 < l
      OBVIOUS
    <3> QED
      BY ONLY <3>1, <3>2, Len(path) # 1
  <2>2. path[1] < path[Len(path)]
    BY <1>1, <2>1, ChainAscends
  <2> QED
    BY <1>1, <1>2, <2>2 DEF ROOT
<1> QED
  BY <1>1, <1>2, <1>3 DEF On

LEMMA PathOfChild ==
  ASSUME NEW tree, Rooted(tree), NEW n \in 1 .. Len(tree), tree[n].parent \in 1 .. Len(tree)
  PROVE  \A k : OnPathTo(tree, k, n) /\ k # n <=> OnPathTo(tree, k, tree[n].parent)
<1> DEFINE p == tree[n].parent
<1>1. /\ Len(tree) \in Nat \ {0} /\ p \in 1 .. Len(tree) /\ p \in 0 .. n - 1
      /\ n # ROOT
  BY DEF Rooted, NULL
<1> HIDE DEF p
<1> SUFFICES ASSUME NEW k PROVE OnPathTo(tree, k, n) /\ k # n <=> OnPathTo(tree, k, p)
  BY DEF p
<1>2. ASSUME OnPathTo(tree, k, n), k # n PROVE OnPathTo(tree, k, p)
  <2>1. PICK path : Chain(tree, path) /\ path[Len(path)] = n /\ On(path, k)
    BY <1>2 DEF OnPathTo
  <2> DEFINE l == Len(path)
             np == Front(path)
  <2>2. /\ path \in Seq(Nat) /\ l \in Nat \ {0} /\ path[1] = ROOT
        /\ \A i \in 1 .. l : path[i] \in 1 .. Len(tree)
        /\ \A i \in 1 .. l - 1 : tree[path[i + 1]].parent = path[i]
    BY <2>1, LenProperties DEF Chain
  <2>3. l # 1
    BY <1>1, <2>1, <2>2
  <2>4. /\ np \in Seq(Nat) /\ Len(np) = l - 1
        /\ \A i \in 1 .. l - 1 : np[i] = path[i]
    BY <2>2, FrontFacts
  <2>5. On(np, k)
    BY <1>2, <2>1, OnFront
  <2>9. path[l] = n
    BY <2>1
  <2> HIDE DEF np, l
  <2>6. /\ l - 1 \in 1 .. l - 1 /\ (l - 1) + 1 = l /\ 1 \in 1 .. l - 1 /\ l - 1 # 0
        /\ \A i \in 1 .. l - 1 : i \in 1 .. l
        /\ \A i \in 1 .. (l - 1) - 1 : i \in 1 .. l - 1 /\ i + 1 \in 1 .. l - 1
    BY <2>2, <2>3
  <2>7. np[l - 1] = p
    <3>1. tree[path[(l - 1) + 1]].parent = path[l - 1]
      BY <2>2, <2>6
    <3> QED
      BY <2>4, <2>6, <2>9, <3>1 DEF p
  <2>8. Chain(tree, np)
    <3>1. \A i \in 1 .. l - 1 : np[i] \in 1 .. Len(tree)
      BY <2>2, <2>4, <2>6
    <3>2. \A i \in 1 .. (l - 1) - 1 : tree[np[i + 1]].parent = np[i]
      BY <2>2, <2>4, <2>6
    <3>3. np[1] = ROOT
      BY <2>2, <2>4, <2>6
    <3> QED
      BY <2>4, <2>6, <3>1, <3>2, <3>3 DEF Chain
  <2> QED
    BY <2>4, <2>5, <2>7, <2>8 DEF OnPathTo
<1>3. ASSUME OnPathTo(tree, k, p) PROVE OnPathTo(tree, k, n) /\ k # n
  <2>1. PICK path : Chain(tree, path) /\ path[Len(path)] = p /\ On(path, k)
    BY <1>3 DEF OnPathTo
  <2> DEFINE l == Len(path)
             np == Append(path, n)
  <2>2. /\ path \in Seq(Nat) /\ l \in Nat \ {0} /\ path[1] = ROOT /\ path[l] = p
        /\ \A i \in 1 .. l : path[i] \in 1 .. Len(tree)
        /\ \A i \in 1 .. l - 1 : tree[path[i + 1]].parent = path[i]
    BY <2>1, LenProperties DEF Chain
  <2>3. n \in Nat
    BY <1>1
  <2>4. /\ np \in Seq(Nat) /\ Len(np) = l + 1 /\ np[l + 1] = n
        /\ \A i \in 1 .. l : np[i] = path[i]
    BY <2>2, <2>3, AppendProperties
  <2>5. On(np, k)
    BY <2>1, <2>2, <2>3, OnAppend
  <2>6. PICK i \in 1 .. l : path[i] = k
    BY <2>1 DEF On
  <2>7. k # n
    <3>1. i # l => path[i] < path[l]
      <4> SUFFICES ASSUME i # l PROVE path[i] < path[l]
        OBVIOUS
      <4>1. l \in 1 .. l /\ i < l
        BY <2>2, <2>6
      <4> QED
        BY <2>1, <4>1, ChainAscends
    <3>2. path[i] \in 1 .. Len(tree)
      BY <2>2
    <3> QED
      BY <1>1, <2>2, <2>3, <2>6, <3>1, <3>2
  <2> HIDE DEF np, l
  <2>8. Chain(tree, np)
    <3>1. ASSUME NEW j \in 1 .. l + 1 PROVE np[j] \in 1 .. Len(tree)
      <4>1. j = l + 1 \/ j \in 1 .. l
        BY <2>2
      <4> QED
        BY <2>2, <2>4, <4>1
    <3>2. ASSUME NEW j \in 1 .. (l + 1) - 1 PROVE tree[np[j + 1]].parent = np[j]
      <4>1. j \in 1 .. l /\ (j = l \/ (j \in 1 .. l - 1 /\ j + 1 \in 1 .. l))
        BY <2>2
      <4>2. CASE j = l
        <5>1. np[j + 1] = n /\ np[j] = p
          BY <2>2, <2>4, <4>1, <4>2
        <5> QED
          BY <5>1 DEF p
      <4>3. CASE j # l
        BY <2>2, <2>4, <4>1, <4>3
      <4> QED
        BY <4>2, <4>3
    <3>3. np[1] = ROOT /\ l + 1 # 0
      <4>1. 1 \in 1 .. l
        BY <2>2
      <4> QED
        BY <2>2, <2>4, <4>1
    <3> QED
      BY <2>4, <3>1, <3>2, <3>3 DEF Chain
  <2> QED
    BY <2>4, <2>5, <2>7, <2>8 DEF OnPathTo
<1> QED
  BY <1>2, <1>3

(* There is a path to every node, and it ends there.                       *)
LEMMA PathsExist ==
  ASSUME NEW tree, CallsOfRoot(tree), NEW n \in 1 .. Len(tree)
  PROVE  OnPathTo(tree, n, n)
<1> DEFINE S == {d \in Nat : \A m \in 1 .. Len(tree) : m <= d => OnPathTo(tree, m, m)}
<1>1. Rooted(tree) /\ Len(tree) \in Nat \ {0}
  BY DEF CallsOfRoot, Rooted
<1>2. 0 \in S
  OBVIOUS
<1>3. ASSUME NEW d \in Nat, d \in S PROVE d + 1 \in S
  <2> SUFFICES ASSUME NEW m \in 1 .. Len(tree), m = d + 1 PROVE OnPathTo(tree, m, m)
    BY <1>3
  <2>1. CASE m = ROOT
    <3> DEFINE path == <<ROOT>>
    <3>1. /\ path \in Seq(Nat) /\ Len(path) = 1 /\ path[1] = ROOT
          /\ ROOT \in 1 .. Len(tree)
      BY <1>1 DEF ROOT
    <3> HIDE DEF path
    <3>2. Chain(tree, path) /\ On(path, ROOT)
      BY <3>1 DEF Chain, On
    <3> QED
      BY <2>1, <3>1, <3>2 DEF OnPathTo
  <2>2. CASE m # ROOT
    <3>1. m \in 2 .. Len(tree)
      BY <1>1, <2>2 DEF ROOT
    <3>2. tree[m].parent \in 1 .. m - 1
      BY <3>1 DEF CallsOfRoot
    <3>3. tree[m].parent \in 1 .. Len(tree) /\ tree[m].parent <= d
      BY <1>1, <3>1, <3>2
    <3>4. OnPathTo(tree, tree[m].parent, tree[m].parent)
      BY <1>3, <3>3
    <3>5. OnPathTo(tree, tree[m].parent, m)
      BY <1>1, <3>3, <3>4, PathOfChild
    <3>6. PICK path : Chain(tree, path) /\ path[Len(path)] = m
      BY <3>5 DEF OnPathTo
    <3>7. Len(path) \in 1 .. Len(path)
      BY <3>6, LenProperties DEF Chain
    <3> QED
      BY <3>6, <3>7 DEF OnPathTo, On
  <2> QED
    BY <2>1, <2>2
<1> HIDE DEF S
<1>4. Nat \subseteq S
  BY <1>2, <1>3, SetInduction
<1>5. n \in S /\ n <= n
  BY <1>1, <1>4
<1> QED
  BY <1>5 DEF S

(* What lies on the path to a node lies on what PathTo finds.              *)
LEMMA OnTheWay ==
  ASSUME NEW tree, CallsOfRoot(tree), NEW n \in 1 .. Len(tree)
  PROVE  \A m : m \in ToSet(Front(PathTo(tree, n))) <=> OnPathTo(tree, m, n) /\ m # n
<1>1. Rooted(tree)
  BY DEF CallsOfRoot
<1>2. PICK path : Chain(tree, path) /\ path[Len(path)] = n
  BY PathsExist DEF OnPathTo
<1>3. PathTo(tree, n) = path
  BY <1>1, <1>2, PathOfChain
<1>4. \A m : OnPathTo(tree, m, n) <=> On(path, m)
  <2>1. \A q : Chain(tree, q) /\ q[Len(q)] = n => q = path
    BY <1>1, <1>3, PathOfChain
  <2> QED
    BY <1>2, <2>1 DEF OnPathTo
<1>5. \A m : m \in ToSet(Front(path)) <=> On(Front(path), m)
  <2> DEFINE np == Front(path)
  <2>1. DOMAIN np = 1 .. Len(np)
    <3>1. path \in Seq(Nat) /\ Len(path) # 0
      BY <1>2 DEF Chain
    <3>2. np \in Seq(Nat)
      BY <3>1, FrontFacts
    <3> QED
      BY <3>2, LenProperties
  <2> HIDE DEF np
  <2>2. \A m : m \in ToSet(np) <=> On(np, m)
    BY <2>1 DEF ToSet, On
  <2> QED
    BY <2>2 DEF np
<1>6. \A m : On(Front(path), m) <=> On(path, m) /\ m # n
  BY <1>1, <1>2, OnFront
<1> QED
  BY <1>3, <1>4, <1>5, <1>6

-----------------------------------------------------------------------------
(* The functions in the order of their first calls: no two have the same   *)
(* id, and all ids are below the number of functions.                      *)
Names(tree, k) == {tree[n].function : n \in ROOT + 1 .. k}

NumberOfNames(tree) == Cardinality(Names(tree, Len(tree)))

LEMMA NamesFinite ==
  ASSUME NEW tree, NEW k \in Nat
  PROVE  IsFiniteSet(Names(tree, k)) /\ Cardinality(Names(tree, k)) \in Nat
<1> DEFINE S == ROOT + 1 .. k
           T == Names(tree, k)
           f == [n \in S |-> tree[n].function]
<1>1. IsFiniteSet(S)
  BY FS_Interval DEF ROOT
<1>2. f \in Surjection(S, T)
  BY DEF Surjection, Names
<1> HIDE DEF S, T, f
<1>3. IsFiniteSet(T)
  BY <1>1, <1>2, FS_Surjection
<1> QED
  BY <1>3, FS_CardinalityType DEF T

LEMMA FirstCall ==
  ASSUME NEW tree, CallsOfRoot(tree), NEW f, f # Spontaneous, NEW n \in DOMAIN tree,
         tree[n].function = f
  PROVE  LET first == Min(NodesOf(tree, f))
         IN  /\ first \in 2 .. Len(tree) /\ tree[first].function = f
             /\ \A m \in 2 .. first - 1 : tree[m].function # f
             /\ FunctionId(tree, f) = Cardinality(Names(tree, first - 1))
<1> DEFINE nodes == NodesOf(tree, f)
           first == Min(nodes)
<1>1. Len(tree) \in Nat \ {0} /\ DOMAIN tree = 1 .. Len(tree) /\ tree[ROOT].function = Spontaneous
  BY DEF CallsOfRoot, Rooted
<1>2. nodes \subseteq Nat /\ nodes # {} /\ \A m : m \in nodes <=> m \in DOMAIN tree /\ tree[m].function = f
  BY <1>1 DEF NodesOf
<1>4. FunctionId(tree, f) = Cardinality(Names(tree, first - 1))
  BY DEF FunctionId, Names
<1> HIDE DEF nodes
<1>3. first \in nodes /\ \A m \in nodes : first <= m
  BY <1>2, MinFacts
<1> HIDE DEF first
<1>5. first \in 1 .. Len(tree) /\ first # ROOT /\ tree[first].function = f
  BY <1>1, <1>2, <1>3
<1>6. first \in 2 .. Len(tree)
  BY <1>1, <1>5 DEF ROOT
<1>7. ASSUME NEW m \in 2 .. first - 1 PROVE tree[m].function # f
  <2>1. m \in DOMAIN tree /\ m < first
    BY <1>1, <1>6
  <2> QED
    BY <1>1, <1>2, <1>3, <1>6, <2>1
<1> QED
  BY <1>4, <1>5, <1>6, <1>7 DEF first, nodes

LEMMA IdsInOrder ==
  ASSUME NEW tree, NEW a \in Nat, NEW b \in Nat, a < b, b >= 2,
         \A m \in 2 .. a : tree[m].function # tree[b].function
  PROVE  Cardinality(Names(tree, a)) < Cardinality(Names(tree, b))
<1> DEFINE A == Names(tree, a)
           B == Names(tree, b)
<1>1. IsFiniteSet(B) /\ Cardinality(B) \in Nat /\ Cardinality(A) \in Nat
  BY NamesFinite
<1>2. A \subseteq B
  BY DEF Names, ROOT
<1>3. tree[b].function \in B
  <2>1. b \in ROOT + 1 .. b
    BY DEF ROOT
  <2> QED
    BY <2>1 DEF Names
<1>4. tree[b].function \notin A
  BY DEF Names, ROOT
<1> HIDE DEF A, B
<1>5. Cardinality(A) <= Cardinality(B) /\ Cardinality(A) # Cardinality(B)
  BY <1>1, <1>2, <1>3, <1>4, FS_Subset
<1>6. Cardinality(A) < Cardinality(B)
  BY <1>1, <1>5
<1> QED
  BY <1>6 DEF A, B

LEMMA IdsDiffer ==
  ASSUME NEW tree, CallsOfRoot(tree), NEW m \in 2 .. Len(tree), NEW n \in 2 .. Len(tree)
  PROVE  LET f == tree[m].function
             g == tree[n].function
         IN  /\ FunctionId(tree, f) \in 0 .. NumberOfNames(tree) - 1
             /\ FunctionId(tree, f) = FunctionId(tree, g) => f = g
<1> DEFINE First(f) == Min(NodesOf(tree, f))
           Id(f) == FunctionId(tree, f)
           L == Len(tree)
<1>1. L \in Nat \ {0} /\ DOMAIN tree = 1 .. L
  BY DEF CallsOfRoot, Rooted
<1>2. ASSUME NEW k \in 2 .. L
      PROVE  /\ First(tree[k].function) \in 2 .. L
             /\ tree[First(tree[k].function)].function = tree[k].function
             /\ \A i \in 2 .. First(tree[k].function) - 1 : tree[i].function # tree[k].function
             /\ Id(tree[k].function) = Cardinality(Names(tree, First(tree[k].function) - 1))
             /\ Id(tree[k].function) \in Nat
  <2> DEFINE f == tree[k].function
  <2>1. f # Spontaneous /\ k \in DOMAIN tree
    BY <1>1, FunctionAssumption DEF CallsOfRoot
  <2>2. /\ First(f) \in 2 .. L /\ tree[First(f)].function = f
        /\ \A i \in 2 .. First(f) - 1 : tree[i].function # f
        /\ Id(f) = Cardinality(Names(tree, First(f) - 1))
    BY <2>1, FirstCall
  <2> HIDE DEF First, Id
  <2>3. First(f) - 1 \in Nat
    BY <2>2
  <2>4. Id(f) \in Nat
    BY <2>2, <2>3, NamesFinite
  <2> QED
    BY <2>2, <2>4
<1> HIDE DEF First, Id, L
<1>3. ASSUME NEW k \in 2 .. L, NEW b \in 2 .. L + 1, First(tree[k].function) < b
      PROVE  Id(tree[k].function) < Cardinality(Names(tree, b - 1))
  <2> DEFINE f == tree[k].function
             a == First(f)
  <2>1. /\ a \in 2 .. L /\ tree[a].function = f
        /\ \A i \in 2 .. a - 1 : tree[i].function # f
        /\ Id(f) = Cardinality(Names(tree, a - 1))
    BY <1>2
  <2>0. a < b
    BY <1>3
  <2> HIDE DEF a, f
  <2>2. a - 1 \in Nat /\ a \in Nat /\ a >= 2 /\ a - 1 < a /\ b - 1 \in Nat
    BY <1>1, <2>1
  <2>3. Cardinality(Names(tree, a - 1)) < Cardinality(Names(tree, a))
    BY <2>1, <2>2, IdsInOrder
  <2>4. Cardinality(Names(tree, a)) <= Cardinality(Names(tree, b - 1))
    <3>1. IsFiniteSet(Names(tree, b - 1))
      BY <2>2, NamesFinite
    <3>2. Names(tree, a) \subseteq Names(tree, b - 1)
      BY <1>1, <2>0, <2>2 DEF Names, ROOT
    <3> QED
      BY <3>1, <3>2, FS_Subset
  <2>5. /\ Cardinality(Names(tree, a)) \in Nat /\ Cardinality(Names(tree, a - 1)) \in Nat
        /\ Cardinality(Names(tree, b - 1)) \in Nat
    BY <2>2, NamesFinite
  <2>6. Id(f) < Cardinality(Names(tree, b - 1))
    BY <2>1, <2>3, <2>4, <2>5
  <2> QED
    BY <2>6 DEF f
<1>4. ASSUME NEW k \in 2 .. L PROVE Id(tree[k].function) \in 0 .. NumberOfNames(tree) - 1
  <2>1. L + 1 \in 2 .. L + 1 /\ (L + 1) - 1 = L /\ First(tree[k].function) < L + 1
    BY <1>1, <1>2
  <2>2. Id(tree[k].function) < Cardinality(Names(tree, L))
    BY <1>3, <2>1
  <2>3. NumberOfNames(tree) = Cardinality(Names(tree, L)) /\ Cardinality(Names(tree, L)) \in Nat
    BY <1>1, NamesFinite DEF NumberOfNames, L
  <2> QED
    BY <1>2, <2>2, <2>3
<1>5. ASSUME NEW j \in 2 .. L, NEW k \in 2 .. L, First(tree[j].function) < First(tree[k].function)
      PROVE  Id(tree[j].function) < Id(tree[k].function)
  <2>1. First(tree[k].function) \in 2 .. L + 1
    <3>1. First(tree[k].function) \in 2 .. L
      BY <1>2
    <3>2. 2 .. L \subseteq 2 .. L + 1
      BY <1>1
    <3> QED
      BY <3>1, <3>2
  <2> QED
    BY <1>2, <1>3, <1>5, <2>1
<1>6. ASSUME NEW j \in 2 .. L, NEW k \in 2 .. L, Id(tree[j].function) = Id(tree[k].function)
      PROVE  tree[j].function = tree[k].function
  <2>1. ~(First(tree[j].function) < First(tree[k].function))
    BY <1>2, <1>5, <1>6
  <2>2. ~(First(tree[k].function) < First(tree[j].function))
    BY <1>2, <1>5, <1>6
  <2>3. First(tree[j].function) = First(tree[k].function)
    BY <1>2, <2>1, <2>2
  <2> QED
    BY <1>2, <2>3
<1>7. m \in 2 .. L /\ n \in 2 .. L
  BY DEF L
<1> QED
  BY <1>4, <1>6, <1>7 DEF Id

-----------------------------------------------------------------------------
(* The bitmask with which the aggregation reaches a node is defined by     *)
(* recursion on the parent.                                                *)
MaskItem(mask, tree, m) ==
  IF m = ROOT \/ tree[m].parent = ROOT
  THEN bitmask_create(NumberOfNames(tree))
  ELSE bitmask_set(mask[tree[m].parent], FunctionId(tree, tree[tree[m].parent].function))

MaskStep(mask, tree, n) == mask = [m \in 1 .. n |-> MaskItem(mask, tree, m)]

LEMMA MaskExists ==
  ASSUME NEW tree, CallsOfRoot(tree), NEW n \in 1 .. Len(tree)
  PROVE  \E mask : MaskStep(mask, tree, n)
<1> DEFINE S == {d \in Nat : d <= Len(tree) => \E mask : MaskStep(mask, tree, d)}
<1>1. Len(tree) \in Nat /\ \A m \in 2 .. Len(tree) : tree[m].parent \in 1 .. m - 1
  BY DEF CallsOfRoot, Rooted
<1>2. 0 \in S
  <2> DEFINE none == [m \in 1 .. 0 |-> 0]
  <2>1. \A m \in 1 .. 0 : none[m] = MaskItem(none, tree, m)
    OBVIOUS
  <2>2. none = [m \in 1 .. 0 |-> MaskItem(none, tree, m)]
    BY <2>1
  <2> HIDE DEF none
  <2> QED
    BY <2>2 DEF MaskStep
<1>3. ASSUME NEW d \in Nat, d \in S PROVE d + 1 \in S
  <2> SUFFICES ASSUME d + 1 <= Len(tree) PROVE \E mask : MaskStep(mask, tree, d + 1)
    OBVIOUS
  <2>1. PICK old : MaskStep(old, tree, d)
    BY <1>1, <1>3
  <2> DEFINE mask == [m \in 1 .. d + 1 |-> MaskItem(old, tree, m)]
  <2>2. \A m \in 1 .. d : mask[m] = old[m]
    BY <2>1 DEF MaskStep
  <2> HIDE DEF mask
  <2>3. ASSUME NEW m \in 1 .. d + 1 PROVE MaskItem(mask, tree, m) = MaskItem(old, tree, m)
    <3>1. CASE m = ROOT
      BY <3>1 DEF MaskItem
    <3>2. CASE m # ROOT
      <4>1. m \in 2 .. Len(tree)
        BY <1>1, <3>2 DEF ROOT
      <4>2. tree[m].parent \in 1 .. d
        BY <1>1, <4>1
      <4>3. mask[tree[m].parent] = old[tree[m].parent]
        BY <2>2, <4>2
      <4> QED
        BY <4>3 DEF MaskItem
    <3> QED
      BY <3>1, <3>2
  <2>4. mask = [m \in 1 .. d + 1 |-> MaskItem(mask, tree, m)]
    BY <2>3 DEF mask
  <2> QED
    BY <2>4 DEF MaskStep
<1> HIDE DEF S
<1>4. Nat \subseteq S
  BY <1>2, <1>3, SetInduction
<1>5. n \in Nat /\ n \in S /\ n <= Len(tree)
  BY <1>1, <1>4
<1> QED
  BY <1>5 DEF S

(* It holds the functions of the nodes on the way, the node itself left    *)
(* out.                                                                    *)
Met(tree, m, j) ==
  \E k : OnPathTo(tree, k, m) /\ k # m /\ k # ROOT /\ FunctionId(tree, tree[k].function) = j

LEMMA MetBefore ==
  ASSUME NEW tree, CallsOfRoot(tree), NEW n \in 1 .. Len(tree), NEW mask, MaskStep(mask, tree, n)
  PROVE  /\ Mask(mask[n], NumberOfNames(tree))
         /\ \A j \in 0 .. NumberOfNames(tree) - 1 : bitmask_get(mask[n], j) <=> Met(tree, n, j)
<1> DEFINE W == NumberOfNames(tree)
           L == Len(tree)
           Good(m) == /\ Mask(mask[m], W)
                      /\ \A j \in 0 .. W - 1 : bitmask_get(mask[m], j) <=> Met(tree, m, j)
           S == {d \in Nat : \A m \in 1 .. n : m <= d => Good(m)}
<1>1. /\ L \in Nat \ {0} /\ Rooted(tree) /\ W \in Nat
      /\ \A m \in 2 .. L : tree[m].parent \in 1 .. m - 1
      /\ \A m \in 1 .. n : mask[m] = MaskItem(mask, tree, m)
  BY NamesFinite DEF CallsOfRoot, Rooted, NumberOfNames, MaskStep
<1>2. 0 \in S
  OBVIOUS
<1>3. ASSUME NEW d \in Nat, d \in S PROVE d + 1 \in S
  <2> SUFFICES ASSUME NEW m \in 1 .. n, m = d + 1 PROVE Good(m)
    BY <1>3
  <2> DEFINE p == tree[m].parent
  <2>0. m \in 1 .. L /\ (m # ROOT => m \in 2 .. L) /\ mask[m] = MaskItem(mask, tree, m)
    BY <1>1 DEF ROOT
  <2>1. CASE m = ROOT \/ p = ROOT
    <3>1. mask[m] = bitmask_create(W)
      BY <2>0, <2>1 DEF MaskItem
    <3>2. Mask(mask[m], W) /\ \A j \in 0 .. W - 1 : ~bitmask_get(mask[m], j)
      BY <1>1, <3>1, CreatedMask
    <3>3. \A j : ~Met(tree, m, j)
      <4> SUFFICES ASSUME NEW k, OnPathTo(tree, k, m), k # m, k # ROOT PROVE FALSE
        BY DEF Met
      <4>1. CASE m = ROOT
        BY <1>1, <4>1, PathOfRoot
      <4>2. CASE m # ROOT
        <5>1. p = ROOT /\ p \in 1 .. L
          BY <1>1, <2>1, <4>2 DEF ROOT
        <5>2. OnPathTo(tree, k, ROOT)
          BY <1>1, <2>0, <5>1, PathOfChild
        <5> QED
          BY <1>1, <5>2, PathOfRoot
      <4> QED
        BY <4>1, <4>2
    <3> QED
      BY <3>2, <3>3
  <2>2. CASE m # ROOT /\ p # ROOT
    <3> DEFINE i == FunctionId(tree, tree[p].function)
    <3>1. p \in 1 .. m - 1 /\ p \in 2 .. L /\ p \in 1 .. L /\ p \in 1 .. n /\ p <= d
      BY <1>1, <2>0, <2>2 DEF ROOT
    <3>2. mask[m] = bitmask_set(mask[p], i)
      BY <2>0, <2>2 DEF MaskItem
    <3>3. i \in 0 .. W - 1
      BY <3>1, IdsDiffer
    <3>4. Good(p)
      BY <1>3, <3>1
    <3>5. \A k : OnPathTo(tree, k, m) /\ k # m <=> OnPathTo(tree, k, p)
      BY <1>1, <2>0, <3>1, PathOfChild
    <3>6. OnPathTo(tree, p, p)
      BY <3>1, PathsExist
    <3> HIDE DEF p
    <3>7. \A j : Met(tree, m, j) <=> j = i \/ Met(tree, p, j)
      <4> SUFFICES ASSUME NEW j PROVE Met(tree, m, j) <=> j = i \/ Met(tree, p, j)
        OBVIOUS
      <4>1. Met(tree, m, j) <=>
              \E k : OnPathTo(tree, k, p) /\ k # ROOT /\ FunctionId(tree, tree[k].function) = j
        BY <3>5 DEF Met
      <4>2. j = i => Met(tree, m, j)
        BY <2>2, <3>6, <4>1
      <4>3. Met(tree, p, j) => Met(tree, m, j)
        BY <4>1 DEF Met
      <4>4. ASSUME Met(tree, m, j), ~Met(tree, p, j) PROVE j = i
        <5>1. PICK k : OnPathTo(tree, k, p) /\ k # ROOT /\ FunctionId(tree, tree[k].function) = j
          BY <4>1, <4>4
        <5>2. k = p
          BY <4>4, <5>1 DEF Met
        <5> QED
          BY <5>1, <5>2
      <4> QED
        BY <4>2, <4>3, <4>4
    <3> HIDE DEF i, W
    <3>8. /\ Mask(mask[m], W)
          /\ \A j \in 0 .. W - 1 : bitmask_get(mask[m], j) <=> j = i \/ bitmask_get(mask[p], j)
      BY <1>1, <3>2, <3>3, <3>4, SetBit
    <3> QED
      BY <3>4, <3>7, <3>8
  <2> QED
    BY <2>1, <2>2
<1> HIDE DEF S
<1>4. Nat \subseteq S
  BY <1>2, <1>3, SetInduction
<1>5. n \in S /\ n \in 1 .. n /\ n <= n
  BY <1>1, <1>4
<1>6. Good(n)
  BY <1>5 DEF S
<1> QED
  BY <1>6

(* A call is counted as outermost just when no call of the same function   *)
(* is on the way to it.                                                    *)
LEMMA OutermostFacts ==
  ASSUME NEW tree, CallsOfRoot(tree), NEW n \in 2 .. Len(tree)
  PROVE  Outermost(tree, n) <=>
           \A k : OnPathTo(tree, k, n) /\ k # n => tree[k].function # tree[n].function
<1> DEFINE mask == CHOOSE m : MaskStep(m, tree, n)
           id == FunctionId(tree, tree[n].function)
<1>1. n \in 1 .. Len(tree) /\ Len(tree) \in Nat \ {0}
  BY DEF CallsOfRoot, Rooted
<1>2. MaskAt(tree, n) = mask[n]
  BY Zenon DEF MaskAt, MaskStep, MaskItem, NumberOfNames, Names
<1>3. MaskStep(mask, tree, n)
  BY <1>1, MaskExists
<1> HIDE DEF mask
<1>4. id \in 0 .. NumberOfNames(tree) - 1
  BY IdsDiffer
<1>5. Outermost(tree, n) <=> ~Met(tree, n, id)
  <2>1. bitmask_get(mask[n], id) <=> Met(tree, n, id)
    BY <1>1, <1>3, <1>4, MetBefore
  <2> QED
    BY <1>2, <2>1 DEF Outermost
<1>6. \A k : OnPathTo(tree, k, n) => k \in 1 .. Len(tree)
  BY DEF OnPathTo, On, Chain
<1>7. ASSUME NEW k, OnPathTo(tree, k, n)
      PROVE  /\ k = ROOT => tree[k].function # tree[n].function
             /\ k # ROOT => (FunctionId(tree, tree[k].function) = id
                              <=> tree[k].function = tree[n].function)
  <2>1. k = ROOT => tree[k].function # tree[n].function
    BY FunctionAssumption DEF CallsOfRoot
  <2>2. k # ROOT => k \in 2 .. Len(tree)
    BY <1>1, <1>6, <1>7 DEF ROOT
  <2> QED
    BY <2>1, <2>2, IdsDiffer
<1> QED
  BY <1>5, <1>7 DEF Met

-----------------------------------------------------------------------------
(* The tree of a trace read to the end, and what is counted in it.         *)
LEMMA DoneTree ==
  ASSUME TimesInv, status = "done"
  PROVE  CallsOfRoot(call_tree)
<1> DEFINE L == Len(call_tree)
<1>1. PICK tree : /\ Complete(tree)
                  /\ L \in Nat \ {0} /\ DOMAIN call_tree = 1 .. L
                  /\ \A n \in 1 .. L : SameNode(tree[n], call_tree[n])
                  /\ \A n \in 2 .. L : n \in 1 .. L /\ call_tree[n].function \in Function
                  /\ call_tree[ROOT].function = Spontaneous
  BY CompleteFacts
<1>2. /\ Rooted(tree) /\ Len(tree) = L
      /\ \A n \in 2 .. L : tree[n].parent \in 1 .. n - 1
  BY <1>1 DEF Complete, Nested
<1>3. \A n \in 1 .. L : call_tree[n].parent = tree[n].parent
  BY <1>1 DEF SameNode
<1>4. Rooted(call_tree)
  <2>1. call_tree[ROOT].parent = NULL
    BY <1>1, <1>2, <1>3 DEF Rooted, ROOT
  <2> QED
    BY <1>1, <1>2, <1>3, <2>1 DEF Rooted
<1> QED
  BY <1>1, <1>2, <1>3, <1>4 DEF CallsOfRoot

LEMMA DoneCountedOnce ==
  ASSUME Inv, TimesInv, Totals, status = "done"
  PROVE  CountedOnce
<1> SUFFICES ASSUME NEW f \in DOMAIN functions
             PROVE  functions[f].primaries =
                      {n \in NodesOf(call_tree, f) :
                         f \notin {call_tree[m].function :
                                     m \in ToSet(Front(PathTo(call_tree, n)))}}
  BY DEF CountedOnce
<1>1. CallsOfRoot(call_tree) /\ Len(call_tree) \in Nat
  BY DoneTree DEF CallsOfRoot, Rooted
<1>2. functions[f].primaries = {n \in NodesOf(call_tree, f) : Outermost(call_tree, n)}
  BY DEF Totals
<1>3. ASSUME NEW n \in NodesOf(call_tree, f)
      PROVE  Outermost(call_tree, n) <=>
               f \notin {call_tree[m].function : m \in ToSet(Front(PathTo(call_tree, n)))}
  <2>1. n \in 2 .. Len(call_tree) /\ n \in 1 .. Len(call_tree) /\ call_tree[n].function = f
    <3>1. f \in Function
      BY DEF Inv, GoodFunctions
    <3>2. n \in 2 .. Len(call_tree)
      BY <3>1, NodesOfFunction
    <3> QED
      BY <1>1, <3>2 DEF NodesOf
  <2>2. Outermost(call_tree, n) <=>
          \A k : OnPathTo(call_tree, k, n) /\ k # n => call_tree[k].function # f
    BY <1>1, <2>1, OutermostFacts
  <2>3. \A m : m \in ToSet(Front(PathTo(call_tree, n))) <=> OnPathTo(call_tree, m, n) /\ m # n
    BY <1>1, <2>1, OnTheWay
  <2> QED
    BY <2>2, <2>3
<1> QED
  BY <1>2, <1>3

(* The outermost calls of a function follow each other.                    *)
LEMMA ChildrenWithinRuntime ==
  ASSUME Inv, TimesInv, Totals, status = "done", NEW f \in DOMAIN functions
  PROVE  functions[f].children_time <= clock
<1> DEFINE L == Len(call_tree)
           nodes == NodesOf(call_tree, f)
           C == {n \in nodes : Outermost(call_tree, n)}
<1>1. PICK tree : /\ Complete(tree)
                  /\ Nodes(call_tree, L) /\ L \in Nat \ {0} /\ DOMAIN call_tree = 1 .. L
                  /\ \A n \in 1 .. L : SameNode(tree[n], call_tree[n]) /\ call_tree[n] \in Node
  BY CompleteFacts
<1>2. /\ Nested(tree, L, clock) /\ clock \in Nat /\ Len(tree) = L /\ Rooted(tree)
      /\ SettledFrom(tree, L, call_tree, 1) /\ DOMAIN tree = 1 .. L
      /\ Spent(call_tree, L) /\ CallsOfRoot(call_tree)
  BY <1>1, DoneTree DEF Complete, TimesInv, Nested, Nodes
<1>3. nodes \subseteq 2 .. L /\ nodes \subseteq 1 .. L
  <2>1. f \in Function
    BY DEF Inv, GoodFunctions
  <2>2. nodes \subseteq 2 .. L
    BY <2>1, NodesOfFunction
  <2> QED
    BY <1>1, <2>2
<1>4. functions[f].children_time = SumOf(ChildrenTimes(call_tree), C)
  <2>1. functions[f].children_time = Total(call_tree, nodes).children_time
    BY DEF Totals
  <2> HIDE DEF nodes
  <2> QED
    BY <1>1, <1>3, <2>1, TotalFacts
<1>5. C \subseteq 2 .. L /\ C \subseteq 1 .. L /\ C \subseteq nodes
  BY <1>3
<1>6. \A m, n \in C : m < n => ~OnPathTo(tree, m, n)
  <2> SUFFICES ASSUME NEW m \in C, NEW n \in C, m < n, OnPathTo(tree, m, n) PROVE FALSE
    OBVIOUS
  <2>1. OnPathTo(call_tree, m, n)
    <3>1. Len(call_tree) = Len(tree) /\ \A k \in 1 .. Len(tree) : call_tree[k].parent = tree[k].parent
      BY <1>1, <1>2 DEF SameNode
    <3> QED
      BY <1>2, <3>1, ChainKept
  <2>2. /\ m # n /\ n \in 2 .. Len(call_tree) /\ Outermost(call_tree, n)
        /\ call_tree[m].function = f /\ call_tree[n].function = f
    BY <1>5 DEF NodesOf
  <2> QED
    BY <1>2, <2>1, <2>2, OutermostFacts
<1> HIDE DEF C, nodes
<1> DEFINE d == Duration(tree)
           w == ChildrenTimes(call_tree)
<1>7. SumOf(d, C) <= clock
  BY <1>2, <1>5, <1>6, ApartFits
<1>8. ASSUME NEW n \in C PROVE w[n] \in Int /\ d[n] \in Int /\ w[n] <= d[n]
  <2>1. n \in 1 .. L /\ n # ROOT /\ n >= 1
    BY <1>1, <1>5 DEF ROOT
  <2>2. w[n] = call_tree[n].children_time
    BY <1>1, <2>1 DEF ChildrenTimes
  <2>3. call_tree[n].self_time + call_tree[n].children_time + call_tree[n].orphan_time = d[n]
    BY <1>2, <2>1 DEF SettledFrom
  <2>4. /\ call_tree[n].self_time \in Int /\ call_tree[n].children_time \in Int
        /\ call_tree[n].orphan_time \in Int
    BY <1>1, <2>1 DEF Node
  <2>5. call_tree[n].self_time >= 0 /\ call_tree[n].orphan_time >= 0
    BY <1>2, <2>1 DEF Spent
  <2> HIDE DEF d, w
  <2> QED
    BY <2>2, <2>3, <2>4, <2>5
<1>9. IsFiniteSet(C) /\ Numbered(w, C) /\ Numbered(d, C)
  <2>1. IsFiniteSet(1 .. L)
    BY <1>1, FS_Interval
  <2>2. IsFiniteSet(C)
    BY <1>5, <2>1, FS_Subset
  <2> HIDE DEF d, w
  <2> QED
    BY <1>8, <2>2 DEF Numbered
<1> HIDE DEF d, w
<1>10. SumOf(w, C) <= SumOf(d, C)
  BY <1>8, <1>9, SumAtMost
<1>11. SumOf(w, C) \in Int /\ SumOf(d, C) \in Int
  BY <1>9, SumSplit
<1> QED
  BY <1>2, <1>4, <1>7, <1>10, <1>11 DEF w

(* The self times of all functions add up to the time during which one was *)
(* running, no function has had more time than the run, recursive or not,  *)
(* and the descendants of a function are counted below its outermost calls *)
(* only, whatever the width of a word of the bitmask.                      *)
THEOREM SpecTimesConserved == Spec => []TimesConserved
<1>1. Inv /\ CallsInv /\ TimesInv /\ Totals => TimesConserved
  <2> SUFFICES ASSUME Inv, CallsInv, TimesInv, Totals, status = "done"
               PROVE  RuntimeAccounted /\ WithinRuntime /\ CountedOnce
    BY DEF TimesConserved
  <2> DEFINE all == SumOf(SelfTimes(call_tree), 2 .. Len(call_tree))
             selves == MapThenSumSet(LAMBDA f : functions[f].self_time, DOMAIN functions)
             tops == MapThenSumSet(LAMBDA n : call_tree[n].exit_time - call_tree[n].entry_time,
                                   TopLevel)
  <2>1. selves = all /\ \A f \in DOMAIN functions : functions[f].self_time <= all
    BY SelfTimeOfFunctions
  <2>2. tops = all /\ all <= clock
    BY RuntimeOfTree
  <2>3. RuntimeAccounted
    <3>1. selves = tops
      BY <2>1, <2>2
    <3> QED
      BY <3>1 DEF RuntimeAccounted
  <2>4. \A f \in DOMAIN functions : functions[f].self_time \in Int /\ all \in Int
    <3>1. Nodes(call_tree, Len(call_tree)) /\ Len(call_tree) \in Nat
          /\ \A n \in 2 .. Len(call_tree) : n \in 1 .. Len(call_tree)
      BY CompleteFacts
    <3>2. \A S : S \subseteq 1 .. Len(call_tree) =>
                   /\ Total(call_tree, S).self_time = SumOf(SelfTimes(call_tree), S)
                   /\ Total(call_tree, S).self_time \in Int
      BY <3>1, TotalFacts
    <3>3. 2 .. Len(call_tree) \subseteq 1 .. Len(call_tree)
      BY <3>1
    <3>4. all \in Int
      BY <3>2, <3>3
    <3>5. \A f \in DOMAIN functions : NodesOf(call_tree, f) \subseteq 1 .. Len(call_tree)
      BY <3>1 DEF NodesOf, Nodes
    <3>6. \A f \in DOMAIN functions :
            functions[f].self_time = Total(call_tree, NodesOf(call_tree, f)).self_time
      BY DEF Totals
    <3> HIDE DEF all
    <3> QED
      BY <3>2, <3>4, <3>5, <3>6
  <2> HIDE DEF all
  <2>5. WithinRuntime
    <3> SUFFICES ASSUME NEW f \in DOMAIN functions
                 PROVE  functions[f].self_time <= clock /\ functions[f].children_time <= clock
      BY DEF WithinRuntime
    <3>1. clock \in Nat
      BY DEF TimesInv
    <3>2. functions[f].self_time <= clock
      <4>1. functions[f].self_time \in Int /\ all \in Int
        BY <2>4
      <4>2. functions[f].self_time <= all
        BY <2>1
      <4>3. all <= clock
        BY <2>2
      <4> HIDE DEF selves, tops
      <4> QED
        BY <3>1, <4>1, <4>2, <4>3
    <3> QED
      BY <3>2, ChildrenWithinRuntime
  <2>6. CountedOnce
    BY DoneCountedOnce
  <2> QED
    BY <2>3, <2>5, <2>6
<1> QED
  BY <1>1, InitCalls, NextCalls, SpecInv, SpecTimes, SpecTotals, PTL DEF Spec

-----------------------------------------------------------------------------
(* The callees of a function are the functions that it has called directly *)
(* at some node of the tree.                                               *)
DirectCall(tree, n, c, f) ==
  tree[n].direct /\ tree[n].function = f /\ tree[tree[n].parent].function = c

Recorded(fs, tree) ==
  \A c \in DOMAIN fs, f \in Function :
    f \in DOMAIN fs[c].callees <=> \E n \in 2 .. Len(tree) : DirectCall(tree, n, c, f)

(* What the pairs are told is what the nodes of the callee below those of  *)
(* the caller have.                                                        *)
PairTotals ==
  status = "done" =>
    \A c \in DOMAIN functions :
      /\ functions[c].secondaries =
           {n \in NodesOf(call_tree, c) : ~Outermost(call_tree, n)}
      /\ \A f \in DOMAIN functions[c].callees :
           LET total == Total(call_tree, PairNodes(call_tree, c, f))
           IN  /\ functions[c].callees[f].self_time = total.self_time
               /\ functions[c].callees[f].children_time = total.children_time

PairsInv == Recorded(functions, call_tree) /\ PairTotals

(* Nodes whose place in the tree stays the same are the same calls.        *)
LEMMA SameRecorded ==
  ASSUME NEW fs, NEW gs, NEW tree, NEW new, Recorded(fs, tree), Formed(tree),
         Len(tree) \in Nat, Len(new) = Len(tree),
         \A n \in 1 .. Len(tree) : /\ new[n].function = tree[n].function
                                   /\ new[n].parent = tree[n].parent
                                   /\ new[n].direct = tree[n].direct,
         DOMAIN gs = DOMAIN fs,
         \A c \in DOMAIN fs : DOMAIN gs[c].callees = DOMAIN fs[c].callees
  PROVE  Recorded(gs, new)
<1>1. ASSUME NEW n \in 2 .. Len(tree), NEW c, NEW f
      PROVE  DirectCall(new, n, c, f) <=> DirectCall(tree, n, c, f)
  <2>1. n \in 1 .. Len(tree) /\ tree[n].parent \in 1 .. n - 1
    BY DEF Formed
  <2>2. tree[n].parent \in 1 .. Len(tree)
    BY <2>1
  <2> QED
    BY <2>1, <2>2 DEF DirectCall
<1> QED
  BY <1>1 DEF Recorded

(* A call adds a callee to its caller just if the node added is direct.    *)
LEMMA EnterRecorded ==
  ASSUME Inv, TimesInv, Recorded(functions, call_tree),
         NEW f \in Function, NEW symbol \in Symbols, function_enter(f, symbol)
  PROVE  Recorded(functions, call_tree)'
<1> DEFINE L == Len(call_tree)
           c == Caller(symbol)
           cur == call_tree_current_node
           direct == IsDirect(symbol)
           K == Known(functions, f)
<1>1. /\ status = "reading" /\ cur # NULL
      /\ functions' = CountCallee(CountCaller(functions, f, c), f, c)
      /\ call_tree' = Append(call_tree, NewNode(f, clock', cur, direct))
  BY DEF function_enter, NextEvent
<1>2. /\ Formed(call_tree) /\ L \in Nat /\ cur \in 1 .. L /\ DOMAIN call_tree = 1 .. L
      /\ \A n \in 1 .. L : call_tree[n].function \in DOMAIN functions \cup {Spontaneous}
  BY <1>1 DEF TimesInv, Unsettled, Inv, GoodTree, NULL
<1>3. GoodFunctions(functions) /\ DOMAIN functions \subseteq Function
  BY DEF Inv, GoodFunctions
<1>4. /\ c = IF direct THEN call_tree[cur].function ELSE Spontaneous
      /\ c \in DOMAIN functions \cup {Spontaneous}
  BY <1>2 DEF Caller, Current
<1>5. /\ DOMAIN functions' = DOMAIN functions \cup {f} /\ DOMAIN K = DOMAIN functions \cup {f}
      /\ \A g \in DOMAIN K :
           functions'[g].callees = IF g = c THEN OneMoreCall(K[g].callees, f) ELSE K[g].callees
  <2>1. DOMAIN functions' = DOMAIN functions \cup {f}
    BY <1>1, <1>3, <1>4, CountGood
  <2>2. DOMAIN K = DOMAIN functions \cup {f}
    BY DEF Known
  <2> HIDE DEF K, c
  <2>3. \A g \in DOMAIN K :
          functions'[g].callees = IF g = c THEN OneMoreCall(K[g].callees, f) ELSE K[g].callees
    BY <1>1, <1>3, <1>4, CountFields DEF K
  <2> QED
    BY <2>1, <2>2, <2>3
<1>6. \A g \in DOMAIN K :
        DOMAIN K[g].callees = IF g \in DOMAIN functions THEN DOMAIN functions[g].callees ELSE {}
  BY DEF Known, NewFunction
<1> DEFINE node == NewNode(f, clock', cur, direct)
<1>7. /\ Len(call_tree') = L + 1
      /\ \A n \in 1 .. L : call_tree'[n] = call_tree[n]
      /\ call_tree'[L + 1] = node
      /\ node.function = f /\ node.parent = cur /\ node.direct = direct
  <2>1. node.function = f /\ node.parent = cur /\ node.direct = direct
    BY DEF NewNode
  <2> HIDE DEF node
  <2> QED
    BY <1>1, <1>2, <2>1 DEF node
<1> HIDE DEF K, node, c, direct, cur
<1>8. ASSUME NEW n \in 2 .. L, NEW g, NEW h
      PROVE  DirectCall(call_tree', n, g, h) <=> DirectCall(call_tree, n, g, h)
  <2>1. n \in 1 .. L /\ call_tree[n].parent \in 1 .. n - 1
    BY <1>2 DEF Formed
  <2>2. call_tree[n].parent \in 1 .. L
    BY <1>2, <2>1
  <2> QED
    BY <1>7, <2>1, <2>2 DEF DirectCall
<1>9. ASSUME NEW g, NEW h
      PROVE  DirectCall(call_tree', L + 1, g, h) <=>
               direct /\ h = f /\ call_tree[cur].function = g
  BY <1>2, <1>7 DEF DirectCall
<1>10. 2 .. L + 1 = (2 .. L) \cup {L + 1}
  <2>1. L >= 1
    BY <1>2
  <2> QED
    BY <1>2, <2>1
<1> HIDE DEF L
<1>11. ASSUME NEW g \in DOMAIN functions', NEW h \in Function
       PROVE  h \in DOMAIN functions'[g].callees <=>
                \E n \in 2 .. L + 1 : DirectCall(call_tree', n, g, h)
  <2>1. (\E n \in 2 .. L + 1 : DirectCall(call_tree', n, g, h)) <=>
          \/ \E n \in 2 .. L : DirectCall(call_tree, n, g, h)
          \/ direct /\ h = f /\ call_tree[cur].function = g
    BY <1>8, <1>9, <1>10
  <2>2. g \in DOMAIN K /\ g \in Function
    BY <1>3, <1>5
  <2>3. g = c <=> direct /\ call_tree[cur].function = g
    BY <1>4, <2>2, FunctionAssumption
  <2>4. DOMAIN functions'[g].callees =
          IF g = c THEN DOMAIN K[g].callees \cup {f} ELSE DOMAIN K[g].callees
    <3>1. functions'[g].callees = IF g = c THEN OneMoreCall(K[g].callees, f) ELSE K[g].callees
      BY <1>5, <2>2
    <3>2. DOMAIN OneMoreCall(K[g].callees, f) = DOMAIN K[g].callees \cup {f}
      BY DEF OneMoreCall
    <3> QED
      BY <3>1, <3>2
  <2>5. h \in DOMAIN K[g].callees <=> \E n \in 2 .. L : DirectCall(call_tree, n, g, h)
    <3>1. CASE g \in DOMAIN functions
      BY <1>6, <2>2, <3>1 DEF Recorded, L
    <3>2. CASE g \notin DOMAIN functions
      <4>1. ASSUME NEW n \in 2 .. L PROVE ~DirectCall(call_tree, n, g, h)
        <5>1. n \in 1 .. L /\ call_tree[n].parent \in 1 .. n - 1
          BY <1>2 DEF Formed, L
        <5>2. call_tree[n].parent \in 1 .. L
          BY <1>2, <5>1
        <5>3. call_tree[call_tree[n].parent].function # g
          BY <1>2, <2>2, <3>2, <5>2, FunctionAssumption
        <5> QED
          BY <5>3 DEF DirectCall
      <4> QED
        BY <1>6, <2>2, <3>2, <4>1
    <3> QED
      BY <3>1, <3>2
  <2> QED
    BY <2>1, <2>3, <2>4, <2>5
<1> QED
  BY <1>7, <1>11 DEF Recorded

LEMMA AggregatedPairs ==
  ASSUME NEW tree, NEW c \in DOMAIN functions, c # Spontaneous
  PROVE  LET A == Aggregated(tree)
         IN  /\ A[c].secondaries = {n \in NodesOf(tree, c) : ~Outermost(tree, n)}
             /\ DOMAIN A[c].callees = DOMAIN functions[c].callees
             /\ \A f \in DOMAIN functions[c].callees :
                  LET total == Total(tree, PairNodes(tree, c, f))
                  IN  /\ A[c].callees[f].self_time = total.self_time
                      /\ A[c].callees[f].children_time = total.children_time
<1> DEFINE A == Aggregated(tree)
<1>1. /\ A[c].secondaries = {n \in NodesOf(tree, c) : ~Outermost(tree, n)}
      /\ A[c].callees = [f \in DOMAIN functions[c].callees |->
                           WithPairTimes(tree, functions[c].callees[f], c, f)]
  BY DEF Aggregated
<1> HIDE DEF A
<1>2. ASSUME NEW f \in DOMAIN functions[c].callees
      PROVE  LET total == Total(tree, PairNodes(tree, c, f))
             IN  /\ A[c].callees[f].self_time = total.self_time
                 /\ A[c].callees[f].children_time = total.children_time
  <2>1. A[c].callees[f] = WithPairTimes(tree, functions[c].callees[f], c, f)
    BY <1>1
  <2> QED
    BY <2>1 DEF WithPairTimes
<1>3. DOMAIN A[c].callees = DOMAIN functions[c].callees
  BY <1>1
<1> QED
  BY <1>1, <1>2, <1>3 DEF A

LEMMA NextPairs == Inv /\ StackInv /\ TimesInv /\ PairsInv /\ [Next]_vars => PairsInv'
<1> SUFFICES ASSUME Inv, StackInv, TimesInv, PairsInv, [Next]_vars PROVE PairsInv'
  OBVIOUS
<1>0. Recorded(functions, call_tree) /\ PairTotals
  BY DEF PairsInv
<1>1. ASSUME NEW f \in Function, NEW symbol \in Symbols, function_enter(f, symbol)
      PROVE  PairsInv'
  <2>1. PairTotals'
    BY <1>1 DEF function_enter, NextEvent, PairTotals
  <2>2. Recorded(functions, call_tree)'
    BY <1>0, <1>1, EnterRecorded
  <2> QED
    BY <2>1, <2>2 DEF PairsInv
<1>2. CASE function_exit
  <2>0. /\ status = "reading" /\ status' = "reading" /\ functions' = functions
        /\ call_tree' = [call_tree EXCEPT ![call_tree_current_node].exit_time = clock']
    BY <1>2 DEF function_exit, NextEvent, Left
  <2>1. PairTotals'
    BY <2>0 DEF PairTotals
  <2>2. Nodes(call_tree, Len(call_tree)) /\ Formed(call_tree) /\ Len(call_tree) \in Nat
        /\ DOMAIN call_tree = 1 .. Len(call_tree)
    BY <2>0 DEF TimesInv, Unsettled, Nodes
  <2>3. /\ Len(call_tree') = Len(call_tree)
        /\ \A n \in 1 .. Len(call_tree) : /\ call_tree'[n].function = call_tree[n].function
                                          /\ call_tree'[n].parent = call_tree[n].parent
                                          /\ call_tree'[n].direct = call_tree[n].direct
    BY <2>0, <2>2 DEF Inv, GoodTree
  <2>4. Recorded(functions, call_tree)'
    BY <1>0, <2>0, <2>2, <2>3, SameRecorded
  <2> QED
    BY <2>1, <2>4 DEF PairsInv
<1>3. CASE function_exit_all
  <2>0. status = "reading" /\ functions' = Aggregated(call_tree')
    BY <1>3 DEF function_exit_all
  <2>1. /\ Len(call_tree') = Len(call_tree)
        /\ \A n \in 1 .. Len(call_tree) : /\ call_tree'[n].function = call_tree[n].function
                                          /\ call_tree'[n].parent = call_tree[n].parent
                                          /\ call_tree'[n].direct = call_tree[n].direct
    BY <1>3, ExitAllTimes
  <2>2. Formed(call_tree) /\ Len(call_tree) \in Nat
    BY <2>0 DEF TimesInv, Unsettled, Nodes
  <2>3. DOMAIN functions' = DOMAIN functions /\ \A c \in DOMAIN functions : c # Spontaneous
    BY <2>0, FunctionAssumption DEF Aggregated, Inv, GoodFunctions
  <2>4. \A c \in DOMAIN functions :
          /\ functions'[c].secondaries = {n \in NodesOf(call_tree', c) : ~Outermost(call_tree', n)}
          /\ DOMAIN functions'[c].callees = DOMAIN functions[c].callees
          /\ \A f \in DOMAIN functions[c].callees :
               LET total == Total(call_tree', PairNodes(call_tree', c, f))
               IN  /\ functions'[c].callees[f].self_time = total.self_time
                   /\ functions'[c].callees[f].children_time = total.children_time
    BY <2>0, <2>3, AggregatedPairs
  <2>5. PairTotals'
    BY <2>3, <2>4 DEF PairTotals
  <2>6. Recorded(functions, call_tree)'
    <3>1. \A c \in DOMAIN functions : DOMAIN functions'[c].callees = DOMAIN functions[c].callees
      BY <2>4
    <3> QED
      BY <1>0, <2>1, <2>2, <2>3, <3>1, SameRecorded
  <2> QED
    BY <2>5, <2>6 DEF PairsInv
<1>4. CASE Dereference
  <2>1. status' # "done" /\ functions' = functions /\ call_tree' = call_tree
    BY <1>4 DEF Dereference
  <2> QED
    BY <1>0, <2>1 DEF PairsInv, PairTotals
<1>5. CASE UNCHANGED vars
  <2>1. status' = status /\ functions' = functions /\ call_tree' = call_tree
    BY <1>5 DEF vars
  <2> QED
    BY <1>0, <2>1 DEF PairsInv, PairTotals
<1> QED
  BY <1>1, <1>2, <1>3, <1>4, <1>5 DEF Next

THEOREM SpecPairs == Spec => []PairsInv
<1>1. Init => PairsInv
  BY DEF Init, PairsInv, Recorded, PairTotals
<1> QED
  BY <1>1, NextPairs, SpecInv, SpecStack, SpecTimes, PTL DEF Spec

(* The times that a node, or a function, has in all, and their sums.       *)
OwnStep(g, ns, S) ==
  g = [s \in SUBSET S |->
         IF s = {} THEN 0
         ELSE (ns[CHOOSE x \in s : TRUE].self_time + ns[CHOOSE x \in s : TRUE].children_time)
              + g[s \ {CHOOSE x \in s : TRUE}]]

LEMMA OwnTimesAreSum ==
  ASSUME NEW ns, NEW S, IsFiniteSet(S), S \subseteq DOMAIN ns,
         \A x \in S : ns[x].self_time + ns[x].children_time \in Int
  PROVE  MapThenSumSet(LAMBDA x : ns[x].self_time + ns[x].children_time, S) = SumOf(Own(ns), S)
<1> DEFINE w == Own(ns)
           m == MapThenSumSet(LAMBDA x : ns[x].self_time + ns[x].children_time, S)
<1>1. m = (CHOOSE g : OwnStep(g, ns, S))[S]
  BY Zenon DEF MapThenSumSet, MapThenFoldSet, OwnStep
<1>2. Numbered(w, S) /\ \A x \in S : w[x] = ns[x].self_time + ns[x].children_time
  BY DEF Own, Numbered
<1>3. \A g : OwnStep(g, ns, S) <=> SumStep(g, w, S)
  <2> SUFFICES ASSUME NEW g PROVE OwnStep(g, ns, S) <=> SumStep(g, w, S)
    OBVIOUS
  <2>1. \A s \in SUBSET S : s # {} => Chosen(s) \in s
    BY DEF Chosen
  <2> DEFINE item(s) == IF s = {} THEN 0
                        ELSE (ns[Chosen(s)].self_time + ns[Chosen(s)].children_time)
                             + g[s \ {Chosen(s)}]
  <2>2. OwnStep(g, ns, S) <=> g = [s \in SUBSET S |-> item(s)]
    BY DEF OwnStep, Chosen
  <2>3. \A s \in SUBSET S : item(s) = SumItem(g, w, s)
    BY <1>2, <2>1 DEF SumItem
  <2> HIDE DEF item
  <2>4. [s \in SUBSET S |-> item(s)] = [s \in SUBSET S |-> SumItem(g, w, s)]
    BY <2>3
  <2> QED
    BY <2>2, <2>4 DEF SumStep
<1> HIDE DEF w, m
<1>4. PICK g : OwnStep(g, ns, S)
  BY <1>2, <1>3, SumExists
<1>5. OwnStep((CHOOSE h : OwnStep(h, ns, S)), ns, S)
  BY <1>4
<1>6. PICK h : OwnStep(h, ns, S) /\ m = h[S]
  BY <1>1, <1>5
<1>7. h[S] = SumOf(w, S)
  BY <1>2, <1>3, <1>6, SumIs
<1> QED
  BY <1>2, <1>6, <1>7 DEF w, m

(* The direct calls that the nodes of a function have made.                *)
CallsBy(c) == {m \in 2 .. Len(call_tree) : /\ call_tree[m].direct
                                           /\ call_tree[call_tree[m].parent].function = c}

LEMMA NodesOwn ==
  ASSUME TimesInv, status = "done"
  PROVE  LET L == Len(call_tree)
             own == Own(call_tree)
         IN  /\ IsFiniteSet(2 .. L) /\ 2 .. L \subseteq 1 .. L
             /\ Nodes(call_tree, L)
             /\ \A n \in 1 .. L : /\ call_tree[n].self_time \in Int
                                  /\ call_tree[n].children_time \in Int
                                  /\ own[n] = call_tree[n].self_time + call_tree[n].children_time
                                  /\ own[n] \in Int
<1> DEFINE L == Len(call_tree)
<1>1. /\ Nodes(call_tree, L) /\ L \in Nat /\ DOMAIN call_tree = 1 .. L
      /\ \A n \in 1 .. L : call_tree[n] \in Node
  BY CompleteFacts
<1>2. IsFiniteSet(2 .. L) /\ 2 .. L \subseteq 1 .. L
  <2>1. IsFiniteSet(2 .. L)
    BY <1>1, FS_Interval
  <2> QED
    BY <1>1, <2>1
<1>3. \A n \in 1 .. L : call_tree[n].self_time \in Int /\ call_tree[n].children_time \in Int
  BY <1>1 DEF Node
<1>4. \A n \in 1 .. L : Own(call_tree)[n] = call_tree[n].self_time + call_tree[n].children_time
  BY <1>1 DEF Own
<1> QED
  BY <1>1, <1>2, <1>3, <1>4

(* A function of which every node is outermost has got the times of the    *)
(* direct calls made by its nodes.                                         *)
LEMMA ChildrenTimeOfCalls ==
  ASSUME Inv, TimesInv, Totals, status = "done", NEW c \in DOMAIN functions,
         \A n \in NodesOf(call_tree, c) : Outermost(call_tree, n)
  PROVE  functions[c].children_time = SumOf(Own(call_tree), CallsBy(c))
<1> DEFINE L == Len(call_tree)
           nodes == NodesOf(call_tree, c)
           own == Own(call_tree)
           v == ChildrenTimes(call_tree)
           key == [n \in 1 .. L |-> call_tree[n].parent]
           D == CallsBy(c)
<1>1. PICK tree : /\ Complete(tree)
                  /\ L \in Nat \ {0} /\ DOMAIN call_tree = 1 .. L
                  /\ \A n \in 1 .. L : SameNode(tree[n], call_tree[n])
  BY CompleteFacts
<1>2. /\ SettledFrom(tree, L, call_tree, 1)
      /\ \A n \in 2 .. L : call_tree[n].parent \in 1 .. n - 1
      /\ call_tree[ROOT].parent = NULL
  BY <1>1, DoneTree DEF Complete, CallsOfRoot, Rooted
<1>3. /\ IsFiniteSet(2 .. L) /\ 2 .. L \subseteq 1 .. L /\ Nodes(call_tree, L)
      /\ \A n \in 1 .. L : own[n] \in Int
  BY NodesOwn
<1>4. nodes \subseteq 2 .. L /\ nodes \subseteq 1 .. L
  <2>1. c \in Function
    BY DEF Inv, GoodFunctions
  <2> QED
    BY <1>3, <2>1, NodesOfFunction
<1>5. IsFiniteSet(nodes) /\ IsFiniteSet(D) /\ D \subseteq 1 .. L
  <2>1. D \subseteq 2 .. L
    BY DEF CallsBy
  <2> HIDE DEF D, nodes
  <2> QED
    BY <1>3, <1>4, <2>1, FS_Subset
<1>6. functions[c].children_time = SumOf(v, nodes)
  <2>1. functions[c].children_time = Total(call_tree, nodes).children_time
    BY DEF Totals
  <2> DEFINE primary == {n \in nodes : Outermost(call_tree, n)}
  <2>2. primary = nodes
    OBVIOUS
  <2> HIDE DEF nodes
  <2>3. Total(call_tree, nodes).children_time = SumOf(ChildrenTimes(call_tree), primary)
    BY <1>3, <1>4, TotalFacts
  <2> HIDE DEF primary
  <2> QED
    BY <2>1, <2>2, <2>3
<1>7. ASSUME NEW n \in nodes PROVE v[n] = SumOf(own, Class(key, D, n))
  <2>1. n \in 1 .. L /\ call_tree[n].function = c
    BY <1>4 DEF NodesOf
  <2>2. v[n] = call_tree[n].children_time
    BY <1>1, <2>1 DEF ChildrenTimes
  <2>3. call_tree[n].children_time = SumOf(own, DirectChildren(tree, L, 1, n))
    BY <1>2, <2>1 DEF SettledFrom
  <2>4. ASSUME NEW m PROVE m \in DirectChildren(tree, L, 1, n) <=> m \in Class(key, D, n)
    <3>1. m \in DirectChildren(tree, L, 1, n) <=>
            m \in 1 .. L /\ call_tree[m].parent = n /\ call_tree[m].direct
      BY <1>1 DEF DirectChildren, Children, SameNode
    <3>2. m \in Class(key, D, n) <=> m \in D /\ call_tree[m].parent = n
      <4>1. \A k \in D : key[k] = call_tree[k].parent
        BY <1>5
      <4> HIDE DEF key
      <4> QED
        BY <4>1 DEF Class
    <3>3. m \in 1 .. L /\ call_tree[m].parent = n => m \in 2 .. L
      BY <1>1, <1>2, <2>1 DEF ROOT, NULL
    <3> QED
      BY <1>3, <2>1, <3>1, <3>2, <3>3 DEF CallsBy
  <2>5. DirectChildren(tree, L, 1, n) = Class(key, D, n)
    BY <2>4
  <2> QED
    BY <2>2, <2>3, <2>5
<1>8. \A m \in D : key[m] \in nodes
  <2> SUFFICES ASSUME NEW m \in D PROVE key[m] \in nodes
    OBVIOUS
  <2>1. m \in 2 .. L /\ m \in 1 .. L /\ call_tree[call_tree[m].parent].function = c
    BY <1>5 DEF CallsBy
  <2>2. key[m] = call_tree[m].parent /\ call_tree[m].parent \in 1 .. L
    BY <1>1, <1>2, <2>1
  <2> QED
    BY <1>1, <2>1, <2>2 DEF NodesOf
<1> HIDE DEF nodes, v, own, key, D
<1>9. Numbered(own, D)
  BY <1>3, <1>5 DEF Numbered
<1>10. SumOf(v, nodes) = SumOf(own, D)
  <2>1. \A n \in nodes : v[n] = SumOf(own, Class(key, D, n))
    BY <1>7
  <2>2. IsFiniteSet(D) /\ IsFiniteSet(nodes)
    BY <1>5
  <2> QED
    BY <1>8, <1>9, <2>1, <2>2, SumPartition, SMT
<1> QED
  BY <1>6, <1>10 DEF own, D

(* The times of the callees of a function are those of the direct calls    *)
(* made by its nodes, if no node of a callee is reached without its caller *)
(* being known and every node is outermost.                                *)
LEMMA CalleesTimeOfCalls ==
  ASSUME Inv, CallsInv, TimesInv, PairsInv, status = "done", ~CalledBothWays,
         NEW c \in DOMAIN functions,
         \A n \in 2 .. Len(call_tree) : Outermost(call_tree, n)
  PROVE  MapThenSumSet(LAMBDA f : functions[c].callees[f].self_time
                                  + functions[c].callees[f].children_time,
                       DOMAIN functions[c].callees)
           = SumOf(Own(call_tree), CallsBy(c))
<1> DEFINE L == Len(call_tree)
           callees == functions[c].callees
           F == DOMAIN callees
           own == Own(call_tree)
           v == Own(callees)
           key == [n \in 1 .. L |-> call_tree[n].function]
           D == CallsBy(c)
<1>1. /\ IsFiniteSet(2 .. L) /\ 2 .. L \subseteq 1 .. L /\ Nodes(call_tree, L)
      /\ DOMAIN call_tree = 1 .. L
      /\ \A n \in 1 .. L : /\ call_tree[n].self_time \in Int
                           /\ call_tree[n].children_time \in Int
                           /\ own[n] = call_tree[n].self_time + call_tree[n].children_time
                           /\ own[n] \in Int
  BY NodesOwn, CompleteFacts
<1>2. IsFiniteSet(F) /\ F \subseteq Function
  <2>1. IsFiniteSet(DOMAIN functions) /\ DOMAIN functions \subseteq Function
    BY DEF CallsInv, Conserved, Counting, Inv, GoodFunctions
  <2>2. F \subseteq DOMAIN functions
    BY DEF Inv, GoodFunctions, Closed
  <2> HIDE DEF F
  <2> QED
    BY <2>1, <2>2, FS_Subset
<1>3. \A f \in Function : f \in F <=> \E m \in D : call_tree[m].function = f
  BY DEF PairsInv, Recorded, DirectCall, CallsBy
<1>4. \A m \in D : m \in 2 .. L /\ m \in 1 .. L /\ call_tree[m].function \in Function
  BY <1>1, CompleteFacts DEF CallsBy
<1>5. IsFiniteSet(D)
  <2>1. D \subseteq 2 .. L
    BY <1>4
  <2> QED
    BY <1>1, <2>1, FS_Subset
<1>6. \A m \in D : key[m] \in F
  BY <1>3, <1>4
<1>7. ASSUME NEW f \in F
      PROVE  /\ v[f] = callees[f].self_time + callees[f].children_time
             /\ v[f] = SumOf(own, Class(key, D, f)) /\ v[f] \in Int
  <2> DEFINE P == PairNodes(call_tree, c, f)
  <2>1. v[f] = callees[f].self_time + callees[f].children_time
    BY DEF Own
  <2>2. /\ callees[f].self_time = Total(call_tree, P).self_time
        /\ callees[f].children_time = Total(call_tree, P).children_time
    BY DEF PairsInv, PairTotals
  <2>3. NodesOf(call_tree, f) \subseteq 2 .. L
    BY <1>2, NodesOfFunction
  <2>4. PICK d \in D : call_tree[d].function = f
    BY <1>2, <1>3
  <2>5. \A n \in NodesOf(call_tree, f) : call_tree[n].direct
    <3> SUFFICES ASSUME NEW n \in NodesOf(call_tree, f) PROVE call_tree[n].direct
      OBVIOUS
    <3>1. /\ n \in 2 .. L /\ call_tree[n].function = f
          /\ call_tree[d].direct /\ d \in 2 .. L
      BY <1>4, <2>3, <2>4 DEF NodesOf, CallsBy
    <3>2. \A k \in 2 .. L : k \in DOMAIN call_tree \ {ROOT}
      BY <1>1 DEF ROOT
    <3> QED
      BY <2>4, <3>1, <3>2 DEF CalledBothWays
  <2>6. P = Class(key, D, f)
    <3>1. \A m \in D : key[m] = call_tree[m].function
      BY <1>4
    <3> HIDE DEF key
    <3>2. ASSUME NEW m PROVE m \in P <=> m \in Class(key, D, f)
      <4>1. m \in P <=> /\ m \in NodesOf(call_tree, f)
                        /\ call_tree[call_tree[m].parent].function = c
        BY DEF PairNodes
      <4>2. m \in Class(key, D, f) <=> m \in D /\ call_tree[m].function = f
        BY <3>1 DEF Class
      <4>3. m \in NodesOf(call_tree, f) <=> m \in 1 .. L /\ call_tree[m].function = f
        BY <1>1 DEF NodesOf
      <4> QED
        BY <1>4, <2>3, <2>5, <4>1, <4>2, <4>3 DEF CallsBy
    <3> QED
      BY <3>2
  <2>7. P \subseteq 2 .. L /\ P \subseteq 1 .. L /\ {n \in P : Outermost(call_tree, n)} = P
    <3>1. P \subseteq 2 .. L
      BY <2>3 DEF PairNodes
    <3> HIDE DEF P
    <3> QED
      BY <1>1, <3>1
  <2>8. IsFiniteSet(P)
    BY <1>1, <2>7, FS_Subset
  <2> HIDE DEF P, v, own, callees, key, D
  <2> DEFINE selves == SelfTimes(call_tree)
             below == ChildrenTimes(call_tree)
  <2>9. /\ Total(call_tree, P).self_time = SumOf(selves, P)
        /\ Total(call_tree, P).children_time = SumOf(below, P)
        /\ Total(call_tree, P).self_time \in Int /\ Total(call_tree, P).children_time \in Int
    <3> DEFINE primary == {n \in P : Outermost(call_tree, n)}
    <3>1. /\ Total(call_tree, P).self_time = SumOf(selves, P)
          /\ Total(call_tree, P).children_time = SumOf(below, primary)
          /\ Total(call_tree, P).self_time \in Int /\ Total(call_tree, P).children_time \in Int
      BY <1>1, <2>7, TotalFacts
    <3>2. primary = P
      BY <2>7
    <3> QED
      BY <3>1, <3>2
  <2>10. \A n \in P : /\ selves[n] \in Int /\ below[n] \in Int
                      /\ own[n] = selves[n] + below[n]
    BY <1>1, <2>7 DEF SelfTimes, ChildrenTimes
  <2> HIDE DEF selves, below
  <2>11. SumOf(own, P) = SumOf(selves, P) + SumOf(below, P)
    BY <2>8, <2>10, SumPlus DEF Numbered
  <2> QED
    BY <2>1, <2>2, <2>6, <2>9, <2>11
<1>8. MapThenSumSet(LAMBDA f : callees[f].self_time + callees[f].children_time, F) = SumOf(v, F)
  <2>1. \A f \in F : callees[f].self_time + callees[f].children_time \in Int
    BY <1>7
  <2> QED
    BY <1>2, <2>1, OwnTimesAreSum
<1>9. SumOf(v, F) = SumOf(own, D)
  <2>1. Numbered(own, D)
    BY <1>1, <1>4 DEF Numbered
  <2>2. \A f \in F : v[f] = SumOf(own, Class(key, D, f))
    BY <1>7
  <2> HIDE DEF F, v, own, key, D
  <2> QED
    BY <1>2, <1>5, <1>6, <2>1, <2>2, SumPartition, SMT
<1> QED
  BY <1>8, <1>9

(* The times of the callees of a function add up to its children time,     *)
(* whatever the calls and the times: what the report shows below a         *)
(* function is all that it has spent in its descendants, if nothing is     *)
(* recursive and no function is called both directly and from below        *)
(* without its caller being known.                                         *)
THEOREM SpecPairTimesAddUpOtherwise == Spec => []PairTimesAddUpOtherwise
<1>1. Inv /\ CallsInv /\ TimesInv /\ Totals /\ PairsInv => PairTimesAddUpOtherwise
  <2> SUFFICES ASSUME Inv, CallsInv, TimesInv, Totals, PairsInv, ~CalledBothWays,
                      NEW c \in DOMAIN functions, status = "done",
                      \A f \in DOMAIN functions : functions[f].secondaries = {}
               PROVE  MapThenSumSet(LAMBDA f : functions[c].callees[f].self_time
                                               + functions[c].callees[f].children_time,
                                    DOMAIN functions[c].callees)
                        = functions[c].children_time
    BY DEF PairTimesAddUpOtherwise, PairTimesAddUp
  <2>1. \A n \in 2 .. Len(call_tree) : Outermost(call_tree, n)
    <3> SUFFICES ASSUME NEW n \in 2 .. Len(call_tree) PROVE Outermost(call_tree, n)
      OBVIOUS
    <3> DEFINE f == call_tree[n].function
    <3>1. f \in DOMAIN functions
      BY DEF Totals
    <3>2. n \in NodesOf(call_tree, f)
      BY CompleteFacts DEF NodesOf
    <3>3. functions[f].secondaries = {m \in NodesOf(call_tree, f) : ~Outermost(call_tree, m)}
      BY <3>1 DEF PairsInv, PairTotals
    <3> QED
      BY <3>1, <3>2, <3>3
  <2>2. NodesOf(call_tree, c) \subseteq 2 .. Len(call_tree)
    BY NodesOfFunction DEF Inv, GoodFunctions
  <2>3. functions[c].children_time = SumOf(Own(call_tree), CallsBy(c))
    BY <2>1, <2>2, ChildrenTimeOfCalls
  <2> QED
    BY <2>1, <2>3, CalleesTimeOfCalls
<1> QED
  BY <1>1, InitCalls, NextCalls, SpecInv, SpecTimes, SpecTotals, SpecPairs, PTL DEF Spec

=============================================================================
