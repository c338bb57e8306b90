-------------------------- MODULE Traceview_proofs --------------------------
(***************************************************************************)
(* traceview, for every terminal, every trace and every width of unsigned: *)
(* the indexes stay in the arrays, the list shows its focus, the screen    *)
(* shows the state, and keys are dispatched as they were pressed, wherever *)
(* a resize comes in between.                                              *)
(*                                                                         *)
(* What is on the screen when traceview waits follows from what was        *)
(* planned when a key was dispatched and from how far the plan, and within *)
(* it the redraw, has come; and the handler of a resize can come after any *)
(* step.  Inv says what holds at each point.  The keys have an invariant   *)
(* of their own, Keys, which only the line and the reader matter to.       *)
(***************************************************************************)
EXTENDS Traceview, SequenceTheorems, FiniteSetTheorems, TLAPS

(* What a key leaves to do, as far as it has not been done yet.            *)
Plans ==
  {<<"redraw">>, <<"help">>,
   <<"footer", "title", "redraw anyway", "help if enabled">>,
   <<"title", "redraw anyway", "help if enabled">>,
   <<"redraw anyway", "help if enabled">>,
   <<"help if enabled">>,
   <<"footer", "title", "redraw anyway", "help if enabled", "navigate", "redraw">>,
   <<"title", "redraw anyway", "help if enabled", "navigate", "redraw">>,
   <<"redraw anyway", "help if enabled", "navigate", "redraw">>,
   <<"help if enabled", "navigate", "redraw">>,
   <<"navigate", "redraw">>}

(* The variables of the list of functions.                                 *)
Profile == [focus_index : Unsigned, focus_max : Unsigned, focus_function : Unsigned,
            scrolldown : Unsigned, scrolldown_max : Unsigned, items_shown : Unsigned]

(* The types of everything but the keys.                                   *)
Types ==
  /\ pc \in {"init", "get", "dispatch", "run", "fini", "exited"}
  /\ todo \in Plans \cup {<<>>}
  /\ step \in {"none", "measure", "count", "up", "compare", "down", "place", "sort", "alloc",
              "fill", "lines"}
  /\ array \in {"null", "filling", "sorted"}
  /\ height \in Unsigned /\ rows \in Unsigned /\ target \in Unsigned /\ function_id \in Unsigned
  /\ focus \in 0 .. 3 /\ traceview_help_overlay_enabled \in BOOLEAN
  /\ traceview_footer_index \in 1 .. 4 /\ traceview_titlebar_title \in 0 .. NOTHING
  /\ flatprofile \in Profile
  /\ LINES \in Sizes /\ nfunctions \in Nfunctions
  /\ screen \in [window : 0 .. NOTHING, help : BOOLEAN]
  /\ result \in {"running", "ok", "failed", "crashed"}
  /\ disturbed \in BOOLEAN /\ cramped \in BOOLEAN /\ misread \in BOOLEAN

(* Which statements can follow a key, and which steps a statement has.     *)
Plan ==
  /\ pc = "run" => todo # <<>>
  /\ pc \in {"init", "get", "dispatch", "fini"} => todo = <<>> /\ step = "none"
  /\ pc = "run" /\ step # "none" =>
       /\ Head(todo) \in {"redraw", "redraw anyway"}
       /\ \/ focus = FLATPROFILE
          \/ focus = CALLGRAPH /\ step \in {"measure", "place"}
  /\ pc = "run" /\ todo # <<>> =>
       /\ todo = <<"help">> => traceview_help_overlay_enabled
       /\ Last(todo) = "redraw" => ~traceview_help_overlay_enabled
  /\ pc = "init" =>
       /\ traceview_titlebar_title = NOTHING /\ focus = INTERACTIVE
       /\ ~traceview_help_overlay_enabled
  /\ pc \notin {"fini", "exited"} => result = "running"

(* Only the redraw that has published the array before it was filled can   *)
(* be interrupted while it is not, and none draws a line before it is.     *)
Sorting ==
  /\ array = "filling" => pc \in {"run", "exited"} /\ step = "fill"
  /\ step = "lines" => array = "sorted"

(* The indexes into the arrays of functions; focus_max and target become   *)
(* indexes later.                                                          *)
Indexes ==
  nfunctions > 0 =>
    /\ ~misread => /\ flatprofile.focus_function < nfunctions
                   /\ function_id < nfunctions /\ target < nfunctions
    /\ flatprofile.focus_max < nfunctions
    /\ ~cramped => flatprofile.focus_index < nfunctions

(* What a step of the redraw has come to, if no resize came inside.        *)
Fresh == ~disturbed /\ ~TooSmall(LINES)

(* What a redraw of the list makes of the focus.                           *)
Listed ==
  flatprofile.focus_index < nfunctions =>
    /\ FocusDrawn(flatprofile, nfunctions)
    /\ flatprofile.focus_function = sorted_functions(nfunctions, flatprofile.focus_index)

(* No statement is left to do.                                             *)
Waiting == pc \in {"get", "dispatch"}

(* With nothing left to redraw, the list shows its focus.                  *)
Settled ==
  Fresh /\ focus = FLATPROFILE =>
    \/ ~Waiting /\ ~(pc = "run" /\ todo \in {<<"help">>, <<"help if enabled">>})
    \/ flatprofile.items_shown = LINES - 11 /\ Listed

(* What each step of the redraw has already established for the next.      *)
Placed == {"place", "sort", "alloc", "fill", "lines"}

Progress ==
  pc = "run" /\ Fresh =>
    /\ step \in {"count", "up", "compare", "down"} \cup Placed => height = LINES - 8
    /\ focus = FLATPROFILE =>
         /\ step \in {"up", "compare", "down"} \cup Placed =>
              flatprofile.items_shown = LINES - 11
         /\ step \in {"compare", "down"} => flatprofile.scrolldown <= flatprofile.focus_index
         /\ step = "down" => BelowEnd(flatprofile)
         /\ step \in Placed /\ flatprofile.focus_index < nfunctions =>
              FocusDrawn(flatprofile, nfunctions)
         /\ step \in Placed \ {"place"} => rows = LINES - 8

(* The bars show the window from their statement on.                       *)
Bars ==
  /\ \/ Waiting
     \/ pc = "run" /\ Head(todo) # "footer"
     => traceview_footer_index = focus + 1
  /\ \/ Waiting
     \/ pc = "run" /\ Head(todo) \notin {"footer", "title"}
     => traceview_titlebar_title = focus

(* The screen as the variables say it should be.                           *)
Complete == [window |-> focus, help |-> traceview_help_overlay_enabled]

(* What is on the screen, and when.                                        *)
Screen ==
  ~TooSmall(LINES) =>
    /\ \/ Waiting
       \/ pc = "run" /\ step # "none" /\ disturbed
       => screen = Complete
    /\ pc = "run" /\ todo = <<"help">> => screen.window = focus
    /\ pc = "run" /\ Head(todo) = "help if enabled" =>
         screen.window = focus /\ (screen.help => traceview_help_overlay_enabled)

(* The inductive invariant.                                                *)
Inv == Types /\ Plan /\ Sorting /\ Indexes /\ Settled /\ Progress /\ Bars /\ Screen /\ StopsOnlyIf

-----------------------------------------------------------------------------
(* Numbers that wrap, and the casts.                                       *)
LEMMA HalfWord ==
  /\ Word \div 2 \in Nat /\ Word = 2 * (Word \div 2) /\ Word \div 2 > 0
BY WordAssumption

(* What is in range is itself, and a small negative number wraps once.     *)
LEMMA Wraps ==
  ASSUME NEW n \in Int
  PROVE  /\ U(n) \in Unsigned
         /\ n \in Unsigned => U(n) = n
         /\ -Word <= n /\ n < 0 => U(n) = n + Word
<1>1. Word \in Nat \ {0}
  BY WordAssumption
<1>2. U(n) \in Unsigned
  BY <1>1 DEF U, Unsigned
<1>3. ASSUME n \in Unsigned PROVE U(n) = n
  BY <1>1, <1>3 DEF U, Unsigned
<1>4. ASSUME -Word <= n, n < 0 PROVE U(n) = n + Word
  BY <1>1, <1>4 DEF U, Unsigned
<1> QED
  BY <1>2, <1>3, <1>4

(* The range of an unsigned variable.                                      *)
LEMMA UnsignedFacts ==
  /\ Unsigned = 0 .. Word - 1 /\ Word \in Nat \ {0}
  /\ Unsigned \subseteq Nat
  /\ 0 \in Unsigned /\ 1 \in Unsigned
BY WordAssumption DEF Unsigned

(* The upper half of the range becomes negative.                           *)
LEMMA Casts ==
  ASSUME NEW u \in Unsigned
  PROVE  /\ AsInt(u) \in Int
         /\ u < Word \div 2 => AsInt(u) = u
         /\ u >= Word \div 2 => AsInt(u) = u - Word /\ AsInt(u) < 0
BY HalfWord DEF AsInt, Unsigned

-----------------------------------------------------------------------------
(* qsort has a place for every function, and a function for every place.   *)
LEMMA SortedFunctions ==
  ASSUME NEW n \in Nfunctions, NEW i \in 0 .. n - 1
  PROVE  sorted_functions(n, i) \in 0 .. n - 1
<1> DEFINE F == 0 .. n - 1
           Before(f) == {g \in F : cmpfunction(g, f)}
           place == [f \in F |-> Cardinality(Before(f))]
<1>1. n \in Nat /\ IsFiniteSet(F) /\ Cardinality(F) = n
  <2>1. n \in Nat
    BY NfunctionsAssumption, HalfWord
  <2> QED
    BY <2>1, FS_Interval
<1>2. \A f, g \in F : /\ SelfTime[f] \in Nat /\ NameRank[f] \in Nat
                      /\ NameRank[f] = NameRank[g] => f = g
  BY OrderAssumption
<1>3. \A f \in F : IsFiniteSet(Before(f)) /\ Cardinality(Before(f)) \in Nat
  BY <1>1, FS_Subset, FS_CardinalityType
<1>4. ASSUME NEW f \in F, NEW g \in F, cmpfunction(f, g) PROVE place[f] < place[g]
  <2> DEFINE B == Before(f)
  <2>1. f \notin B /\ B \cup {f} \subseteq Before(g)
    BY <1>2, <1>4 DEF cmpfunction
  <2>2. Cardinality(B \cup {f}) <= Cardinality(Before(g))
    BY <1>3, <2>1, FS_Subset
  <2>3. Cardinality(B \cup {f}) = Cardinality(B) + 1
    BY <1>3, <2>1, FS_AddElement
  <2>4. Cardinality(B) \in Nat /\ Cardinality(Before(g)) \in Nat
    BY <1>3
  <2> HIDE DEF Before
  <2> QED
    BY <2>2, <2>3, <2>4
<1>5. ASSUME NEW f \in F PROVE place[f] \in F
  <2> DEFINE B == Before(f)
  <2>1. f \notin B /\ B \cup {f} \subseteq F
    BY <1>2 DEF cmpfunction
  <2>2. Cardinality(B \cup {f}) <= n
    BY <1>1, <2>1, FS_Subset
  <2>3. Cardinality(B \cup {f}) = Cardinality(B) + 1
    BY <1>3, <2>1, FS_AddElement
  <2>4. Cardinality(B) \in Nat
    BY <1>3
  <2> HIDE DEF Before
  <2> QED
    BY <1>1, <2>2, <2>3, <2>4
<1>6. \A f, g \in F : f # g => cmpfunction(f, g) \/ cmpfunction(g, f)
  BY <1>2 DEF cmpfunction
<1>7. \A f, g \in F : place[f] = place[g] => f = g
  <2> SUFFICES ASSUME NEW f \in F, NEW g \in F, f # g PROVE place[f] # place[g]
    OBVIOUS
  <2>1. place[f] \in F /\ place[g] \in F
    BY <1>5
  <2>2. place[f] < place[g] \/ place[g] < place[f]
    BY <1>4, <1>6
  <2> HIDE DEF place
  <2> QED
    BY <1>1, <2>1, <2>2
<1>8. place \in [F -> F]
  BY <1>5
<1>9. place \in Surjection(F, F)
  <2> HIDE DEF F, place
  <2>1. place \in Injection(F, F)
    BY <1>7, <1>8 DEF Injection, IsInjective
  <2> QED
    BY <1>1, <2>1, FS_Injection
<1>10. \E f \in F : Cardinality(Before(f)) = i
  BY <1>9 DEF Surjection
<1> QED
  BY <1>10 DEF sorted_functions

-----------------------------------------------------------------------------
(* What the variables of the list are after a key or a redraw.             *)
LEMMA Terminals ==
  ASSUME NEW lines \in Sizes
  PROVE  /\ lines \in Nat \ {0} /\ lines < Word \div 2 /\ lines \in Unsigned
         /\ lines >= 8 => Height(lines) = lines - 8
         /\ Height(lines) \in Unsigned
<1>1. lines \in Nat \ {0} /\ lines < Word \div 2 /\ lines \in Unsigned
  BY SizesAssumption, HalfWord DEF Unsigned
<1>2. lines >= 8 => lines - 8 \in Unsigned
  BY <1>1, HalfWord DEF Unsigned
<1>3. lines - 8 \in Int
  BY <1>1
<1> QED
  BY <1>1, <1>2, <1>3, Wraps DEF Height

(* The number of functions fits in an int.                                 *)
LEMMA Traces ==
  ASSUME NEW n \in Nfunctions
  PROVE  n \in Nat /\ n < Word \div 2 /\ n \in Unsigned
BY NfunctionsAssumption, HalfWord DEF Unsigned

(* The fields of the list are unsigned.                                    *)
LEMMA FieldsOfProfile ==
  ASSUME NEW fp \in Profile
  PROVE  /\ fp.focus_index \in Unsigned /\ fp.focus_max \in Unsigned
         /\ fp.focus_function \in Unsigned /\ fp.scrolldown \in Unsigned
         /\ fp.scrolldown_max \in Unsigned /\ fp.items_shown \in Unsigned
BY DEF Profile

(* A key changes the focus and the scrolling only.                         *)
Moved(fp, moved) ==
  /\ moved \in Profile
  /\ moved.focus_max = fp.focus_max /\ moved.focus_function = fp.focus_function
  /\ moved.items_shown = fp.items_shown

(* The four keys of the list change its focus and nothing else.            *)
LEMMA KeysMove ==
  ASSUME NEW fp \in Profile
  PROVE  /\ Moved(fp, ArrowUp(fp)) /\ Moved(fp, ArrowDown(fp))
         /\ Moved(fp, PageUp(fp)) /\ Moved(fp, PageDown(fp))
<1>1. \A i, s \in Unsigned : Moved(fp, [fp EXCEPT !.focus_index = i])
                           /\ Moved(fp, [fp EXCEPT !.focus_index = i, !.scrolldown = s])
  BY DEF Moved, Profile
<1>2. \A i, j \in Unsigned : Greatest(i, j) - i \in Unsigned
  BY UnsignedFacts DEF Greatest
<1>3. \A i \in Unsigned : Greatest(1, i) - 1 \in Unsigned
  BY UnsignedFacts DEF Greatest
<1>4. \A i, j, k \in Unsigned : U(Least(AsInt(i), AsInt(j)) + k) \in Unsigned
  <2> SUFFICES ASSUME NEW i \in Unsigned, NEW j \in Unsigned, NEW k \in Unsigned
               PROVE  U(Least(AsInt(i), AsInt(j)) + k) \in Unsigned
    OBVIOUS
  <2>1. AsInt(i) \in Int /\ AsInt(j) \in Int /\ k \in Int
    BY Casts, UnsignedFacts
  <2>2. Least(AsInt(i), AsInt(j)) + k \in Int
    BY <2>1 DEF Least
  <2> QED
    BY <2>2, Wraps
<1>5. \A i, j \in Unsigned : U(i - j) \in Unsigned /\ U(i - 1) \in Unsigned
  <2> SUFFICES ASSUME NEW i \in Unsigned, NEW j \in Unsigned
               PROVE  U(i - j) \in Unsigned /\ U(i - 1) \in Unsigned
    OBVIOUS
  <2>1. i - j \in Int /\ i - 1 \in Int
    BY UnsignedFacts
  <2> QED
    BY <2>1, Wraps
<1>6. 1 \in Unsigned
  BY UnsignedFacts, WordAssumption
<1>7. Moved(fp, ArrowUp(fp))
  BY <1>1, <1>3, FieldsOfProfile DEF ArrowUp
<1>8. Moved(fp, ArrowDown(fp))
  BY <1>1, <1>4, <1>5, <1>6, FieldsOfProfile DEF ArrowDown
<1>9. Moved(fp, PageUp(fp))
  BY <1>1, <1>2, FieldsOfProfile DEF PageUp
<1>10. Moved(fp, PageDown(fp))
  BY <1>1, <1>4, <1>5, FieldsOfProfile DEF PageDown
<1> QED
  BY <1>7, <1>8, <1>9, <1>10

(* The focus stays in the list, but for a page in a terminal without room  *)
(* for a line.                                                             *)
LEMMA FocusStays ==
  ASSUME NEW fp \in Profile, NEW n \in Nfunctions,
         fp.focus_index < n, fp.focus_max < n
  PROVE  /\ ArrowUp(fp).focus_index < n
         /\ ArrowDown(fp).focus_index < n
         /\ PageUp(fp).focus_index < n
         /\ AsInt(fp.items_shown) >= 0 => PageDown(fp).focus_index < n
<1> DEFINE i == fp.focus_index
           m == fp.focus_max
           shown == fp.items_shown
<1>1. /\ i \in Nat /\ m \in Nat /\ shown \in Nat /\ n \in Nat /\ n < Word \div 2
      /\ i \in Unsigned /\ m \in Unsigned /\ shown \in Unsigned /\ i < n /\ m < n
      /\ \A k \in 0 .. n : k \in Unsigned
  BY FieldsOfProfile, UnsignedFacts, Traces, HalfWord
<1>2. /\ ArrowUp(fp).focus_index = Greatest(1, i) - 1
      /\ ArrowDown(fp).focus_index = U(Least(AsInt(U(m - 1)), AsInt(i)) + 1)
      /\ PageUp(fp).focus_index = Greatest(shown, i) - shown
      /\ PageDown(fp).focus_index = U(Least(AsInt(U(m - shown)), AsInt(i)) + shown)
  BY DEF Profile, ArrowUp, ArrowDown, PageUp, PageDown
<1> HIDE DEF i, m, shown
<1>3. AsInt(i) = i /\ 1 < Word \div 2
  <2>1. i < Word \div 2 /\ 1 < Word \div 2
    BY <1>1, HalfWord
  <2> QED
    BY <1>1, <2>1, Casts
<1>4. \A k \in Nat : k < Word \div 2 => AsInt(U(m - k)) = m - k
  <2> SUFFICES ASSUME NEW k \in Nat, k < Word \div 2 PROVE AsInt(U(m - k)) = m - k
    OBVIOUS
  <2>1. CASE m >= k
    <3>1. m - k \in Int /\ m - k \in Unsigned /\ m - k < Word \div 2
      BY <1>1, <2>1, HalfWord, UnsignedFacts
    <3> QED
      BY <3>1, Wraps, Casts
  <2>2. CASE m < k
    <3>1. m - k \in Int /\ -Word <= m - k /\ m - k < 0
      BY <1>1, <2>2, HalfWord
    <3>2. U(m - k) = m - k + Word /\ U(m - k) \in Unsigned
      BY <3>1, Wraps
    <3>3. m - k + Word >= Word \div 2
      BY <1>1, HalfWord
    <3> QED
      BY <1>1, <3>1, <3>2, <3>3, Casts, HalfWord
  <2> QED
    BY <1>1, <2>1, <2>2
<1>5. Greatest(1, i) - 1 < n
  BY <1>1 DEF Greatest
<1>6. U(Least(AsInt(U(m - 1)), AsInt(i)) + 1) < n
  <2>1. AsInt(U(m - 1)) = m - 1
    BY <1>3, <1>4
  <2>2. Least(m - 1, i) + 1 \in 0 .. n - 1
    BY <1>1 DEF Least
  <2> QED
    BY <1>1, <1>3, <2>1, <2>2, Wraps
<1>7. Greatest(shown, i) - shown < n
  BY <1>1 DEF Greatest
<1>8. ASSUME AsInt(shown) >= 0 PROVE U(Least(AsInt(U(m - shown)), AsInt(i)) + shown) < n
  <2>1. shown < Word \div 2
    BY <1>1, <1>8, Casts, HalfWord
  <2>2. AsInt(U(m - shown)) = m - shown
    BY <1>1, <1>4, <2>1
  <2>3. Least(m - shown, i) + shown \in 0 .. n - 1
    BY <1>1 DEF Least
  <2> QED
    BY <1>1, <1>3, <2>2, <2>3, Wraps
<1> QED
  BY <1>2, <1>5, <1>6, <1>7, <1>8 DEF shown

-----------------------------------------------------------------------------
(* A redraw keeps all in their ranges; it draws only what is in the list.  *)
LEMMA StepsOfRedraw ==
  ASSUME NEW fp \in Profile, NEW n \in Nfunctions, NEW h \in Unsigned
  PROVE  /\ Counted(fp, h, n) \in Profile /\ FollowedUp(fp) \in Profile
         /\ FollowedDown(fp) \in Profile /\ Drawn(fp, n) \in Profile
         /\ \A new \in {Counted(fp, h, n), FollowedUp(fp), FollowedDown(fp), Drawn(fp, n)} :
              /\ new.focus_index = fp.focus_index
              /\ new.focus_function = fp.focus_function
                 \/ new.focus_function < n
<1>1. /\ fp.focus_index \in Nat /\ fp.scrolldown \in Unsigned /\ n \in Nat /\ n \in Unsigned
      /\ fp.focus_index \in Unsigned /\ fp.items_shown \in Nat /\ h \in Nat
  BY FieldsOfProfile, UnsignedFacts, Traces
<1>2. \A k \in Int : U(k) \in Unsigned
  BY Wraps
<1>3. U(h - 3) \in Unsigned /\ U(n - 1) \in Unsigned /\ U(n - U(h - 3)) \in Unsigned
  <2>1. U(h - 3) \in Unsigned /\ U(n - 1) \in Unsigned
    BY <1>1, <1>2
  <2>2. n - U(h - 3) \in Int
    BY <1>1, <2>1, UnsignedFacts
  <2> QED
    BY <1>2, <2>1, <2>2
<1>4. U(fp.focus_index - fp.items_shown + 1) \in Unsigned
  BY <1>1, <1>2
<1>5. FocusDrawn(fp, n) => sorted_functions(n, fp.focus_index) \in Unsigned
                           /\ sorted_functions(n, fp.focus_index) < n
  <2> SUFFICES ASSUME FocusDrawn(fp, n)
               PROVE  sorted_functions(n, fp.focus_index) \in 0 .. n - 1
    BY <1>1, Traces, UnsignedFacts
  <2>1. End(fp) \in Nat
    <3>1. fp.scrolldown + fp.items_shown \in Int
      BY <1>1, UnsignedFacts
    <3> QED
      BY <1>2, <3>1, UnsignedFacts DEF End
  <2>2. fp.focus_index \in 0 .. n - 1
    BY <1>1, <2>1 DEF FocusDrawn, Least
  <2> QED
    BY <2>2, SortedFunctions
<1>6. /\ Counted(fp, h, n) \in Profile
      /\ Counted(fp, h, n).focus_index = fp.focus_index
      /\ Counted(fp, h, n).focus_function = fp.focus_function
  BY <1>3 DEF Counted, Profile
<1>7. /\ FollowedUp(fp) \in Profile
      /\ FollowedUp(fp).focus_index = fp.focus_index
      /\ FollowedUp(fp).focus_function = fp.focus_function
  BY <1>1 DEF FollowedUp, Profile
<1>8. /\ FollowedDown(fp) \in Profile
      /\ FollowedDown(fp).focus_index = fp.focus_index
      /\ FollowedDown(fp).focus_function = fp.focus_function
  BY <1>4 DEF FollowedDown, Profile
<1>9. /\ Drawn(fp, n) \in Profile
      /\ Drawn(fp, n).focus_index = fp.focus_index
      /\ \/ Drawn(fp, n).focus_function = fp.focus_function
         \/ Drawn(fp, n).focus_function < n
  BY <1>5 DEF Drawn, Profile
<1> QED
  BY <1>6, <1>7, <1>8, <1>9

(* What the steps of a redraw make of a terminal with room for a line.     *)
LEMMA CountedFacts ==
  ASSUME NEW fp \in Profile, NEW n \in Nfunctions, NEW lines \in Sizes, ~TooSmall(lines)
  PROVE  /\ Height(lines) = lines - 8
         /\ HeaderFits(lines) /\ PlainFits(lines) /\ HelpFits(lines)
         /\ Placeable(Height(lines), lines)
         /\ Counted(fp, Height(lines), n).items_shown = lines - 11
<1>1. lines \in Nat /\ lines >= 12 /\ lines \in Unsigned /\ lines < Word \div 2
  BY Terminals DEF TooSmall
<1>2. Height(lines) = lines - 8 /\ Height(lines) \in Unsigned
  BY <1>1, Terminals
<1>3. AsInt(Height(lines)) = lines - 8
  BY <1>1, <1>2, Casts, HalfWord
<1>4. U(Height(lines) - 3) = lines - 11
  <2>1. lines - 11 \in Int /\ lines - 11 \in Unsigned /\ Height(lines) - 3 = lines - 11
    BY <1>1, <1>2, UnsignedFacts
  <2> QED
    BY <2>1, Wraps
<1>5. Counted(fp, Height(lines), n).items_shown = U(Height(lines) - 3)
  BY DEF Counted, Profile
<1> QED
  BY <1>1, <1>2, <1>3, <1>4, <1>5 DEF HeaderFits, PlainFits, HelpFits, Placeable

(* The last index is an index.                                             *)
LEMMA CountedMax ==
  ASSUME NEW fp \in Profile, NEW n \in Nfunctions, NEW h \in Unsigned, n > 0
  PROVE  Counted(fp, h, n).focus_max < n
<1>1. n \in Nat /\ n \in Unsigned /\ n - 1 \in Int /\ n - 1 \in Unsigned
  BY Traces, UnsignedFacts
<1>2. Counted(fp, h, n).focus_max = U(n - 1)
  BY DEF Counted, Profile
<1> QED
  BY <1>1, <1>2, Wraps

(* A redraw in steps, as long as no other comes in between.                *)
LEMMA FollowedUpFacts ==
  ASSUME NEW fp \in Profile
  PROVE  /\ FollowedUp(fp).scrolldown <= FollowedUp(fp).focus_index
         /\ FollowedUp(fp).items_shown = fp.items_shown
         /\ FollowedUp(fp).focus_max = fp.focus_max
BY FieldsOfProfile, UnsignedFacts DEF FollowedUp, Profile

(* Scrolling down changes scrolldown only.                                 *)
LEMMA FollowedDownFields ==
  ASSUME NEW fp \in Profile
  PROVE  /\ FollowedDown(fp).scrolldown = U(fp.focus_index - fp.items_shown + 1)
         /\ FollowedDown(fp).items_shown = fp.items_shown
         /\ FollowedDown(fp).focus_index = fp.focus_index
         /\ FollowedDown(fp).focus_max = fp.focus_max
BY DEF FollowedDown, Profile

(* After both scrolls the focus is among the lines drawn.                  *)
LEMMA FocusFollowed ==
  ASSUME NEW fp \in Profile, NEW n \in Nfunctions, NEW lines \in Sizes, ~TooSmall(lines),
         fp.items_shown = lines - 11, fp.scrolldown <= fp.focus_index, fp.focus_index < n
  PROVE  /\ ~BelowEnd(fp) => FocusDrawn(fp, n)
         /\ BelowEnd(fp) => FocusDrawn(FollowedDown(fp), n)
<1> DEFINE i == fp.focus_index
           s == fp.scrolldown
           shown == fp.items_shown
<1>1. /\ i \in Nat /\ s \in Nat /\ shown \in Nat /\ n \in Nat /\ lines \in Nat /\ lines >= 12
      /\ n < Word \div 2 /\ lines < Word \div 2 /\ shown = lines - 11 /\ s <= i /\ i < n
  BY FieldsOfProfile, UnsignedFacts, Traces, Terminals DEF TooSmall
<1> HIDE DEF i, s, shown
<1>2. \A k \in Nat : k < Word => U(k) = k
  BY Wraps, UnsignedFacts
<1>3. s + shown \in Nat /\ s + shown < Word /\ shown >= 1
  BY <1>1, HalfWord
<1>4. End(fp) = s + shown
  BY <1>2, <1>3 DEF End, s, shown
<1>5. ~BelowEnd(fp) => FocusDrawn(fp, n)
  BY <1>1, <1>3, <1>4 DEF BelowEnd, FocusDrawn, Least, i, s
<1>6. ASSUME BelowEnd(fp) PROVE FocusDrawn(FollowedDown(fp), n)
  <2> DEFINE down == FollowedDown(fp)
  <2>1. i >= s + shown
    BY <1>4, <1>6 DEF BelowEnd, i
  <2>2. i - shown + 1 \in Nat /\ i - shown + 1 < Word /\ i - shown + 1 <= i
    BY <1>1, <1>3, <2>1, HalfWord
  <2>3. down.scrolldown = i - shown + 1 /\ down.items_shown = shown /\ down.focus_index = i
    BY <1>2, <2>2, FollowedDownFields DEF i, shown
  <2>4. i + 1 \in Nat /\ i + 1 < Word /\ (i - shown + 1) + shown = i + 1
    BY <1>1, HalfWord
  <2>5. End(down) = i + 1
    BY <1>2, <2>3, <2>4 DEF End
  <2> HIDE DEF down
  <2> QED
    BY <1>1, <2>2, <2>3, <2>5 DEF FocusDrawn, Least, down
<1> QED
  BY <1>5, <1>6

(* Drawing the lines finds the function the focus is on.                   *)
LEMMA DrawnLists ==
  ASSUME NEW fp \in Profile, NEW n, FocusDrawn(fp, n)
  PROVE  /\ FocusDrawn(Drawn(fp, n), n)
         /\ Drawn(fp, n).focus_function = sorted_functions(n, Drawn(fp, n).focus_index)
<1>1. /\ Drawn(fp, n).focus_index = fp.focus_index /\ Drawn(fp, n).scrolldown = fp.scrolldown
      /\ Drawn(fp, n).items_shown = fp.items_shown
      /\ Drawn(fp, n).focus_function = sorted_functions(n, fp.focus_index)
  BY DEF Drawn, Profile
<1> QED
  BY <1>1 DEF FocusDrawn, End

(* Drawing the lines changes the function of the focus, and to one that    *)
(* there is.                                                               *)
LEMMA DrawnKeeps ==
  ASSUME NEW fp \in Profile, NEW n
  PROVE  /\ Drawn(fp, n).items_shown = fp.items_shown
         /\ Drawn(fp, n).focus_max = fp.focus_max
         /\ Drawn(fp, n).scrolldown = fp.scrolldown
         /\ Drawn(fp, n).focus_index = fp.focus_index
BY DEF Drawn, Profile

(* A line on the screen is within the rows of its window.                  *)
LEMMA LinesFit ==
  ASSUME NEW fp \in Profile, NEW n \in Nfunctions, NEW lines \in Sizes, ~TooSmall(lines),
         fp.items_shown = lines - 11
  PROVE  Drawable(fp, n, lines - 8)
<1> SUFFICES ASSUME FocusDrawn(fp, n) PROVE 3 + fp.focus_index - fp.scrolldown < lines - 8
  BY DEF Drawable
<1>1. /\ fp.focus_index \in Nat /\ fp.scrolldown \in Nat /\ fp.items_shown \in Nat
      /\ lines \in Nat /\ n \in Nat
  BY FieldsOfProfile, UnsignedFacts, Traces, Terminals
<1>2. End(fp) \in Nat /\ End(fp) <= fp.scrolldown + fp.items_shown
  <2>1. \A k \in Nat : U(k) \in Nat /\ U(k) <= k
    BY WordAssumption, UnsignedFacts, Wraps DEF Unsigned
  <2> QED
    BY <1>1, <2>1 DEF End
<1>3. fp.focus_index < End(fp)
  BY <1>1, <1>2 DEF FocusDrawn, Least
<1> QED
  BY <1>1, <1>2, <1>3

(* All of the steps at once, as the handler does them.                     *)
LEMMA ScrolledFacts ==
  ASSUME NEW fp \in Profile, NEW n \in Nfunctions
  PROVE  /\ Scrolled(fp) \in Profile
         /\ Scrolled(fp).focus_index = fp.focus_index
         /\ Scrolled(fp).focus_function = fp.focus_function
         /\ Scrolled(fp).focus_max = fp.focus_max
         /\ Scrolled(fp).items_shown = fp.items_shown
<1> DEFINE up == FollowedUp(fp)
<1>1. /\ up \in Profile /\ up.focus_index = fp.focus_index
      /\ up.focus_function = fp.focus_function /\ up.focus_max = fp.focus_max
      /\ up.items_shown = fp.items_shown
  <2>1. up \in Profile
    BY StepsOfRedraw, UnsignedFacts
  <2> QED
    BY <2>1 DEF FollowedUp, Profile
<1> HIDE DEF up
<1>2. /\ FollowedDown(up) \in Profile /\ FollowedDown(up).focus_index = up.focus_index
      /\ FollowedDown(up).focus_function = up.focus_function
      /\ FollowedDown(up).focus_max = up.focus_max
      /\ FollowedDown(up).items_shown = up.items_shown
  <2>1. FollowedDown(up) \in Profile
    BY <1>1, StepsOfRedraw, UnsignedFacts
  <2> QED
    BY <1>1, <2>1 DEF FollowedDown, Profile
<1>3. Scrolled(fp) = IF BelowEnd(up) THEN FollowedDown(up) ELSE up
  BY DEF Scrolled, up
<1> QED
  BY <1>1, <1>2, <1>3

(* The redraw in the handler of a resize keeps all in their ranges.        *)
LEMMA RedrawnFacts ==
  ASSUME NEW fp \in Profile, NEW n \in Nfunctions, NEW lines \in Sizes
  PROVE  LET new == Redrawn(fp, lines, n)
         IN  /\ new \in Profile
             /\ new.focus_index = fp.focus_index
             /\ new.focus_function = fp.focus_function \/ new.focus_function < n
             /\ new.focus_max = fp.focus_max \/ (n > 0 => new.focus_max < n)
<1> DEFINE h == Height(lines)
           c == Counted(fp, h, n)
           s == Scrolled(c)
<1>1. h \in Unsigned
  BY Terminals
<1>2. c \in Profile /\ c.focus_index = fp.focus_index /\ c.focus_function = fp.focus_function
      /\ (n > 0 => c.focus_max < n)
  <2>1. c \in Profile
    BY <1>1, StepsOfRedraw
  <2>2. c.focus_index = fp.focus_index /\ c.focus_function = fp.focus_function
    BY DEF Counted, Profile
  <2> QED
    BY <1>1, <2>1, <2>2, CountedMax
<1> HIDE DEF c
<1>3. s \in Profile /\ s.focus_index = fp.focus_index /\ s.focus_function = fp.focus_function
      /\ (n > 0 => s.focus_max < n)
  BY <1>2, ScrolledFacts
<1> HIDE DEF s
<1>4. /\ Drawn(s, n) \in Profile /\ Drawn(s, n).focus_index = fp.focus_index
      /\ Drawn(s, n).focus_function = fp.focus_function \/ Drawn(s, n).focus_function < n
      /\ (n > 0 => Drawn(s, n).focus_max < n)
  BY <1>1, <1>3, StepsOfRedraw, DrawnKeeps
<1>5. Redrawn(fp, lines, n) \in {fp, s, Drawn(s, n)}
  BY DEF Redrawn, s, c
<1> QED
  BY <1>3, <1>4, <1>5

(* In a terminal with room for a line it leaves the list as it should be.  *)
LEMMA RedrawnLists ==
  ASSUME NEW fp \in Profile, NEW n \in Nfunctions, NEW lines \in Sizes, ~TooSmall(lines)
  PROVE  LET new == Redrawn(fp, lines, n)
         IN  /\ Redrawable(fp, lines, n)
             /\ new.items_shown = lines - 11
             /\ new.focus_index < n =>
                  /\ FocusDrawn(new, n)
                  /\ new.focus_function = sorted_functions(n, new.focus_index)
<1> DEFINE h == Height(lines)
           c == Counted(fp, h, n)
           up == FollowedUp(c)
           s == Scrolled(c)
<1>1. h \in Unsigned /\ h = lines - 8 /\ HeaderFits(lines) /\ Placeable(h, lines)
  BY CountedFacts, Terminals
<1>2. c \in Profile /\ c.focus_index = fp.focus_index /\ c.items_shown = lines - 11
  <2>1. c \in Profile /\ c.items_shown = lines - 11
    BY <1>1, StepsOfRedraw, CountedFacts
  <2> QED
    BY <2>1 DEF Counted, Profile
<1> HIDE DEF c, h
<1>3. /\ up \in Profile /\ up.focus_index = fp.focus_index /\ up.items_shown = lines - 11
      /\ up.scrolldown <= up.focus_index
  BY <1>1, <1>2, StepsOfRedraw, FollowedUpFacts
<1>4. s = IF BelowEnd(up) THEN FollowedDown(up) ELSE up
  BY DEF Scrolled
<1> HIDE DEF up, s
<1>5. s \in Profile /\ s.items_shown = lines - 11 /\ s.focus_index = fp.focus_index
  BY <1>1, <1>3, <1>4, StepsOfRedraw, FollowedDownFields
<1>6. s.focus_index < n => FocusDrawn(s, n)
  BY <1>3, <1>4, <1>5, FocusFollowed
<1>7. Drawable(s, n, h)
  BY <1>1, <1>5, LinesFit
<1>8. Redrawn(fp, lines, n) = Drawn(s, n) /\ Redrawable(fp, lines, n)
  BY <1>1, <1>7 DEF Redrawn, Redrawable, s, c, h
<1>9. Drawn(s, n).items_shown = lines - 11 /\ Drawn(s, n).focus_index = s.focus_index
  BY <1>5, DrawnKeeps
<1> QED
  BY <1>5, <1>6, <1>8, <1>9, DrawnLists

-----------------------------------------------------------------------------
(* What is left of a plan.                                                 *)
LEMMA Tail2 ==
  ASSUME NEW a, NEW b
  PROVE  Tail(<<a, b>>) = <<b>>
<1>1. Tail(<<a, b>>) = [i \in 1 .. 1 |-> <<a, b>>[i + 1]]
   BY Z3 DEF Tail
<1> QED
  BY <1>1

LEMMA Tail3 ==
  ASSUME NEW a, NEW b, NEW c
  PROVE  Tail(<<a, b, c>>) = <<b, c>>
<1>1. Tail(<<a, b, c>>) = [i \in 1 .. 2 |-> <<a, b, c>>[i + 1]]
   BY Z3 DEF Tail
<1> QED
  BY <1>1

LEMMA Tail4 ==
  ASSUME NEW a, NEW b, NEW c, NEW d
  PROVE  Tail(<<a, b, c, d>>) = <<b, c, d>>
<1>1. Tail(<<a, b, c, d>>) = [i \in 1 .. 3 |-> <<a, b, c, d>>[i + 1]]
   BY Z3 DEF Tail
<1> QED
  BY <1>1

LEMMA Tail5 ==
  ASSUME NEW a, NEW b, NEW c, NEW d, NEW e
  PROVE  Tail(<<a, b, c, d, e>>) = <<b, c, d, e>>
<1>1. Tail(<<a, b, c, d, e>>) = [i \in 1 .. 4 |-> <<a, b, c, d, e>>[i + 1]]
   BY Z3 DEF Tail
<1> QED
  BY <1>1

LEMMA Tail6 ==
  ASSUME NEW a, NEW b, NEW c, NEW d, NEW e, NEW f
  PROVE  Tail(<<a, b, c, d, e, f>>) = <<b, c, d, e, f>>
<1>1. Tail(<<a, b, c, d, e, f>>) = [i \in 1 .. 5 |-> <<a, b, c, d, e, f>>[i + 1]]
   BY Z3 DEF Tail
<1> QED
  BY <1>1

(* A plan whose statement p is the first one that is left.                 *)
Continues(p) ==
  /\ p # <<>>
  /\ Head(p) \in {"footer", "title", "redraw", "redraw anyway", "help", "help if enabled",
                  "navigate"}
  /\ Tail(p) \in Plans \cup {<<>>} /\ Tail(p) # <<"help">>
  /\ Head(p) = "footer" => Tail(p) # <<>> /\ Head(Tail(p)) = "title"
  /\ Head(p) = "title" => Tail(p) # <<>> /\ Head(Tail(p)) = "redraw anyway"
  /\ Head(p) = "redraw anyway" => Tail(p) # <<>> /\ Head(Tail(p)) = "help if enabled"
  /\ Head(p) = "help if enabled" =>
       \/ Tail(p) = <<>> /\ p = <<"help if enabled">>
       \/ Tail(p) = <<"navigate", "redraw">>
  /\ Head(p) = "navigate" => Tail(p) = <<"redraw">>
  /\ Head(p) \in {"help", "redraw"} => Tail(p) = <<>> /\ p = <<Head(p)>>
  /\ Tail(p) # <<>> => Last(Tail(p)) = Last(p)
  /\ p = <<"help">> <=> Head(p) = "help"
  /\ Head(p) = "redraw" => Last(p) = "redraw"

(* The rest of a plan is a plan.                                           *)
LEMMA PlansContinue == \A p \in Plans : Continues(p)
<1>1. Continues(<<"redraw">>)
  BY DEF Continues, Plans, Last
<1>2. Continues(<<"help">>)
  BY DEF Continues, Plans, Last
<1>3. Continues(<<"help if enabled">>)
  BY DEF Continues, Plans, Last
<1>4. Continues(<<"navigate", "redraw">>)
  BY Tail2 DEF Continues, Plans, Last
<1>5. Continues(<<"redraw anyway", "help if enabled">>)
  BY Tail2 DEF Continues, Plans, Last
<1>6. Continues(<<"title", "redraw anyway", "help if enabled">>)
  BY Tail3 DEF Continues, Plans, Last
<1>7. Continues(<<"help if enabled", "navigate", "redraw">>)
  BY Tail3 DEF Continues, Plans, Last
<1>8. Continues(<<"footer", "title", "redraw anyway", "help if enabled">>)
  BY Tail4 DEF Continues, Plans, Last
<1>9. Continues(<<"redraw anyway", "help if enabled", "navigate", "redraw">>)
  BY Tail4 DEF Continues, Plans, Last
<1>10. Continues(<<"title", "redraw anyway", "help if enabled", "navigate", "redraw">>)
  BY Tail5 DEF Continues, Plans, Last
<1>11. Continues(<<"footer", "title", "redraw anyway", "help if enabled", "navigate", "redraw">>)
  BY Tail6 DEF Continues, Plans, Last
<1> QED
  BY <1>1, <1>2, <1>3, <1>4, <1>5, <1>6, <1>7, <1>8, <1>9, <1>10, <1>11, Zenon DEF Plans

(* Where a plan ends.                                                      *)
LEMMA PlansEnd ==
  \A p \in Plans :
    /\ Tail(p) = <<"help if enabled">> => Head(p) = "redraw anyway"
    /\ Tail(p) = <<>> => p \in {<<"help">>, <<"redraw">>, <<"help if enabled">>}
<1> SUFFICES ASSUME NEW p \in Plans
             PROVE  /\ Tail(p) = <<"help if enabled">> => Head(p) = "redraw anyway"
                    /\ Tail(p) = <<>> => p \in {<<"help">>, <<"redraw">>, <<"help if enabled">>}
  OBVIOUS
<1>1. Continues(p)
  BY PlansContinue
<1>2. Head(<<"help if enabled">>) = "help if enabled" /\ <<>> # <<"help if enabled">>
  OBVIOUS
<1>3. <<"navigate", "redraw">> \notin {<<>>, <<"help if enabled">>} /\ <<"redraw">> # <<>>
  OBVIOUS
<1>4. <<"redraw">> # <<"help if enabled">>
  OBVIOUS
<1>5. Tail(p) = <<"help if enabled">> => Head(Tail(p)) = "help if enabled"
  BY <1>2, Zenon
<1>6. CASE Head(p) \in {"footer", "title", "redraw anyway"}
  BY <1>1, <1>5, <1>6 DEF Continues
<1>7. CASE Head(p) = "help if enabled"
  BY <1>1, <1>2, <1>3, <1>7, Zenon DEF Continues
<1>8. CASE Head(p) = "navigate"
  BY <1>1, <1>3, <1>4, <1>8, Zenon DEF Continues
<1>9. CASE Head(p) \in {"help", "redraw"}
  BY <1>1, <1>2, <1>9, Zenon DEF Continues
<1> QED
  BY <1>1, <1>6, <1>7, <1>8, <1>9, Zenon DEF Continues

(* The prover sees through strings less well than through constants.       *)
LEMMA PlanOfEnter ==
  SwitchTo \o <<"navigate", "redraw">>
    = <<"footer", "title", "redraw anyway", "help if enabled", "navigate", "redraw">>
<1>1. PICK a, b, c, d, e, f : /\ a = "footer" /\ b = "title" /\ c = "redraw anyway"
                              /\ d = "help if enabled" /\ e = "navigate" /\ f = "redraw"
  OBVIOUS
<1> DEFINE s == <<a, b, c, d>>
           t == <<e, f>>
           u == <<a, b, c, d, e, f>>
<1>2. s \o t = [i \in 1 .. 6 |-> IF i <= 4 THEN s[i] ELSE t[i - 4]]
  BY ONLY Z3
<1>3. \A i \in 1 .. 6 : u[i] = IF i <= 4 THEN s[i] ELSE t[i - 4]
  BY ONLY TRUE
<1>4. u = [i \in 1 .. 6 |-> u[i]]
  BY ONLY TRUE
<1>5. /\ SwitchTo = s /\ <<"navigate", "redraw">> = t
      /\ <<"footer", "title", "redraw anyway", "help if enabled", "navigate", "redraw">> = u
  BY <1>1, Zenon DEF SwitchTo
<1> HIDE DEF s, t, u
<1> QED
  BY <1>2, <1>3, <1>4, <1>5

(* What a key leaves to do is a plan.                                      *)
LEMMA NewPlans ==
  /\ {<<"redraw">>, <<"help">>, SwitchTo, SwitchTo \o <<"navigate", "redraw">>} \subseteq Plans
  /\ \A p \in {SwitchTo, SwitchTo \o <<"navigate", "redraw">>} :
       p # <<>> /\ Head(p) = "footer" /\ p \notin {<<"help">>, <<"help if enabled">>}
  /\ Last(SwitchTo) # "redraw"
  /\ <<"redraw">> # <<>> /\ Head(<<"redraw">>) = "redraw" /\ <<"redraw">> # <<"help">>
<1> DEFINE p == <<"footer", "title", "redraw anyway", "help if enabled", "navigate", "redraw">>
           q == <<"footer", "title", "redraw anyway", "help if enabled">>
<1>1. SwitchTo \o <<"navigate", "redraw">> = p /\ SwitchTo = q
  BY PlanOfEnter DEF SwitchTo
<1>2. {<<"redraw">>, <<"help">>, q, p} \subseteq Plans
  BY DEF Plans
<1>3. p # <<>> /\ Head(p) = "footer" /\ p \notin {<<"help">>, <<"help if enabled">>}
  OBVIOUS
<1>4. /\ q # <<>> /\ Head(q) = "footer" /\ q \notin {<<"help">>, <<"help if enabled">>}
      /\ Last(q) # "redraw"
  BY DEF Last
<1>5. <<"redraw">> # <<>> /\ Head(<<"redraw">>) = "redraw" /\ <<"redraw">> # <<"help">>
  OBVIOUS
<1> HIDE DEF p, q
<1> QED
  BY <1>1, <1>2, <1>3, <1>4, <1>5, Zenon

-----------------------------------------------------------------------------
(* A step that leaves all but the keys alone, or ends with one of them, or *)
(* is the last one.                                                        *)
LEMMA QuietInv ==
  ASSUME Inv,
         \/ pc' = pc
         \/ pc = "get" /\ pc' = "dispatch"
         \/ pc = "fini" /\ pc' = "exited",
         UNCHANGED <<drawVars, stateVars, barVars, LINES, nfunctions, screen, result, history>>
  PROVE  Inv'
<1>1. /\ todo' = todo /\ step' = step /\ height' = height /\ rows' = rows
      /\ target' = target /\ focus' = focus
      /\ traceview_help_overlay_enabled' = traceview_help_overlay_enabled
      /\ flatprofile' = flatprofile /\ function_id' = function_id /\ array' = array
      /\ traceview_footer_index' = traceview_footer_index
      /\ traceview_titlebar_title' = traceview_titlebar_title
      /\ LINES' = LINES /\ nfunctions' = nfunctions /\ screen' = screen /\ result' = result
      /\ disturbed' = disturbed /\ cramped' = cramped /\ misread' = misread
  BY DEF drawVars, stateVars, barVars, history
<1>2. /\ pc' \in {"init", "get", "dispatch", "run", "fini", "exited"}
      /\ pc' = "run" <=> pc = "run"
      /\ pc' \in {"get", "dispatch"} <=> pc \in {"get", "dispatch"}
      /\ pc' = "init" => pc = "init"
      /\ pc' \in {"init", "get", "dispatch", "fini"} =>
           pc \in {"init", "get", "dispatch", "fini"}
      /\ pc' \notin {"fini", "exited"} => pc \notin {"fini", "exited"}
  BY DEF Inv, Types
<1>3. Types'
  BY <1>1, <1>2 DEF Inv, Types
<1>4. Plan'
  BY <1>1, <1>2 DEF Inv, Plan
<1>5. Indexes'
  BY <1>1 DEF Inv, Indexes
<1>6. Settled'
  BY <1>1, <1>2 DEF Inv, Settled, Fresh, Listed, Waiting
<1>7. Progress'
  BY <1>1, <1>2 DEF Inv, Progress, Fresh
<1>8. Bars'
  BY <1>1, <1>2 DEF Inv, Bars, Waiting
<1>9. Screen'
  BY <1>1, <1>2 DEF Inv, Screen, Waiting, Complete
<1>10. StopsOnlyIf'
  BY <1>1 DEF Inv, StopsOnlyIf
<1>11. Sorting'
  BY <1>1 DEF Inv, Sorting
<1> QED
  BY <1>3, <1>4, <1>5, <1>6, <1>7, <1>8, <1>9, <1>10, <1>11 DEF Inv

(* The invariant holds before the first drawing.                           *)
LEMMA InitInv == Init => Inv
<1> SUFFICES ASSUME Init PROVE Inv
  OBVIOUS
<1>1. Types
  <2>1. FlatprofileInit \in Profile
    BY UnsignedFacts DEF FlatprofileInit, Profile
  <2>2. screen \in [window : 0 .. NOTHING, help : BOOLEAN]
    BY DEF Init, NOTHING
  <2>3. /\ pc = "init" /\ todo = <<>> /\ step = "none" /\ result = "running"
        /\ height = 0 /\ rows = 0 /\ target = 0 /\ function_id = 0 /\ focus = 0
        /\ traceview_help_overlay_enabled = FALSE /\ disturbed = FALSE /\ cramped = FALSE
        /\ misread = FALSE /\ array \in {"null", "sorted"}
        /\ traceview_footer_index = 1 /\ traceview_titlebar_title = 4
        /\ flatprofile = FlatprofileInit /\ LINES \in Sizes /\ nfunctions \in Nfunctions
    BY DEF Init, INTERACTIVE, NOTHING
  <2>4. /\ traceview_help_overlay_enabled \in BOOLEAN
        /\ disturbed \in BOOLEAN /\ cramped \in BOOLEAN /\ misread \in BOOLEAN
    BY <2>3, Zenon
  <2>5. /\ pc \in {"init", "get", "dispatch", "run", "fini", "exited"}
        /\ step \in {"none", "measure", "count", "up", "compare", "down", "place", "sort",
                    "alloc", "fill", "lines"}
        /\ array \in {"null", "filling", "sorted"}
        /\ result \in {"running", "ok", "failed", "crashed"} /\ todo \in Plans \cup {<<>>}
    BY <2>3, Zenon
  <2>6. /\ focus \in 0 .. 3 /\ traceview_footer_index \in 1 .. 4
        /\ traceview_titlebar_title \in 0 .. NOTHING
        /\ height \in Unsigned /\ rows \in Unsigned /\ target \in Unsigned
        /\ function_id \in Unsigned
    BY <2>3, UnsignedFacts DEF NOTHING
  <2> QED
    BY <2>1, <2>2, <2>3, <2>4, <2>5, <2>6, Zenon DEF Types
<1>2. Plan
  BY DEF Init, Plan
<1>3. Indexes
  BY Traces DEF Init, Indexes, FlatprofileInit
<1>4. Settled /\ Progress /\ Bars /\ StopsOnlyIf /\ Sorting
  BY DEF Init, Sorting, Settled, Progress, Bars, StopsOnlyIf, Waiting
<1>5. Screen
  BY DEF Init, Screen, Waiting
<1> QED
  BY <1>1, <1>2, <1>3, <1>4, <1>5 DEF Inv

(* The first drawing shows the interactive window and the bars, or fails   *)
(* in a small terminal.                                                    *)
LEMMA InitialiseInv ==
  ASSUME Inv, Initialise
  PROVE  Inv'
<1>1. /\ todo' = todo /\ step' = step /\ height' = height /\ rows' = rows
      /\ target' = target /\ focus' = focus
      /\ traceview_help_overlay_enabled' = traceview_help_overlay_enabled
      /\ flatprofile' = flatprofile /\ function_id' = function_id /\ array' = array
      /\ LINES' = LINES /\ nfunctions' = nfunctions
      /\ disturbed' = disturbed /\ cramped' = cramped /\ misread' = misread /\ pc = "init"
      /\ result = "running" /\ todo = <<>> /\ step = "none" /\ focus = INTERACTIVE
  BY DEF Initialise, drawVars, stateVars, history, Inv, Plan
<1>2. /\ pc' \in {"get", "fini"}
      /\ pc' = "get" => /\ traceview_footer_index' = 1 /\ traceview_titlebar_title' = 0
                        /\ screen' = [window |-> 0, help |-> FALSE] /\ result' = result
      /\ pc' = "fini" => /\ result' = "failed" /\ screen' = screen /\ TooSmall(LINES)
                         /\ traceview_footer_index' = traceview_footer_index
                         /\ traceview_titlebar_title' = traceview_titlebar_title
  <2>1. LINES \in Nat
    BY Terminals DEF Inv, Types
  <2> QED
    BY <1>1, <2>1 DEF Initialise, barVars, INTERACTIVE, HelpFits, TooSmall
<1>3. screen' \in [window : 0 .. NOTHING, help : BOOLEAN]
  <2>1. [window |-> 0, help |-> FALSE] \in [window : 0 .. NOTHING, help : BOOLEAN]
    BY DEF NOTHING
  <2> QED
    BY <1>2, <2>1 DEF Inv, Types
<1>4. traceview_footer_index' \in 1 .. 4 /\ traceview_titlebar_title' \in 0 .. NOTHING
  BY <1>2 DEF Inv, Types, NOTHING
<1>5. Types'
  BY <1>1, <1>2, <1>3, <1>4 DEF Inv, Types
<1>6. Plan'
  BY <1>1, <1>2 DEF Inv, Plan
<1>7. Indexes'
  BY <1>1 DEF Inv, Indexes
<1>8. Settled'
  BY <1>1 DEF Settled, INTERACTIVE, FLATPROFILE
<1>9. Progress'
  BY <1>1, <1>2 DEF Progress
<1>10. Bars'
  BY <1>1, <1>2 DEF Bars, INTERACTIVE, Waiting
<1>11. Screen'
  <2>1. traceview_help_overlay_enabled = FALSE
    BY <1>1 DEF Inv, Plan
  <2> QED
  BY <1>1, <1>2, <2>1 DEF Screen, Waiting, Complete, INTERACTIVE
<1>12. StopsOnlyIf'
  BY <1>1, <1>2 DEF StopsOnlyIf
<1>13. Sorting'
  BY <1>1 DEF Inv, Sorting
<1> QED
  BY <1>5, <1>6, <1>7, <1>8, <1>9, <1>10, <1>11, <1>12, <1>13 DEF Inv

-----------------------------------------------------------------------------
(* What a key does to the indexes.                                         *)
LEMMA DispatchIndexes ==
  ASSUME Inv, Dispatch
  PROVE  /\ flatprofile' \in Profile
         /\ target' \in Unsigned /\ function_id' \in Unsigned
         /\ Indexes'
<1> DEFINE fp == flatprofile
           n == nfunctions
<1>1. /\ fp \in Profile /\ target \in Unsigned /\ function_id \in Unsigned
      /\ n \in Nfunctions /\ n \in Nat /\ n \in Unsigned /\ nfunctions' = n
      /\ fp.focus_function \in Unsigned /\ misread' = misread
  BY Traces, FieldsOfProfile DEF Inv, Types, Dispatch
<1>2. cramped' = /\ flatprofile'.focus_index >= n
                 /\ \/ cramped
                    \/ key \in {"PAGE_UP", "PAGE_DOWN"} /\ AsInt(fp.items_shown) < 0
  BY DEF Dispatch
<1>3. \/ flatprofile' = fp
      \/ flatprofile' = ArrowUp(fp) \/ flatprofile' = ArrowDown(fp) \/ flatprofile' = PageUp(fp)
      \/ key = "PAGE_DOWN" /\ flatprofile' = PageDown(fp)
  BY DEF Dispatch, ToggleHelp, SwitchWindow, Back, WindowKey, IgnoredKey, FlatprofileKey,
         CallgraphKey, MoveFocus, MoveFunction, Navigate
<1>4. target' \in {target, fp.focus_function}
  BY DEF Dispatch, ToggleHelp, SwitchWindow, Back, WindowKey, IgnoredKey, FlatprofileKey,
         CallgraphKey, MoveFocus, MoveFunction, Navigate
<1>5. function_id' \in {function_id, Next1(function_id), Previous1(function_id)}
  BY DEF Dispatch, ToggleHelp, SwitchWindow, Back, WindowKey, IgnoredKey, FlatprofileKey,
         CallgraphKey, MoveFocus, MoveFunction, Navigate
<1>6. Moved(fp, flatprofile')
  <2>1. Moved(fp, fp)
    BY <1>1 DEF Moved
  <2> QED
    BY <1>1, <1>3, <2>1, KeysMove
<1>7. /\ Next1(function_id) \in Unsigned /\ Previous1(function_id) \in Unsigned
      /\ n > 0 /\ function_id < n => Next1(function_id) < n /\ Previous1(function_id) < n
  <2>1. n - 1 \in Int /\ function_id + 1 \in Int /\ function_id \in Nat
    BY <1>1, UnsignedFacts
  <2>2. U(n - 1) \in Unsigned /\ U(function_id + 1) \in Unsigned
    BY <2>1, Wraps
  <2>3. n > 0 => n - 1 \in Unsigned
    BY <1>1, UnsignedFacts
  <2>4. n > 0 => U(n - 1) = n - 1
    BY <2>1, <2>3, Wraps
  <2>5. /\ Next1(function_id) \in Unsigned
        /\ n > 0 => Next1(function_id) < n
    BY <1>1, <2>2, <2>4, UnsignedFacts DEF Next1, Least
  <2>6. Previous1(function_id) \in Unsigned /\ Previous1(function_id) <= function_id
    BY <1>1, <2>1, UnsignedFacts DEF Previous1, Greatest
  <2> QED
    BY <1>1, <2>1, <2>5, <2>6, UnsignedFacts
<1>8. ASSUME n > 0 PROVE Indexes'
  <2>1. /\ ~misread => fp.focus_function < n /\ function_id < n /\ target < n
        /\ fp.focus_max < n
        /\ ~cramped => fp.focus_index < n
    BY <1>8 DEF Inv, Indexes
  <2>2. flatprofile'.focus_index \in Nat
    BY <1>6, FieldsOfProfile, UnsignedFacts DEF Moved
  <2>3. ASSUME ~cramped, key = "PAGE_DOWN" => ~(AsInt(fp.items_shown) < 0)
        PROVE  flatprofile'.focus_index < n
    <3>1. AsInt(fp.items_shown) \in Int
      BY <1>1, FieldsOfProfile, Casts
    <3> QED
      BY <1>1, <1>3, <2>1, <2>3, <3>1, FocusStays
  <2>4. ~cramped' => flatprofile'.focus_index < n
    BY <1>1, <1>2, <2>2, <2>3
  <2>5. (~misread => flatprofile'.focus_function < n) /\ flatprofile'.focus_max < n
    BY <1>6, <2>1 DEF Moved
  <2>6. ~misread => function_id' < n /\ target' < n
    BY <1>4, <1>5, <1>7, <1>8, <2>1
  <2> QED
    BY <1>1, <2>4, <2>5, <2>6 DEF Indexes
<1> QED
  BY <1>1, <1>4, <1>5, <1>6, <1>7, <1>8 DEF Moved, Indexes

(* What a key leaves to do.                                                *)
LEMMA DispatchPlans ==
  ASSUME Inv, Dispatch
  PROVE  \/ /\ pc' \in {"get", "fini"} /\ todo' = <<>>
            /\ result' = IF pc' = "get" THEN result ELSE "ok"
            /\ UNCHANGED <<focus, traceview_help_overlay_enabled, flatprofile>>
         \/ /\ pc' = "run" /\ todo' = <<"redraw">> /\ ~traceview_help_overlay_enabled'
            /\ traceview_help_overlay_enabled' \in BOOLEAN
            /\ UNCHANGED <<focus, result>>
         \/ /\ pc' = "run" /\ todo' = <<"help">> /\ traceview_help_overlay_enabled'
            /\ traceview_help_overlay_enabled' \in BOOLEAN
            /\ UNCHANGED <<focus, flatprofile, result>>
         \/ /\ pc' = "run" /\ todo' \in {SwitchTo, SwitchTo \o <<"navigate", "redraw">>}
            /\ todo' # SwitchTo => ~traceview_help_overlay_enabled
            /\ focus' \in 0 .. 3
            /\ UNCHANGED <<traceview_help_overlay_enabled, result>>
<1>1. todo = <<>> /\ traceview_help_overlay_enabled \in BOOLEAN
  BY DEF Inv, Plan, Types, Dispatch
<1>2. SwitchTo # <<>> /\ SwitchTo \o <<"navigate", "redraw">> # <<>>
  BY NewPlans
<1>3. CASE ToggleHelp
  BY <1>1, <1>3 DEF ToggleHelp, Do
<1>4. CASE SwitchWindow
  BY <1>2, <1>4 DEF SwitchWindow, Do
<1>5. CASE Back
  BY <1>1, <1>5 DEF Back, Do
<1>6. CASE WindowKey
  <2>1. CASE IgnoredKey
    BY <1>6, <2>1 DEF IgnoredKey, WindowKey, Do
  <2>2. CASE ~traceview_help_overlay_enabled /\ FlatprofileKey
    <3>1. CASE Navigate
      BY <1>2, <1>6, <2>2, <3>1 DEF Navigate, WindowKey, Do, CALLGRAPH
    <3>2. CASE ~Navigate
      BY <1>1, <1>6, <2>2, <3>2 DEF FlatprofileKey, MoveFocus, WindowKey, Do
    <3> QED
      BY <3>1, <3>2
  <2>3. CASE ~traceview_help_overlay_enabled /\ CallgraphKey
    BY <1>1, <1>6, <2>3 DEF CallgraphKey, MoveFunction, WindowKey, Do
  <2> QED
    BY <1>6, <2>1, <2>2, <2>3 DEF WindowKey
<1> QED
  BY <1>3, <1>4, <1>5, <1>6 DEF Dispatch

(* No key breaks the invariant.                                            *)
LEMMA DispatchInv ==
  ASSUME Inv, Dispatch
  PROVE  Inv'
<1>1. /\ step' = step /\ height' = height /\ rows' = rows
      /\ traceview_footer_index' = traceview_footer_index
      /\ traceview_titlebar_title' = traceview_titlebar_title
      /\ LINES' = LINES /\ nfunctions' = nfunctions /\ screen' = screen
      /\ disturbed' = disturbed /\ pc = "dispatch" /\ cramped' \in BOOLEAN
      /\ array' = array /\ misread' = misread
  BY DEF Dispatch, barVars
<1>2. /\ todo = <<>> /\ step = "none" /\ result = "running"
  BY <1>1 DEF Inv, Plan
<1>3. /\ traceview_footer_index = focus + 1 /\ traceview_titlebar_title = focus
      /\ ~TooSmall(LINES) => screen = Complete
      /\ Fresh /\ focus = FLATPROFILE => flatprofile.items_shown = LINES - 11 /\ Listed
  BY <1>1 DEF Inv, Bars, Screen, Settled, Waiting
<1>4. flatprofile' \in Profile /\ target' \in Unsigned /\ function_id' \in Unsigned /\ Indexes'
  BY DispatchIndexes
<1> DEFINE Rest == /\ Plan' /\ Settled' /\ Progress' /\ Bars' /\ Screen'
                   /\ pc' \in {"get", "run", "fini"} /\ todo' \in Plans \cup {<<>>}
                   /\ focus' \in 0 .. 3 /\ traceview_help_overlay_enabled' \in BOOLEAN
                   /\ result' \in {"running", "ok"}
<1>5. ASSUME pc' \in {"get", "fini"}, todo' = <<>>,
             result' = IF pc' = "get" THEN result ELSE "ok",
             UNCHANGED <<focus, traceview_help_overlay_enabled, flatprofile>>
      PROVE  Rest
  <2>1. focus' = focus /\ traceview_help_overlay_enabled' = traceview_help_overlay_enabled
        /\ flatprofile' = flatprofile
    BY <1>5
  <2>2. Plan'
    BY <1>1, <1>2, <1>5, <2>1 DEF Plan
  <2>3. Settled'
    BY <1>1, <1>3, <2>1 DEF Settled, Fresh, Listed
  <2>4. Progress'
    BY <1>5 DEF Progress
  <2>5. Bars'
    BY <1>1, <1>3, <2>1 DEF Bars
  <2>6. Screen'
    BY <1>1, <1>3, <1>5, <2>1 DEF Screen, Complete, Waiting
  <2> QED
    BY <1>2, <1>5, <2>1, <2>2, <2>3, <2>4, <2>5, <2>6 DEF Inv, Types
<1>6. ASSUME pc' = "run", todo' = <<"redraw">>, ~traceview_help_overlay_enabled',
             traceview_help_overlay_enabled' \in BOOLEAN, UNCHANGED <<focus, result>>
      PROVE  Rest
  <2>1. /\ Continues(todo') /\ todo' \in Plans /\ Head(todo') = "redraw" /\ todo' # <<"help">>
        /\ todo' # <<>>
    BY <1>6, PlansContinue, NewPlans, Zenon
  <2>2. focus' = focus /\ result' = result
    BY <1>6
  <2>3. Plan'
    BY <1>1, <1>2, <1>6, <2>1, <2>2 DEF Plan
  <2>4. Settled'
    BY <1>6, <2>1 DEF Settled, Waiting
  <2>5. Progress'
    BY <1>1, <1>2 DEF Progress, Placed
  <2>6. Bars'
    BY <1>1, <1>3, <2>2 DEF Bars
  <2>7. Screen'
    BY <1>1, <1>2, <1>6, <2>1 DEF Screen, Waiting
  <2> QED
    BY <1>2, <1>6, <2>1, <2>2, <2>3, <2>4, <2>5, <2>6, <2>7 DEF Inv, Types
<1>7. ASSUME pc' = "run", todo' = <<"help">>, traceview_help_overlay_enabled',
             traceview_help_overlay_enabled' \in BOOLEAN, UNCHANGED <<focus, flatprofile, result>>
      PROVE  Rest
  <2>1. /\ Continues(todo') /\ todo' \in Plans /\ Head(todo') = "help" /\ todo' = <<"help">>
        /\ todo' # <<>> /\ Last(todo') # "redraw"
    BY <1>7, PlansContinue, NewPlans DEF Continues, Last
  <2>2. focus' = focus /\ flatprofile' = flatprofile /\ result' = result
    BY <1>7
  <2>3. Plan'
    BY <1>1, <1>2, <1>7, <2>1, <2>2 DEF Plan
  <2>4. Settled'
    BY <1>1, <1>3, <2>2 DEF Settled, Fresh, Listed
  <2>5. Progress'
    BY <1>1, <1>2 DEF Progress, Placed
  <2>6. Bars'
    BY <1>1, <1>3, <2>2 DEF Bars
  <2>7. Screen'
    BY <1>1, <1>2, <1>3, <1>7, <2>1, <2>2 DEF Screen, Waiting, Complete
  <2> QED
    BY <1>2, <1>7, <2>1, <2>2, <2>3, <2>4, <2>5, <2>6, <2>7 DEF Inv, Types
<1>8. ASSUME pc' = "run", todo' \in {SwitchTo, SwitchTo \o <<"navigate", "redraw">>},
             todo' # SwitchTo => ~traceview_help_overlay_enabled, focus' \in 0 .. 3,
             UNCHANGED <<traceview_help_overlay_enabled, result>>
      PROVE  Rest
  <2>1. /\ todo' \in Plans /\ Head(todo') = "footer" /\ todo' # <<"help">> /\ todo' # <<>>
        /\ todo' # <<"help if enabled">>
        /\ Last(todo') = "redraw" => ~traceview_help_overlay_enabled
    BY <1>8, NewPlans, Zenon
  <2>2. /\ traceview_help_overlay_enabled' = traceview_help_overlay_enabled
        /\ result' = result
        /\ Last(todo') = "redraw" => ~traceview_help_overlay_enabled'
    BY <1>8, <2>1, Zenon
  <2>3. Plan'
    BY <1>1, <1>2, <1>8, <2>1, <2>2 DEF Plan
  <2>4. Settled'
    BY <1>8, <2>1 DEF Settled, Waiting
  <2>5. Progress'
    BY <1>1, <1>2 DEF Progress, Placed
  <2>6. Bars'
    BY <1>8, <2>1 DEF Bars, Waiting
  <2>7. Screen'
    BY <1>1, <1>2, <1>8, <2>1 DEF Screen, Waiting
  <2> QED
    BY <1>2, <1>8, <2>1, <2>2, <2>3, <2>4, <2>5, <2>6, <2>7 DEF Inv, Types
<1>9. Rest
  <2> HIDE DEF Rest
  <2> QED
    BY <1>5, <1>6, <1>7, <1>8, DispatchPlans
<1>10. Types'
  BY <1>1, <1>4, <1>9 DEF Inv, Types
<1>11. StopsOnlyIf'
  BY <1>9 DEF StopsOnlyIf
<1>12. Sorting'
  BY <1>1, <1>2 DEF Inv, Sorting
<1> HIDE DEF Sorting, Indexes, Plan, Settled, Progress, Bars, Screen, Types, StopsOnlyIf
<1> QED
  BY <1>4, <1>9, <1>10, <1>11, <1>12 DEF Inv

-----------------------------------------------------------------------------
(* The statement that ends makes place for the next one.                   *)
LEMMA FinishedPlan ==
  ASSUME Inv, pc = "run", Finished, focus' = focus,
         traceview_help_overlay_enabled' = traceview_help_overlay_enabled
  PROVE  /\ Plan' /\ Progress'
         /\ pc' \in {"get", "run"} /\ todo' \in Plans \cup {<<>>} /\ step' = "none"
         /\ height' \in Unsigned /\ rows' \in Unsigned /\ result' = "running"
         /\ Continues(todo) /\ todo' = Tail(todo) /\ (pc' = "run" <=> todo' # <<>>)
<1>1. /\ Continues(todo) /\ result = "running"
      /\ Last(todo) = "redraw" => ~traceview_help_overlay_enabled
  BY PlansContinue DEF Inv, Types, Plan
<1>2. /\ todo' = Tail(todo) /\ step' = "none" /\ height' = 0 /\ rows' = 0
      /\ pc' = (IF todo' = <<>> THEN "get" ELSE "run") /\ result' = "running"
  BY <1>1 DEF Finished
<1>3. todo' \in Plans \cup {<<>>} /\ todo' # <<"help">>
  BY <1>1, <1>2 DEF Continues
<1>4. todo' # <<>> => (Last(todo') = "redraw" => ~traceview_help_overlay_enabled')
  BY <1>1, <1>2, Zenon DEF Continues
<1>5. Plan'
  BY <1>2, <1>3, <1>4 DEF Plan
<1>6. Progress'
  BY <1>2 DEF Progress, Placed
<1> QED
  BY <1>1, <1>2, <1>3, <1>5, <1>6, UnsignedFacts

(* A statement other than a redraw.                                        *)
LEMMA StatementInv ==
  ASSUME Inv, Statement
  PROVE  Inv'
<1>1. /\ focus' = focus /\ flatprofile' = flatprofile /\ LINES' = LINES /\ nfunctions' = nfunctions
      /\ traceview_help_overlay_enabled' = traceview_help_overlay_enabled
      /\ disturbed' = disturbed /\ cramped' = cramped /\ misread' = misread /\ pc = "run"
      /\ LINES \in Nat /\ array' = array
  BY Terminals DEF Statement, history, Inv, Types
<1>2. todo \in Plans /\ Continues(todo)
  BY <1>1, PlansContinue DEF Inv, Types, Plan
<1>3. /\ function_id' \in Unsigned /\ target' \in Unsigned /\ Indexes'
  <2>1. \/ function_id' = function_id /\ target' = target
        \/ function_id' = target /\ target' = 0
    BY DEF Statement, Footer, Title, Help, NoHelp, ShowTarget
  <2>2. nfunctions \in Nat
    BY Traces DEF Inv, Types
  <2> QED
    BY <1>1, <2>1, <2>2, UnsignedFacts DEF Inv, Types, Indexes
<1>6. array # "filling"
  <2>1. Head(todo) \notin {"redraw", "redraw anyway"}
    BY DEF Statement, Footer, Title, Help, NoHelp, ShowTarget
  <2>2. step = "none"
    BY <1>1, <2>1 DEF Inv, Plan
  <2> QED
    BY <2>2 DEF Inv, Sorting
<1>4. CASE Help /\ ~HelpFits(LINES)
  <2>1. /\ Head(todo) # "redraw anyway" /\ screen' = screen
        /\ traceview_footer_index' = traceview_footer_index
        /\ traceview_titlebar_title' = traceview_titlebar_title
    BY <1>4 DEF Help, barVars
  <2>2. /\ pc' = "fini" /\ result' = "failed" /\ todo' = <<>> /\ step' = "none"
        /\ height' = 0 /\ rows' = 0
    <3>1. Failed
      BY <1>4 DEF Help
    <3> QED
      BY <2>1, <3>1 DEF Failed
  <2>7. TooSmall(LINES)
    BY <1>1, <1>4 DEF HelpFits, TooSmall
  <2>3. Types'
    BY <1>1, <1>3, <2>1, <2>2, UnsignedFacts DEF Inv, Types
  <2>4. Plan'
    BY <2>2 DEF Plan
  <2>5. Settled' /\ Screen' /\ StopsOnlyIf'
    BY <1>1, <2>2, <2>7 DEF Settled, Screen, StopsOnlyIf, Fresh
  <2>6. Progress' /\ Bars' /\ Sorting'
    BY <1>1, <1>6, <2>2 DEF Progress, Bars, Waiting, Sorting
  <2> QED
    BY <1>3, <2>3, <2>4, <2>5, <2>6 DEF Inv
<1>5. CASE ~(Help /\ ~HelpFits(LINES))
  <2>1. Finished
    BY <1>5 DEF Statement, Footer, Title, Help, NoHelp, ShowTarget
  <2>2. /\ Plan' /\ Progress'
        /\ pc' \in {"get", "run"} /\ todo' \in Plans \cup {<<>>} /\ step' = "none"
        /\ height' \in Unsigned /\ rows' \in Unsigned /\ result' = "running"
        /\ todo' = Tail(todo) /\ (pc' = "run" <=> todo' # <<>>)
    BY <1>1, <2>1, FinishedPlan
  <2>3. Bars' /\ traceview_footer_index' \in 1 .. 4 /\ traceview_titlebar_title' \in 0 .. NOTHING
    <3>1. CASE Footer
      <4>1. /\ traceview_footer_index' = focus + 1 /\ pc' = "run" /\ Head(todo') = "title"
            /\ traceview_titlebar_title' = traceview_titlebar_title
        BY <1>2, <2>2, <3>1 DEF Footer, Continues
      <4> QED
        BY <1>1, <4>1 DEF Bars, Waiting, Inv, Types
    <3>2. CASE Title
      <4>1. /\ traceview_footer_index' = focus + 1 /\ traceview_titlebar_title' = focus
        BY <1>1, <3>2 DEF Title, Inv, Bars
      <4> QED
        BY <1>1, <4>1 DEF Bars, Inv, Types, NOTHING
    <3>3. CASE Help \/ NoHelp \/ ShowTarget
      <4>1. /\ Head(todo) \notin {"footer", "title"}
            /\ traceview_footer_index' = traceview_footer_index
            /\ traceview_titlebar_title' = traceview_titlebar_title
        BY <3>3 DEF Help, NoHelp, ShowTarget, barVars
      <4> QED
        BY <1>1, <4>1 DEF Bars, Inv, Types
    <3> QED
      BY <3>1, <3>2, <3>3 DEF Statement
  <2>4. screen' \in [window : 0 .. NOTHING, help : BOOLEAN]
    <3>1. [screen EXCEPT !.help = TRUE] \in [window : 0 .. NOTHING, help : BOOLEAN]
      BY DEF Inv, Types
    <3>2. screen' \in {screen, [screen EXCEPT !.help = TRUE]}
      BY DEF Statement, Footer, Title, Help, NoHelp, ShowTarget
    <3> QED
      BY <3>1, <3>2 DEF Inv, Types
  <2>5. Types'
    BY <1>1, <1>3, <2>2, <2>3, <2>4 DEF Inv, Types
  <2>6. ASSUME todo' \in {<<>>, <<"help if enabled">>}
        PROVE  todo \in {<<"help">>, <<"help if enabled">>}
    <3>1. Head(todo) \notin {"redraw", "redraw anyway"}
      BY DEF Statement, Footer, Title, Help, NoHelp, ShowTarget
    <3>2. Head(<<"redraw">>) = "redraw"
      BY NewPlans
    <3> QED
      BY <1>2, <2>2, <2>6, <3>1, <3>2, PlansEnd, Zenon
  <2>7. todo' # <<>> => Head(todo') # "help if enabled"
    <3>1. Head(todo) \in {"footer", "title", "help", "help if enabled", "navigate"}
      BY DEF Statement, Footer, Title, Help, NoHelp, ShowTarget
    <3>2. Head(<<"redraw">>) = "redraw" /\ Head(<<"navigate", "redraw">>) = "navigate"
      OBVIOUS
    <3> QED
      BY <1>2, <2>2, <3>1, <3>2, Zenon DEF Continues
  <2>8. Settled'
    <3>1. SUFFICES ASSUME Fresh', focus' = FLATPROFILE,
                          todo' \in {<<>>, <<"help">>, <<"help if enabled">>}
                   PROVE  flatprofile'.items_shown = LINES' - 11 /\ Listed'
      BY <2>2 DEF Settled, Waiting
    <3>2. todo' # <<"help">>
      BY <1>2, <2>2 DEF Continues
    <3>3. todo \in {<<"help">>, <<"help if enabled">>}
      BY <2>6, <3>1, <3>2, Zenon
    <3> QED
      BY <1>1, <3>1, <3>3 DEF Inv, Settled, Fresh, Listed
  <2>9. ASSUME ~TooSmall(LINES), todo' = <<>> PROVE screen' = Complete'
    <3>1. todo \in {<<"help">>, <<"help if enabled">>} /\ Head(todo) \in {"help", "help if enabled"}
      <4>1. Head(<<"help">>) = "help" /\ Head(<<"help if enabled">>) = "help if enabled"
        OBVIOUS
      <4> QED
        BY <2>6, <2>9, <4>1, Zenon
    <3>2. /\ screen.window = focus
          /\ todo = <<"help">> => traceview_help_overlay_enabled
          /\ Head(todo) = "help if enabled" => (screen.help => traceview_help_overlay_enabled)
      <4>1. Screen /\ Plan
        BY DEF Inv
      <4>2. todo = <<"help">> => screen.window = focus /\ traceview_help_overlay_enabled
        BY <1>1, <1>2, <2>9, <4>1, Zenon DEF Screen, Plan, Continues
      <4>3. Head(todo) = "help if enabled" =>
              screen.window = focus /\ (screen.help => traceview_help_overlay_enabled)
        BY <1>1, <2>9, <4>1, Zenon DEF Screen
      <4>4. todo = <<"help if enabled">> => Head(todo) = "help if enabled"
        <5>1. Head(<<"help if enabled">>) = "help if enabled"
          OBVIOUS
        <5> QED
          BY <5>1, Zenon
      <4> QED
        BY <3>1, <4>2, <4>3, <4>4, Zenon
    <3>3. screen \in [window : 0 .. NOTHING, help : BOOLEAN]
      BY DEF Inv, Types
    <3>4. Complete' = [window |-> focus, help |-> traceview_help_overlay_enabled]
      BY <1>1 DEF Complete
    <3>5. CASE Help
      <4>1. traceview_help_overlay_enabled = TRUE
        <5>1. Head(todo) = "help" => todo = <<"help">>
          BY <1>2 DEF Continues
        <5>2. traceview_help_overlay_enabled \in BOOLEAN
          BY DEF Inv, Types
        <5> QED
          BY <3>2, <3>5, <5>1, <5>2, Zenon DEF Help
      <4>2. screen' = [screen EXCEPT !.help = TRUE]
        BY <1>5, <3>5 DEF Help
      <4>3. [screen EXCEPT !.help = TRUE] = [window |-> focus, help |-> TRUE]
        <5>1. \A r \in [window : 0 .. NOTHING, help : BOOLEAN] :
                r = [window |-> r.window, help |-> r.help]
          OBVIOUS
        <5> DEFINE new == [screen EXCEPT !.help = TRUE]
        <5>2. new \in [window : 0 .. NOTHING, help : BOOLEAN]
          BY <3>3
        <5>3. new.window = focus
          BY <3>2, <3>3
        <5>4. new.help = TRUE
          BY <3>3
        <5> HIDE DEF new
        <5>5. new = [window |-> focus, help |-> TRUE]
          BY <5>1, <5>2, <5>3, <5>4, Zenon
        <5> QED
          BY <5>5 DEF new
      <4> QED
        BY <3>4, <4>1, <4>2, <4>3, Zenon
    <3>6. CASE NoHelp
      <4>1. traceview_help_overlay_enabled = FALSE /\ screen.help = FALSE
        <5>1. traceview_help_overlay_enabled \in BOOLEAN /\ screen.help \in BOOLEAN
          BY <3>3 DEF Inv, Types
        <5> QED
          BY <3>2, <3>6, <5>1, Zenon DEF NoHelp
      <4>2. screen' = screen
        BY <3>6 DEF NoHelp
      <4> QED
        BY <3>2, <3>3, <3>4, <4>1, <4>2
    <3> QED
      BY <3>1, <3>5, <3>6 DEF Statement, Footer, Title, ShowTarget
  <2>10. Screen'
    <3>1. todo' # <<"help">>
      BY <1>2, <2>2 DEF Continues
    <3> QED
      BY <1>1, <2>2, <2>7, <2>9, <3>1 DEF Screen, Waiting
  <2>11. Sorting'
    BY <1>1, <1>6, <2>2 DEF Sorting
  <2> QED
    BY <1>3, <2>2, <2>3, <2>5, <2>8, <2>10, <2>11 DEF Inv, StopsOnlyIf
<1> QED
  BY <1>4, <1>5

-----------------------------------------------------------------------------
(* What a redraw leaves alone.                                             *)
RedrawKeeps ==
  /\ Redrawing /\ disturbed' \in BOOLEAN
  /\ flatprofile' \in Profile /\ Indexes'
  /\ array' \in {"null", "filling", "sorted"} /\ Sorting'
  /\ UNCHANGED <<target, focus, traceview_help_overlay_enabled, function_id, barVars, LINES,
                 nfunctions, cramped, misread>>

(* What every step of the redraw leaves alone.                             *)
LEMMA RedrawFacts ==
  ASSUME Inv, RedrawKeeps
  PROVE  /\ target' = target /\ focus' = focus /\ function_id' = function_id
         /\ traceview_help_overlay_enabled' = traceview_help_overlay_enabled
         /\ traceview_footer_index' = traceview_footer_index
         /\ traceview_titlebar_title' = traceview_titlebar_title
         /\ LINES' = LINES /\ nfunctions' = nfunctions /\ cramped' = cramped /\ misread' = misread
         /\ pc = "run" /\ todo \in Plans /\ Continues(todo)
         /\ Head(todo) \in {"redraw", "redraw anyway"}
         /\ Bars' /\ result = "running" /\ focus \in 0 .. NOTHING
<1>1. /\ target' = target /\ focus' = focus /\ function_id' = function_id
      /\ traceview_help_overlay_enabled' = traceview_help_overlay_enabled
      /\ traceview_footer_index' = traceview_footer_index
      /\ traceview_titlebar_title' = traceview_titlebar_title
      /\ LINES' = LINES /\ nfunctions' = nfunctions /\ cramped' = cramped /\ misread' = misread
      /\ pc = "run" /\ Head(todo) \in {"redraw", "redraw anyway"}
  BY DEF RedrawKeeps, barVars, Redrawing
<1>2. todo \in Plans /\ Continues(todo) /\ result = "running"
  BY <1>1, PlansContinue DEF Inv, Types, Plan
<1>3. traceview_footer_index = focus + 1 /\ traceview_titlebar_title = focus
  BY <1>1 DEF Inv, Bars
<1>4. Bars'
  BY <1>1, <1>3 DEF Bars
<1>5. focus \in 0 .. NOTHING
  <2>1. focus \in 0 .. 3
    BY DEF Inv, Types
  <2> QED
    BY <2>1 DEF NOTHING
<1> QED
  BY <1>1, <1>2, <1>4, <1>5

(* The window is drawn, or what went wrong is ignored.                     *)
LEMMA RedrawEnds ==
  ASSUME Inv, RedrawKeeps, Finished,
         \/ screen' = Shown(focus)
         \/ screen' = screen /\ Head(todo) = "redraw anyway"
            /\ (TooSmall(LINES) \/ (disturbed /\ step # "none")),
         Fresh' /\ focus = FLATPROFILE => flatprofile'.items_shown = LINES - 11 /\ Listed'
  PROVE  Inv'
<1>1. /\ target' = target /\ focus' = focus /\ function_id' = function_id
      /\ traceview_help_overlay_enabled' = traceview_help_overlay_enabled
      /\ traceview_footer_index' = traceview_footer_index
      /\ traceview_titlebar_title' = traceview_titlebar_title
      /\ LINES' = LINES /\ nfunctions' = nfunctions /\ cramped' = cramped /\ misread' = misread
      /\ pc = "run" /\ Continues(todo) /\ Head(todo) \in {"redraw", "redraw anyway"}
      /\ Bars'
  BY RedrawFacts
<1>2. /\ Plan' /\ Progress'
      /\ pc' \in {"get", "run"} /\ todo' \in Plans \cup {<<>>} /\ step' = "none"
      /\ height' \in Unsigned /\ rows' \in Unsigned /\ result' = "running"
      /\ todo' = Tail(todo) /\ (pc' = "run" <=> todo' # <<>>)
  BY <1>1, FinishedPlan
<1>3. screen' \in [window : 0 .. NOTHING, help : BOOLEAN]
  <2>1. Shown(focus) \in [window : 0 .. NOTHING, help : BOOLEAN]
    BY RedrawFacts DEF Shown
  <2> QED
    BY <2>1 DEF Inv, Types
<1>4. Types'
  <2>1. flatprofile' \in Profile /\ disturbed' \in BOOLEAN
        /\ array' \in {"null", "filling", "sorted"}
    BY DEF RedrawKeeps
  <2> QED
    BY <1>1, <1>2, <1>3, <2>1 DEF Inv, Types
<1>5. Settled'
  BY <1>1 DEF Settled
<1>6. Screen'
  <2>1. SUFFICES ASSUME ~TooSmall(LINES) PROVE Screen'
    BY <1>1 DEF Screen
  <2>2. traceview_help_overlay_enabled \in BOOLEAN
    BY DEF Inv, Types
  <2>3. CASE Head(todo) = "redraw"
    <3>1. todo' = <<>> /\ pc' = "get" /\ screen' = Shown(focus)
      BY <1>1, <1>2, <2>3 DEF Continues
    <3>2. traceview_help_overlay_enabled = FALSE
      <4>1. Last(todo) = "redraw" /\ todo # <<>>
        BY <1>1, <2>3 DEF Continues
      <4>2. ~traceview_help_overlay_enabled
        BY <1>1, <4>1, Zenon DEF Inv, Plan
      <4> QED
        BY <2>2, <4>2, Zenon
    <3>3. Complete' = Shown(focus)
      BY <1>1, <3>2, Zenon DEF Complete, Shown
    <3> QED
      BY <1>2, <3>1, <3>3 DEF Screen
  <2>4. CASE Head(todo) = "redraw anyway"
    <3>1. /\ todo' # <<>> /\ pc' = "run" /\ Head(todo') = "help if enabled" /\ todo' # <<"help">>
      BY <1>1, <1>2, <2>4 DEF Continues
    <3>2. screen'.window = focus /\ (screen'.help => traceview_help_overlay_enabled)
      <4>1. CASE screen' = Shown(focus)
        BY <4>1 DEF Shown
      <4>2. CASE screen' = screen /\ disturbed /\ step # "none"
        <5>1. screen = Complete
          BY <1>1, <2>1, <4>2 DEF Inv, Screen
        <5> QED
          BY <4>2, <5>1 DEF Complete
      <4> QED
        BY <2>1, <4>1, <4>2
    <3>3. screen'.window = focus' /\ (screen'.help => traceview_help_overlay_enabled')
      BY <1>1, <3>2, Zenon
    <3> QED
      BY <1>2, <3>1, <3>3, Zenon DEF Screen, Waiting
  <2> QED
    BY <1>1, <2>3, <2>4
<1> QED
  BY <1>1, <1>2, <1>4, <1>5, <1>6 DEF Inv, StopsOnlyIf, RedrawKeeps

(* It is not.                                                              *)
LEMMA RedrawFails ==
  ASSUME Inv, RedrawKeeps, Failed, Head(todo) # "redraw anyway",
         TooSmall(LINES) \/ disturbed', screen' = screen
  PROVE  Inv'
<1>1. /\ target' = target /\ focus' = focus /\ function_id' = function_id
      /\ traceview_help_overlay_enabled' = traceview_help_overlay_enabled
      /\ traceview_footer_index' = traceview_footer_index
      /\ traceview_titlebar_title' = traceview_titlebar_title
      /\ LINES' = LINES /\ nfunctions' = nfunctions /\ cramped' = cramped /\ misread' = misread
      /\ Bars'
  BY RedrawFacts
<1>2. /\ pc' = "fini" /\ result' = "failed" /\ todo' = <<>> /\ step' = "none"
      /\ height' = 0 /\ rows' = 0
  BY DEF Failed
<1>3. flatprofile' \in Profile /\ disturbed' \in BOOLEAN /\ Indexes' /\ Sorting'
      /\ array' \in {"null", "filling", "sorted"}
  BY DEF RedrawKeeps
<1>4. Types'
  BY <1>1, <1>2, <1>3, UnsignedFacts DEF Inv, Types
<1>5. Plan' /\ Progress' /\ StopsOnlyIf'
  BY <1>1, <1>2 DEF Plan, Progress, StopsOnlyIf
<1>6. Settled' /\ Screen'
  BY <1>1, <1>2 DEF Settled, Screen, Waiting
<1> QED
  BY <1>1, <1>3, <1>4, <1>5, <1>6 DEF Inv

(* It goes on.                                                             *)
LEMMA RedrawGoesOn ==
  ASSUME Inv, RedrawKeeps, pc' = pc, todo' = todo, result' = result, screen' = screen,
         step' \in {"measure", "count", "up", "compare", "down"} \cup Placed,
         \/ focus = FLATPROFILE
         \/ focus = CALLGRAPH /\ step' \in {"measure", "place"},
         \/ disturbed' = FALSE
         \/ disturbed' = disturbed /\ step # "none",
         height' \in Unsigned, rows' \in Unsigned, Progress'
  PROVE  Inv'
<1>1. /\ target' = target /\ focus' = focus /\ function_id' = function_id
      /\ traceview_help_overlay_enabled' = traceview_help_overlay_enabled
      /\ traceview_footer_index' = traceview_footer_index
      /\ traceview_titlebar_title' = traceview_titlebar_title
      /\ LINES' = LINES /\ nfunctions' = nfunctions /\ cramped' = cramped /\ misread' = misread
      /\ pc = "run" /\ todo \in Plans /\ Continues(todo)
      /\ Head(todo) \in {"redraw", "redraw anyway"} /\ result = "running" /\ Bars'
  BY RedrawFacts
<1>2. flatprofile' \in Profile /\ disturbed' \in BOOLEAN /\ Indexes' /\ Sorting'
      /\ array' \in {"null", "filling", "sorted"}
  BY DEF RedrawKeeps
<1>3. todo \notin {<<"help">>, <<"help if enabled">>}
  <2>1. Head(<<"help if enabled">>) = "help if enabled"
    OBVIOUS
  <2>2. todo # <<"help">>
    BY <1>1 DEF Continues
  <2> QED
    BY <1>1, <2>1, <2>2, Zenon
<1>4. Types'
  BY <1>1, <1>2 DEF Inv, Types, Placed
<1>5. Plan'
  BY <1>1 DEF Inv, Plan, Placed
<1>6. Settled'
  BY <1>1, <1>3 DEF Settled, Waiting
<1>7. Screen'
  <2>1. ~TooSmall(LINES) /\ disturbed' => screen' = Complete'
    BY <1>1 DEF Inv, Screen, Complete
  <2> QED
    BY <1>1, <1>3, <2>1, Zenon DEF Screen, Waiting
<1>8. StopsOnlyIf'
  BY <1>1 DEF StopsOnlyIf
<1> QED
  BY <1>1, <1>2, <1>4, <1>5, <1>6, <1>7, <1>8 DEF Inv

-----------------------------------------------------------------------------
(* A window without a list is complete when it has been drawn.             *)
LEMMA RedrawPlainInv ==
  ASSUME Inv, Redrawing, RedrawPlain, RedrawKeeps
  PROVE  Inv'
<1>1. focus \in {INTERACTIVE, MEMPROFILE} /\ focus # FLATPROFILE /\ disturbed' = FALSE
      /\ LINES' = LINES /\ LINES \in Nat
  BY Terminals DEF RedrawPlain, INTERACTIVE, MEMPROFILE, FLATPROFILE, RedrawKeeps, Inv, Types
<1>2. CASE PlainFits(LINES)
  <2>1. Finished /\ screen' = Shown(focus)
    BY <1>2 DEF RedrawPlain
  <2> QED
    BY <1>1, <2>1, RedrawEnds
<1>3. CASE ~PlainFits(LINES)
  <2>1. Failed /\ screen' = screen /\ TooSmall(LINES)
    BY <1>1, <1>3 DEF RedrawPlain, PlainFits, TooSmall
  <2>2. CASE Head(todo) = "redraw anyway"
    <3>1. Finished
      BY <2>1, <2>2 DEF Failed
    <3> QED
      BY <1>1, <2>1, <2>2, <3>1, RedrawEnds
  <2>3. CASE Head(todo) # "redraw anyway"
    BY <2>1, <2>3, RedrawFails
  <2> QED
    BY <2>2, <2>3
<1> QED
  BY <1>2, <1>3

(* The header fails in a small terminal only, and crashes only if there    *)
(* are no functions, or lines were misread.                                *)
LEMMA HeaderInv ==
  ASSUME Inv, Redrawing, Header, RedrawKeeps
  PROVE  Inv'
<1>1. /\ step = "none" /\ focus \in {FLATPROFILE, CALLGRAPH} /\ disturbed' = FALSE
      /\ flatprofile' = flatprofile /\ screen' = screen
      /\ LINES' = LINES /\ LINES \in Nat
  BY Terminals DEF Header, RedrawKeeps, Inv, Types
<1>2. CASE ~HeaderFits(LINES)
  <2>1. Failed /\ TooSmall(LINES)
    BY <1>1, <1>2 DEF Header, HeaderFits, TooSmall
  <2>2. CASE Head(todo) = "redraw anyway"
    <3>1. Finished
      BY <2>1, <2>2 DEF Failed
    <3> QED
      BY <1>1, <2>1, <2>2, <3>1, RedrawEnds DEF Fresh
  <2>3. CASE Head(todo) # "redraw anyway"
    BY <1>1, <2>1, <2>3, RedrawFails
  <2> QED
    BY <2>2, <2>3
<1>3. CASE HeaderFits(LINES) /\ Outside /\ Crash /\ UNCHANGED <<todo, step, height, rows>>
  <2>1. /\ result' = "crashed" /\ pc' = "exited" /\ todo' = todo /\ step' = step
        /\ height' = height /\ rows' = rows
    BY <1>3 DEF Crash
  <2>2. /\ target' = target /\ focus' = focus /\ function_id' = function_id
        /\ traceview_help_overlay_enabled' = traceview_help_overlay_enabled
        /\ traceview_footer_index' = traceview_footer_index
        /\ traceview_titlebar_title' = traceview_titlebar_title
        /\ nfunctions' = nfunctions /\ cramped' = cramped /\ misread' = misread /\ Bars'
    BY RedrawFacts
  <2>3. flatprofile' \in Profile /\ disturbed' \in BOOLEAN /\ Indexes' /\ Sorting'
        /\ array' \in {"null", "filling", "sorted"}
    BY DEF RedrawKeeps
  <2>4. Types'
    BY <1>1, <2>1, <2>2, <2>3 DEF Inv, Types
  <2>5. Plan' /\ Progress'
    BY <2>1 DEF Plan, Progress
  <2>6. Settled' /\ Screen'
    BY <2>1 DEF Settled, Screen, Waiting
  <2>7. nfunctions = 0 \/ misread
    <3>1. function_id \in Nat /\ nfunctions \in Nat
      BY Traces, UnsignedFacts DEF Inv, Types
    <3> QED
      BY <1>3, <3>1 DEF Inv, Indexes, Outside
  <2> QED
    BY <2>1, <2>2, <2>3, <2>4, <2>5, <2>6, <2>7 DEF Inv, StopsOnlyIf
<1>4. CASE HeaderFits(LINES) /\ GoTo("measure")
  <2>1. /\ step' = "measure" /\ pc' = pc /\ todo' = todo /\ height' = height /\ rows' = rows
        /\ result' = result
    BY <1>4 DEF GoTo
  <2>2. height' \in Unsigned /\ rows' \in Unsigned
    BY <2>1 DEF Inv, Types
  <2>3. Progress'
    BY <2>1 DEF Progress, Placed
  <2> QED
    BY <1>1, <2>1, <2>2, <2>3, RedrawGoesOn DEF Placed
<1> QED
  BY <1>2, <1>3, <1>4 DEF Header

(* The height is that of the terminal, unless it changes before it is      *)
(* used.                                                                   *)
LEMMA MeasureInv ==
  ASSUME Inv, Redrawing, Measure, RedrawKeeps
  PROVE  Inv'
<1>1. /\ step = "measure" /\ height' = Height(LINES) /\ LINES' = LINES /\ focus' = focus
      /\ step' = IF focus = FLATPROFILE THEN "count" ELSE "place"
      /\ pc' = pc /\ todo' = todo /\ rows' = rows /\ result' = result /\ screen' = screen
      /\ disturbed' = disturbed
  BY DEF Measure, RedrawKeeps
<1>2. focus \in {FLATPROFILE, CALLGRAPH}
  BY <1>1 DEF Redrawing, Inv, Plan
<1>3. LINES \in Sizes /\ height' \in Unsigned /\ rows' \in Unsigned
  BY <1>1, Terminals DEF Inv, Types
<1>4. Fresh' => height' = LINES - 8
  <2>1. ~TooSmall(LINES) => LINES >= 8
    BY <1>3, Terminals DEF TooSmall
  <2> QED
    BY <1>1, <1>3, <2>1, Terminals DEF Fresh
<1>5. Progress'
  BY <1>1, <1>4 DEF Progress, Placed
<1> QED
  BY <1>1, <1>2, <1>3, <1>5, RedrawGoesOn DEF Placed

(* What is known of the list while it is redrawn.                          *)
LEMMA ListFacts ==
  ASSUME Inv, Redrawing, step # "none"
  PROVE  /\ pc = "run" /\ flatprofile \in Profile /\ nfunctions \in Nfunctions /\ LINES \in Sizes
         /\ height \in Unsigned /\ rows \in Unsigned
         /\ step \notin {"measure", "place"} => focus = FLATPROFILE
         /\ Fresh => ~TooSmall(LINES)
BY DEF Inv, Types, Plan, Redrawing, Fresh

(* Each of the four steps over the static variables, a resize before it or *)
(* not.                                                                    *)
LEMMA ScrollInv ==
  ASSUME Inv, Redrawing, Scroll, RedrawKeeps
  PROVE  Inv'
<1>1. /\ step \in {"count", "up", "compare", "down"} /\ screen' = screen /\ disturbed' = disturbed
      /\ step' \in {"up", "compare", "down", "place"}
      /\ pc' = pc /\ todo' = todo /\ height' = height /\ rows' = rows /\ result' = result
      /\ LINES' = LINES /\ focus' = focus /\ nfunctions' = nfunctions
  BY DEF Scroll, GoTo, RedrawKeeps
<1>2. /\ pc = "run" /\ flatprofile \in Profile /\ nfunctions \in Nfunctions /\ LINES \in Sizes
      /\ height \in Unsigned /\ rows \in Unsigned /\ focus = FLATPROFILE
  BY <1>1, ListFacts
<1>3. Fresh' => Fresh /\ ~TooSmall(LINES)
  BY <1>1 DEF Fresh
<1>4. Progress'
  <2> SUFFICES ASSUME Fresh' PROVE Progress'
    BY DEF Progress, Placed
  <2>1. Fresh /\ ~TooSmall(LINES) /\ height = LINES - 8
    BY <1>1, <1>2, <1>3 DEF Inv, Progress, Placed
  <2>2. CASE step = "count"
    <3>1. flatprofile' = Counted(flatprofile, height, nfunctions) /\ step' = "up"
      BY <2>2 DEF Scroll, GoTo
    <3>2. flatprofile'.items_shown = LINES - 11
      BY <1>2, <2>1, <3>1, CountedFacts
    <3> QED
      BY <1>1, <2>1, <3>1, <3>2 DEF Progress, Placed
  <2>3. CASE step = "up"
    <3>1. flatprofile' = FollowedUp(flatprofile) /\ step' = "compare"
      BY <2>3 DEF Scroll, GoTo
    <3>2. flatprofile.items_shown = LINES - 11
      BY <1>2, <2>1, <2>3 DEF Inv, Progress, Placed
    <3>3. /\ flatprofile'.items_shown = LINES - 11
          /\ flatprofile'.scrolldown <= flatprofile'.focus_index
      BY <1>2, <3>1, <3>2, FollowedUpFacts
    <3> QED
      BY <1>1, <2>1, <3>1, <3>3 DEF Progress, Placed
  <2>4. CASE step = "compare"
    <3>1. /\ flatprofile' = flatprofile
          /\ step' = IF BelowEnd(flatprofile) THEN "down" ELSE "place"
      BY <2>4 DEF Scroll, GoTo
    <3>2. /\ flatprofile.items_shown = LINES - 11
          /\ flatprofile.scrolldown <= flatprofile.focus_index
      BY <1>2, <2>1, <2>4 DEF Inv, Progress, Placed
    <3>3. flatprofile.focus_index < nfunctions /\ ~BelowEnd(flatprofile) =>
            FocusDrawn(flatprofile, nfunctions)
      BY <1>2, <2>1, <3>2, FocusFollowed
    <3> QED
      BY <1>1, <2>1, <3>1, <3>2, <3>3 DEF Progress, Placed
  <2>5. CASE step = "down"
    <3>1. flatprofile' = FollowedDown(flatprofile) /\ step' = "place"
      BY <2>5 DEF Scroll, GoTo
    <3>2. /\ flatprofile.items_shown = LINES - 11 /\ BelowEnd(flatprofile)
          /\ flatprofile.scrolldown <= flatprofile.focus_index
      BY <1>2, <2>1, <2>5 DEF Inv, Progress, Placed
    <3>3. /\ flatprofile'.items_shown = LINES - 11
          /\ flatprofile'.focus_index = flatprofile.focus_index
      BY <1>2, <3>1, <3>2, FollowedDownFields
    <3>4. flatprofile.focus_index < nfunctions => FocusDrawn(flatprofile', nfunctions)
      BY <1>2, <2>1, <3>1, <3>2, FocusFollowed
    <3> QED
      BY <1>1, <2>1, <3>1, <3>3, <3>4 DEF Progress, Placed
  <2> QED
    BY <1>1, <2>2, <2>3, <2>4, <2>5
<1> QED
  BY <1>1, <1>2, <1>4, RedrawGoesOn DEF Placed

(* The window fits if its height is that of the terminal.                  *)
LEMMA PlaceInv ==
  ASSUME Inv, Redrawing, Place, RedrawKeeps
  PROVE  Inv'
<1>1. /\ step = "place" /\ flatprofile' = flatprofile /\ disturbed' = disturbed
      /\ LINES' = LINES /\ focus' = focus /\ nfunctions' = nfunctions
  BY DEF Place, RedrawKeeps
<1>2. /\ pc = "run" /\ flatprofile \in Profile /\ nfunctions \in Nfunctions /\ LINES \in Sizes
      /\ height \in Unsigned /\ rows \in Unsigned
      /\ focus \in {FLATPROFILE, CALLGRAPH} /\ FLATPROFILE # CALLGRAPH
  <2>1. focus \in {FLATPROFILE, CALLGRAPH}
    BY <1>1 DEF Redrawing, Inv, Plan
  <2>2. FLATPROFILE # CALLGRAPH
    BY DEF FLATPROFILE, CALLGRAPH
  <2> QED
    BY <1>1, <2>1, <2>2, ListFacts
<1>3. Fresh => height = LINES - 8
  BY <1>1, <1>2 DEF Inv, Progress, Placed
<1>4. CASE ~Placeable(height, LINES)
  <2>1. Failed /\ screen' = screen
    BY <1>4 DEF Place
  <2>2. ~Fresh
    <3> SUFFICES ASSUME Fresh PROVE FALSE
      OBVIOUS
    <3>1. ~TooSmall(LINES)
      BY DEF Fresh
    <3>2. Height(LINES) = LINES - 8 /\ Placeable(Height(LINES), LINES)
      BY <1>2, <3>1, CountedFacts
    <3> QED
      BY <1>3, <1>4, <3>2
  <2>3. TooSmall(LINES) \/ disturbed
    BY <2>2 DEF Fresh
  <2>4. CASE Head(todo) = "redraw anyway"
    <3>1. Finished
      BY <2>1, <2>4 DEF Failed
    <3>2. ~Fresh'
      BY <1>1, <2>2 DEF Fresh
    <3> QED
      BY <1>1, <2>1, <2>3, <2>4, <3>1, <3>2, RedrawEnds
  <2>5. CASE Head(todo) # "redraw anyway"
    BY <1>1, <2>1, <2>3, <2>5, RedrawFails
  <2> QED
    BY <2>4, <2>5
<1>5. CASE Placeable(height, LINES) /\ focus = FLATPROFILE
  <2>1. /\ step' = "sort" /\ rows' = height /\ pc' = pc /\ todo' = todo /\ height' = height
        /\ result' = result /\ screen' = screen
    BY <1>5 DEF Place
  <2>2. Progress'
    <3> SUFFICES ASSUME Fresh' PROVE Progress'
      BY DEF Progress, Placed
    <3>1. Fresh
      BY <1>1 DEF Fresh
    <3>2. /\ flatprofile.items_shown = LINES - 11
          /\ flatprofile.focus_index < nfunctions => FocusDrawn(flatprofile, nfunctions)
      BY <1>1, <1>2, <1>5, <3>1 DEF Inv, Progress, Placed
    <3> QED
      BY <1>1, <1>3, <2>1, <3>1, <3>2 DEF Progress, Placed
  <2> QED
    BY <1>1, <1>2, <1>5, <2>1, <2>2, RedrawGoesOn DEF Placed
<1>6. CASE Placeable(height, LINES) /\ focus = CALLGRAPH
  <2>1. Finished /\ screen' = Shown(focus)
    BY <1>2, <1>6 DEF Place
  <2> QED
    BY <1>2, <1>6, <2>1, RedrawEnds
<1> QED
  BY <1>2, <1>4, <1>5, <1>6

(* The array is published, filled and sorted.                              *)
LEMMA SortInv ==
  ASSUME Inv, Redrawing, Sort, RedrawKeeps
  PROVE  Inv'
<1>1. /\ step \in {"sort", "alloc", "fill"} /\ step' \in {"alloc", "fill", "lines"}
      /\ flatprofile' = flatprofile /\ screen' = screen /\ disturbed' = disturbed
      /\ pc' = pc /\ todo' = todo /\ height' = height /\ rows' = rows /\ result' = result
      /\ LINES' = LINES /\ focus' = focus /\ nfunctions' = nfunctions
  BY DEF Sort, GoTo, RedrawKeeps
<1>2. /\ pc = "run" /\ height \in Unsigned /\ rows \in Unsigned /\ focus = FLATPROFILE
  BY <1>1, ListFacts
<1>3. Progress'
  <2> SUFFICES ASSUME Fresh' PROVE Progress'
    BY DEF Progress
  <2>1. Fresh
    BY <1>1 DEF Fresh
  <2>2. /\ height = LINES - 8 /\ rows = LINES - 8 /\ flatprofile.items_shown = LINES - 11
        /\ flatprofile.focus_index < nfunctions => FocusDrawn(flatprofile, nfunctions)
    BY <1>1, <1>2, <2>1 DEF Inv, Progress, Placed
  <2> QED
    BY <1>1, <2>2 DEF Progress
<1> QED
  BY <1>1, <1>2, <1>3, RedrawGoesOn DEF Placed

(* After the lines the list shows its focus.                               *)
LEMMA LinesInv ==
  ASSUME Inv, Redrawing, Lines, RedrawKeeps
  PROVE  Inv'
<1>1. /\ step = "lines" /\ flatprofile' = Drawn(flatprofile, nfunctions)
      /\ disturbed' = disturbed
      /\ LINES' = LINES /\ focus' = focus /\ nfunctions' = nfunctions
  BY DEF Lines, RedrawKeeps
<1>2. /\ pc = "run" /\ flatprofile \in Profile /\ nfunctions \in Nfunctions /\ LINES \in Sizes
      /\ rows \in Unsigned /\ focus = FLATPROFILE
  BY <1>1, ListFacts
<1>3. Fresh => /\ ~TooSmall(LINES) /\ rows = LINES - 8 /\ flatprofile.items_shown = LINES - 11
               /\ flatprofile.focus_index < nfunctions => FocusDrawn(flatprofile, nfunctions)
  BY <1>1, <1>2 DEF Inv, Progress, Placed, Fresh
<1>4. CASE Drawable(flatprofile, nfunctions, rows)
  <2>1. Finished /\ screen' = Shown(focus)
    BY <1>2, <1>4 DEF Lines
  <2>2. ASSUME Fresh' PROVE flatprofile'.items_shown = LINES - 11 /\ Listed'
    <3>1. Fresh
      BY <1>1, <2>2 DEF Fresh
    <3>2. /\ flatprofile'.items_shown = LINES - 11
          /\ flatprofile'.focus_index = flatprofile.focus_index
      BY <1>1, <1>2, <1>3, <3>1, DrawnKeeps
    <3>3. flatprofile'.focus_index < nfunctions =>
            /\ FocusDrawn(flatprofile', nfunctions)
            /\ flatprofile'.focus_function
                 = sorted_functions(nfunctions, flatprofile'.focus_index)
      BY <1>1, <1>2, <1>3, <3>1, <3>2, DrawnLists
    <3> QED
      BY <1>1, <3>2, <3>3 DEF Listed
  <2> QED
    BY <2>1, <2>2, RedrawEnds
<1>5. CASE ~Drawable(flatprofile, nfunctions, rows)
  <2>1. Failed /\ screen' = screen
    BY <1>5 DEF Lines
  <2>2. ~Fresh
    BY <1>2, <1>3, <1>5, LinesFit
  <2>3. TooSmall(LINES) \/ disturbed
    BY <2>2 DEF Fresh
  <2>4. CASE Head(todo) = "redraw anyway"
    <3>1. Finished
      BY <2>1, <2>4 DEF Failed
    <3>2. ~Fresh'
      BY <1>1, <2>2 DEF Fresh
    <3> QED
      BY <1>1, <2>1, <2>3, <2>4, <3>1, <3>2, RedrawEnds
  <2>5. CASE Head(todo) # "redraw anyway"
    BY <1>1, <2>1, <2>3, <2>5, RedrawFails
  <2> QED
    BY <2>4, <2>5
<1> QED
  BY <1>4, <1>5

(* No step of a redraw moves the focus, or reaches beyond the list.        *)
LEMMA RedrawInv ==
  ASSUME Inv, Redraw
  PROVE  Inv'
<1>1. /\ Redrawing /\ focus' = focus /\ function_id' = function_id /\ target' = target
      /\ nfunctions' = nfunctions /\ cramped' = cramped /\ misread' = misread
  BY DEF Redraw
<1>2. /\ flatprofile \in Profile /\ nfunctions \in Nfunctions /\ height \in Unsigned
  BY DEF Inv, Types
<1>3. disturbed' \in BOOLEAN
  BY DEF Redraw, RedrawPlain, Header, Measure, Scroll, Place, Sort, Lines, Inv, Types
<1>4. flatprofile' \in {flatprofile, Counted(flatprofile, height, nfunctions),
                        FollowedUp(flatprofile), FollowedDown(flatprofile),
                        Drawn(flatprofile, nfunctions)}
  BY DEF Redraw, RedrawPlain, Header, Measure, Scroll, Place, Sort, Lines
<1>5. flatprofile' \in Profile
  BY <1>2, <1>4, StepsOfRedraw
<1>6. Indexes'
  <2> SUFFICES ASSUME nfunctions > 0 PROVE Indexes'
    BY <1>1 DEF Indexes
  <2>1. /\ ~misread => /\ flatprofile.focus_function < nfunctions
                       /\ function_id < nfunctions /\ target < nfunctions
        /\ flatprofile.focus_max < nfunctions
        /\ ~cramped => flatprofile.focus_index < nfunctions
    BY DEF Inv, Indexes
  <2>2. /\ flatprofile'.focus_index = flatprofile.focus_index
        /\ \/ flatprofile'.focus_function = flatprofile.focus_function
           \/ flatprofile'.focus_function < nfunctions
    BY <1>2, <1>4, StepsOfRedraw
  <2>3. flatprofile'.focus_max < nfunctions
    BY <1>2, <1>4, <2>1, CountedMax, FollowedUpFacts, FollowedDownFields, DrawnKeeps
  <2> QED
    BY <1>1, <2>1, <2>2, <2>3 DEF Indexes
<1>8. array' \in {"null", "filling", "sorted"} /\ Sorting'
  <2>1. CASE Sort
    BY <1>1, <2>1 DEF Sort, GoTo, Sorting, Redrawing, Inv, Types
  <2>2. CASE (RedrawPlain \/ Header \/ Measure \/ Scroll \/ Place \/ Lines) /\ array' = array
    <3>1. CASE RedrawPlain
      <4>1. step = "none"
        <5>1. focus \in {INTERACTIVE, MEMPROFILE} /\ pc = "run"
          BY <1>1, <3>1, Zenon DEF RedrawPlain, Redrawing
        <5>2. step # "none" => focus = FLATPROFILE \/ focus = CALLGRAPH
          BY <5>1, Zenon DEF Inv, Plan
        <5> QED
          BY <5>1, <5>2 DEF INTERACTIVE, MEMPROFILE, FLATPROFILE, CALLGRAPH
      <4> QED
        BY <2>2, <3>1, <4>1 DEF RedrawPlain, Finished, Failed, Sorting, Inv, Types
    <3>2. CASE Header
      BY <2>2, <3>2 DEF Header, Finished, Failed, GoTo, Sorting, Inv, Types
    <3>3. CASE Measure
      BY <2>2, <3>3 DEF Measure, Sorting, Inv, Types
    <3>4. CASE Scroll
      BY <2>2, <3>4 DEF Scroll, GoTo, Sorting, Inv, Types
    <3>5. CASE Place
      BY <2>2, <3>5 DEF Place, Finished, Failed, Sorting, Inv, Types
    <3>6. CASE Lines
      BY <2>2, <3>6 DEF Lines, Finished, Failed, Sorting, Inv, Types
    <3> QED
      BY <2>2, <3>1, <3>2, <3>3, <3>4, <3>5, <3>6
  <2> QED
    BY <2>1, <2>2 DEF Redraw
<1>7. RedrawKeeps
  BY <1>1, <1>3, <1>5, <1>6, <1>8 DEF Redraw, RedrawKeeps
<1> QED
  BY <1>1, <1>7, RedrawPlainInv, HeaderInv, MeasureInv, ScrollInv, PlaceInv, SortInv, LinesInv
  DEF Redraw

-----------------------------------------------------------------------------
(* The handler leaves the screen as the variables say, whatever it         *)
(* interrupts; it can disturb a redraw only.                               *)
LEMMA ResizeInv ==
  ASSUME Inv, Resize
  PROVE  Inv'
<1>1. /\ pc \in {"init", "get", "dispatch", "run"} /\ LINES' \in Sizes
      /\ disturbed' = (pc = "run" /\ step # "none") /\ disturbed' \in BOOLEAN
      /\ todo' = todo /\ step' = step /\ height' = height /\ target' = target /\ focus' = focus
      /\ traceview_help_overlay_enabled' = traceview_help_overlay_enabled
      /\ function_id' = function_id
      /\ traceview_footer_index' = traceview_footer_index
      /\ traceview_titlebar_title' = traceview_titlebar_title
      /\ nfunctions' = nfunctions /\ cramped' = cramped /\ step' = step
      /\ misread' = (misread \/ Misreads(LINES')) /\ misread' \in BOOLEAN
  BY DEF Resize, barVars, Inv, Types
<1>2. /\ flatprofile \in Profile /\ nfunctions \in Nfunctions /\ nfunctions \in Nat
      /\ result = "running" /\ rows \in Unsigned /\ function_id \in Unsigned
  BY <1>1, Traces DEF Inv, Types, Plan
<1>5. array = "filling" => pc = "run" /\ step = "fill" /\ disturbed' = TRUE
  BY <1>1 DEF Inv, Sorting
<1>6. Misreads(LINES') => array = "filling" /\ focus = FLATPROFILE
  BY DEF Misreads, Lists
<1>3. CASE MayCrash(LINES') /\ Crash /\ UNCHANGED <<keyVars, flatprofile, array, rows, screen>>
  <2>1. /\ result' = "crashed" /\ pc' = "exited" /\ flatprofile' = flatprofile /\ rows' = rows
        /\ screen' = screen /\ array' = array
    BY <1>3 DEF Crash
  <2>2. Types'
    BY <1>1, <2>1 DEF Inv, Types
  <2>3. Plan' /\ Settled' /\ Progress' /\ Bars' /\ Screen' /\ Sorting'
    BY <1>1, <2>1 DEF Plan, Settled, Progress, Bars, Screen, Waiting, Sorting, Inv
  <2>4. Indexes'
    BY <1>1, <2>1 DEF Inv, Indexes
  <2>5. traceview_titlebar_title = NOTHING \/ nfunctions = 0 \/ misread'
    <3>1. pc = "init" => traceview_titlebar_title = NOTHING
      BY DEF Inv, Plan
    <3>2. function_id >= nfunctions => nfunctions = 0 \/ misread
      BY <1>2, UnsignedFacts DEF Inv, Indexes
    <3> QED
      BY <1>1, <1>3, <3>1, <3>2 DEF MayCrash, MustCrash, Outside
  <2>6. StopsOnlyIf'
    BY <1>1, <2>1, <2>5 DEF StopsOnlyIf
  <2> QED
    BY <2>2, <2>3, <2>4, <2>6 DEF Inv
<1>4. CASE /\ ~MustCrash(LINES') /\ HandlerRedraws(LINES') /\ result' = result
           /\ UNCHANGED <<keyVars, pc>> \/ (pc = "get" /\ WaitInterrupted /\ pc' = "dispatch")
  <2> DEFINE new == Redrawn(flatprofile, LINES', nfunctions)
  <2>1. /\ result' = result /\ pc # "init"
        /\ array' = IF Lists(LINES') /\ array = "null" THEN "sorted" ELSE array
        /\ rows' = IF step \notin {"sort", "alloc", "fill", "lines"} THEN rows
                   ELSE IF Placeable(Height(LINES'), LINES') THEN Height(LINES')
                   ELSE Least(rows, Greatest(1, LINES' - 7))
        /\ screen' = [window |-> IF WindowRedrawn(LINES') THEN focus ELSE NOTHING,
                      help   |-> traceview_help_overlay_enabled /\ HelpFits(LINES')]
        /\ pc' = pc \/ (pc = "get" /\ pc' = "dispatch")
    BY <1>4 DEF MustCrash, HandlerRedraws
  <2>14. \/ flatprofile' = flatprofile /\ focus # FLATPROFILE
         \/ flatprofile' = new /\ focus = FLATPROFILE
         \/ /\ Misreads(LINES')
            /\ \E f \in (0 .. nfunctions - 1) \cup Stray :
                 flatprofile' = [new EXCEPT !.focus_function = f]
    BY <1>4 DEF HandlerRedraws, HandlerLists
  <2>2. flatprofile' \in Profile /\ Indexes'
    <3>1. /\ new \in Profile
          /\ new.focus_index = flatprofile.focus_index
          /\ \/ new.focus_function = flatprofile.focus_function
             \/ new.focus_function < nfunctions
          /\ \/ new.focus_max = flatprofile.focus_max
             \/ (nfunctions > 0 => new.focus_max < nfunctions)
      BY <1>1, <1>2, RedrawnFacts
    <3> HIDE DEF new
    <3>2. CASE flatprofile' = flatprofile \/ flatprofile' = new
      BY <1>1, <1>2, <3>1, <3>2 DEF Inv, Indexes
    <3>3. ASSUME Misreads(LINES'), NEW f \in (0 .. nfunctions - 1) \cup Stray,
                 flatprofile' = [new EXCEPT !.focus_function = f]
          PROVE  flatprofile' \in Profile /\ Indexes'
      <4>1. f \in Unsigned
        <5>1. CASE f \in Stray
          BY <5>1, StrayAssumption DEF Unsigned
        <5>2. CASE f \in 0 .. nfunctions - 1
          <6>1. nfunctions \in Unsigned
            BY <1>2, Traces
          <6> QED
            BY <1>2, <5>2, <6>1, UnsignedFacts
        <5> QED
          BY <5>1, <5>2
      <4>2. /\ flatprofile' \in Profile /\ flatprofile'.focus_index = new.focus_index
            /\ flatprofile'.focus_max = new.focus_max
        BY <3>1, <3>3, <4>1 DEF Profile
      <4>3. misread'
        BY <1>1, <3>3
      <4> QED
        BY <1>1, <1>2, <3>1, <4>2, <4>3 DEF Inv, Indexes
    <3> QED
      BY <2>14, <3>2, <3>3
  <2>3. rows' \in Unsigned
    <3>1. Height(LINES') \in Unsigned /\ LINES' \in Nat
      BY <1>1, Terminals
    <3>2. rows \in Nat /\ Least(rows, Greatest(1, LINES' - 7)) \in Nat
          /\ Least(rows, Greatest(1, LINES' - 7)) <= rows
      <4>1. \A l \in Nat : Greatest(1, l - 7) \in Nat
        BY DEF Greatest
      <4>2. \A a, b \in Nat : Least(a, b) \in Nat /\ Least(a, b) <= a
        BY DEF Least
      <4>3. rows \in Nat
        BY <1>2, UnsignedFacts
      <4> QED
        BY <3>1, <4>1, <4>2, <4>3
    <3>3. Least(rows, Greatest(1, LINES' - 7)) \in Unsigned
      BY <1>2, <3>2, UnsignedFacts
    <3> QED
      BY <1>2, <2>1, <3>1, <3>3
  <2>4. screen' \in [window : 0 .. NOTHING, help : BOOLEAN]
    <3>1. focus \in 0 .. 3
      BY DEF Inv, Types
    <3>2. (IF WindowRedrawn(LINES') THEN focus ELSE NOTHING) \in 0 .. NOTHING
      BY <3>1 DEF NOTHING
    <3>3. (traceview_help_overlay_enabled /\ HelpFits(LINES')) \in BOOLEAN
      OBVIOUS
    <3> QED
      BY <2>1, <3>2, <3>3, Zenon
  <2>5. pc' \in {"get", "dispatch", "run"} /\ (pc' = "run" <=> pc = "run")
    BY <1>1, <2>1
  <2>15. array' \in {"null", "filling", "sorted"} /\ Sorting'
    BY <1>1, <2>1, <2>5 DEF Inv, Types, Sorting
  <2>6. Types'
    BY <1>1, <2>1, <2>2, <2>3, <2>4, <2>5, <2>15 DEF Inv, Types
  <2>7. Plan'
    BY <1>1, <2>1, <2>5 DEF Inv, Plan
  <2>8. Settled'
    <3> SUFFICES ASSUME ~TooSmall(LINES'), ~disturbed', focus = FLATPROFILE
                 PROVE  flatprofile'.items_shown = LINES' - 11 /\ Listed'
      BY <1>1 DEF Settled, Fresh
    <3>1. /\ new.items_shown = LINES' - 11
          /\ new.focus_index < nfunctions =>
               /\ FocusDrawn(new, nfunctions)
               /\ new.focus_function = sorted_functions(nfunctions, new.focus_index)
      BY <1>1, <1>2, RedrawnLists
    <3>2. flatprofile' = new
      BY <1>5, <1>6, <2>14
    <3> HIDE DEF new
    <3> QED
      BY <1>1, <3>1, <3>2 DEF Listed
  <2>9. Progress'
    BY <1>1, <2>5 DEF Progress, Fresh, Placed
  <2>10. Bars'
    BY <1>1, <2>1, <2>5 DEF Inv, Bars, Waiting
  <2>11. ~TooSmall(LINES') => screen' = Complete'
    <3> SUFFICES ASSUME ~TooSmall(LINES') PROVE screen' = Complete'
      OBVIOUS
    <3>1. /\ HeaderFits(LINES') /\ PlainFits(LINES') /\ HelpFits(LINES')
          /\ Placeable(Height(LINES'), LINES')
      BY <1>1, <1>2, CountedFacts
    <3>2. Redrawable(flatprofile, LINES', nfunctions)
      BY <1>1, <1>2, RedrawnLists
    <3>3. WindowRedrawn(LINES')
      BY <3>1, <3>2 DEF WindowRedrawn
    <3>4. traceview_help_overlay_enabled \in BOOLEAN
      BY DEF Inv, Types
    <3>5. (traceview_help_overlay_enabled /\ HelpFits(LINES')) = traceview_help_overlay_enabled
      BY <3>1, <3>4
    <3>6. screen' = [window |-> focus, help |-> traceview_help_overlay_enabled]
      BY <2>1, <3>3, <3>5, Zenon
    <3> QED
      BY <1>1, <3>6, Zenon DEF Complete
  <2>12. Screen'
    <3>1. screen' = Complete' =>
            screen'.window = focus'
            /\ (screen'.help => traceview_help_overlay_enabled')
      BY DEF Complete
    <3> QED
      BY <2>11, <3>1, Zenon DEF Screen
  <2>13. StopsOnlyIf'
    BY <1>2, <2>1 DEF StopsOnlyIf
  <2> QED
    BY <2>2, <2>6, <2>7, <2>8, <2>9, <2>10, <2>12, <2>13, <2>15 DEF Inv
<1> QED
  BY <1>3, <1>4 DEF Resize

(* Inv is inductive.                                                       *)
LEMMA NextInv == Inv /\ [Next]_vars => Inv'
<1> SUFFICES ASSUME Inv, [Next]_vars PROVE Inv'
  OBVIOUS
<1>1. CASE Initialise
  BY <1>1, InitialiseInv
<1>2. CASE PressKey
  BY <1>2, QuietInv DEF PressKey
<1>3. CASE GetKey
  BY <1>3, QuietInv DEF GetKey
<1>4. CASE Dispatch
  BY <1>4, DispatchInv
<1>5. CASE Statement
  BY <1>5, StatementInv
<1>6. CASE Redraw
  BY <1>6, RedrawInv
<1>7. CASE Resize
  BY <1>7, ResizeInv
<1>8. CASE Fini
  BY <1>8, QuietInv DEF Fini
<1>9. CASE UNCHANGED vars
  BY <1>9, QuietInv DEF vars
<1> QED
  BY <1>1, <1>2, <1>3, <1>4, <1>5, <1>6, <1>7, <1>8, <1>9 DEF Next

-----------------------------------------------------------------------------
(* The invariant, always.                                                  *)
THEOREM SpecInv == Spec => []Inv
BY InitInv, NextInv, PTL DEF Spec

(* No sequence of keys and resizes, in whatever order, makes traceview     *)
(* index the arrays of functions outside of them, unless a resize came     *)
(* while the functions were sorted for the first time; nor does the focus  *)
(* leave the list, unless a page was turned in a terminal without room for *)
(* a line.                                                                 *)
THEOREM SpecIndexesInArray == Spec => []IndexesInArray
<1>1. Inv => IndexesInArray
  BY DEF Inv, Indexes, IndexesInArray
<1> QED
  BY <1>1, SpecInv, PTL

(* When the list waits for a key, its focus is on the screen and ENTER     *)
(* would show the function it is on, unless the size changed inside of the *)
(* last redraw, leaves no room for a line, or the focus was lost when it   *)
(* did.                                                                    *)
THEOREM SpecFocusShown == Spec => []FocusShown
<1>1. Inv => FocusShown
  BY DEF Inv, Settled, Fresh, Listed, Waiting, FocusShown
<1> QED
  BY <1>1, SpecInv, PTL

(* When traceview waits for a key, the window, the bars and the help on    *)
(* the screen are those the variables name, wherever resizes have come in  *)
(* between.                                                                *)
THEOREM SpecScreenIsState == Spec => []ScreenIsState
<1>1. Inv => ScreenIsState
  BY DEF Inv, Screen, Bars, Waiting, Complete, ScreenIsState
<1> QED
  BY <1>1, SpecInv, PTL

(* traceview gives up by itself only if the screen was too small or its    *)
(* size changed inside of a redraw, and crashes only before there is a     *)
(* window, without any function, or once a resize has come while the       *)
(* functions were sorted for the first time.                               *)
THEOREM SpecStopsOnlyIf == Spec => []StopsOnlyIf
<1>1. Inv => StopsOnlyIf
  BY DEF Inv
<1> QED
  BY <1>1, SpecInv, PTL

-----------------------------------------------------------------------------
(* What a terminal that knows its keys sends, and ERR.                     *)
Byte == {"q", "Q", "LF", "DEL", "ESC", "ERR", "[", "~", "A", "B", "C", "D",
         "0", "1", "2", "3", "4", "5", "6", "7", "8", "9"}

(* What can be on the line while it is not garbled.                        *)
Bytes == Seq(Byte)

(* The code of ESCAPE, of which the terminal sends no more than ESC.       *)
Lone == <<"ESC", "ERR">>

(* What an entry of the table looks like.                                  *)
Regular(entry) ==
  /\ entry[1] \in Bytes /\ entry[1] # <<>>
  /\ entry[2] # "NONE"
  /\ Last(entry[1]) = "ERR" => entry = <<Lone, "ESCAPE">>

(* A code without ERR at its end.                                          *)
LEMMA RegularEntry ==
  ASSUME NEW code \in Bytes, code # <<>>, Last(code) # "ERR",
         NEW name, name # "NONE"
  PROVE  Regular(<<code, name>>)
BY DEF Regular

(* A byte more.                                                            *)
LEMMA Extended ==
  ASSUME NEW s \in Bytes, NEW b \in Byte
  PROVE  s \o <<b>> \in Bytes /\ s \o <<b>> # <<>> /\ Last(s \o <<b>>) = b
<1>1. Append(s, b) \in Bytes /\ Append(s, b) # <<>> /\ Last(Append(s, b)) = b
  <2>1. \A S : \A t \in Seq(S), c \in S :
          Append(t, c) \in Seq(S) /\ Append(t, c) # <<>> /\ Last(Append(t, c)) = c
    BY AppendProperties DEF Last
  <2> QED
    BY <2>1, Zenon DEF Bytes
<1> QED
  BY <1>1, AppendIsConcat DEF Bytes

(* The start of the long codes.                                            *)
LEMMA CSICode == CSI \in Bytes
<1>1. "ESC" \in Byte /\ "[" \in Byte
  BY DEF Byte
<1>2. \A a, b \in Byte : <<a, b>> \in Seq(Byte)
  OBVIOUS
<1> QED
  BY <1>1, <1>2, Zenon DEF CSI, Bytes

(* The codes of the arrows.                                                *)
LEMMA ArrowCode ==
  ASSUME NEW b \in Byte, b # "ERR"
  PROVE  CSI \o <<b>> \in Bytes /\ CSI \o <<b>> # <<>> /\ Last(CSI \o <<b>>) # "ERR"
<1>1. CSI \in Bytes
  BY CSICode
<1> QED
  BY <1>1, Extended

(* The codes that end with a tilde.                                        *)
LEMMA TildeCode ==
  ASSUME NEW digits \in Bytes
  PROVE  Tilde(digits) \in Bytes /\ Tilde(digits) # <<>> /\ Last(Tilde(digits)) # "ERR"
<1>1. CSI \o digits \in Bytes
  <2>1. CSI \in Bytes
    BY CSICode
  <2> QED
    BY <2>1, ConcatProperties DEF Bytes
<1>2. "~" \in Byte /\ "~" # "ERR"
  BY DEF Byte
<1> QED
  BY <1>1, <1>2, Extended DEF Tilde

(* The codes of one and of two bytes.                                      *)
LEMMA ShortCode ==
  ASSUME NEW b \in Byte, b # "ERR"
  PROVE  /\ <<b>> \in Bytes /\ <<b>> # <<>> /\ Last(<<b>>) # "ERR"
         /\ <<"ESC", b>> \in Bytes /\ <<"ESC", b>> # <<>> /\ Last(<<"ESC", b>>) # "ERR"
<1>1. \A a, c : <<c>> # <<>> /\ <<a, c>> # <<>> /\ Last(<<c>>) = c /\ Last(<<a, c>>) = c
  BY DEF Last
<1>2. \A a, c \in Byte : <<c>> \in Seq(Byte) /\ <<a, c>> \in Seq(Byte)
  OBVIOUS
<1>3. "ESC" \in Byte
  BY DEF Byte
<1> QED
  BY <1>1, <1>2, <1>3 DEF Bytes

(* Every entry of the table of traceview_keys_init.                        *)
LEMMA TableIsRegular == \A entry \in KeyTable : Regular(entry)
<1>1. \A name : \A b \in Byte : b # "ERR" /\ name # "NONE" =>
        /\ Regular(<<<<b>>, name>>) /\ Regular(<<<<"ESC", b>>, name>>)
        /\ Regular(<<CSI \o <<b>>, name>>)
  BY RegularEntry, ShortCode, ArrowCode
<1>2. \A name : \A d, e \in Byte : name # "NONE" =>
        /\ Regular(<<Tilde(<<d>>), name>>) /\ Regular(<<Tilde(<<d, e>>), name>>)
  <2> SUFFICES ASSUME NEW d \in Byte, NEW e \in Byte, NEW name, name # "NONE"
               PROVE  /\ Regular(<<Tilde(<<d>>), name>>) /\ Regular(<<Tilde(<<d, e>>), name>>)
    OBVIOUS
  <2>1. <<d>> \in Bytes /\ <<d, e>> \in Bytes
    BY DEF Bytes
  <2> QED
    BY <2>1, RegularEntry, TildeCode
<1>3. Regular(<<<<"ESC", "ERR">>, "ESCAPE">>)
  <2>1. <<"ESC", "ERR">> \in Bytes /\ <<"ESC", "ERR">> # <<>>
    <3>1. "ESC" \in Byte /\ "ERR" \in Byte
      BY DEF Byte
    <3>2. \A a, b \in Byte : <<a, b>> \in Seq(Byte) /\ <<a, b>> # <<>>
      OBVIOUS
    <3> QED
      BY <3>1, <3>2, Zenon DEF Bytes
  <2> QED
    BY <2>1 DEF Regular, Lone
<1>4. /\ "q" \in Byte /\ "Q" \in Byte /\ "LF" \in Byte /\ "DEL" \in Byte
      /\ "A" \in Byte /\ "B" \in Byte /\ "C" \in Byte /\ "D" \in Byte
      /\ "0" \in Byte /\ "1" \in Byte /\ "2" \in Byte /\ "3" \in Byte /\ "4" \in Byte
      /\ "5" \in Byte /\ "6" \in Byte /\ "7" \in Byte /\ "8" \in Byte /\ "9" \in Byte
  BY DEF Byte
<1>5. /\ Regular(<<<<"q">>, "QUIT">>)
      /\ Regular(<<<<"Q">>, "QUIT">>)
      /\ Regular(<<<<"LF">>, "ENTER">>)
      /\ Regular(<<<<"DEL">>, "BACKSPACE">>)
      /\ Regular(<<<<"ESC", "1">>, "ALT_1">>)
      /\ Regular(<<<<"ESC", "2">>, "ALT_2">>)
      /\ Regular(<<<<"ESC", "3">>, "ALT_3">>)
      /\ Regular(<<<<"ESC", "4">>, "ALT_4">>)
      /\ Regular(<<CSI \o <<"A">>, "ARROW_UP">>)
      /\ Regular(<<CSI \o <<"B">>, "ARROW_DOWN">>)
      /\ Regular(<<CSI \o <<"C">>, "ARROW_RIGHT">>)
      /\ Regular(<<CSI \o <<"D">>, "ARROW_LEFT">>)
  BY <1>1, <1>4, Zenon
<1>6. /\ Regular(<<Tilde(<<"5">>), "PAGE_UP">>)
      /\ Regular(<<Tilde(<<"6">>), "PAGE_DOWN">>)
      /\ Regular(<<Tilde(<<"1", "1">>), "F1">>)
      /\ Regular(<<Tilde(<<"1", "2">>), "F2">>)
      /\ Regular(<<Tilde(<<"1", "3">>), "F3">>)
      /\ Regular(<<Tilde(<<"1", "4">>), "F4">>)
      /\ Regular(<<Tilde(<<"1", "5">>), "F5">>)
      /\ Regular(<<Tilde(<<"1", "7">>), "F6">>)
      /\ Regular(<<Tilde(<<"1", "8">>), "F7">>)
      /\ Regular(<<Tilde(<<"1", "9">>), "F8">>)
      /\ Regular(<<Tilde(<<"2", "0">>), "F9">>)
      /\ Regular(<<Tilde(<<"2", "1">>), "F10">>)
      /\ Regular(<<Tilde(<<"2", "3">>), "F11">>)
      /\ Regular(<<Tilde(<<"2", "4">>), "F12">>)
  BY <1>2, <1>4, Zenon
<1> QED
  BY <1>3, <1>5, <1>6, Zenon DEF KeyTable

(* Two elements, one after the other.                                      *)
LEMMA PairAsConcat ==
  ASSUME NEW S, NEW a \in S, NEW b \in S
  PROVE  <<a, b>> = <<a>> \o <<b>>
<1> DEFINE x == <<a>>
           y == <<b>>
           z == <<a, b>>
<1>1. /\ x \in Seq(S) /\ y \in Seq(S) /\ z \in Seq(S)
      /\ Len(x) = 1 /\ Len(y) = 1 /\ Len(z) = 2
      /\ x[1] = a /\ y[1] = b /\ z[1] = a /\ z[2] = b
  OBVIOUS
<1> HIDE DEF x, y, z
<1>2. x \o y \in Seq(S) /\ Len(x \o y) = 2 /\ (x \o y)[1] = a /\ (x \o y)[2] = b
  BY <1>1, ConcatProperties
<1>3. \A i \in 1 .. 2 : z[i] = (x \o y)[i]
  BY <1>1, <1>2
<1>4. z = x \o y
  BY <1>1, <1>2, <1>3, SeqEqual
<1> QED
  BY <1>4 DEF x, y, z

(* The first part of a concatenation.                                      *)
LEMMA StartOfConcat ==
  ASSUME NEW S, NEW s \in Seq(S), NEW t \in Seq(S)
  PROVE  SubSeq(s \o t, 1, Len(s)) = s
<1>1. CASE s = <<>>
  BY <1>1, SubSeqEmpty
<1>2. CASE s # <<>>
  <2>1. 1 \in 1 .. Len(s) /\ Len(s) \in 1 .. Len(s)
    BY <1>2, EmptySeq
  <2>2. SubSeq(s \o t, 1, Len(s)) = SubSeq(s, 1, Len(s))
    BY <2>1, SubSeqOfConcat1
  <2> QED
    BY <2>2, SubSeqFull
<1> QED
  BY <1>1, <1>2

(* Codes have values, and nothing else has; only ESCAPE ends with ERR.     *)
LEMMA CodesFacts ==
  /\ \A code \in Codes : /\ code \in Bytes /\ code # <<>> /\ Value(code) # "NONE"
                         /\ code # Lone => Last(code) # "ERR"
  /\ Lone \in Codes /\ Value(Lone) = "ESCAPE"
  /\ \A node : node \notin Codes => Value(node) = "NONE"
<1>1. ASSUME NEW code \in Codes
      PROVE  /\ code \in Bytes /\ code # <<>> /\ Value(code) # "NONE"
             /\ Last(code) = "ERR" => code = Lone
             /\ code = Lone => Value(code) = "ESCAPE"
  <2>1. \E entry \in KeyTable : entry[1] = code
    BY DEF Codes
  <2>2. PICK entry \in KeyTable : entry[1] = code /\ Value(code) = entry[2]
    BY <2>1 DEF Value
  <2>3. Regular(entry)
    BY TableIsRegular
  <2>4. Last(Lone) = "ERR"
    BY DEF Last, Lone
  <2>5. <<Lone, "ESCAPE">>[1] = Lone /\ <<Lone, "ESCAPE">>[2] = "ESCAPE"
    OBVIOUS
  <2> QED
    BY <2>2, <2>3, <2>4, <2>5, Zenon DEF Regular
<1>2. Lone \in Codes
  <2>1. <<Lone, "ESCAPE">> \in KeyTable
    BY Zenon DEF KeyTable, Lone
  <2> QED
    BY <2>1 DEF Codes
<1>3. \A node : node \notin Codes => Value(node) = "NONE"
  BY DEF Value
<1> QED
  BY <1>1, <1>2, <1>3

(* The terminal sends the code itself, except for ESCAPE.                  *)
LEMMA SentFacts ==
  /\ \A code \in Codes : Sent(code) \in Bytes /\ Sent(code) # <<>>
  /\ \A code \in Codes \ {Lone} : Sent(code) = code
  /\ Sent(Lone) = <<"ESC">> /\ Lone = <<"ESC">> \o <<"ERR">>
  /\ <<"ESC">> \in Bytes /\ <<"ERR">> \in Bytes
<1>1. "ESC" \in Byte /\ "ERR" \in Byte
  BY DEF Byte
<1>2. <<"ESC">> \in Bytes /\ <<"ERR">> \in Bytes /\ <<"ESC">> # <<>>
  BY <1>1 DEF Bytes
<1>3. Sent(Lone) = <<"ESC">> /\ Lone = <<"ESC">> \o <<"ERR">>
  <2>1. Lone = <<"ESC">> \o <<"ERR">>
    BY <1>1, PairAsConcat, Zenon DEF Lone
  <2>2. Last(Lone) = "ERR" /\ Len(Lone) - 1 = Len(<<"ESC">>)
    BY DEF Last, Lone
  <2>3. SubSeq(Lone, 1, Len(<<"ESC">>)) = <<"ESC">>
    BY <1>2, <2>1, StartOfConcat, Zenon DEF Bytes
  <2>4. Front(Lone) = <<"ESC">>
    BY <2>2, <2>3 DEF Front
  <2> QED
    BY <2>1, <2>2, <2>4, Zenon DEF Sent
<1>4. \A code \in Codes \ {Lone} : Sent(code) = code
  BY CodesFacts DEF Sent
<1> QED
  BY <1>2, <1>3, <1>4, CodesFacts

-----------------------------------------------------------------------------
(* First parts, as concatenations.                                         *)
LEMMA PrefixOfConcat ==
  ASSUME NEW s \in Bytes, NEW t \in Bytes
  PROVE  IsPrefix(s, t) <=> \E u \in Bytes : t = s \o u
<1>1. ASSUME NEW u \in Bytes, t = s \o u PROVE IsPrefix(s, t)
  <2>1. Len(t) = Len(s) + Len(u) /\ \A i \in 1 .. Len(s) : t[i] = s[i]
    BY <1>1, ConcatProperties, LenProperties DEF Bytes
  <2> QED
    BY <2>1, LenProperties DEF IsPrefix, Bytes
<1>2. ASSUME IsPrefix(s, t) PROVE \E u \in Bytes : t = s \o u
  <2> DEFINE u == SubSeq(t, Len(s) + 1, Len(t))
  <2>1. Len(s) \in Nat /\ Len(t) \in Nat /\ Len(s) <= Len(t)
        /\ \A i \in 1 .. Len(t) : t[i] \in Byte
    BY <1>2, LenProperties, ElementOfSeq DEF IsPrefix, Bytes
  <2>2. u \in Bytes
    BY <2>1, SubSeqProperties DEF Bytes
  <2>3. SubSeq(t, 1, Len(s)) = s
    BY <1>2, SubSeqFull DEF IsPrefix, Bytes
  <2>4. SubSeq(t, 1, Len(s)) \o u = t
    <3>1. /\ 1 \in 1 .. Len(t) + 1 /\ Len(s) \in 1 - 1 .. Len(t)
          /\ Len(t) \in Len(s) .. Len(t) /\ t \in Seq(Byte)
      BY <2>1 DEF Bytes
    <3>2. SubSeq(t, 1, Len(s)) \o u = SubSeq(t, 1, Len(t))
      BY <3>1, ConcatAdjacentSubSeq
    <3>3. SubSeq(t, 1, Len(t)) = t
      BY <3>1, SubSeqFull
    <3> QED
      BY <3>2, <3>3
  <2> QED
    BY <2>2, <2>3, <2>4
<1> QED
  BY <1>1, <1>2

(* Of two first parts of the same bytes one is a first part of the other.  *)
LEMMA Comparable ==
  ASSUME NEW s \in Bytes, NEW t \in Bytes, NEW x \in Bytes, NEW y \in Bytes, s \o x = t \o y
  PROVE  IsPrefix(s, t) \/ IsPrefix(t, s)
<1>1. /\ \A i \in 1 .. Len(s) : (s \o x)[i] = s[i]
      /\ \A i \in 1 .. Len(t) : (t \o y)[i] = t[i]
      /\ Len(s) \in Nat /\ Len(t) \in Nat
  BY ConcatProperties, LenProperties DEF Bytes
<1>2. CASE Len(s) <= Len(t)
  BY <1>1, <1>2 DEF IsPrefix, Bytes
<1>3. CASE Len(t) <= Len(s)
  BY <1>1, <1>3 DEF IsPrefix, Bytes
<1> QED
  BY <1>1, <1>2, <1>3

(* A node is the first part of a code, and a code is no proper part of     *)
(* a node.                                                                 *)
LEMMA NodesFacts ==
  /\ \A node \in Nodes : node \in Bytes
  /\ \A code \in Codes : \A s, t \in Bytes : code = s \o t => s \in Nodes
  /\ \A node \in Nodes : \E code \in Codes : \E t \in Bytes : code = node \o t
<1>1. ASSUME NEW node \in Nodes
      PROVE  node \in Bytes /\ \E code \in Codes : \E t \in Bytes : code = node \o t
  <2>5. PICK code \in Codes : \E n \in 0 .. Len(code) : node = SubSeq(code, 1, n)
    BY DEF Nodes
  <2>1. PICK n \in 0 .. Len(code) : node = SubSeq(code, 1, n)
    BY <2>5
  <2>2. code \in Bytes /\ Len(code) \in Nat /\ \A i \in 1 .. Len(code) : code[i] \in Byte
    BY CodesFacts, LenProperties, ElementOfSeq DEF Bytes
  <2> DEFINE t == SubSeq(code, n + 1, Len(code))
  <2>3. node \in Bytes /\ t \in Bytes
    BY <2>1, <2>2, SubSeqProperties DEF Bytes
  <2>4. node \o t = code
    <3>1. /\ 1 \in 1 .. Len(code) + 1 /\ n \in 1 - 1 .. Len(code)
          /\ Len(code) \in n .. Len(code) /\ code \in Seq(Byte)
      BY <2>1, <2>2 DEF Bytes
    <3>2. SubSeq(code, 1, n) \o SubSeq(code, n + 1, Len(code)) = SubSeq(code, 1, Len(code))
      BY <3>1, ConcatAdjacentSubSeq
    <3>3. SubSeq(code, 1, Len(code)) = code
      BY <3>1, SubSeqFull
    <3> QED
      BY <2>1, <3>2, <3>3
  <2> QED
    BY <2>3, <2>4
<1>2. ASSUME NEW code \in Codes, NEW s \in Bytes, NEW t \in Bytes, code = s \o t
      PROVE  s \in Nodes
  <2>1. code \in Bytes
    BY CodesFacts
  <2>2. IsPrefix(s, code)
    BY <1>2, <2>1, PrefixOfConcat
  <2>3. SubSeq(code, 1, Len(s)) = s /\ Len(s) \in 0 .. Len(code)
    BY <2>2, <2>1, SubSeqFull, LenProperties DEF IsPrefix, Bytes
  <2>4. s \in {SubSeq(code, 1, n) : n \in 0 .. Len(code)}
    BY <2>3
  <2> QED
    BY <2>4 DEF Nodes
<1> QED
  BY <1>1, <1>2

-----------------------------------------------------------------------------
(* Concatenation is associative, with a name for the equation.             *)
Regroups(s, t, u) == (s \o t) \o u = s \o (t \o u)

(* Every three sequences of bytes regroup.                                 *)
LEMMA Regrouped ==
  ASSUME NEW s \in Bytes, NEW t \in Bytes, NEW u \in Bytes
  PROVE  Regroups(s, t, u)
BY ConcatAssociative DEF Bytes, Regroups

(* The rest behind equal first parts.                                      *)
LEMMA Cancelled ==
  ASSUME NEW s \in Bytes, NEW t \in Bytes, NEW u \in Bytes, s \o t = s \o u
  PROVE  t = u
BY ConcatSimplifications, Zenon DEF Bytes

(* Only nothing and nothing make nothing.                                  *)
LEMMA Joined ==
  ASSUME NEW s \in Bytes, NEW t \in Bytes
  PROVE  s \o t \in Bytes /\ (s \o t = <<>> => s = <<>> /\ t = <<>>)
<1>1. s \o t \in Bytes
  BY ConcatProperties DEF Bytes
<1>2. s \o t = <<>> => s = <<>> /\ t = <<>>
  <2>1. Len(s) \in Nat /\ Len(t) \in Nat /\ Len(s \o t) = Len(s) + Len(t)
        /\ (Len(s) = 0 => s = <<>>) /\ (Len(t) = 0 => t = <<>>)
    BY ConcatProperties, LenProperties, EmptySeq DEF Bytes
  <2>2. Len(<<>>) = 0
    OBVIOUS
  <2> QED
    BY <2>1, <2>2
<1> QED
  BY <1>1, <1>2

(* Nothing added is nothing changed.                                       *)
LEMMA Units ==
  ASSUME NEW s \in Bytes
  PROVE  <<>> \o s = s /\ s \o <<>> = s /\ <<>> \in Bytes
BY ConcatEmptySeq, EmptySeq DEF Bytes

-----------------------------------------------------------------------------
(* The keys that traceview knows.                                          *)
Names == {Value(code) : code \in Codes}

(* Bytes that are what the terminal sends for some keys: after the first i *)
(* of the keys, rest[i] is left.  A lone ESC can only be the last of them. *)
Reading(codes, rest, keys, bytes) ==
  /\ codes \in Seq(Codes) /\ rest \in [0 .. Len(codes) -> Bytes]
  /\ keys \in Seq(Names) /\ Len(keys) = Len(codes)
  /\ \A i \in 1 .. Len(codes) :
       /\ keys[i] = Value(codes[i])
       /\ rest[i - 1] = Sent(codes[i]) \o rest[i]
       /\ i < Len(codes) => codes[i] # Lone
  /\ rest[0] = bytes /\ rest[Len(codes)] = <<>>

(* The bytes are those of the keys, in order.                              *)
Readable(keys, bytes) == \E codes, rest : Reading(codes, rest, keys, bytes)

(* No key sends nothing.                                                   *)
LEMMA NothingReadable == Readable(<<>>, <<>>)
<1> DEFINE rest == [i \in 0 .. 0 |-> <<>>]
<1>1. <<>> \in Bytes /\ <<>> \in Seq(Codes) /\ <<>> \in Seq(Names) /\ Len(<<>>) = 0
  BY EmptySeq DEF Bytes
<1>2. rest \in [0 .. Len(<<>>) -> Bytes] /\ rest[0] = <<>>
  BY <1>1
<1>3. Reading(<<>>, rest, <<>>, <<>>)
  BY <1>1, <1>2 DEF Reading
<1> QED
  BY <1>3 DEF Readable

(* A key more.                                                             *)
LEMMA PressReadable ==
  ASSUME NEW keys, NEW bytes, Readable(keys, bytes),
         NEW code \in Codes, ~(keys # <<>> /\ Last(keys) = "ESCAPE")
  PROVE  /\ Readable(Append(keys, Value(code)), bytes \o Sent(code))
         /\ keys \in Seq(Names) /\ bytes \in Bytes
<1>1. PICK codes, rest : Reading(codes, rest, keys, bytes)
  BY DEF Readable
<1>10. PICK sent : sent = Sent(code)
  OBVIOUS
<1> DEFINE n == Len(codes)
           codes1 == Append(codes, code)
           rest1 == [i \in 0 .. n + 1 |-> IF i = n + 1 THEN <<>> ELSE rest[i] \o sent]
           keys1 == Append(keys, Value(code))
<1>2. /\ codes \in Seq(Codes) /\ rest \in [0 .. n -> Bytes] /\ keys \in Seq(Names) /\ Len(keys) = n
      /\ \A i \in 1 .. n : /\ keys[i] = Value(codes[i])
                           /\ rest[i - 1] = Sent(codes[i]) \o rest[i]
                           /\ i < n => codes[i] # Lone
      /\ rest[0] = bytes /\ rest[n] = <<>> /\ n \in Nat
  BY <1>1, LenProperties DEF Reading
<1>3. /\ sent \in Bytes /\ sent # <<>> /\ Value(code) \in Names /\ <<>> \in Bytes
      /\ \A i \in 1 .. n : codes[i] \in Codes /\ Sent(codes[i]) \in Bytes
      /\ \A i \in 0 .. n : rest[i] \in Bytes
  <2>1. sent \in Bytes /\ sent # <<>> /\ <<>> \in Bytes
    BY <1>10, SentFacts, EmptySeq DEF Bytes
  <2>2. \A i \in 1 .. n : codes[i] \in Codes
    BY <1>2, ElementOfSeq
  <2> QED
    BY <1>2, <2>1, <2>2, SentFacts DEF Names
<1>4. \A i \in 1 .. n : codes[i] # Lone
  <2> SUFFICES ASSUME n > 0, codes[n] = Lone PROVE FALSE
    BY <1>2
  <2>1. keys[n] = Value(Lone)
    BY <1>2
  <2>2. keys # <<>> /\ Last(keys) = "ESCAPE"
    BY <1>2, <2>1, CodesFacts, EmptySeq DEF Last
  <2> QED
    BY <2>2
<1>5. /\ codes1 \in Seq(Codes) /\ Len(codes1) = n + 1 /\ codes1[n + 1] = code
      /\ \A i \in 1 .. n : codes1[i] = codes[i]
      /\ keys1 \in Seq(Names) /\ Len(keys1) = n + 1 /\ keys1[n + 1] = Value(code)
      /\ \A i \in 1 .. n : keys1[i] = keys[i]
  BY <1>2, <1>3, AppendProperties
<1>6. /\ rest1 \in [0 .. n + 1 -> Bytes] /\ rest1[n + 1] = <<>>
      /\ \A i \in 0 .. n : rest1[i] = rest[i] \o sent
  <2>1. ASSUME NEW i \in 0 .. n PROVE rest[i] \o sent \in Bytes
    <3>1. rest[i] \in Bytes /\ sent \in Bytes
      BY <1>3
    <3> QED
      BY <3>1, Joined
  <2> QED
    BY <1>2, <1>3, <2>1
<1>7. /\ rest1[n] = sent /\ rest1[0] = bytes \o sent /\ sent = sent \o <<>>
      /\ \A i \in 1 .. n : rest1[i - 1] = Sent(codes[i]) \o rest1[i]
  <2> HIDE DEF rest1
  <2>1. rest1[n] = <<>> \o sent /\ rest1[0] = bytes \o sent
    <3>1. n \in 0 .. n /\ 0 \in 0 .. n
      BY <1>2
    <3> QED
      BY <1>2, <1>6, <3>1
  <2>2. <<>> \o sent = sent /\ sent = sent \o <<>>
    BY <1>3, Units
  <2>3. ASSUME NEW i \in 1 .. n PROVE rest1[i - 1] = Sent(codes[i]) \o rest1[i]
    <3>1. i - 1 \in 0 .. n /\ i \in 0 .. n
      BY <1>2
    <3>2. rest1[i - 1] = (Sent(codes[i]) \o rest[i]) \o sent /\ rest1[i] = rest[i] \o sent
      BY <1>2, <1>6, <3>1
    <3>3. Regroups(Sent(codes[i]), rest[i], sent)
      <4>1. Sent(codes[i]) \in Bytes /\ rest[i] \in Bytes /\ sent \in Bytes
        BY <1>3, <3>1
      <4> QED
        BY ONLY <4>1, Regrouped
    <3> QED
      BY <3>2, <3>3, Zenon DEF Regroups
  <2> QED
    BY <2>1, <2>2, <2>3
<1> HIDE DEF codes1, keys1, rest1
<1>8. ASSUME NEW i \in 1 .. n + 1
      PROVE  /\ keys1[i] = Value(codes1[i])
             /\ rest1[i - 1] = Sent(codes1[i]) \o rest1[i]
             /\ i < n + 1 => codes1[i] # Lone
  <2>1. CASE i = n + 1
    <3>1. i - 1 = n
      BY <1>2, <2>1
    <3>2. /\ codes1[i] = code /\ keys1[i] = Value(code)
          /\ rest1[i - 1] = sent /\ rest1[i] = <<>>
      BY <1>5, <1>6, <1>7, <2>1, <3>1
    <3>3. ~(i < n + 1)
      BY <1>2, <2>1
    <3> QED
      BY <1>7, <1>10, <3>2, <3>3, Zenon
  <2>2. CASE i # n + 1
    <3>1. i \in 1 .. n
      BY <1>2, <2>2
    <3> QED
      BY <1>2, <1>4, <1>5, <1>7, <3>1
  <2> QED
    BY <2>1, <2>2
<1>9. Reading(codes1, rest1, keys1, bytes \o sent)
  BY <1>2, <1>5, <1>6, <1>7, <1>8 DEF Reading
<1> QED
  BY <1>2, <1>3, <1>9, <1>10 DEF Readable, keys1

(* A key less.                                                             *)
LEMMA FirstOfReadable ==
  ASSUME NEW keys, NEW bytes, Readable(keys, bytes)
  PROVE  /\ bytes \in Bytes /\ keys \in Seq(Names)
         /\ \/ keys = <<>> /\ bytes = <<>>
            \/ /\ keys # <<>> /\ bytes # <<>>
               /\ \E code \in Codes, more \in Bytes :
                    /\ Head(keys) = Value(code) /\ bytes = Sent(code) \o more
                    /\ code = Lone => more = <<>>
                    /\ Readable(Tail(keys), more)
<1>1. PICK codes, rest : Reading(codes, rest, keys, bytes)
  BY DEF Readable
<1> DEFINE n == Len(codes)
<1>2. /\ codes \in Seq(Codes) /\ rest \in [0 .. n -> Bytes] /\ keys \in Seq(Names) /\ Len(keys) = n
      /\ \A i \in 1 .. n : /\ keys[i] = Value(codes[i])
                           /\ rest[i - 1] = Sent(codes[i]) \o rest[i]
                           /\ i < n => codes[i] # Lone
      /\ rest[0] = bytes /\ rest[n] = <<>> /\ n \in Nat /\ bytes \in Bytes
  BY <1>1, LenProperties DEF Reading
<1>3. CASE n = 0
  <2>1. keys = <<>>
    BY <1>2, <1>3, EmptySeq
  <2> QED
    BY <1>2, <1>3, <2>1
<1>4. CASE n > 0
  <2> DEFINE code == codes[1]
             more == rest[1]
             codes1 == Tail(codes)
             keys1 == Tail(keys)
             rest1 == [i \in 0 .. n - 1 |-> rest[i + 1]]
  <2>1. 1 \in 1 .. n /\ 1 \in 0 .. n /\ 1 - 1 = 0
    BY <1>2, <1>4
  <2>2. code \in Codes /\ more \in Bytes
    BY <1>2, <2>1, ElementOfSeq
  <2>3. keys # <<>> /\ codes # <<>> /\ Head(keys) = Value(code)
    <3>1. keys # <<>> /\ codes # <<>>
      BY <1>2, <1>4, EmptySeq
    <3> QED
      BY <1>2, <2>1, <3>1
  <2>4. bytes = Sent(code) \o more /\ bytes # <<>>
    <3>1. bytes = Sent(code) \o more
      BY <1>2, <2>1
    <3>2. Sent(code) \in Bytes /\ Sent(code) # <<>>
      BY <2>2, SentFacts
    <3> QED
      BY <2>2, <3>1, <3>2, ConcatEqualIffEmpty DEF Bytes
  <2>5. code = Lone => more = <<>>
    <3>1. 1 < n => codes[1] # Lone
      BY <1>2, <2>1
    <3>2. n = 1 => more = <<>>
      BY <1>2
    <3> QED
      BY <1>2, <1>4, <3>1, <3>2
  <2>6. /\ codes1 \in Seq(Codes) /\ Len(codes1) = n - 1
        /\ \A i \in 1 .. n - 1 : codes1[i] = codes[i + 1]
        /\ keys1 \in Seq(Names) /\ Len(keys1) = n - 1
        /\ \A i \in 1 .. n - 1 : keys1[i] = keys[i + 1]
    BY <1>2, <2>3, HeadTailProperties
  <2>7. /\ rest1 \in [0 .. n - 1 -> Bytes] /\ \A i \in 0 .. n - 1 : rest1[i] = rest[i + 1]
        /\ rest1[0] = more /\ rest1[n - 1] = <<>>
    BY <1>2, <1>4
  <2> HIDE DEF codes1, keys1, rest1, code, more
  <2>8. ASSUME NEW i \in 1 .. n - 1
        PROVE  /\ keys1[i] = Value(codes1[i])
               /\ rest1[i - 1] = Sent(codes1[i]) \o rest1[i]
               /\ i < n - 1 => codes1[i] # Lone
    <3>1. i + 1 \in 1 .. n /\ i - 1 \in 0 .. n - 1 /\ i \in 0 .. n - 1
          /\ (i + 1) - 1 = i /\ (i - 1) + 1 = i
      BY <1>2
    <3>2. /\ keys[i + 1] = Value(codes[i + 1])
          /\ rest[(i + 1) - 1] = Sent(codes[i + 1]) \o rest[i + 1]
          /\ i + 1 < n => codes[i + 1] # Lone
      BY <1>2, <3>1
    <3>3. /\ keys1[i] = keys[i + 1] /\ codes1[i] = codes[i + 1]
          /\ rest1[i] = rest[i + 1] /\ rest1[i - 1] = rest[i]
      BY <2>6, <2>7, <3>1
    <3>4. i < n - 1 => i + 1 < n
      BY <1>2
    <3> QED
      BY <3>1, <3>2, <3>3, <3>4
  <2>9. Reading(codes1, rest1, keys1, more)
    BY <2>6, <2>7, <2>8 DEF Reading
  <2>10. Readable(Tail(keys), more)
    BY <2>9, Zenon DEF Readable, keys1
  <2>11. \E c \in Codes, r \in Bytes :
           /\ Head(keys) = Value(c) /\ bytes = Sent(c) \o r
           /\ c = Lone => r = <<>>
           /\ Readable(Tail(keys), r)
    BY ONLY <2>2, <2>3, <2>4, <2>5, <2>10, Zenon
  <2> QED
    BY <1>2, <2>3, <2>4, <2>11, Zenon
<1>5. n = 0 \/ n > 0
  BY <1>2
<1> QED
  BY ONLY <1>3, <1>4, <1>5, Zenon

-----------------------------------------------------------------------------
(* The byte that wgetch takes from the line, and the rest.                 *)
LEMMA HeadAndTail ==
  ASSUME NEW l \in Bytes, l # <<>>
  PROVE  /\ Head(l) \in Byte /\ <<Head(l)>> \in Bytes /\ Tail(l) \in Bytes
         /\ l = <<Head(l)>> \o Tail(l)
<1>1. Head(l) \in Byte /\ Tail(l) \in Bytes /\ Len(l) >= 1 /\ Len(l) \in Nat
  BY HeadTailProperties, EmptySeq DEF Bytes
<1>2. <<Head(l)>> \in Bytes
  BY <1>1 DEF Bytes
<1>3. SubSeq(l, 1, Len(l)) = <<l[1]>> \o SubSeq(l, 2, Len(l))
  <2>1. 1 \in 1 .. Len(l) /\ Len(l) \in 1 .. Len(l) /\ l \in Seq(Byte) /\ 1 + 1 = 2
    BY <1>1 DEF Bytes
  <2> QED
    BY <2>1, SubSeqRecursiveFirst
<1>4. SubSeq(l, 1, Len(l)) = l /\ Tail(l) = SubSeq(l, 2, Len(l)) /\ Head(l) = l[1]
  BY SubSeqFull, TailIsSubSeq DEF Bytes
<1> QED
  BY <1>1, <1>2, <1>3, <1>4

(* A step down in the tree, as a concatenation.                            *)
LEMMA AppendByte ==
  ASSUME NEW s \in Bytes, NEW b \in Byte
  PROVE  Append(s, b) = s \o <<b>> /\ <<b>> \in Bytes /\ <<b>> # <<>> /\ Append(s, b) \in Bytes
<1>1. <<b>> \in Bytes /\ <<b>> # <<>>
  BY DEF Bytes
<1>2. Append(s, b) = s \o <<b>>
  BY AppendIsConcat DEF Bytes
<1> QED
  BY <1>1, <1>2, Joined

(* No code starts with another.                                            *)
LEMMA CodeInCode ==
  ASSUME NEW c \in Codes, NEW d \in Codes, NEW u \in Bytes, d = c \o u
  PROVE  c = d /\ u = <<>>
<1>1. c \in Bytes /\ d \in Bytes
  BY CodesFacts
<1>2. IsPrefix(c, d)
  BY <1>1, PrefixOfConcat
<1>3. c = d
  BY <1>2, KeyTableAssumption
<1> QED
  BY <1>1, <1>3, Joined

(* A node that is not a code yet, on the way through some code's bytes.    *)
LEMMA NodeOnTheWay ==
  ASSUME NEW c \in Nodes \ Codes, NEW code \in Codes, NEW x \in Bytes, NEW y \in Bytes,
         c \o x = code \o y
  PROVE  \E v \in Bytes : v # <<>> /\ code = c \o v /\ x = v \o y
<1>1. c \in Bytes /\ code \in Bytes
  BY NodesFacts, CodesFacts
<1>2. IsPrefix(c, code) \/ IsPrefix(code, c)
  BY <1>1, Comparable
<1>3. CASE IsPrefix(c, code)
  <2>1. PICK v \in Bytes : code = c \o v
    BY <1>1, <1>3, PrefixOfConcat
  <2>2. v # <<>>
    <3>1. c \o <<>> = c
      BY <1>1, Units
    <3> QED
      BY <2>1, <3>1, Zenon
  <2>3. c \o x = c \o (v \o y) /\ v \o y \in Bytes
    <3>1. c \in Bytes /\ v \in Bytes /\ y \in Bytes
      BY <1>1
    <3>2. Regroups(c, v, y)
      BY ONLY <3>1, Regrouped
    <3>3. v \o y \in Bytes
      BY ONLY <3>1, Joined, Zenon
    <3> QED
      BY <2>1, <3>2, <3>3, Zenon DEF Regroups
  <2>4. x = v \o y
    BY <1>1, <2>3, Cancelled, Zenon
  <2> QED
    BY <2>1, <2>2, <2>4
<1>4. CASE IsPrefix(code, c)
  <2>1. PICK u \in Bytes : c = code \o u
    BY <1>1, <1>4, PrefixOfConcat
  <2>2. PICK d \in Codes : \E t \in Bytes : d = c \o t
    BY NodesFacts
  <2>3. PICK t \in Bytes : d = c \o t
    BY <2>2
  <2>4. d = code \o (u \o t) /\ u \o t \in Bytes
    <3>1. code \in Bytes /\ u \in Bytes /\ t \in Bytes
      BY <1>1
    <3>2. Regroups(code, u, t)
      BY ONLY <3>1, Regrouped
    <3>3. u \o t \in Bytes
      BY ONLY <3>1, Joined, Zenon
    <3> QED
      BY <2>1, <2>3, <3>2, <3>3, Zenon DEF Regroups
  <2>5. code = d /\ u \o t = <<>>
    <3>1. \A w \in Bytes : d = code \o w => code = d /\ w = <<>>
      BY CodeInCode
    <3> QED
      BY <2>4, <3>1, Zenon
  <2>6. u = <<>>
    BY <2>5, Joined
  <2>7. c = code
    BY <1>1, <2>1, <2>6, Units
  <2> QED
    BY <2>7
<1> QED
  BY <1>2, <1>3, <1>4

(* The next byte of what was pressed leads on in the tree, and to no other *)
(* key than the one that was.                                              *)
LEMMA NextByte ==
  ASSUME NEW c \in Nodes \ Codes, NEW l \in Bytes, l # <<>>, NEW keys, Readable(keys, c \o l)
  PROVE  LET node == Append(c, Head(l))
         IN  /\ node \in Nodes /\ Tail(l) \in Bytes /\ node \o Tail(l) = c \o l
             /\ node \in Codes => /\ keys # <<>> /\ Head(keys) = Value(node)
                                  /\ Readable(Tail(keys), Tail(l))
<1> DEFINE h == <<Head(l)>>
           t == Tail(l)
           node == Append(c, Head(l))
<1>1. /\ c \in Bytes /\ h \in Bytes /\ t \in Bytes /\ l = h \o t /\ node = c \o h /\ node \in Bytes
      /\ h # <<>>
  BY NodesFacts, HeadAndTail, AppendByte
<1> HIDE DEF h, t, node
<1>2. node \o t = c \o l
  <2>1. c \in Bytes /\ h \in Bytes /\ t \in Bytes
    BY <1>1
  <2>2. Regroups(c, h, t)
    BY ONLY <2>1, Regrouped
  <2> QED
    BY <1>1, <2>2, Zenon DEF Regroups
<1>3. c \o l # <<>>
  BY <1>1, Joined
<1>4. keys # <<>> /\ \E code \in Codes, more \in Bytes :
                       /\ Head(keys) = Value(code) /\ c \o l = Sent(code) \o more
                       /\ code = Lone => more = <<>>
                       /\ Readable(Tail(keys), more)
  BY <1>3, FirstOfReadable
<1>5. PICK code \in Codes, more \in Bytes :
        /\ Head(keys) = Value(code) /\ c \o l = Sent(code) \o more
        /\ code = Lone => more = <<>>
        /\ Readable(Tail(keys), more)
  BY <1>4
<1>6. CASE code # Lone
  <2>1. c \o l = code \o more /\ code \in Bytes
    BY <1>5, <1>6, SentFacts, CodesFacts
  <2>2. PICK v \in Bytes : v # <<>> /\ code = c \o v /\ l = v \o more
    <3>1. \A x \in Bytes, y \in Bytes : c \o x = code \o y =>
            \E v \in Bytes : v # <<>> /\ code = c \o v /\ x = v \o y
      BY NodeOnTheWay
    <3> QED
      BY <2>1, <3>1, Zenon
  <2>3. Head(v) = Head(l)
    <3>1. \A i \in 1 .. Len(v) + Len(more) :
            (v \o more)[i] = IF i <= Len(v) THEN v[i] ELSE more[i - Len(v)]
      BY ConcatProperties DEF Bytes
    <3>2. Len(v) \in Nat \ {0} /\ Len(more) \in Nat
      BY <2>2, EmptySeq, LenProperties DEF Bytes
    <3>3. 1 \in 1 .. Len(v) + Len(more) /\ 1 <= Len(v)
      BY <3>2
    <3>4. l[1] = v[1]
      BY <2>2, <3>1, <3>3
    <3> QED
      BY <3>4
  <2>4. PICK w \in Bytes : v = h \o w
    BY <2>2, <2>3, HeadAndTail DEF h
  <2>5. code = node \o w
    <3>1. Regroups(c, h, w)
      <4>1. c \in Bytes /\ h \in Bytes /\ w \in Bytes
        BY <1>1, <2>4
      <4> QED
        BY ONLY <4>1, Regrouped
    <3> QED
      BY <1>1, <2>2, <2>4, <3>1, Zenon DEF Regroups
  <2>6. node \in Nodes
    BY <1>1, <2>4, <2>5, NodesFacts
  <2>7. ASSUME node \in Codes PROVE node = code /\ t = more
    <3>1. node = code
      BY <2>4, <2>5, <2>7, CodeInCode
    <3>2. node \o t = node \o more
      BY <1>2, <2>1, <3>1
    <3> QED
      BY <1>1, <3>1, <3>2, Cancelled, Zenon
  <2> QED
    BY <1>1, <1>2, <1>4, <1>5, <2>6, <2>7 DEF node, t
<1>7. CASE code = Lone
  <2>1. c \o l = <<"ESC">>
    BY <1>5, <1>7, SentFacts, Units
  <2>2. Lone = node \o (t \o <<"ERR">>) /\ t \o <<"ERR">> \in Bytes
    <3>1. Lone = (node \o t) \o <<"ERR">> /\ <<"ERR">> \in Bytes
      BY <1>2, <2>1, SentFacts, Zenon
    <3>2. Regroups(node, t, <<"ERR">>)
      <4>1. node \in Bytes /\ t \in Bytes /\ <<"ERR">> \in Bytes
        BY <1>1, <3>1
      <4> QED
        BY ONLY <4>1, Regrouped
    <3>3. t \o <<"ERR">> \in Bytes
      BY <1>1, <3>1, Joined, Zenon
    <3> QED
      BY <3>1, <3>2, <3>3, Zenon DEF Regroups
  <2>3. node \in Nodes
    BY <1>1, <2>2, CodesFacts, NodesFacts
  <2>4. node \notin Codes
    <3>1. <<"ERR">> # <<>>
      OBVIOUS
    <3>2. t \o <<"ERR">> # <<>>
      BY <1>1, <3>1, SentFacts, Joined
    <3>3. Lone \in Codes
      BY CodesFacts
    <3> QED
      BY <2>2, <3>2, <3>3, CodeInCode, Zenon
  <2> QED
    BY <1>1, <1>2, <2>3, <2>4 DEF node, t
<1> QED
  BY <1>6, <1>7

(* If nothing follows, it was an ESC.                                      *)
LEMMA NoByte ==
  ASSUME NEW c \in Nodes \ Codes, c # <<>>, NEW keys, Readable(keys, c)
  PROVE  /\ Append(c, "ERR") = Lone /\ keys # <<>> /\ Head(keys) = "ESCAPE"
         /\ Readable(Tail(keys), <<>>)
<1>1. c \in Bytes
  BY NodesFacts
<1>2. keys # <<>> /\ \E code \in Codes, more \in Bytes :
                       /\ Head(keys) = Value(code) /\ c = Sent(code) \o more
                       /\ code = Lone => more = <<>>
                       /\ Readable(Tail(keys), more)
  BY FirstOfReadable
<1>3. PICK code \in Codes, more \in Bytes :
        /\ Head(keys) = Value(code) /\ c = Sent(code) \o more
        /\ code = Lone => more = <<>>
        /\ Readable(Tail(keys), more)
  BY <1>2
<1>4. code = Lone
  <2> SUFFICES ASSUME code # Lone PROVE FALSE
    OBVIOUS
  <2>1. c \o <<>> = code \o more /\ <<>> \in Bytes
    BY <1>1, <1>3, SentFacts, Units
  <2>2. PICK v \in Bytes : v # <<>> /\ <<>> = v \o more
    BY <2>1, NodeOnTheWay
  <2> QED
    BY <2>2, Joined
<1>5. c = <<"ESC">> /\ more = <<>>
  BY <1>3, <1>4, SentFacts, Units
<1>6. Append(c, "ERR") = Lone
  <2>1. "ERR" \in Byte
    BY DEF Byte
  <2>2. Append(c, "ERR") = c \o <<"ERR">>
    BY <1>1, <2>1, AppendByte
  <2> QED
    BY <1>5, <2>2, SentFacts
<1> QED
  BY <1>2, <1>3, <1>4, <1>5, <1>6, CodesFacts

-----------------------------------------------------------------------------
(* What a key press, or a byte read, leaves.                               *)
KeyState ==
  /\ current \in Nodes \ Codes /\ garbled \in BOOLEAN
  /\ garbled => pressed = <<>>
  /\ ~garbled => line \in Bytes /\ Readable(pressed, current \o line)

(* The inductive invariant of the keys: what is on the line, behind the    *)
(* node that has been reached, are the keys that were pressed.             *)
Keys ==
  /\ KeyState
  /\ pc = "dispatch" => meant \in {key, "ANYTHING"}

(* The root has no value: every key takes a byte.                          *)
LEMMA RootIsNode == Root \in Nodes \ Codes /\ Root = <<>>
<1>1. Root = <<>> /\ <<>> \in Bytes
  BY EmptySeq DEF Root, Bytes
<1>2. Lone \in Codes /\ Lone \in Bytes
  BY CodesFacts
<1>3. Lone = <<>> \o Lone
  BY <1>2, Units
<1>4. <<>> \in Nodes
  BY <1>1, <1>2, <1>3, NodesFacts
<1>5. <<>> \notin Codes
  BY CodesFacts
<1> QED
  BY <1>1, <1>4, <1>5

(* One turn of the loop of traceview_keys_get, if the byte or the ERR it   *)
(* got leads where the keys on the line say.                               *)
LEMMA FollowKeys ==
  ASSUME KeyState, NEW byte, NEW rest, NEW torn \in BOOLEAN, Follow(byte, rest, torn),
         ~garbled /\ ~torn =>
           LET node == Append(current, byte)
           IN  /\ rest \in Bytes /\ node \in Nodes
               /\ node \in Codes => /\ pressed # <<>> /\ Head(pressed) = Value(node)
                                    /\ Readable(Tail(pressed), rest)
               /\ node \notin Codes => Readable(pressed, node \o rest)
  PROVE  KeyState' /\ (Returned => meant' \in {key', "ANYTHING"})
<1> DEFINE node == Append(current, byte)
           lost == garbled \/ torn
<1>1. /\ line' = rest /\ garbled \in BOOLEAN /\ lost \in BOOLEAN
      /\ current \in Bytes /\ node # <<>> /\ Root = <<>>
  <2>1. current \in Bytes
    BY NodesFacts DEF KeyState
  <2>2. node # <<>>
    <3>1. \A S : \A s \in Seq(S), b \in S : Append(s, b) # <<>>
      BY AppendProperties
    <3>2. current \in Seq(Byte \cup {byte})
      BY <2>1 DEF Bytes
    <3> QED
      BY <3>1, <3>2
  <2> QED
    BY <2>1, <2>2, RootIsNode DEF KeyState, Follow
<1>2. \/ \E k : /\ Return(k, rest, torn)
                /\ \/ k = "NONE" /\ node \notin Nodes
                   \/ k = Value(node) /\ node \in Codes
      \/ /\ node \in Nodes \ Codes /\ current' = node
         /\ garbled' = lost
         /\ pressed' = IF garbled' THEN <<>> ELSE pressed
  <2>1. \A m : m \in get_match(current, byte) <=> m \in Nodes /\ m = node
    BY DEF get_match
  <2>2. Value(node) # "NONE" <=> node \in Codes
    BY CodesFacts
  <2> HIDE DEF node
  <2>3. CASE get_match(current, byte) = {} /\ Return("NONE", rest, torn)
    BY <2>1, <2>3
  <2>4. CASE \E m \in get_match(current, byte) :
               Value(m) # "NONE" /\ Return(Value(m), rest, torn)
    BY <2>1, <2>2, <2>4
  <2>5. CASE \E m \in get_match(current, byte) :
               /\ Value(m) = "NONE" /\ current' = m /\ garbled' = (garbled \/ torn)
               /\ pressed' = IF garbled' THEN <<>> ELSE pressed
    BY <2>1, <2>2, <2>5
  <2> QED
    BY <2>3, <2>4, <2>5, Zenon DEF Follow
<1> HIDE DEF node
<1>3. ~lost => /\ rest \in Bytes /\ node \in Nodes
               /\ node \in Codes => /\ pressed # <<>> /\ Head(pressed) = Value(node)
                                    /\ Readable(Tail(pressed), rest)
               /\ node \notin Codes => Readable(pressed, node \o rest)
  BY DEF node
<1>4. ASSUME NEW k, Return(k, rest, torn),
             \/ k = "NONE" /\ node \notin Nodes
             \/ k = Value(node) /\ node \in Codes
      PROVE  KeyState' /\ meant' \in {key', "ANYTHING"}
  <2>1. /\ key' = k /\ current' = <<>> /\ current' \in Nodes \ Codes
        /\ garbled' = (lost /\ rest # <<>>)
        /\ meant' = IF lost \/ pressed = <<>> THEN "ANYTHING" ELSE Head(pressed)
        /\ pressed' = IF lost \/ pressed = <<>> THEN <<>> ELSE Tail(pressed)
    BY <1>1, <1>4, RootIsNode DEF Return
  <2>2. CASE lost
    <3>1. meant' = "ANYTHING" /\ pressed' = <<>> /\ garbled' = (rest # <<>>)
      BY <2>1, <2>2
    <3>2. rest = <<>> => rest \in Bytes /\ Readable(<<>>, <<>> \o rest)
      <4>1. <<>> \in Bytes
        BY EmptySeq DEF Bytes
      <4>2. <<>> \o <<>> = <<>>
        BY <4>1, Units
      <4> QED
        BY <4>1, <4>2, NothingReadable, Zenon
    <3> QED
      BY <1>1, <2>1, <3>1, <3>2, Zenon DEF KeyState
  <2>3. CASE ~lost
    <3>1. /\ rest \in Bytes /\ k = Value(node) /\ pressed # <<>> /\ Head(pressed) = k
          /\ Readable(Tail(pressed), rest)
      BY <1>3, <1>4, <2>3
    <3>2. meant' = key' /\ pressed' = Tail(pressed) /\ garbled' = FALSE
      BY <2>1, <2>3, <3>1
    <3>3. <<>> \o rest = rest
      BY <3>1, Units
    <3> QED
      BY <1>1, <2>1, <3>1, <3>2, <3>3, Zenon DEF KeyState
  <2> QED
    BY <2>2, <2>3
<1>5. ASSUME node \in Nodes \ Codes, current' = node, garbled' = lost,
             pressed' = IF garbled' THEN <<>> ELSE pressed
      PROVE  KeyState' /\ ~Returned
  <2>1. ~Returned
    BY <1>1, <1>5 DEF Returned
  <2>2. ~lost => line' \in Bytes /\ Readable(pressed', current' \o line')
    <3> SUFFICES ASSUME ~lost PROVE line' \in Bytes /\ Readable(pressed', current' \o line')
      OBVIOUS
    <3>1. pressed' = pressed /\ rest \in Bytes /\ Readable(pressed, node \o rest)
      BY <1>3, <1>5
    <3> QED
      BY <1>1, <1>5, <3>1, Zenon
  <2>3. garbled' \in BOOLEAN /\ (garbled' => pressed' = <<>>)
    BY <1>1, <1>5
  <2> QED
    BY <1>5, <2>1, <2>2, <2>3, Zenon DEF KeyState
<1> QED
  BY <1>2, <1>4, <1>5

(* With a byte, and without one.                                           *)
LEMMA GetKeys ==
  ASSUME KeyState, Get
  PROVE  KeyState' /\ (Returned => meant' \in {key', "ANYTHING"})
<1>1. current \in Nodes \ Codes /\ current \in Bytes
  BY NodesFacts DEF KeyState
<1>2. CASE ReadByte
  <2>1. line # <<>> /\ Follow(Head(line), Tail(line), FALSE)
    BY <1>2 DEF ReadByte
  <2>2. ASSUME ~garbled
        PROVE  LET node == Append(current, Head(line))
               IN  /\ Tail(line) \in Bytes /\ node \in Nodes
                   /\ node \in Codes => /\ pressed # <<>> /\ Head(pressed) = Value(node)
                                        /\ Readable(Tail(pressed), Tail(line))
                   /\ node \notin Codes => Readable(pressed, node \o Tail(line))
    <3>1. line \in Bytes /\ Readable(pressed, current \o line)
      BY <2>2 DEF KeyState
    <3> QED
      BY <1>1, <2>1, <3>1, NextByte
  <2> QED
    BY <2>1, <2>2, FollowKeys
<1>3. CASE ReadNothing
  <2> DEFINE torn == line # <<>>
  <2>1. current # <<>> /\ Follow("ERR", line, torn) /\ torn \in BOOLEAN
    BY <1>3, RootIsNode DEF ReadNothing
  <2>2. ASSUME ~garbled, ~torn
        PROVE  LET node == Append(current, "ERR")
               IN  /\ line \in Bytes /\ node \in Nodes
                   /\ node \in Codes => /\ pressed # <<>> /\ Head(pressed) = Value(node)
                                        /\ Readable(Tail(pressed), line)
                   /\ node \notin Codes => Readable(pressed, node \o line)
    <3>1. line = <<>> /\ line \in Bytes /\ Readable(pressed, current \o line)
      BY <2>2 DEF KeyState
    <3>2. current \o <<>> = current
      BY <1>1, Units
    <3>3. Readable(pressed, current)
      BY <3>1, <3>2, Zenon
    <3>4. /\ Append(current, "ERR") = Lone /\ pressed # <<>> /\ Head(pressed) = "ESCAPE"
          /\ Readable(Tail(pressed), <<>>)
      BY <1>1, <2>1, <3>3, NoByte
    <3>5. Lone \in Codes /\ Value(Lone) = "ESCAPE" /\ Lone \in Nodes
      <4>1. Lone \in Codes /\ Value(Lone) = "ESCAPE" /\ Lone \in Bytes
        BY CodesFacts
      <4>2. Lone = Lone \o <<>> /\ <<>> \in Bytes
        BY <4>1, Units
      <4> QED
        BY <4>1, <4>2, NodesFacts
    <3> QED
      BY <3>1, <3>4, <3>5
  <2> HIDE DEF torn
  <2> QED
    BY <2>1, <2>2, FollowKeys
<1> QED
  BY <1>2, <1>3 DEF Get

(* A key pressed behind the others.                                        *)
LEMMA PressKeys ==
  ASSUME KeyState, NEW code, Press(code)
  PROVE  KeyState'
<1>1. /\ line' = line \o Sent(code) /\ current' = current
      /\ garbled' = \/ garbled
                    \/ code \notin Codes
                    \/ pressed # <<>> /\ Last(pressed) = "ESCAPE"
      /\ pressed' = IF garbled' THEN <<>> ELSE Append(pressed, Value(code))
  BY DEF Press
<1>2. current \in Nodes \ Codes /\ current \in Bytes /\ garbled \in BOOLEAN
  BY NodesFacts DEF KeyState
<1>3. ASSUME ~garbled'
      PROVE  line' \in Bytes /\ Readable(pressed', current \o line')
  <2>1. /\ ~garbled /\ code \in Codes /\ ~(pressed # <<>> /\ Last(pressed) = "ESCAPE")
        /\ pressed' = Append(pressed, Value(code))
    BY <1>1, <1>3
  <2>2. line \in Bytes /\ Readable(pressed, current \o line) /\ Sent(code) \in Bytes
    BY <2>1, SentFacts DEF KeyState
  <2>3. Readable(pressed', (current \o line) \o Sent(code))
    BY <2>1, <2>2, PressReadable
  <2>4. Regroups(current, line, Sent(code))
    BY <1>2, <2>2, Regrouped
  <2>5. line \o Sent(code) \in Bytes
    BY <2>2, Joined, Zenon
  <2> QED
    BY <1>1, <2>3, <2>4, <2>5, Zenon DEF Regroups
<1>4. garbled' \in BOOLEAN /\ (garbled' => pressed' = <<>>)
  BY <1>1, <1>2
<1> QED
  BY <1>1, <1>2, <1>3, <1>4, Zenon DEF KeyState

(* The line is empty.                                                      *)
LEMMA InitKeys == Init => Keys
<1> SUFFICES ASSUME Init PROVE Keys
  OBVIOUS
<1>1. line = <<>> /\ current = Root /\ pressed = <<>> /\ garbled = FALSE /\ pc = "init"
  BY DEF Init, KeysInit
<1>2. <<>> \in Bytes /\ <<>> \o <<>> = <<>>
  <2>1. <<>> \in Bytes
    BY EmptySeq DEF Bytes
  <2> QED
    BY <2>1, Units
<1>3. current \in Nodes \ Codes /\ current = <<>>
  BY <1>1, RootIsNode
<1>4. line \in Bytes /\ Readable(pressed, current \o line)
  BY <1>1, <1>2, <1>3, NothingReadable, Zenon
<1> QED
  BY <1>1, <1>3, <1>4 DEF Keys, KeyState

(* What leaves the line alone and does not go to dispatch.                 *)
LEMMA QuietKeys ==
  ASSUME Keys, UNCHANGED <<line, current, pressed, garbled>>,
         \/ pc' # "dispatch"
         \/ pc' = pc /\ UNCHANGED <<key, meant>>
         \/ meant' = key'
  PROVE  Keys'
BY DEF Keys, KeyState

(* Keys is inductive.                                                      *)
LEMMA NextKeys == Keys /\ [Next]_vars => Keys'
<1> SUFFICES ASSUME Keys, [Next]_vars PROVE Keys'
  OBVIOUS
<1>1. CASE Initialise
  BY <1>1, QuietKeys DEF Initialise, keyVars
<1>2. CASE PressKey
  <2>1. PICK code : Press(code)
    BY <1>2 DEF PressKey
  <2>2. KeyState' /\ pc' = "get"
    BY <1>2, <2>1, PressKeys DEF Keys, PressKey
  <2> QED
    BY <2>2 DEF Keys
<1>3. CASE GetKey
  <2>1. /\ KeyState' /\ (Returned => meant' \in {key', "ANYTHING"})
    BY <1>3, GetKeys DEF Keys, GetKey
  <2>2. pc' = "dispatch" => Returned
    BY <1>3 DEF GetKey
  <2> QED
    BY <2>1, <2>2 DEF Keys
<1>4. CASE Dispatch
  <2>1. pc' # "dispatch"
    BY <1>4 DEF Dispatch, ToggleHelp, SwitchWindow, Back, WindowKey, IgnoredKey, FlatprofileKey,
         CallgraphKey, MoveFocus, MoveFunction, Navigate, Do
  <2> QED
    BY <1>4, <2>1, QuietKeys DEF Dispatch, Taken
<1>5. CASE Statement
  <2>1. pc' # "dispatch"
    BY <1>5 DEF Statement, Footer, Title, Help, NoHelp, ShowTarget, Finished, Failed
  <2> QED
    BY <1>5, <2>1, QuietKeys DEF Statement, keyVars
<1>6. CASE Redraw
  <2>1. pc = "run" /\ pc' # "dispatch"
    BY <1>6 DEF Redraw, Redrawing, RedrawPlain, Header, Measure, Scroll, Place, Sort, Lines,
                Finished, Failed, GoTo, Crash
  <2> QED
    BY <1>6, <2>1, QuietKeys DEF Redraw, keyVars
<1>7. CASE Resize
  <2>1. \/ UNCHANGED keyVars /\ pc' \in {pc, "exited"}
        \/ WaitInterrupted
    BY <1>7 DEF Resize, Crash
  <2>2. CASE UNCHANGED keyVars /\ pc' \in {pc, "exited"}
    BY <2>2, QuietKeys DEF keyVars
  <2>3. CASE WaitInterrupted
    BY <2>3, QuietKeys DEF WaitInterrupted
  <2> QED
    BY <2>1, <2>2, <2>3
<1>8. CASE Fini
  BY <1>8, QuietKeys DEF Fini, keyVars
<1>9. CASE UNCHANGED vars
  BY <1>9, QuietKeys DEF vars, keyVars
<1> QED
  BY <1>1, <1>2, <1>3, <1>4, <1>5, <1>6, <1>7, <1>8, <1>9 DEF Next

-----------------------------------------------------------------------------
(* The invariant of the keys, always.                                      *)
THEOREM SpecKeys == Spec => []Keys
BY InitKeys, NextKeys, PTL DEF Spec

(* Every key pressed is dispatched once, in order and as itself, unless    *)
(* its bytes came torn apart, behind a lone ESC or behind an unknown code; *)
(* and when the line has been read to its end and traceview waits, no key  *)
(* is still owed.                                                          *)
THEOREM SpecKeysAsPressed == Spec => []KeysAsPressed
<1>1. Keys => KeysAsPressed
  <2> SUFFICES ASSUME Keys PROVE KeysAsPressed
    OBVIOUS
  <2>1. ASSUME current = Root, line = <<>> PROVE pressed = <<>>
    <3>1. CASE garbled
      BY <3>1 DEF Keys, KeyState
    <3>2. CASE ~garbled
      <4>1. Readable(pressed, current \o line) /\ current = <<>> /\ <<>> \in Bytes
        BY <2>1, <3>2, RootIsNode, EmptySeq DEF Keys, KeyState, Bytes
      <4>2. <<>> \o <<>> = <<>>
        BY <4>1, Units
      <4>3. Readable(pressed, <<>>)
        BY <2>1, <4>1, <4>2, Zenon
      <4> QED
        BY <4>3, FirstOfReadable
    <3> QED
      BY <3>1, <3>2
  <2> QED
    BY <2>1 DEF Keys, KeysAsPressed
<1> QED
  BY <1>1, SpecKeys, PTL

(* Every unsigned variable stays in its range, a key leaves only known     *)
(* statements to do, and the reader of keys is at a node of its tree.      *)
THEOREM SpecTypeOK == Spec => []TypeOK
<1>1. Inv /\ Keys => TypeOK
  <2> SUFFICES ASSUME Inv, Keys PROVE TypeOK
    OBVIOUS
  <2> DEFINE S == {"footer", "title", "redraw", "redraw anyway", "help", "help if enabled",
                   "navigate"}
  <2>1. todo \in Seq(S)
    <3>1. /\ "footer" \in S /\ "title" \in S /\ "redraw" \in S /\ "redraw anyway" \in S
          /\ "help" \in S /\ "help if enabled" \in S /\ "navigate" \in S
      OBVIOUS
    <3> HIDE DEF S
    <3>2. \A a \in S : <<a>> \in Seq(S)
      OBVIOUS
    <3>3. \A a, b \in S : <<a, b>> \in Seq(S)
      OBVIOUS
    <3>4. \A a, b, c \in S : <<a, b, c>> \in Seq(S)
      OBVIOUS
    <3>5. \A a, b, c, d \in S : <<a, b, c, d>> \in Seq(S)
      OBVIOUS
    <3>6. \A a, b, c, d, e \in S : <<a, b, c, d, e>> \in Seq(S)
      OBVIOUS
    <3>7. \A a, b, c, d, e, f \in S : <<a, b, c, d, e, f>> \in Seq(S)
      OBVIOUS
    <3>8. /\ <<"redraw">> \in Seq(S) /\ <<"help">> \in Seq(S)
          /\ <<"help if enabled">> \in Seq(S)
      BY <3>1, <3>2, Zenon
    <3>9. <<"redraw anyway", "help if enabled">> \in Seq(S) /\ <<"navigate", "redraw">> \in Seq(S)
      BY <3>1, <3>3, Zenon
    <3>10. /\ <<"title", "redraw anyway", "help if enabled">> \in Seq(S)
           /\ <<"help if enabled", "navigate", "redraw">> \in Seq(S)
      BY <3>1, <3>4, Zenon
    <3>11. /\ <<"footer", "title", "redraw anyway", "help if enabled">> \in Seq(S)
           /\ <<"redraw anyway", "help if enabled", "navigate", "redraw">> \in Seq(S)
      BY <3>1, <3>5, Zenon
    <3>12. <<"title", "redraw anyway", "help if enabled", "navigate", "redraw">> \in Seq(S)
      BY <3>1, <3>6, Zenon
    <3>13. <<"footer", "title", "redraw anyway", "help if enabled", "navigate", "redraw">>
             \in Seq(S)
      BY <3>1, <3>7, Zenon
    <3>14. <<>> \in Seq(S)
      BY EmptySeq
    <3>15. \A p \in Plans \cup {<<>>} : p \in Seq(S)
      BY <3>8, <3>9, <3>10, <3>11, <3>12, <3>13, <3>14, Zenon DEF Plans
    <3> QED
      BY <3>15 DEF Inv, Types
  <2>2. \A field \in DOMAIN flatprofile : flatprofile[field] \in Unsigned
    BY DEF Inv, Types, Profile
  <2>3. current \in Nodes
    BY DEF Keys, KeyState
  <2> QED
    BY <2>1, <2>2, <2>3 DEF TypeOK, Inv, Types, Plan
<1> QED
  BY <1>1, SpecInv, SpecKeys, PTL

=============================================================================
