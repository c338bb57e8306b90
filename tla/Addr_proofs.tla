---------------------------- MODULE Addr_proofs ----------------------------
(***************************************************************************)
(* The names that a trace is read with are right, for every executable,    *)
(* wherever it is loaded, and every order that qsort may give its symbols, *)
(* as long as no two symbols are further apart than an int can say.        *)
(*                                                                         *)
(* What is read of the executable is at most one table, made of its        *)
(* symbols in the order of qsort (Inv).  So a function of the table lies   *)
(* between two neighbours of that order, and no symbol is in between.      *)
(***************************************************************************)
EXTENDS Addr, Sums

(* What is still to be read, what has been read, and why reading crashed.  *)
Inv ==
  /\ executable \in SUBSET Symbol /\ IsFiniteSet(executable)
  /\ base \in Bases
  /\ \/ addr_symtabs = <<>> /\ header \in Entries(executable)
     \/ /\ \E entries \in Entries(executable) : header \in {Tail(entries), Tail(Tail(entries))}
        /\ \/ addr_symtabs = <<>>
           \/ \E sorted \in qsort(executable) :
                ~ReadsNull(sorted) /\ addr_symtabs = <<Symtab(sorted)>>
  /\ status = "segfault" =>
       addr_symtabs = <<>> /\ \E sorted \in qsort(executable) : ReadsNull(sorted)

-----------------------------------------------------------------------------
LEMMA TailOfTwo ==
  ASSUME NEW a, NEW b
  PROVE  Tail(<<a, b>>) = <<b>> /\ Tail(<<b>>) = <<>>
<1>1. Tail(<<a, b>>) = [i \in 1 .. 1 |-> <<a, b>>[i + 1]]
  BY DEF Tail
<1>2. Tail(<<b>>) = [i \in 1 .. 0 |-> <<b>>[i + 1]]
  BY DEF Tail
<1> QED
  BY <1>1, <1>2

(* Only the first entry of a header is the executable's.                   *)
LEMMA EntriesFacts ==
  ASSUME NEW table, NEW entries \in Entries(table)
  PROVE  /\ entries # <<>> /\ Tail(entries) # <<>> /\ Tail(Tail(entries)) = <<>>
         /\ Head(entries).symbols = table
         /\ Head(Tail(entries)).offset # 0
<1>1. PICK readable \in BOOLEAN :
        entries = <<[offset |-> 0, readable |-> readable, symbols |-> table],
                    [offset |-> 1, readable |-> TRUE, symbols |-> table]>>
  BY DEF Entries
<1>2. Tail(entries) = <<[offset |-> 1, readable |-> TRUE, symbols |-> table]>>
      /\ Tail(Tail(entries)) = <<>>
  BY <1>1, TailOfTwo
<1> QED
  BY <1>1, <1>2

LEMMA InitInv == Init => Inv
BY DEF Init, Inv, Entries

LEMMA NextInv == Inv /\ [Next]_vars => Inv'
<1> SUFFICES ASSUME Inv, [Next]_vars PROVE Inv'
  OBVIOUS
<1>1. CASE UNCHANGED vars
  BY <1>1 DEF Inv, vars
<1>2. CASE HeaderRead
  BY <1>2 DEF Inv, HeaderRead
<1>3. CASE trace_handle_header
  <2>1. /\ status = "reading" /\ header # <<>> /\ header' = Tail(header)
        /\ executable' = executable /\ base' = base
    BY <1>3 DEF trace_handle_header
  <2>2. CASE addr_symtabs = <<>> /\ header \in Entries(executable)
    <3>1. Tail(header) # <<>> /\ header' \in {Tail(header), Tail(Tail(header))}
      BY <2>1, <2>2, EntriesFacts
    <3>2. Head(header).symbols = executable
      BY <2>2, EntriesFacts
    <3>3. CASE UNCHANGED <<addr_symtabs, status>>
      BY <2>1, <2>2, <3>1, <3>3 DEF Inv
    <3>4. CASE addr_extract_symbols_from_bfd(executable)
      <4>1. PICK sorted \in qsort(executable) :
              IF ReadsNull(sorted)
              THEN status' = "segfault" /\ UNCHANGED addr_symtabs
              ELSE /\ addr_symtabs' = Append(addr_symtabs, Symtab(sorted))
                   /\ UNCHANGED status
        BY <3>4 DEF addr_extract_symbols_from_bfd
      <4>2. CASE ReadsNull(sorted)
        BY <2>1, <2>2, <3>1, <4>1, <4>2 DEF Inv
      <4>3. CASE ~ReadsNull(sorted)
        <5>1. addr_symtabs' = <<Symtab(sorted)>> /\ status' = "reading"
          BY <2>1, <2>2, <4>1, <4>3
        <5> QED
          BY <2>1, <2>2, <3>1, <4>3, <5>1 DEF Inv
      <4> QED
        BY <4>2, <4>3
    <3> QED
      BY <1>3, <3>2, <3>3, <3>4 DEF trace_handle_header
  <2>3. CASE ~(addr_symtabs = <<>> /\ header \in Entries(executable))
    <3>1. PICK entries \in Entries(executable) :
            header \in {Tail(entries), Tail(Tail(entries))}
      BY <2>3 DEF Inv
    <3>2. header = Tail(entries) /\ header' = Tail(Tail(entries)) /\ Head(header).offset # 0
      BY <2>1, <3>1, EntriesFacts
    <3>3. UNCHANGED <<addr_symtabs, status>>
      BY <1>3, <3>2 DEF trace_handle_header
    <3> QED
      BY <2>1, <2>3, <3>2, <3>3 DEF Inv
  <2> QED
    BY <2>2, <2>3
<1> QED
  BY <1>1, <1>2, <1>3 DEF Next

THEOREM SpecInv == Spec => []Inv
BY InitInv, NextInv, PTL DEF Spec

-----------------------------------------------------------------------------
(* The greatest of some numbers.                                           *)
LEMMA MaxFacts ==
  ASSUME NEW m \in Nat, NEW S \in SUBSET (0 .. m), S # {}
  PROVE  Max(S) \in S /\ \A x \in S : x <= Max(S)
<1> DEFINE T == {m - x : x \in S}
<1>1. T \in SUBSET Nat /\ T # {}
  <2>1. ASSUME NEW x \in S PROVE m - x \in Nat
    <3>1. x \in 0 .. m
      OBVIOUS
    <3> QED
      BY <3>1
  <2> QED
    BY <2>1
<1>2. Min(T) \in T /\ \A n \in T : Min(T) <= n
  <2> HIDE DEF T
  <2> QED
    BY <1>1, MinFacts
<1>3. \E p \in S : \A x \in S : x <= p
  <2>1. PICK q \in S : Min(T) = m - q
    BY <1>2
  <2>2. ASSUME NEW x \in S PROVE x <= q
    <3>1. x \in 0 .. m /\ q \in 0 .. m /\ m - q <= m - x
      BY <1>2, <2>1
    <3> QED
      BY <3>1
  <2> QED
    BY <2>1, <2>2
<1> QED
  BY <1>3 DEF Max

-----------------------------------------------------------------------------
(* The symbols of an executable in the order of qsort: each has a place,   *)
(* and their addresses ascend, since the int says the difference.          *)
Ascending(sorted, table) ==
  /\ Len(sorted) \in Nat /\ DOMAIN sorted = 1 .. Len(sorted)
  /\ \A i \in 1 .. Len(sorted) : sorted[i] \in table
  /\ \A s \in table : \E i \in 1 .. Len(sorted) : s = sorted[i]
  /\ \A i, j \in 1 .. Len(sorted) : i <= j => sorted[i].address <= sorted[j].address

LEMMA AddressFacts ==
  ASSUME NEW s \in Symbol
  PROVE  s.address \in Nat /\ s.address \in Addresses
<1>1. s.address \in Addresses
  BY DEF Symbol
<1>2. AddrSpan \in Nat
  BY SpansAssumption
<1>3. s.address \in 0 .. AddrSpan - 1
  BY <1>1, AddressesAssumption
<1> QED
  BY <1>1, <1>2, <1>3

LEMMA AsIntSmall ==
  ASSUME NEW n \in Int, n < IntSpan \div 2, -n < IntSpan \div 2
  PROVE  AsInt(n) = n
<1>1. IntSpan \in Nat \ {0} /\ IntSpan \div 2 \in Nat /\ IntSpan = 2 * (IntSpan \div 2)
  BY SpansAssumption
<1>2. CASE n >= 0
  <2>1. n % IntSpan = n
    BY <1>1, <1>2
  <2> QED
    BY <2>1 DEF AsInt
<1>3. CASE n < 0
  <2>1. n % IntSpan = n + IntSpan
    BY <1>1, <1>3
  <2> QED
    BY <1>1, <1>3, <2>1 DEF AsInt
<1> QED
  BY <1>2, <1>3

LEMMA qsortFacts ==
  ASSUME NEW table \in SUBSET Symbol, IsFiniteSet(table),
         \A s, t \in table : s.address - t.address < IntSpan \div 2,
         NEW sorted \in qsort(table)
  PROVE  Ascending(sorted, table)
<1> DEFINE n == Cardinality(table)
<1>1. n \in Nat /\ sorted \in [1 .. n -> table]
      /\ \A i, j \in 1 .. n : i # j => sorted[i] # sorted[j]
  BY FS_CardinalityType DEF qsort, SetToSeqs
<1>2. Len(sorted) = n /\ DOMAIN sorted = 1 .. n
  BY <1>1
<1>3. \A s \in table : \E i \in 1 .. n : s = sorted[i]
  <2>1. IsFiniteSet(1 .. n) /\ Cardinality(1 .. n) = n
    BY <1>1, FS_Interval
  <2>2. sorted \in Injection(1 .. n, table)
    BY <1>1 DEF Injection, IsInjective
  <2>3. sorted \in Surjection(1 .. n, table)
    BY <2>1, <2>2, FS_Injection
  <2> QED
    BY <2>3 DEF Surjection
<1>4. \A s, t \in table : addr_comp(s, t) = s.address - t.address
  <2> SUFFICES ASSUME NEW s \in table, NEW t \in table
               PROVE  addr_comp(s, t) = s.address - t.address
    OBVIOUS
  <2>1. s.address \in Nat /\ t.address \in Nat
    BY AddressFacts
  <2>2. s.address - t.address < IntSpan \div 2 /\ t.address - s.address < IntSpan \div 2
    OBVIOUS
  <2> QED
    BY <2>1, <2>2, AsIntSmall DEF addr_comp
<1>5. \A s \in table : s.address \in Nat
  BY AddressFacts
<1>6. IsOrder(table)
  BY <1>4, <1>5 DEF IsOrder
<1>7. \A i, j \in 1 .. n : i < j => addr_comp(sorted[i], sorted[j]) <= 0
  BY <1>2, <1>6 DEF qsort
<1>8. ASSUME NEW i \in 1 .. n, NEW j \in 1 .. n, i <= j
      PROVE  sorted[i].address <= sorted[j].address
  <2>1. sorted[i].address \in Nat /\ sorted[j].address \in Nat
    BY <1>1, <1>5
  <2>2. CASE i = j
    BY <2>1, <2>2
  <2>3. CASE i < j
    BY <1>1, <1>4, <1>7, <2>1, <2>3
  <2> QED
    BY <1>1, <1>8, <2>2, <2>3
<1> QED
  BY <1>1, <1>2, <1>3, <1>8 DEF Ascending

-----------------------------------------------------------------------------
(* An executable whose symbols are in order.                               *)
LEMMA NearFacts ==
  ASSUME Inv, Near, NEW sorted \in qsort(executable)
  PROVE  /\ Ascending(sorted, executable)
         /\ \A i \in 1 .. Len(sorted) :
              sorted[i].address \in Nat /\ sorted[i].address \in Addresses
<1>1. Ascending(sorted, executable)
  BY qsortFacts DEF Inv, Near
<1> QED
  BY <1>1, AddressFacts DEF Inv, Ascending

(* The last one of the order comes last in the executable.                 *)
LEMMA LastFacts ==
  ASSUME Inv, Near, NEW sorted \in qsort(executable), sorted # <<>>
  PROVE  Last(sorted) = sorted[Len(sorted)] /\ Len(sorted) \in 1 .. Len(sorted)
         /\ Last(sorted) \in Lasts
<1>1. Ascending(sorted, executable)
  BY NearFacts
<1>2. Len(sorted) # 0
  <2>1. sorted \in [1 .. Cardinality(executable) -> executable]
    BY DEF qsort, SetToSeqs
  <2> QED
    BY <1>1, <2>1 DEF Ascending
<1>3. Len(sorted) \in 1 .. Len(sorted)
  BY <1>1, <1>2 DEF Ascending
<1>4. \A t \in executable : t.address <= sorted[Len(sorted)].address
  BY <1>1, <1>3 DEF Ascending
<1> QED
  BY <1>1, <1>3, <1>4 DEF Last, Lasts, Ascending

LEMMA InvCrashes == Inv => CrashesOnFunctionLast
<1> SUFFICES ASSUME Inv, Near
             PROVE  /\ status = "segfault" => \E s \in Lasts : IsFunction(s)
                    /\ addr_symtabs # <<>> => \A s \in Lasts : \E t \in Lasts : ~IsFunction(t)
  BY DEF CrashesOnFunctionLast
<1>1. ASSUME status = "segfault" PROVE \E s \in Lasts : IsFunction(s)
  <2>1. PICK sorted \in qsort(executable) : ReadsNull(sorted)
    BY <1>1 DEF Inv
  <2> QED
    BY <2>1, LastFacts DEF ReadsNull, ReadsNext
<1>2. ASSUME addr_symtabs # <<>>, NEW s \in Lasts PROVE \E t \in Lasts : ~IsFunction(t)
  <2>1. PICK sorted \in qsort(executable) : ~ReadsNull(sorted)
    BY <1>2 DEF Inv
  <2>2. Ascending(sorted, executable) /\ s \in executable
    BY NearFacts DEF Lasts
  <2>3. sorted # <<>>
    BY <2>2 DEF Ascending
  <2> QED
    BY <2>1, <2>3, LastFacts DEF ReadsNull, ReadsNext
<1> QED
  BY <1>1, <1>2

-----------------------------------------------------------------------------
(* The functions that are kept of an order: another symbol follows each.   *)
Kept(sorted) == {i \in DOMAIN sorted : IsFunction(sorted[i]) /\ sorted[i].address # 0}

LEMMA KeptFacts ==
  ASSUME Inv, Near, NEW sorted \in qsort(executable), ~ReadsNull(sorted), NEW i \in Kept(sorted)
  PROVE  /\ i \in 1 .. Len(sorted) /\ i + 1 \in 1 .. Len(sorted)
         /\ sorted[i].address \in Nat /\ sorted[i + 1].address \in Nat
         /\ Upper(sorted[i + 1]) = sorted[i + 1].address - 1
         /\ Symtab(sorted).symbols[i].lower = sorted[i].address
         /\ Symtab(sorted).symbols[i].upper = sorted[i + 1].address - 1
         /\ Symtab(sorted).symbols[i].name = sorted[i].name
<1>1. Ascending(sorted, executable) /\ i \in 1 .. Len(sorted) /\ Len(sorted) \in Nat
      /\ IsFunction(sorted[i]) /\ sorted[i].address # 0
  BY NearFacts DEF Kept, Ascending
<1>2. i # Len(sorted)
  <2>1. sorted # <<>>
    BY <1>1
  <2> QED
    BY <1>1, <2>1, LastFacts DEF ReadsNull, ReadsNext
<1>3. i + 1 \in 1 .. Len(sorted)
  BY <1>1, <1>2
<1>4. sorted[i].address \in Nat /\ sorted[i + 1].address \in Nat
      /\ sorted[i + 1].address \in Addresses
  BY <1>1, <1>3, NearFacts
<1>5. sorted[i].address <= sorted[i + 1].address
  BY <1>1, <1>3 DEF Ascending
<1>6. sorted[i + 1].address - 1 \in 0 .. AddrSpan - 1 /\ AddrSpan \in Nat \ {0}
  <2>1. AddrSpan \in Nat \ {0}
    BY SpansAssumption
  <2>2. sorted[i + 1].address \in 0 .. AddrSpan - 1
    BY <1>4, AddressesAssumption
  <2>3. sorted[i + 1].address # 0
    BY <1>1, <1>4, <1>5
  <2> QED
    BY <2>1, <2>2, <2>3
<1>7. Upper(sorted[i + 1]) = sorted[i + 1].address - 1
  <2> DEFINE a == sorted[i + 1].address - 1
  <2>1. a % AddrSpan = a
    <3>1. a \in 0 .. AddrSpan - 1
      BY <1>6
    <3> HIDE DEF a
    <3> QED
      BY <1>6, <3>1
  <2> QED
    BY <2>1 DEF Upper
<1> QED
  BY <1>1, <1>3, <1>4, <1>7 DEF Symtab, Kept

(* The bounds of the table are those of its first and its last function.   *)
LEMMA TableFacts ==
  ASSUME Inv, Near, NEW sorted \in qsort(executable), ~ReadsNull(sorted), Kept(sorted) # {}
  PROVE  /\ DOMAIN Symtab(sorted).symbols = Kept(sorted)
         /\ \A i \in Kept(sorted) :
              /\ Symtab(sorted).lower \in Nat /\ Symtab(sorted).upper \in Int
              /\ Symtab(sorted).lower <= sorted[i].address
              /\ sorted[i + 1].address - 1 <= Symtab(sorted).upper
         /\ \E k \in Kept(sorted) : Symtab(sorted).upper = sorted[k + 1].address - 1
<1> DEFINE K == Kept(sorted)
<1>1. Ascending(sorted, executable) /\ K \in SUBSET (0 .. Len(sorted)) /\ Len(sorted) \in Nat
      /\ K \in SUBSET Nat /\ K # {}
  BY NearFacts DEF Kept, Ascending
<1>2. Min(K) \in K /\ \A i \in K : Min(K) <= i
  <2> HIDE DEF K
  <2> QED
    BY <1>1, MinFacts
<1>3. Max(K) \in K /\ \A i \in K : i <= Max(K)
  <2> HIDE DEF K
  <2> QED
    BY <1>1, MaxFacts
<1>4. /\ Symtab(sorted).lower = sorted[Min(K)].address
      /\ Symtab(sorted).upper = sorted[Max(K) + 1].address - 1
  BY <1>1, <1>2, <1>3, KeptFacts DEF Symtab, Kept
<1>5. DOMAIN Symtab(sorted).symbols = K
  BY DEF Symtab, Kept
<1>6. ASSUME NEW i \in K
      PROVE  /\ sorted[Min(K)].address \in Nat /\ sorted[Max(K) + 1].address \in Nat
             /\ sorted[Min(K)].address <= sorted[i].address
             /\ sorted[i + 1].address <= sorted[Max(K) + 1].address
             /\ sorted[i + 1].address \in Nat
  <2>1. /\ Min(K) \in 1 .. Len(sorted) /\ i \in 1 .. Len(sorted) /\ Min(K) <= i
        /\ i + 1 \in 1 .. Len(sorted) /\ Max(K) + 1 \in 1 .. Len(sorted) /\ i + 1 <= Max(K) + 1
    <3>1. i <= Max(K) /\ Min(K) <= i /\ i \in K /\ Min(K) \in K /\ Max(K) \in K
      BY <1>2, <1>3, <1>6
    <3>2. /\ Min(K) \in 1 .. Len(sorted) /\ i \in 1 .. Len(sorted)
          /\ i + 1 \in 1 .. Len(sorted) /\ Max(K) + 1 \in 1 .. Len(sorted)
          /\ Max(K) \in 1 .. Len(sorted)
      BY <3>1, KeptFacts
    <3> HIDE DEF K
    <3> QED
      BY <1>1, <3>1, <3>2
  <2> HIDE DEF K
  <2> QED
    BY <1>1, <2>1, NearFacts DEF Ascending
<1> HIDE DEF K
<1>7. \A i \in K :
        /\ Symtab(sorted).lower \in Nat /\ Symtab(sorted).upper \in Int
        /\ Symtab(sorted).lower <= sorted[i].address
        /\ sorted[i + 1].address - 1 <= Symtab(sorted).upper
  BY <1>4, <1>6
<1> QED
  BY <1>3, <1>4, <1>5, <1>7 DEF K

(* The functions of the table that an address lies in.                     *)
LEMMA FoundFacts ==
  ASSUME Inv, Near, NEW sorted \in qsort(executable), ~ReadsNull(sorted), NEW pc \in Nat
  PROVE  Found(Symtab(sorted), pc) =
           {i \in Kept(sorted) : sorted[i].address <= pc /\ pc < sorted[i + 1].address}
<1>1. CASE Kept(sorted) = {}
  BY <1>1 DEF Found, Symtab, Kept
<1>2. CASE Kept(sorted) # {}
  <2>1. DOMAIN Symtab(sorted).symbols = Kept(sorted)
    BY <1>2, TableFacts
  <2>2. ASSUME NEW i \in Kept(sorted)
        PROVE  Within(Symtab(sorted), pc) /\ Within(Symtab(sorted).symbols[i], pc)
               <=> sorted[i].address <= pc /\ pc < sorted[i + 1].address
    <3>1. /\ sorted[i].address \in Nat /\ sorted[i + 1].address \in Nat
          /\ Symtab(sorted).symbols[i].lower = sorted[i].address
          /\ Symtab(sorted).symbols[i].upper = sorted[i + 1].address - 1
      BY KeptFacts
    <3>2. /\ Symtab(sorted).lower \in Nat /\ Symtab(sorted).upper \in Int
          /\ Symtab(sorted).lower <= sorted[i].address
          /\ sorted[i + 1].address - 1 <= Symtab(sorted).upper
      BY <1>2, TableFacts
    <3> QED
      BY <3>1, <3>2 DEF Within
  <2> QED
    BY <2>1, <2>2 DEF Found
<1> QED
  BY <1>1, <1>2

(* No name, or that of the first function found.                           *)
LEMMA TranslateFacts ==
  ASSUME Inv, Near, NEW pc \in Nat
  PROVE  \/ addr_symtabs = <<>> /\ addr_translate(pc) = Unknown
         \/ \E sorted \in qsort(executable) :
              /\ ~ReadsNull(sorted) /\ addr_symtabs # <<>>
              /\ LET found == {i \in Kept(sorted) :
                                 sorted[i].address <= pc /\ pc < sorted[i + 1].address}
                 IN  \/ found = {} /\ addr_translate(pc) = Unknown
                     \/ \E i \in found : addr_translate(pc) = sorted[i].name
<1>1. CASE addr_symtabs = <<>>
  BY <1>1 DEF addr_translate, Holding
<1>2. CASE addr_symtabs # <<>>
  <2>1. PICK sorted \in qsort(executable) :
          ~ReadsNull(sorted) /\ addr_symtabs = <<Symtab(sorted)>>
    BY <1>2 DEF Inv
  <2> DEFINE F == Found(Symtab(sorted), pc)
             found == {i \in Kept(sorted) : sorted[i].address <= pc /\ pc < sorted[i + 1].address}
  <2>2. F = found
    BY <2>1, FoundFacts
  <2>3. Holding(pc) = {i \in {1} : F # {}}
    BY <2>1 DEF Holding
  <2>4. CASE F = {}
    BY <1>2, <2>1, <2>2, <2>3, <2>4 DEF addr_translate
  <2>5. CASE F # {}
    <3>1. Min(Holding(pc)) = 1
      <4>1. Holding(pc) = {1}
        BY <2>3, <2>5
      <4> QED
        BY <4>1, MinFacts
    <3>2. Min(F) \in Kept(sorted) /\ Min(F) \in found
      <4>1. F \in SUBSET Nat
        <5>1. \A i \in Kept(sorted) : i \in Nat
          BY <2>1, KeptFacts
        <5> QED
          BY <2>2, <5>1
      <4> HIDE DEF F
      <4>2. Min(F) \in F
        BY <2>5, <4>1, MinFacts
      <4> QED
        BY <2>2, <4>2
    <3>3. addr_translate(pc) = Symtab(sorted).symbols[Min(F)].name
      BY <2>1, <2>3, <2>5, <3>1 DEF addr_translate, addr_find_symbol
    <3>4. addr_translate(pc) = sorted[Min(F)].name
      BY <2>1, <3>2, <3>3, KeptFacts
    <3> QED
      BY <1>2, <2>1, <3>2, <3>4
  <2> QED
    BY <2>4, <2>5
<1> QED
  BY <1>1, <1>2

-----------------------------------------------------------------------------
(* Places are addresses, and a relocated executable lies below them all.   *)
LEMMA PlaceFacts ==
  ASSUME Inv, NEW pc \in Places
  PROVE  /\ pc \in Nat /\ base \in Nat /\ base <= pc
         /\ base # 0 => \A s \in executable : s.address < pc
<1>1. base \in Nat /\ pc \in Nat /\ base <= pc
  BY BasesAssumption, SpansAssumption DEF Inv, Places
<1>2. ASSUME base # 0, NEW s \in executable PROVE s.address < pc
  <2>1. s.address \in Nat /\ s.address \in Addresses
    BY AddressFacts DEF Inv
  <2>2. s.address < base
    BY <1>2, <2>1, BasesAssumption DEF Inv
  <2> QED
    BY <1>1, <2>1, <2>2
<1> QED
  BY <1>1, <1>2

(* A name is that of the closest function.                                 *)
LEMMA NamesOnlyEnclosing ==
  ASSUME Inv, Near, NEW pc \in Places, addr_translate(pc) # Unknown
  PROVE  \E s \in Closest(pc) : IsFunction(s) /\ s.name = addr_translate(pc)
<1>1. pc \in Nat
  BY PlaceFacts
<1>2. PICK sorted \in qsort(executable) :
        /\ ~ReadsNull(sorted)
        /\ \E i \in Kept(sorted) :
             /\ sorted[i].address <= pc /\ pc < sorted[i + 1].address
             /\ addr_translate(pc) = sorted[i].name
  BY <1>1, TranslateFacts
<1>3. PICK i \in Kept(sorted) :
        /\ sorted[i].address <= pc /\ pc < sorted[i + 1].address
        /\ addr_translate(pc) = sorted[i].name
  BY <1>2
<1>4. Ascending(sorted, executable)
  BY NearFacts
<1>5. i \in 1 .. Len(sorted) /\ i + 1 \in 1 .. Len(sorted) /\ IsFunction(sorted[i])
      /\ sorted[i] \in executable /\ sorted[i + 1] \in executable
      /\ sorted[i].address \in Nat /\ sorted[i + 1].address \in Nat
  BY <1>2, <1>4, KeptFacts DEF Kept, Ascending
<1>6. base = 0
  <2>1. ~(sorted[i + 1].address < pc)
    BY <1>1, <1>3, <1>5
  <2> QED
    BY <1>5, <2>1, PlaceFacts
<1>7. AtOrBefore(pc) = {s \in executable : s.address <= pc}
  BY <1>6, AddressFacts DEF AtOrBefore, Inv
<1>8. ASSUME NEW t \in executable, t.address <= pc PROVE t.address <= sorted[i].address
  <2>1. PICK k \in 1 .. Len(sorted) : t = sorted[k]
    BY <1>4 DEF Ascending
  <2>2. t.address \in Nat
    BY AddressFacts DEF Inv
  <2>3. ~(i + 1 <= k)
    <3>1. i + 1 <= k => sorted[i + 1].address <= t.address
      BY <1>4, <1>5, <2>1 DEF Ascending
    <3> QED
      BY <1>1, <1>3, <1>5, <1>8, <2>2, <3>1
  <2>4. k <= i
    BY <1>5, <2>1, <2>3
  <2> QED
    BY <1>4, <1>5, <2>1, <2>4 DEF Ascending
<1>9. sorted[i] \in Closest(pc)
  BY <1>3, <1>5, <1>7, <1>8 DEF Closest
<1> QED
  BY <1>3, <1>5, <1>9

(* And the closest function is found.                                      *)
LEMMA NamesEnclosing ==
  ASSUME Inv, Near, NEW pc \in Places,
         base = 0, addr_symtabs # <<>>, ~IsLast(pc), Closest(pc) # {},
         \A s \in Closest(pc) : IsFunction(s) /\ s.address # 0
  PROVE  addr_translate(pc) # Unknown
<1>1. pc \in Nat
  BY PlaceFacts
<1>2. PICK sorted \in qsort(executable) :
        /\ ~ReadsNull(sorted)
        /\ LET found == {i \in Kept(sorted) :
                           sorted[i].address <= pc /\ pc < sorted[i + 1].address}
           IN  \/ found = {} /\ addr_translate(pc) = Unknown
               \/ \E i \in found : addr_translate(pc) = sorted[i].name
  BY <1>1, TranslateFacts
<1>3. /\ Ascending(sorted, executable) /\ Len(sorted) \in Nat
      /\ \A i \in 1 .. Len(sorted) : sorted[i].address \in Nat
  BY NearFacts DEF Ascending
<1>4. AtOrBefore(pc) = {s \in executable : s.address <= pc}
      /\ \E s \in executable : s.address > pc
  <2>1. \A s \in executable : s.address \in Nat
    BY AddressFacts DEF Inv
  <2> QED
    BY <1>1, <2>1 DEF AtOrBefore, IsLast
<1> DEFINE B == {i \in 1 .. Len(sorted) : sorted[i].address <= pc}
<1>5. B # {} /\ B \in SUBSET (0 .. Len(sorted))
  BY <1>3, <1>4 DEF Closest, Ascending
<1>6. PICK j \in B : \A i \in B : i <= j
  <2> HIDE DEF B
  <2> QED
    BY <1>3, <1>5, MaxFacts
<1>7. sorted[j] \in Closest(pc)
  <2>1. ASSUME NEW t \in executable, t.address <= pc PROVE t.address <= sorted[j].address
    <3>1. PICK k \in 1 .. Len(sorted) : t = sorted[k]
      BY <1>3 DEF Ascending
    <3>2. k <= j /\ j \in 1 .. Len(sorted)
      BY <1>6, <2>1, <3>1
    <3> QED
      BY <1>3, <3>1, <3>2 DEF Ascending
  <2>2. sorted[j] \in executable /\ sorted[j].address <= pc
    BY <1>3, <1>6 DEF Ascending
  <2> QED
    BY <1>4, <2>1, <2>2 DEF Closest
<1>8. j \in Kept(sorted)
  BY <1>3, <1>6, <1>7 DEF Kept, Ascending
<1>9. j + 1 \in 1 .. Len(sorted) /\ j \in 1 .. Len(sorted)
  BY <1>2, <1>8, KeptFacts
<1>10. j + 1 \notin B
  BY <1>6, <1>9
<1>11. pc < sorted[j + 1].address /\ sorted[j].address <= pc
  BY <1>1, <1>3, <1>6, <1>9, <1>10
<1>12. PICK i \in Kept(sorted) : addr_translate(pc) = sorted[i].name
  BY <1>2, <1>8, <1>11
<1>13. sorted[i].name \in Names
  BY <1>2, <1>3, <1>12 DEF Kept, Ascending, Inv, Symbol, IsFunction
<1> QED
  BY <1>12, <1>13, NamesAssumption

LEMMA InvNames == Inv => NamesTheEnclosing
BY NamesOnlyEnclosing, NamesEnclosing DEF NamesTheEnclosing

(* The closest symbols of a place share an address, and are all of it.     *)
LEMMA ClosestFacts ==
  ASSUME Inv, NEW pc \in Places, NEW s \in Closest(pc)
  PROVE  Closest(pc) = {t \in executable : t.address = s.address}
<1>1. \A t \in executable : t.address \in Nat
  BY AddressFacts DEF Inv
<1>2. pc \in Nat /\ base \in Nat
  BY PlaceFacts
<1> QED
  BY <1>1, <1>2 DEF Closest, AtOrBefore

LEMMA InvCompares == Inv => ComparesFunctions
<1> SUFFICES ASSUME Inv, Near,
                    \A s, t \in executable : IsFunction(s) /\ s.name = t.name => s = t,
                    NEW f \in Places, NEW pc \in Places, function_compare(f, pc)
             PROVE  \/ Closest(f) = Closest(pc)
                    \/ addr_translate(f) = Unknown /\ addr_translate(pc) = Unknown
  BY DEF ComparesFunctions
<1>1. addr_translate(f) = addr_translate(pc)
  BY DEF function_compare
<1>2. CASE addr_translate(f) = Unknown
  BY <1>1, <1>2
<1>3. CASE addr_translate(f) # Unknown
  <2>1. PICK s \in Closest(f) : IsFunction(s) /\ s.name = addr_translate(f)
    BY <1>3, NamesOnlyEnclosing
  <2>2. PICK t \in Closest(pc) : IsFunction(t) /\ t.name = addr_translate(pc)
    BY <1>1, <1>3, NamesOnlyEnclosing
  <2>3. s \in executable /\ t \in executable
    BY DEF Closest, AtOrBefore
  <2>4. s = t
    BY <1>1, <2>1, <2>2, <2>3
  <2>5. Closest(f) = {u \in executable : u.address = s.address}
    BY ClosestFacts
  <2>6. Closest(pc) = {u \in executable : u.address = t.address}
    BY ClosestFacts
  <2> QED
    BY <2>4, <2>5, <2>6
<1> QED
  BY <1>2, <1>3

-----------------------------------------------------------------------------
(* An address is given only the name of the function it lies in, and that  *)
(* of one that it does lie in unless something hides it (addr_translate).  *)
THEOREM SpecNamesTheEnclosing == Spec => []NamesTheEnclosing
BY SpecInv, InvNames, PTL

(* Two places are taken to be in one function only if they are, or if      *)
(* neither has a name (function_compare).                                  *)
THEOREM SpecComparesFunctions == Spec => []ComparesFunctions
BY SpecInv, InvCompares, PTL

(* Reading the symbols crashes when a function comes last, and then only   *)
(* (addr_extract_symbols_from_bfd).                                        *)
THEOREM SpecCrashesOnFunctionLast == Spec => []CrashesOnFunctionLast
BY SpecInv, InvCrashes, PTL

=============================================================================
