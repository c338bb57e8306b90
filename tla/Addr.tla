---------------------------------- MODULE Addr ----------------------------------
(***************************************************************************)
(* graprof/addr.c: the names of functions, from the symbol tables of the   *)
(* files that the header of a trace lists, and function_compare, which     *)
(* decides by them whether a call comes from a function.                   *)
(*                                                                         *)
(* The header lists the executable with offset 0, wherever it was loaded,  *)
(* and the libraries with the addresses they were loaded at.  A symbol is  *)
(* its address, section included, and its name, which is Label for         *)
(* whatever is not a function.  The file and the line of an address are    *)
(* always "??" and 0 and are left out.                                     *)
(***************************************************************************)
EXTENDS Integers, SequencesExt

CONSTANTS
  Addresses,    (* where symbols may be; 0 is that of an undefined one     *)
  Names,        (* names of functions                                      *)
  Label,        (* the name of a symbol that is not a function             *)
  Unknown,      (* the name "??"                                           *)
  MaxSymbols,   (* bound: the number of symbols of the executable          *)
  AddrSpan,     (* the number of addresses; they wrap                      *)
  IntSpan,      (* the number of values of an int                          *)
  Bases         (* where the executable may be loaded, relative to its     *)
                (* symbols: at 0, or behind all of them                    *)

ASSUME AddressesAssumption == Addresses \subseteq 0 .. AddrSpan - 1
ASSUME NamesAssumption == Label \notin Names /\ Unknown \notin Names \cup {Label}
ASSUME SpansAssumption == {AddrSpan, IntSpan} \subseteq Nat \ {0} /\ IntSpan % 2 = 0
ASSUME BasesAssumption ==
  /\ Bases \subseteq 0 .. AddrSpan - 1
  /\ \A base \in Bases \ {0} : \A a \in Addresses : a < base

VARIABLES
  executable,   (* the symbols of the executable                           *)
  base,         (* where it was loaded                                     *)
  header,       (* the entries of the header that are still to be read     *)
  addr_symtabs,
  status        (* "reading", "done" or "segfault"                         *)

vars == <<executable, base, header, addr_symtabs, status>>

Symbol == [address : Addresses, name : Names \cup {Label}]

IsFunction(symbol) == symbol.name # Label

(* An entry whose file can not be read is one of the header, too.          *)
Entries(table) ==
  {<<[offset |-> 0, readable |-> readable, symbols |-> table],
     [offset |-> 1, readable |-> TRUE, symbols |-> table]>> : readable \in BOOLEAN}

Init ==
  /\ executable \in {table \in SUBSET Symbol : IsFiniteSet(table)}
  /\ Cardinality(executable) <= MaxSymbols
  /\ base \in Bases
  /\ header \in Entries(executable)
  /\ addr_symtabs = <<>>
  /\ status = "reading"

-----------------------------------------------------------------------------
(* The difference of two addresses, returned as an int.                    *)
AsInt(n) ==
  LET u == n % IntSpan IN IF u < IntSpan \div 2 THEN u ELSE u - IntSpan

addr_comp(s, t) == AsInt(s.address - t.address)

(* qsort promises an order if the comparison is one, and equal symbols may *)
(* come in any order; otherwise the result may be anything.                *)
IsOrder(table) ==
  /\ \A s, t \in table : addr_comp(s, t) < 0 <=> addr_comp(t, s) > 0
  /\ \A s, t, u \in table :
       addr_comp(s, t) <= 0 /\ addr_comp(t, u) <= 0 => addr_comp(s, u) <= 0

qsort(table) ==
  {seq \in SetToSeqs(table) :
     IsOrder(table) => \A i, j \in DOMAIN seq : i < j => addr_comp(seq[i], seq[j]) <= 0}

(* A function ends where the next symbol begins.  The symbol behind the    *)
(* last one is NULL.                                                       *)
UpperInclusive(symbol) == symbol.address
Upper(symbol) == (symbol.address - 1) % AddrSpan

ReadsNextAlways(symbol) == TRUE
ReadsNext(symbol) == IsFunction(symbol)

ReadsNull(sorted) == sorted # <<>> /\ ReadsNext(Last(sorted))

Symtab(sorted) ==
  LET kept == {i \in DOMAIN sorted : IsFunction(sorted[i]) /\ sorted[i].address # 0}
      symbols == [i \in kept |-> [lower |-> sorted[i].address,
                                 upper |-> Upper(sorted[i + 1]),
                                 name  |-> sorted[i].name]]
  IN  [lower   |-> IF kept = {} THEN 0 ELSE symbols[Min(kept)].lower,
       upper   |-> IF kept = {} THEN 0 ELSE symbols[Max(kept)].upper,
       symbols |-> symbols]

addr_extract_symbols_from_bfd(table) ==
  \E sorted \in qsort(table) :
    IF ReadsNull(sorted)
    THEN /\ status' = "segfault"
         /\ UNCHANGED addr_symtabs
    ELSE /\ addr_symtabs' = Append(addr_symtabs, Symtab(sorted))
         /\ UNCHANGED status

(* trace_handle_header only warns about a file that can not be read.       *)
trace_handle_header ==
  /\ status = "reading" /\ header # <<>>
  /\ header' = Tail(header)
  /\ LET entry == Head(header)
     IN  IF entry.offset = 0 /\ entry.readable
         THEN addr_extract_symbols_from_bfd(entry.symbols)
         ELSE UNCHANGED <<addr_symtabs, status>>
  /\ UNCHANGED <<executable, base>>

HeaderRead ==
  /\ status = "reading" /\ header = <<>>
  /\ status' = "done"
  /\ UNCHANGED <<executable, base, header, addr_symtabs>>

Next == trace_handle_header \/ HeaderRead

Spec == Init /\ [][Next]_vars

-----------------------------------------------------------------------------
(* The packets of the trace are read with the symbols as they are now.     *)
Within(range, pc) == range.lower <= pc /\ pc <= range.upper

Found(table, pc) ==
  {i \in DOMAIN table.symbols : Within(table, pc) /\ Within(table.symbols[i], pc)}

Holding(pc) == {i \in DOMAIN addr_symtabs : Found(addr_symtabs[i], pc) # {}}

addr_find_symbol(pc) ==
  LET table == addr_symtabs[Min(Holding(pc))]
  IN  table.symbols[Min(Found(table, pc))]

addr_translate(pc) ==
  IF Holding(pc) = {} THEN Unknown ELSE addr_find_symbol(pc).name

(* Whether an address lies in the function that was entered at another.    *)
ComparesNothing(f, pc) == TRUE
function_compare(f, pc) == addr_translate(f) = addr_translate(pc)

-----------------------------------------------------------------------------
Pcs == 0 .. AddrSpan - 1

(* Code runs nowhere below the executable.                                 *)
Places == base .. AddrSpan - 1

(* What the executable says of a place: the last symbols that are not      *)
(* behind it.                                                              *)
AtOrBefore(pc) == {s \in executable : s.address + base <= pc}

Closest(pc) ==
  {s \in AtOrBefore(pc) : \A t \in AtOrBefore(pc) : t.address <= s.address}

IsLast(pc) == \A s \in executable : s.address + base <= pc

(* No two symbols are further apart than an int can say.                   *)
Near == \A s, t \in executable : s.address - t.address < IntSpan \div 2

(* An address is given the name of a function only if it lies in that      *)
(* function of the executable, as it was loaded; and it is given one if it *)
(* does, unless a symbol within the function hides it, or the executable   *)
(* has been relocated or could not be read.                                *)
NamesTheEnclosing ==
  status = "done" /\ Near =>
    \A pc \in Places :
      /\ addr_translate(pc) # Unknown =>
           \E s \in Closest(pc) : IsFunction(s) /\ s.name = addr_translate(pc)
      /\ /\ base = 0 /\ addr_symtabs # <<>> /\ ~IsLast(pc)
         /\ Closest(pc) # {}
         /\ \A s \in Closest(pc) : IsFunction(s) /\ s.address # 0
         => addr_translate(pc) # Unknown

(* If the names of functions are distinct, a call is taken to come from a  *)
(* function only if it does, or if neither has a name.                     *)
ComparesFunctions ==
  status = "done" /\ Near
    /\ (\A s, t \in executable : IsFunction(s) /\ s.name = t.name => s = t) =>
    \A f, pc \in Places :
      function_compare(f, pc) =>
        \/ Closest(f) = Closest(pc)
        \/ addr_translate(f) = Unknown /\ addr_translate(pc) = Unknown

(* Reading the symbols crashes only on an executable in which a function   *)
(* comes last, and it always does if nothing else shares its address.      *)
Lasts == {s \in executable : \A t \in executable : t.address <= s.address}

CrashesOnFunctionLast ==
  Near =>
    /\ status = "segfault" => \E s \in Lasts : IsFunction(s)
    /\ addr_symtabs # <<>> => \A s \in Lasts : \E t \in Lasts : ~IsFunction(t)

=============================================================================
