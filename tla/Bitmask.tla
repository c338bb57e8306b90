-------------------------------- MODULE Bitmask --------------------------------
(***************************************************************************)
(* graprof/bitmask.c: a set of small numbers in an array of words.  A word *)
(* is the set of its bits; copying a bitmask gives an equal one.           *)
(***************************************************************************)
EXTENDS Integers

CONSTANT FIELDWIDTH   (* the bits of a word                                *)

ASSUME FieldwidthAssumption == FIELDWIDTH \in Nat \ {0}

Nfields(width) ==
  width \div FIELDWIDTH + (IF width % FIELDWIDTH # 0 THEN 1 ELSE 0)

bitmask_create(width) ==
  [width |-> width, fields |-> [k \in 0 .. Nfields(width) - 1 |-> {}]]

FieldFirst(i) == 0
Field(i) == i \div FIELDWIDTH
Bit(i) == i % FIELDWIDTH

bitmask_set(b, i) == [b EXCEPT !.fields[Field(i)] = @ \cup {Bit(i)}]

bitmask_get(b, i) == Bit(i) \in b.fields[Field(i)]

=============================================================================
