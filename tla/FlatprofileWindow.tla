--------------------------- MODULE FlatprofileWindow ---------------------------
(***************************************************************************)
(* The list of functions in traceview/traceview_window_flatprofile.c: its  *)
(* selection, its scrolling, and what a redraw makes of them, as operators *)
(* on a record of the static variables of that file.                       *)
(*                                                                         *)
(* All of them are unsigned: they wrap at Word, and the casts to int in    *)
(* the code are AsInt here.                                                *)
(***************************************************************************)
EXTENDS Integers, FiniteSets

CONSTANTS
  Word,       (* 2^32: the number of values of an unsigned int             *)
  SelfTime,   (* the self time of each function, by its index              *)
  NameRank    (* the place of its name in the order of strcmp, that of     *)
              (* equal names being the order qsort leaves them in          *)

ASSUME WordAssumption == Word \in Nat \ {0} /\ Word % 2 = 0

Signed(n) == n
U(n) == n % Word
AsInt(u) == IF u < Word \div 2 THEN u ELSE u - Word

Least(a, b) == IF a < b THEN a ELSE b
Greatest(a, b) == IF a > b THEN a ELSE b

-----------------------------------------------------------------------------
(* The index of the function that is in place i once function_sort is done *)
(* with the array.                                                         *)
cmpfunction(f, g) ==
  \/ SelfTime[f] > SelfTime[g]
  \/ SelfTime[f] = SelfTime[g] /\ NameRank[f] < NameRank[g]

sorted_functions(n, i) ==
  CHOOSE f \in 0 .. n - 1 : Cardinality({g \in 0 .. n - 1 : cmpfunction(g, f)}) = i

FlatprofileInit ==
  [focus_index |-> 0, focus_max |-> 0, focus_function |-> 0,
   scrolldown |-> 0, scrolldown_max |-> 0, items_shown |-> 0]

-----------------------------------------------------------------------------
(* redraw_listing, statement by statement: what fits on the screen,        *)
Height(lines) == U(lines - 8)

Counted(fp, height, n) ==
  LET shown == U(height - 3)
  IN  [fp EXCEPT !.items_shown = shown, !.focus_max = U(n - 1), !.scrolldown_max = U(n - shown)]

(* scrolling to a focus above the first line                               *)
FollowedUp(fp) ==
  IF fp.focus_index < fp.scrolldown THEN [fp EXCEPT !.scrolldown = fp.focus_index] ELSE fp

(* or below the last one,                                                  *)
End(fp) == U(fp.scrolldown + fp.items_shown)

PastEnd(fp) == fp.focus_index > End(fp)
BelowEnd(fp) == fp.focus_index >= End(fp)

FollowedDown(fp) == [fp EXCEPT !.scrolldown = U(fp.focus_index - fp.items_shown + 1)]

(* putting the window where it belongs, which ncurses refuses if the       *)
(* window is empty or does not fit,                                        *)
Placeable(height, lines) == AsInt(height) >= 1 /\ 7 + AsInt(height) <= lines

(* and the lines, of which the focused one remembers its function.  It     *)
(* cannot be highlighted outside of the window and its rows.               *)
FocusDrawn(fp, n) == fp.scrolldown <= fp.focus_index /\ fp.focus_index < Least(n, End(fp))

LinesDrawn(fp, n) == fp.scrolldown < Least(n, End(fp))

Drawable(fp, n, rows) == FocusDrawn(fp, n) => 3 + fp.focus_index - fp.scrolldown < rows

Drawn(fp, n) ==
  IF FocusDrawn(fp, n)
  THEN [fp EXCEPT !.focus_function = sorted_functions(n, fp.focus_index)]
  ELSE fp

(* The header above the list takes six lines.                              *)
HeaderFits(lines) == 7 <= lines

(* All of it at once, as far as it gets, and whether it gets to its end.   *)
Scrolled(fp) ==
  LET up == FollowedUp(fp) IN IF BelowEnd(up) THEN FollowedDown(up) ELSE up

Redrawable(fp, lines, n) ==
  /\ HeaderFits(lines) /\ Placeable(Height(lines), lines)
  /\ Drawable(Scrolled(Counted(fp, Height(lines), n)), n, Height(lines))

Redrawn(fp, lines, n) ==
  LET scrolled == Scrolled(Counted(fp, Height(lines), n))
  IN  IF ~HeaderFits(lines) THEN fp
      ELSE IF ~Placeable(Height(lines), lines) THEN scrolled
      ELSE Drawn(scrolled, n)

-----------------------------------------------------------------------------
(* traceview_window_flatprofile_key_dispatch, without the redraw.          *)
ArrowUp(fp) == [fp EXCEPT !.focus_index = Greatest(1, @) - 1]

ArrowDownPast(fp) == [fp EXCEPT !.focus_index = U(Least(AsInt(fp.focus_max), AsInt(@)) + 1)]

ArrowDown(fp) == [fp EXCEPT !.focus_index = U(Least(AsInt(U(fp.focus_max - 1)), AsInt(@)) + 1)]

PageUp(fp) ==
  [fp EXCEPT !.focus_index = Greatest(fp.items_shown, @) - fp.items_shown,
             !.scrolldown  = Greatest(fp.items_shown, @) - fp.items_shown]

PageDown(fp) ==
  [fp EXCEPT
     !.focus_index = U(Least(AsInt(U(fp.focus_max - fp.items_shown)), AsInt(@)) + fp.items_shown),
     !.scrolldown  = U(Least(AsInt(U(fp.scrolldown_max - fp.items_shown)), AsInt(@))
                       + fp.items_shown)]

=============================================================================
