---------------------------- MODULE TraceviewKeys ----------------------------
(***************************************************************************)
(* traceview/traceview_keys.c: the bytes a terminal sends, and the keys    *)
(* that traceview_keys_get makes of them.                                  *)
(*                                                                         *)
(* The tree of key_info is the set of all first parts of the codes in the  *)
(* table; a node of it is the bytes that lead to it.  The terminal and its *)
(* user are the environment: keys are pressed ahead of the reader, their   *)
(* bytes come late, and some keys are not in the table.                    *)
(***************************************************************************)
EXTENDS Integers, SequencesExt

CONSTANTS
  Typed,      (* the keys that are pressed, by code                        *)
  Unknown,    (* codes of keys that the table does not know                *)
  MaxAhead    (* bound: the bytes unread when a key is pressed             *)

VARIABLES
  line,       (* the bytes sent and not yet read                           *)
  current,    (* the node traceview_keys_get is at                         *)
  key,        (* the last key it returned                                  *)
  pressed,    (* history: the keys on the line                             *)
  garbled,    (* history: what is on the line cannot be read as pressed    *)
  meant       (* history: the key that key should be, or ANYTHING          *)

keyVars == <<line, current, key, pressed, garbled, meant>>

-----------------------------------------------------------------------------
(* The table of traceview_keys_init.  ERR is not a byte but the answer of  *)
(* wgetch when there is none.                                              *)
CSI == <<"ESC", "[">>

Tilde(digits) == CSI \o digits \o <<"~">>

KeyTable ==
  { <<<<"q">>, "QUIT">>, <<<<"Q">>, "QUIT">>, <<<<"LF">>, "ENTER">>, <<<<"DEL">>, "BACKSPACE">>,
    <<<<"ESC", "1">>, "ALT_1">>, <<<<"ESC", "2">>, "ALT_2">>,
    <<<<"ESC", "3">>, "ALT_3">>, <<<<"ESC", "4">>, "ALT_4">>,
    <<<<"ESC", "ERR">>, "ESCAPE">>,
    <<CSI \o <<"A">>, "ARROW_UP">>, <<CSI \o <<"B">>, "ARROW_DOWN">>,
    <<CSI \o <<"C">>, "ARROW_RIGHT">>, <<CSI \o <<"D">>, "ARROW_LEFT">>,
    <<Tilde(<<"5">>), "PAGE_UP">>, <<Tilde(<<"6">>), "PAGE_DOWN">>,
    <<Tilde(<<"1", "1">>), "F1">>, <<Tilde(<<"1", "2">>), "F2">>,
    <<Tilde(<<"1", "3">>), "F3">>, <<Tilde(<<"1", "4">>), "F4">>,
    <<Tilde(<<"1", "5">>), "F5">>, <<Tilde(<<"1", "7">>), "F6">>,
    <<Tilde(<<"1", "8">>), "F7">>, <<Tilde(<<"1", "9">>), "F8">>,
    <<Tilde(<<"2", "0">>), "F9">>, <<Tilde(<<"2", "1">>), "F10">>,
    <<Tilde(<<"2", "3">>), "F11">>, <<Tilde(<<"2", "4">>), "F12">> }

Codes == {entry[1] : entry \in KeyTable}

(* No code is the first part of another: a node has a value or children.   *)
ASSUME KeyTableAssumption == \A c, d \in Codes : IsPrefix(c, d) => c = d
ASSUME TypedAssumption == Typed \subseteq Codes
ASSUME MaxAheadAssumption == MaxAhead \in Nat

Root == <<>>
Nodes == UNION {{SubSeq(code, 1, n) : n \in 0 .. Len(code)} : code \in Codes}

Value(node) ==
  IF node \in Codes THEN (CHOOSE entry \in KeyTable : entry[1] = node)[2] ELSE "NONE"

get_match_by_depth(node, byte) ==
  {child \in Nodes : Len(child) = Len(node) + 1 /\ Last(child) = byte}

get_match(node, byte) == {child \in Nodes : child = Append(node, byte)}

-----------------------------------------------------------------------------
KeysInit ==
  /\ line = <<>>
  /\ current = Root
  /\ key = "NONE"
  /\ pressed = <<>>
  /\ garbled = FALSE
  /\ meant = "NONE"

(* What the terminal sends for a key: nothing tells the end of a lone ESC. *)
Sent(code) == IF Last(code) = "ERR" THEN Front(code) ELSE code

(* A key is pressed, perhaps before those on the line have been read.      *)
(* Behind an ESC it is taken for the rest of a code.                       *)
Press(code) ==
  /\ Len(line) <= MaxAhead
  /\ line' = line \o Sent(code)
  /\ garbled' = \/ garbled
                \/ code \notin Codes
                \/ pressed # <<>> /\ Last(pressed) = "ESCAPE"
  /\ pressed' = IF garbled' THEN <<>> ELSE Append(pressed, Value(code))
  /\ UNCHANGED <<current, key, meant>>

(* traceview_keys_get returns.  A line that has been read to its end can   *)
(* be read as pressed from then on.                                        *)
Return(k, rest, torn) ==
  /\ key' = k
  /\ current' = Root
  /\ garbled' = ((garbled \/ torn) /\ rest # <<>>)
  /\ meant' = IF garbled \/ torn \/ pressed = <<>> THEN "ANYTHING" ELSE Head(pressed)
  /\ pressed' = IF garbled \/ torn \/ pressed = <<>> THEN <<>> ELSE Tail(pressed)

(* One turn of its loop with the byte or the ERR that wgetch gave.         *)
Follow(byte, rest, torn) ==
  /\ line' = rest
  /\ LET next == get_match(current, byte)
     IN  \/ /\ next = {}
            /\ Return("NONE", rest, torn)
         \/ \E node \in next :
              /\ Value(node) # "NONE"
              /\ Return(Value(node), rest, torn)
         \/ \E node \in next :
              /\ Value(node) = "NONE"
              /\ current' = node
              /\ garbled' = (garbled \/ torn)
              /\ pressed' = IF garbled' THEN <<>> ELSE pressed
              /\ UNCHANGED <<key, meant>>

ReadByte == line # <<>> /\ Follow(Head(line), Tail(line), FALSE)

(* wgetch_immediate does not wait: a byte that is still on its way is not  *)
(* there.                                                                  *)
ReadNothing == current # Root /\ Follow("ERR", line, line # <<>>)

(* A signal ends the wait for the first byte of a key.                     *)
WaitInterrupted ==
  /\ current = Root
  /\ key' = "NONE"
  /\ meant' = "NONE"
  /\ UNCHANGED <<line, current, pressed, garbled>>

Get == ReadByte \/ ReadNothing

Returned == current' = Root

(* The key is dispatched and forgotten.                                    *)
Taken ==
  /\ key' = "NONE"
  /\ meant' = "NONE"
  /\ UNCHANGED <<line, current, pressed, garbled>>

=============================================================================
