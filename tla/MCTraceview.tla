----------------------------- MODULE MCTraceview -----------------------------
EXTENDS Traceview

(* Codes of one, two, three and four bytes, and a printable character.     *)
MCTyped ==
  { <<"q">>, <<"LF">>, <<"ESC", "ERR">>, <<"ESC", "2">>, <<"ESC", "3">>,
    CSI \o <<"A">>, CSI \o <<"B">>, CSI \o <<"C">>, CSI \o <<"D">>,
    Tilde(<<"5">>), Tilde(<<"6">>), Tilde(<<"1", "1">>) }

(* F2 as xterm sends it.                                                   *)
MCUnknown == {<<"ESC", "O", "Q">>}

(* Both functions have taken the same time, and the second name is first.  *)
MCSelfTime == [f \in 0 .. 1 |-> 4]
MCNameRank == [f \in 0 .. 1 |-> 1 - f]

=============================================================================
