---------------------------- MODULE MCLogRecord ----------------------------
(* Small logs for TLC. *)
EXTENDS LogRecord

CONSTANTS k1, k2, k3

\* The empty string, a word, and a timestamp: a date, a space and no time.
MCValues == {Blank, <<"a">>, <<"a", "">>}
Prop(k, v) == [key |-> k, value |-> v]

\* A parsed log with three properties, one of them without a value.
Three == {[NewLog EXCEPT !.props = <<Prop(k1, <<"a">>), Prop(k2, Blank), Prop(k3, <<"a", "">>)>>]}
=============================================================================
