----------------------------- MODULE LogString -----------------------------
(***************************************************************************)
(* log_string: what WriteTo of logging/logging.go writes for a parsed log, *)
(* and what the parser makes of it when another collector reads it.        *)
(***************************************************************************)
EXTENDS Parser, SequencesExt

KeyMessage == <<"char", "char", "char">>    \* the literal "msg"
Dash       == <<"char">>                    \* the literal "-"

\* One rune: a control character is written as a backslash and a letter.
Escaped(r) ==
    CASE r \in {"nl", "tab", "ctl"}    -> <<"backslash", "char">>
      [] r \in {"quote", "backslash"}  -> <<"backslash", r>>
      [] OTHER                         -> <<r>>

escape(s) == FlattenSeq([j \in DOMAIN s |-> Escaped(s[j])])

appendProp(keySep, q) == keySep \o escape(q.key) \o <<":", "sp">> \o escape(q.value)

\* The properties and then the message, under the key "msg".
All(l) == IF l.message = NoText THEN l.props
          ELSE Append(l.props, [key |-> KeyMessage, value |-> l.message])

\* Mutant: the separator of the header between two properties.
serializeTabs(l) == FlattenSeq([j \in DOMAIN All(l) |-> appendProp(<<"tab">>, All(l)[j])])

serialize(l) ==
    FlattenSeq([j \in DOMAIN All(l) |->
                  appendProp(IF j = 1 THEN <<"tab">> ELSE <<",", "sp">>, All(l)[j])])

OrDash(s) == IF s = NoText THEN Dash ELSE s

WriteTo(l) ==
    l.date \o <<"sp">> \o l.time \o <<"tab">> \o l.level \o <<"tab", "[">> \o OrDash(l.thread)
    \o <<"]", "tab">> \o OrDash(l.class) \o serialize(l)

\* The logs a parser reads from what a script writes, one log on each line.
Reparsed(l) == WholeParse(WriteTo(l) \o <<"nl">>).logs
-----------------------------------------------------------------------------
(* Properties *)

\* Logs that log_string can be trusted with: the class ends in a tab because a
\* property follows it, and no space stands before the first comma.
Writable(l) == l.props # <<>> /\ \A j \in DOMAIN l.props[1].value : l.props[1].value[j] # "sp"

\* A log that a script writes with log_string and another collector parses has the
\* same header and the same properties in the same order, the message after them as
\* the property "msg" (logging.go:237-241; README.md:51, "the same format used by the
\* parser").  Keys and values come back as they were escaped: the escapes cannot be
\* taken for a separator, and the parser does not undo them.
StringReadBack ==
    \A n \in DOMAIN logs : Writable(logs[n]) =>
        LET l == logs[n]
        IN  Reparsed(l) =
              <<[l EXCEPT !.message = NoText,
                          !.props = [j \in DOMAIN All(l) |-> [key |-> escape(All(l)[j].key),
                                                             value |-> escape(All(l)[j].value)]]]>>
=============================================================================
