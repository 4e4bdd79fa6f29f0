------------------------------ MODULE MCParser ------------------------------
(* Inputs of the parser for TLC: well-formed logs, and arbitrary ones. *)
EXTENDS LogFormat, LogString

c == <<"char">>
d == <<"digit">>
Sep == <<",", "sp">>

\* YYYY-MM-dd hh:mm:ss LEVEL [Thread] Class, as in the README, and the header of
\* log6 in parse_test.go: [date T time] [LEVEL] thread class.
Readme   == <<"digit", "sp", "digit", "tab", "char", "tab", "[", "char", "sp", "char", "]", "tab", "char", "tab">>
Brackets == <<"[", "digit", "char", "digit", "]", "sp", "[", "char", "]", "sp", "char", "sp", "char", "sp">>

\* The log of a line with the given header and body.
LogOf(thread, message, props) ==
    [date |-> d, time |-> d, level |-> c, thread |-> thread, class |-> c,
     message |-> message, props |-> props]

Values == {NoText, c, d \o <<":">> \o <<"quote">>, <<"backslash", "sp", "ctl">>}
Prop(k, v) == [key |-> k, value |-> v]
PairText(k, v) == k \o <<":", "sp">> \o v

\* Bodies: a message; a call type and a message of one word; a call type and
\* properties; properties alone (the first value is then one word at most); a
\* property given two keys, of which the last one counts.
Bodies ==
    { [text |-> m, message |-> m, props |-> <<>>] : m \in {NoText, c, c \o <<"sp">> \o c, c \o <<",">> \o d} }
    \cup { [text |-> PairText(d, c), message |-> c, props |-> <<Prop(KeyCallType, d)>>] }
    \cup { [text |-> PairText(d, PairText(c, v) \o Sep \o PairText(d, w)), message |-> NoText,
            props |-> <<Prop(KeyCallType, d), Prop(c, v), Prop(d, w)>>] : v \in Values, w \in Values }
    \cup { [text |-> PairText(c, v) \o Sep \o PairText(d, w), message |-> NoText,
            props |-> <<Prop(c, v), Prop(d, w)>>] : v \in {NoText, c}, w \in Values }
    \cup { [text |-> PairText(c, d) \o Sep \o PairText(c, PairText(d, w)), message |-> NoText,
            props |-> <<Prop(c, d), Prop(d, w)>>] : w \in Values }

LineOf(header, thread, b) ==
    [text |-> header \o b.text \o <<"nl">>, logs |-> <<LogOf(thread, b.message, b.props)>>]

Lines == { LineOf(Readme, <<"char", "sp", "char">>, b) : b \in Bodies } \cup { LineOf(Brackets, c, b) : b \in Bodies }

After2(x, y) == [text |-> x.text \o y.text, logs |-> x.logs \o y.logs]

\* Every line, and every line after one that leaves a property behind.
Prior == LineOf(Readme, <<"char", "sp", "char">>,
                [text |-> PairText(d, c), message |-> c, props |-> <<Prop(KeyCallType, d)>>])
WellFormed == Lines \cup { After2(Prior, LineOf(Brackets, c, b)) : b \in Bodies }

\* These are texts of the format, read without regard to the parser: the theorems
\* about such texts are about them too.
ASSUME WellFormedWritten == \A x \in WellFormed : Written(x)

\* Any body of at most three bytes after a header; what it stands for is left open.
AnyBody ==
    { [text |-> Readme \o b \o <<"nl">> \o e, logs |-> <<>>] :
        b \in SeqOf({"sp", "[", ":", ",", "char", "wide", "wide2"}, 3), e \in {NoText, c, <<"nl">>} }

\* Any header of at most four bytes.
AnyHeader ==
    { [text |-> b \o <<"nl">>, logs |-> <<>>] :
        b \in SeqOf({"tab", "sp", "[", "]", "digit", "char", "wide", "wide2"}, 4) }

AnyInput == AnyBody \cup AnyHeader
=============================================================================
