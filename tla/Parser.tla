------------------------------- MODULE Parser -------------------------------
(***************************************************************************)
(* logging/parse.go: the incremental log parser, as runPipeline drives it. *)
(*                                                                         *)
(* Text is a sequence of bytes, told apart as far as the parser does.  A   *)
(* byte offset of the code is the number of bytes before it, so the slice  *)
(* raw[s:e] is SubSeq(raw, s + 1, e).  The rune "wide" takes two bytes.    *)
(* One action is one chunk handed to Parse, one round of its loop over the *)
(* runes of p.raw, or the carry-over at its end.                           *)
(***************************************************************************)
EXTENDS Integers, Sequences

\* "ctl" is one of \b, \f and \r, which only log_string tells from other characters.
Bytes == {"nl", "tab", "sp", "[", "]", ":", ",", "digit", "char", "quote", "backslash", "ctl",
          "wide", "wide2"}
Text  == Seq(Bytes)

CONSTANT Inputs     \* what a reader may deliver, with the logs it stands for

Property == [key : Text, value : Text]
Log == [date : Text, time : Text, level : Text, thread : Text, class : Text,
        message : Text, props : Seq(Property)]

ASSUME InputsAssumption == Inputs \subseteq [text : Text, logs : Seq(Log)]

States == {"date", "time", "transitionLevel", "level", "transitionThread", "thread",
           "threadBracket", "threadNoBracket", "transitionClass", "class",
           "transitionCallType", "callType", "verifyCallType", "key", "multiKey", "value"}

VARIABLES
    input,      \* member of Inputs being read
    fed,        \* number of its bytes already handed to Parse
    raw,        \* p.raw
    p,          \* the other fields of the Parser: state, start, end, current
    logs,       \* logs emitted so far
    i,          \* offset of the next rune of the loop in Parse
    parsing,    \* inside Parse
    aligned     \* history: every chunk so far ended in a newline

vars == <<input, fed, raw, p, logs, i, parsing, aligned>>

NoText == <<>>
KeyCallType == <<"char", "char", "char">>      \* the literal "callType"
EmptyLog == [date |-> NoText, time |-> NoText, level |-> NoText, thread |-> NoText,
             class |-> NoText, message |-> NoText, props |-> <<>>]
NewParser == [state |-> "date", start |-> 0, end |-> 0, current |-> EmptyLog]

Init ==
    /\ input \in Inputs
    /\ fed = 0
    /\ raw = NoText
    /\ p = NewParser
    /\ logs = <<>>
    /\ i = 0
    /\ parsing = FALSE
    /\ aligned = TRUE
-----------------------------------------------------------------------------
(* What one rune does to the parser q; s is p.raw *)

Token(q, s) == SubSeq(s, q.start + 1, q.end)

Extend(q)    == [q EXCEPT !.end = @ + 1]
SkipStart(q) == [q EXCEPT !.start = @ + 1]                  \* mutant: without end++
Skip(q)      == [q EXCEPT !.start = @ + 1, !.end = @ + 1]
Goto(q, st)  == [q EXCEPT !.state = st]
\* The rune ends the token and the next one begins after it.
Cut(q, st)   == [q EXCEPT !.state = st, !.start = q.end + 1, !.end = q.end + 1]

AddKey(q, k) == [q EXCEPT !.current.props = Append(@, [key |-> k, value |-> NoText])]
LastProp(q)  == Len(q.current.props)

consumeCurrent(q, s) ==
    IF LastProp(q) = 0 THEN q
    ELSE [q EXCEPT !.current.props[LastProp(q)].value = Token(q, s)]

\* Mutant: what remains is always a value.
consumeLogNoMessage(q, s) == consumeCurrent(q, s)

consumeLog(q, s) ==
    IF LastProp(q) = 0 \/ q.current.props[LastProp(q)].value # NoText
    THEN [q EXCEPT !.current.message = Token(q, s)]
    ELSE consumeCurrent(q, s)

handleNextKey(q, s, r) ==
    CASE r = "sp" -> IF q.start = q.end THEN Skip(q) ELSE q
      [] r = ":"  -> Cut(AddKey(q, Token(q, s)), "value")
      [] OTHER    -> Extend(q)

\* The slice taken for the key, raw[start:end-1], is out of range if this holds.
BadMultiKey(q, r) == q.state = "multiKey" /\ r = "sp" /\ q.end - 1 < q.start

handleNextMultiKey(q, s, r) ==
    IF r = "sp"
    THEN Cut([q EXCEPT !.current.props[LastProp(q)] =
                 [key |-> SubSeq(s, q.start + 1, q.end - 1), value |-> NoText]], "value")
    ELSE Extend(Goto(q, "value"))

handleNextValue(q, s, r) ==
    CASE r = "," -> Cut(consumeCurrent(q, s), "key")
      [] r = ":" -> Extend(Goto(q, "multiKey"))
      [] r = "sp" -> IF q.start = q.end THEN Skip(q) ELSE Extend(q)
      [] OTHER   -> Extend(q)

\* handleNextDate and handleNextHeader store the token in field f and go to st.
handleNextDate(q, s, r, f, st) ==
    CASE r = "["                     -> Skip(q)
      [] r \in {"digit", ":", ","}   -> Extend(q)
      [] OTHER                       -> Cut([q EXCEPT !.current[f] = Token(q, s)], st)

handleNextHeader(q, s, r, f, st) ==
    CASE r = "["                   -> Skip(q)
      [] r \in {"tab", "sp", "]"}  -> Cut([q EXCEPT !.current[f] = Token(q, s)], st)
      [] OTHER                     -> Extend(q)

handleNextThreadBracket(q, s, r) ==
    IF r \in {"]", "tab"}
    THEN Cut([q EXCEPT !.current.thread = Token(q, s)], "transitionClass")
    ELSE Extend(q)

handleNextThread(q, s, r) ==
    IF r = "[" THEN Skip(Goto(q, "threadBracket"))
    ELSE handleNextHeader(Goto(q, "threadNoBracket"), s, r, "thread", "transitionClass")

handleNextCallType(q, s, r) ==
    IF r = ":"
    THEN Cut(consumeCurrent(AddKey(q, KeyCallType), s), "verifyCallType")
    ELSE Extend(q)

\* A comma shows that what was taken for the call type is a key.
verifyCallType(q, s, r) ==
    IF r = ","
    THEN handleNextValue([q EXCEPT !.current.props[1].key = q.current.props[1].value], s, r)
    ELSE handleNextKey(q, s, r)

\* next, outside of the transition states.
InToken(q, s, r) ==
    CASE q.state = "date"            -> handleNextDate(q, s, r, "date", "time")
      [] q.state = "time"            -> handleNextDate(q, s, r, "time", "transitionLevel")
      [] q.state = "level"           -> handleNextHeader(q, s, r, "level", "transitionThread")
      [] q.state = "thread"          -> handleNextThread(q, s, r)
      [] q.state = "threadBracket"   -> handleNextThreadBracket(q, s, r)
      [] q.state = "threadNoBracket" -> handleNextHeader(q, s, r, "thread", "transitionClass")
      [] q.state = "class"           -> handleNextHeader(q, s, r, "class", "transitionCallType")
      [] q.state = "callType"        -> handleNextCallType(q, s, r)
      [] q.state = "verifyCallType"  -> verifyCallType(q, s, r)
      [] q.state = "key"             -> handleNextKey(q, s, r)
      [] q.state = "value"           -> handleNextValue(q, s, r)
      [] q.state = "multiKey"        -> handleNextMultiKey(q, s, r)

After == [transitionLevel |-> "level", transitionThread |-> "thread",
          transitionClass |-> "class", transitionCallType |-> "callType"]

\* handleTransition skips blanks; the first other rune belongs to the next state.
next(q, s, r) ==
    IF q.state \notin DOMAIN After THEN InToken(q, s, r)
    ELSE IF r \in {"tab", "sp"} THEN Skip(q)
    ELSE InToken(Goto(q, After[q.state]), s, r)
-----------------------------------------------------------------------------
(* Parse *)

\* range decodes one rune at a time; half a rune counts as one of one byte.
Width(s, k) ==
    IF s[k + 1] = "wide" /\ k + 2 <= Len(s) /\ s[k + 2] = "wide2" THEN 2 ELSE 1

\* The parser after the newline at offset k.
EndOfLine(k) == [state |-> "date", start |-> k + 1, end |-> k + 1, current |-> EmptyLog]

\* Reader.Read returned n bytes and Parse is called with them.
Feed(n) ==
    /\ ~parsing
    /\ n >= 1 /\ fed + n <= Len(input.text)
    /\ raw' = raw \o SubSeq(input.text, fed + 1, fed + n)
    /\ fed' = fed + n
    /\ i' = 0
    /\ parsing' = TRUE
    /\ aligned' = (aligned /\ input.text[fed + n] = "nl")
    /\ UNCHANGED <<input, p, logs>>

ScanNewline ==
    /\ parsing
    /\ i < Len(raw)
    /\ raw[i + 1] = "nl"
    /\ logs' = Append(logs, consumeLog(p, raw).current)
    /\ p' = EndOfLine(i)
    /\ i' = i + 1
    /\ UNCHANGED <<input, fed, raw, parsing, aligned>>

\* Go panics when handleNextMultiKey slices out of range: no step then.
ScanRune ==
    /\ parsing
    /\ i < Len(raw)
    /\ raw[i + 1] # "nl"
    /\ ~BadMultiKey(p, raw[i + 1])
    /\ p' = next(p, raw, raw[i + 1])
    /\ i' = i + Width(raw, i)
    /\ UNCHANGED <<input, fed, raw, logs, parsing, aligned>>

\* Mutants of the carry-over: with the state of a new line, and of the whole text.
Carried(rest, q) ==
    /\ parsing
    /\ i >= Len(raw)
    /\ raw' = rest
    /\ p' = [q EXCEPT !.start = 0, !.end = 0]
    /\ parsing' = FALSE
    /\ i' = 0
    /\ UNCHANGED <<input, fed, logs, aligned>>
EndParseNewLine == Carried(SubSeq(raw, p.start + 1, Len(raw)), Goto(p, "date"))
EndParseWhole   == Carried(raw, p)

\* raw keeps what follows start, to be scanned again from the state reached.
EndParse ==
    /\ parsing
    /\ i >= Len(raw)
    /\ raw' = SubSeq(raw, p.start + 1, Len(raw))
    /\ p' = [p EXCEPT !.start = 0, !.end = 0]
    /\ parsing' = FALSE
    /\ i' = 0
    /\ UNCHANGED <<input, fed, logs, aligned>>

Next ==
    \/ \E n \in 1 .. Len(input.text) : Feed(n)
    \/ ScanNewline
    \/ ScanRune
    \/ EndParse

Spec == Init /\ [][Next]_vars
-----------------------------------------------------------------------------
(* Reference: the same text in one chunk *)

\* Parser and logs b once the loop is past byte k of s too.
ScanByte(b, s, k) ==
    CASE s[k] = "nl" -> [p |-> EndOfLine(k - 1),
                         logs |-> Append(b.logs, consumeLog(b.p, s).current)]
      [] k > 1 /\ Width(s, k - 2) = 2 -> b
      [] OTHER -> [b EXCEPT !.p = next(b.p, s, s[k])]

\* Scan(s)[k]: parser and logs once the loop is past the first k bytes.
Scan(s) ==
    LET at[k \in 0 .. Len(s)] ==
        IF k = 0 THEN [p |-> NewParser, logs |-> <<>>] ELSE ScanByte(at[k - 1], s, k)
    IN  at

WholeParse(s) == Scan(s)[Len(s)]

\* What scanning rune r again, after a carry-over, treats as it did before: an
\* opening bracket or blank that is skipped comes before the token it could be in
\* (parse.go:36, :131, :147), and a colon (parse.go:107) after a value has begun.
Clean(q, r) ==
    /\ r = "[" /\ q.state \in {"date", "time", "level", "threadNoBracket", "class"} => q.start = q.end
    /\ r = "sp" /\ q.state \in {"key", "verifyCallType"} => q.start = q.end
    /\ r = ":" /\ q.state = "value" => q.start # q.end

\* Texts of one-byte runes that are all clean where they stand.
Plain(s) == \A k \in 0 .. Len(s) - 1 : Width(s, k) = 1 /\ Clean(Scan(s)[k].p, s[k + 1])
-----------------------------------------------------------------------------
(* Properties *)

\* Type invariant of the Parser struct and of the logs it emits.
TypeOK ==
    /\ input \in Inputs
    /\ fed \in 0 .. Len(input.text)
    /\ raw \in Text
    /\ p \in [state : States, start : Nat, end : Nat, current : Log]
    /\ logs \in Seq(Log)
    /\ i \in Nat
    /\ parsing \in BOOLEAN
    /\ aligned \in BOOLEAN

\* Whatever the input, multi-byte runes included, and however it is cut into
\* chunks, the token raw[start:end] the handlers slice lies within the part of
\* raw already scanned, and the property they index (parse.go:61, :199) exists.
\* The slice of a multi-key, raw[start:end-1], is another matter: see PanicNext.
SlicesInBounds ==
    /\ p.start <= p.end
    /\ p.end <= i
    /\ i <= Len(raw)
    /\ p.state \in {"verifyCallType", "key", "value", "multiKey"} => LastProp(p) > 0

\* The next rune makes handleNextMultiKey slice out of range (parse.go:61).
PanicNext == parsing /\ i < Len(raw) /\ BadMultiKey(p, raw[i + 1])

\* When every chunk ends in a newline nothing is carried over from one Parse to
\* the next, and no input makes the parser panic.
AlignedChunksAreSafe ==
    aligned => /\ ~PanicNext
               /\ ~parsing => raw = NoText /\ p.state = "date" /\ p.current = EmptyLog

\* However the reader cuts the input, no slice panics, and the logs emitted after
\* each call of Parse are those of parsing the bytes read so far at once
\* (TestParserChunks).
ChunksDoNotMatter ==
    /\ ~PanicNext
    /\ ~parsing => logs = WholeParse(SubSeq(input.text, 1, fed)).logs

\* The same, whatever the input, as long as its text is plain: a carry-over then
\* leaves the parser where it would be without it (parse.go:260-261).
PlainChunksDoNotMatter == Plain(input.text) => ChunksDoNotMatter

\* The logs are the ones the input was written from: header, call type, keys and
\* values, and message, each in its field.
ParsedAsWritten ==
    fed = Len(input.text) /\ ~parsing => logs = input.logs
=============================================================================
