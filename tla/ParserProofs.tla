---------------------------- MODULE ParserProofs ----------------------------
(***************************************************************************)
(* Proofs about Parser, for every input and every way to cut it, in four   *)
(* parts: every step is safe (the core is NextMoves: one rune leaves the   *)
(* parser in a state from which the next rune can be taken, whichever      *)
(* handler it goes to); chunks do not matter to a plain text; a text in    *)
(* the format of LogFormat is parsed as what it stands for; and what       *)
(* log_string writes for such a log is in the format again.                *)
(***************************************************************************)
EXTENDS LogFormat, LogString, SequenceTheorems, WellFoundedInduction, TLAPS

ParserType == [state : States, start : Nat, end : Nat, current : Log]

\* The states whose handlers index the last property.
KeyStates == {"verifyCallType", "key", "value", "multiKey"}

\* Parser q, with a rune of s still to come after its token.
Ready(q, s) ==
    /\ q \in ParserType
    /\ q.start <= q.end
    /\ q.end < Len(s)
    /\ q.state \in KeyStates => LastProp(q) > 0

\* Parser n is q after one rune.
Moved(q, n) ==
    /\ n \in ParserType
    /\ n.start <= n.end
    /\ n.end <= q.end + 1
    /\ n.state \in KeyStates => LastProp(n) > 0
    /\ n.state = "multiKey" => n.start < n.end

\* What is known of the fields of a parser.
LEMMA Fields ==
    ASSUME NEW q \in ParserType
    PROVE  /\ q.state \in States /\ q.start \in Nat /\ q.end \in Nat
           /\ q.current \in Log /\ q.current.props \in Seq(Property)
           /\ LastProp(q) \in Nat
  BY DEF ParserType, Log, LastProp

\* The elementary moves over the text.
LEMMA Moves ==
    ASSUME NEW q \in ParserType, NEW st \in States
    PROVE  /\ Extend(q) \in ParserType /\ Skip(q) \in ParserType
           /\ Goto(q, st) \in ParserType /\ Cut(q, st) \in ParserType
           /\ \A n \in {Extend(q), Skip(q), Goto(q, st), Cut(q, st)} : n.current = q.current
           /\ Extend(q).state = q.state /\ Extend(q).start = q.start /\ Extend(q).end = q.end + 1
           /\ Skip(q).state = q.state /\ Skip(q).start = q.start + 1 /\ Skip(q).end = q.end + 1
           /\ Goto(q, st).state = st /\ Goto(q, st).start = q.start /\ Goto(q, st).end = q.end
           /\ Cut(q, st).state = st /\ Cut(q, st).start = q.end + 1 /\ Cut(q, st).end = q.end + 1
<1>1. q.start + 1 \in Nat /\ q.end + 1 \in Nat
  BY Fields
<1>2. ASSUME NEW a \in Nat, NEW b \in Nat
      PROVE  /\ [q EXCEPT !.start = a, !.end = b] \in ParserType
             /\ [q EXCEPT !.state = st, !.start = a, !.end = b] \in ParserType
             /\ [q EXCEPT !.end = b] \in ParserType
             /\ [q EXCEPT !.state = st] \in ParserType
  BY DEF ParserType
<1>3. Extend(q) \in ParserType /\ Goto(q, st) \in ParserType /\ Cut(q, st) \in ParserType
  BY <1>1, <1>2 DEF Extend, Goto, Cut
<1>4. Skip(q) = [q EXCEPT !.start = q.start + 1, !.end = q.end + 1]
  BY DEF Skip, ParserType
<1>5. Skip(q) \in ParserType
  BY <1>1, <1>2, <1>4
<1>6. \A n \in {Extend(q), Skip(q), Goto(q, st), Cut(q, st)} : n.current = q.current
  BY DEF Extend, Skip, Goto, Cut, ParserType
<1>7. /\ Extend(q).state = q.state /\ Extend(q).start = q.start /\ Extend(q).end = q.end + 1
      /\ Skip(q).state = q.state /\ Skip(q).start = q.start + 1 /\ Skip(q).end = q.end + 1
  BY DEF Extend, Skip, ParserType
<1>8. /\ Goto(q, st).state = st /\ Goto(q, st).start = q.start /\ Goto(q, st).end = q.end
      /\ Cut(q, st).state = st /\ Cut(q, st).start = q.end + 1 /\ Cut(q, st).end = q.end + 1
  BY DEF Goto, Cut, ParserType
<1> QED BY <1>3, <1>5, <1>6, <1>7, <1>8

\* A slice within the text is a text.
LEMMA SliceType ==
    ASSUME NEW s \in Text, NEW a \in Nat, NEW b \in Nat, b <= Len(s)
    PROVE  SubSeq(s, a + 1, b) \in Text
<1>1. \A k \in a + 1 .. b : s[k] \in Bytes
  BY DEF Text
<1> QED BY <1>1, SubSeqProperties DEF Text

\* The token of a parser that is ready is a text.
LEMMA TokenType ==
    ASSUME NEW s \in Text, NEW q, Ready(q, s)
    PROVE  Token(q, s) \in Text
  BY SliceType, Fields DEF Ready, Token, Text

\* The fields handleNextDate and handleNextHeader write.
HeaderFields == {"date", "time", "level", "thread", "class"}

\* Storing the token in a header field.
LEMMA StoreType ==
    ASSUME NEW q \in ParserType, NEW f \in HeaderFields, NEW x \in Text
    PROVE  LET n == [q EXCEPT !.current[f] = x]
           IN  /\ n \in ParserType
               /\ n.state = q.state /\ n.start = q.start /\ n.end = q.end
               /\ LastProp(n) = LastProp(q)
<1>1. [q.current EXCEPT ![f] = x] \in Log /\ [q.current EXCEPT ![f] = x].props = q.current.props
  BY DEF HeaderFields, ParserType, Log
<1>2. ASSUME NEW l \in Log
      PROVE  LET n == [q EXCEPT !.current = l]
             IN  n \in ParserType /\ n.state = q.state /\ n.start = q.start /\ n.end = q.end /\ n.current = l
  BY DEF ParserType
<1>3. [q EXCEPT !.current[f] = x] = [q EXCEPT !.current = [q.current EXCEPT ![f] = x]]
  BY DEF ParserType
<1> QED BY <1>1, <1>2, <1>3 DEF LastProp

\* Parser q with other properties, and with property k changed to e.
WithProps(q, x) == [q EXCEPT !.current.props = x]
WithProp(q, k, e) == [q EXCEPT !.current.props[k] = e]

\* Replacing the properties.
LEMMA PropsType ==
    ASSUME NEW q \in ParserType, NEW x \in Seq(Property)
    PROVE  /\ WithProps(q, x) \in ParserType
           /\ WithProps(q, x).state = q.state
           /\ WithProps(q, x).start = q.start /\ WithProps(q, x).end = q.end
           /\ LastProp(WithProps(q, x)) = Len(x)
  BY DEF WithProps, ParserType, Log, LastProp

\* A new property without a value.
LEMMA AddKeyType ==
    ASSUME NEW q \in ParserType, NEW k \in Text
    PROVE  /\ AddKey(q, k) \in ParserType /\ LastProp(AddKey(q, k)) > 0
           /\ AddKey(q, k).state = q.state
           /\ AddKey(q, k).start = q.start /\ AddKey(q, k).end = q.end
<1> DEFINE x == Append(q.current.props, [key |-> k, value |-> NoText])
<1>1. [key |-> k, value |-> NoText] \in Property
  BY DEF Property, NoText, Text
<1>2. x \in Seq(Property) /\ Len(x) > 0
  BY <1>1, Fields
<1>3. AddKey(q, k) = WithProps(q, x)
  BY DEF AddKey, WithProps, ParserType, Log
<1> HIDE DEF x
<1> QED BY <1>2, <1>3, PropsType

\* A property whose value or key is replaced.
LEMMA EditType ==
    ASSUME NEW q \in ParserType, NEW k \in 1 .. LastProp(q), NEW e \in Property
    PROVE  /\ WithProp(q, k, e) \in ParserType
           /\ WithProp(q, k, e).state = q.state
           /\ WithProp(q, k, e).start = q.start /\ WithProp(q, k, e).end = q.end
           /\ LastProp(WithProp(q, k, e)) = LastProp(q)
<1> DEFINE x == [q.current.props EXCEPT ![k] = e]
<1>1. x \in Seq(Property) /\ Len(x) = LastProp(q)
  BY ExceptSeq, Fields DEF LastProp
<1>2. WithProp(q, k, e) = WithProps(q, x)
  BY DEF WithProp, WithProps, ParserType, Log
<1> HIDE DEF x
<1> QED BY <1>1, <1>2, PropsType

\* consumeCurrent changes the value of a property at most.
LEMMA consumeCurrentType ==
    ASSUME NEW s \in Text, NEW q, Ready(q, s)
    PROVE  LET n == consumeCurrent(q, s)
           IN  /\ n \in ParserType
               /\ n.state = q.state /\ n.start = q.start /\ n.end = q.end
               /\ LastProp(n) = LastProp(q)
<1> DEFINE k == LastProp(q)
           e == [q.current.props[k] EXCEPT !.value = Token(q, s)]
<1>0. q \in ParserType /\ k \in Nat
  BY Fields DEF Ready
<1>1. CASE k = 0
  BY <1>0, <1>1 DEF consumeCurrent
<1>2. CASE k # 0
  <2>1. k \in 1 .. LastProp(q)
    BY <1>0, <1>2
  <2>2. q.current.props[k] \in Property
    BY <1>0, <2>1, Fields, ElementOfSeq DEF LastProp
  <2>3. e \in Property
    BY <2>2, TokenType DEF Property
  <2>4. consumeCurrent(q, s) = WithProp(q, k, e)
    BY <1>0, <1>2 DEF consumeCurrent, WithProp, ParserType, Log
  <2> HIDE DEF e, k
  <2> QED BY <1>0, <2>1, <2>3, <2>4, EditType
<1> QED BY <1>1, <1>2

\* A cut or an extension after the fields of the token were stored.
LEMMA CutMoves ==
    ASSUME NEW q \in ParserType, NEW n \in ParserType, NEW st \in States, n.end = q.end,
           st \in KeyStates => LastProp(n) > 0, st # "multiKey"
    PROVE  Moved(q, Cut(n, st))
  BY Moves, Fields DEF Moved, LastProp

\* The rune joins the token.
LEMMA ExtendMoves ==
    ASSUME NEW s \in Text, NEW q, Ready(q, s)
    PROVE  Moved(q, Extend(q))
  BY Moves, Fields DEF Moved, Ready, LastProp

\* The rune is left out of a token that has not begun.
LEMMA SkipMoves ==
    ASSUME NEW s \in Text, NEW q, Ready(q, s), q.state # "multiKey"
    PROVE  Moved(q, Skip(q))
  BY Moves, Fields DEF Moved, Ready, LastProp

\* Changing the state on the way to another handler, as handleNextThread,
\* handleNextMultiKey and handleTransition do.
LEMMA GotoReady ==
    ASSUME NEW s \in Text, NEW q, Ready(q, s), NEW st \in States,
           st \in KeyStates => q.state \in KeyStates
    PROVE  /\ Ready(Goto(q, st), s) /\ Goto(q, st).state = st
           /\ \A n : Moved(Goto(q, st), n) => Moved(q, n)
  BY Moves, Fields DEF Moved, Ready, LastProp
-----------------------------------------------------------------------------
(* The handlers *)

\* handleNextDate and handleNextHeader (parse.go:128-156).
LEMMA handleNextDateMoves ==
    ASSUME NEW s \in Text, NEW q, Ready(q, s), NEW r \in Bytes,
           NEW f \in HeaderFields, NEW st \in States \ KeyStates, q.state # "multiKey"
    PROVE  Moved(q, handleNextDate(q, s, r, f, st)) /\ Moved(q, handleNextHeader(q, s, r, f, st))
<1>1. q \in ParserType /\ Token(q, s) \in Text
  BY TokenType DEF Ready
<1>2. Moved(q, Cut([q EXCEPT !.current[f] = Token(q, s)], st))
  BY <1>1, StoreType, CutMoves DEF KeyStates
<1> QED BY <1>2, ExtendMoves, SkipMoves DEF handleNextDate, handleNextHeader

\* handleNextKey (parse.go:33-50).
LEMMA handleNextKeyMoves ==
    ASSUME NEW s \in Text, NEW q, Ready(q, s), NEW r \in Bytes, q.state \in {"key", "verifyCallType"}
    PROVE  Moved(q, handleNextKey(q, s, r))
<1>1. q \in ParserType /\ Token(q, s) \in Text
  BY TokenType DEF Ready
<1>2. Moved(q, Cut(AddKey(q, Token(q, s)), "value"))
  BY <1>1, AddKeyType, CutMoves DEF States
<1>3. Moved(q, q)
  BY Fields DEF Ready, Moved
<1> QED BY <1>2, <1>3, ExtendMoves, SkipMoves DEF handleNextKey

\* handleNextMultiKey, unless it slices out of range (parse.go:52-70).
LEMMA handleNextMultiKeyMoves ==
    ASSUME NEW s \in Text, NEW q, Ready(q, s), NEW r \in Bytes, q.state = "multiKey", ~BadMultiKey(q, r)
    PROVE  Moved(q, handleNextMultiKey(q, s, r))
<1>1. q \in ParserType /\ LastProp(q) \in 1 .. LastProp(q) /\ q.start \in Nat /\ q.end \in Nat
  BY Fields DEF Ready, KeyStates
<1>2. CASE r = "sp"
  <2> DEFINE e == [key |-> SubSeq(s, q.start + 1, q.end - 1), value |-> NoText]
  <2>1. q.end - 1 \in Nat /\ q.end - 1 <= Len(s)
    <3>1. q.end - 1 >= q.start /\ q.end < Len(s) /\ Len(s) \in Nat
      BY <1>1, <1>2 DEF BadMultiKey, Ready, Text
    <3> QED BY <1>1, <3>1
  <2>2. SubSeq(s, q.start + 1, q.end - 1) \in Text
    BY <1>1, <2>1, SliceType
  <2>3. e \in Property
    BY <2>2 DEF Property, NoText, Text
  <2>4. Moved(q, Cut(WithProp(q, LastProp(q), e), "value"))
    <3> HIDE DEF e
    <3> QED BY <1>1, <2>3, EditType, CutMoves DEF States
  <2> QED BY <1>2, <2>4 DEF handleNextMultiKey, WithProp
<1>3. CASE r # "sp"
  <2>1. Ready(Goto(q, "value"), s) /\ (\A n : Moved(Goto(q, "value"), n) => Moved(q, n))
    BY GotoReady DEF KeyStates, States
  <2>2. Moved(q, Extend(Goto(q, "value")))
    BY <2>1, ExtendMoves
  <2> QED BY <1>3, <2>2 DEF handleNextMultiKey
<1> QED BY <1>2, <1>3

\* handleNextValue (parse.go:94-113).
LEMMA handleNextValueMoves ==
    ASSUME NEW s \in Text, NEW q, Ready(q, s), NEW r \in Bytes, q.state \in {"value", "verifyCallType"}
    PROVE  Moved(q, handleNextValue(q, s, r))
<1>1. q \in ParserType /\ LastProp(q) > 0
  BY DEF Ready, KeyStates
<1>2. Moved(q, Cut(consumeCurrent(q, s), "key"))
  BY <1>1, consumeCurrentType, CutMoves DEF States
<1>3. Moved(q, Extend(Goto(q, "multiKey")))
  BY GotoReady, ExtendMoves DEF KeyStates, States
<1> QED BY <1>2, <1>3, ExtendMoves, SkipMoves DEF handleNextValue

\* handleNextThread and handleNextThreadBracket (parse.go:158-180).
LEMMA handleNextThreadMoves ==
    ASSUME NEW s \in Text, NEW q, Ready(q, s), NEW r \in Bytes, q.state \in {"thread", "threadBracket"}
    PROVE  Moved(q, handleNextThread(q, s, r)) /\ Moved(q, handleNextThreadBracket(q, s, r))
<1>1. q \in ParserType /\ Token(q, s) \in Text
  BY TokenType DEF Ready
<1>2. Moved(q, Cut([q EXCEPT !.current["thread"] = Token(q, s)], "transitionClass"))
  BY <1>1, StoreType, CutMoves DEF KeyStates, HeaderFields, States
<1>3. Moved(q, handleNextThreadBracket(q, s, r))
  BY <1>2, ExtendMoves DEF handleNextThreadBracket
<1>4. Moved(q, Skip(Goto(q, "threadBracket")))
  BY GotoReady, SkipMoves DEF KeyStates, States
<1>5. Moved(q, handleNextHeader(Goto(q, "threadNoBracket"), s, r, "thread", "transitionClass"))
  BY GotoReady, handleNextDateMoves DEF KeyStates, HeaderFields, States
<1> QED BY <1>3, <1>4, <1>5 DEF handleNextThread

\* handleNextCallType (parse.go:182-193).
LEMMA handleNextCallTypeMoves ==
    ASSUME NEW s \in Text, NEW q, Ready(q, s), NEW r \in Bytes, q.state = "callType"
    PROVE  Moved(q, handleNextCallType(q, s, r))
<1> DEFINE n == AddKey(q, KeyCallType)
<1>1. KeyCallType \in Text
  <2>1. "char" \in Bytes
    BY DEF Bytes
  <2> QED BY <2>1 DEF KeyCallType, Text
<1>2. Ready(n, s) /\ n.end = q.end /\ LastProp(n) > 0
  <2>1. q \in ParserType
    BY DEF Ready
  <2>2. /\ n \in ParserType /\ LastProp(n) > 0
        /\ n.start = q.start /\ n.end = q.end
    BY <1>1, <2>1, AddKeyType
  <2> HIDE DEF n
  <2> QED BY <2>2 DEF Ready
<1> HIDE DEF n
<1>3. Moved(q, Cut(consumeCurrent(n, s), "verifyCallType"))
  BY <1>2, consumeCurrentType, CutMoves DEF States, Ready
<1> QED BY <1>3, ExtendMoves DEF handleNextCallType, n

\* verifyCallType (parse.go:195-204).
LEMMA verifyCallTypeMoves ==
    ASSUME NEW s \in Text, NEW q, Ready(q, s), NEW r \in Bytes, q.state = "verifyCallType"
    PROVE  Moved(q, verifyCallType(q, s, r))
<1> DEFINE e == [q.current.props[1] EXCEPT !.key = q.current.props[1].value]
<1>1. q \in ParserType /\ 1 \in 1 .. LastProp(q)
  BY Fields DEF Ready, KeyStates
<1>2. e \in Property
  <2>1. q.current.props[1] \in Property
    BY <1>1, Fields, ElementOfSeq DEF LastProp
  <2> QED BY <2>1 DEF Property
<1>3. [q EXCEPT !.current.props[1].key = q.current.props[1].value] = WithProp(q, 1, e)
  BY <1>1 DEF WithProp, ParserType, Log
<1> HIDE DEF e
<1>4. /\ Ready(WithProp(q, 1, e), s) /\ WithProp(q, 1, e).state = q.state
      /\ WithProp(q, 1, e).end = q.end
  BY <1>1, <1>2, EditType DEF Ready
<1>5. Moved(q, handleNextValue(WithProp(q, 1, e), s, r))
  <2>1. Moved(WithProp(q, 1, e), handleNextValue(WithProp(q, 1, e), s, r))
    BY <1>4, handleNextValueMoves
  <2> QED BY <1>4, <2>1 DEF Moved
<1>6. Moved(q, handleNextKey(q, s, r))
  BY handleNextKeyMoves
<1> QED BY <1>3, <1>5, <1>6 DEF verifyCallType

\* One rune, outside of the transition states ...
LEMMA InTokenMoves ==
    ASSUME NEW s \in Text, NEW q, Ready(q, s), NEW r \in Bytes, ~BadMultiKey(q, r),
           q.state \notin DOMAIN After
    PROVE  Moved(q, InToken(q, s, r))
<1>1. CASE q.state = "date"
  BY <1>1, handleNextDateMoves DEF InToken, HeaderFields, States, KeyStates
<1>2. CASE q.state = "time"
  BY <1>2, handleNextDateMoves DEF InToken, HeaderFields, States, KeyStates
<1>3. CASE q.state = "level"
  BY <1>3, handleNextDateMoves DEF InToken, HeaderFields, States, KeyStates
<1>4. CASE q.state \in {"thread", "threadBracket"}
  BY <1>4, handleNextThreadMoves DEF InToken
<1>5. CASE q.state = "threadNoBracket"
  BY <1>5, handleNextDateMoves DEF InToken, HeaderFields, States, KeyStates
<1>6. CASE q.state = "class"
  BY <1>6, handleNextDateMoves DEF InToken, HeaderFields, States, KeyStates
<1>7. CASE q.state = "callType"
  BY <1>7, handleNextCallTypeMoves DEF InToken
<1>8. CASE q.state = "verifyCallType"
  BY <1>8, verifyCallTypeMoves DEF InToken
<1>9. CASE q.state = "key"
  BY <1>9, handleNextKeyMoves DEF InToken
<1>10. CASE q.state = "value"
  BY <1>10, handleNextValueMoves DEF InToken
<1>11. CASE q.state = "multiKey"
  BY <1>11, handleNextMultiKeyMoves DEF InToken
<1> QED
  <2>1. q.state \in States
    BY Fields DEF Ready
  <2> QED BY <1>1, <1>2, <1>3, <1>4, <1>5, <1>6, <1>7, <1>8, <1>9, <1>10, <1>11, <2>1 DEF States, After

\* ... and in any state (parse.go:206-240).
LEMMA NextMoves ==
    ASSUME NEW s \in Text, NEW q, Ready(q, s), NEW r \in Bytes, ~BadMultiKey(q, r)
    PROVE  Moved(q, next(q, s, r))
<1>1. CASE q.state \notin DOMAIN After
  BY <1>1, InTokenMoves DEF next
<1>2. CASE q.state \in DOMAIN After
  <2>1. /\ After[q.state] \in {"level", "thread", "class", "callType"}
        /\ q.state # "multiKey"
    <3>1. q.state \in {"transitionLevel", "transitionThread", "transitionClass", "transitionCallType"}
      BY <1>2 DEF After
    <3> QED BY <3>1 DEF After
  <2>2. Moved(q, Skip(q))
    BY <2>1, SkipMoves
  <2>3. Moved(q, InToken(Goto(q, After[q.state]), s, r))
    <3> DEFINE n == Goto(q, After[q.state])
    <3>1. Ready(n, s) /\ n.state = After[q.state] /\ \A m : Moved(n, m) => Moved(q, m)
      BY <2>1, GotoReady DEF States, KeyStates
    <3> HIDE DEF n
    <3>2. n.state \notin DOMAIN After /\ ~BadMultiKey(n, r)
      BY <2>1, <3>1 DEF After, BadMultiKey
    <3> QED BY <3>1, <3>2, InTokenMoves DEF n
  <2> QED BY <1>2, <2>2, <2>3 DEF next
<1> QED BY <1>1, <1>2
-----------------------------------------------------------------------------
(* The invariant *)

\* Between two chunks nothing has been scanned.  If all chunks ended in a newline
\* nothing is carried over either, and the newline that ends the chunk is the
\* last rune scanned, which resets the parser.
Carry ==
    /\ ~parsing => i = 0
    /\ aligned =>
          /\ p.state = "multiKey" => p.start < p.end
          /\ ~parsing => raw = NoText /\ p.state = "date" /\ p.current = EmptyLog
          /\ parsing => Len(raw) > 0 /\ raw[Len(raw)] = "nl"
          /\ parsing /\ i = Len(raw) => p = EndOfLine(i - 1)

Inv == TypeOK /\ SlicesInBounds /\ Carry

\* In the loop the parser is ready for the next rune.
LEMMA ScanReady ==
    ASSUME Inv, i < Len(raw)
    PROVE  raw \in Text /\ i \in Nat /\ Len(raw) \in Nat /\ Ready(p, raw) /\ raw[i + 1] \in Bytes
<1>1. raw \in Text /\ i \in Nat /\ p \in ParserType
  BY DEF Inv, TypeOK, ParserType
<1>2. Len(raw) \in Nat /\ raw[i + 1] \in Bytes
  BY <1>1 DEF Text
<1> QED BY <1>1, <1>2, Fields DEF Inv, SlicesInBounds, Ready, KeyStates

\* The parser that a newline leaves has its type (parse.go:249-254).
LEMMA EndOfLineType ==
    ASSUME NEW k \in Nat
    PROVE  EndOfLine(k) \in ParserType
<1>1. EmptyLog \in Log
  BY DEF EmptyLog, Log, NoText, Text
<1> QED BY <1>1 DEF EndOfLine, ParserType, States

\* A log is emitted with texts in all its fields.
LEMMA consumeLogType ==
    ASSUME NEW s \in Text, NEW q, Ready(q, s)
    PROVE  consumeLog(q, s).current \in Log
<1>1. q \in ParserType /\ Token(q, s) \in Text
  BY TokenType DEF Ready
<1>2. [q EXCEPT !.current.message = Token(q, s)] \in ParserType
  BY <1>1 DEF ParserType, Log
<1>3. consumeCurrent(q, s) \in ParserType
  BY consumeCurrentType
<1> QED BY <1>2, <1>3, Fields DEF consumeLog

\* The invariant holds of a new parser.
LEMMA InitInv == Init => Inv
<1> SUFFICES ASSUME Init PROVE Inv
  OBVIOUS
<1>1. EmptyLog \in Log
  BY DEF EmptyLog, Log, NoText, Text
<1>2. input \in Inputs /\ Len(input.text) \in Nat
  BY InputsAssumption DEF Init, Text
<1>3. p \in [state : States, start : Nat, end : Nat, current : Log]
  BY <1>1 DEF Init, NewParser, States
<1>4. TypeOK
  <2>1. fed \in 0 .. Len(input.text) /\ i \in Nat
    BY <1>2 DEF Init
  <2>2. raw \in Text /\ logs \in Seq(Log)
    BY DEF Init, NoText, Text
  <2> QED BY <1>2, <1>3, <2>1, <2>2 DEF Init, TypeOK
<1>5. SlicesInBounds /\ Carry
  BY DEF Init, SlicesInBounds, Carry, NewParser, NoText
<1> QED BY <1>4, <1>5 DEF Inv

\* What one read takes from the rest of the input (main.go:97-142).
LEMMA ChunkOfText ==
    ASSUME NEW t \in Text, NEW a \in Nat, NEW n \in Nat, n >= 1, a + n <= Len(t)
    PROVE  /\ SubSeq(t, a + 1, a + n) \in Text
           /\ Len(SubSeq(t, a + 1, a + n)) = n
           /\ SubSeq(t, a + 1, a + n)[n] = t[a + n]
<1>1. \A k \in a + 1 .. a + n : t[k] \in Bytes
  BY DEF Text
<1>2. SubSeq(t, a + 1, a + n) \in Seq(Bytes)
  BY <1>1, SubSeqProperties
<1>3. Len(SubSeq(t, a + 1, a + n)) = n /\ SubSeq(t, a + 1, a + n)[n] = t[a + n]
  BY DEF Text
<1> QED BY <1>2, <1>3 DEF Text

\* Parse is called with another chunk (parse.go:244).
LEMMA FeedInv ==
    ASSUME Inv, NEW n \in 1 .. Len(input.text), Feed(n)
    PROVE  Inv'
<1> DEFINE t == input.text
           piece == SubSeq(t, fed + 1, fed + n)
<1>1. /\ input \in Inputs /\ t \in Text /\ fed \in Nat /\ n \in Nat /\ n >= 1
      /\ fed + n <= Len(t) /\ raw \in Text /\ Len(t) \in Nat /\ i = 0
  BY InputsAssumption DEF Inv, TypeOK, Carry, Feed, Text
<1>2. piece \in Text /\ Len(piece) = n /\ piece[n] = t[fed + n]
  BY <1>1, ChunkOfText
<1> HIDE DEF piece
<1>3. raw' = raw \o piece /\ raw' \in Text /\ Len(raw') = Len(raw) + n /\ Len(raw) \in Nat
  BY <1>1, <1>2 DEF Feed, piece, Text
<1>4. TypeOK'
  BY <1>1, <1>3 DEF Inv, TypeOK, Feed
<1>5. SlicesInBounds'
  BY <1>1, <1>3 DEF Inv, SlicesInBounds, Feed, LastProp
<1>6. Carry'
  <2>1. aligned' => raw' = piece
    BY <1>2, <1>3, ConcatEmptySeq DEF Inv, Carry, Feed, NoText, Text
  <2>2. aligned' => raw'[Len(raw')] = "nl" /\ Len(raw') = n
    BY <1>2, <2>1 DEF Feed
  <2>3. aligned' => p'.state = "date"
    BY DEF Inv, Carry, Feed
  <2>4. parsing' /\ i' = 0
    BY DEF Feed
  <2> QED BY <1>1, <2>2, <2>3, <2>4 DEF Carry
<1> QED BY <1>4, <1>5, <1>6 DEF Inv

\* A newline emits the log and resets the parser (parse.go:248-254).
LEMMA ScanNewlineInv ==
    ASSUME Inv, ScanNewline
    PROVE  Inv'
<1>1. raw \in Text /\ i \in Nat /\ Len(raw) \in Nat /\ Ready(p, raw) /\ i < Len(raw)
  BY ScanReady DEF ScanNewline
<1>2. logs' \in Seq(Log)
  BY <1>1, consumeLogType DEF Inv, TypeOK, ScanNewline
<1>3. p' \in ParserType
  BY <1>1, EndOfLineType DEF ScanNewline
<1>4. TypeOK'
  BY <1>1, <1>2, <1>3 DEF Inv, TypeOK, ParserType, ScanNewline
<1>5. p'.state = "date" /\ p'.start = i' /\ p'.end = i' /\ i' = i + 1 /\ p' = EndOfLine(i' - 1)
  BY <1>1 DEF ScanNewline, EndOfLine
<1>6. SlicesInBounds'
  BY <1>1, <1>5 DEF ScanNewline, SlicesInBounds
<1>7. Carry'
  BY <1>1, <1>5 DEF Inv, Carry, ScanNewline
<1> QED BY <1>4, <1>6, <1>7 DEF Inv

\* Any other rune goes to the handler of the state (parse.go:256).
LEMMA ScanRuneInv ==
    ASSUME Inv, ScanRune
    PROVE  Inv'
<1>1. raw \in Text /\ i \in Nat /\ Len(raw) \in Nat /\ Ready(p, raw) /\ i < Len(raw) /\ raw[i + 1] \in Bytes
  BY ScanReady DEF ScanRune
<1>2. Moved(p, p')
  BY <1>1, NextMoves DEF ScanRune
<1>3. /\ i' \in Nat /\ i + 1 <= i' /\ i' <= Len(raw)
      /\ raw[i'] # "nl"
  BY <1>1 DEF ScanRune, Width
<1>4. TypeOK'
  BY <1>2, <1>3 DEF Inv, TypeOK, Moved, ParserType, ScanRune
<1>5. SlicesInBounds'
  <2>1. p'.start \in Nat /\ p'.end \in Nat /\ p.end \in Nat
    BY <1>1, <1>2, Fields DEF Moved, Ready
  <2> QED BY <1>1, <1>2, <1>3, <2>1 DEF Inv, SlicesInBounds, Moved, KeyStates, ScanRune
<1>6. Carry'
  BY <1>2, <1>3 DEF Inv, Carry, Moved, ScanRune
<1> QED BY <1>4, <1>5, <1>6 DEF Inv

\* The rest of the text is carried over to the next call (parse.go:260-261).
LEMMA EndParseInv ==
    ASSUME Inv, EndParse
    PROVE  Inv'
<1>1. raw \in Text /\ Len(raw) \in Nat /\ i = Len(raw) /\ p \in ParserType
  BY DEF Inv, TypeOK, SlicesInBounds, EndParse, ParserType, Text
<1>2. raw' \in Text
  BY <1>1, SliceType, Fields DEF EndParse
<1>3. /\ p' \in ParserType /\ p'.state = p.state /\ p'.start = 0 /\ p'.end = 0 /\ p'.current = p.current
  BY <1>1 DEF EndParse, ParserType
<1>4. TypeOK'
  BY <1>2, <1>3 DEF Inv, TypeOK, ParserType, EndParse
<1>5. SlicesInBounds'
  <2>1. Len(raw') \in Nat
    BY <1>2 DEF Text
  <2>2. p.state \in {"verifyCallType", "key", "value", "multiKey"} => LastProp(p) > 0
    BY DEF Inv, SlicesInBounds
  <2>3. LastProp(p)' = LastProp(p) /\ i' = 0
    BY <1>3 DEF LastProp, EndParse
  <2> QED BY <1>3, <2>1, <2>2, <2>3 DEF SlicesInBounds
<1>6. Carry'
  <2>1. aligned => p.start = Len(raw) /\ p.state = "date" /\ p.current = EmptyLog
    BY <1>1 DEF Inv, Carry, EndParse, EndOfLine
  <2>2. aligned => raw' = NoText
    BY <1>1, <2>1, SubSeqEmpty DEF EndParse, NoText
  <2> QED BY <1>3, <2>1, <2>2 DEF Inv, Carry, EndParse
<1> QED BY <1>4, <1>5, <1>6 DEF Inv

\* Every step keeps the invariant.
LEMMA NextInv == Inv /\ [Next]_vars => Inv'
<1> SUFFICES ASSUME Inv, [Next]_vars PROVE Inv'
  OBVIOUS
<1>1. CASE UNCHANGED vars
  BY <1>1 DEF Inv, TypeOK, SlicesInBounds, Carry, LastProp, vars
<1> QED BY <1>1, FeedInv, ScanNewlineInv, ScanRuneInv, EndParseInv DEF Next

\* The inductive invariant holds of every behaviour of the parser.
THEOREM Invariance == Spec => []Inv
<1> QED BY InitInv, NextInv, PTL DEF Spec

\* The fields of the Parser and the logs it emits keep their types.
THEOREM TypeCorrect == Spec => []TypeOK
<1>1. Inv => TypeOK
  BY DEF Inv
<1> QED BY <1>1, Invariance, PTL

\* Whatever the input and the chunks, no token lies outside of the scanned text
\* and no handler indexes a property that does not exist (parse.go:43-199).
THEOREM InBounds == Spec => []SlicesInBounds
<1>1. Inv => SlicesInBounds
  BY DEF Inv
<1> QED BY <1>1, Invariance, PTL

\* Whatever the input, chunks that end in a newline never make the parser panic
\* and leave nothing behind (parse.go:243-264).
THEOREM AlignedSafe == Spec => []AlignedChunksAreSafe
<1>1. Inv => AlignedChunksAreSafe
  <2> SUFFICES ASSUME Inv, aligned
               PROVE  /\ ~PanicNext
                      /\ ~parsing => raw = NoText /\ p.state = "date" /\ p.current = EmptyLog
    BY DEF AlignedChunksAreSafe
  <2>1. p.start \in Nat /\ p.end \in Nat
    BY DEF Inv, TypeOK
  <2> QED BY <2>1 DEF Inv, Carry, PanicNext, BadMultiKey
<1> QED BY <1>1, Invariance, PTL
-----------------------------------------------------------------------------
(* Induction over a text.  The library states the induction rules for a        *)
(* predicate; here they are needed for sets of numbers, from the theorem that  *)
(* every such set has a least member.                                          *)

\* Least-number principle, for a set of numbers.
LEMMA LeastNumber ==
    ASSUME NEW U, U \subseteq Nat, U # {}
    PROVE  \E x \in U : \A y \in U : x <= y
<1>1. PICK x \in U : \A y \in U : ~ (<<y, x>> \in OpToRel(<, Nat))
  BY WFMin, NatLessThanWellFounded
<1>2. \A y, z \in Nat : y < z => <<y, z>> \in OpToRel(<, Nat)
  BY DEF OpToRel
<1>3. \A y \in U : ~ (y < x)
  BY <1>1, <1>2
<1> QED BY <1>3

\* Induction up to n, for a set of numbers.
LEMMA UpTo ==
    ASSUME NEW n \in Nat, NEW U, 0 \in U, \A k \in 0 .. n - 1 : k \in U => k + 1 \in U
    PROVE  \A k \in 0 .. n : k \in U
<1> SUFFICES ASSUME NEW j \in 0 .. n, j \notin U
             PROVE  FALSE
  OBVIOUS
<1> DEFINE V == {k \in 0 .. n : k \notin U}
<1>1. V \subseteq Nat /\ V # {}
  OBVIOUS
<1>2. PICK x \in V : \A y \in V : x <= y
  <2> HIDE DEF V
  <2> QED BY <1>1, LeastNumber
<1>3. x \in 0 .. n /\ x \notin U /\ x # 0
  OBVIOUS
<1>4. x - 1 \in 0 .. n - 1 /\ x - 1 \notin V
  BY <1>2, <1>3
<1>5. x - 1 \in U /\ (x - 1) + 1 = x
  BY <1>3, <1>4
<1> QED BY <1>3, <1>4, <1>5

\* The value at k of a scan whose values before k are those of g.
ScanDef(g, s, k) == IF k = 0 THEN [p |-> NewParser, logs |-> <<>>] ELSE ScanByte(g[k - 1], s, k)

\* The recursion that defines Scan has a solution,
LEMMA ScanExists ==
    ASSUME NEW s, NEW n \in Nat
    PROVE  \E g : g = [k \in 0 .. n |-> ScanDef(g, s, k)]
<1> DEFINE U == {m \in 0 .. n : \E g : g = [k \in 0 .. m |-> ScanDef(g, s, k)]}
<1>1. 0 \in U
  <2> DEFINE g == [k \in 0 .. 0 |-> ScanDef(<<>>, s, 0)]
  <2>1. g = [k \in 0 .. 0 |-> ScanDef(g, s, k)]
    BY DEF ScanDef
  <2> QED BY <2>1
<1>2. ASSUME NEW m \in 0 .. n - 1, m \in U
      PROVE  m + 1 \in U
  <2>1. PICK g : g = [k \in 0 .. m |-> ScanDef(g, s, k)]
    BY <1>2
  <2> DEFINE h == [k \in 0 .. m + 1 |-> IF k <= m THEN g[k] ELSE ScanDef(g, s, m + 1)]
  <2>2. ASSUME NEW k \in 0 .. m + 1
        PROVE  h[k] = ScanDef(h, s, k)
    <3>1. CASE k = 0
      BY <2>1, <3>1 DEF ScanDef
    <3>2. CASE k \in 1 .. m
      <4>1. g[k] = ScanDef(g, s, k) /\ h[k] = g[k] /\ h[k - 1] = g[k - 1]
        BY <2>1, <3>2
      <4> QED BY <3>2, <4>1 DEF ScanDef
    <3>3. CASE k = m + 1
      <4>1. h[k] = ScanDef(g, s, k) /\ h[k - 1] = g[k - 1]
        BY <3>3
      <4> QED BY <3>3, <4>1 DEF ScanDef
    <3> QED BY <3>1, <3>2, <3>3
  <2>3. h = [k \in 0 .. m + 1 |-> ScanDef(h, s, k)]
    BY <2>2
  <2>4. m + 1 \in 0 .. n /\ \E f : f = [k \in 0 .. m + 1 |-> ScanDef(f, s, k)]
    <3> HIDE DEF h
    <3> QED BY <2>3
  <2> QED BY <2>4
<1>3. \A k \in 0 .. n : k \in U
  <2> HIDE DEF U
  <2> QED BY <1>1, <1>2, UpTo
<1>4. n \in U
  BY <1>3
<1> QED BY <1>4

\* so that Scan can be unfolded, byte by byte.
LEMMA ScanUnfolds ==
    ASSUME NEW s, Len(s) \in Nat
    PROVE  /\ Scan(s)[0] = [p |-> NewParser, logs |-> <<>>]
           /\ \A k \in 1 .. Len(s) : Scan(s)[k] = ScanByte(Scan(s)[k - 1], s, k)
<1>1. Scan(s) = CHOOSE g : g = [k \in 0 .. Len(s) |-> ScanDef(g, s, k)]
  BY DEF Scan, ScanDef
<1>2. \E g : g = [k \in 0 .. Len(s) |-> ScanDef(g, s, k)]
  BY ScanExists
<1>3. Scan(s) = [k \in 0 .. Len(s) |-> ScanDef(Scan(s), s, k)]
  BY <1>1, <1>2, Zenon
<1> HIDE DEF Scan
<1>4. \A k \in 0 .. Len(s) : Scan(s)[k] = ScanDef(Scan(s), s, k)
  BY <1>3
<1> QED BY <1>4 DEF ScanDef
-----------------------------------------------------------------------------
(* What a clean rune does to the token *)

\* The runes that join the token in state st, whether they begin it or not.
Joins(st, c) ==
    \/ st \in {"date", "time"} /\ c \in {"digit", ":", ","}
    \/ st \in {"level", "threadNoBracket", "class"} /\ c \notin {"nl", "[", "tab", "sp", "]"}
    \/ st = "threadBracket" /\ c \notin {"nl", "]", "tab"}
    \/ st = "callType" /\ c \notin {"nl", ":"}
    \/ st = "key" /\ c \notin {"nl", "sp", ":"}
    \/ st \in {"verifyCallType", "value", "multiKey"} /\ c \notin {"nl", "sp", ":", ","}

\* n begins a token after the rune that q takes.
Fresh(q, n) ==
    /\ n.start = q.end + 1 /\ n.end = q.end + 1
    /\ n.state # "multiKey"

\* n adds the rune r to the token of q, the first one in the state it joins.
Grown(q, n, r) ==
    /\ n.start = q.start /\ n.end = q.end + 1 /\ n.current = q.current
    /\ q.start = q.end => Joins(n.state, r) /\ n.state # "multiKey"
    /\ q.start # q.end => n.state = q.state \/ {n.state, q.state} \subseteq {"value", "multiKey"}

\* n is q after one clean rune.
Shape(q, n, r) == Fresh(q, n) \/ Grown(q, n, r)

\* A token begins once the states between two tokens are left, and a second key
\* only inside a value.
Settled(q) ==
    /\ q.state \in {"transitionLevel", "transitionThread", "transitionClass",
                    "transitionCallType", "thread"} => q.start = q.end
    /\ q.state = "multiKey" => q.start # q.end

\* The token ends and another begins.
LEMMA CutFresh ==
    ASSUME NEW q \in ParserType, NEW n \in ParserType, NEW st \in States, n.end = q.end, st # "multiKey"
    PROVE  Fresh(q, Cut(n, st))
  BY Moves DEF Fresh

\* A rune left out before the token begins.
LEMMA SkipFresh ==
    ASSUME NEW q \in ParserType, q.state # "multiKey", q.start = q.end
    PROVE  Fresh(q, Skip(q))
<1>1. Skip(q).state = q.state /\ Skip(q).start = q.start + 1 /\ Skip(q).end = q.end + 1
  BY Moves, Fields
<1> QED BY <1>1 DEF Fresh

\* The rune joins the token.
LEMMA ExtendGrown ==
    ASSUME NEW q \in ParserType, NEW r, q.start = q.end => Joins(q.state, r) /\ q.state # "multiKey"
    PROVE  Grown(q, Extend(q), r)
<1>1. q.state \in States /\ q.start \in Nat /\ q.end \in Nat
  BY Fields
<1>2. /\ Extend(q).state = q.state /\ Extend(q).current = q.current
      /\ Extend(q).start = q.start /\ Extend(q).end = q.end + 1
  BY <1>1, Moves
<1> QED BY <1>1, <1>2 DEF Grown

\* The same with a change of state, as between value and multiKey.
LEMMA GotoExtendGrown ==
    ASSUME NEW q \in ParserType, NEW r, NEW st \in States,
           q.start = q.end => Joins(st, r) /\ st # "multiKey",
           q.start # q.end => {st, q.state} \subseteq {"value", "multiKey"}
    PROVE  Grown(q, Extend(Goto(q, st)), r)
<1>1. /\ Goto(q, st) \in ParserType /\ Goto(q, st).state = st /\ Goto(q, st).start = q.start
      /\ Goto(q, st).end = q.end /\ Goto(q, st).current = q.current
  BY Moves
<1> QED BY <1>1, Moves DEF Grown

\* handleNextDate (parse.go:128-141).
LEMMA handleNextDateShape ==
    ASSUME NEW s \in Text, NEW q, Ready(q, s), NEW r \in Bytes,
           NEW f \in HeaderFields, NEW st \in States \ {"multiKey"},
           q.state \in {"date", "time"}, Clean(q, r)
    PROVE  Shape(q, handleNextDate(q, s, r, f, st), r)
<1>1. q \in ParserType /\ Token(q, s) \in Text
  BY TokenType DEF Ready
<1>2. Fresh(q, Cut([q EXCEPT !.current[f] = Token(q, s)], st))
  BY <1>1, StoreType, CutFresh
<1>3. r = "[" => Fresh(q, Skip(q))
  BY <1>1, SkipFresh DEF Clean
<1>4. r \in {"digit", ":", ","} => Grown(q, Extend(q), r)
  BY <1>1, ExtendGrown DEF Joins
<1> QED BY <1>2, <1>3, <1>4 DEF handleNextDate, Shape

\* handleNextHeader (parse.go:143-156).
LEMMA handleNextHeaderShape ==
    ASSUME NEW s \in Text, NEW q, Ready(q, s), NEW r \in Bytes, r # "nl",
           NEW f \in HeaderFields, NEW st \in States \ {"multiKey"},
           q.state \in {"level", "threadNoBracket", "class"}, r = "[" => q.start = q.end
    PROVE  Shape(q, handleNextHeader(q, s, r, f, st), r)
<1>1. q \in ParserType /\ Token(q, s) \in Text
  BY TokenType DEF Ready
<1>2. Fresh(q, Cut([q EXCEPT !.current[f] = Token(q, s)], st))
  BY <1>1, StoreType, CutFresh
<1>3. r = "[" => Fresh(q, Skip(q))
  BY <1>1, SkipFresh
<1>4. r \notin {"[", "tab", "sp", "]"} => Grown(q, Extend(q), r)
  BY <1>1, ExtendGrown DEF Joins
<1> QED BY <1>2, <1>3, <1>4 DEF handleNextHeader, Shape

\* handleNextThreadBracket (parse.go:158-168).
LEMMA handleNextThreadBracketShape ==
    ASSUME NEW s \in Text, NEW q, Ready(q, s), NEW r \in Bytes, r # "nl", q.state = "threadBracket"
    PROVE  Shape(q, handleNextThreadBracket(q, s, r), r)
<1>1. q \in ParserType /\ Token(q, s) \in Text
  BY TokenType DEF Ready
<1>2. Fresh(q, Cut([q EXCEPT !.current["thread"] = Token(q, s)], "transitionClass"))
  BY <1>1, StoreType, CutFresh DEF HeaderFields, States
<1>4. r \notin {"tab", "]"} => Grown(q, Extend(q), r)
  BY <1>1, ExtendGrown DEF Joins
<1> QED BY <1>2, <1>4 DEF handleNextThreadBracket, Shape

\* The same shape from a parser that only differs in its state, before the token.
LEMMA GotoShape ==
    ASSUME NEW q \in ParserType, q.start = q.end, NEW st \in States, NEW n, NEW r, Shape(Goto(q, st), n, r)
    PROVE  Shape(q, n, r)
  BY Moves DEF Shape, Fresh, Grown

\* handleNextThread (parse.go:170-180).
LEMMA handleNextThreadShape ==
    ASSUME NEW s \in Text, NEW q, Ready(q, s), NEW r \in Bytes, r # "nl", q.state = "thread", q.start = q.end
    PROVE  Shape(q, handleNextThread(q, s, r), r)
<1>1. q \in ParserType
  BY DEF Ready
<1>2. Shape(q, Skip(Goto(q, "threadBracket")), r)
  <2> DEFINE n == Goto(q, "threadBracket")
  <2>1. n \in ParserType /\ n.state = "threadBracket" /\ n.start = n.end
    BY <1>1, Moves DEF States
  <2>2. Fresh(n, Skip(n))
    BY <2>1, SkipFresh
  <2> QED BY <1>1, <2>2, GotoShape DEF Shape, States
<1>3. Shape(q, handleNextHeader(Goto(q, "threadNoBracket"), s, r, "thread", "transitionClass"), r)
  <2> DEFINE n == Goto(q, "threadNoBracket")
  <2>1. n.state = "threadNoBracket" /\ n.start = n.end
    BY <1>1, Moves DEF States
  <2>2. Ready(n, s)
    BY GotoReady DEF States, KeyStates
  <2>3. Shape(n, handleNextHeader(n, s, r, "thread", "transitionClass"), r)
    <3> HIDE DEF n
    <3> QED BY <2>1, <2>2, handleNextHeaderShape DEF HeaderFields, States
  <2> QED BY <1>1, <2>3, GotoShape DEF States
<1> QED BY <1>2, <1>3 DEF handleNextThread

\* handleNextCallType (parse.go:182-193).
LEMMA handleNextCallTypeShape ==
    ASSUME NEW s \in Text, NEW q, Ready(q, s), NEW r \in Bytes, r # "nl", q.state = "callType"
    PROVE  Shape(q, handleNextCallType(q, s, r), r)
<1> DEFINE n == AddKey(q, KeyCallType)
<1>1. q \in ParserType
  BY DEF Ready
<1>2. KeyCallType \in Text
  <2>1. "char" \in Bytes
    BY DEF Bytes
  <2> QED BY <2>1 DEF KeyCallType, Text
<1>3. n \in ParserType /\ n.state = q.state /\ n.start = q.start /\ n.end = q.end /\ LastProp(n) > 0
  BY <1>1, <1>2, AddKeyType
<1> HIDE DEF n
<1>4. Ready(n, s)
  BY <1>3 DEF Ready
<1>5. Fresh(q, Cut(consumeCurrent(n, s), "verifyCallType"))
  BY <1>1, <1>3, <1>4, consumeCurrentType, CutFresh DEF States
<1>6. r # ":" => Grown(q, Extend(q), r)
  BY <1>1, ExtendGrown DEF Joins
<1> QED BY <1>5, <1>6 DEF handleNextCallType, n, Shape

\* handleNextKey (parse.go:33-50).
LEMMA handleNextKeyShape ==
    ASSUME NEW s \in Text, NEW q, Ready(q, s), NEW r \in Bytes, r # "nl",
           q.state \in {"key", "verifyCallType"}, Clean(q, r), q.state = "verifyCallType" => r # ","
    PROVE  Shape(q, handleNextKey(q, s, r), r)
<1>1. q \in ParserType /\ Token(q, s) \in Text
  BY TokenType DEF Ready
<1>2. Fresh(q, Cut(AddKey(q, Token(q, s)), "value"))
  BY <1>1, AddKeyType, CutFresh DEF States
<1>3. r = "sp" => q.start = q.end /\ Fresh(q, Skip(q))
  BY <1>1, SkipFresh DEF Clean
<1>4. r \notin {"sp", ":"} => Grown(q, Extend(q), r)
  BY <1>1, ExtendGrown DEF Joins
<1> QED BY <1>2, <1>3, <1>4 DEF handleNextKey, Shape

\* handleNextValue (parse.go:94-113).
LEMMA handleNextValueShape ==
    ASSUME NEW s \in Text, NEW q, Ready(q, s), NEW r \in Bytes, r # "nl",
           q.state = "value" \/ r = ",", q.state \in KeyStates, Clean(q, r)
    PROVE  Shape(q, handleNextValue(q, s, r), r)
<1>1. q \in ParserType
  BY DEF Ready
<1>2. Fresh(q, Cut(consumeCurrent(q, s), "key"))
  BY <1>1, consumeCurrentType, CutFresh DEF States
<1>3. CASE r = ","
  BY <1>2, <1>3 DEF handleNextValue, Shape
<1>4. CASE r = ":"
  <2>1. q.state = "value" /\ q.start # q.end
    BY <1>4 DEF Clean
  <2>2. Grown(q, Extend(Goto(q, "multiKey")), r)
    BY <1>1, <2>1, GotoExtendGrown DEF States
  <2> QED BY <1>4, <2>2 DEF handleNextValue, Shape
<1>5. CASE r = "sp"
  <2>1. q.start = q.end => Fresh(q, Skip(q))
    BY <1>1, <1>5, SkipFresh
  <2>2. q.start # q.end => Grown(q, Extend(q), r)
    BY <1>1, ExtendGrown
  <2> QED BY <1>5, <2>1, <2>2 DEF handleNextValue, Shape
<1>6. CASE r \notin {",", ":", "sp"}
  <2>1. Grown(q, Extend(q), r)
    BY <1>1, <1>6, ExtendGrown DEF Joins
  <2> QED BY <1>6, <2>1 DEF handleNextValue, Shape
<1> QED BY <1>3, <1>4, <1>5, <1>6

\* verifyCallType (parse.go:195-204).
LEMMA verifyCallTypeShape ==
    ASSUME NEW s \in Text, NEW q, Ready(q, s), NEW r \in Bytes, r # "nl", q.state = "verifyCallType", Clean(q, r)
    PROVE  Shape(q, verifyCallType(q, s, r), r)
<1> DEFINE e == [q.current.props[1] EXCEPT !.key = q.current.props[1].value]
<1>1. q \in ParserType /\ 1 \in 1 .. LastProp(q)
  BY Fields DEF Ready, KeyStates
<1>2. e \in Property
  <2>1. q.current.props[1] \in Property
    BY <1>1, Fields, ElementOfSeq DEF LastProp
  <2> QED BY <2>1 DEF Property
<1>3. [q EXCEPT !.current.props[1].key = q.current.props[1].value] = WithProp(q, 1, e)
  BY <1>1 DEF WithProp, ParserType, Log
<1> HIDE DEF e
<1>4. /\ Ready(WithProp(q, 1, e), s) /\ WithProp(q, 1, e).state = q.state
      /\ WithProp(q, 1, e).end = q.end
  BY <1>1, <1>2, EditType DEF Ready
<1>5. r = "," => Shape(q, handleNextValue(WithProp(q, 1, e), s, r), r)
  <2> SUFFICES ASSUME r = "," PROVE Fresh(q, handleNextValue(WithProp(q, 1, e), s, r))
    BY DEF Shape
  <2>1. Fresh(q, Cut(consumeCurrent(WithProp(q, 1, e), s), "key"))
    BY <1>1, <1>4, consumeCurrentType, CutFresh DEF States
  <2> QED BY <2>1 DEF handleNextValue
<1>6. r # "," => Shape(q, handleNextKey(q, s, r), r)
  BY handleNextKeyShape
<1> QED BY <1>3, <1>5, <1>6 DEF verifyCallType

\* handleNextMultiKey (parse.go:52-70).
LEMMA handleNextMultiKeyShape ==
    ASSUME NEW s \in Text, NEW q, Ready(q, s), NEW r \in Bytes, r # "nl", q.state = "multiKey", q.start # q.end
    PROVE  Shape(q, handleNextMultiKey(q, s, r), r)
<1>1. q \in ParserType /\ LastProp(q) \in 1 .. LastProp(q) /\ q.start \in Nat /\ q.end \in Nat
  BY Fields DEF Ready, KeyStates
<1>2. CASE r = "sp"
  <2> DEFINE e == [key |-> SubSeq(s, q.start + 1, q.end - 1), value |-> NoText]
  <2>1. q.end - 1 \in Nat /\ q.end - 1 <= Len(s)
    BY <1>1 DEF Ready, Text
  <2>2. SubSeq(s, q.start + 1, q.end - 1) \in Text
    BY <1>1, <2>1, SliceType
  <2>3. e \in Property
    BY <2>2 DEF Property, NoText, Text
  <2>4. Fresh(q, Cut(WithProp(q, LastProp(q), e), "value"))
    <3> HIDE DEF e
    <3> QED BY <1>1, <2>3, EditType, CutFresh DEF States
  <2> QED BY <1>2, <2>4 DEF handleNextMultiKey, WithProp, Shape
<1>3. CASE r # "sp"
  <2>1. Grown(q, Extend(Goto(q, "value")), r)
    BY <1>1, GotoExtendGrown DEF States
  <2> QED BY <1>3, <2>1 DEF handleNextMultiKey, Shape
<1> QED BY <1>2, <1>3

\* One clean rune outside of the transition states begins a token or joins it ...
LEMMA InTokenShape ==
    ASSUME NEW s \in Text, NEW q, Ready(q, s), NEW r \in Bytes, r # "nl", Clean(q, r), Settled(q),
           q.state \notin DOMAIN After
    PROVE  Shape(q, InToken(q, s, r), r)
<1>1. CASE q.state = "date"
  BY <1>1, handleNextDateShape DEF InToken, HeaderFields, States
<1>2. CASE q.state = "time"
  BY <1>2, handleNextDateShape DEF InToken, HeaderFields, States
<1>3. CASE q.state = "level"
  BY <1>3, handleNextHeaderShape DEF InToken, HeaderFields, States, Clean
<1>4. CASE q.state = "thread"
  BY <1>4, handleNextThreadShape DEF InToken, Settled
<1>5. CASE q.state = "threadBracket"
  BY <1>5, handleNextThreadBracketShape DEF InToken
<1>6. CASE q.state = "threadNoBracket"
  BY <1>6, handleNextHeaderShape DEF InToken, HeaderFields, States, Clean
<1>7. CASE q.state = "class"
  BY <1>7, handleNextHeaderShape DEF InToken, HeaderFields, States, Clean
<1>8. CASE q.state = "callType"
  BY <1>8, handleNextCallTypeShape DEF InToken
<1>9. CASE q.state = "verifyCallType"
  BY <1>9, verifyCallTypeShape DEF InToken
<1>10. CASE q.state = "key"
  BY <1>10, handleNextKeyShape DEF InToken
<1>11. CASE q.state = "value"
  BY <1>11, handleNextValueShape DEF InToken, KeyStates
<1>12. CASE q.state = "multiKey"
  BY <1>12, handleNextMultiKeyShape DEF InToken, Settled
<1> QED
  <2>1. q.state \in States
    BY Fields DEF Ready
  <2> QED BY <1>1, <1>2, <1>3, <1>4, <1>5, <1>6, <1>7, <1>8, <1>9, <1>10, <1>11, <1>12, <2>1 DEF States, After

\* ... and in any state (parse.go:206-240).
LEMMA NextShape ==
    ASSUME NEW s \in Text, NEW q, Ready(q, s), NEW r \in Bytes, r # "nl", Clean(q, r), Settled(q)
    PROVE  Shape(q, next(q, s, r), r)
<1>1. CASE q.state \notin DOMAIN After
  BY <1>1, InTokenShape DEF next
<1>2. CASE q.state \in DOMAIN After
  <2>1. /\ After[q.state] \in {"level", "thread", "class", "callType"}
        /\ q.state # "multiKey" /\ q.start = q.end /\ q \in ParserType
    <3>1. q.state \in {"transitionLevel", "transitionThread", "transitionClass", "transitionCallType"}
      BY <1>2 DEF After
    <3> QED BY <3>1 DEF After, Settled, Ready
  <2>2. Fresh(q, Skip(q))
    BY <2>1, SkipFresh
  <2>3. Shape(q, InToken(Goto(q, After[q.state]), s, r), r)
    <3> DEFINE n == Goto(q, After[q.state])
    <3>1. Ready(n, s) /\ n.state = After[q.state] /\ n.start = n.end
      BY <2>1, GotoReady, Moves DEF States, KeyStates
    <3> HIDE DEF n
    <3>2. n.state \notin DOMAIN After /\ Clean(n, r) /\ Settled(n)
      BY <2>1, <3>1 DEF After, Clean, Settled
    <3>3. Shape(n, InToken(n, s, r), r)
      BY <3>1, <3>2, InTokenShape
    <3> QED BY <2>1, <3>3, GotoShape DEF n, States
  <2> QED BY <1>2, <2>2, <2>3 DEF next, Shape
<1> QED BY <1>1, <1>2
-----------------------------------------------------------------------------
(* Where the text begins does not matter *)

\* Parsers that only differ in that the text of q begins b bytes after that of n.
Alike(q, n, b) ==
    /\ q.state = n.state /\ q.current = n.current
    /\ q.start + b = n.start /\ q.end + b = n.end

\* Parser q over s and parser n over t are alike, and so is the text from where
\* their tokens begin.
Match(q, s, n, t, b) ==
    /\ Ready(q, s) /\ Ready(n, t) /\ Alike(q, n, b)
    /\ \A y \in 0 .. q.end : SubSeq(s, q.start + 1, y) = SubSeq(t, n.start + 1, y + b)

\* What is known of parsers that match.
LEMMA MatchFacts ==
    ASSUME NEW s \in Text, NEW t \in Text, NEW b \in Nat, NEW q, NEW n, Match(q, s, n, t, b)
    PROVE  /\ Ready(q, s) /\ Ready(n, t) /\ Alike(q, n, b)
           /\ q \in ParserType /\ n \in ParserType
           /\ q.start \in Nat /\ q.end \in Nat /\ q.start + b = n.start /\ q.end + b = n.end
           /\ q.state = n.state /\ q.current = n.current /\ LastProp(q) = LastProp(n) /\ LastProp(q) \in Nat
           /\ Token(q, s) = Token(n, t) /\ Token(q, s) \in Text
<1>1. Ready(q, s) /\ Ready(n, t) /\ Alike(q, n, b)
  BY DEF Match
<1>2. q \in ParserType /\ n \in ParserType
  BY <1>1 DEF Ready
<1>3. /\ q.start \in Nat /\ q.end \in Nat /\ q.start + b = n.start /\ q.end + b = n.end
      /\ q.state = n.state /\ q.current = n.current /\ LastProp(q) \in Nat
  BY <1>1, <1>2, Fields DEF Alike
<1>4. LastProp(q) = LastProp(n)
  BY <1>3 DEF LastProp
<1>5. Token(q, s) = Token(n, t)
  <2>1. q.end \in 0 .. q.end
    BY <1>3
  <2>2. SubSeq(s, q.start + 1, q.end) = SubSeq(t, n.start + 1, q.end + b)
    BY <2>1 DEF Match
  <2> QED BY <1>3, <2>2 DEF Token
<1>6. Token(q, s) \in Text
  BY <1>1, TokenType
<1> QED BY <1>1, <1>2, <1>3, <1>4, <1>5, <1>6

\* The elementary moves keep parsers alike.
LEMMA MovesAlike ==
    ASSUME NEW b \in Nat, NEW q \in ParserType, NEW n \in ParserType, Alike(q, n, b), NEW st \in States
    PROVE  /\ Alike(Extend(q), Extend(n), b) /\ Alike(Skip(q), Skip(n), b)
           /\ Alike(Goto(q, st), Goto(n, st), b) /\ Alike(Cut(q, st), Cut(n, st), b)
<1>1. /\ q.start \in Nat /\ n.start \in Nat /\ q.end \in Nat /\ n.end \in Nat
      /\ q.state = n.state /\ q.current = n.current
      /\ q.start + b = n.start /\ q.end + b = n.end
  BY Fields DEF Alike
<1>2. Alike(Extend(q), Extend(n), b)
  BY <1>1, Moves DEF Alike
<1>3. Alike(Skip(q), Skip(n), b)
  <2>1. /\ Skip(q).state = q.state /\ Skip(q).start = q.start + 1 /\ Skip(q).end = q.end + 1 /\ Skip(q).current = q.current
        /\ Skip(n).state = n.state /\ Skip(n).start = n.start + 1 /\ Skip(n).end = n.end + 1 /\ Skip(n).current = n.current
    BY Moves
  <2> QED BY <1>1, <2>1 DEF Alike
<1>4. Alike(Goto(q, st), Goto(n, st), b)
  BY <1>1, Moves DEF Alike
<1>5. Alike(Cut(q, st), Cut(n, st), b)
  <2>1. /\ Cut(q, st).state = st /\ Cut(q, st).start = q.end + 1 /\ Cut(q, st).end = q.end + 1 /\ Cut(q, st).current = q.current
        /\ Cut(n, st).state = st /\ Cut(n, st).start = n.end + 1 /\ Cut(n, st).end = n.end + 1 /\ Cut(n, st).current = n.current
    BY Moves
  <2> QED BY <1>1, <2>1 DEF Alike
<1> QED BY <1>2, <1>3, <1>4, <1>5

\* So does a change of the log, to a header field or a new key ...
LEMMA StoreAlike ==
    ASSUME NEW b \in Nat, NEW q \in ParserType, NEW n \in ParserType, Alike(q, n, b),
           NEW f \in HeaderFields, NEW x \in Text, NEW k \in Text
    PROVE  /\ Alike([q EXCEPT !.current[f] = x], [n EXCEPT !.current[f] = x], b)
           /\ Alike(AddKey(q, k), AddKey(n, k), b)
<1>1. /\ [q EXCEPT !.current[f] = x].current = [q.current EXCEPT ![f] = x]
      /\ [n EXCEPT !.current[f] = x].current = [n.current EXCEPT ![f] = x]
  BY DEF ParserType
<1>2. /\ AddKey(q, k).current = [q.current EXCEPT !.props = Append(@, [key |-> k, value |-> NoText])]
      /\ AddKey(n, k).current = [n.current EXCEPT !.props = Append(@, [key |-> k, value |-> NoText])]
  BY DEF ParserType, AddKey
<1>3. Alike([q EXCEPT !.current[f] = x], [n EXCEPT !.current[f] = x], b)
  BY <1>1, StoreType DEF Alike
<1>4. Alike(AddKey(q, k), AddKey(n, k), b)
  BY <1>2, AddKeyType DEF Alike
<1> QED BY <1>3, <1>4

\* ... or to a property ...
LEMMA EditAlike ==
    ASSUME NEW b \in Nat, NEW q \in ParserType, NEW n \in ParserType, Alike(q, n, b),
           NEW k \in 1 .. LastProp(q), NEW e \in Property
    PROVE  Alike(WithProp(q, k, e), WithProp(n, k, e), b)
<1>1. LastProp(q) = LastProp(n)
  BY DEF Alike, LastProp
<1>2. /\ WithProp(q, k, e).current = [q.current EXCEPT !.props[k] = e]
      /\ WithProp(n, k, e).current = [n.current EXCEPT !.props[k] = e]
  BY DEF ParserType, WithProp
<1> QED BY <1>1, <1>2, EditType DEF Alike

\* ... with the token as its value (parse.go:72-77).
LEMMA consumeCurrentAlike ==
    ASSUME NEW b \in Nat, NEW s \in Text, NEW t \in Text, NEW q, NEW n, Ready(q, s), Ready(n, t),
           Alike(q, n, b), Token(q, s) = Token(n, t)
    PROVE  Alike(consumeCurrent(q, s), consumeCurrent(n, t), b)
<1> DEFINE k == LastProp(q)
           e == [q.current.props[k] EXCEPT !.value = Token(q, s)]
<1>0. q \in ParserType /\ n \in ParserType /\ k \in Nat /\ LastProp(n) = k /\ q.current = n.current
  BY Fields DEF Ready, Alike, LastProp
<1>1. CASE k = 0
  BY <1>0, <1>1 DEF consumeCurrent
<1>2. CASE k # 0
  <2>1. k \in 1 .. LastProp(q)
    BY <1>0, <1>2
  <2>2. q.current.props[k] \in Property
    BY <1>0, <2>1, Fields, ElementOfSeq DEF LastProp
  <2>3. e \in Property
    BY <2>2, TokenType DEF Property
  <2>4. consumeCurrent(q, s) = WithProp(q, k, e)
    BY <1>0, <1>2 DEF consumeCurrent, WithProp, ParserType, Log
  <2>5. consumeCurrent(n, t) = WithProp(n, k, e)
    <3>1. e = [n.current.props[k] EXCEPT !.value = Token(n, t)] /\ LastProp(n) = k /\ n \in ParserType
      BY <1>0
    <3> HIDE DEF k
    <3> QED BY <1>2, <3>1 DEF consumeCurrent, WithProp, ParserType, Log
  <2> HIDE DEF e, k
  <2> QED BY <1>0, <2>1, <2>3, <2>4, <2>5, EditAlike
<1> QED BY <1>1, <1>2

\* The logs emitted are the same (parse.go:79-92).
LEMMA consumeLogAlike ==
    ASSUME NEW b \in Nat, NEW s \in Text, NEW t \in Text, NEW q, NEW n, Match(q, s, n, t, b)
    PROVE  consumeLog(q, s).current = consumeLog(n, t).current
<1>1. /\ q \in ParserType /\ n \in ParserType /\ q.current = n.current /\ LastProp(q) = LastProp(n)
      /\ Token(q, s) = Token(n, t) /\ Ready(q, s) /\ Ready(n, t) /\ Alike(q, n, b)
  BY MatchFacts
<1>2. consumeCurrent(q, s).current = consumeCurrent(n, t).current
  BY <1>1, consumeCurrentAlike DEF Alike
<1>3. [q EXCEPT !.current.message = Token(q, s)].current = [n EXCEPT !.current.message = Token(n, t)].current
  BY <1>1 DEF ParserType
<1> QED BY <1>1, <1>2, <1>3 DEF consumeLog

\* The end of a token, whatever it is stored in.
LEMMA CutAlike ==
    ASSUME NEW b \in Nat, NEW s \in Text, NEW t \in Text, NEW q, NEW n, Match(q, s, n, t, b),
           NEW f \in HeaderFields, NEW st \in States
    PROVE  /\ Alike(Cut([q EXCEPT !.current[f] = Token(q, s)], st), Cut([n EXCEPT !.current[f] = Token(n, t)], st), b)
           /\ Alike(Cut(AddKey(q, Token(q, s)), st), Cut(AddKey(n, Token(n, t)), st), b)
           /\ Alike(Cut(consumeCurrent(q, s), st), Cut(consumeCurrent(n, t), st), b)
<1>1. /\ q \in ParserType /\ n \in ParserType /\ Token(q, s) = Token(n, t) /\ Token(q, s) \in Text
      /\ Ready(q, s) /\ Ready(n, t) /\ Alike(q, n, b)
  BY MatchFacts
<1>2. Alike(Cut([q EXCEPT !.current[f] = Token(q, s)], st), Cut([n EXCEPT !.current[f] = Token(n, t)], st), b)
  BY <1>1, StoreType, StoreAlike, MovesAlike
<1>3. Alike(Cut(AddKey(q, Token(q, s)), st), Cut(AddKey(n, Token(n, t)), st), b)
  BY <1>1, AddKeyType, StoreAlike, MovesAlike
<1>4. Alike(Cut(consumeCurrent(q, s), st), Cut(consumeCurrent(n, t), st), b)
  BY <1>1, consumeCurrentType, consumeCurrentAlike, MovesAlike
<1> QED BY <1>2, <1>3, <1>4

\* A change of state on the way to another handler.
LEMMA GotoMatch ==
    ASSUME NEW b \in Nat, NEW s \in Text, NEW t \in Text, NEW q, NEW n, Match(q, s, n, t, b),
           NEW st \in States, st \in KeyStates => q.state \in KeyStates
    PROVE  Match(Goto(q, st), s, Goto(n, st), t, b) /\ Goto(q, st).state = st /\ Goto(n, st).state = st
<1>1. q \in ParserType /\ n \in ParserType /\ Ready(q, s) /\ Ready(n, t) /\ Alike(q, n, b) /\ q.state = n.state
  BY MatchFacts
<1>2. Ready(Goto(q, st), s) /\ Ready(Goto(n, st), t) /\ Alike(Goto(q, st), Goto(n, st), b)
  BY <1>1, GotoReady, MovesAlike
<1>3. Goto(q, st).start = q.start /\ Goto(n, st).start = n.start /\ Goto(q, st).end = q.end
  BY <1>1, Moves
<1> QED BY <1>1, <1>2, <1>3, Moves DEF Match

\* handleNextDate and handleNextHeader.
LEMMA HeaderAlike ==
    ASSUME NEW b \in Nat, NEW s \in Text, NEW t \in Text, NEW q, NEW n, Match(q, s, n, t, b),
           NEW r \in Bytes, NEW f \in HeaderFields, NEW st \in States
    PROVE  /\ Alike(handleNextDate(q, s, r, f, st), handleNextDate(n, t, r, f, st), b)
           /\ Alike(handleNextHeader(q, s, r, f, st), handleNextHeader(n, t, r, f, st), b)
<1>1. q \in ParserType /\ n \in ParserType /\ Alike(q, n, b)
  BY MatchFacts
<1>2. Alike(Extend(q), Extend(n), b) /\ Alike(Skip(q), Skip(n), b)
  BY <1>1, MovesAlike
<1>3. Alike(Cut([q EXCEPT !.current[f] = Token(q, s)], st), Cut([n EXCEPT !.current[f] = Token(n, t)], st), b)
  BY CutAlike
<1> QED BY <1>2, <1>3 DEF handleNextDate, handleNextHeader

\* handleNextKey.
LEMMA KeyAlike ==
    ASSUME NEW b \in Nat, NEW s \in Text, NEW t \in Text, NEW q, NEW n, Match(q, s, n, t, b), NEW r \in Bytes
    PROVE  Alike(handleNextKey(q, s, r), handleNextKey(n, t, r), b)
<1>1. /\ q \in ParserType /\ n \in ParserType /\ Alike(q, n, b)
      /\ q.start = q.end <=> n.start = n.end
  BY MatchFacts
<1>2. Alike(Extend(q), Extend(n), b) /\ Alike(Skip(q), Skip(n), b)
  BY <1>1, MovesAlike, Fields
<1>3. Alike(Cut(AddKey(q, Token(q, s)), "value"), Cut(AddKey(n, Token(n, t)), "value"), b)
  BY CutAlike DEF HeaderFields, States
<1> QED BY <1>1, <1>2, <1>3 DEF handleNextKey

\* handleNextValue.
LEMMA ValueAlike ==
    ASSUME NEW b \in Nat, NEW s \in Text, NEW t \in Text, NEW q, NEW n, Match(q, s, n, t, b), NEW r \in Bytes
    PROVE  Alike(handleNextValue(q, s, r), handleNextValue(n, t, r), b)
<1>1. /\ q \in ParserType /\ n \in ParserType /\ Alike(q, n, b)
      /\ q.start = q.end <=> n.start = n.end
  BY MatchFacts
<1>2. Alike(Extend(q), Extend(n), b) /\ Alike(Skip(q), Skip(n), b)
  BY <1>1, MovesAlike, Fields
<1>3. Alike(Cut(consumeCurrent(q, s), "key"), Cut(consumeCurrent(n, t), "key"), b)
  BY CutAlike DEF HeaderFields, States
<1>4. Alike(Extend(Goto(q, "multiKey")), Extend(Goto(n, "multiKey")), b)
  <2>1. /\ Goto(q, "multiKey") \in ParserType /\ Goto(n, "multiKey") \in ParserType
        /\ Alike(Goto(q, "multiKey"), Goto(n, "multiKey"), b)
    BY <1>1, MovesAlike, Moves DEF States
  <2> QED BY <2>1, MovesAlike, Fields
<1> QED BY <1>1, <1>2, <1>3, <1>4 DEF handleNextValue

\* handleNextThread and handleNextThreadBracket.
LEMMA ThreadAlike ==
    ASSUME NEW b \in Nat, NEW s \in Text, NEW t \in Text, NEW q, NEW n, Match(q, s, n, t, b), NEW r \in Bytes
    PROVE  /\ Alike(handleNextThread(q, s, r), handleNextThread(n, t, r), b)
           /\ Alike(handleNextThreadBracket(q, s, r), handleNextThreadBracket(n, t, r), b)
<1>1. q \in ParserType /\ n \in ParserType /\ Alike(q, n, b)
  BY MatchFacts
<1>2. Alike(Extend(q), Extend(n), b)
  BY <1>1, MovesAlike, Fields
<1>3. Alike(Cut([q EXCEPT !.current["thread"] = Token(q, s)], "transitionClass"),
            Cut([n EXCEPT !.current["thread"] = Token(n, t)], "transitionClass"), b)
  BY CutAlike DEF HeaderFields, States
<1>4. Alike(Skip(Goto(q, "threadBracket")), Skip(Goto(n, "threadBracket")), b)
  <2>1. /\ Goto(q, "threadBracket") \in ParserType /\ Goto(n, "threadBracket") \in ParserType
        /\ Alike(Goto(q, "threadBracket"), Goto(n, "threadBracket"), b)
    BY <1>1, MovesAlike, Moves DEF States
  <2> QED BY <2>1, MovesAlike, Fields
<1>5. Alike(handleNextHeader(Goto(q, "threadNoBracket"), s, r, "thread", "transitionClass"),
            handleNextHeader(Goto(n, "threadNoBracket"), t, r, "thread", "transitionClass"), b)
  <2>1. Match(Goto(q, "threadNoBracket"), s, Goto(n, "threadNoBracket"), t, b)
    BY GotoMatch DEF States, KeyStates
  <2> QED BY <2>1, HeaderAlike DEF HeaderFields, States
<1> QED BY <1>2, <1>3, <1>4, <1>5 DEF handleNextThread, handleNextThreadBracket

\* handleNextCallType.
LEMMA CallTypeAlike ==
    ASSUME NEW b \in Nat, NEW s \in Text, NEW t \in Text, NEW q, NEW n, Match(q, s, n, t, b), NEW r \in Bytes
    PROVE  Alike(handleNextCallType(q, s, r), handleNextCallType(n, t, r), b)
<1> DEFINE a == AddKey(q, KeyCallType)
           c == AddKey(n, KeyCallType)
<1>1. /\ q \in ParserType /\ n \in ParserType /\ Alike(q, n, b) /\ Ready(q, s) /\ Ready(n, t)
      /\ Token(q, s) = Token(n, t)
  BY MatchFacts
<1>2. KeyCallType \in Text
  <2>1. "char" \in Bytes
    BY DEF Bytes
  <2> QED BY <2>1 DEF KeyCallType, Text
<1>3. /\ a \in ParserType /\ a.state = q.state /\ a.start = q.start /\ a.end = q.end /\ LastProp(a) > 0
      /\ c \in ParserType /\ c.state = n.state /\ c.start = n.start /\ c.end = n.end /\ LastProp(c) > 0
  BY <1>1, <1>2, AddKeyType
<1>4. Alike(a, c, b)
  BY <1>1, <1>2, StoreAlike DEF HeaderFields
<1> HIDE DEF a, c
<1>5. Ready(a, s) /\ Ready(c, t) /\ Token(a, s) = Token(c, t)
  BY <1>1, <1>3 DEF Ready, Token
<1>6. Alike(consumeCurrent(a, s), consumeCurrent(c, t), b)
  BY <1>4, <1>5, consumeCurrentAlike
<1>7. consumeCurrent(a, s) \in ParserType /\ consumeCurrent(c, t) \in ParserType
  BY <1>5, consumeCurrentType
<1>8. Alike(Cut(consumeCurrent(a, s), "verifyCallType"), Cut(consumeCurrent(c, t), "verifyCallType"), b)
  BY <1>6, <1>7, MovesAlike DEF States
<1>9. Alike(Extend(q), Extend(n), b)
  BY <1>1, MovesAlike, Fields
<1> QED BY <1>8, <1>9 DEF handleNextCallType, a, c

\* verifyCallType.
LEMMA VerifyAlike ==
    ASSUME NEW b \in Nat, NEW s \in Text, NEW t \in Text, NEW q, NEW n, Match(q, s, n, t, b), NEW r \in Bytes,
           q.state = "verifyCallType"
    PROVE  Alike(verifyCallType(q, s, r), verifyCallType(n, t, r), b)
<1> DEFINE e == [q.current.props[1] EXCEPT !.key = q.current.props[1].value]
<1>1. /\ q \in ParserType /\ n \in ParserType /\ 1 \in 1 .. LastProp(q) /\ Ready(q, s) /\ Ready(n, t)
      /\ LastProp(q) = LastProp(n) /\ q.current = n.current /\ Alike(q, n, b)
  BY MatchFacts DEF Ready, KeyStates
<1>2. e \in Property
  <2>1. q.current.props[1] \in Property
    BY <1>1, Fields, ElementOfSeq DEF LastProp
  <2> QED BY <2>1 DEF Property
<1>3. [q EXCEPT !.current.props[1].key = q.current.props[1].value] = WithProp(q, 1, e)
  BY <1>1 DEF WithProp, ParserType, Log
<1>4. [n EXCEPT !.current.props[1].key = n.current.props[1].value] = WithProp(n, 1, e)
  BY <1>1 DEF WithProp, ParserType, Log
<1> HIDE DEF e
<1>5. Match(WithProp(q, 1, e), s, WithProp(n, 1, e), t, b)
  <2>1. /\ WithProp(q, 1, e) \in ParserType /\ WithProp(n, 1, e) \in ParserType
        /\ WithProp(q, 1, e).start = q.start /\ WithProp(n, 1, e).start = n.start
        /\ WithProp(q, 1, e).end = q.end /\ WithProp(n, 1, e).end = n.end
        /\ WithProp(q, 1, e).state = q.state /\ WithProp(n, 1, e).state = n.state
        /\ LastProp(WithProp(q, 1, e)) = LastProp(q) /\ LastProp(WithProp(n, 1, e)) = LastProp(n)
    BY <1>1, <1>2, EditType
  <2>2. Alike(WithProp(q, 1, e), WithProp(n, 1, e), b)
    BY <1>1, <1>2, EditAlike
  <2>3. Ready(WithProp(q, 1, e), s) /\ Ready(WithProp(n, 1, e), t)
    BY <1>1, <2>1 DEF Ready
  <2> QED BY <2>1, <2>2, <2>3 DEF Match
<1>6. Alike(handleNextValue(WithProp(q, 1, e), s, r), handleNextValue(WithProp(n, 1, e), t, r), b)
  BY <1>5, ValueAlike
<1>7. Alike(handleNextKey(q, s, r), handleNextKey(n, t, r), b)
  BY KeyAlike
<1> QED BY <1>3, <1>4, <1>6, <1>7 DEF verifyCallType

\* handleNextMultiKey.
LEMMA MultiKeyAlike ==
    ASSUME NEW b \in Nat, NEW s \in Text, NEW t \in Text, NEW q, NEW n, Match(q, s, n, t, b), NEW r \in Bytes,
           q.state = "multiKey", ~BadMultiKey(q, r)
    PROVE  Alike(handleNextMultiKey(q, s, r), handleNextMultiKey(n, t, r), b)
<1>1. /\ q \in ParserType /\ n \in ParserType /\ LastProp(q) \in 1 .. LastProp(q) /\ Ready(q, s) /\ Ready(n, t)
      /\ LastProp(q) = LastProp(n) /\ q.current = n.current /\ Alike(q, n, b)
      /\ q.start \in Nat /\ q.end \in Nat /\ n.end = q.end + b
  BY MatchFacts DEF Ready, KeyStates
<1>2. CASE r = "sp"
  <2> DEFINE e == [key |-> SubSeq(s, q.start + 1, q.end - 1), value |-> NoText]
  <2>1. q.end - 1 \in 0 .. q.end /\ (q.end - 1) + b = n.end - 1 /\ q.end - 1 \in Nat /\ q.end - 1 <= Len(s)
    <3>1. q.end - 1 >= q.start /\ q.end < Len(s) /\ Len(s) \in Nat
      BY <1>1, <1>2 DEF BadMultiKey, Ready, Text
    <3> QED BY <1>1, <3>1
  <2>2. SubSeq(s, q.start + 1, q.end - 1) = SubSeq(t, n.start + 1, n.end - 1)
    BY <2>1 DEF Match
  <2>3. e \in Property
    <3>1. SubSeq(s, q.start + 1, q.end - 1) \in Text
      BY <1>1, <2>1, SliceType
    <3> QED BY <3>1 DEF Property, NoText, Text
  <2>4. Alike(Cut(WithProp(q, LastProp(q), e), "value"), Cut(WithProp(n, LastProp(n), e), "value"), b)
    <3> HIDE DEF e
    <3> QED BY <1>1, <2>3, EditType, EditAlike, MovesAlike DEF States
  <2> QED BY <1>2, <2>2, <2>4 DEF handleNextMultiKey, WithProp
<1>3. CASE r # "sp"
  <2>1. /\ Goto(q, "value") \in ParserType /\ Goto(n, "value") \in ParserType
        /\ Alike(Goto(q, "value"), Goto(n, "value"), b)
    BY <1>1, MovesAlike, Moves DEF States
  <2>2. Alike(Extend(Goto(q, "value")), Extend(Goto(n, "value")), b)
    BY <2>1, MovesAlike, Fields
  <2> QED BY <1>3, <2>2 DEF handleNextMultiKey
<1> QED BY <1>2, <1>3

\* One rune keeps matching parsers alike, outside of the transition states ...
LEMMA InTokenAlike ==
    ASSUME NEW b \in Nat, NEW s \in Text, NEW t \in Text, NEW q, NEW n, Match(q, s, n, t, b), NEW r \in Bytes,
           ~BadMultiKey(q, r), q.state \notin DOMAIN After
    PROVE  Alike(InToken(q, s, r), InToken(n, t, r), b)
<1>0. q.state = n.state /\ q.state \in States
  <2>1. q.state = n.state /\ q \in ParserType
    BY MatchFacts
  <2> QED BY <2>1, Fields
<1>1. CASE q.state \in {"date", "time"}
  BY <1>0, <1>1, HeaderAlike DEF InToken, HeaderFields, States
<1>2. CASE q.state \in {"level", "threadNoBracket", "class"}
  BY <1>0, <1>2, HeaderAlike DEF InToken, HeaderFields, States
<1>3. CASE q.state \in {"thread", "threadBracket"}
  BY <1>0, <1>3, ThreadAlike DEF InToken
<1>4. CASE q.state = "callType"
  BY <1>0, <1>4, CallTypeAlike DEF InToken
<1>5. CASE q.state = "verifyCallType"
  BY <1>0, <1>5, VerifyAlike DEF InToken
<1>6. CASE q.state \in {"key", "value"}
  BY <1>0, <1>6, KeyAlike, ValueAlike DEF InToken
<1>7. CASE q.state = "multiKey"
  BY <1>0, <1>7, MultiKeyAlike DEF InToken
<1> QED BY <1>0, <1>1, <1>2, <1>3, <1>4, <1>5, <1>6, <1>7 DEF States, After

\* ... and in any state: no handler looks at an offset but through the token.
LEMMA NextAlike ==
    ASSUME NEW b \in Nat, NEW s \in Text, NEW t \in Text, NEW q, NEW n, Match(q, s, n, t, b), NEW r \in Bytes,
           ~BadMultiKey(q, r)
    PROVE  Alike(next(q, s, r), next(n, t, r), b)
<1>0. q.state = n.state /\ q \in ParserType /\ n \in ParserType /\ Alike(q, n, b)
  BY MatchFacts
<1>1. CASE q.state \notin DOMAIN After
  BY <1>0, <1>1, InTokenAlike DEF next
<1>2. CASE q.state \in DOMAIN After
  <2>1. After[q.state] \in {"level", "thread", "class", "callType"}
    <3>1. q.state \in {"transitionLevel", "transitionThread", "transitionClass", "transitionCallType"}
      BY <1>2 DEF After
    <3> QED BY <3>1 DEF After
  <2>2. Alike(Skip(q), Skip(n), b)
    BY <1>0, MovesAlike, Fields
  <2>3. Alike(InToken(Goto(q, After[q.state]), s, r), InToken(Goto(n, After[q.state]), t, r), b)
    <3> DEFINE a == Goto(q, After[q.state])
               c == Goto(n, After[q.state])
    <3>1. Match(a, s, c, t, b) /\ a.state = After[q.state]
      BY <2>1, GotoMatch DEF States, KeyStates
    <3> HIDE DEF a, c
    <3>2. a.state \notin DOMAIN After /\ ~BadMultiKey(a, r)
      BY <2>1, <3>1 DEF After, BadMultiKey
    <3> QED BY <3>1, <3>2, InTokenAlike DEF a, c
  <2> QED BY <1>0, <1>2, <2>2, <2>3 DEF next
<1> QED BY <1>1, <1>2
-----------------------------------------------------------------------------
(* The scan of a plain text *)

\* A part of a text, and a slice of the part.
LEMMA Slices ==
    ASSUME NEW t \in Text, NEW b \in Nat, NEW f \in Nat, b <= f, f <= Len(t)
    PROVE  LET s == SubSeq(t, b + 1, f)
           IN  /\ s \in Text /\ Len(s) = f - b
               /\ \A k \in 1 .. f - b : s[k] = t[b + k]
               /\ \A a, y \in Nat : y <= f - b => SubSeq(s, a + 1, y) = SubSeq(t, a + b + 1, y + b)
<1> DEFINE s == SubSeq(t, b + 1, f)
<1>1. \A k \in b + 1 .. f : t[k] \in Bytes
  BY DEF Text
<1>2. s \in Seq(Bytes) /\ Len(s) = f - b /\ \A k \in 1 .. f - b : s[k] = t[b + k]
  <2>1. /\ s \in Seq(Bytes)
        /\ Len(s) = IF b + 1 <= f THEN f - (b + 1) + 1 ELSE 0
        /\ \A k \in 1 .. f - (b + 1) + 1 : s[k] = t[b + 1 + k - 1]
    BY <1>1, SubSeqProperties
  <2> HIDE DEF s
  <2>2. Len(s) = f - b
    BY <2>1
  <2>3. \A k \in 1 .. f - b : s[k] = t[b + k]
    <3> TAKE k \in 1 .. f - b
    <3>1. k \in 1 .. f - (b + 1) + 1 /\ b + 1 + k - 1 = b + k
      OBVIOUS
    <3> QED BY <2>1, <3>1
  <2> QED BY <2>1, <2>2, <2>3
<1> HIDE DEF s
<1>3. ASSUME NEW a \in Nat, NEW y \in Nat, y <= f - b
      PROVE  SubSeq(s, a + 1, y) = SubSeq(t, a + b + 1, y + b)
  <2> DEFINE u == SubSeq(s, a + 1, y)
             v == SubSeq(t, a + b + 1, y + b)
  <2>1. \A k \in a + 1 .. y : s[k] = t[b + k] /\ s[k] \in Bytes
    BY <1>1, <1>2, <1>3
  <2>2. \A k \in a + b + 1 .. y + b : t[k] \in Bytes
    BY <1>1, <1>3
  <2>3. /\ u \in Seq(Bytes)
        /\ Len(u) = IF a + 1 <= y THEN y - (a + 1) + 1 ELSE 0
        /\ \A k \in 1 .. y - (a + 1) + 1 : u[k] = s[a + 1 + k - 1]
    BY <2>1, SubSeqProperties
  <2>4. /\ v \in Seq(Bytes)
        /\ Len(v) = IF a + b + 1 <= y + b THEN y + b - (a + b + 1) + 1 ELSE 0
        /\ \A k \in 1 .. y + b - (a + b + 1) + 1 : v[k] = t[a + b + 1 + k - 1]
    BY <2>2, SubSeqProperties
  <2> HIDE DEF u, v
  <2>5. Len(u) = Len(v) /\ Len(u) = IF a + 1 <= y THEN y - a ELSE 0
    BY <2>3, <2>4
  <2>6. \A k \in 1 .. Len(u) : u[k] = v[k]
    <3> TAKE k \in 1 .. Len(u)
    <3>1. /\ k \in 1 .. y - (a + 1) + 1 /\ k \in 1 .. y + b - (a + b + 1) + 1 /\ a + k \in a + 1 .. y
          /\ a + 1 + k - 1 = a + k /\ a + b + 1 + k - 1 = b + (a + k)
      BY <2>5
    <3>2. u[k] = s[a + k]
      BY <2>3, <3>1
    <3>3. v[k] = t[b + (a + k)]
      BY <2>4, <3>1
    <3> QED BY <2>1, <3>1, <3>2, <3>3
  <2>7. u = v
    BY <2>3, <2>4, <2>5, <2>6, SeqEqual
  <2> QED BY <2>7 DEF u, v
<1> QED BY <1>2, <1>3 DEF s, Text

\* A slice of a part of a text.
LEMMA SliceOfSlice ==
    ASSUME NEW t \in Text, NEW b \in Nat, NEW f \in Nat, b <= f, f <= Len(t),
           NEW a \in Nat, NEW y \in Nat, y <= f - b
    PROVE  SubSeq(SubSeq(t, b + 1, f), a + 1, y) = SubSeq(t, a + b + 1, y + b)
<1>1. \A c, z \in Nat : z <= f - b => SubSeq(SubSeq(t, b + 1, f), c + 1, z) = SubSeq(t, c + b + 1, z + b)
  BY Slices
<1> QED BY <1>1

\* The values of a scan.
ScanType == [p : ParserType, logs : Seq(Log)]
OneByte(s) == \A k \in 0 .. Len(s) - 1 : Width(s, k) = 1

\* One byte of a text of one-byte runes.
LEMMA ScanStep ==
    ASSUME NEW s \in Text, OneByte(s), NEW k \in 0 .. Len(s) - 1, Scan(s)[k] \in ScanType
    PROVE  /\ s[k + 1] = "nl" => Scan(s)[k + 1] = [p |-> EndOfLine(k),
                 logs |-> Append(Scan(s)[k].logs, consumeLog(Scan(s)[k].p, s).current)]
           /\ s[k + 1] # "nl" => /\ Scan(s)[k + 1].p = next(Scan(s)[k].p, s, s[k + 1])
                                 /\ Scan(s)[k + 1].logs = Scan(s)[k].logs
                                 /\ Scan(s)[k + 1] = [p |-> Scan(s)[k + 1].p, logs |-> Scan(s)[k + 1].logs]
<1>1. Len(s) \in Nat
  BY DEF Text
<1>2. k + 1 \in 1 .. Len(s) /\ (k + 1) - 1 = k
  BY <1>1
<1>3. Scan(s)[k + 1] = ScanByte(Scan(s)[k], s, k + 1)
  <2> HIDE DEF Scan
  <2>1. \A j \in 1 .. Len(s) : Scan(s)[j] = ScanByte(Scan(s)[j - 1], s, j)
    BY <1>1, ScanUnfolds
  <2> QED BY <1>2, <2>1
<1>4. ~(k + 1 > 1 /\ Width(s, (k + 1) - 2) = 2)
  <2>1. k + 1 > 1 => (k + 1) - 2 \in 0 .. Len(s) - 1
    BY <1>1
  <2> QED BY <2>1 DEF OneByte
<1> DEFINE b == Scan(s)[k]
<1>5. b \in ScanType
  OBVIOUS
<1> HIDE DEF b
<1>6. CASE s[k + 1] = "nl"
  <2>1. Scan(s)[k + 1] = [p |-> EndOfLine(k), logs |-> Append(b.logs, consumeLog(b.p, s).current)]
    <3>1. Scan(s)[k + 1] = [p |-> EndOfLine((k + 1) - 1), logs |-> Append(b.logs, consumeLog(b.p, s).current)]
      BY <1>3, <1>4, <1>6 DEF ScanByte, b
    <3> QED BY <1>2, <3>1
  <2> QED BY <1>6, <2>1 DEF b
<1>7. CASE s[k + 1] # "nl"
  <2>1. Scan(s)[k + 1] = [b EXCEPT !.p = next(b.p, s, s[k + 1])]
    BY <1>3, <1>4, <1>7 DEF ScanByte, b
  <2>2. [b EXCEPT !.p = next(b.p, s, s[k + 1])] = [p |-> next(b.p, s, s[k + 1]), logs |-> b.logs]
    BY <1>5 DEF ScanType
  <2> QED BY <1>7, <2>1, <2>2 DEF b
<1> QED BY <1>6, <1>7

\* The state from which the first byte of the token was taken.
Rest(st) == IF st = "multiKey" THEN "value" ELSE st

\* n is where q was once its token had one byte.
FirstOf(q, n) ==
    /\ n.state = Rest(q.state) /\ n.current = q.current
    /\ n.start = q.start /\ n.end = q.start + 1

\* The parser after m bytes of t has read all of them, and if it is in a token, its
\* first byte was taken from the state that the carry-over scans it from again.
Kept(t, m) ==
    /\ Scan(t)[m] \in ScanType
    /\ Scan(t)[m].p.start <= m /\ Scan(t)[m].p.end = m
    /\ Scan(t)[m].p.state \in KeyStates => LastProp(Scan(t)[m].p) > 0
    /\ Scan(t)[m].p.state = "multiKey" => Scan(t)[m].p.start < m
    /\ Scan(t)[m].p.start < m =>
          /\ Joins(Scan(t)[m].p.state, t[Scan(t)[m].p.start + 1])
          /\ FirstOf(Scan(t)[m].p, Scan(t)[Scan(t)[m].p.start + 1].p)
          /\ Scan(t)[Scan(t)[m].p.start + 1].logs = Scan(t)[m].logs

\* The parser at the beginning of a text has its type.
LEMMA NewParserType == NewParser \in ParserType
<1>1. EmptyLog \in Log
  BY DEF EmptyLog, Log, NoText, Text
<1> QED BY <1>1 DEF NewParser, ParserType, States

\* Kept holds at the beginning,
LEMMA KeptInit ==
    ASSUME NEW t \in Text
    PROVE  Kept(t, 0)
<1>1. Scan(t)[0] = [p |-> NewParser, logs |-> <<>>]
  BY ScanUnfolds DEF Text
<1>2. /\ NewParser.start = 0 /\ NewParser.end = 0 /\ NewParser.state = "date"
  BY DEF NewParser
<1>3. [p |-> NewParser, logs |-> <<>>] \in ScanType
  BY NewParserType DEF ScanType
<1> QED BY <1>1, <1>2, <1>3 DEF Kept, KeyStates

\* lets the parser take the next rune
LEMMA KeptReady ==
    ASSUME NEW t \in Text, NEW m \in 0 .. Len(t) - 1, Kept(t, m)
    PROVE  /\ Ready(Scan(t)[m].p, t) /\ Settled(Scan(t)[m].p) /\ t[m + 1] \in Bytes
           /\ ~BadMultiKey(Scan(t)[m].p, t[m + 1])
<1> DEFINE q == Scan(t)[m].p
<1>1. q \in ParserType /\ q.start <= m /\ q.end = m /\ q.start \in Nat /\ m \in Nat
  BY Fields DEF Kept, ScanType
<1>2. Len(t) \in Nat /\ t[m + 1] \in Bytes
  BY DEF Text
<1>3. /\ q.state \in KeyStates => LastProp(q) > 0
      /\ q.state = "multiKey" => q.start < m
      /\ q.start < m => Joins(q.state, t[q.start + 1])
  BY DEF Kept
<1> HIDE DEF q
<1>4. Ready(q, t)
  BY <1>1, <1>2, <1>3 DEF Ready
<1>5. Settled(q)
  <2>1. q.start # q.end => Joins(q.state, t[q.start + 1])
    BY <1>1, <1>3
  <2>2. q.state \in {"transitionLevel", "transitionThread", "transitionClass", "transitionCallType", "thread"}
           => ~Joins(q.state, t[q.start + 1])
    BY DEF Joins
  <2> QED BY <1>1, <1>3, <2>1, <2>2 DEF Settled
<1>6. ~BadMultiKey(q, t[m + 1])
  BY <1>1, <1>3 DEF BadMultiKey
<1> QED BY <1>2, <1>4, <1>5, <1>6 DEF q

\* and holds after it,
LEMMA KeptStep ==
    ASSUME NEW t \in Text, Plain(t), NEW m \in 0 .. Len(t) - 1, Kept(t, m)
    PROVE  Kept(t, m + 1)
<1> DEFINE q == Scan(t)[m].p
           n == Scan(t)[m + 1].p
           a == q.start + 1
<1>1. OneByte(t) /\ Clean(q, t[m + 1])
  BY DEF Plain, OneByte
<1>2. Ready(q, t) /\ Settled(q) /\ t[m + 1] \in Bytes /\ ~BadMultiKey(q, t[m + 1])
  BY KeptReady
<1>3. Scan(t)[m] \in ScanType /\ q \in ParserType /\ q.start <= m /\ q.end = m /\ q.start \in Nat /\ m \in Nat
  BY Fields DEF Kept, ScanType
<1>4. CASE t[m + 1] = "nl"
  <2>1. Scan(t)[m + 1] = [p |-> EndOfLine(m), logs |-> Append(Scan(t)[m].logs, consumeLog(q, t).current)]
    BY <1>1, <1>3, <1>4, ScanStep
  <2>2. EndOfLine(m) \in ParserType /\ consumeLog(q, t).current \in Log
    BY <1>2, <1>3, EndOfLineType, consumeLogType
  <2>3. Append(Scan(t)[m].logs, consumeLog(q, t).current) \in Seq(Log)
    BY <1>3, <2>2 DEF ScanType
  <2>4. Scan(t)[m + 1] \in ScanType
    BY <2>1, <2>2, <2>3 DEF ScanType
  <2>5. n.start = m + 1 /\ n.end = m + 1 /\ n.state = "date"
    BY <2>1 DEF EndOfLine
  <2> QED BY <1>3, <2>4, <2>5 DEF Kept, KeyStates
<1>5. CASE t[m + 1] # "nl"
  <2>1. n = next(q, t, t[m + 1]) /\ Scan(t)[m + 1].logs = Scan(t)[m].logs
        /\ Scan(t)[m + 1] = [p |-> n, logs |-> Scan(t)[m].logs]
    BY <1>1, <1>3, <1>5, ScanStep
  <2>2. Moved(q, n)
    BY <1>2, <2>1, NextMoves
  <2>3. Shape(q, n, t[m + 1])
    BY <1>1, <1>2, <1>5, <2>1, NextShape
  <2>4. Scan(t)[m + 1] \in ScanType
    BY <1>3, <2>1, <2>2 DEF ScanType, Moved
  <2>5. n.state \in KeyStates => LastProp(n) > 0
    BY <2>2 DEF Moved
  <2>6. CASE Fresh(q, n)
    BY <1>3, <2>4, <2>5, <2>6 DEF Kept, Fresh
  <2>7. CASE Grown(q, n, t[m + 1])
    <3>1. n.start = q.start /\ n.end = m + 1 /\ n.current = q.current
      BY <1>3, <2>7 DEF Grown
    <3>2. n.start <= m + 1 /\ n.start < m + 1
      BY <1>3, <3>1
    <3>3. CASE q.start = q.end
      <4>1. Joins(n.state, t[m + 1]) /\ n.state # "multiKey" /\ q.start = m
        BY <1>3, <2>7, <3>3 DEF Grown
      <4>2. FirstOf(n, n)
        BY <3>1, <4>1 DEF FirstOf, Rest
      <4> QED BY <2>4, <2>5, <3>1, <3>2, <4>1, <4>2 DEF Kept
    <3>4. CASE q.start # q.end
      <4>1. q.start < m
        BY <1>3, <3>4
      <4>2. /\ Joins(q.state, t[a]) /\ FirstOf(q, Scan(t)[a].p)
            /\ Scan(t)[a].logs = Scan(t)[m].logs
        BY <4>1 DEF Kept
      <4>3. n.state = q.state \/ {n.state, q.state} \subseteq {"value", "multiKey"}
        BY <2>7, <3>4 DEF Grown
      <4>4. Joins(n.state, t[a]) /\ Rest(n.state) = Rest(q.state)
        BY <4>2, <4>3 DEF Joins, Rest
      <4>5. FirstOf(n, Scan(t)[a].p)
        BY <3>1, <4>2, <4>4 DEF FirstOf
      <4>6. n.start + 1 = a /\ Scan(t)[a].logs = Scan(t)[m + 1].logs
        BY <2>1, <3>1, <4>2
      <4> HIDE DEF a, n
      <4> QED BY <2>4, <2>5, <3>1, <3>2, <4>4, <4>5, <4>6 DEF Kept, n
    <3> QED BY <3>3, <3>4
  <2> QED BY <2>3, <2>6, <2>7 DEF Shape
<1> QED BY <1>4, <1>5

\* and so at every byte of a plain text.
LEMMA KeptAll ==
    ASSUME NEW t \in Text, Plain(t)
    PROVE  \A m \in 0 .. Len(t) : Kept(t, m)
<1> DEFINE U == {m \in 0 .. Len(t) : Kept(t, m)}
<1>1. Len(t) \in Nat
  BY DEF Text
<1>2. 0 \in U
  BY <1>1, KeptInit
<1>3. \A k \in 0 .. Len(t) - 1 : k \in U => k + 1 \in U
  BY <1>1, KeptStep
<1>4. \A k \in 0 .. Len(t) : k \in U
  <2> HIDE DEF U
  <2> QED BY <1>1, <1>2, <1>3, UpTo
<1> QED BY <1>4
-----------------------------------------------------------------------------
(* The scan of a part of the text *)

\* A parser over the bytes of t from b to f matches one over t that it is like.
LEMMA SliceMatch ==
    ASSUME NEW t \in Text, NEW b \in Nat, NEW f \in Nat, b <= f, f <= Len(t),
           NEW q, NEW n, Ready(q, SubSeq(t, b + 1, f)), Ready(n, t), Alike(q, n, b)
    PROVE  Match(q, SubSeq(t, b + 1, f), n, t, b)
<1> DEFINE s == SubSeq(t, b + 1, f)
<1>1. /\ Len(s) = f - b
      /\ \A a, y \in Nat : y <= f - b => SubSeq(s, a + 1, y) = SubSeq(t, a + b + 1, y + b)
  BY Slices
<1>2. q.start \in Nat /\ q.end \in Nat /\ q.end < Len(s) /\ n.start = q.start + b
  BY Fields DEF Ready, Alike
<1> HIDE DEF s
<1>3. \A y \in 0 .. q.end : SubSeq(s, q.start + 1, y) = SubSeq(t, n.start + 1, y + b)
  <2> TAKE y \in 0 .. q.end
  <2>1. y \in Nat /\ y <= f - b
    BY <1>1, <1>2
  <2>2. SubSeq(s, q.start + 1, y) = SubSeq(t, q.start + b + 1, y + b)
    BY <1>1, <1>2, <2>1
  <2> QED BY <1>2, <2>2
<1> QED BY <1>3 DEF Match, s

\* A part of a text of one-byte runes is one.
LEMMA PrefixOneByte ==
    ASSUME NEW t \in Text, OneByte(t), NEW b \in Nat, NEW f \in Nat, b <= f, f <= Len(t)
    PROVE  OneByte(SubSeq(t, b + 1, f))
<1> DEFINE s == SubSeq(t, b + 1, f)
<1>1. Len(s) = f - b /\ \A k \in 1 .. f - b : s[k] = t[b + k]
  BY Slices
<1>2. Len(t) \in Nat
  BY DEF Text
<1> HIDE DEF s
<1>3. ASSUME NEW k \in 0 .. Len(s) - 1, Width(s, k) # 1
      PROVE  FALSE
  <2>1. s[k + 1] = "wide" /\ k + 2 <= Len(s) /\ s[k + 2] = "wide2"
    BY <1>3 DEF Width
  <2>2. k + 1 \in 1 .. f - b /\ k + 2 \in 1 .. f - b /\ b + (k + 1) = (b + k) + 1 /\ b + (k + 2) = (b + k) + 2
    BY <1>1, <2>1
  <2>3. t[(b + k) + 1] = "wide" /\ t[(b + k) + 2] = "wide2"
    <3>1. s[k + 1] = t[b + (k + 1)] /\ s[k + 2] = t[b + (k + 2)]
      BY <1>1, <2>2
    <3> QED BY <2>1, <2>2, <3>1
  <2>4. b + k \in 0 .. Len(t) - 1 /\ (b + k) + 2 <= Len(t)
    BY <1>1, <1>2, <2>2
  <2>5. Width(t, b + k) = 2
    BY <2>3, <2>4 DEF Width
  <2> QED BY <2>4, <2>5 DEF OneByte
<1> QED BY <1>3 DEF OneByte, s

\* The scans of s and of t are the same after k bytes.
SameScan(s, t, k) ==
    /\ Scan(s)[k] \in ScanType
    /\ Alike(Scan(s)[k].p, Scan(t)[k].p, 0)
    /\ Scan(s)[k].logs = Scan(t)[k].logs

\* One more byte of the prefix.
LEMMA SameStep ==
    ASSUME NEW t \in Text, Plain(t), NEW f \in 0 .. Len(t), NEW k \in 0 .. f - 1,
           SameScan(SubSeq(t, 1, f), t, k)
    PROVE  SameScan(SubSeq(t, 1, f), t, k + 1)
<1> DEFINE s == SubSeq(t, 0 + 1, f)
           q == Scan(s)[k].p
           n == Scan(t)[k].p
           r == t[k + 1]
<1>0. SubSeq(t, 1, f) = s /\ f \in Nat /\ 0 \in Nat /\ 0 <= f /\ f <= Len(t) /\ Len(t) \in Nat
  BY DEF Text
<1>1. s \in Text /\ Len(s) = f /\ s[k + 1] = r
  <2>1. s \in Text /\ Len(s) = f - 0 /\ \A j \in 1 .. f - 0 : s[j] = t[0 + j]
    BY <1>0, Slices
  <2> HIDE DEF s
  <2> QED BY <1>0, <2>1
<1>2. OneByte(t) /\ OneByte(s)
  <2>1. OneByte(t)
    BY DEF Plain, OneByte
  <2> QED BY <1>0, <2>1, PrefixOneByte
<1>3. k \in 0 .. Len(t) - 1 /\ k \in 0 .. Len(t) /\ k \in 0 .. Len(s) - 1
  BY <1>0, <1>1
<1>4. Kept(t, k)
  BY <1>3, KeptAll
<1>5. Ready(n, t) /\ r \in Bytes /\ ~BadMultiKey(n, r) /\ Scan(t)[k] \in ScanType
  BY <1>3, <1>4, KeptReady DEF Kept
<1>6. Scan(s)[k] \in ScanType /\ Alike(q, n, 0) /\ Scan(s)[k].logs = Scan(t)[k].logs
  BY <1>0 DEF SameScan
<1>7. Ready(q, s) /\ ~BadMultiKey(q, r)
  <2>1. /\ q \in ParserType /\ q.start = n.start /\ q.end = n.end
        /\ q.state = n.state /\ q.current = n.current /\ n.end = k /\ n.start <= n.end
    <3>1. q \in ParserType /\ n \in ParserType
      BY <1>5, <1>6 DEF ScanType
    <3>2. n.end = k
      BY <1>4 DEF Kept
    <3> HIDE DEF q, n
    <3> QED BY <1>5, <1>6, <3>1, <3>2, Fields DEF Alike, Ready
  <2> HIDE DEF q, n, s
  <2>2. LastProp(q) = LastProp(n) /\ q.end < Len(s)
    BY <1>1, <2>1 DEF LastProp
  <2> QED BY <1>5, <2>1, <2>2 DEF Ready, BadMultiKey
<1>8. Match(q, s, n, t, 0)
  BY <1>0, <1>5, <1>6, <1>7, SliceMatch
<1>9. CASE r = "nl"
  <2>1. Scan(s)[k + 1] = [p |-> EndOfLine(k), logs |-> Append(Scan(s)[k].logs, consumeLog(q, s).current)]
    BY <1>1, <1>2, <1>3, <1>6, <1>9, ScanStep
  <2>2. Scan(t)[k + 1] = [p |-> EndOfLine(k), logs |-> Append(Scan(t)[k].logs, consumeLog(n, t).current)]
    BY <1>2, <1>3, <1>5, <1>9, ScanStep
  <2>3. consumeLog(q, s).current = consumeLog(n, t).current
    <3> HIDE DEF q, n, s
    <3> QED BY <1>0, <1>1, <1>8, consumeLogAlike
  <2>4. Scan(s)[k + 1] = Scan(t)[k + 1]
    BY <1>6, <2>1, <2>2, <2>3
  <2>5. Kept(t, k + 1)
    BY <1>3, <1>4, KeptStep
  <2>6. Scan(s)[k + 1] \in ScanType /\ Scan(t)[k + 1].p.start \in Nat /\ Scan(t)[k + 1].p.end \in Nat
    BY <2>4, <2>5, Fields DEF Kept, ScanType
  <2> QED BY <1>0, <2>4, <2>6 DEF SameScan, Alike
<1>10. CASE r # "nl"
  <2>1. /\ Scan(s)[k + 1].p = next(q, s, r) /\ Scan(s)[k + 1].logs = Scan(s)[k].logs
        /\ Scan(s)[k + 1] = [p |-> Scan(s)[k + 1].p, logs |-> Scan(s)[k + 1].logs]
    BY <1>1, <1>2, <1>3, <1>6, <1>10, ScanStep
  <2>2. Scan(t)[k + 1].p = next(n, t, r) /\ Scan(t)[k + 1].logs = Scan(t)[k].logs
    BY <1>2, <1>3, <1>5, <1>10, ScanStep
  <2>3. Alike(next(q, s, r), next(n, t, r), 0)
    BY <1>0, <1>1, <1>5, <1>7, <1>8, NextAlike
  <2>4. Moved(q, next(q, s, r))
    BY <1>1, <1>5, <1>7, NextMoves
  <2>5. Scan(s)[k + 1] \in ScanType
    BY <1>6, <2>1, <2>4 DEF Moved, ScanType
  <2> QED BY <1>0, <1>6, <2>1, <2>2, <2>3, <2>5 DEF SameScan
<1> QED BY <1>9, <1>10

\* What is read of a plain text does not depend on what follows.
LEMMA WholePrefix ==
    ASSUME NEW t \in Text, Plain(t), NEW f \in 0 .. Len(t)
    PROVE  WholeParse(SubSeq(t, 1, f)).logs = Scan(t)[f].logs
<1> DEFINE s == SubSeq(t, 1, f)
           U == {k \in 0 .. f : SameScan(s, t, k)}
<1>1. f \in Nat /\ s \in Text /\ Len(s) = f
  <2>1. f \in Nat /\ f <= Len(t) /\ 0 \in Nat /\ 0 + 1 = 1 /\ f - 0 = f
    BY DEF Text
  <2>2. SubSeq(t, 0 + 1, f) \in Text /\ Len(SubSeq(t, 0 + 1, f)) = f - 0
    BY <2>1, Slices
  <2> QED BY <2>1, <2>2
<1>2. 0 \in U
  <2>1. Scan(s)[0] = [p |-> NewParser, logs |-> <<>>] /\ Scan(t)[0] = [p |-> NewParser, logs |-> <<>>]
    BY <1>1, ScanUnfolds DEF Text
  <2>2. NewParser.start + 0 = NewParser.start /\ NewParser.end + 0 = NewParser.end
    BY DEF NewParser
  <2>3. Scan(s)[0] \in ScanType
    BY <1>1, KeptInit DEF Kept
  <2> QED BY <1>1, <2>1, <2>2, <2>3 DEF SameScan, Alike
<1>3. \A k \in 0 .. f - 1 : k \in U => k + 1 \in U
  BY <1>1, SameStep
<1>4. \A k \in 0 .. f : k \in U
  <2> HIDE DEF U
  <2> QED BY <1>1, <1>2, <1>3, UpTo
<1> QED BY <1>1, <1>4 DEF SameScan, WholeParse
-----------------------------------------------------------------------------
(* Chunks *)

\* The first byte of a token, scanned again.
LEMMA Rescan ==
    ASSUME NEW q \in ParserType, NEW s, NEW c \in Bytes, q.start = q.end, Joins(q.state, c)
    PROVE  LET n == next(q, s, c)
           IN  /\ n.state = Rest(q.state) /\ n.current = q.current
               /\ n.start = q.start /\ n.end = q.end + 1
<1>1. q.state \in States
  BY Fields
<1>2. /\ Extend(q).state = q.state /\ Extend(q).start = q.start /\ Extend(q).end = q.end + 1
      /\ Extend(q).current = q.current
  BY <1>1, Moves
<1>3. CASE q.state = "multiKey"
  <2>1. next(q, s, c) = Extend(Goto(q, "value"))
    BY <1>3 DEF next, InToken, After, Joins, handleNextMultiKey
  <2>2. /\ Goto(q, "value") \in ParserType /\ Goto(q, "value").state = "value" /\ Goto(q, "value").start = q.start
        /\ Goto(q, "value").end = q.end /\ Goto(q, "value").current = q.current
    BY Moves DEF States
  <2>3. LET n == Extend(Goto(q, "value"))
        IN  n.state = "value" /\ n.current = q.current /\ n.start = q.start /\ n.end = q.end + 1
    BY <1>1, <2>2, Moves
  <2> QED BY <1>3, <2>1, <2>3 DEF Rest
<1>4. CASE q.state # "multiKey"
  <2>1. next(q, s, c) = Extend(q)
    <3>1. q.state \notin DOMAIN After
      BY DEF After, Joins
    <3>2. CASE q.state \in {"date", "time"}
      BY <3>1, <3>2 DEF next, InToken, Joins, handleNextDate
    <3>3. CASE q.state \in {"level", "threadNoBracket", "class"}
      BY <3>1, <3>3 DEF next, InToken, Joins, handleNextHeader
    <3>4. CASE q.state = "threadBracket"
      BY <3>1, <3>4 DEF next, InToken, Joins, handleNextThreadBracket
    <3>5. CASE q.state = "callType"
      BY <3>1, <3>5 DEF next, InToken, Joins, handleNextCallType
    <3>6. CASE q.state = "key"
      BY <3>1, <3>6 DEF next, InToken, Joins, handleNextKey
    <3>7. CASE q.state = "verifyCallType"
      BY <3>1, <3>7 DEF next, InToken, Joins, verifyCallType, handleNextKey
    <3>8. CASE q.state = "value"
      BY <3>1, <3>8 DEF next, InToken, Joins, handleNextValue
    <3> QED BY <1>4, <3>2, <3>3, <3>4, <3>5, <3>6, <3>7, <3>8 DEF Joins
  <2> QED BY <1>2, <1>4, <2>1 DEF Rest
<1> QED BY <1>3, <1>4

\* q is n with its token given back, n being a parser of a text from which the
\* first b bytes were dropped.
Suspended(q, n, b) ==
    /\ q.state = n.state /\ q.current = n.current
    /\ q.start = 0 /\ q.end = 0 /\ n.start = b

\* Where raw begins in the input.
Base == fed - Len(raw)

\* Of the input, raw holds the bytes from Base to fed; once a byte of it is
\* scanned the parser is where the scan of the whole input is, and before that it
\* is suspended where the last call of Parse left the scan.
Located ==
    /\ Base \in Nat
    /\ raw = SubSeq(input.text, Base + 1, fed)
    /\ parsing => Len(raw) > 0
    /\ i > 0 => /\ Alike(p, Scan(input.text)[Base + i].p, Base)
                /\ logs = Scan(input.text)[Base + i].logs
    /\ i = 0 => \E m \in Base .. fed :
                   /\ ~parsing => m = fed
                   /\ Suspended(p, Scan(input.text)[m].p, Base)
                   /\ logs = Scan(input.text)[m].logs
Tracks == Plain(input.text) => Located

\* The place of the next rune in the input.
LEMMA ScanPosition ==
    ASSUME Inv, Plain(input.text), Located, i < Len(raw)
    PROVE  /\ input.text \in Text /\ Base \in Nat /\ fed \in Nat /\ i \in Nat
           /\ Base <= fed /\ fed <= Len(input.text) /\ Base + i \in 0 .. Len(input.text) - 1
           /\ Len(raw) = fed - Base /\ raw = SubSeq(input.text, Base + 1, fed)
           /\ raw[i + 1] = input.text[(Base + i) + 1]
           /\ Kept(input.text, Base + i) /\ OneByte(input.text) /\ Width(raw, i) = 1
<1> DEFINE t == input.text
           b == Base
<1>1. t \in Text /\ fed \in Nat /\ i \in Nat /\ fed <= Len(t) /\ Len(t) \in Nat /\ raw \in Text /\ Len(raw) \in Nat
  BY InputsAssumption DEF Inv, TypeOK, Text
<1>2. b \in Nat /\ b = fed - Len(raw) /\ raw = SubSeq(t, b + 1, fed)
  BY DEF Located, Base
<1> HIDE DEF t, b
<1>3. b <= fed /\ Len(raw) = fed - b /\ b + i \in 0 .. Len(t) - 1 /\ b + i \in 0 .. Len(t) /\ i + 1 \in 1 .. fed - b
  BY <1>1, <1>2
<1>4. \A k \in 1 .. fed - b : raw[k] = t[b + k]
  <2>1. \A k \in 1 .. fed - b : SubSeq(t, b + 1, fed)[k] = t[b + k]
    <3>1. t \in Text /\ b \in Nat /\ fed \in Nat /\ b <= fed /\ fed <= Len(t)
      BY <1>1, <1>2, <1>3
    <3> QED BY <3>1, Slices
  <2> QED BY <1>2, <2>1
<1>5. raw[i + 1] = t[(b + i) + 1]
  <2>1. b + (i + 1) = (b + i) + 1
    BY <1>1, <1>2
  <2> QED BY <1>3, <1>4, <2>1
<1>6. OneByte(t)
  BY DEF Plain, OneByte, t
<1>7. OneByte(raw)
  BY <1>1, <1>2, <1>3, <1>6, PrefixOneByte
<1>8. Width(raw, i) = 1
  BY <1>1, <1>7 DEF OneByte
<1>9. Kept(t, b + i)
  BY <1>1, <1>3, KeptAll DEF t
<1> QED BY <1>1, <1>2, <1>3, <1>5, <1>6, <1>8, <1>9 DEF t, b

\* The parser is where the scan of the whole input is, or it is about to scan the
\* first rune of a token again that was begun before the carry-over.
LEMMA FirstRune ==
    ASSUME Inv, Plain(input.text), Located, i < Len(raw)
    PROVE  \/ /\ Alike(p, Scan(input.text)[Base + i].p, Base)
              /\ logs = Scan(input.text)[Base + i].logs
           \/ /\ i = 0 /\ p.start = p.end /\ Joins(p.state, raw[1])
              /\ logs = Scan(input.text)[Base + 1].logs
              /\ LET n == Scan(input.text)[Base + 1].p
                 IN  /\ n.state = Rest(p.state) /\ n.current = p.current
                     /\ n.start = Base /\ n.end = Base + 1
<1> DEFINE t == input.text
           b == Base
<1>1. /\ t \in Text /\ b \in Nat /\ fed \in Nat /\ i \in Nat /\ fed <= Len(t) /\ Len(t) \in Nat
      /\ raw[i + 1] = t[(b + i) + 1]
  BY ScanPosition DEF Text
<1>2. CASE i > 0
  BY <1>2 DEF Located
<1>3. CASE i = 0
  <2>1. PICK m \in b .. fed : Suspended(p, Scan(t)[m].p, b) /\ logs = Scan(t)[m].logs
    BY <1>3 DEF Located
  <2> DEFINE n == Scan(t)[m].p
  <2> HIDE DEF b, t
  <2>2. m \in 0 .. Len(t)
    BY <1>1
  <2>3. Kept(t, m)
    BY <1>1, <2>2, KeptAll DEF t
  <2>4. n.start = b /\ n.end = m
    BY <2>1, <2>3 DEF Suspended, Kept
  <2>5. CASE m = b
    <3>1. Alike(p, n, b)
      BY <1>1, <2>1, <2>4, <2>5 DEF Suspended, Alike
    <3>2. b + i = m
      BY <1>1, <1>3, <2>5
    <3> QED BY <2>1, <3>1, <3>2 DEF b, t
  <2>6. CASE m # b
    <3>1. n.start < m
      BY <1>1, <2>4, <2>6
    <3>2. /\ Joins(n.state, t[b + 1]) /\ FirstOf(n, Scan(t)[b + 1].p) /\ Scan(t)[b + 1].logs = Scan(t)[m].logs
      BY <2>3, <2>4, <3>1 DEF Kept
    <3>3. raw[1] = t[b + 1]
      BY <1>1, <1>3
    <3>4. p.start = p.end /\ p.state = n.state /\ p.current = n.current
      BY <2>1 DEF Suspended
    <3> HIDE DEF n
    <3> QED BY <1>3, <2>1, <2>4, <3>2, <3>3, <3>4 DEF FirstOf, b, t
  <2> QED BY <2>5, <2>6
<1> QED BY <1>1, <1>2, <1>3

\* In the first case it matches the parser of the whole input, and does not panic.
LEMMA ScanMatch ==
    ASSUME Inv, Plain(input.text), Located, i < Len(raw), Alike(p, Scan(input.text)[Base + i].p, Base)
    PROVE  /\ Match(p, raw, Scan(input.text)[Base + i].p, input.text, Base)
           /\ ~BadMultiKey(p, raw[i + 1])
<1> DEFINE t == input.text
           n == Scan(t)[Base + i].p
<1>1. /\ t \in Text /\ Base \in Nat /\ fed \in Nat /\ Base <= fed /\ fed <= Len(t) /\ Base + i \in 0 .. Len(t) - 1
      /\ raw = SubSeq(t, Base + 1, fed) /\ Kept(t, Base + i)
  BY ScanPosition
<1>2. Ready(p, raw) /\ raw[i + 1] \in Bytes
  BY ScanReady
<1>3. Ready(n, t)
  BY <1>1, KeptReady
<1>4. Match(p, raw, n, t, Base)
  BY <1>1, <1>2, <1>3, SliceMatch
<1>5. ~BadMultiKey(p, raw[i + 1])
  <2>1. n.state = "multiKey" => n.start < n.end
    BY <1>1 DEF Kept
  <2> HIDE DEF n
  <2>2. /\ p.state = n.state /\ p.start + Base = n.start /\ p.end + Base = n.end
        /\ p.start \in Nat /\ p.end \in Nat
    BY <1>2, Fields DEF Alike, n, Ready
  <2> QED BY <1>1, <2>1, <2>2 DEF BadMultiKey
<1> QED BY <1>4, <1>5

\* Nothing is read yet.
LEMMA InitTracks == Init => Tracks
<1> SUFFICES ASSUME Init PROVE Located
  BY DEF Tracks
<1>1. input.text \in Text
  BY InputsAssumption DEF Init
<1>2. Scan(input.text)[0] = [p |-> NewParser, logs |-> <<>>]
  BY <1>1, ScanUnfolds DEF Text
<1>3. Base = 0 /\ fed = 0 /\ i = 0 /\ ~parsing /\ raw = NoText /\ p = NewParser /\ logs = <<>>
  <2>1. fed = 0 /\ i = 0 /\ ~parsing /\ raw = NoText /\ p = NewParser /\ logs = <<>>
    BY DEF Init
  <2>2. Len(raw) = 0
    BY <2>1 DEF NoText
  <2> QED BY <2>1, <2>2 DEF Base
<1>4. raw = SubSeq(input.text, Base + 1, fed)
  BY <1>3, SubSeqEmpty DEF NoText
<1>5. Suspended(p, Scan(input.text)[0].p, 0) /\ logs = Scan(input.text)[0].logs
  BY <1>2, <1>3 DEF Suspended, NewParser
<1>6. 0 \in Base .. fed
  BY <1>3
<1> QED BY <1>3, <1>4, <1>5, <1>6 DEF Located

\* More of the input follows raw (parse.go:244).
LEMMA FeedTracks ==
    ASSUME Inv, Plain(input.text), Located, NEW n \in 1 .. Len(input.text), Feed(n)
    PROVE  Located'
<1> DEFINE t == input.text
           piece == SubSeq(t, fed + 1, fed + n)
<1>1. /\ t \in Text /\ fed \in Nat /\ n \in Nat /\ n >= 1 /\ i = 0
      /\ fed + n <= Len(t) /\ raw \in Text /\ Len(t) \in Nat /\ Len(raw) \in Nat
  BY InputsAssumption DEF Inv, TypeOK, Carry, Feed, Text
<1>2. Base \in Nat /\ Base <= fed /\ raw = SubSeq(t, Base + 1, fed) /\ Base = fed - Len(raw)
  BY <1>1 DEF Located, Base
<1>3. piece \in Text /\ Len(piece) = n
  BY <1>1, ChunkOfText
<1>4. input' = input /\ p' = p /\ logs' = logs /\ fed' = fed + n /\ i' = 0 /\ parsing' /\ raw' = raw \o piece /\ ~parsing
  BY DEF Feed
<1>5. raw \o piece = SubSeq(t, Base + 1, fed + n)
  <2>1. Base + 1 \in 1 .. Len(t) + 1 /\ fed \in (Base + 1) - 1 .. Len(t) /\ fed + n \in fed .. Len(t)
    <3> HIDE DEF t
    <3> QED BY <1>1, <1>2
  <2> QED BY <1>1, <1>2, <2>1, ConcatAdjacentSubSeq DEF Text
<1> HIDE DEF piece
<1>6. Len(raw') = Len(raw) + n
  <2>1. Len(raw \o piece) = Len(raw) + Len(piece)
    BY <1>1, <1>3, ConcatProperties DEF Text
  <2> QED BY <1>3, <1>4, <2>1
<1>7. Base' = Base
  BY <1>1, <1>4, <1>6 DEF Base
<1>8. Suspended(p, Scan(t)[fed].p, Base) /\ logs = Scan(t)[fed].logs
  BY <1>1, <1>4 DEF Located
<1>9. fed \in Base .. fed + n
  BY <1>1, <1>2
<1>10. \E m \in Base' .. fed' : /\ Suspended(p', Scan(input'.text)[m].p, Base')
                                /\ logs' = Scan(input'.text)[m].logs
  BY <1>4, <1>7, <1>8, <1>9
<1>11. Len(raw') > 0
  BY <1>1, <1>6
<1>12. raw' = SubSeq(input'.text, Base' + 1, fed')
  BY <1>4, <1>5, <1>7
<1>13. Base' \in Nat /\ i' = 0 /\ ~(i' > 0)
  <2>1. i' = 0
    BY DEF Feed
  <2>2. ~(i' > 0)
    BY <2>1
  <2>3. Base' \in Nat
    BY <1>2, <1>7
  <2> QED BY <2>1, <2>2, <2>3
<1> QED BY <1>4, <1>10, <1>11, <1>12, <1>13 DEF Located

\* A newline, which is never the rune of a token (parse.go:248-254).
LEMMA ScanNewlineTracks ==
    ASSUME Inv, Plain(input.text), Located, ScanNewline
    PROVE  Located'
<1> DEFINE t == input.text
           n == Scan(t)[Base + i].p
<1>1. i < Len(raw) /\ raw[i + 1] = "nl" /\ parsing
  BY DEF ScanNewline
<1>2. /\ t \in Text /\ Base \in Nat /\ i \in Nat /\ Base + i \in 0 .. Len(t) - 1 /\ Kept(t, Base + i)
      /\ raw[i + 1] = t[(Base + i) + 1] /\ OneByte(t)
  BY <1>1, ScanPosition
<1>3. Alike(p, n, Base) /\ logs = Scan(t)[Base + i].logs
  <2>1. ~(i = 0 /\ Joins(p.state, raw[1]))
    <3>1. i = 0 => raw[1] = "nl"
      BY <1>1
    <3> QED BY <3>1 DEF Joins
  <2> QED BY <1>1, <2>1, FirstRune
<1>4. Match(p, raw, n, t, Base) /\ raw \in Text
  BY <1>1, <1>3, ScanMatch, ScanReady
<1>5. consumeLog(p, raw).current = consumeLog(n, t).current
  BY <1>2, <1>4, consumeLogAlike
<1>6. Scan(t)[(Base + i) + 1] = [p |-> EndOfLine(Base + i), logs |-> Append(Scan(t)[Base + i].logs, consumeLog(n, t).current)]
  BY <1>1, <1>2, ScanStep DEF Kept
<1>7. /\ p' = EndOfLine(i) /\ logs' = Append(logs, consumeLog(p, raw).current) /\ i' = i + 1
      /\ input' = input /\ raw' = raw /\ fed' = fed /\ parsing' = parsing
  BY DEF ScanNewline
<1>8. Base' = Base /\ Base + i' = (Base + i) + 1
  BY <1>2, <1>7 DEF Base
<1>9. Alike(p', Scan(t)[Base + i'].p, Base)
  BY <1>2, <1>6, <1>7, <1>8 DEF Alike, EndOfLine
<1>10. logs' = Scan(t)[Base + i'].logs
  BY <1>3, <1>5, <1>6, <1>7, <1>8
<1>11. i' > 0 /\ i' # 0
  BY <1>2, <1>7
<1> QED BY <1>1, <1>7, <1>8, <1>9, <1>10, <1>11 DEF Located

\* Any other rune, the first one of a carried token included (parse.go:256).
LEMMA ScanRuneTracks ==
    ASSUME Inv, Plain(input.text), Located, ScanRune
    PROVE  Located'
<1> DEFINE t == input.text
           n == Scan(t)[Base + i].p
           k == Base + i
<1>1. i < Len(raw) /\ raw[i + 1] # "nl" /\ parsing
  BY DEF ScanRune
<1>2. /\ t \in Text /\ Base \in Nat /\ i \in Nat /\ k \in 0 .. Len(t) - 1 /\ Kept(t, k)
      /\ raw[i + 1] = t[k + 1] /\ OneByte(t) /\ Width(raw, i) = 1
  BY <1>1, ScanPosition
<1>3. Ready(p, raw) /\ raw \in Text /\ raw[i + 1] \in Bytes
  BY <1>1, ScanReady
<1>4. Scan(t)[k + 1].p = next(n, t, t[k + 1]) /\ Scan(t)[k + 1].logs = Scan(t)[k].logs
  BY <1>1, <1>2, ScanStep DEF Kept
<1>5. /\ p' = next(p, raw, raw[i + 1]) /\ logs' = logs /\ i' = i + 1
      /\ input' = input /\ raw' = raw /\ fed' = fed /\ parsing' = parsing
  BY <1>2 DEF ScanRune
<1>6. Base' = Base /\ Base + i' = k + 1
  BY <1>2, <1>5 DEF Base
<1>7. Alike(p', Scan(t)[k + 1].p, Base) /\ logs' = Scan(t)[k + 1].logs
  <2>1. CASE Alike(p, n, Base) /\ logs = Scan(t)[k].logs
    <3>1. Match(p, raw, n, t, Base) /\ ~BadMultiKey(p, raw[i + 1])
      BY <1>1, <2>1, ScanMatch
    <3>2. Alike(next(p, raw, raw[i + 1]), next(n, t, raw[i + 1]), Base)
      BY <1>2, <1>3, <3>1, NextAlike
    <3> QED BY <1>2, <1>4, <1>5, <2>1, <3>2
  <2>2. CASE ~(Alike(p, n, Base) /\ logs = Scan(t)[k].logs)
    <3> DEFINE f == Scan(t)[Base + 1].p
    <3>1. /\ i = 0 /\ p.start = p.end /\ Joins(p.state, raw[1]) /\ logs = Scan(t)[Base + 1].logs
          /\ f.state = Rest(p.state) /\ f.current = p.current /\ f.start = Base /\ f.end = Base + 1
      BY <1>1, <2>2, FirstRune
    <3>2. p \in ParserType /\ p.end = 0
      BY <1>3, <3>1, Fields DEF Ready, Inv, SlicesInBounds
    <3>3. LET x == next(p, raw, raw[1])
          IN  /\ x.state = Rest(p.state) /\ x.current = p.current
              /\ x.start = p.start /\ x.end = p.end + 1
      BY <1>3, <3>1, <3>2, Rescan
    <3>4. k + 1 = Base + 1 /\ raw[i + 1] = raw[1] /\ 0 + Base = Base /\ 0 + 1 + Base = Base + 1
      BY <1>2, <3>1
    <3> HIDE DEF f, k
    <3>5. Alike(next(p, raw, raw[1]), f, Base)
      BY <3>1, <3>2, <3>3, <3>4 DEF Alike
    <3> QED BY <1>5, <3>1, <3>4, <3>5 DEF f
  <2> QED BY <2>1, <2>2
<1>8. i' > 0 /\ i' # 0
  BY <1>2, <1>5
<1> QED BY <1>1, <1>5, <1>6, <1>7, <1>8 DEF Located

\* The carry-over suspends the parser where its token begins (parse.go:260-261).
LEMMA EndParseTracks ==
    ASSUME Inv, Plain(input.text), Located, EndParse
    PROVE  Located'
<1> DEFINE t == input.text
           n == Scan(t)[fed].p
<1>1. raw \in Text /\ Len(raw) \in Nat /\ i = Len(raw) /\ i > 0 /\ fed \in Nat /\ fed <= Len(t) /\ t \in Text /\ Len(t) \in Nat
  <2>1. raw \in Text /\ t \in Text /\ fed \in 0 .. Len(t) /\ i \in Nat /\ i <= Len(raw) /\ i >= Len(raw) /\ parsing
    BY InputsAssumption DEF Inv, TypeOK, SlicesInBounds, EndParse
  <2>2. Len(raw) \in Nat /\ Len(t) \in Nat
    BY <2>1 DEF Text
  <2>3. Len(raw) > 0
    BY <2>1 DEF Located
  <2> HIDE DEF t
  <2> QED BY <2>1, <2>2, <2>3
<1>2. Base \in Nat /\ raw = SubSeq(t, Base + 1, fed) /\ Base = fed - Len(raw) /\ Base <= fed /\ Base + i = fed
  BY <1>1 DEF Located, Base
<1>3. Alike(p, n, Base) /\ logs = Scan(t)[fed].logs
  BY <1>1, <1>2 DEF Located
<1>4. p \in ParserType /\ p.start \in Nat /\ p.start <= Len(raw)
  <2>1. p \in ParserType
    BY DEF Inv, TypeOK, ParserType
  <2> QED BY <1>1, <2>1, Fields DEF Inv, SlicesInBounds
<1>5. /\ raw' = SubSeq(raw, p.start + 1, Len(raw)) /\ i' = 0 /\ ~parsing' /\ input' = input /\ fed' = fed /\ logs' = logs
      /\ p' = [p EXCEPT !.start = 0, !.end = 0]
  BY DEF EndParse
<1>6. p'.start = 0 /\ p'.end = 0 /\ p'.state = p.state /\ p'.current = p.current
  BY <1>4, <1>5 DEF ParserType
<1>7. n.start = p.start + Base /\ p.state = n.state /\ p.current = n.current
  BY <1>3 DEF Alike
<1>8. raw' = SubSeq(t, p.start + Base + 1, fed)
  <2>1. Len(raw) <= fed - Base /\ Len(raw) + Base = fed
    BY <1>1, <1>2
  <2> HIDE DEF t
  <2>2. ASSUME NEW b \in Nat, b <= fed, NEW y \in Nat, y <= fed - b, NEW a \in Nat
        PROVE  SubSeq(SubSeq(t, b + 1, fed), a + 1, y) = SubSeq(t, a + b + 1, y + b)
    BY <1>1, <2>2, SliceOfSlice
  <2>3. SubSeq(SubSeq(t, Base + 1, fed), p.start + 1, Len(raw)) = SubSeq(t, p.start + Base + 1, Len(raw) + Base)
    <3>1. Base \in Nat /\ Base <= fed /\ Len(raw) \in Nat /\ Len(raw) <= fed - Base /\ p.start \in Nat
      BY <1>1, <1>2, <1>4, <2>1
    <3> QED BY <2>2, <3>1
  <2> QED BY <1>2, <1>5, <2>1, <2>3
<1>9. Len(raw') = Len(raw) - p.start
  <2>1. Len(SubSeq(raw, p.start + 1, Len(raw))) = Len(raw) - p.start
    BY <1>1, <1>4, Slices
  <2> QED BY <1>5, <2>1
<1>10. Base' = p.start + Base /\ Base' \in Nat /\ Base' <= fed
  <2>1. Base' = fed - (Len(raw) - p.start)
    BY <1>5, <1>9 DEF Base
  <2> QED BY <1>1, <1>2, <1>4, <2>1
<1>11. Suspended(p', n, Base') /\ fed \in Base' .. fed
  BY <1>1, <1>6, <1>7, <1>10 DEF Suspended
<1>12. \E m \in Base' .. fed' : /\ m = fed'
                                /\ Suspended(p', Scan(input'.text)[m].p, Base')
                                /\ logs' = Scan(input'.text)[m].logs
  BY <1>3, <1>5, <1>11
<1>13. raw' = SubSeq(input'.text, Base' + 1, fed')
  BY <1>5, <1>8, <1>10
<1>14. Base' \in Nat /\ i' = 0 /\ ~(i' > 0) /\ ~parsing'
  BY <1>5, <1>10
<1> HIDE DEF n
<1> QED BY <1>12, <1>13, <1>14 DEF Located

\* Every step keeps raw and the parser in their place in the input.
LEMMA NextTracks == Inv /\ Tracks /\ [Next]_vars => Tracks'
<1> SUFFICES ASSUME Inv, Tracks, [Next]_vars, Plain(input.text)' PROVE Located'
  BY DEF Tracks
<1>1. input' = input
  BY DEF Next, vars, Feed, ScanNewline, ScanRune, EndParse
<1>2. Plain(input.text) /\ Located
  BY <1>1 DEF Tracks
<1>3. CASE UNCHANGED vars
  BY <1>2, <1>3 DEF Located, Base, vars
<1> QED BY <1>2, <1>3, FeedTracks, ScanNewlineTracks, ScanRuneTracks, EndParseTracks DEF Next

\* Between two calls the scan has reached the last byte read.
LEMMA TracksChunks == Inv /\ Tracks => PlainChunksDoNotMatter
<1> SUFFICES ASSUME Inv, Located, Plain(input.text) PROVE ChunksDoNotMatter
  BY DEF Tracks, PlainChunksDoNotMatter
<1> DEFINE t == input.text
<1>1. t \in Text /\ fed \in 0 .. Len(t)
  BY InputsAssumption DEF Inv, TypeOK
<1>2. ~PanicNext
  <2> SUFFICES ASSUME i < Len(raw), BadMultiKey(p, raw[i + 1]) PROVE FALSE
    BY DEF PanicNext
  <2>1. CASE Alike(p, Scan(t)[Base + i].p, Base)
    BY <2>1, ScanMatch
  <2>2. CASE i = 0 /\ Joins(p.state, raw[1])
    <3>1. p.state = "multiKey" /\ raw[1] = "sp"
      BY <2>2 DEF BadMultiKey
    <3> QED BY <2>2, <3>1 DEF Joins
  <2> QED BY <2>1, <2>2, FirstRune
<1>3. ~parsing => logs = WholeParse(SubSeq(t, 1, fed)).logs
  <2>1. ~parsing => logs = Scan(t)[fed].logs
    BY DEF Inv, Carry, Located
  <2> QED BY <1>1, <2>1, WholePrefix
<1> QED BY <1>2, <1>3 DEF ChunksDoNotMatter

\* Every plain text, however it is cut into chunks, gives the logs of its scan in
\* one piece and never makes the parser panic (parse.go:243-264).
THEOREM PlainChunks == Spec => []PlainChunksDoNotMatter
<1>1. Spec => []Tracks
  BY InitTracks, NextTracks, Invariance, PTL DEF Spec
<1> QED BY <1>1, Invariance, TracksChunks, PTL

\* In particular, chunks do not matter if all inputs are plain.
THEOREM ChunksIrrelevant ==
    ASSUME \A x \in Inputs : Plain(x.text)
    PROVE  Spec => []ChunksDoNotMatter
<1>1. TypeOK /\ PlainChunksDoNotMatter => ChunksDoNotMatter
  BY DEF TypeOK, PlainChunksDoNotMatter
<1> QED BY <1>1, TypeCorrect, PlainChunks, PTL
-----------------------------------------------------------------------------
(* Parsing the format: runs of runes *)

\* A parser, written out.
At(st, a, k, l) == [state |-> st, start |-> a, end |-> k, current |-> l]

\* The elementary moves of a parser that is written out.
LEMMA AtSteps ==
    ASSUME NEW st, NEW a \in Nat, NEW k \in Nat, NEW l \in Log
    PROVE  /\ Extend(At(st, a, k, l)) = At(st, a, k + 1, l)
           /\ Skip(At(st, a, k, l)) = At(st, a + 1, k + 1, l)
<1>1. Extend(At(st, a, k, l)) = At(st, a, k + 1, l)
  BY DEF At, Extend
<1>2. Skip(At(st, a, k, l)) = At(st, a + 1, k + 1, l)
  <2>1. Skip(At(st, a, k, l)) = [[At(st, a, k, l) EXCEPT !.start = @ + 1] EXCEPT !.end = @ + 1]
    BY DEF Skip
  <2>2. [At(st, a, k, l) EXCEPT !.start = @ + 1] = At(st, a + 1, k, l)
    BY DEF At
  <2>3. [At(st, a + 1, k, l) EXCEPT !.end = @ + 1] = At(st, a + 1, k + 1, l)
    BY DEF At
  <2> QED BY <2>1, <2>2, <2>3
<1> QED BY <1>1, <1>2

\* The moves that change its state.
LEMMA AtMoves ==
    ASSUME NEW st, NEW st2, NEW a \in Nat, NEW k \in Nat, NEW l \in Log
    PROVE  /\ Goto(At(st, a, k, l), st2) = At(st2, a, k, l)
           /\ Cut(At(st, a, k, l), st2) = At(st2, k + 1, k + 1, l)
<1>3. Goto(At(st, a, k, l), st2) = At(st2, a, k, l)
  BY DEF At, Goto
<1>4. Cut(At(st, a, k, l), st2) = At(st2, k + 1, k + 1, l)
  <2>1. Cut(At(st, a, k, l), st2) =
          [[[At(st, a, k, l) EXCEPT !.state = st2] EXCEPT !.start = k + 1] EXCEPT !.end = k + 1]
    BY DEF Cut, At
  <2>2. [At(st, a, k, l) EXCEPT !.state = st2] = At(st2, a, k, l)
    BY DEF At
  <2>3. [At(st2, a, k, l) EXCEPT !.start = k + 1] = At(st2, k + 1, k, l)
    BY DEF At
  <2>4. [At(st2, k + 1, k, l) EXCEPT !.end = k + 1] = At(st2, k + 1, k + 1, l)
    BY DEF At
  <2> QED BY <2>1, <2>2, <2>3, <2>4
<1> QED BY <1>3, <1>4

\* Its state,
LEMMA AtState ==
    ASSUME NEW st, NEW a, NEW k, NEW l
    PROVE  At(st, a, k, l).state = st
  BY DEF At

\* its fields are read,
LEMMA AtFields ==
    ASSUME NEW st, NEW a, NEW k, NEW l, NEW s
    PROVE  /\ At(st, a, k, l).state = st /\ At(st, a, k, l).start = a
           /\ At(st, a, k, l).end = k /\ At(st, a, k, l).current = l
           /\ Token(At(st, a, k, l), s) = SubSeq(s, a + 1, k)
           /\ LastProp(At(st, a, k, l)) = Len(l.props)
  BY DEF At, Token, LastProp

\* and it has its type.
LEMMA AtType ==
    ASSUME NEW st \in States, NEW a \in Nat, NEW k \in Nat, NEW l \in Log
    PROVE  At(st, a, k, l) \in ParserType
  BY DEF At, ParserType

\* The first k bytes of t are plain.
PlainTo(t, k) == \A j \in 0 .. k - 1 : Clean(Scan(t)[j].p, t[j + 1])

\* After k bytes of t, all plain, the parser has log l, is in state st with a token from
\* a on, and has emitted L.
Reach(t, k, st, a, l, L) ==
    /\ Scan(t)[k] = [p |-> At(st, a, k, l), logs |-> L]
    /\ PlainTo(t, k)
    /\ st \in States /\ a \in 0 .. k /\ l \in Log /\ L \in Seq(Log)

\* A text of one-byte runes.
Narrow(t) == t \in Text /\ OneByte(t)

\* A rune that is no newline and that is clean here.
LEMMA ReachStep ==
    ASSUME NEW t, Narrow(t), NEW k \in Nat, k < Len(t), NEW st, NEW a, NEW l, NEW L,
           Reach(t, k, st, a, l, L),
           t[k + 1] # "nl", Clean(At(st, a, k, l), t[k + 1]),
           NEW st2 \in States, NEW a2 \in 0 .. k + 1, NEW l2 \in Log,
           next(At(st, a, k, l), t, t[k + 1]) = At(st2, a2, k + 1, l2)
    PROVE  Reach(t, k + 1, st2, a2, l2, L)
<1>1. t \in Text /\ OneByte(t) /\ Len(t) \in Nat /\ k \in 0 .. Len(t) - 1
  BY DEF Narrow, Text
<1>2. /\ Scan(t)[k] = [p |-> At(st, a, k, l), logs |-> L] /\ At(st, a, k, l) \in ParserType
      /\ L \in Seq(Log)
  BY AtType DEF Reach
<1>3. Scan(t)[k] \in ScanType /\ Scan(t)[k].p = At(st, a, k, l) /\ Scan(t)[k].logs = L
  BY <1>2 DEF ScanType
<1>4. /\ Scan(t)[k + 1].p = next(Scan(t)[k].p, t, t[k + 1]) /\ Scan(t)[k + 1].logs = Scan(t)[k].logs
      /\ Scan(t)[k + 1] = [p |-> Scan(t)[k + 1].p, logs |-> Scan(t)[k + 1].logs]
  BY <1>1, <1>3, ScanStep
<1>5. Scan(t)[k + 1] = [p |-> At(st2, a2, k + 1, l2), logs |-> L]
  BY <1>3, <1>4
<1>6. PlainTo(t, k + 1)
  <2> SUFFICES ASSUME NEW j \in 0 .. (k + 1) - 1
               PROVE  Clean(Scan(t)[j].p, t[j + 1])
    BY DEF PlainTo
  <2>1. CASE j = k
    BY <1>3, <2>1
  <2>2. CASE j # k
    <3>1. j \in 0 .. k - 1
      BY <2>2
    <3> QED BY <3>1 DEF PlainTo, Reach
  <2> QED BY <2>1, <2>2
<1> QED BY <1>2, <1>5, <1>6 DEF Reach

\* A newline emits the log.
LEMMA ReachNewline ==
    ASSUME NEW t, Narrow(t), NEW k \in Nat, k < Len(t), NEW st, NEW a, NEW l, NEW L,
           Reach(t, k, st, a, l, L),
           t[k + 1] = "nl", NEW l2 \in Log, consumeLog(At(st, a, k, l), t).current = l2
    PROVE  Reach(t, k + 1, "date", k + 1, EmptyLog, Append(L, l2))
<1>1. t \in Text /\ OneByte(t) /\ Len(t) \in Nat /\ k \in 0 .. Len(t) - 1
  BY DEF Narrow, Text
<1>2. /\ Scan(t)[k] = [p |-> At(st, a, k, l), logs |-> L] /\ At(st, a, k, l) \in ParserType
      /\ L \in Seq(Log)
  BY AtType DEF Reach
<1>3. Scan(t)[k] \in ScanType /\ Scan(t)[k].p = At(st, a, k, l) /\ Scan(t)[k].logs = L
  BY <1>2 DEF ScanType
<1>4. Scan(t)[k + 1] =
        [p |-> EndOfLine(k), logs |-> Append(Scan(t)[k].logs, consumeLog(Scan(t)[k].p, t).current)]
  BY <1>1, <1>3, ScanStep
<1>5. Scan(t)[k + 1] = [p |-> At("date", k + 1, k + 1, EmptyLog), logs |-> Append(L, l2)]
  BY <1>3, <1>4 DEF EndOfLine, At
<1>6. PlainTo(t, k + 1)
  <2> SUFFICES ASSUME NEW j \in 0 .. (k + 1) - 1
               PROVE  Clean(Scan(t)[j].p, t[j + 1])
    BY DEF PlainTo
  <2>1. CASE j = k
    BY <2>1 DEF Clean
  <2>2. CASE j # k
    <3>1. j \in 0 .. k - 1
      BY <2>2
    <3> QED BY <3>1 DEF PlainTo, Reach
  <2> QED BY <2>1, <2>2
<1>7. EmptyLog \in Log /\ Append(L, l2) \in Seq(Log) /\ "date" \in States /\ k + 1 \in 0 .. k + 1
  BY <1>2 DEF EmptyLog, Log, NoText, Text, States
<1> QED BY <1>5, <1>6, <1>7 DEF Reach

\* A rune that joins the token extends it.
LEMMA JoinsExtends ==
    ASSUME NEW q, NEW s, NEW c, Joins(q.state, c), q.state # "multiKey"
    PROVE  next(q, s, c) = Extend(q)
<1>1. q.state \notin DOMAIN After
  BY DEF After, Joins
<1>2. CASE q.state \in {"date", "time"}
  BY <1>1, <1>2 DEF next, InToken, Joins, handleNextDate
<1>3. CASE q.state \in {"level", "threadNoBracket", "class"}
  BY <1>1, <1>3 DEF next, InToken, Joins, handleNextHeader
<1>4. CASE q.state = "threadBracket"
  BY <1>1, <1>4 DEF next, InToken, Joins, handleNextThreadBracket
<1>5. CASE q.state = "callType"
  BY <1>1, <1>5 DEF next, InToken, Joins, handleNextCallType
<1>6. CASE q.state = "key"
  BY <1>1, <1>6 DEF next, InToken, Joins, handleNextKey
<1>7. CASE q.state = "verifyCallType"
  BY <1>1, <1>7 DEF next, InToken, Joins, verifyCallType, handleNextKey
<1>8. CASE q.state = "value"
  BY <1>1, <1>8 DEF next, InToken, Joins, handleNextValue
<1> QED BY <1>2, <1>3, <1>4, <1>5, <1>6, <1>7, <1>8 DEF Joins

\* The same, as a step of the scan.
LEMMA JoinStep ==
    ASSUME NEW t, Narrow(t), NEW k \in Nat, k < Len(t), NEW st, NEW a, NEW l, NEW L,
           Reach(t, k, st, a, l, L),
           Joins(st, t[k + 1]), st # "multiKey"
    PROVE  Reach(t, k + 1, st, a, l, L)
<1> DEFINE q == At(st, a, k, l)
<1>1. a \in Nat /\ a \in 0 .. k + 1 /\ l \in Log /\ st \in States
  BY DEF Reach
<1>2. q.state = st
  BY DEF At
<1>3. Extend(q) = At(st, a, k + 1, l)
  BY <1>1, AtSteps
<1>4. Clean(q, t[k + 1]) /\ t[k + 1] # "nl"
  BY <1>2 DEF Clean, Joins
<1> HIDE DEF q
<1>5. next(q, t, t[k + 1]) = At(st, a, k + 1, l)
  BY <1>2, <1>3, JoinsExtends
<1> QED BY <1>1, <1>4, <1>5, ReachStep DEF q

\* A run of such runes.
LEMMA Run ==
    ASSUME NEW t, Narrow(t), NEW k \in Nat, NEW st, NEW a, NEW l, NEW L, Reach(t, k, st, a, l, L),
           st # "multiKey",
           NEW e \in Nat, k <= e, e <= Len(t), \A j \in k + 1 .. e : Joins(st, t[j])
    PROVE  Reach(t, e, st, a, l, L)
<1> DEFINE U == {j \in 0 .. e - k : Reach(t, k + j, st, a, l, L)}
<1>1. 0 \in U
  BY DEF Reach
<1>2. ASSUME NEW j \in 0 .. (e - k) - 1, j \in U
      PROVE  j + 1 \in U
  <2>1. Reach(t, k + j, st, a, l, L) /\ k + j \in Nat /\ k + j < Len(t) /\ Joins(st, t[(k + j) + 1])
    BY <1>2 DEF Narrow, Text
  <2>2. Reach(t, (k + j) + 1, st, a, l, L)
    BY <2>1, JoinStep
  <2>3. (k + j) + 1 = k + (j + 1) /\ j + 1 \in 0 .. e - k
    OBVIOUS
  <2> QED BY <2>2, <2>3
<1>3. \A j \in 0 .. e - k : j \in U
  <2>1. e - k \in Nat
    OBVIOUS
  <2> HIDE DEF U
  <2> QED BY <1>1, <1>2, <2>1, UpTo
<1>4. e - k \in 0 .. e - k /\ k + (e - k) = e
  OBVIOUS
<1> QED BY <1>3, <1>4

\* Blanks between two tokens.
LEMMA BlankRun ==
    ASSUME NEW t, Narrow(t), NEW k \in Nat, NEW st \in DOMAIN After, NEW l, NEW L,
           Reach(t, k, st, k, l, L),
           NEW e \in Nat, k <= e, Gap(t, k, e)
    PROVE  Reach(t, e, st, e, l, L)
<1> DEFINE U == {j \in 0 .. e - k : Reach(t, k + j, st, k + j, l, L)}
<1>0. st \in {"transitionLevel", "transitionThread", "transitionClass", "transitionCallType"}
  BY DEF After
<1>1. 0 \in U
  BY DEF Reach
<1>2. ASSUME NEW j \in 0 .. (e - k) - 1, j \in U
      PROVE  j + 1 \in U
  <2> DEFINE m == k + j
             q == At(st, m, m, l)
  <2>1. /\ Reach(t, m, st, m, l, L) /\ m \in Nat /\ m < Len(t) /\ t[m + 1] \in Blanks /\ l \in Log
        /\ m + 1 \in 0 .. m + 1
    BY <1>2 DEF Narrow, Text, Gap, Reach
  <2>2. q.state = st
    BY DEF At
  <2>3. Skip(q) = At(st, m + 1, m + 1, l)
    BY <2>1, AtSteps
  <2> HIDE DEF q, m
  <2>4. next(q, t, t[m + 1]) = Skip(q)
    BY <2>1, <2>2 DEF next, Blanks
  <2>5. Clean(q, t[m + 1]) /\ t[m + 1] # "nl" /\ st \in States
    BY <1>0, <2>1, <2>2 DEF Clean, Blanks, States
  <2>6. Reach(t, m + 1, st, m + 1, l, L)
    BY <2>1, <2>3, <2>4, <2>5, ReachStep DEF q
  <2>7. m + 1 = k + (j + 1) /\ j + 1 \in 0 .. e - k
    BY DEF m
  <2> QED BY <2>6, <2>7
<1>3. \A j \in 0 .. e - k : j \in U
  <2>1. e - k \in Nat
    OBVIOUS
  <2> HIDE DEF U
  <2> QED BY <1>1, <1>2, <2>1, UpTo
<1>4. e - k \in 0 .. e - k /\ k + (e - k) = e
  OBVIOUS
<1> QED BY <1>3, <1>4

\* A text that stands in t is the slice of t.
LEMMA HasText ==
    ASSUME NEW t \in Text, NEW k \in Nat, NEW w \in Text, HasAt(t, k, w)
    PROVE  /\ SubSeq(t, k + 1, k + Len(w)) = w /\ k + Len(w) <= Len(t) /\ Len(w) \in Nat
           /\ \A j \in k + 1 .. k + Len(w) : t[j] = w[j - k] /\ j - k \in 1 .. Len(w)
<1>1. /\ k + Len(w) <= Len(t) /\ (\A j \in 1 .. Len(w) : t[k + j] = w[j]) /\ Len(w) \in Nat
      /\ Len(t) \in Nat
  BY DEF HasAt, Text
<1>2. \A j \in k + 1 .. k + Len(w) : t[j] = w[j - k] /\ j - k \in 1 .. Len(w)
  <2> TAKE j \in k + 1 .. k + Len(w)
  <2>1. j - k \in 1 .. Len(w) /\ k + (j - k) = j
    BY <1>1
  <2> QED BY <1>1, <2>1
<1>3. SubSeq(t, k + 1, k + Len(w)) = w
  <2> DEFINE u == SubSeq(t, k + 1, k + Len(w))
  <2>1. u \in Text /\ Len(u) = k + Len(w) - k /\ \A j \in 1 .. k + Len(w) - k : u[j] = t[k + j]
    BY <1>1, Slices
  <2>2. k + Len(w) - k = Len(w)
    BY <1>1
  <2> HIDE DEF u
  <2>3. Len(u) = Len(w) /\ \A j \in 1 .. Len(u) : u[j] = w[j]
    BY <1>1, <2>1, <2>2
  <2>4. u = w
    BY <2>1, <2>3, SeqEqual DEF Text
  <2> QED BY <2>4 DEF u
<1> QED BY <1>1, <1>2, <1>3
-----------------------------------------------------------------------------
(* Header fields *)

\* A parser whose field f of the current log is w.
Stored(q, f, w) == [q EXCEPT !.current[f] = w]

\* A header field is stored and the next token begins after the rune.
LEMMA AtStored ==
    ASSUME NEW st, NEW st2, NEW a \in Nat, NEW k \in Nat, NEW l \in Log, NEW f \in HeaderFields,
           NEW w \in Text
    PROVE  /\ Cut(Stored(At(st, a, k, l), f, w), st2) = At(st2, k + 1, k + 1, [l EXCEPT ![f] = w])
           /\ [l EXCEPT ![f] = w] \in Log
<1>1. Stored(At(st, a, k, l), f, w) = At(st, a, k, [l EXCEPT ![f] = w])
  BY DEF At, Stored
<1>2. [l EXCEPT ![f] = w] \in Log
  BY DEF Log, HeaderFields
<1> QED BY <1>1, <1>2, AtMoves

\* Rune c ends field f in state st, and st2 follows.
Ends(st, c, f, st2) ==
    \/ st = "date" /\ c \in DateEnds /\ f = "date" /\ st2 = "time"
    \/ st = "time" /\ c \in DateEnds /\ f = "time" /\ st2 = "transitionLevel"
    \/ st = "level" /\ c \in WordEnds /\ f = "level" /\ st2 = "transitionThread"
    \/ st = "threadNoBracket" /\ c \in WordEnds /\ f = "thread" /\ st2 = "transitionClass"
    \/ st = "threadBracket" /\ c \in {"tab", "]"} /\ f = "thread" /\ st2 = "transitionClass"
    \/ st = "class" /\ c \in WordEnds /\ f = "class" /\ st2 = "transitionCallType"

\* The rune stores the token in its field (parse.go:128-156).
LEMMA EndsStores ==
    ASSUME NEW q, NEW s, NEW c, NEW f, NEW st2, Ends(q.state, c, f, st2)
    PROVE  /\ next(q, s, c) = Cut(Stored(q, f, Token(q, s)), st2)
           /\ c # "nl" /\ f \in HeaderFields /\ st2 \in States /\ Clean(q, c)
<1>1. q.state \notin DOMAIN After
  BY DEF After, Ends
<1>2. c # "nl" /\ f \in HeaderFields /\ st2 \in States /\ Clean(q, c)
  BY DEF Ends, DateEnds, WordEnds, DateBytes, Blanks, HeaderFields, States, Clean
<1>3. next(q, s, c) = InToken(q, s, c)
  BY <1>1 DEF next
<1>4. CASE q.state \in {"date", "time"}
  BY <1>2, <1>3, <1>4 DEF InToken, Ends, Stored, handleNextDate, DateEnds, DateBytes
<1>5. CASE q.state \in {"level", "threadNoBracket", "class"}
  BY <1>2, <1>3, <1>5 DEF InToken, Ends, Stored, handleNextHeader, WordEnds, Blanks
<1>6. CASE q.state = "threadBracket"
  BY <1>2, <1>3, <1>6 DEF InToken, Ends, Stored, handleNextThreadBracket
<1> QED BY <1>2, <1>4, <1>5, <1>6 DEF Ends

\* The rest of a header field, and the rune that ends it.
LEMMA Field ==
    ASSUME NEW t, Narrow(t), NEW v \in Nat, NEW w \in Text, NEW k \in Nat, v <= k, k <= v + Len(w),
           NEW st, NEW l, NEW L, Reach(t, k, st, v, l, L), HasAt(t, v, w),
           \A j \in 1 .. Len(w) : Joins(st, w[j]),
           v + Len(w) < Len(t), NEW f, NEW st2, Ends(st, t[v + Len(w) + 1], f, st2)
    PROVE  Reach(t, v + Len(w) + 1, st2, v + Len(w) + 1, [l EXCEPT ![f] = w], L)
<1> DEFINE e == v + Len(w)
           q == At(st, v, e, l)
           c == t[e + 1]
<1>1. t \in Text /\ Len(t) \in Nat /\ Len(w) \in Nat /\ e \in Nat /\ v \in 0 .. e
  BY DEF Narrow, Text
<1>2. SubSeq(t, v + 1, e) = w /\ \A j \in v + 1 .. e : t[j] = w[j - v] /\ j - v \in 1 .. Len(w)
  BY <1>1, HasText
<1>3. \A j \in k + 1 .. e : Joins(st, t[j])
  <2> TAKE j \in k + 1 .. e
  <2>1. j \in v + 1 .. e
    BY <1>1
  <2> QED BY <1>2, <2>1
<1>4. l \in Log /\ L \in Seq(Log) /\ st \in States /\ st # "multiKey"
  BY DEF Reach, Ends
<1>5. Reach(t, e, st, v, l, L)
  <2> HIDE DEF e
  <2>1. k <= e /\ e <= Len(t)
    BY DEF e
  <2> QED BY <1>1, <1>3, <1>4, <2>1, Run
<1>6. q.state = st /\ Token(q, t) = w
  BY <1>2 DEF At, Token
<1>7. e + 1 \in 0 .. e + 1 /\ e < Len(t) /\ Ends(st, c, f, st2)
  BY <1>1
<1> HIDE DEF q, e, c
<1>8. /\ next(q, t, c) = Cut(Stored(q, f, w), st2)
      /\ c # "nl" /\ f \in HeaderFields /\ st2 \in States /\ Clean(q, c)
  BY <1>6, <1>7, EndsStores
<1>9. next(q, t, c) = At(st2, e + 1, e + 1, [l EXCEPT ![f] = w]) /\ [l EXCEPT ![f] = w] \in Log
  BY <1>1, <1>4, <1>8, AtStored DEF q
<1>10. Reach(t, e + 1, st2, e + 1, [l EXCEPT ![f] = w], L)
  BY <1>1, <1>5, <1>7, <1>8, <1>9, ReachStep DEF q, c
<1> QED BY <1>10 DEF e

\* An opening bracket before a token.
LEMMA OpenStep ==
    ASSUME NEW t, Narrow(t), NEW k \in Nat, k < Len(t), t[k + 1] = "[", NEW st, NEW l, NEW L,
           Reach(t, k, st, k, l, L),
           NEW st2, <<st, st2>> \in {<<"date", "date">>, <<"transitionLevel", "level">>,
                                     <<"transitionThread", "threadBracket">>, <<"transitionClass", "class">>}
    PROVE  Reach(t, k + 1, st2, k + 1, l, L)
<1> DEFINE q == At(st, k, k, l)
<1>1. l \in Log /\ st2 \in States /\ k + 1 \in 0 .. k + 1
  BY DEF Reach, States
<1>2. q.state = st /\ q.start = q.end
  BY DEF At
<1>3. next(q, t, "[") = At(st2, k + 1, k + 1, l)
  <2>1. Skip(At(st2, k, k, l)) = At(st2, k + 1, k + 1, l)
    BY <1>1, AtSteps
  <2>2. CASE st = "date"
    <3>1. next(q, t, "[") = Skip(q) /\ st2 = "date"
      BY <1>2, <2>2 DEF next, After, InToken, handleNextDate
    <3> QED BY <2>1, <2>2, <3>1
  <2>3. CASE st \in {"transitionLevel", "transitionClass"}
    <3>1. After[st] = st2 /\ st \in DOMAIN After /\ st2 \in {"level", "class"}
      BY <2>3 DEF After
    <3>2. Goto(q, st2) = At(st2, k, k, l) /\ At(st2, k, k, l).state = st2
      BY <1>1, AtMoves, AtState
    <3> HIDE DEF q
    <3>3. next(q, t, "[") = InToken(At(st2, k, k, l), t, "[")
      BY <1>2, <3>1, <3>2 DEF next
    <3>4. InToken(At(st2, k, k, l), t, "[") = Skip(At(st2, k, k, l))
      BY <3>1, <3>2 DEF InToken, handleNextHeader
    <3> QED BY <2>1, <3>3, <3>4
  <2>4. CASE st = "transitionThread"
    <3>1. After[st] = "thread" /\ st \in DOMAIN After /\ st2 = "threadBracket"
      BY <2>4 DEF After
    <3>2. Goto(q, "thread") = At("thread", k, k, l) /\ At("thread", k, k, l).state = "thread"
      BY <1>1, AtMoves, AtState
    <3>5. Goto(At("thread", k, k, l), st2) = At(st2, k, k, l)
      BY <1>1, AtMoves
    <3> HIDE DEF q
    <3>3. next(q, t, "[") = InToken(At("thread", k, k, l), t, "[")
      BY <1>2, <3>1, <3>2 DEF next
    <3>4. InToken(At("thread", k, k, l), t, "[") = Skip(Goto(At("thread", k, k, l), st2))
      BY <3>1, <3>2 DEF InToken, handleNextThread
    <3> QED BY <2>1, <3>3, <3>4, <3>5
  <2> QED BY <2>2, <2>3, <2>4
<1>4. Clean(q, "[")
  BY <1>2 DEF Clean
<1> QED BY <1>1, <1>3, <1>4, ReachStep DEF q

\* The first rune of a token, after the blanks.
LEMMA FirstStep ==
    ASSUME NEW t, Narrow(t), NEW k \in Nat, k < Len(t), NEW st, NEW l, NEW L,
           Reach(t, k, st, k, l, L),
           NEW st2,
           <<st, st2>> \in {<<"transitionLevel", "level">>, <<"transitionThread", "threadNoBracket">>,
                                     <<"transitionClass", "class">>, <<"transitionCallType", "callType">>},
           Joins(st2, t[k + 1]), t[k + 1] \notin Blanks
    PROVE  Reach(t, k + 1, st2, k, l, L)
<1> DEFINE q == At(st, k, k, l)
           c == t[k + 1]
<1>1. l \in Log /\ st2 \in States /\ k \in 0 .. k + 1
  BY DEF Reach, States
<1>2. q.state = st
  BY DEF At
<1>3. c \notin {"tab", "sp"}
  BY DEF Blanks
<1>4. Clean(q, c) /\ c # "nl"
  BY <1>2 DEF Clean, Joins
<1>5. next(q, t, c) = At(st2, k, k + 1, l)
  <2> HIDE DEF c
  <2>1. Extend(At(st2, k, k, l)) = At(st2, k, k + 1, l)
    BY <1>1, AtSteps
  <2>2. At(st2, k, k, l).state = st2 /\ st2 # "multiKey" /\ st2 \notin DOMAIN After
    BY AtState DEF After
  <2>3. next(At(st2, k, k, l), t, c) = At(st2, k, k + 1, l)
    BY <2>1, <2>2, JoinsExtends DEF c
  <2>4. InToken(At(st2, k, k, l), t, c) = At(st2, k, k + 1, l)
    BY <2>2, <2>3 DEF next
  <2>5. CASE st # "transitionThread"
    <3>1. After[st] = st2 /\ st \in DOMAIN After
      BY <2>5 DEF After
    <3>2. Goto(q, st2) = At(st2, k, k, l)
      BY <1>1, AtMoves
    <3> HIDE DEF q
    <3> QED BY <1>2, <1>3, <2>4, <3>1, <3>2 DEF next
  <2>6. CASE st = "transitionThread"
    <3>1. After[st] = "thread" /\ st \in DOMAIN After /\ st2 = "threadNoBracket"
      BY <2>6 DEF After
    <3>2. Goto(q, "thread") = At("thread", k, k, l) /\ At("thread", k, k, l).state = "thread"
      BY <1>1, AtMoves, AtState
    <3>3. Goto(At("thread", k, k, l), st2) = At(st2, k, k, l)
      BY <1>1, AtMoves
    <3> HIDE DEF q
    <3>4. next(q, t, c) = InToken(At("thread", k, k, l), t, c)
      BY <1>2, <1>3, <3>1, <3>2 DEF next
    <3>5. c # "["
      BY <3>1 DEF Joins, c
    <3>6. InToken(At("thread", k, k, l), t, c) =
            handleNextHeader(At(st2, k, k, l), t, c, "thread", "transitionClass")
      BY <3>1, <3>2, <3>3, <3>5 DEF InToken, handleNextThread
    <3>7. InToken(At(st2, k, k, l), t, c) =
            handleNextHeader(At(st2, k, k, l), t, c, "thread", "transitionClass")
      BY <2>2, <3>1 DEF InToken
    <3> QED BY <2>4, <3>4, <3>6, <3>7
  <2> QED BY <2>5, <2>6
<1> QED BY <1>1, <1>4, <1>5, ReachStep DEF q, c

\* Where a text and the byte that ends it stand.
LEMMA EndedFacts ==
    ASSUME NEW t, Narrow(t), NEW v \in Nat, NEW w \in Text, NEW b, NEW B, Ended(t, v, b, w, B)
    PROVE  /\ HasAt(t, v, w) /\ b = v + Len(w) + 1 /\ v + Len(w) < Len(t) /\ t[v + Len(w) + 1] \in B
           /\ Len(w) \in Nat /\ b \in Nat /\ Len(t) \in Nat /\ b <= Len(t)
<1>1. Len(w) \in Nat /\ Len(t) \in Nat /\ b = v + Len(w) + 1
  BY DEF Narrow, Text, Ended
<1>2. b - 1 = v + Len(w)
  BY <1>1
<1>3. v + Len(w) < Len(t) /\ t[v + Len(w) + 1] \in B
  BY <1>2 DEF Ended, ByteAt
<1> QED BY <1>1, <1>3 DEF Ended

\* Date and time (parse.go:128-141).
LEMMA DatedStep ==
    ASSUME NEW t, Narrow(t), NEW a \in Nat, NEW b \in Nat, NEW l \in Log, Dated(t, a, b, l),
           NEW m, NEW L, Reach(t, a, "date", a, m, L)
    PROVE  Reach(t, b, "transitionLevel", b, [[m EXCEPT !["date"] = l.date] EXCEPT !["time"] = l.time], L)
<1> DEFINE w == l.date
           z == l.time
<1> HIDE DEF w, z
<1>1. PICK d, e \in a .. b : /\ Bracket(t, a, d)
                             /\ Ended(t, d, e, w, DateEnds)
                             /\ Ended(t, e, b, z, DateEnds)
  BY DEF Dated, w, z
<1>2. w \in Text /\ z \in Text /\ d \in Nat /\ e \in Nat
  BY DEF Log, w, z
<1>3. Reach(t, d, "date", d, m, L)
  <2>1. CASE d = a
    BY <2>1
  <2>2. CASE d = a + 1 /\ a < Len(t) /\ t[a + 1] = "["
    BY <2>2, OpenStep
  <2> QED BY <1>1, <2>1, <2>2 DEF Bracket, ByteAt
<1>4. Reach(t, e, "time", e, [m EXCEPT !["date"] = w], L)
  <2>1. /\ HasAt(t, d, w) /\ e = d + Len(w) + 1 /\ d + Len(w) < Len(t)
        /\ t[d + Len(w) + 1] \in DateEnds /\ d <= d /\ d <= d + Len(w)
    BY <1>1, <1>2, EndedFacts
  <2>2. \A j \in 1 .. Len(w) : Joins("date", w[j])
    BY DEF Dated, Made, DateBytes, Joins, w, z
  <2>3. Ends("date", t[d + Len(w) + 1], "date", "time")
    BY <2>1 DEF Ends
  <2> QED BY <1>2, <1>3, <2>1, <2>2, <2>3, Field
<1>5. /\ HasAt(t, e, z) /\ b = e + Len(z) + 1 /\ e + Len(z) < Len(t)
      /\ t[e + Len(z) + 1] \in DateEnds /\ e <= e /\ e <= e + Len(z)
  BY <1>1, <1>2, EndedFacts
<1>6. \A j \in 1 .. Len(z) : Joins("time", z[j])
  BY DEF Dated, Made, DateBytes, Joins, w, z
<1>7. Ends("time", t[e + Len(z) + 1], "time", "transitionLevel")
  BY <1>5 DEF Ends
<1>8. Reach(t, b, "transitionLevel", b, [[m EXCEPT !["date"] = w] EXCEPT !["time"] = z], L)
  BY <1>2, <1>4, <1>5, <1>6, <1>7, Field
<1> QED BY <1>8 DEF w, z

\* The level and the class.
LEMMA WordedStep ==
    ASSUME NEW t, Narrow(t), NEW a \in Nat, NEW b \in Nat, NEW w \in Text, Worded(t, a, b, w),
           NEW st, NEW f, NEW st2,
           \/ st = "transitionLevel" /\ f = "level" /\ st2 = "transitionThread"
           \/ st = "transitionClass" /\ f = "class" /\ st2 = "transitionCallType",
           NEW m, NEW L, Reach(t, a, st, a, m, L)
    PROVE  Reach(t, b, st2, b, [m EXCEPT ![f] = w], L)
<1>1. PICK g, v \in a .. b : Gap(t, a, g) /\ Bracket(t, g, v) /\ Ended(t, v, b, w, WordEnds)
  BY DEF Worded
<1>2. /\ g \in Nat /\ v \in Nat /\ a <= g /\ st \in DOMAIN After
      /\ <<st, f>> \in {<<"transitionLevel", "level">>, <<"transitionClass", "class">>}
  BY DEF After
<1>3. Reach(t, g, st, g, m, L)
  BY <1>1, <1>2, BlankRun
<1>4. /\ HasAt(t, v, w) /\ b = v + Len(w) + 1 /\ v + Len(w) < Len(t)
      /\ t[v + Len(w) + 1] \in WordEnds
      /\ Len(w) \in Nat /\ Len(t) \in Nat
  BY <1>1, <1>2, EndedFacts
<1>5. Len(w) > 0 /\ w # NoText /\ Made(w, WordBytes)
  BY <1>4 DEF Worded, Text, NoText
<1>6. \A j \in 1 .. Len(w) : Joins(f, w[j]) /\ w[j] \notin Blanks
  BY <1>2, <1>5 DEF Made, WordBytes, Joins, Blanks
<1>7. Ends(f, t[v + Len(w) + 1], f, st2)
  BY <1>4 DEF Ends
<1>8. t[v + 1] = w[1] /\ 1 \in 1 .. Len(w)
  BY <1>4, <1>5 DEF HasAt
<1>9. CASE v = g
  <2>1. Reach(t, v + 1, f, v, m, L)
    <3>1. <<st, f>> \in {<<"transitionLevel", "level">>, <<"transitionThread", "threadNoBracket">>,
                         <<"transitionClass", "class">>, <<"transitionCallType", "callType">>}
      BY <1>2
    <3>2. Joins(f, t[v + 1]) /\ t[v + 1] \notin Blanks /\ v < Len(t) /\ Reach(t, v, st, v, m, L)
      BY <1>3, <1>4, <1>6, <1>8, <1>9
    <3> QED BY <1>2, <3>1, <3>2, FirstStep
  <2>2. v + 1 \in Nat /\ v <= v + 1 /\ v + 1 <= v + Len(w)
    BY <1>2, <1>4, <1>5
  <2> QED BY <1>2, <1>4, <1>6, <1>7, <2>1, <2>2, Field
<1>10. CASE v = g + 1 /\ g < Len(t) /\ t[g + 1] = "["
  <2>1. <<st, f>> \in {<<"date", "date">>, <<"transitionLevel", "level">>,
                       <<"transitionThread", "threadBracket">>, <<"transitionClass", "class">>}
    BY <1>2
  <2>2. Reach(t, v, f, v, m, L)
    BY <1>2, <1>3, <1>10, <2>1, OpenStep
  <2>3. v <= v /\ v <= v + Len(w)
    BY <1>2, <1>4
  <2> QED BY <1>2, <1>4, <1>6, <1>7, <2>2, <2>3, Field
<1> QED BY <1>1, <1>9, <1>10 DEF Bracket, ByteAt

\* The thread, in brackets or not (parse.go:158-180).
LEMMA ThreadedStep ==
    ASSUME NEW t, Narrow(t), NEW a \in Nat, NEW b \in Nat, NEW w \in Text, Threaded(t, a, b, w),
           NEW m, NEW L, Reach(t, a, "transitionThread", a, m, L)
    PROVE  Reach(t, b, "transitionClass", b, [m EXCEPT !["thread"] = w], L)
<1>1. PICK g \in a .. b :
          /\ Gap(t, a, g)
          /\ \/ Made(w, WordBytes) /\ Ended(t, g, b, w, WordEnds)
             \/ /\ Made(w, ThreadBytes)
                /\ ByteAt(t, g, {"["}) /\ Ended(t, g + 1, b, w, {"tab", "]"})
  BY DEF Threaded
<1>2. g \in Nat /\ a <= g /\ "transitionThread" \in DOMAIN After
  BY DEF After
<1>3. Reach(t, g, "transitionThread", g, m, L)
  BY <1>1, <1>2, BlankRun
<1>4. CASE Made(w, WordBytes) /\ Ended(t, g, b, w, WordEnds)
  <2>1. /\ HasAt(t, g, w) /\ b = g + Len(w) + 1 /\ g + Len(w) < Len(t)
        /\ t[g + Len(w) + 1] \in WordEnds
        /\ Len(w) \in Nat /\ Len(t) \in Nat
    BY <1>2, <1>4, EndedFacts
  <2>2. Len(w) > 0
    BY <2>1 DEF Threaded, Text, NoText
  <2>3. \A j \in 1 .. Len(w) : Joins("threadNoBracket", w[j]) /\ w[j] \notin Blanks
    BY <1>4 DEF Made, WordBytes, Joins, Blanks
  <2>4. Ends("threadNoBracket", t[g + Len(w) + 1], "thread", "transitionClass")
    BY <2>1 DEF Ends
  <2>5. t[g + 1] = w[1] /\ 1 \in 1 .. Len(w)
    BY <2>1, <2>2 DEF HasAt
  <2>6. Reach(t, g + 1, "threadNoBracket", g, m, L)
    <3>1. Joins("threadNoBracket", t[g + 1]) /\ t[g + 1] \notin Blanks /\ g < Len(t)
      BY <1>2, <2>1, <2>3, <2>5
    <3> QED BY <1>2, <1>3, <3>1, FirstStep
  <2>7. g + 1 \in Nat /\ g <= g + 1 /\ g + 1 <= g + Len(w)
    BY <1>2, <2>1, <2>2
  <2> QED BY <1>2, <2>1, <2>3, <2>4, <2>6, <2>7, Field
<1>5. CASE /\ Made(w, ThreadBytes)
           /\ ByteAt(t, g, {"["}) /\ Ended(t, g + 1, b, w, {"tab", "]"})
  <2> DEFINE v == g + 1
  <2>0. v \in Nat /\ g < Len(t) /\ t[g + 1] = "[" /\ Ended(t, v, b, w, {"tab", "]"})
    BY <1>2, <1>5 DEF ByteAt
  <2>1. Reach(t, v, "threadBracket", v, m, L)
    BY <1>2, <1>3, <2>0, OpenStep
  <2> HIDE DEF v
  <2>2. /\ HasAt(t, v, w) /\ b = v + Len(w) + 1 /\ v + Len(w) < Len(t)
        /\ t[v + Len(w) + 1] \in {"tab", "]"}
        /\ v <= v /\ v <= v + Len(w)
    BY <2>0, EndedFacts
  <2>3. \A j \in 1 .. Len(w) : Joins("threadBracket", w[j])
    BY <1>5 DEF Made, ThreadBytes, Joins
  <2>4. Ends("threadBracket", t[v + Len(w) + 1], "thread", "transitionClass")
    BY <2>2 DEF Ends
  <2> QED BY <2>0, <2>1, <2>2, <2>3, <2>4, Field
<1> QED BY <1>1, <1>4, <1>5

\* No properties yet.
NoProps == <<>>

\* Log l with no message and other properties.
Bare(l, ps) == [date |-> l.date, time |-> l.time, level |-> l.level, thread |-> l.thread, class |-> l.class,
                message |-> NoText, props |-> ps]

\* A header is parsed field by field, and the call type follows.
LEMMA HeaderStep ==
    ASSUME NEW t, Narrow(t), NEW a \in Nat, NEW b \in Nat, NEW l \in Log, Header(t, a, b, l),
           NEW L, Reach(t, a, "date", a, EmptyLog, L)
    PROVE  Reach(t, b, "transitionCallType", b, Bare(l, NoProps), L)
<1>1. PICK c \in a .. b : /\ Dated(t, a, c, l)
         /\ \E d \in c .. b : /\ Worded(t, c, d, l.level)
            /\ \E e \in d .. b : /\ Threaded(t, d, e, l.thread)
               /\ \E f \in e .. b : Worded(t, e, f, l.class) /\ Gap(t, f, b)
  BY DEF Header
<1>2. PICK d \in c .. b : /\ Worded(t, c, d, l.level)
            /\ \E e \in d .. b : /\ Threaded(t, d, e, l.thread)
               /\ \E f \in e .. b : Worded(t, e, f, l.class) /\ Gap(t, f, b)
  BY <1>1
<1>3. PICK e \in d .. b : /\ Threaded(t, d, e, l.thread)
               /\ \E f \in e .. b : Worded(t, e, f, l.class) /\ Gap(t, f, b)
  BY <1>2
<1>4. PICK f \in e .. b : Worded(t, e, f, l.class) /\ Gap(t, f, b)
  BY <1>3
<1>5. /\ c \in Nat /\ d \in Nat /\ e \in Nat /\ f \in Nat /\ f <= b
      /\ l.level \in Text /\ l.thread \in Text /\ l.class \in Text
  BY DEF Log
<1> DEFINE m1 == [[EmptyLog EXCEPT !["date"] = l.date] EXCEPT !["time"] = l.time]
           m2 == [m1 EXCEPT !["level"] = l.level]
           m3 == [m2 EXCEPT !["thread"] = l.thread]
           m4 == [m3 EXCEPT !["class"] = l.class]
<1>6. m4 = Bare(l, NoProps)
  <2> DEFINE R(d1, t1, le, th, cl) == [date |-> d1, time |-> t1, level |-> le, thread |-> th, class |-> cl,
                                       message |-> NoText, props |-> <<>>]
  <2>1. m1 = R(l.date, l.time, NoText, NoText, NoText)
    BY DEF EmptyLog
  <2>2. m2 = R(l.date, l.time, l.level, NoText, NoText)
    <3> HIDE DEF m1
    <3> QED BY <2>1
  <2>3. m3 = R(l.date, l.time, l.level, l.thread, NoText)
    <3> HIDE DEF m2
    <3> QED BY <2>2
  <2>4. m4 = R(l.date, l.time, l.level, l.thread, l.class)
    <3> HIDE DEF m3
    <3> QED BY <2>3
  <2>5. Bare(l, NoProps) = R(l.date, l.time, l.level, l.thread, l.class)
    BY DEF Bare, NoProps
  <2> QED BY <2>4, <2>5
<1>7. Reach(t, c, "transitionLevel", c, m1, L)
  BY <1>1, <1>5, DatedStep
<1> HIDE DEF m1, m2, m3, m4
<1>8. Reach(t, d, "transitionThread", d, m2, L)
  BY <1>2, <1>5, <1>7, WordedStep DEF m2
<1>9. Reach(t, e, "transitionClass", e, m3, L)
  BY <1>3, <1>5, <1>8, ThreadedStep DEF m3
<1>10. Reach(t, f, "transitionCallType", f, m4, L)
  BY <1>4, <1>5, <1>9, WordedStep DEF m4
<1>11. Reach(t, b, "transitionCallType", b, m4, L)
  BY <1>4, <1>5, <1>10, BlankRun DEF After
<1> QED BY <1>6, <1>11
-----------------------------------------------------------------------------
(* Properties *)

\* A property.
Prop(k, v) == [key |-> k, value |-> v]

\* u stands in t from offset a to offset k.
Says(t, a, k, u) == SubSeq(t, a + 1, k) = u

\* Its fields.
LEMMA PropType ==
    ASSUME NEW k \in Text, NEW v \in Text
    PROVE  Prop(k, v) \in Property /\ Prop(k, v).key = k /\ Prop(k, v).value = v
  BY DEF Prop, Property

\* A log without its message is one still.
LEMMA BareType ==
    ASSUME NEW l \in Log, NEW ps \in Seq(Property)
    PROVE  Bare(l, ps) \in Log /\ Bare(l, ps).props = ps
  BY DEF Bare, Log, NoText, Text

\* The property added or changed is the last one.
LEMMA LastProperty ==
    ASSUME NEW ps \in Seq(Property), NEW e \in Property, NEW e2 \in Property
    PROVE  /\ Append(ps, e) \in Seq(Property) /\ Len(Append(ps, e)) = Len(ps) + 1 /\ Len(ps) \in Nat
           /\ Append(ps, e)[Len(ps) + 1] = e
           /\ [Append(ps, e) EXCEPT ![Len(ps) + 1] = e2] = Append(ps, e2)
<1>1. /\ Append(ps, e) \in Seq(Property) /\ Len(Append(ps, e)) = Len(ps) + 1 /\ Len(ps) \in Nat
      /\ Append(ps, e)[Len(ps) + 1] = e
  OBVIOUS
<1> DEFINE n == Len(ps)
           x == [Append(ps, e) EXCEPT ![n + 1] = e2]
           y == Append(ps, e2)
<1>2. /\ x \in Seq(Property) /\ Len(x) = n + 1
      /\ \A j \in 1 .. n + 1 : x[j] = IF j = n + 1 THEN e2 ELSE Append(ps, e)[j]
  <2> DEFINE z == Append(ps, e)
  <2>1. z \in Seq(Property) /\ Len(z) = n + 1 /\ n + 1 \in 1 .. n + 1
    BY <1>1
  <2> HIDE DEF z, n
  <2>2. [z EXCEPT ![n + 1] = e2] \in Seq(Property) /\ Len([z EXCEPT ![n + 1] = e2]) = n + 1
    BY <2>1, ExceptSeq
  <2>3. \A j \in 1 .. n + 1 : [z EXCEPT ![n + 1] = e2][j] = IF j = n + 1 THEN e2 ELSE z[j]
    BY <2>1
  <2> QED BY <2>2, <2>3 DEF z
<1>3. /\ y \in Seq(Property) /\ Len(y) = n + 1
      /\ \A j \in 1 .. n + 1 : y[j] = IF j = n + 1 THEN e2 ELSE ps[j]
  OBVIOUS
<1>4. \A j \in 1 .. n + 1 : j # n + 1 => Append(ps, e)[j] = ps[j]
  OBVIOUS
<1> HIDE DEF x, y, n
<1>5. x = y
  BY <1>2, <1>3, <1>4, SeqEqual
<1> QED BY <1>1, <1>5 DEF x, y, n

\* A property is added,
LEMMA AtAddKey ==
    ASSUME NEW st, NEW a \in Nat, NEW k \in Nat, NEW l \in Log, NEW ps \in Seq(Property),
           NEW w \in Text
    PROVE  AddKey(At(st, a, k, Bare(l, ps)), w) = At(st, a, k, Bare(l, Append(ps, Prop(w, NoText))))
<1>1. [Bare(l, ps) EXCEPT !.props = Append(ps, Prop(w, NoText))] = Bare(l, Append(ps, Prop(w, NoText)))
  <2> DEFINE x == Append(ps, Prop(w, NoText))
  <2> HIDE DEF x
  <2>1. [Bare(l, ps) EXCEPT !.props = x] = Bare(l, x)
    BY DEF Bare
  <2> QED BY <2>1 DEF x
<1>2. AddKey(At(st, a, k, Bare(l, ps)), w) =
        [At(st, a, k, Bare(l, ps)) EXCEPT !.current = [Bare(l, ps) EXCEPT !.props = Append(ps, Prop(w, NoText))]]
  BY DEF AddKey, At, Bare, Prop
<1> QED BY <1>1, <1>2 DEF At

\* and a log with properties,
LEMMA AtWithProp ==
    ASSUME NEW st, NEW a \in Nat, NEW k \in Nat, NEW l \in Log, NEW ps \in Seq(Property),
           NEW e \in Property, NEW e2 \in Property
    PROVE  /\ LastProp(At(st, a, k, Bare(l, Append(ps, e)))) = Len(ps) + 1
           /\ At(st, a, k, Bare(l, Append(ps, e))).current.props[Len(ps) + 1] = e
           /\ WithProp(At(st, a, k, Bare(l, Append(ps, e))), Len(ps) + 1, e2) =
             At(st, a, k, Bare(l, Append(ps, e2)))
<1> DEFINE x == Append(ps, e)
           y == Append(ps, e2)
           n == Len(ps) + 1
           q == At(st, a, k, Bare(l, x))
<1>1. x \in Seq(Property) /\ Len(x) = n /\ x[n] = e /\ [x EXCEPT ![n] = e2] = y
  BY LastProperty
<1> HIDE DEF x, y, n
<1>2. q.current = Bare(l, x) /\ Bare(l, x).props = x
  BY DEF At, Bare
<1>3. LastProp(q) = n /\ q.current.props[n] = e
  BY <1>1, <1>2 DEF LastProp
<1>4. WithProp(q, n, e2) = [q EXCEPT !.current = [Bare(l, x) EXCEPT !.props = [x EXCEPT ![n] = e2]]]
  BY DEF WithProp, At, Bare
<1>5. [Bare(l, x) EXCEPT !.props = y] = Bare(l, y)
  BY DEF Bare
<1>6. [q EXCEPT !.current = Bare(l, y)] = At(st, a, k, Bare(l, y))
  BY DEF At
<1>7. WithProp(q, n, e2) = At(st, a, k, Bare(l, y))
  BY <1>1, <1>4, <1>5, <1>6
<1> QED BY <1>3, <1>7 DEF x, y, n

\* the last of which is looked up,
LEMMA AtLast ==
    ASSUME NEW st, NEW a \in Nat, NEW k \in Nat, NEW l \in Log, NEW ps \in Seq(Property),
           NEW e \in Property
    PROVE  /\ LastProp(At(st, a, k, Bare(l, Append(ps, e)))) = Len(ps) + 1
           /\ At(st, a, k, Bare(l, Append(ps, e))).current.props[Len(ps) + 1] = e
<1>1. \A e2 \in Property : /\ LastProp(At(st, a, k, Bare(l, Append(ps, e)))) = Len(ps) + 1
                            /\ At(st, a, k, Bare(l, Append(ps, e))).current.props[Len(ps) + 1] = e
                            /\ WithProp(At(st, a, k, Bare(l, Append(ps, e))), Len(ps) + 1, e2) =
                              At(st, a, k, Bare(l, Append(ps, e2)))
  BY AtWithProp
<1> QED BY <1>1, Zenon

\* gets the token as the value of its last one (parse.go:72-79).
LEMMA AtConsume ==
    ASSUME NEW st, NEW a \in Nat, NEW k \in Nat, NEW l \in Log, NEW ps \in Seq(Property),
           NEW w \in Text, NEW v \in Text,
           NEW t, NEW u \in Text, Says(t, a, k, u)
    PROVE  consumeCurrent(At(st, a, k, Bare(l, Append(ps, Prop(w, v)))), t) =
             At(st, a, k, Bare(l, Append(ps, Prop(w, u))))
<1> DEFINE n == Len(ps) + 1
           q == At(st, a, k, Bare(l, Append(ps, Prop(w, v))))
<1>1. Prop(w, v) \in Property /\ Prop(w, u) \in Property /\ n \in Nat /\ n # 0
  BY PropType
<1>2. /\ LastProp(q) = n /\ q.current.props[n] = Prop(w, v)
      /\ WithProp(q, n, Prop(w, u)) = At(st, a, k, Bare(l, Append(ps, Prop(w, u))))
  BY <1>1, AtWithProp
<1>3. Token(q, t) = u
  BY DEF At, Token, Says
<1> HIDE DEF q, n
<1>4. consumeCurrent(q, t) = WithProp(q, n, [q.current.props[n] EXCEPT !.value = u])
  BY <1>1, <1>2, <1>3 DEF consumeCurrent, WithProp
<1>5. [Prop(w, v) EXCEPT !.value = u] = Prop(w, u)
  BY DEF Prop
<1> QED BY <1>2, <1>4, <1>5 DEF q

\* A space before a key or a value.
LEMMA SpaceStep ==
    ASSUME NEW t, Narrow(t), NEW k \in Nat, k < Len(t), t[k + 1] = "sp",
           NEW st \in {"key", "verifyCallType", "value"}, NEW l, NEW L, Reach(t, k, st, k, l, L)
    PROVE  Reach(t, k + 1, st, k + 1, l, L)
<1> DEFINE q == At(st, k, k, l)
<1>1. l \in Log /\ st \in States /\ k + 1 \in 0 .. k + 1
  BY DEF Reach, States
<1>2. q.state = st /\ q.start = q.end
  BY DEF At
<1>3. Skip(q) = At(st, k + 1, k + 1, l)
  BY <1>1, AtSteps
<1> HIDE DEF q
<1>4. next(q, t, "sp") = Skip(q) /\ Clean(q, "sp")
  BY <1>2 DEF next, After, InToken, verifyCallType, handleNextKey, handleNextValue, Clean
<1> QED BY <1>1, <1>3, <1>4, ReachStep DEF q

\* A colon ends the call type.
LEMMA CallTypeStep ==
    ASSUME NEW t, Narrow(t), NEW k \in Nat, k < Len(t), t[k + 1] = ":", NEW a, NEW l \in Log, NEW L,
           NEW ps \in Seq(Property),
           Reach(t, k, "callType", a, Bare(l, ps), L), NEW w \in Text, Says(t, a, k, w)
    PROVE  Reach(t, k + 1, "verifyCallType", k + 1, Bare(l, Append(ps, Prop(KeyCallType, w))), L)
<1> DEFINE q == At("callType", a, k, Bare(l, ps))
           y == Bare(l, Append(ps, Prop(KeyCallType, w)))
<1>1. a \in Nat /\ "verifyCallType" \in States /\ k + 1 \in 0 .. k + 1
  BY DEF Reach, States
<1>2. KeyCallType \in Text /\ NoText \in Text
  <2>1. "char" \in Bytes
    BY DEF Bytes
  <2> QED BY <2>1 DEF KeyCallType, Text, NoText
<1>3. y \in Log
  <2>1. Prop(KeyCallType, w) \in Property
    BY <1>2, PropType
  <2>2. Append(ps, Prop(KeyCallType, w)) \in Seq(Property)
    BY <2>1
  <2> QED BY <2>2, BareType
<1>4. AddKey(q, KeyCallType) = At("callType", a, k, Bare(l, Append(ps, Prop(KeyCallType, NoText))))
  BY <1>1, <1>2, AtAddKey
<1>5. consumeCurrent(At("callType", a, k, Bare(l, Append(ps, Prop(KeyCallType, NoText)))), t) =
        At("callType", a, k, y)
  BY <1>1, <1>2, AtConsume
<1>6. Cut(At("callType", a, k, y), "verifyCallType") = At("verifyCallType", k + 1, k + 1, y)
  BY <1>1, <1>3, AtMoves
<1>7. q.state = "callType"
  BY DEF At
<1> HIDE DEF q, y
<1>8. next(q, t, ":") = At("verifyCallType", k + 1, k + 1, y)
  BY <1>4, <1>5, <1>6, <1>7 DEF next, After, InToken, handleNextCallType
<1>9. Clean(q, ":")
  BY <1>7 DEF Clean
<1>10. Reach(t, k + 1, "verifyCallType", k + 1, y, L)
  BY <1>1, <1>3, <1>8, <1>9, ReachStep DEF q
<1> QED BY <1>10 DEF y

\* A colon ends a key.
LEMMA KeyStep ==
    ASSUME NEW t, Narrow(t), NEW k \in Nat, k < Len(t), t[k + 1] = ":", NEW a, NEW l \in Log, NEW L,
           NEW ps \in Seq(Property), NEW st \in {"key", "verifyCallType"},
           Reach(t, k, st, a, Bare(l, ps), L), NEW w \in Text, Says(t, a, k, w)
    PROVE  Reach(t, k + 1, "value", k + 1, Bare(l, Append(ps, Prop(w, NoText))), L)
<1> DEFINE q == At(st, a, k, Bare(l, ps))
           y == Bare(l, Append(ps, Prop(w, NoText)))
<1>1. a \in Nat /\ "value" \in States /\ k + 1 \in 0 .. k + 1 /\ NoText \in Text
  BY DEF Reach, States, NoText, Text
<1>3. y \in Log
  <2>1. Prop(w, NoText) \in Property
    BY <1>1, PropType
  <2>2. Append(ps, Prop(w, NoText)) \in Seq(Property)
    BY <2>1
  <2> QED BY <2>2, BareType
<1>4. AddKey(q, w) = At(st, a, k, y)
  BY <1>1, AtAddKey
<1>6. Cut(At(st, a, k, y), "value") = At("value", k + 1, k + 1, y)
  BY <1>1, <1>3, AtMoves
<1>7. q.state = st /\ Token(q, t) = w
  BY DEF At, Token, Says
<1> HIDE DEF q, y
<1>8. next(q, t, ":") = At("value", k + 1, k + 1, y)
  BY <1>4, <1>6, <1>7 DEF next, After, InToken, verifyCallType, handleNextKey
<1>9. Clean(q, ":")
  BY <1>7 DEF Clean
<1>10. Reach(t, k + 1, "value", k + 1, y, L)
  BY <1>1, <1>3, <1>8, <1>9, ReachStep DEF q
<1> QED BY <1>10 DEF y

\* A colon in a value, and the space that makes a key of the value.
LEMMA ColonStep ==
    ASSUME NEW t, Narrow(t), NEW k \in Nat, k < Len(t), t[k + 1] = ":", NEW a, a # k, NEW l, NEW L,
           Reach(t, k, "value", a, l, L)
    PROVE  Reach(t, k + 1, "multiKey", a, l, L)
<1> DEFINE q == At("value", a, k, l)
<1>1. a \in Nat /\ "multiKey" \in States /\ a \in 0 .. k + 1 /\ l \in Log
  BY DEF Reach, States
<1>2. q.state = "value" /\ q.start # q.end
  BY DEF At
<1>3. Goto(q, "multiKey") = At("multiKey", a, k, l)
  BY <1>1, AtMoves
<1>4. Extend(At("multiKey", a, k, l)) = At("multiKey", a, k + 1, l)
  BY <1>1, AtSteps
<1> HIDE DEF q
<1>5. next(q, t, ":") = At("multiKey", a, k + 1, l) /\ Clean(q, ":")
  BY <1>2, <1>3, <1>4 DEF next, After, InToken, handleNextValue, Clean
<1> QED BY <1>1, <1>5, ReachStep DEF q

\* The colon is part of the value so far,
LEMMA ColonPassed ==
    ASSUME NEW t, Narrow(t), NEW k \in Nat, k < Len(t), t[k + 1] \notin {"nl", "sp"}, NEW a, NEW l,
           NEW L,
           Reach(t, k, "multiKey", a, l, L)
    PROVE  Reach(t, k + 1, "value", a, l, L)
<1> DEFINE q == At("multiKey", a, k, l)
           c == t[k + 1]
<1>1. a \in Nat /\ "value" \in States /\ a \in 0 .. k + 1 /\ l \in Log
  BY DEF Reach, States
<1>2. q.state = "multiKey"
  BY DEF At
<1>3. Goto(q, "value") = At("value", a, k, l)
  BY <1>1, AtMoves
<1>4. Extend(At("value", a, k, l)) = At("value", a, k + 1, l)
  BY <1>1, AtSteps
<1>5. c # "sp" /\ c # "nl"
  OBVIOUS
<1> HIDE DEF q, c
<1>6. next(q, t, c) = At("value", a, k + 1, l) /\ Clean(q, c)
  BY <1>2, <1>3, <1>4, <1>5 DEF next, After, InToken, handleNextMultiKey, Clean
<1> QED BY <1>1, <1>5, <1>6, ReachStep DEF q, c

\* and the space makes what stands before the colon the key (parse.go:59-64).
LEMMA RenameStep ==
    ASSUME NEW t, Narrow(t), NEW k \in Nat, k < Len(t), t[k + 1] = "sp", NEW a, NEW l \in Log,
           NEW L,
           NEW ps \in Seq(Property), NEW e \in Property,
           Reach(t, k, "multiKey", a, Bare(l, Append(ps, e)), L), NEW w \in Text, Says(t, a, k - 1, w)
    PROVE  Reach(t, k + 1, "value", k + 1, Bare(l, Append(ps, Prop(w, NoText))), L)
<1> DEFINE q == At("multiKey", a, k, Bare(l, Append(ps, e)))
           n == Len(ps) + 1
           x == Prop(w, NoText)
           y == Bare(l, Append(ps, x))
<1>1. a \in Nat /\ "value" \in States /\ k + 1 \in 0 .. k + 1
  BY DEF Reach, States
<1>2. x \in Property
  <2>1. NoText \in Text
    BY DEF NoText, Text
  <2> QED BY <2>1, PropType
<1>3. y \in Log
  <2>1. Append(ps, x) \in Seq(Property)
    BY <1>2
  <2> HIDE DEF x
  <2> QED BY <2>1, BareType
<1>4. LastProp(q) = n /\ WithProp(q, n, x) = At("multiKey", a, k, y)
  <2> HIDE DEF x
  <2> QED BY <1>1, <1>2, AtWithProp
<1>5. Cut(At("multiKey", a, k, y), "value") = At("value", k + 1, k + 1, y)
  <2> HIDE DEF y
  <2> QED BY <1>1, <1>3, AtMoves
<1>6. q.state = "multiKey" /\ q.start = a /\ q.end = k
  BY DEF At
<1>7. [key |-> SubSeq(t, q.start + 1, q.end - 1), value |-> NoText] = x
  BY <1>6 DEF Prop, Says
<1> HIDE DEF q, y, n, x
<1>8. next(q, t, "sp") =
        Cut(WithProp(q, LastProp(q), [key |-> SubSeq(t, q.start + 1, q.end - 1), value |-> NoText]), "value")
  BY <1>6 DEF next, After, InToken, handleNextMultiKey, WithProp
<1>9. next(q, t, "sp") = At("value", k + 1, k + 1, y)
  BY <1>4, <1>5, <1>7, <1>8
<1>10. Clean(q, "sp")
  BY <1>6 DEF Clean
<1>11. Reach(t, k + 1, "value", k + 1, y, L)
  BY <1>1, <1>3, <1>9, <1>10, ReachStep DEF q
<1> QED BY <1>11 DEF y, x

\* A comma ends a value.
LEMMA CommaStep ==
    ASSUME NEW t, Narrow(t), NEW k \in Nat, k < Len(t), t[k + 1] = Comma, NEW a, NEW l \in Log,
           NEW L,
           NEW ps \in Seq(Property), NEW w \in Text, NEW v \in Text,
           Reach(t, k, "value", a, Bare(l, Append(ps, Prop(w, v))), L), NEW u \in Text, Says(t, a, k, u)
    PROVE  Reach(t, k + 1, "key", k + 1, Bare(l, Append(ps, Prop(w, u))), L)
<1> DEFINE q == At("value", a, k, Bare(l, Append(ps, Prop(w, v))))
           y == Bare(l, Append(ps, Prop(w, u)))
<1>1. a \in Nat /\ "key" \in States /\ k + 1 \in 0 .. k + 1
  BY DEF Reach, States
<1>2. y \in Log
  <2>1. Prop(w, u) \in Property
    BY PropType
  <2>2. Append(ps, Prop(w, u)) \in Seq(Property)
    BY <2>1
  <2> QED BY <2>2, BareType
<1>3. consumeCurrent(q, t) = At("value", a, k, y)
  BY <1>1, AtConsume
<1>4. Cut(At("value", a, k, y), "key") = At("key", k + 1, k + 1, y)
  BY <1>1, <1>2, AtMoves
<1>5. q.state = "value"
  BY DEF At
<1> HIDE DEF q, y
<1>6. next(q, t, Comma) = At("key", k + 1, k + 1, y) /\ Clean(q, Comma) /\ Comma # "nl"
  BY <1>3, <1>4, <1>5 DEF Comma, next, After, InToken, handleNextValue, Clean
<1>7. Reach(t, k + 1, "key", k + 1, y, L)
  BY <1>1, <1>2, <1>6, ReachStep DEF q
<1> QED BY <1>7 DEF y

\* A comma shows that the call type is a key.
LEMMA VerifyStep ==
    ASSUME NEW t, Narrow(t), NEW k \in Nat, k < Len(t), t[k + 1] = Comma, NEW a, NEW l \in Log,
           NEW L,
           NEW w \in Text, NEW v \in Text,
           Reach(t, k, "verifyCallType", a, Bare(l, Append(NoProps, Prop(w, v))), L),
           NEW u \in Text, Says(t, a, k, u)
    PROVE  Reach(t, k + 1, "key", k + 1, Bare(l, Append(NoProps, Prop(v, u))), L)
<1> DEFINE q == At("verifyCallType", a, k, Bare(l, Append(NoProps, Prop(w, v))))
           r == At("verifyCallType", a, k, Bare(l, Append(NoProps, Prop(v, v))))
           y == Bare(l, Append(NoProps, Prop(v, u)))
<1>1. a \in Nat /\ "key" \in States /\ k + 1 \in 0 .. k + 1 /\ NoProps \in Seq(Property)
  BY DEF Reach, States, NoProps
<1>2. y \in Log
  <2>1. Prop(v, u) \in Property
    BY PropType
  <2>2. Append(NoProps, Prop(v, u)) \in Seq(Property)
    BY <1>1, <2>1
  <2> QED BY <2>2, BareType
<1>3. consumeCurrent(r, t) = At("verifyCallType", a, k, y)
  BY <1>1, AtConsume
<1>4. Cut(At("verifyCallType", a, k, y), "key") = At("key", k + 1, k + 1, y)
  BY <1>1, <1>2, AtMoves
<1>5. q.state = "verifyCallType"
  BY DEF At
<1>6. [q EXCEPT !.current.props[1].key = q.current.props[1].value] = r
  <2>1. Prop(w, v) \in Property /\ Prop(v, v) \in Property /\ Prop(w, v).value = v
    BY PropType
  <2>5. Len(NoProps) + 1 = 1
    BY DEF NoProps
  <2>2. q.current.props[1] = Prop(w, v) /\ WithProp(q, 1, Prop(v, v)) = r
    BY <1>1, <2>1, <2>5, AtWithProp
  <2>3. [Prop(w, v) EXCEPT !.key = v] = Prop(v, v)
    BY DEF Prop
  <2> HIDE DEF q, r
  <2>4. [q EXCEPT !.current.props[1].key = v] = WithProp(q, 1, [q.current.props[1] EXCEPT !.key = v])
    BY DEF WithProp
  <2> QED BY <2>1, <2>2, <2>3, <2>4
<1> HIDE DEF q, y, r
<1>7. next(q, t, Comma) = handleNextValue(r, t, Comma) /\ Clean(q, Comma) /\ Comma # "nl"
  BY <1>5, <1>6 DEF Comma, next, After, InToken, verifyCallType, Clean
<1>8. handleNextValue(r, t, Comma) = At("key", k + 1, k + 1, y)
  BY <1>3, <1>4 DEF handleNextValue, Comma
<1>9. Reach(t, k + 1, "key", k + 1, y, L)
  BY <1>1, <1>2, <1>7, <1>8, ReachStep DEF q
<1> QED BY <1>9 DEF y
-----------------------------------------------------------------------------
(* Names and values *)

\* A text that is not empty has a first byte.
LEMMA NotEmpty ==
    ASSUME NEW w \in Text, w # NoText
    PROVE  Len(w) \in Nat /\ Len(w) > 0 /\ 1 \in 1 .. Len(w)
  BY DEF Text, NoText

\* Which runes a name, the first key of a line, a value and a message join.
LEMMA ByteJoins ==
    ASSUME NEW c
    PROVE  /\ c \in NameBytes => Joins("verifyCallType", c) /\ Joins("key", c) /\ Joins("value", c)
           /\ c \in BodyBytes \ {":"} => Joins("callType", c) /\ (c # "sp" => c \notin Blanks)
           /\ c \in BodyBytes \ {":", ","} => c \in BodyBytes \ {":"} /\ (c # "sp" => Joins("value", c))
           /\ c \in BodyBytes \ {","} => c \in BodyBytes /\ (c # ":" => c \in BodyBytes \ {":", ","})
           /\ c \in BodyBytes => c # "nl"
  BY Zenon DEF NameBytes, BodyBytes, Joins, Blanks

\* Two bytes that stand in t.
LEMMA TwoBytes ==
    ASSUME NEW t \in Text, NEW e \in Nat, NEW x, NEW y, HasAt(t, e, <<x, y>>)
    PROVE  /\ e < Len(t) /\ e + 1 < Len(t) /\ t[e + 1] = x /\ t[(e + 1) + 1] = y /\ e + 2 <= Len(t)
           /\ Len(t) \in Nat
<1>1. /\ Len(<<x, y>>) = 2 /\ <<x, y>>[1] = x /\ <<x, y>>[2] = y /\ 1 \in 1 .. 2 /\ 2 \in 1 .. 2
      /\ Len(t) \in Nat
  BY DEF Text
<1>2. e + 2 <= Len(t) /\ t[e + 1] = x /\ t[e + 2] = y
  <2> DEFINE w == <<x, y>>
  <2> HIDE DEF w
  <2>1. Len(w) = 2 /\ w[1] = x /\ w[2] = y
    BY <1>1 DEF w
  <2>2. e + Len(w) <= Len(t) /\ \A j \in 1 .. Len(w) : t[e + j] = w[j]
    BY DEF HasAt, w
  <2> QED BY <1>1, <2>1, <2>2
<1> QED BY <1>1, <1>2

\* Where a name, its colon and its space stand.
LEMMA NamedFacts ==
    ASSUME NEW t, Narrow(t), NEW a \in Nat, NEW b, NEW w \in Text, Named(t, a, b, w)
    PROVE  LET e == a + Len(w)
           IN  /\ e \in Nat /\ e < Len(t) /\ e + 1 < Len(t)
               /\ t[e + 1] = ":" /\ t[(e + 1) + 1] = "sp" /\ b = (e + 1) + 1
               /\ HasAt(t, a, w) /\ Says(t, a, e, w) /\ e <= Len(t) /\ Len(w) \in Nat
<1> DEFINE e == a + Len(w)
<1>1. t \in Text /\ Len(w) \in Nat /\ e \in Nat /\ b = e + 2 /\ b - 2 = e /\ HasAt(t, a, w)
  BY DEF Named, Narrow, Text
<1>2. SubSeq(t, a + 1, e) = w
  BY <1>1, HasText
<1> HIDE DEF e
<1>3. HasAt(t, e, <<":", "sp">>)
  BY <1>1 DEF Named
<1>4. e < Len(t) /\ e + 1 < Len(t) /\ t[e + 1] = ":" /\ t[(e + 1) + 1] = "sp" /\ Len(t) \in Nat
  BY <1>1, <1>3, TwoBytes
<1> QED BY <1>1, <1>2, <1>4 DEF e, Says

\* A text whose runes join the token.
LEMMA TextRun ==
    ASSUME NEW t, Narrow(t), NEW a \in Nat, NEW w \in Text, HasAt(t, a, w), NEW k \in Nat, a <= k,
           k <= a + Len(w),
           NEW st, st # "multiKey", \A j \in 1 .. Len(w) : Joins(st, w[j]),
           NEW l, NEW L, Reach(t, k, st, a, l, L)
    PROVE  Reach(t, a + Len(w), st, a, l, L)
<1> DEFINE e == a + Len(w)
<1>1. t \in Text /\ Len(w) \in Nat /\ e \in Nat
  BY DEF Narrow, Text
<1>2. \A j \in a + 1 .. e : t[j] = w[j - a] /\ j - a \in 1 .. Len(w)
  BY <1>1, HasText
<1>3. e <= Len(t)
  BY DEF HasAt
<1>4. \A j \in k + 1 .. e : Joins(st, t[j])
  <2> TAKE j \in k + 1 .. e
  <2>1. j \in a + 1 .. e
    BY <1>1
  <2> QED BY <1>2, <2>1
<1>5. k <= e
  OBVIOUS
<1> HIDE DEF e
<1>6. Reach(t, e, st, a, l, L)
  BY <1>1, <1>3, <1>4, <1>5, Run
<1> QED BY <1>6 DEF e

\* The call type, or the first key of a line.
LEMMA TitleStep ==
    ASSUME NEW t, Narrow(t), NEW a \in Nat, NEW b, NEW w \in Text, IsTitle(w), Named(t, a, b, w),
           NEW l \in Log, NEW L, Reach(t, a, "transitionCallType", a, Bare(l, NoProps), L)
    PROVE  Reach(t, b, "verifyCallType", b, Bare(l, Append(NoProps, Prop(KeyCallType, w))), L)
<1> DEFINE e == a + Len(w)
           y == Bare(l, Append(NoProps, Prop(KeyCallType, w)))
<1>1. /\ e \in Nat /\ e < Len(t) /\ e + 1 < Len(t) /\ t[e + 1] = ":" /\ t[(e + 1) + 1] = "sp"
      /\ b = (e + 1) + 1
      /\ HasAt(t, a, w) /\ Says(t, a, e, w) /\ e <= Len(t) /\ Len(w) \in Nat
  BY NamedFacts
<1>2. Len(w) > 0 /\ 1 \in 1 .. Len(w)
  BY NotEmpty DEF IsTitle
<1>3. \A j \in 1 .. Len(w) : Joins("callType", w[j])
  BY ByteJoins DEF IsTitle, Made
<1>4. w[1] \notin Blanks
  BY <1>2, ByteJoins DEF IsTitle, Made
<1>5. t[a + 1] = w[1] /\ a < Len(t)
  BY <1>1, <1>2 DEF HasAt
<1>6. Reach(t, a + 1, "callType", a, Bare(l, NoProps), L)
  <2>1. Joins("callType", t[a + 1]) /\ t[a + 1] \notin Blanks
    BY <1>2, <1>3, <1>4, <1>5
  <2>2. <<"transitionCallType", "callType">> \in
            {<<"transitionLevel", "level">>, <<"transitionThread", "threadNoBracket">>,
             <<"transitionClass", "class">>, <<"transitionCallType", "callType">>}
    OBVIOUS
  <2> QED BY <1>5, <2>1, <2>2, FirstStep
<1>7. a + 1 \in Nat /\ a <= a + 1 /\ a + 1 <= a + Len(w)
  BY <1>1, <1>2
<1>8. Reach(t, e, "callType", a, Bare(l, NoProps), L)
  BY <1>1, <1>3, <1>6, <1>7, TextRun
<1>9. NoProps \in Seq(Property)
  BY DEF NoProps
<1> HIDE DEF e
<1>10. Reach(t, e + 1, "verifyCallType", e + 1, y, L)
  BY <1>1, <1>8, <1>9, CallTypeStep
<1>11. e + 1 \in Nat
  BY <1>1
<1> HIDE DEF y
<1>12. Reach(t, (e + 1) + 1, "verifyCallType", (e + 1) + 1, y, L)
  BY <1>1, <1>10, <1>11, SpaceStep
<1> QED BY <1>1, <1>12 DEF y

\* A key, from where one is expected.
LEMMA NameStep ==
    ASSUME NEW t, Narrow(t), NEW a \in Nat, NEW b, NEW w \in Text, IsName(w), Named(t, a, b, w),
           NEW st \in {"key", "verifyCallType"}, NEW ps \in Seq(Property),
           NEW l \in Log, NEW L, Reach(t, a, st, a, Bare(l, ps), L)
    PROVE  Reach(t, b, "value", b, Bare(l, Append(ps, Prop(w, NoText))), L)
<1> DEFINE e == a + Len(w)
           y == Bare(l, Append(ps, Prop(w, NoText)))
<1>1. /\ e \in Nat /\ e < Len(t) /\ e + 1 < Len(t) /\ t[e + 1] = ":" /\ t[(e + 1) + 1] = "sp"
      /\ b = (e + 1) + 1
      /\ HasAt(t, a, w) /\ Says(t, a, e, w) /\ e <= Len(t) /\ Len(w) \in Nat
  BY NamedFacts
<1>2. \A j \in 1 .. Len(w) : Joins(st, w[j])
  BY ByteJoins DEF IsName, Made
<1>3. a <= a /\ a <= a + Len(w) /\ st # "multiKey"
  BY <1>1
<1>4. Reach(t, e, st, a, Bare(l, ps), L)
  BY <1>1, <1>2, <1>3, TextRun
<1> HIDE DEF e
<1>5. Reach(t, e + 1, "value", e + 1, y, L)
  BY <1>1, <1>4, KeyStep
<1>6. e + 1 \in Nat
  BY <1>1
<1> HIDE DEF y
<1>7. Reach(t, (e + 1) + 1, "value", (e + 1) + 1, y, L)
  BY <1>1, <1>5, <1>6, SpaceStep
<1> QED BY <1>1, <1>7 DEF y

\* A second key takes the place of the first.
LEMMA SecondName ==
    ASSUME NEW t, Narrow(t), NEW a \in Nat, NEW b, NEW w \in Text, IsName(w), Named(t, a, b, w),
           NEW ps \in Seq(Property), NEW x \in Property,
           NEW l \in Log, NEW L, Reach(t, a, "value", a, Bare(l, Append(ps, x)), L)
    PROVE  Reach(t, b, "value", b, Bare(l, Append(ps, Prop(w, NoText))), L)
<1> DEFINE e == a + Len(w)
           z == Bare(l, Append(ps, x))
<1>1. /\ e \in Nat /\ e < Len(t) /\ e + 1 < Len(t) /\ t[e + 1] = ":" /\ t[(e + 1) + 1] = "sp"
      /\ b = (e + 1) + 1
      /\ HasAt(t, a, w) /\ Says(t, a, e, w) /\ e <= Len(t) /\ Len(w) \in Nat
  BY NamedFacts
<1>2. \A j \in 1 .. Len(w) : Joins("value", w[j])
  BY ByteJoins DEF IsName, Made
<1>3. a <= a /\ a <= a + Len(w) /\ a # e
  <2>1. Len(w) > 0
    BY NotEmpty DEF IsName
  <2> QED BY <1>1, <2>1
<1> HIDE DEF z
<1>4. Reach(t, e, "value", a, z, L)
  BY <1>1, <1>2, <1>3, TextRun DEF z
<1> HIDE DEF e
<1>5. Reach(t, e + 1, "multiKey", a, z, L)
  BY <1>1, <1>3, <1>4, ColonStep
<1>6. e + 1 \in Nat /\ (e + 1) - 1 = e
  BY <1>1
<1>7. Reach(t, (e + 1) + 1, "value", (e + 1) + 1, Bare(l, Append(ps, Prop(w, NoText))), L)
  BY <1>1, <1>5, <1>6, RenameStep DEF z
<1> QED BY <1>1, <1>7

\* A space inside a value.
LEMMA ValueSpace ==
    ASSUME NEW t, Narrow(t), NEW k \in Nat, k < Len(t), t[k + 1] = "sp", NEW a, a # k, NEW l, NEW L,
           Reach(t, k, "value", a, l, L)
    PROVE  Reach(t, k + 1, "value", a, l, L)
<1> DEFINE q == At("value", a, k, l)
<1>1. a \in Nat /\ "value" \in States /\ a \in 0 .. k + 1 /\ l \in Log
  BY DEF Reach, States
<1>2. q.state = "value" /\ q.start # q.end
  BY DEF At
<1>3. Extend(q) = At("value", a, k + 1, l)
  BY <1>1, AtSteps
<1> HIDE DEF q
<1>4. next(q, t, "sp") = Extend(q) /\ Clean(q, "sp")
  BY <1>2 DEF next, After, InToken, handleNextValue, Clean
<1> QED BY <1>1, <1>3, <1>4, ReachStep DEF q

\* After a colon the parser expects a space.
ValueState(w, j) == IF j # 0 /\ w[j] = ":" THEN "multiKey" ELSE "value"

\* A value, rune by rune.
LEMMA ValueRun ==
    ASSUME NEW t, Narrow(t), NEW v \in Nat, NEW w \in Text, IsValue(w), HasAt(t, v, w),
           NEW l, NEW L, Reach(t, v, "value", v, l, L)
    PROVE  Reach(t, v + Len(w), "value", v, l, L)
<1> DEFINE U == {j \in 0 .. Len(w) : Reach(t, v + j, ValueState(w, j), v, l, L)}
<1>1. t \in Text /\ Len(w) \in Nat /\ Len(t) \in Nat
  BY DEF Narrow, Text
<1>2. v + Len(w) <= Len(t) /\ \A j \in 1 .. Len(w) : t[v + j] = w[j]
  BY DEF HasAt
<1>3. \A j \in 1 .. Len(w) : /\ w[j] # "nl"
                             /\ w[j] \notin {":", "sp"} => Joins("value", w[j])
  BY ByteJoins DEF IsValue, Made
<1>4. \A j \in 1 .. Len(w) : w[j] = ":" => j > 1 /\ j < Len(w) /\ w[j + 1] \notin {":", "sp"}
  BY DEF IsValue
<1>5. 1 \in 1 .. Len(w) => w[1] # "sp"
  <2>1. 1 \in 1 .. Len(w) => w # NoText
    BY <1>1 DEF NoText
  <2> QED BY <2>1 DEF IsValue
<1>6. 0 \in U
  BY <1>1 DEF ValueState
<1>7. ASSUME NEW j \in 0 .. Len(w) - 1, j \in U
      PROVE  j + 1 \in U
  <2> DEFINE k == v + j
             c == w[j + 1]
  <2>1. /\ j + 1 \in 1 .. Len(w) /\ k \in Nat /\ k < Len(t) /\ t[k + 1] = c /\ j + 1 # 0
        /\ j + 1 \in 0 .. Len(w)
        /\ k + 1 = v + (j + 1)
    <3>1. j + 1 \in 1 .. Len(w) /\ v + (j + 1) = k + 1 /\ k \in Nat /\ k < Len(t)
      BY <1>1, <1>2
    <3>2. t[v + (j + 1)] = w[j + 1]
      BY <1>2, <3>1
    <3> QED BY <1>1, <3>1, <3>2
  <2>2. Reach(t, k, ValueState(w, j), v, l, L)
    BY <1>7
  <2>3. c # "nl" /\ (c \notin {":", "sp"} => Joins("value", c))
    BY <1>3, <2>1
  <2>4. j # 0 => v # k
    BY <1>1
  <2>5. (c = ":" \/ c = "sp") /\ ValueState(w, j) = "value" => j # 0
    <3> SUFFICES ASSUME j = 0 PROVE c # ":" /\ c # "sp"
      OBVIOUS
    <3>1. j + 1 = 1
      OBVIOUS
    <3>2. c # ":"
      BY <1>4, <2>1, <3>1
    <3> QED BY <1>5, <2>1, <3>1, <3>2
  <2>6. ValueState(w, j + 1) = IF c = ":" THEN "multiKey" ELSE "value"
    BY <2>1 DEF ValueState
  <2> SUFFICES Reach(t, k + 1, ValueState(w, j + 1), v, l, L)
    BY <2>1
  <2>7. CASE ValueState(w, j) = "multiKey"
    <3>1. j \in 1 .. Len(w) /\ w[j] = ":"
      BY <1>1, <2>7 DEF ValueState
    <3>2. c \notin {":", "sp"}
      BY <1>4, <3>1
    <3> HIDE DEF k, c
    <3>3. Reach(t, k + 1, "value", v, l, L)
      BY <2>1, <2>2, <2>3, <2>7, <3>2, ColonPassed
    <3> QED BY <2>6, <3>2, <3>3
  <2>8. CASE ValueState(w, j) = "value" /\ c = ":"
    <3> HIDE DEF k, c
    <3>1. Reach(t, k + 1, "multiKey", v, l, L)
      BY <2>1, <2>2, <2>4, <2>5, <2>8, ColonStep
    <3> QED BY <2>6, <2>8, <3>1
  <2>9. CASE ValueState(w, j) = "value" /\ c = "sp"
    <3> HIDE DEF k, c
    <3>1. Reach(t, k + 1, "value", v, l, L)
      BY <2>1, <2>2, <2>4, <2>5, <2>9, ValueSpace
    <3> QED BY <2>6, <2>9, <3>1
  <2>10. CASE ValueState(w, j) = "value" /\ c \notin {":", "sp"}
    <3> HIDE DEF k, c
    <3>1. Reach(t, k + 1, "value", v, l, L)
      BY <2>1, <2>2, <2>3, <2>10, JoinStep
    <3> QED BY <2>6, <2>10, <3>1
  <2>11. ValueState(w, j) \in {"multiKey", "value"}
    BY DEF ValueState
  <2> QED BY <2>7, <2>8, <2>9, <2>10, <2>11
<1>8. \A j \in 0 .. Len(w) : j \in U
  <2> HIDE DEF U
  <2> QED BY <1>1, <1>6, <1>7, UpTo
<1>9. Reach(t, v + Len(w), ValueState(w, Len(w)), v, l, L)
  <2>1. Len(w) \in 0 .. Len(w)
    BY <1>1
  <2> QED BY <1>8, <2>1
<1>10. ValueState(w, Len(w)) = "value"
  <2>1. Len(w) # 0 => Len(w) \in 1 .. Len(w) /\ ~(Len(w) < Len(w))
    BY <1>1
  <2> QED BY <1>4, <2>1 DEF ValueState
<1> QED BY <1>9, <1>10

\* Key and value, from where a key is expected.
LEMMA PairStep ==
    ASSUME NEW t, Narrow(t), NEW a \in Nat, NEW b \in Nat, NEW x \in Property, Pair(t, a, b, x),
           NEW st \in {"key", "verifyCallType"}, NEW ps \in Seq(Property), NEW l \in Log, NEW L,
           Reach(t, a, st, a, Bare(l, ps), L)
    PROVE  \E v \in Nat : /\ Reach(t, b, "value", v, Bare(l, Append(ps, Prop(x.key, NoText))), L)
                          /\ Says(t, v, b, x.value)
<1>1. PICK c \in a .. b :
          /\ c = a \/ (c > a + 2 /\ LET w == SubSeq(t, a + 1, c - 2) IN IsName(w) /\ Named(t, a, c, w))
          /\ \E v \in c .. b : Named(t, c, v, x.key) /\ HasAt(t, v, x.value) /\ b = v + Len(x.value)
  BY DEF Pair
<1>2. PICK v \in c .. b : Named(t, c, v, x.key) /\ HasAt(t, v, x.value) /\ b = v + Len(x.value)
  BY <1>1
<1>3. /\ x.key \in Text /\ x.value \in Text /\ IsName(x.key) /\ IsValue(x.value) /\ c \in Nat
      /\ v \in Nat /\ t \in Text
  BY DEF Property, Pair, Narrow
<1> DEFINE key == x.key
           u == x.value
<1> HIDE DEF key, u
<1>4. Reach(t, v, "value", v, Bare(l, Append(ps, Prop(key, NoText))), L)
  <2>1. CASE c = a
    BY <1>2, <1>3, <2>1, NameStep DEF key
  <2>2. CASE c # a
    <3> DEFINE w == SubSeq(t, a + 1, c - 2)
    <3>1. c > a + 2 /\ IsName(w) /\ Named(t, a, c, w)
      BY <1>1, <2>2
    <3>2. w \in Text
      <4>1. c - 2 \in Nat /\ a <= c - 2
        BY <1>3, <3>1
      <4>2. HasAt(t, c - 2, <<":", "sp">>)
        BY <3>1 DEF Named
      <4>3. c - 2 <= Len(t)
        BY <1>3, <4>1, <4>2, TwoBytes
      <4> QED BY <1>3, <4>1, <4>3, Slices
    <3> HIDE DEF w
    <3>3. Reach(t, c, "value", c, Bare(l, Append(ps, Prop(w, NoText))), L)
      BY <3>1, <3>2, NameStep
    <3>4. Prop(w, NoText) \in Property
      <4>1. NoText \in Text
        BY DEF NoText, Text
      <4> QED BY <3>2, <4>1, PropType
    <3> QED BY <1>2, <1>3, <3>3, <3>4, SecondName DEF key
  <2> QED BY <2>1, <2>2
<1>5. Reach(t, v + Len(u), "value", v, Bare(l, Append(ps, Prop(key, NoText))), L)
  BY <1>2, <1>3, <1>4, ValueRun DEF u
<1>6. SubSeq(t, v + 1, v + Len(u)) = u
  BY <1>2, <1>3, HasText DEF u
<1>7. Reach(t, b, "value", v, Bare(l, Append(ps, Prop(key, NoText))), L) /\ Says(t, v, b, u)
  BY <1>2, <1>5, <1>6 DEF Says, u
<1> QED BY <1>3, <1>7 DEF key, u
-----------------------------------------------------------------------------
(* Properties, one after the other *)

\* The first n + 1 properties.
LEMMA OneMore ==
    ASSUME NEW s \in Seq(Property), NEW n \in 1 .. Len(s)
    PROVE  /\ SubSeq(s, 1, n) = Append(SubSeq(s, 1, n - 1), s[n])
           /\ SubSeq(s, 1, n - 1) \in Seq(Property)
           /\ SubSeq(s, 1, n) \in Seq(Property) /\ s[n] \in Property
<1>1. /\ s[n] \in Property /\ SubSeq(s, 1, n - 1) \in Seq(Property)
      /\ SubSeq(s, 1, n) \in Seq(Property)
  <2>1. n \in 1 - 1 .. Len(s) /\ n - 1 \in 1 - 1 .. Len(s) /\ 1 \in 1 .. Len(s) + 1
    OBVIOUS
  <2> QED BY <2>1, SubSeqProperties, ElementOfSeq
<1>2. SubSeq(s, 1, n) = SubSeq(s, 1, n - 1) \o <<s[n]>>
  <2>1. n \in 1 .. Len(s) /\ 1 \in 1 .. Len(s) /\ 1 <= n
    OBVIOUS
  <2> QED BY <2>1, SubSeqRecursiveSecond
<1> DEFINE x == SubSeq(s, 1, n - 1)
           e == s[n]
<1> HIDE DEF x, e
<1>3. Append(x, e) = x \o <<e>>
  BY <1>1, AppendIsConcat DEF x, e
<1> QED BY <1>1, <1>2, <1>3 DEF x, e

\* A property is its key and its value.
LEMMA PropEqual ==
    ASSUME NEW x \in Property
    PROVE  x = Prop(x.key, x.value) /\ x.key \in Text /\ x.value \in Text
  BY DEF Property, Prop

\* At offset k of t property n + 1 of log l is about to begin.
Reading(t, k, l, n, L) ==
    \E st \in {"key", "verifyCallType"} : Reach(t, k, st, k, Bare(l, SubSeq(l.props, 1, n)), L)

\* At offset k property n of log l, the value last, has been read but not stored.
Holding(t, k, l, n, L) ==
    \E v \in Nat : /\ Reach(t, k, "value", v,
                            Bare(l, Append(SubSeq(l.props, 1, n - 1), Prop(l.props[n].key, NoText))), L)
                   /\ Says(t, v, k, l.props[n].value)

\* A property is read,
LEMMA ReadingPair ==
    ASSUME NEW t, Narrow(t), NEW a \in Nat, NEW b \in Nat, NEW l \in Log,
           NEW n \in 1 .. Len(l.props),
           Pair(t, a, b, l.props[n]), NEW L, Reading(t, a, l, n - 1, L)
    PROVE  Holding(t, b, l, n, L)
<1> DEFINE ps == SubSeq(l.props, 1, n - 1)
           x == l.props[n]
<1>1. ps \in Seq(Property) /\ x \in Property
  <2>1. l.props \in Seq(Property)
    BY DEF Log
  <2> QED BY <2>1, OneMore
<1>2. PICK st \in {"key", "verifyCallType"} : Reach(t, a, st, a, Bare(l, ps), L)
  BY DEF Reading
<1>3. Pair(t, a, b, x)
  OBVIOUS
<1> HIDE DEF ps, x
<1>4. \E v \in Nat : /\ Reach(t, b, "value", v, Bare(l, Append(ps, Prop(x.key, NoText))), L)
                     /\ Says(t, v, b, x.value)
  BY <1>1, <1>2, <1>3, PairStep
<1> QED BY <1>4 DEF Holding, ps, x

\* and the comma after it stores it.
LEMMA HoldingComma ==
    ASSUME NEW t, Narrow(t), NEW b \in Nat, NEW l \in Log, NEW n \in 1 .. Len(l.props),
           HasAt(t, b, Separator),
           NEW L, Holding(t, b, l, n, L)
    PROVE  Reading(t, b + 2, l, n, L)
<1> DEFINE ps == SubSeq(l.props, 1, n - 1)
           x == l.props[n]
<1>1. ps \in Seq(Property) /\ x \in Property /\ SubSeq(l.props, 1, n) = Append(ps, x)
  <2>1. l.props \in Seq(Property)
    BY DEF Log
  <2> QED BY <2>1, OneMore
<1>2. PICK v \in Nat : /\ Reach(t, b, "value", v, Bare(l, Append(ps, Prop(x.key, NoText))), L)
                       /\ Says(t, v, b, x.value)
  BY DEF Holding
<1> HIDE DEF ps, x
<1>3. x = Prop(x.key, x.value) /\ x.key \in Text /\ x.value \in Text /\ NoText \in Text
  BY <1>1, PropEqual DEF NoText, Text
<1>4. /\ b < Len(t) /\ b + 1 < Len(t) /\ t[b + 1] = Comma /\ t[(b + 1) + 1] = "sp"
      /\ b + 1 \in Nat /\ (b + 1) + 1 = b + 2
  <2>1. t \in Text /\ HasAt(t, b, <<Comma, "sp">>)
    BY DEF Narrow, Separator
  <2> QED BY <2>1, TwoBytes
<1>5. Reach(t, b + 1, "key", b + 1, Bare(l, Append(ps, Prop(x.key, x.value))), L)
  BY <1>1, <1>2, <1>3, <1>4, CommaStep
<1>6. Reach(t, b + 1, "key", b + 1, Bare(l, Append(ps, x)), L)
  BY <1>3, <1>5
<1>7. Reach(t, (b + 1) + 1, "key", (b + 1) + 1, Bare(l, Append(ps, x)), L)
  BY <1>4, <1>6, SpaceStep
<1>8. Reach(t, b + 2, "key", b + 2, Bare(l, SubSeq(l.props, 1, n)), L)
  BY <1>1, <1>4, <1>7
<1> QED BY <1>8 DEF Reading

\* The log is complete.
LEMMA BareWhole ==
    ASSUME NEW l \in Log, l.message = NoText
    PROVE  Bare(l, l.props) = l
  BY DEF Bare, Log

\* A newline ends the last value.
LEMMA HoldingNewline ==
    ASSUME NEW t, Narrow(t), NEW b \in Nat, NEW l \in Log, l.message = NoText, Len(l.props) > 0,
           ByteAt(t, b, {"nl"}),
           NEW L, Holding(t, b, l, Len(l.props), L)
    PROVE  Reach(t, b + 1, "date", b + 1, EmptyLog, Append(L, l))
<1> DEFINE n == Len(l.props)
           ps == SubSeq(l.props, 1, n - 1)
           x == l.props[n]
<1>1. ps \in Seq(Property) /\ x \in Property /\ l.props = Append(ps, x)
  <2>1. l.props \in Seq(Property) /\ n \in 1 .. n
    BY DEF Log
  <2>2. SubSeq(l.props, 1, n) = l.props
    BY <2>1, SubSeqFull
  <2> QED BY <2>1, <2>2, OneMore
<1>2. PICK v \in Nat : /\ Reach(t, b, "value", v, Bare(l, Append(ps, Prop(x.key, NoText))), L)
                       /\ Says(t, v, b, x.value)
  BY DEF Holding
<1> HIDE DEF ps, x, n
<1>3. x = Prop(x.key, x.value) /\ x.key \in Text /\ x.value \in Text /\ NoText \in Text
  BY <1>1, PropEqual DEF NoText, Text
<1> DEFINE q == At("value", v, b, Bare(l, Append(ps, Prop(x.key, NoText))))
<1>4. consumeCurrent(q, t) = At("value", v, b, Bare(l, Append(ps, x)))
  BY <1>1, <1>2, <1>3, AtConsume
<1>5. At("value", v, b, Bare(l, Append(ps, x))).current = l
  <2>1. Bare(l, Append(ps, x)) = l
    BY <1>1, BareWhole
  <2> QED BY <2>1 DEF At
<1>6. q.current.props[LastProp(q)].value = NoText /\ LastProp(q) # 0
  <2>1. Prop(x.key, NoText) \in Property /\ Prop(x.key, NoText).value = NoText
    BY <1>3, PropType
  <2>2. LastProp(q) = Len(ps) + 1 /\ q.current.props[Len(ps) + 1] = Prop(x.key, NoText)
    BY <1>1, <1>2, <2>1, AtLast
  <2>3. Len(ps) \in Nat
    BY <1>1
  <2> HIDE DEF q
  <2> QED BY <2>1, <2>2, <2>3
<1> HIDE DEF q
<1>7. consumeLog(q, t) = consumeCurrent(q, t)
  BY <1>6 DEF consumeLog
<1>8. consumeLog(q, t).current = l
  BY <1>4, <1>5, <1>7
<1>9. b < Len(t) /\ t[b + 1] = "nl"
  BY DEF ByteAt
<1> QED BY <1>2, <1>8, <1>9, ReachNewline DEF q
-----------------------------------------------------------------------------
(* Lines *)

\* The properties from the second on, and the newline.
LEMMA PairsStep ==
    ASSUME NEW t, Narrow(t), NEW a \in Nat, NEW b \in Nat, NEW l \in Log, l.message = NoText,
           Pairs(t, a, b, l.props), ByteAt(t, b, {"nl"}), NEW L, Reading(t, a, l, 1, L)
    PROVE  Reach(t, b + 1, "date", b + 1, EmptyLog, Append(L, l))
<1> DEFINE n == Len(l.props)
           Commas == {k \in a .. b + 2 : k = a \/ k = b + 2 \/ HasAt(t, k - 2, Separator)}
<1>1. n \in Nat /\ n > 1 /\ l.props \in Seq(Property)
  BY DEF Pairs, Log
<1>2. PICK o \in [2 .. n + 1 -> Commas] :
           /\ o[2] = a /\ o[n + 1] = b + 2
           /\ \A j \in 2 .. n : /\ Pair(t, o[j], o[j + 1] - 2, l.props[j])
                                /\ j < n => HasAt(t, o[j + 1] - 2, Separator)
  BY DEF Pairs
<1>3. \A j \in 2 .. n + 1 : o[j] \in Nat
  <2>1. Commas \subseteq Nat
    OBVIOUS
  <2> HIDE DEF Commas
  <2> QED BY <1>2, <2>1
<1> HIDE DEF Commas
<1>4. \A j \in 2 .. n : o[j + 1] - 2 \in Nat
  <2> TAKE j \in 2 .. n
  <2>1. o[j] \in Nat /\ o[j + 1] \in Nat
    BY <1>1, <1>3
  <2>2. \E c \in o[j] .. o[j + 1] - 2 : TRUE
    BY <1>2 DEF Pair
  <2> QED BY <2>1, <2>2
<1>5. ASSUME NEW j \in 2 .. n, Reading(t, o[j], l, j - 1, L)
      PROVE  Holding(t, o[j + 1] - 2, l, j, L)
  <2>1. /\ o[j] \in Nat /\ o[j + 1] - 2 \in Nat /\ Pair(t, o[j], o[j + 1] - 2, l.props[j])
        /\ j \in 1 .. Len(l.props)
    BY <1>1, <1>2, <1>3, <1>4
  <2> QED BY <1>5, <2>1, ReadingPair
<1> DEFINE U == {j \in 0 .. n - 2 : Reading(t, o[j + 2], l, j + 1, L)}
<1>6. 0 \in U
  BY <1>1, <1>2
<1>7. ASSUME NEW j \in 0 .. (n - 2) - 1, j \in U
      PROVE  j + 1 \in U
  <2> DEFINE m == j + 2
  <2>1. /\ m \in 2 .. n /\ m < n /\ m - 1 = j + 1 /\ m + 1 = (j + 1) + 2 /\ m = (j + 1) + 1
        /\ m \in 1 .. Len(l.props) /\ j + 1 \in 0 .. n - 2 /\ m + 1 \in 2 .. n + 1
    BY <1>1
  <2>2. Reading(t, o[m], l, m - 1, L)
    BY <1>7, <2>1
  <2> HIDE DEF m
  <2>3. Holding(t, o[m + 1] - 2, l, m, L)
    BY <1>5, <2>1, <2>2
  <2>4. HasAt(t, o[m + 1] - 2, Separator) /\ o[m + 1] - 2 \in Nat /\ o[m + 1] \in Nat
    BY <1>2, <1>3, <1>4, <2>1
  <2>5. Reading(t, (o[m + 1] - 2) + 2, l, m, L)
    BY <2>1, <2>3, <2>4, HoldingComma
  <2>6. (o[m + 1] - 2) + 2 = o[m + 1]
    BY <2>4
  <2>7. Reading(t, o[(j + 1) + 2], l, (j + 1) + 1, L)
    BY <2>1, <2>5, <2>6
  <2> QED BY <2>1, <2>7
<1>8. \A j \in 0 .. n - 2 : j \in U
  <2>1. n - 2 \in Nat
    BY <1>1
  <2> HIDE DEF U, n
  <2> QED BY <1>6, <1>7, <2>1, UpTo
<1>9. Reading(t, o[n], l, n - 1, L)
  <2>1. n - 2 \in 0 .. n - 2 /\ (n - 2) + 2 = n /\ (n - 2) + 1 = n - 1
    BY <1>1
  <2>2. Reading(t, o[(n - 2) + 2], l, (n - 2) + 1, L)
    BY <1>8, <2>1
  <2> QED BY <2>1, <2>2
<1>10. n \in 2 .. n /\ o[n + 1] - 2 = b
  BY <1>1, <1>2
<1>11. Holding(t, b, l, n, L)
  BY <1>5, <1>9, <1>10
<1> QED BY <1>1, <1>11, HoldingNewline

\* A newline ends the message.
LEMMA MessageNewline ==
    ASSUME NEW t, Narrow(t), NEW a, NEW b \in Nat, NEW l \in Log, ByteAt(t, b, {"nl"}),
           Says(t, a, b, l.message),
           Len(l.props) = 0 \/ l.props[Len(l.props)].value # NoText,
           NEW st, NEW L, Reach(t, b, st, a, Bare(l, l.props), L)
    PROVE  Reach(t, b + 1, "date", b + 1, EmptyLog, Append(L, l))
<1> DEFINE q == At(st, a, b, Bare(l, l.props))
<1>1. /\ LastProp(q) = Len(l.props) /\ q.current.props = l.props /\ Token(q, t) = l.message
      /\ q.current = Bare(l, l.props)
  BY DEF At, Bare, LastProp, Token, Says
<1>2. consumeLog(q, t) = [q EXCEPT !.current.message = l.message]
  <2> HIDE DEF q
  <2> QED BY <1>1 DEF consumeLog
<1>3. [q EXCEPT !.current.message = l.message].current = [Bare(l, l.props) EXCEPT !.message = l.message]
  BY DEF At
<1>4. [Bare(l, l.props) EXCEPT !.message = l.message] = l
  BY DEF Bare, Log
<1> HIDE DEF q
<1>5. consumeLog(q, t).current = l
  BY <1>2, <1>3, <1>4
<1>6. b < Len(t) /\ t[b + 1] = "nl"
  BY DEF ByteAt
<1> QED BY <1>5, <1>6, ReachNewline DEF q

\* A body that is a message.
LEMMA MessageStep ==
    ASSUME NEW t, Narrow(t), NEW a \in Nat, NEW b \in Nat, NEW l \in Log, Message(t, a, b, l),
           ByteAt(t, b, {"nl"}),
           NEW L, Reach(t, a, "transitionCallType", a, Bare(l, NoProps), L)
    PROVE  Reach(t, b + 1, "date", b + 1, EmptyLog, Append(L, l))
<1> DEFINE w == l.message
<1>1. /\ w \in Text /\ Made(w, BodyBytes \ {":"}) /\ (w # NoText => w[1] # "sp")
      /\ HasAt(t, a, w) /\ b = a + Len(w)
  BY DEF Message, Log
<1>2. l.props = NoProps /\ Len(l.props) = 0
  BY DEF Message, NoProps
<1> HIDE DEF w
<1>3. t \in Text /\ Says(t, a, b, w)
  BY <1>1, HasText DEF Narrow, Says
<1>4. \E st : Reach(t, b, st, a, Bare(l, NoProps), L)
  <2>1. CASE w = NoText
    <3>1. b = a
      BY <1>1, <2>1 DEF NoText
    <3> QED BY <3>1
  <2>2. CASE w # NoText
    <3>1. Len(w) \in Nat /\ Len(w) > 0 /\ 1 \in 1 .. Len(w)
      BY <1>1, <2>2, NotEmpty
    <3>2. \A j \in 1 .. Len(w) : Joins("callType", w[j])
      BY <1>1, ByteJoins DEF Made
    <3>3. w[1] \notin Blanks
      BY <1>1, <2>2, <3>1, ByteJoins DEF Made
    <3>4. t[a + 1] = w[1] /\ a < Len(t)
      BY <1>1, <1>3, <3>1 DEF HasAt, Text
    <3>5. Joins("callType", t[a + 1]) /\ t[a + 1] \notin Blanks
      BY <3>1, <3>2, <3>3, <3>4
    <3>6. <<"transitionCallType", "callType">> \in
            {<<"transitionLevel", "level">>, <<"transitionThread", "threadNoBracket">>,
             <<"transitionClass", "class">>, <<"transitionCallType", "callType">>}
      OBVIOUS
    <3>7. Reach(t, a + 1, "callType", a, Bare(l, NoProps), L)
      BY <3>4, <3>5, <3>6, FirstStep
    <3>8. a + 1 \in Nat /\ a <= a + 1 /\ a + 1 <= a + Len(w)
      BY <3>1
    <3>9. Reach(t, a + Len(w), "callType", a, Bare(l, NoProps), L)
      BY <1>1, <3>2, <3>7, <3>8, TextRun
    <3> QED BY <1>1, <3>9
  <2> QED BY <2>1, <2>2
<1>5. PICK st : Reach(t, b, st, a, Bare(l, NoProps), L)
  BY <1>4
<1>6. Reach(t, b, st, a, Bare(l, l.props), L)
  BY <1>2, <1>5
<1> QED BY <1>2, <1>3, <1>6, MessageNewline DEF w

\* The first property.
LEMMA FirstProperty ==
    ASSUME NEW l \in Log, l.props # <<>>
    PROVE  /\ SubSeq(l.props, 1, 1) = Append(NoProps, Prop(l.props[1].key, l.props[1].value))
           /\ l.props[1] \in Property /\ l.props[1].key \in Text /\ l.props[1].value \in Text
           /\ Len(l.props) = 1 => SubSeq(l.props, 1, 1) = l.props
<1>1. l.props \in Seq(Property) /\ 1 \in 1 .. Len(l.props) /\ 1 - 1 = 0
  BY DEF Log
<1>2. l.props[1] \in Property /\ SubSeq(l.props, 1, 1) = Append(SubSeq(l.props, 1, 0), l.props[1])
  BY <1>1, OneMore
<1>3. SubSeq(l.props, 1, 0) = NoProps
  BY SubSeqEmpty DEF NoProps
<1>4. Len(l.props) = 1 => SubSeq(l.props, 1, 1) = l.props
  BY <1>1, SubSeqFull
<1> DEFINE x == l.props[1]
<1> HIDE DEF x
<1>5. x \in Property
  BY <1>2 DEF x
<1>6. x = Prop(x.key, x.value) /\ x.key \in Text /\ x.value \in Text
  BY <1>5, PropEqual
<1>7. SubSeq(l.props, 1, 1) = Append(NoProps, x)
  BY <1>2, <1>3 DEF x
<1>8. SubSeq(l.props, 1, 1) = Append(NoProps, Prop(x.key, x.value))
  BY <1>6, <1>7
<1> QED BY <1>2, <1>4, <1>6, <1>8 DEF x

\* A body of a call type and a word.
LEMMA CallTypeMessageStep ==
    ASSUME NEW t, Narrow(t), NEW a \in Nat, NEW b \in Nat, NEW l \in Log,
           CallTypeMessage(t, a, b, l), ByteAt(t, b, {"nl"}),
           NEW L, Reach(t, a, "transitionCallType", a, Bare(l, NoProps), L)
    PROVE  Reach(t, b + 1, "date", b + 1, EmptyLog, Append(L, l))
<1> DEFINE w == l.props[1].value
           m == l.message
<1>1. /\ l.props # <<>> /\ Len(l.props) = 1 /\ l.props[1].key = KeyCallType /\ IsTitle(w)
      /\ IsName(m) /\ m \in Text
  BY DEF CallTypeMessage, Log
<1>2. PICK c \in a .. b : Named(t, a, c, w) /\ HasAt(t, c, m) /\ b = c + Len(m)
  BY DEF CallTypeMessage
<1>3. w \in Text /\ l.props = Append(NoProps, Prop(KeyCallType, w))
  BY <1>1, FirstProperty
<1>4. Len(l.props) = 0 \/ l.props[Len(l.props)].value # NoText
  BY <1>1 DEF IsTitle
<1> HIDE DEF w, m
<1>5. c \in Nat /\ c <= c /\ c <= c + Len(m) /\ t \in Text
  BY <1>1 DEF Narrow, Text
<1>6. Reach(t, c, "verifyCallType", c, Bare(l, l.props), L)
  BY <1>1, <1>2, <1>3, TitleStep
<1>7. \A j \in 1 .. Len(m) : Joins("verifyCallType", m[j])
  BY <1>1, ByteJoins DEF IsName, Made
<1>8. Reach(t, b, "verifyCallType", c, Bare(l, l.props), L)
  BY <1>1, <1>2, <1>5, <1>6, <1>7, TextRun
<1>9. Says(t, c, b, m)
  BY <1>1, <1>2, <1>5, HasText DEF Says
<1> QED BY <1>4, <1>8, <1>9, MessageNewline DEF m

\* A body of a call type and properties.
LEMMA CallTypePairsStep ==
    ASSUME NEW t, Narrow(t), NEW a \in Nat, NEW b \in Nat, NEW l \in Log, CallTypePairs(t, a, b, l),
           ByteAt(t, b, {"nl"}),
           NEW L, Reach(t, a, "transitionCallType", a, Bare(l, NoProps), L)
    PROVE  Reach(t, b + 1, "date", b + 1, EmptyLog, Append(L, l))
<1> DEFINE w == l.props[1].value
<1>1. l.props # <<>> /\ l.message = NoText /\ l.props[1].key = KeyCallType /\ IsTitle(w)
  BY DEF CallTypePairs
<1>2. PICK c \in a .. b : Named(t, a, c, w) /\ Pairs(t, c, b, l.props)
  BY DEF CallTypePairs
<1>3. w \in Text /\ SubSeq(l.props, 1, 1) = Append(NoProps, Prop(KeyCallType, w)) /\ c \in Nat
  <2>1. c \in Nat
    OBVIOUS
  <2>2. w \in Text /\ SubSeq(l.props, 1, 1) = Append(NoProps, Prop(KeyCallType, w))
    BY <1>1, FirstProperty
  <2> QED BY <2>1, <2>2
<1> HIDE DEF w
<1>4. Reach(t, c, "verifyCallType", c, Bare(l, Append(NoProps, Prop(KeyCallType, w))), L)
  BY <1>1, <1>2, <1>3, TitleStep
<1>5. Reading(t, c, l, 1, L)
  BY <1>3, <1>4 DEF Reading
<1> QED BY <1>1, <1>2, <1>3, <1>5, PairsStep

\* A body of properties, the first of which looks like a call type at first.
LEMMA PairsAloneStep ==
    ASSUME NEW t, Narrow(t), NEW a \in Nat, NEW b \in Nat, NEW l \in Log, PairsAlone(t, a, b, l),
           ByteAt(t, b, {"nl"}),
           NEW L, Reach(t, a, "transitionCallType", a, Bare(l, NoProps), L)
    PROVE  Reach(t, b + 1, "date", b + 1, EmptyLog, Append(L, l))
<1> DEFINE w == l.props[1].key
           u == l.props[1].value
<1>1. l.props # <<>> /\ l.message = NoText /\ IsTitle(w) /\ Made(u, NameBytes)
  BY DEF PairsAlone
<1>2. PICK c, d \in a .. b : /\ Named(t, a, c, w)
                             /\ HasAt(t, c, u) /\ d = c + Len(u) + 2
                             /\ HasAt(t, d - 2, Separator)
                             /\ Pairs(t, d, b, l.props)
  BY DEF PairsAlone
<1>3. /\ w \in Text /\ u \in Text /\ SubSeq(l.props, 1, 1) = Append(NoProps, Prop(w, u))
      /\ c \in Nat /\ d \in Nat
  <2>1. c \in Nat /\ d \in Nat
    OBVIOUS
  <2>2. w \in Text /\ u \in Text /\ SubSeq(l.props, 1, 1) = Append(NoProps, Prop(w, u))
    BY <1>1, FirstProperty
  <2> QED BY <2>1, <2>2
<1> HIDE DEF w, u
<1> DEFINE e == c + Len(u)
<1>4. /\ t \in Text /\ e \in Nat /\ d - 2 = e /\ c <= c /\ c <= c + Len(u) /\ d = (e + 1) + 1
      /\ e + 1 \in Nat
  BY <1>2, <1>3 DEF Narrow, Text
<1>5. Reach(t, c, "verifyCallType", c, Bare(l, Append(NoProps, Prop(KeyCallType, w))), L)
  BY <1>1, <1>2, <1>3, TitleStep
<1>6. \A j \in 1 .. Len(u) : Joins("verifyCallType", u[j])
  BY <1>1, ByteJoins DEF Made
<1>7. Reach(t, e, "verifyCallType", c, Bare(l, Append(NoProps, Prop(KeyCallType, w))), L)
  BY <1>2, <1>3, <1>4, <1>5, <1>6, TextRun
<1>8. Says(t, c, e, u)
  BY <1>2, <1>3, <1>4, HasText DEF Says
<1> HIDE DEF e
<1>9. e < Len(t) /\ e + 1 < Len(t) /\ t[e + 1] = Comma /\ t[(e + 1) + 1] = "sp"
  <2>1. HasAt(t, e, <<Comma, "sp">>)
    BY <1>2, <1>4 DEF Separator
  <2> QED BY <1>4, <2>1, TwoBytes
<1>10. KeyCallType \in Text
  <2>1. "char" \in Bytes
    BY DEF Bytes
  <2> QED BY <2>1 DEF KeyCallType, Text
<1>11. Reach(t, e + 1, "key", e + 1, Bare(l, Append(NoProps, Prop(w, u))), L)
  BY <1>3, <1>4, <1>7, <1>8, <1>9, <1>10, VerifyStep
<1> DEFINE y == Bare(l, Append(NoProps, Prop(w, u)))
<1> HIDE DEF y
<1>12. Reach(t, (e + 1) + 1, "key", (e + 1) + 1, y, L)
  BY <1>4, <1>9, <1>11, SpaceStep DEF y
<1>13. Reading(t, d, l, 1, L)
  BY <1>3, <1>4, <1>12 DEF Reading, y
<1> QED BY <1>1, <1>2, <1>3, <1>13, PairsStep

\* A line: header, body and newline.
LEMMA LineStep ==
    ASSUME NEW t, Narrow(t), NEW a \in Nat, NEW b \in Nat, NEW l \in Log, Line(t, a, b, l),
           NEW L, Reach(t, a, "date", a, EmptyLog, L)
    PROVE  Reach(t, b, "date", b, EmptyLog, Append(L, l))
<1>1. a < b /\ ByteAt(t, b - 1, {"nl"}) /\ b - 1 \in Nat /\ (b - 1) + 1 = b
  BY DEF Line
<1>2. PICK c \in a .. b - 1 : Header(t, a, c, l) /\ Body(t, c, b - 1, l)
  BY DEF Line
<1>3. c \in Nat
  OBVIOUS
<1>4. Reach(t, c, "transitionCallType", c, Bare(l, NoProps), L)
  BY <1>2, <1>3, HeaderStep
<1>5. Reach(t, (b - 1) + 1, "date", (b - 1) + 1, EmptyLog, Append(L, l))
  BY <1>1, <1>2, <1>3, <1>4, MessageStep, CallTypeMessageStep, CallTypePairsStep,
     PairsAloneStep DEF Body
<1> QED BY <1>1, <1>5

\* A text that is written in the format is plain, and parsing it gives its logs.
LEMMA WrittenParsed ==
    ASSUME NEW x, x.text \in Text, x.logs \in Seq(Log), Written(x)
    PROVE  Plain(x.text) /\ Scan(x.text)[Len(x.text)].logs = x.logs
<1> DEFINE t == x.text
           S == x.logs
           n == Len(S)
<1>1. t \in Text /\ S \in Seq(Log) /\ n \in Nat /\ Len(t) \in Nat
  BY DEF Text
<1>2. Made(t, Runes)
  BY DEF Written
<1>3. PICK o \in [1 .. n + 1 -> {k \in 0 .. Len(t) : k = 0 \/ t[k] = "nl"}] :
              /\ o[1] = 0 /\ o[n + 1] = Len(t)
              /\ \A j \in 1 .. n : Line(t, o[j], o[j + 1], S[j])
  BY DEF Written
<1>4. \A j \in 1 .. n + 1 : o[j] \in Nat
  BY <1>1, <1>3
<1> HIDE DEF t, S, n
<1>5. OneByte(t)
  <2> SUFFICES ASSUME NEW k \in 0 .. Len(t) - 1 PROVE Width(t, k) = 1
    BY DEF OneByte
  <2>1. k + 1 \in 1 .. Len(t)
    BY <1>1
  <2>2. t[k + 1] # "wide"
    BY <1>2, <2>1 DEF Made, Runes
  <2> QED BY <2>2 DEF Width
<1>6. Narrow(t)
  BY <1>1, <1>5 DEF Narrow
<1> DEFINE U == {j \in 0 .. n : Reach(t, o[j + 1], "date", o[j + 1], EmptyLog, SubSeq(S, 1, j))}
<1>7. 0 \in U
  <2>1. Scan(t)[0] = [p |-> NewParser, logs |-> <<>>]
    BY <1>1, ScanUnfolds
  <2>2. NewParser = At("date", 0, 0, EmptyLog)
    BY DEF NewParser, At
  <2>3. SubSeq(S, 1, 0) = <<>>
    BY SubSeqEmpty
  <2>4. PlainTo(t, 0)
    BY DEF PlainTo
  <2>5. EmptyLog \in Log /\ "date" \in States
    BY DEF EmptyLog, Log, NoText, Text, States
  <2>6. Reach(t, 0, "date", 0, EmptyLog, <<>>)
    BY <2>1, <2>2, <2>4, <2>5 DEF Reach
  <2>7. 0 + 1 = 1 /\ 0 \in 0 .. n
    BY <1>1
  <2>8. Reach(t, o[0 + 1], "date", o[0 + 1], EmptyLog, SubSeq(S, 1, 0))
    BY <1>3, <2>3, <2>6, <2>7
  <2> QED BY <2>7, <2>8
<1>8. ASSUME NEW j \in 0 .. n - 1, j \in U
      PROVE  j + 1 \in U
  <2>1. j + 1 \in 1 .. n /\ (j + 1) + 1 \in 1 .. n + 1 /\ j + 1 \in 0 .. n /\ j + 1 \in 1 .. n + 1
    BY <1>1
  <2>2. Line(t, o[j + 1], o[(j + 1) + 1], S[j + 1]) /\ o[j + 1] \in Nat /\ o[(j + 1) + 1] \in Nat
    BY <1>3, <1>4, <2>1
  <2>3. S[j + 1] \in Log
    BY <1>1, <2>1, ElementOfSeq DEF n
  <2>4. Reach(t, o[j + 1], "date", o[j + 1], EmptyLog, SubSeq(S, 1, j))
    BY <1>8
  <2>5. Reach(t, o[(j + 1) + 1], "date", o[(j + 1) + 1], EmptyLog, Append(SubSeq(S, 1, j), S[j + 1]))
    BY <1>6, <2>2, <2>3, <2>4, LineStep
  <2>6. SubSeq(S, 1, j + 1) = Append(SubSeq(S, 1, j), S[j + 1])
    <3>1. j + 1 \in 1 .. Len(S) /\ 1 \in 1 .. Len(S) /\ 1 <= j + 1 /\ (j + 1) - 1 = j
      BY <1>1, <2>1 DEF n
    <3>2. SubSeq(S, 1, j + 1) = SubSeq(S, 1, j) \o <<S[j + 1]>>
      BY <1>1, <3>1, SubSeqRecursiveSecond
    <3>3. SubSeq(S, 1, j) \in Seq(Log)
      BY <2>4 DEF Reach
    <3> DEFINE y == SubSeq(S, 1, j)
               e == S[j + 1]
    <3> HIDE DEF y, e
    <3>4. Append(y, e) = y \o <<e>>
      BY <2>3, <3>3, AppendIsConcat DEF y, e
    <3> QED BY <3>2, <3>4 DEF y, e
  <2> QED BY <2>1, <2>5, <2>6
<1>9. \A j \in 0 .. n : j \in U
  <2> HIDE DEF U
  <2> QED BY <1>1, <1>7, <1>8, UpTo
<1>10. Reach(t, Len(t), "date", Len(t), EmptyLog, S)
  <2>1. n \in 0 .. n /\ SubSeq(S, 1, n) = S
    BY <1>1, SubSeqFull DEF n
  <2> QED BY <1>3, <1>9, <2>1
<1>11. Scan(t)[Len(t)].logs = S /\ PlainTo(t, Len(t))
  BY <1>10 DEF Reach
<1>12. Plain(t)
  BY <1>5, <1>11 DEF Plain, PlainTo, OneByte
<1> QED BY <1>11, <1>12 DEF t, S

\* If every input is written in the format, then however the reader cuts it into
\* chunks, once all of it is read the parser has emitted its logs, field by field
\* and property by property (parse.go:206-264).
THEOREM FormatParsed ==
    ASSUME \A x \in Inputs : Written(x)
    PROVE  Spec => []ParsedAsWritten
<1>1. ASSUME TypeOK, PlainChunksDoNotMatter
      PROVE  ParsedAsWritten
  <2> SUFFICES ASSUME fed = Len(input.text), ~parsing PROVE logs = input.logs
    BY DEF ParsedAsWritten
  <2> DEFINE t == input.text
  <2>1. input \in Inputs /\ t \in Text /\ input.logs \in Seq(Log)
    BY <1>1, InputsAssumption DEF TypeOK
  <2>2. Plain(t) /\ Scan(t)[Len(t)].logs = input.logs
    BY <2>1, WrittenParsed
  <2>3. logs = WholeParse(SubSeq(t, 1, fed)).logs
    BY <1>1, <2>2 DEF PlainChunksDoNotMatter, ChunksDoNotMatter
  <2>4. fed \in 0 .. Len(t)
    BY <2>1 DEF Text
  <2>5. logs = Scan(t)[fed].logs
    BY <2>1, <2>2, <2>3, <2>4, WholePrefix
  <2> QED BY <2>2, <2>5
<1> QED BY <1>1, TypeCorrect, PlainChunks, PTL
-----------------------------------------------------------------------------
(* FlattenSeq *)

\* The value at k of the recursion of FlattenSeq.
FlatDef(g, ss, k) == IF k = 1 THEN ss[k] ELSE g[k - 1] \o ss[k]

\* The recursion that defines FlattenSeq has a solution,
LEMMA FlatExists ==
    ASSUME NEW ss, NEW n \in Nat
    PROVE  \E g : g = [k \in 1 .. n |-> FlatDef(g, ss, k)]
<1> DEFINE U == {m \in 0 .. n : \E g : g = [k \in 1 .. m |-> FlatDef(g, ss, k)]}
<1>1. 0 \in U
  <2> DEFINE g == [k \in 1 .. 0 |-> FlatDef(<<>>, ss, k)]
  <2>1. g = [k \in 1 .. 0 |-> FlatDef(g, ss, k)]
    OBVIOUS
  <2> HIDE DEF g
  <2>2. 0 \in 0 .. n /\ \E f : f = [k \in 1 .. 0 |-> FlatDef(f, ss, k)]
    BY <2>1
  <2> QED BY <2>2
<1>2. ASSUME NEW m \in 0 .. n - 1, m \in U
      PROVE  m + 1 \in U
  <2>1. PICK g : g = [k \in 1 .. m |-> FlatDef(g, ss, k)]
    BY <1>2
  <2> DEFINE h == [k \in 1 .. m + 1 |-> IF k <= m THEN g[k] ELSE FlatDef(g, ss, m + 1)]
  <2>2. ASSUME NEW k \in 1 .. m + 1
        PROVE  h[k] = FlatDef(h, ss, k)
    <3>1. CASE k = 1
      BY <2>1, <3>1 DEF FlatDef
    <3>2. CASE k \in 2 .. m
      <4>1. h[k] = g[k] /\ h[k - 1] = g[k - 1] /\ k \in 1 .. m
        BY <3>2
      <4>2. g[k] = FlatDef(g, ss, k)
        BY <2>1, <4>1
      <4> QED BY <3>2, <4>1, <4>2 DEF FlatDef
    <3>3. CASE k = m + 1 /\ k # 1
      <4>1. h[k] = FlatDef(g, ss, k) /\ h[k - 1] = g[k - 1]
        BY <3>3
      <4> QED BY <3>3, <4>1 DEF FlatDef
    <3> QED BY <3>1, <3>2, <3>3
  <2>3. h = [k \in 1 .. m + 1 |-> FlatDef(h, ss, k)]
    BY <2>2
  <2>4. m + 1 \in 0 .. n /\ \E f : f = [k \in 1 .. m + 1 |-> FlatDef(f, ss, k)]
    <3> HIDE DEF h
    <3> QED BY <2>3
  <2> QED BY <2>4
<1>3. \A k \in 0 .. n : k \in U
  <2> HIDE DEF U
  <2> QED BY <1>1, <1>2, UpTo
<1>4. n \in U
  BY <1>3
<1> QED BY <1>4

\* so that FlattenSeq can be unfolded.
Flat(ss) ==
    LET flatten[i_ \in 1 .. Len(ss)] == IF i_ =
  1 THEN ss[i_] ELSE flatten[i_ - 1] \o ss[i_]
    IN  flatten

\* Each text is appended to those before it.
LEMMA FlatUnfolds ==
    ASSUME NEW ss, Len(ss) \in Nat, Len(ss) # 0
    PROVE  /\ FlattenSeq(ss) = Flat(ss)[Len(ss)]
           /\ Flat(ss)[1] = ss[1]
           /\ \A k \in 2 .. Len(ss) : Flat(ss)[k] = Flat(ss)[k - 1] \o ss[k]
<1>0. FlattenSeq(ss) = Flat(ss)[Len(ss)]
  BY DEF FlattenSeq, Flat
<1>1. Flat(ss) = CHOOSE g : g = [k \in 1 .. Len(ss) |-> FlatDef(g, ss, k)]
  BY DEF Flat, FlatDef
<1>2. \E g : g = [k \in 1 .. Len(ss) |-> FlatDef(g, ss, k)]
  BY FlatExists
<1>3. Flat(ss) = [k \in 1 .. Len(ss) |-> FlatDef(Flat(ss), ss, k)]
  BY <1>1, <1>2, Zenon
<1> HIDE DEF Flat
<1>4. \A k \in 1 .. Len(ss) : Flat(ss)[k] = FlatDef(Flat(ss), ss, k)
  BY <1>3
<1>5. Flat(ss)[1] = ss[1]
  <2>1. 1 \in 1 .. Len(ss)
    OBVIOUS
  <2> QED BY <1>4, <2>1 DEF FlatDef
<1>6. \A k \in 2 .. Len(ss) : Flat(ss)[k] = Flat(ss)[k - 1] \o ss[k]
  <2> TAKE k \in 2 .. Len(ss)
  <2>1. k \in 1 .. Len(ss) /\ k # 1
    OBVIOUS
  <2> QED BY <1>4, <2>1 DEF FlatDef
<1> QED BY <1>0, <1>5, <1>6
-----------------------------------------------------------------------------
(* Texts in texts *)

\* Where the parts of a concatenation stand.
LEMMA ConcatHas ==
    ASSUME NEW u \in Text, NEW w \in Text
    PROVE  /\ u \o w \in Text /\ Len(u \o w) = Len(u) + Len(w) /\ Len(u) \in Nat /\ Len(w) \in Nat
           /\ HasAt(u \o w, 0, u) /\ HasAt(u \o w, Len(u), w)
<1> DEFINE s == u \o w
<1>1. s \in Seq(Bytes) /\ Len(s) = Len(u) + Len(w) /\ Len(u) \in Nat /\ Len(w) \in Nat
  BY DEF Text
<1>2. \A j \in 1 .. Len(u) : s[j] = u[j]
  BY <1>1 DEF Text
<1>3. \A j \in 1 .. Len(w) : s[Len(u) + j] = w[j]
  BY <1>1 DEF Text
<1> HIDE DEF s
<1>4. HasAt(s, 0, u)
  BY <1>1, <1>2 DEF HasAt
<1>5. HasAt(s, Len(u), w)
  BY <1>1, <1>3 DEF HasAt
<1> QED BY <1>1, <1>4, <1>5 DEF s, Text

\* What stands in a part stands in the whole.
LEMMA HasIn ==
    ASSUME NEW t, NEW k \in Nat, NEW u, Len(u) \in Nat, HasAt(t, k, u), NEW j \in Nat, NEW w,
           Len(w) \in Nat, HasAt(u, j, w), Len(t) \in Nat
    PROVE  HasAt(t, k + j, w)
<1>1. k + Len(u) <= Len(t) /\ \A x \in 1 .. Len(u) : t[k + x] = u[x]
  BY DEF HasAt
<1>2. j + Len(w) <= Len(u) /\ \A x \in 1 .. Len(w) : u[j + x] = w[x]
  BY DEF HasAt
<1>3. ASSUME NEW x \in 1 .. Len(w)
      PROVE  t[(k + j) + x] = w[x]
  <2>1. j + x \in 1 .. Len(u) /\ k + (j + x) = (k + j) + x
    BY <1>2
  <2> QED BY <1>1, <1>2, <2>1
<1>4. (k + j) + Len(w) <= Len(t)
  BY <1>1, <1>2
<1> QED BY <1>3, <1>4 DEF HasAt

\* A text is made of the bytes of its parts.
LEMMA MadeConcat ==
    ASSUME NEW u \in Text, NEW w \in Text, NEW B, Made(u, B), Made(w, B)
    PROVE  Made(u \o w, B)
<1> DEFINE s == u \o w
<1>1. s \in Text /\ Len(s) = Len(u) + Len(w) /\ Len(u) \in Nat /\ Len(w) \in Nat
  BY ConcatHas
<1>2. (\A j \in 1 .. Len(u) : s[j] = u[j]) /\ \A j \in 1 .. Len(w) : s[Len(u) + j] = w[j]
  <2>1. HasAt(s, 0, u) /\ HasAt(s, Len(u), w)
    BY ConcatHas
  <2> HIDE DEF s
  <2>2. \A j \in 1 .. Len(u) : s[0 + j] = u[j]
    BY <2>1 DEF HasAt
  <2> QED BY <2>1, <2>2 DEF HasAt
<1> HIDE DEF s
<1>3. ASSUME NEW j \in 1 .. Len(s)
      PROVE  s[j] \in B
  <2>1. CASE j <= Len(u)
    BY <1>1, <1>2, <2>1 DEF Made
  <2>2. CASE j > Len(u)
    <3>1. j - Len(u) \in 1 .. Len(w) /\ Len(u) + (j - Len(u)) = j
      BY <1>1, <2>2
    <3> QED BY <1>2, <3>1 DEF Made
  <2> QED BY <1>1, <2>1, <2>2
<1> QED BY <1>3 DEF Made, s

\* A text made of some bytes is made of more.
LEMMA MadeMore ==
    ASSUME NEW w, NEW A, NEW B, Made(w, A), A \subseteq B
    PROVE  Made(w, B)
  BY DEF Made
-----------------------------------------------------------------------------
(* What log_string writes *)

\* What the fields of a log in the format are made of,
SoundHeader(l) ==
    /\ Made(l.date, DateBytes) /\ Made(l.time, DateBytes)
    /\ l.level # NoText /\ Made(l.level, WordBytes)
    /\ l.thread # NoText /\ Made(l.thread, ThreadBytes)
    /\ l.class # NoText /\ Made(l.class, WordBytes)

\* and properties that can follow a header without a call type.
SoundProps(ps) ==
    /\ Len(ps) > 1
    /\ IsTitle(ps[1].key) /\ Made(ps[1].value, NameBytes)
    /\ \A j \in 2 .. Len(ps) : IsName(ps[j].key) /\ IsValue(ps[j].value)

\* The header of a log in the format is sound.
LEMMA HeaderSound ==
    ASSUME NEW t, NEW a, NEW b, NEW l, Header(t, a, b, l)
    PROVE  SoundHeader(l)
<1>1. PICK c \in a .. b : /\ Dated(t, a, c, l)
         /\ \E d \in c .. b : /\ Worded(t, c, d, l.level)
            /\ \E e \in d .. b : /\ Threaded(t, d, e, l.thread)
               /\ \E f \in e .. b : Worded(t, e, f, l.class) /\ Gap(t, f, b)
  BY DEF Header
<1>2. PICK d \in c .. b : /\ Worded(t, c, d, l.level)
            /\ \E e \in d .. b : /\ Threaded(t, d, e, l.thread)
               /\ \E f \in e .. b : Worded(t, e, f, l.class) /\ Gap(t, f, b)
  BY <1>1
<1>3. PICK e \in d .. b : /\ Threaded(t, d, e, l.thread)
               /\ \E f \in e .. b : Worded(t, e, f, l.class) /\ Gap(t, f, b)
  BY <1>2
<1>4. PICK f \in e .. b : Worded(t, e, f, l.class) /\ Gap(t, f, b)
  BY <1>3
<1>5. Made(l.date, DateBytes) /\ Made(l.time, DateBytes)
  BY <1>1 DEF Dated
<1>6. l.level # NoText /\ Made(l.level, WordBytes) /\ l.class # NoText /\ Made(l.class, WordBytes)
  BY <1>2, <1>4 DEF Worded
<1>7. l.thread # NoText /\ (Made(l.thread, WordBytes) \/ Made(l.thread, ThreadBytes))
  BY <1>3 DEF Threaded
<1>8. WordBytes \subseteq ThreadBytes
  BY Zenon DEF WordBytes, ThreadBytes
<1>9. Made(l.thread, ThreadBytes)
  BY <1>7, <1>8, MadeMore
<1> QED BY <1>5, <1>6, <1>7, <1>9 DEF SoundHeader

\* A title without spaces is a name.
LEMMA TitleName ==
    ASSUME NEW w \in Text, IsTitle(w), \A j \in DOMAIN w : w[j] # "sp"
    PROVE  Made(w, NameBytes)
<1>1. \A j \in 1 .. Len(w) : w[j] \in BodyBytes \ {":", ","} /\ w[j] # "sp"
  <2>1. DOMAIN w = 1 .. Len(w)
    BY DEF Text
  <2> QED BY <2>1 DEF IsTitle, Made
<1>2. \A j \in 1 .. Len(w) : w[j] \in NameBytes
  BY <1>1, Zenon DEF NameBytes
<1> QED BY <1>2 DEF Made

\* A name is a value.
LEMMA NameValue ==
    ASSUME NEW w \in Text, IsName(w)
    PROVE  IsValue(w)
<1>1. \A j \in 1 .. Len(w) : w[j] \in BodyBytes \ {","} /\ w[j] # ":" /\ w[j] # "sp"
  BY Zenon DEF IsName, Made, NameBytes
<1>2. Made(w, BodyBytes \ {","})
  BY <1>1 DEF Made
<1>3. w # NoText => w[1] # "sp"
  BY <1>1, NotEmpty DEF IsName
<1> QED BY <1>1, <1>2, <1>3, Zenon DEF IsValue

\* The literals "callType" and "msg".
LEMMA KeysSound == /\ KeyCallType \in Text /\ KeyMessage \in Text
                   /\ IsTitle(KeyCallType) /\ IsName(KeyMessage)
<1>1. "char" \in Bytes /\ "char" \in NameBytes /\ "char" \in BodyBytes \ {":", ","} /\ "char" # "sp"
  BY Zenon DEF Bytes, NameBytes, BodyBytes, Runes
<1> DEFINE w == <<"char", "char", "char">>
<1>2. w \in Text /\ w # <<>> /\ Len(w) = 3 /\ w[1] = "char" /\ \A j \in 1 .. 3 : w[j] = "char"
  BY <1>1 DEF Text
<1> HIDE DEF w
<1>3. Made(w, NameBytes) /\ Made(w, BodyBytes \ {":", ","})
  BY <1>1, <1>2 DEF Made
<1>4. w \in Text /\ IsTitle(w) /\ IsName(w)
  BY <1>1, <1>2, <1>3, Zenon DEF IsTitle, IsName, NoText
<1> QED BY <1>4 DEF w, KeyCallType, KeyMessage

\* A property list from Pairs.
LEMMA PairsSound ==
    ASSUME NEW t, NEW a, NEW b, NEW ps, Pairs(t, a, b, ps)
    PROVE  Len(ps) > 1 /\ \A j \in 2 .. Len(ps) : IsName(ps[j].key) /\ IsValue(ps[j].value)
<1> DEFINE n == Len(ps)
           Commas == {k \in a .. b + 2 : k = a \/ k = b + 2 \/ HasAt(t, k - 2, Separator)}
<1>1. PICK o \in [2 .. n + 1 -> Commas] : \A j \in 2 .. n : Pair(t, o[j], o[j + 1] - 2, ps[j])
  BY DEF Pairs
<1>2. n > 1
  BY DEF Pairs
<1> QED BY <1>1, <1>2 DEF Pair

\* The properties WriteTo writes for a log in the format are sound.
LEMMA BodySound ==
    ASSUME NEW t, NEW a, NEW b, NEW l \in Log, Body(t, a, b, l), Writable(l)
    PROVE  SoundProps(All(l)) /\ All(l) \in Seq(Property)
<1>1. l.props \in Seq(Property) /\ l.props # <<>> /\ l.message \in Text
  BY DEF Log, Writable
<1>2. l.props[1] \in Property /\ l.props[1].key \in Text /\ l.props[1].value \in Text
  BY <1>1, FirstProperty
<1>3. \A j \in DOMAIN l.props[1].value : l.props[1].value[j] # "sp"
  BY DEF Writable
<1> DEFINE k1 == l.props[1].key
           v1 == l.props[1].value
<1> HIDE DEF k1, v1
<1>4. CASE CallTypeMessage(t, a, b, l)
  <2>1. Len(l.props) = 1 /\ k1 = KeyCallType /\ IsTitle(v1) /\ IsName(l.message)
    BY <1>4 DEF CallTypeMessage, k1, v1
  <2>2. IsTitle(k1) /\ Made(v1, NameBytes)
    BY <1>2, <1>3, <2>1, KeysSound, TitleName DEF v1, k1
  <2>3. All(l) = Append(l.props, Prop(KeyMessage, l.message))
    BY <2>1 DEF All, IsName, Prop
  <2>4. /\ Prop(KeyMessage, l.message) \in Property /\ Prop(KeyMessage, l.message).key = KeyMessage
        /\ Prop(KeyMessage, l.message).value = l.message
    BY <1>1, KeysSound, PropType
  <2> DEFINE e == Prop(KeyMessage, l.message)
             A == All(l)
  <2> HIDE DEF e, A
  <2>5. A \in Seq(Property) /\ Len(A) = 2 /\ A[1] = l.props[1] /\ A[2] = e
    BY <1>1, <2>1, <2>3, <2>4 DEF e, A
  <2>6. IsName(e.key) /\ IsValue(e.value)
    BY <1>1, <2>1, <2>4, KeysSound, NameValue DEF e
  <2>7. \A j \in 2 .. Len(A) : IsName(A[j].key) /\ IsValue(A[j].value)
    <3>1. \A j \in 2 .. Len(A) : j = 2
      BY <2>5
    <3> QED BY <2>5, <2>6, <3>1
  <2> QED BY <2>2, <2>5, <2>7 DEF SoundProps, k1, v1, A
<1>5. CASE CallTypePairs(t, a, b, l)
  <2>1. l.message = NoText /\ k1 = KeyCallType /\ IsTitle(v1)
    BY <1>5 DEF CallTypePairs, k1, v1
  <2>2. IsTitle(k1) /\ Made(v1, NameBytes)
    BY <1>2, <1>3, <2>1, KeysSound, TitleName DEF v1, k1
  <2>3. \E c \in a .. b : Pairs(t, c, b, l.props)
    BY <1>5 DEF CallTypePairs
  <2>4. Len(l.props) > 1 /\ \A j \in 2 .. Len(l.props) : IsName(l.props[j].key) /\ IsValue(l.props[j].value)
    BY <2>3, PairsSound
  <2>5. All(l) = l.props
    BY <2>1 DEF All
  <2> QED BY <1>1, <2>2, <2>4, <2>5 DEF SoundProps, k1, v1
<1>6. CASE PairsAlone(t, a, b, l)
  <2>1. l.message = NoText /\ IsTitle(k1) /\ Made(v1, NameBytes)
    BY <1>6 DEF PairsAlone, k1, v1
  <2>3. \E d \in a .. b : Pairs(t, d, b, l.props)
    BY <1>6 DEF PairsAlone
  <2>4. Len(l.props) > 1 /\ \A j \in 2 .. Len(l.props) : IsName(l.props[j].key) /\ IsValue(l.props[j].value)
    BY <2>3, PairsSound
  <2>5. All(l) = l.props
    BY <2>1 DEF All
  <2> QED BY <1>1, <2>1, <2>4, <2>5 DEF SoundProps, k1, v1
<1>7. ~Message(t, a, b, l)
  BY <1>1 DEF Message
<1> QED BY <1>4, <1>5, <1>6, <1>7 DEF Body

\* A text H with the texts ss after it, one by one.
Chain(P, H, ss) ==
    /\ P \in [0 .. Len(ss) -> Text] /\ P[0] = H
    /\ \A n \in 1 .. Len(ss) : P[n] = P[n - 1] \o ss[n]

\* Texts are joined in any order.
LEMMA ConcatTexts ==
    ASSUME NEW u \in Text, NEW v \in Text, NEW w \in Text
    PROVE  u \o (v \o w) = (u \o v) \o w
  BY DEF Text

\* Texts one after the other are a text.
LEMMA FlatText ==
    ASSUME NEW ss \in Seq(Text), Len(ss) # 0
    PROVE  FlattenSeq(ss) \in Text /\ \A k \in 1 .. Len(ss) : Flat(ss)[k] \in Text
<1> DEFINE n == Len(ss)
<1>1. n \in Nat /\ n # 0 /\ \A k \in 1 .. n : ss[k] \in Text
  BY ElementOfSeq
<1>2. /\ FlattenSeq(ss) = Flat(ss)[n] /\ Flat(ss)[1] = ss[1]
      /\ \A k \in 2 .. n : Flat(ss)[k] = Flat(ss)[k - 1] \o ss[k]
  BY <1>1, FlatUnfolds
<1> DEFINE U == {k \in 0 .. n - 1 : Flat(ss)[k + 1] \in Text}
<1>3. \A k \in 0 .. n - 1 : k \in U
  <2>1. 0 \in U
    <3>1. 1 \in 1 .. n /\ 0 \in 0 .. n - 1 /\ 0 + 1 = 1
      BY <1>1
    <3> QED BY <1>1, <1>2, <3>1
  <2>2. ASSUME NEW k \in 0 .. (n - 1) - 1, k \in U
        PROVE  k + 1 \in U
    <3>1. /\ (k + 1) + 1 \in 2 .. n /\ ((k + 1) + 1) - 1 = k + 1 /\ (k + 1) + 1 \in 1 .. n
          /\ k + 1 \in 0 .. n - 1
      BY <1>1
    <3>2. Flat(ss)[(k + 1) + 1] = Flat(ss)[k + 1] \o ss[(k + 1) + 1]
      BY <1>2, <3>1
    <3>3. Flat(ss)[k + 1] \in Text /\ ss[(k + 1) + 1] \in Text
      BY <1>1, <2>2, <3>1
    <3>4. Flat(ss)[(k + 1) + 1] \in Text
      BY <3>2, <3>3, ConcatHas
    <3> QED BY <3>1, <3>4
  <2>3. n - 1 \in Nat
    BY <1>1
  <2> HIDE DEF U, n
  <2> QED BY <2>1, <2>2, <2>3, UpTo
<1>4. ASSUME NEW k \in 1 .. n PROVE Flat(ss)[k] \in Text
  <2>1. k - 1 \in 0 .. n - 1 /\ (k - 1) + 1 = k
    BY <1>1
  <2>2. Flat(ss)[(k - 1) + 1] \in Text
    BY <1>3, <2>1
  <2> QED BY <2>1, <2>2
<1>5. n \in 1 .. n
  BY <1>1
<1> QED BY <1>2, <1>4, <1>5

\* FlattenSeq is such a chain.
LEMMA ChainExists ==
    ASSUME NEW H \in Text, NEW ss \in Seq(Text), Len(ss) # 0
    PROVE  \E P : Chain(P, H, ss) /\ P[Len(ss)] = H \o FlattenSeq(ss)
<1> DEFINE n == Len(ss)
           P == [k \in 0 .. n |-> IF k = 0 THEN H ELSE H \o Flat(ss)[k]]
<1>1. n \in Nat /\ n # 0 /\ \A k \in 1 .. n : ss[k] \in Text
  BY ElementOfSeq
<1>2. /\ FlattenSeq(ss) = Flat(ss)[n] /\ Flat(ss)[1] = ss[1]
      /\ \A k \in 2 .. n : Flat(ss)[k] = Flat(ss)[k - 1] \o ss[k]
  BY <1>1, FlatUnfolds
<1>4. \A k \in 1 .. n : Flat(ss)[k] \in Text
  BY FlatText
<1>5. P \in [0 .. n -> Text]
  <2>1. \A k \in 0 .. n : (IF k = 0 THEN H ELSE H \o Flat(ss)[k]) \in Text
    <3> TAKE k \in 0 .. n
    <3>1. CASE k # 0
      <4>1. Flat(ss)[k] \in Text
        BY <1>1, <1>4, <3>1
      <4> QED BY <3>1, <4>1, ConcatHas
    <3> QED BY <3>1
  <2> QED BY <2>1
<1>6. P[0] = H /\ \A k \in 1 .. n : P[k] = H \o Flat(ss)[k]
  BY <1>1
<1> HIDE DEF P
<1>7. ASSUME NEW k \in 1 .. n PROVE P[k] = P[k - 1] \o ss[k]
  <2>1. CASE k = 1
    <3>1. k - 1 = 0
      BY <2>1
    <3> QED BY <1>1, <1>2, <1>6, <2>1, <3>1
  <2>2. CASE k # 1
    <3>1. k \in 2 .. n /\ k - 1 \in 1 .. n
      BY <1>1, <2>2
    <3>2. P[k] = H \o (Flat(ss)[k - 1] \o ss[k]) /\ P[k - 1] = H \o Flat(ss)[k - 1]
      BY <1>2, <1>6, <3>1
    <3>3. Flat(ss)[k - 1] \in Text /\ ss[k] \in Text
      BY <1>1, <1>4, <3>1
    <3> DEFINE x == Flat(ss)[k - 1]
               y == ss[k]
    <3> HIDE DEF x, y
    <3>5. H \o (x \o y) = (H \o x) \o y
      BY <3>3, ConcatTexts DEF x, y
    <3> QED BY <3>2, <3>5 DEF x, y
  <2> QED BY <2>1, <2>2
<1>8. n \in 1 .. n
  BY <1>1
<1>9. Chain(P, H, ss)
  BY <1>5, <1>6, <1>7 DEF Chain
<1>10. P[n] = H \o FlattenSeq(ss)
  BY <1>2, <1>6, <1>8
<1> QED BY <1>9, <1>10

\* Each link of the chain stands at the beginning of the later ones.
LEMMA ChainHas ==
    ASSUME NEW H \in Text, NEW ss \in Seq(Text), NEW P, Chain(P, H, ss),
           NEW m \in 0 .. Len(ss), NEW n \in m .. Len(ss)
    PROVE  /\ HasAt(P[n], 0, P[m]) /\ Len(P[m]) \in Nat /\ Len(P[n]) \in Nat
           /\ Len(P[m]) <= Len(P[n]) /\ P[m] \in Text /\ P[n] \in Text
<1> DEFINE N == Len(ss)
           U == {k \in 0 .. N - m : HasAt(P[m + k], 0, P[m])}
<1>1. N \in Nat /\ N - m \in Nat /\ \A k \in 0 .. N : P[k] \in Text /\ Len(P[k]) \in Nat
  BY DEF Chain, Text
<1>2. 0 \in U
  <2>1. P[m] \in Text /\ Len(P[m]) \in Nat /\ m + 0 = m /\ 0 \in 0 .. N - m
    BY <1>1
  <2>2. HasAt(P[m], 0, P[m])
    BY <2>1 DEF HasAt
  <2> QED BY <2>1, <2>2
<1>3. ASSUME NEW k \in 0 .. (N - m) - 1, k \in U
      PROVE  k + 1 \in U
  <2> DEFINE x == m + k
  <2>1. /\ x + 1 = m + (k + 1) /\ x + 1 \in 1 .. N /\ (x + 1) - 1 = x /\ x \in 0 .. N
        /\ x + 1 \in 0 .. N /\ k + 1 \in 0 .. N - m
    BY <1>1
  <2>2. HasAt(P[x], 0, P[m])
    BY <1>3
  <2> HIDE DEF x
  <2>3. P[x + 1] = P[x] \o ss[x + 1] /\ ss[x + 1] \in Text /\ P[x] \in Text
    <3>1. P[x + 1] = P[(x + 1) - 1] \o ss[x + 1]
      BY <2>1 DEF Chain
    <3>2. ss[x + 1] \in Text
      BY <2>1, ElementOfSeq
    <3> QED BY <1>1, <2>1, <3>1, <3>2
  <2>4. HasAt(P[x + 1], 0, P[x])
    BY <2>3, ConcatHas
  <2>5. HasAt(P[x + 1], 0 + 0, P[m])
    BY <1>1, <2>1, <2>2, <2>4, HasIn
  <2> QED BY <2>1, <2>5
<1>4. \A k \in 0 .. N - m : k \in U
  <2> HIDE DEF U, N
  <2> QED BY <1>1, <1>2, <1>3, UpTo
<1>5. n - m \in 0 .. N - m /\ m + (n - m) = n /\ n \in 0 .. N
  BY <1>1
<1>6. HasAt(P[n], 0, P[m])
  <2>1. HasAt(P[m + (n - m)], 0, P[m])
    BY <1>4, <1>5
  <2> QED BY <1>5, <2>1
<1>7. Len(P[m]) <= Len(P[n])
  <2>1. 0 + Len(P[m]) <= Len(P[n])
    BY <1>6 DEF HasAt
  <2> QED BY <1>1, <1>5, <2>1
<1> QED BY <1>1, <1>5, <1>6, <1>7

\* A piece of the chain stands after the link before it, up to the link it makes.
LEMMA ChainPiece ==
    ASSUME NEW H \in Text, NEW ss \in Seq(Text), NEW P, Chain(P, H, ss), NEW n \in 1 .. Len(ss),
           NEW T \in Text, HasAt(T, 0, P[Len(ss)])
    PROVE  /\ HasAt(T, Len(P[n - 1]), ss[n]) /\ ss[n] \in Text /\ Len(ss[n]) \in Nat
           /\ Len(P[n - 1]) \in Nat /\ Len(P[n]) = Len(P[n - 1]) + Len(ss[n])
<1> DEFINE N == Len(ss)
<1>1. N \in Nat /\ n - 1 \in 0 .. N /\ n \in 0 .. N /\ N \in n .. N /\ n \in n - 1 .. N
  OBVIOUS
<1>2. /\ P[n - 1] \in Text /\ P[n] \in Text /\ ss[n] \in Text /\ P[n] = P[n - 1] \o ss[n]
      /\ P[N] \in Text
  BY <1>1, ElementOfSeq DEF Chain
<1>3. /\ Len(P[n]) = Len(P[n - 1]) + Len(ss[n]) /\ HasAt(P[n], Len(P[n - 1]), ss[n])
      /\ Len(P[n - 1]) \in Nat /\ Len(ss[n]) \in Nat /\ Len(P[n]) \in Nat
  BY <1>2, ConcatHas
<1>4. HasAt(P[N], 0, P[n]) /\ Len(P[N]) \in Nat
  BY <1>1, ChainHas
<1> DEFINE u == P[n]
           w == ss[n]
           k == Len(P[n - 1])
           z == P[N]
<1>5. Len(T) \in Nat /\ 0 \in Nat /\ 0 + 0 = 0 /\ 0 + k = k
  BY <1>3 DEF Text
<1>6. /\ HasAt(T, 0, z) /\ HasAt(z, 0, u) /\ HasAt(u, k, w) /\ Len(z) \in Nat /\ Len(u) \in Nat
      /\ Len(w) \in Nat /\ k \in Nat
  BY <1>3, <1>4
<1>7. HasAt(T, k, w)
  <2> HIDE DEF u, w, k, z
  <2>1. HasAt(T, 0 + 0, u)
    BY <1>5, <1>6, HasIn
  <2>2. HasAt(T, 0 + k, w)
    BY <1>5, <1>6, <2>1, HasIn
  <2> QED BY <1>5, <2>2
<1> QED BY <1>2, <1>3, <1>7

\* A chain is made of the bytes of its pieces.
LEMMA ChainMade ==
    ASSUME NEW H \in Text, NEW ss \in Seq(Text), NEW P, Chain(P, H, ss), NEW B, Made(H, B),
           \A n \in 1 .. Len(ss) : Made(ss[n], B)
    PROVE  Made(P[Len(ss)], B)
<1> DEFINE N == Len(ss)
           U == {k \in 0 .. N : Made(P[k], B)}
<1>1. N \in Nat /\ \A k \in 0 .. N : P[k] \in Text
  BY DEF Chain
<1>2. 0 \in U
  BY <1>1 DEF Chain
<1>3. ASSUME NEW k \in 0 .. N - 1, k \in U
      PROVE  k + 1 \in U
  <2>1. k + 1 \in 1 .. N /\ (k + 1) - 1 = k /\ k \in 0 .. N /\ k + 1 \in 0 .. N
    BY <1>1
  <2>2. P[k + 1] = P[(k + 1) - 1] \o ss[k + 1] /\ ss[k + 1] \in Text
    BY <2>1, ElementOfSeq DEF Chain
  <2>3. Made(P[k], B) /\ Made(ss[k + 1], B) /\ P[k] \in Text
    BY <1>1, <1>3, <2>1
  <2>4. Made(P[k] \o ss[k + 1], B)
    BY <2>2, <2>3, MadeConcat
  <2> QED BY <2>1, <2>2, <2>4
<1>4. \A k \in 0 .. N : k \in U
  <2> HIDE DEF U, N
  <2> QED BY <1>1, <1>2, <1>3, UpTo
<1>5. N \in 0 .. N
  BY <1>1
<1> QED BY <1>4, <1>5

\* The link of the chain that byte j comes with.
LEMMA ChainPlace ==
    ASSUME NEW ss \in Seq(Text), NEW P, Chain(P, <<>>, ss), NEW j \in 1 .. Len(P[Len(ss)])
    PROVE  \E m \in 1 .. Len(ss) : j \in Len(P[m - 1]) + 1 .. Len(P[m])
<1> DEFINE N == Len(ss)
           Within(k) == \A x \in 1 .. Len(P[k]) : \E m \in 1 .. k : x \in Len(P[m - 1]) + 1 .. Len(P[m])
           U == {k \in 0 .. N : Within(k)}
<1>1. N \in Nat /\ \A k \in 0 .. N : P[k] \in Text /\ Len(P[k]) \in Nat
  BY DEF Chain, Text
<1>2. 0 \in U
  <2>1. P[0] = <<>> /\ Len(P[0]) = 0
    BY DEF Chain
  <2>2. Within(0)
    BY <2>1
  <2> QED BY <1>1, <2>2
<1>3. ASSUME NEW k \in 0 .. N - 1, k \in U
      PROVE  k + 1 \in U
  <2>1. k + 1 \in 1 .. N /\ (k + 1) - 1 = k /\ k \in 0 .. N /\ k + 1 \in 0 .. N
    BY <1>1
  <2>2. Within(k)
    BY <1>3
  <2>3. ASSUME NEW x \in 1 .. Len(P[k + 1])
        PROVE  \E m \in 1 .. k + 1 : x \in Len(P[m - 1]) + 1 .. Len(P[m])
    <3>1. CASE x <= Len(P[k])
      <4>1. x \in 1 .. Len(P[k])
        BY <1>1, <2>1, <3>1
      <4>2. PICK m \in 1 .. k : x \in Len(P[m - 1]) + 1 .. Len(P[m])
        BY <2>2, <4>1
      <4>3. m \in 1 .. k + 1
        BY <2>1
      <4> QED BY <4>2, <4>3
    <3>2. CASE x > Len(P[k])
      <4>1. x \in Len(P[(k + 1) - 1]) + 1 .. Len(P[k + 1]) /\ k + 1 \in 1 .. k + 1
        BY <1>1, <2>1, <3>2
      <4> QED BY <4>1
    <3>3. x \in Nat /\ Len(P[k]) \in Nat
      BY <1>1, <2>1
    <3> QED BY <3>1, <3>2, <3>3
  <2>4. Within(k + 1)
    BY <2>3
  <2> HIDE DEF Within
  <2> QED BY <2>1, <2>4
<1>4. \A k \in 0 .. N : k \in U
  <2> HIDE DEF U, N
  <2> QED BY <1>1, <1>2, <1>3, UpTo
<1>5. N \in 0 .. N
  BY <1>1
<1> QED BY <1>4, <1>5
-----------------------------------------------------------------------------
(* Escapes *)

\* One rune is written as itself, after a backslash perhaps, or as a letter after one.
LEMMA EscapedText ==
    ASSUME NEW r \in Bytes
    PROVE  /\ Escaped(r) \in Text /\ Len(Escaped(r)) \in Nat /\ Len(Escaped(r)) > 0
           /\ Escaped(r)[1] \in {r, "backslash"}
           /\ \A j \in 1 .. Len(Escaped(r)) : Escaped(r)[j] \in {r, "backslash", "char"}
           /\ Len(Escaped(r)) # 1 => \A j \in 1 .. Len(Escaped(r)) : Escaped(r)[j] # ":"
           /\ Len(Escaped(r)) = 1 => Escaped(r)[1] = r
<1>1. "backslash" \in Bytes /\ "char" \in Bytes
  BY Zenon DEF Bytes
<1>2. \/ Escaped(r) = <<"backslash", "char">>
      \/ Escaped(r) = <<"backslash", r>> /\ r # ":"
      \/ Escaped(r) = <<r>>
  BY DEF Escaped
<1>3. ASSUME NEW u \in Bytes, NEW v \in Bytes
      PROVE  /\ <<u, v>> \in Text /\ Len(<<u, v>>) = 2 /\ <<u, v>>[1] = u
             /\ \A j \in 1 .. 2 : <<u, v>>[j] \in {u, v}
  BY DEF Text
<1>4. CASE Escaped(r) = <<r>>
  <2>1. <<r>> \in Text /\ Len(<<r>>) = 1 /\ <<r>>[1] = r
    BY DEF Text
  <2> QED BY <1>4, <2>1
<1>5. ASSUME NEW v \in Bytes, v \in {"char", r}, v # ":", Escaped(r) = <<"backslash", v>>
      PROVE  /\ Escaped(r) \in Text /\ Len(Escaped(r)) = 2 /\ Escaped(r)[1] = "backslash"
             /\ \A j \in 1 .. 2 : Escaped(r)[j] \in {"backslash", v}
  BY <1>1, <1>3, <1>5
<1>6. CASE Escaped(r) = <<"backslash", "char">>
  <2>1. /\ Escaped(r) \in Text /\ Len(Escaped(r)) = 2 /\ Escaped(r)[1] = "backslash"
        /\ \A j \in 1 .. 2 : Escaped(r)[j] \in {"backslash", "char"}
    BY <1>1, <1>5, <1>6
  <2> QED BY <2>1
<1>7. CASE Escaped(r) = <<"backslash", r>> /\ r # ":"
  <2>1. /\ Escaped(r) \in Text /\ Len(Escaped(r)) = 2 /\ Escaped(r)[1] = "backslash"
        /\ \A j \in 1 .. 2 : Escaped(r)[j] \in {"backslash", r}
    BY <1>1, <1>5, <1>7
  <2> QED BY <1>7, <2>1
<1> QED BY <1>2, <1>4, <1>6, <1>7

\* What the runes of w are written as.
Runs(w) == [j \in DOMAIN w |-> Escaped(w[j])]

\* They are texts.
LEMMA RunsText ==
    ASSUME NEW w \in Text
    PROVE  /\ Runs(w) \in Seq(Text) /\ Len(Runs(w)) = Len(w) /\ Len(w) \in Nat
           /\ \A j \in 1 .. Len(w) : Runs(w)[j] = Escaped(w[j]) /\ w[j] \in Bytes
<1> DEFINE ss == Runs(w)
<1>1. Len(w) \in Nat /\ DOMAIN w = 1 .. Len(w) /\ \A j \in 1 .. Len(w) : w[j] \in Bytes
  BY DEF Text
<1>2. ss = [j \in 1 .. Len(w) |-> Escaped(w[j])]
  BY <1>1 DEF Runs
<1>3. \A j \in 1 .. Len(w) : ss[j] = Escaped(w[j])
  BY <1>2
<1>4. \A j \in 1 .. Len(w) : ss[j] \in Text
  BY <1>1, <1>3, EscapedText
<1>5. ss = [j \in 1 .. Len(w) |-> ss[j]]
  BY <1>2
<1> HIDE DEF ss
<1>6. ss \in Seq(Text) /\ Len(ss) = Len(w)
  BY <1>1, <1>4, <1>5
<1> QED BY <1>1, <1>3, <1>6 DEF ss

\* escape writes them one after the other.
LEMMA EscapeChain ==
    ASSUME NEW w \in Text, w # NoText
    PROVE  Len(w) > 0 /\ \E P : Chain(P, <<>>, Runs(w)) /\ P[Len(w)] = escape(w)
<1>1. Runs(w) \in Seq(Text) /\ Len(Runs(w)) = Len(w) /\ Len(w) \in Nat
  BY RunsText
<1>2. Len(w) > 0
  BY NotEmpty
<1>3. <<>> \in Text
  BY DEF Text
<1>4. PICK P : Chain(P, <<>>, Runs(w)) /\ P[Len(Runs(w))] = <<>> \o FlattenSeq(Runs(w))
  <2>1. Len(Runs(w)) # 0
    BY <1>1, <1>2
  <2> QED BY <1>1, <1>3, <2>1, ChainExists
<1>5. escape(w) = FlattenSeq(Runs(w))
  BY DEF escape, Runs
<1>6. <<>> \o FlattenSeq(Runs(w)) = FlattenSeq(Runs(w))
  <2>1. FlattenSeq(Runs(w)) \in Seq(Bytes)
    BY <1>1, <1>2, FlatText DEF Text
  <2> QED BY <2>1, ConcatEmptySeq
<1> QED BY <1>1, <1>2, <1>4, <1>5, <1>6

\* An escaped text is made of the bytes of the text, backslashes and letters.
LEMMA EscapeMade ==
    ASSUME NEW w \in Text, NEW B, Made(w, B), "backslash" \in B, "char" \in B
    PROVE  escape(w) \in Text /\ Made(escape(w), B)
<1>1. /\ Runs(w) \in Seq(Text) /\ Len(Runs(w)) = Len(w) /\ Len(w) \in Nat
      /\ \A j \in 1 .. Len(w) : Runs(w)[j] = Escaped(w[j]) /\ w[j] \in Bytes
  BY RunsText
<1>2. CASE w = NoText
  <2>1. Len(Runs(w)) = 0
    BY <1>1, <1>2 DEF NoText
  <2>2. Runs(w) = <<>>
    BY <1>1, <2>1
  <2>3. escape(w) = <<>>
    BY <2>1, <2>2 DEF escape, Runs, FlattenSeq
  <2> QED BY <2>3 DEF Text, Made
<1>3. CASE w # NoText
  <2>1. PICK P : Chain(P, <<>>, Runs(w)) /\ P[Len(w)] = escape(w)
    BY <1>3, EscapeChain
  <2>2. Len(w) \in 0 .. Len(Runs(w)) /\ <<>> \in Text /\ Made(<<>>, B)
    BY <1>1 DEF Text, Made
  <2>3. escape(w) \in Text
    BY <1>1, <2>1, <2>2 DEF Chain
  <2>4. \A n \in 1 .. Len(Runs(w)) : Made(Runs(w)[n], B)
    <3> TAKE n \in 1 .. Len(Runs(w))
    <3>1. n \in 1 .. Len(w) /\ w[n] \in Bytes /\ Runs(w)[n] = Escaped(w[n]) /\ w[n] \in B
      BY <1>1 DEF Made
    <3>2. \A j \in 1 .. Len(Escaped(w[n])) : Escaped(w[n])[j] \in {w[n], "backslash", "char"}
      BY <3>1, EscapedText
    <3> QED BY <3>1, <3>2 DEF Made
  <2>5. Made(P[Len(Runs(w))], B)
    BY <1>1, <2>1, <2>2, <2>4, ChainMade
  <2> QED BY <1>1, <2>1, <2>3, <2>5
<1> QED BY <1>2, <1>3

\* It begins as the text, or with a backslash.
LEMMA EscapeFirst ==
    ASSUME NEW w \in Text, w # NoText
    PROVE  /\ escape(w) \in Text /\ escape(w) # NoText /\ escape(w)[1] \in {w[1], "backslash"}
           /\ \A P : Chain(P, <<>>, Runs(w)) => \A m \in 1 .. Len(w) : Len(P[m]) > 0
<1>1. /\ Runs(w) \in Seq(Text) /\ Len(Runs(w)) = Len(w) /\ Len(w) \in Nat /\ Len(w) > 0
      /\ \A j \in 1 .. Len(w) : Runs(w)[j] = Escaped(w[j]) /\ w[j] \in Bytes
  BY RunsText, NotEmpty
<1> DEFINE ss == Runs(w)
           f == Escaped(w[1])
<1>2. f \in Text /\ Len(f) \in Nat /\ Len(f) > 0 /\ f[1] \in {w[1], "backslash"} /\ ss[1] = f
  <2>1. 1 \in 1 .. Len(w)
    BY <1>1
  <2> QED BY <1>1, <2>1, EscapedText
<1>3. <<>> \in Text
  BY DEF Text
<1> HIDE DEF ss, f
<1>4. ASSUME NEW P, Chain(P, <<>>, ss), NEW m \in 1 .. Len(w)
      PROVE  /\ P[m] \in Text /\ HasAt(P[m], 0, f) /\ Len(P[m]) \in Nat /\ Len(P[m]) > 0
  <2>1. P[1] = f
    <3>1. P[1] = P[1 - 1] \o ss[1] /\ P[1 - 1] = <<>>
      BY <1>1, <1>4 DEF Chain, ss
    <3>2. f \in Seq(Bytes)
      BY <1>2 DEF Text
    <3> QED BY <1>2, <3>1, <3>2, ConcatEmptySeq
  <2>2. ss \in Seq(Text) /\ 1 \in 0 .. Len(ss) /\ m \in 1 .. Len(ss)
    BY <1>1 DEF ss
  <2>3. HasAt(P[m], 0, P[1]) /\ Len(P[m]) \in Nat /\ Len(P[1]) <= Len(P[m]) /\ P[m] \in Text
    BY <1>3, <1>4, <2>2, ChainHas
  <2> QED BY <1>2, <2>1, <2>3
<1>5. PICK P : Chain(P, <<>>, ss) /\ P[Len(w)] = escape(w)
  BY EscapeChain DEF ss
<1>6. Len(w) \in 1 .. Len(w)
  BY <1>1
<1>7. escape(w) \in Text /\ HasAt(escape(w), 0, f) /\ Len(escape(w)) > 0
  BY <1>4, <1>5, <1>6
<1>8. escape(w)[1] = f[1]
  <2>1. 1 \in 1 .. Len(f) /\ 0 + 1 = 1
    BY <1>2
  <2>2. escape(w)[0 + 1] = f[1]
    BY <1>7, <2>1 DEF HasAt
  <2> QED BY <2>1, <2>2
<1>9. escape(w) # NoText
  BY <1>7 DEF NoText
<1> QED BY <1>2, <1>4, <1>7, <1>8, <1>9 DEF ss

\* The letters that escape writes can be part of a name and of a value.
LEMMA EscapeBytes ==
    \A B \in {NameBytes, BodyBytes \ {":", ","}, BodyBytes \ {","}} : "backslash" \in B /\ "char" \in B
  BY Zenon DEF NameBytes, BodyBytes, Runes, Bytes

\* A name stays a name, and a title a title.
LEMMA EscapeName ==
    ASSUME NEW w \in Text
    PROVE  /\ escape(w) \in Text \/ ~Made(w, BodyBytes \ {","})
           /\ Made(w, NameBytes) => escape(w) \in Text /\ Made(escape(w), NameBytes)
           /\ IsName(w) => IsName(escape(w))
           /\ IsTitle(w) => escape(w) \in Text /\ IsTitle(escape(w))
<1>1. ASSUME Made(w, NameBytes)
      PROVE  escape(w) \in Text /\ Made(escape(w), NameBytes)
  BY <1>1, EscapeBytes, EscapeMade
<1>2. ASSUME IsName(w) PROVE IsName(escape(w))
  <2>1. w # NoText /\ Made(w, NameBytes)
    BY <1>2 DEF IsName
  <2> QED BY <1>1, <2>1, EscapeFirst DEF IsName
<1>3. ASSUME IsTitle(w) PROVE escape(w) \in Text /\ IsTitle(escape(w))
  <2> DEFINE B == BodyBytes \ {":", ","}
  <2>1. w # NoText /\ w[1] # "sp" /\ Made(w, B)
    BY <1>3 DEF IsTitle
  <2>2. "backslash" \in B /\ "char" \in B
    BY EscapeBytes
  <2> HIDE DEF B
  <2>3. escape(w) \in Text /\ Made(escape(w), B)
    BY <2>1, <2>2, EscapeMade
  <2>4. escape(w) # NoText /\ escape(w)[1] # "sp"
    BY <2>1, EscapeFirst
  <2> QED BY <2>3, <2>4 DEF IsTitle, B
<1>4. ASSUME Made(w, BodyBytes \ {","}) PROVE escape(w) \in Text
  <2> DEFINE B == BodyBytes \ {","}
  <2>1. "backslash" \in B /\ "char" \in B
    BY EscapeBytes
  <2> HIDE DEF B
  <2>2. Made(w, B)
    BY <1>4 DEF B
  <2> QED BY <2>1, <2>2, EscapeMade
<1> QED BY <1>1, <1>2, <1>3, <1>4

\* And a value a value: each colon is written alone, between what stood around it.
LEMMA EscapeValue ==
    ASSUME NEW w \in Text, IsValue(w)
    PROVE  escape(w) \in Text /\ IsValue(escape(w))
<1> DEFINE B == BodyBytes \ {","}
           e == escape(w)
<1>1. /\ Made(w, B) /\ (w # NoText => w[1] # "sp")
      /\ \A j \in 1 .. Len(w) : w[j] = ":" => j > 1 /\ j < Len(w) /\ w[j + 1] \notin {":", "sp"}
  BY DEF IsValue
<1>2. "backslash" \in B /\ "char" \in B
  BY EscapeBytes
<1> HIDE DEF B
<1>3. e \in Text /\ Made(e, B)
  BY <1>1, <1>2, EscapeMade
<1>4. CASE w = NoText
  <2>1. /\ Runs(w) \in Seq(Text) /\ Len(Runs(w)) = 0
    BY <1>4, RunsText DEF NoText
  <2>2. e = <<>>
    BY <2>1 DEF escape, Runs, FlattenSeq
  <2> HIDE DEF e
  <2>3. \A j \in 1 .. Len(e) : FALSE
    BY <2>2
  <2> QED BY <1>3, <2>2, <2>3 DEF IsValue, B, NoText, e
<1>5. CASE w # NoText
  <2>1. e # NoText /\ e[1] # "sp"
    BY <1>1, <1>5, EscapeFirst
  <2>2. /\ Runs(w) \in Seq(Text) /\ Len(Runs(w)) = Len(w) /\ Len(w) \in Nat /\ Len(w) > 0
        /\ \A j \in 1 .. Len(w) : Runs(w)[j] = Escaped(w[j]) /\ w[j] \in Bytes
    BY <1>5, RunsText, NotEmpty
  <2> DEFINE ss == Runs(w)
  <2>3. PICK P : Chain(P, <<>>, ss) /\ P[Len(w)] = e
    BY <1>5, EscapeChain
  <2>4. \A m \in 1 .. Len(w) : Len(P[m]) > 0
    BY <1>5, <2>3, EscapeFirst
  <2> HIDE DEF ss, e
  <2>5. ASSUME NEW m \in 1 .. Len(w)
        PROVE  /\ HasAt(e, Len(P[m - 1]), Escaped(w[m])) /\ Len(P[m - 1]) \in Nat
               /\ Len(P[m]) = Len(P[m - 1]) + Len(Escaped(w[m]))
    <3>1. ss \in Seq(Text) /\ m \in 1 .. Len(ss) /\ ss[m] = Escaped(w[m]) /\ <<>> \in Text /\ Len(ss) = Len(w)
      BY <2>2 DEF ss, Text
    <3>2. HasAt(e, 0, P[Len(ss)])
      <4>1. 0 + Len(e) <= Len(e) /\ \A j \in 1 .. Len(e) : e[0 + j] = e[j]
        BY <1>3 DEF Text, e
      <4> QED BY <2>3, <3>1, <4>1 DEF HasAt
    <3>3. e \in Text
      BY <1>3 DEF e
    <3>4. /\ HasAt(e, Len(P[m - 1]), ss[m]) /\ Len(P[m - 1]) \in Nat
          /\ Len(P[m]) = Len(P[m - 1]) + Len(ss[m])
      <4>1. Chain(P, <<>>, ss)
        BY <2>3
      <4> QED BY <3>1, <3>2, <3>3, <4>1, ChainPiece
    <3> QED BY <3>1, <3>4
  <2>6. ASSUME NEW j \in 1 .. Len(e), e[j] = ":"
        PROVE  j > 1 /\ j < Len(e) /\ e[j + 1] \notin {":", "sp"}
    <3>1. PICK m \in 1 .. Len(w) : j \in Len(P[m - 1]) + 1 .. Len(P[m])
      <4>1. ss \in Seq(Text) /\ Len(ss) = Len(w) /\ j \in 1 .. Len(P[Len(ss)])
        BY <2>2, <2>3 DEF ss
      <4>2. \E m \in 1 .. Len(ss) : j \in Len(P[m - 1]) + 1 .. Len(P[m])
        BY <2>3, <4>1, ChainPlace
      <4> QED BY <4>1, <4>2
    <3> DEFINE a == Len(P[m - 1])
               z == Escaped(w[m])
    <3>2. /\ HasAt(e, a, z) /\ a \in Nat /\ Len(P[m]) = a + Len(z) /\ w[m] \in Bytes
      BY <2>2, <2>5
    <3>3. /\ Len(z) \in Nat /\ Len(z) > 0
          /\ Len(z) # 1 => \A x \in 1 .. Len(z) : z[x] # ":"
          /\ Len(z) = 1 => z[1] = w[m]
      BY <3>2, EscapedText
    <3> HIDE DEF z
    <3>4. j - a \in 1 .. Len(z) /\ a + (j - a) = j
      BY <3>1, <3>2, <3>3 DEF a
    <3> HIDE DEF a
    <3>5. e[a + (j - a)] = z[j - a]
      BY <3>2, <3>4 DEF HasAt
    <3>6. Len(z) = 1 /\ w[m] = ":" /\ j = a + 1
      <4>1. z[j - a] = ":"
        BY <2>6, <3>4, <3>5
      <4>2. Len(z) = 1
        BY <3>3, <3>4, <4>1
      <4>3. j - a = 1
        BY <3>2, <3>4, <4>2
      <4> QED BY <3>2, <3>3, <3>4, <4>1, <4>2, <4>3
    <3>7. m > 1 /\ m < Len(w) /\ w[m + 1] \notin {":", "sp"} /\ m + 1 \in 1 .. Len(w) /\ m - 1 \in 1 .. Len(w)
      BY <1>1, <2>2, <3>6
    <3>8. a > 0
      BY <2>4, <3>7 DEF a
    <3> DEFINE y == Escaped(w[m + 1])
    <3>9. HasAt(e, j, y) /\ w[m + 1] \in Bytes
      <4>1. HasAt(e, Len(P[(m + 1) - 1]), y)
        BY <2>5, <3>7
      <4>2. (m + 1) - 1 = m /\ Len(P[m]) = j
        BY <3>2, <3>6
      <4> QED BY <2>2, <3>7, <4>1, <4>2
    <3>10. Len(y) \in Nat /\ Len(y) > 0 /\ y[1] \in {w[m + 1], "backslash"}
      BY <3>9, EscapedText
    <3> HIDE DEF y
    <3>11. e[j + 1] = y[1] /\ j + Len(y) <= Len(e)
      <4>1. 1 \in 1 .. Len(y)
        BY <3>10
      <4> QED BY <3>9, <4>1 DEF HasAt
    <3>12. Len(e) \in Nat
      BY <1>3 DEF e, Text
    <3> QED BY <3>2, <3>6, <3>7, <3>8, <3>10, <3>11, <3>12
  <2> QED BY <1>3, <2>1, <2>6 DEF IsValue, B, e
<1> QED BY <1>3, <1>4, <1>5

\* The properties ps with their escapes.
Escapes(ps) == [j \in DOMAIN ps |-> [key |-> escape(ps[j].key), value |-> escape(ps[j].value)]]

\* They are still sound.
LEMMA EscapesSound ==
    ASSUME NEW ps \in Seq(Property), SoundProps(ps)
    PROVE  SoundProps(Escapes(ps)) /\ Escapes(ps) \in Seq(Property)
<1> DEFINE es == Escapes(ps)
           E(j) == [key |-> escape(ps[j].key), value |-> escape(ps[j].value)]
<1>1. /\ Len(ps) \in Nat /\ Len(ps) > 1 /\ DOMAIN ps = 1 .. Len(ps)
      /\ IsTitle(ps[1].key) /\ Made(ps[1].value, NameBytes)
      /\ \A j \in 2 .. Len(ps) : IsName(ps[j].key) /\ IsValue(ps[j].value)
  BY DEF SoundProps
<1>2. \A j \in 1 .. Len(ps) : ps[j].key \in Text /\ ps[j].value \in Text
  <2> TAKE j \in 1 .. Len(ps)
  <2>1. ps[j] \in Property
    BY ElementOfSeq
  <2> QED BY <2>1 DEF Property
<1>3. es = [j \in 1 .. Len(ps) |-> E(j)]
  BY <1>1 DEF Escapes
<1>4. \A j \in 1 .. Len(ps) : es[j] = E(j) /\ es[j].key = escape(ps[j].key) /\ es[j].value = escape(ps[j].value)
  BY <1>3
<1>5. /\ escape(ps[1].key) \in Text /\ IsTitle(escape(ps[1].key))
      /\ escape(ps[1].value) \in Text /\ Made(escape(ps[1].value), NameBytes)
  <2>1. 1 \in 1 .. Len(ps)
    BY <1>1
  <2> QED BY <1>1, <1>2, <2>1, EscapeName
<1>6. ASSUME NEW j \in 2 .. Len(ps)
      PROVE  /\ escape(ps[j].key) \in Text /\ IsName(escape(ps[j].key))
             /\ escape(ps[j].value) \in Text /\ IsValue(escape(ps[j].value))
  <2>1. j \in 1 .. Len(ps)
    BY <1>1
  <2>2. Made(ps[j].key, NameBytes)
    BY <1>1 DEF IsName
  <2> QED BY <1>1, <1>2, <2>1, <2>2, EscapeName, EscapeValue
<1>7. \A j \in 1 .. Len(ps) : es[j] \in Property
  <2> TAKE j \in 1 .. Len(ps)
  <2>1. escape(ps[j].key) \in Text /\ escape(ps[j].value) \in Text
    <3>1. j = 1 \/ j \in 2 .. Len(ps)
      BY <1>1
    <3> QED BY <1>5, <1>6, <3>1
  <2>2. Prop(escape(ps[j].key), escape(ps[j].value)) \in Property
    BY <2>1, PropType
  <2>3. es[j] = Prop(escape(ps[j].key), escape(ps[j].value))
    BY <1>4 DEF Prop
  <2> QED BY <2>2, <2>3
<1>8. es = [j \in 1 .. Len(ps) |-> es[j]]
  BY <1>3
<1> HIDE DEF es
<1>9. es \in Seq(Property) /\ Len(es) = Len(ps)
  BY <1>1, <1>7, <1>8
<1>10. SoundProps(es)
  <2>1. 1 \in 1 .. Len(ps) /\ \A j \in 2 .. Len(ps) : j \in 1 .. Len(ps)
    BY <1>1
  <2> QED BY <1>1, <1>4, <1>5, <1>6, <1>9, <2>1 DEF SoundProps
<1> QED BY <1>9, <1>10 DEF es
-----------------------------------------------------------------------------
(* The text of a log *)

\* What stands before property j,
Lead(j) == IF j = 1 THEN <<"tab">> ELSE Separator

\* a property that needs no escape,
PlainProp(sep, q) == ((sep \o q.key) \o <<":", "sp">>) \o q.value

\* and the texts of such properties ps.
Pieces(ps) == [j \in DOMAIN ps |-> PlainProp(Lead(j), ps[j])]

\* serialize writes them one after the other, with their escapes.
LEMMA Serialized ==
    ASSUME NEW l
    PROVE  serialize(l) = FlattenSeq(Pieces(Escapes(All(l))))
<1> DEFINE A == All(l)
           es == Escapes(A)
<1>1. DOMAIN es = DOMAIN A
  BY DEF Escapes
<1>2. ASSUME NEW j \in DOMAIN A
      PROVE  PlainProp(Lead(j), es[j]) = appendProp(Lead(j), A[j])
  <2>1. es[j].key = escape(A[j].key) /\ es[j].value = escape(A[j].value)
    BY DEF Escapes
  <2> QED BY <2>1 DEF PlainProp, appendProp
<1> DEFINE f == [j \in DOMAIN A |-> appendProp(Lead(j), A[j])]
<1>3. Pieces(es) = f
  <2> HIDE DEF es, A
  <2> QED BY <1>1, <1>2 DEF Pieces
<1>4. serialize(l) = FlattenSeq(f)
  BY Zenon DEF serialize, Lead, Separator, Comma
<1> QED BY <1>3, <1>4

\* s is u and then w.
Joined(s, u, w) == s = u \o w

\* The parts of a text that stands at k.
LEMMA HasParts ==
    ASSUME NEW T \in Text, NEW k \in Nat, NEW u \in Text, NEW w \in Text, NEW s, Joined(s, u, w),
           HasAt(T, k, s)
    PROVE  /\ s \in Text /\ Len(u) \in Nat /\ Len(w) \in Nat /\ Len(s) = Len(u) + Len(w)
           /\ HasAt(T, k, u) /\ HasAt(T, k + Len(u), w)
<1>1. /\ s \in Text /\ Len(s) = Len(u) + Len(w) /\ Len(u) \in Nat /\ Len(w) \in Nat
      /\ HasAt(s, 0, u) /\ HasAt(s, Len(u), w)
  BY ConcatHas DEF Joined
<1>2. Len(T) \in Nat /\ Len(s) \in Nat /\ k + 0 = k /\ 0 \in Nat
  BY <1>1 DEF Text
<1>4. HasAt(T, k + 0, u)
  BY <1>1, <1>2, HasIn
<1>5. HasAt(T, k + Len(u), w)
  BY <1>1, <1>2, HasIn
<1> QED BY <1>1, <1>2, <1>4, <1>5

\* Both texts that may stand before a property.
LEMMA LeadText ==
    ASSUME NEW j
    PROVE  Lead(j) \in Text /\ Made(Lead(j), Runes) /\ Len(Lead(j)) = (IF j = 1 THEN 1 ELSE 2)
<1>1. Comma \in Bytes /\ Comma \in Runes
  BY Zenon DEF Comma, Runes, Bytes
<1>2. "sp" \in Bytes /\ "sp" \in Runes /\ "tab" \in Bytes /\ "tab" \in Runes
  BY Zenon DEF Runes, Bytes
<1>3. Separator \in Text /\ Len(Separator) = 2 /\ Separator[1] = Comma /\ Separator[2] = "sp"
  BY <1>1, <1>2 DEF Separator, Text
<1> DEFINE w == <<"tab">>
<1>4. w \in Text /\ Len(w) = 1 /\ w[1] = "tab"
  BY <1>2 DEF Text
<1> HIDE DEF w
<1>5. Made(Separator, Runes)
  <2>1. \A x \in 1 .. 2 : x = 1 \/ x = 2
    OBVIOUS
  <2> QED BY <1>1, <1>2, <1>3, <2>1 DEF Made
<1>6. Made(w, Runes)
  BY <1>2, <1>4 DEF Made
<1> QED BY <1>3, <1>4, <1>5, <1>6 DEF w, Lead

\* What stands between a key and its value.
LEMMA ColonText == <<":", "sp">> \in Text /\ Made(<<":", "sp">>, Runes) /\ Len(<<":", "sp">>) = 2
<1>1. ":" \in Bytes /\ ":" \in Runes /\ "sp" \in Bytes /\ "sp" \in Runes
  BY Zenon DEF Runes, Bytes
<1> DEFINE w == <<":", "sp">>
<1>2. w \in Text /\ Len(w) = 2 /\ w[1] = ":" /\ w[2] = "sp"
  BY <1>1 DEF Text
<1> HIDE DEF w
<1>3. Made(w, Runes)
  <2>1. \A x \in 1 .. 2 : x = 1 \/ x = 2
    OBVIOUS
  <2> QED BY <1>1, <1>2, <2>1 DEF Made
<1> QED BY <1>2, <1>3 DEF w

\* The text of a property.
LEMMA PieceText ==
    ASSUME NEW j, NEW q, q.key \in Text, q.value \in Text, Made(q.key, BodyBytes),
           Made(q.value, BodyBytes)
    PROVE  /\ PlainProp(Lead(j), q) = ((Lead(j) \o q.key) \o <<":", "sp">>) \o q.value
           /\ PlainProp(Lead(j), q) \in Text /\ Made(PlainProp(Lead(j), q), Runes)
<1> DEFINE k == q.key
           v == q.value
           c == <<":", "sp">>
           e == Lead(j)
<1>1. BodyBytes \subseteq Runes
  BY Zenon DEF BodyBytes
<1>3. PlainProp(e, q) = ((e \o k) \o c) \o v
  BY DEF PlainProp
<1>4. k \in Text /\ v \in Text /\ c \in Text /\ e \in Text /\ Made(e, Runes) /\ Made(c, Runes)
  BY LeadText, ColonText
<1>5. Made(k, Runes) /\ Made(v, Runes)
  BY <1>1, MadeMore
<1> HIDE DEF k, v, c, e
<1>6. e \o k \in Text /\ Made(e \o k, Runes)
  BY <1>4, <1>5, ConcatHas, MadeConcat
<1>7. (e \o k) \o c \in Text /\ Made((e \o k) \o c, Runes)
  BY <1>4, <1>6, ConcatHas, MadeConcat
<1>8. ((e \o k) \o c) \o v \in Text /\ Made(((e \o k) \o c) \o v, Runes)
  BY <1>4, <1>5, <1>7, ConcatHas, MadeConcat
<1> QED BY <1>3, <1>8 DEF e, k, c, v

\* Where its parts stand.
LEMMA PieceHas ==
    ASSUME NEW T \in Text, NEW k \in Nat, NEW j, NEW q, q.key \in Text, q.value \in Text,
           Made(q.key, BodyBytes), Made(q.value, BodyBytes), HasAt(T, k, PlainProp(Lead(j), q)),
           NEW e, e = Len(Lead(j))
    PROVE  /\ e \in Nat /\ Len(q.key) \in Nat /\ Len(q.value) \in Nat
           /\ Len(PlainProp(Lead(j), q)) = e + Len(q.key) + 2 + Len(q.value)
           /\ HasAt(T, k, Lead(j)) /\ HasAt(T, k + e, q.key)
           /\ HasAt(T, k + e + Len(q.key), <<":", "sp">>)
           /\ HasAt(T, k + e + Len(q.key) + 2, q.value)
<1> DEFINE w == q.key
           v == q.value
           c == <<":", "sp">>
           h == Lead(j)
           s == PlainProp(h, q)
           f == h \o w
           g == f \o c
<1>1. s = g \o v /\ g = f \o c /\ f = h \o w /\ HasAt(T, k, s)
  BY PieceText
<1>2. w \in Text /\ v \in Text /\ c \in Text /\ h \in Text /\ Len(c) = 2 /\ e = Len(h)
  BY LeadText, ColonText
<1> HIDE DEF w, v, c, h, s, f, g
<1>3. f \in Text /\ g \in Text /\ HasAt(T, k, s)
  BY <1>1, <1>2, ConcatHas
<1> DEFINE J == Joined(s, g, v) /\ Joined(g, f, c) /\ Joined(f, h, w)
<1>8. J
  BY <1>1 DEF Joined
<1>9. c \in Text
  BY <1>2
<1>4. /\ Len(s) = Len(g) + Len(v) /\ Len(v) \in Nat
      /\ HasAt(T, k, g) /\ HasAt(T, k + Len(g), v)
  BY <1>2, <1>3, <1>8, HasParts
<1>5. /\ Len(f) \in Nat /\ Len(c) \in Nat /\ Len(g) = Len(f) + Len(c)
      /\ HasAt(T, k, f) /\ HasAt(T, k + Len(f), c)
  BY <1>3, <1>4, <1>8, <1>9, HasParts
<1>6. /\ Len(f) = Len(h) + Len(w) /\ Len(w) \in Nat /\ Len(h) \in Nat
      /\ HasAt(T, k, h) /\ HasAt(T, k + Len(h), w)
  BY <1>2, <1>3, <1>5, <1>8, HasParts
<1>7. /\ k + Len(f) = k + e + Len(w) /\ k + Len(g) = k + e + Len(w) + 2
      /\ Len(s) = e + Len(w) + 2 + Len(v)
  BY <1>2, <1>4, <1>5, <1>6
<1> QED BY <1>2, <1>4, <1>5, <1>6, <1>7 DEF w, v, c, h, s

\* Properties without newlines and tabs.
Bodied(ps) == \A n \in 1 .. Len(ps) : /\ ps[n].key \in Text /\ ps[n].value \in Text
                                      /\ Made(ps[n].key, BodyBytes) /\ Made(ps[n].value, BodyBytes)

\* Sound properties have none.
LEMMA SoundBodied ==
    ASSUME NEW ps \in Seq(Property), SoundProps(ps)
    PROVE  Bodied(ps) /\ Len(ps) \in Nat /\ Len(ps) > 1
<1>1. Len(ps) \in Nat /\ Len(ps) > 1
  BY DEF SoundProps
<1>2. NameBytes \subseteq BodyBytes
  BY Zenon DEF NameBytes
<1> DEFINE A == BodyBytes \ {":", ","}
           B == BodyBytes \ {","}
<1>3. A \subseteq BodyBytes /\ B \subseteq BodyBytes
  BY Zenon
<1>4. Made(ps[1].key, A) /\ Made(ps[1].value, NameBytes)
  BY Zenon DEF SoundProps, IsTitle
<1>5. \A n \in 2 .. Len(ps) : Made(ps[n].key, NameBytes) /\ Made(ps[n].value, B)
  BY Zenon DEF SoundProps, IsName, IsValue
<1> HIDE DEF A, B
<1> SUFFICES ASSUME NEW n \in 1 .. Len(ps)
             PROVE  /\ ps[n].key \in Text /\ ps[n].value \in Text
                    /\ Made(ps[n].key, BodyBytes) /\ Made(ps[n].value, BodyBytes)
  BY <1>1 DEF Bodied
<1>6. ps[n].key \in Text /\ ps[n].value \in Text
  <2>1. ps[n] \in Property
    BY ElementOfSeq
  <2> QED BY <2>1 DEF Property
<1>7. CASE n = 1
  BY <1>2, <1>3, <1>4, <1>6, <1>7, MadeMore
<1>8. CASE n # 1
  <2>1. n \in 2 .. Len(ps)
    BY <1>1, <1>8
  <2> QED BY <1>2, <1>3, <1>5, <1>6, <2>1, MadeMore
<1> QED BY <1>7, <1>8

\* The texts of the properties.
LEMMA PiecesText ==
    ASSUME NEW ps \in Seq(Property), Bodied(ps)
    PROVE  /\ Pieces(ps) \in Seq(Text) /\ Len(Pieces(ps)) = Len(ps) /\ Len(ps) \in Nat
           /\ \A n \in 1 .. Len(ps) : /\ Pieces(ps)[n] = PlainProp(Lead(n), ps[n])
                                      /\ Made(Pieces(ps)[n], Runes)
<1> DEFINE ss == Pieces(ps)
<1>1. Len(ps) \in Nat /\ DOMAIN ps = 1 .. Len(ps)
  OBVIOUS
<1>2. ss = [n \in 1 .. Len(ps) |-> PlainProp(Lead(n), ps[n])]
  BY <1>1 DEF Pieces
<1>3. \A n \in 1 .. Len(ps) : ss[n] = PlainProp(Lead(n), ps[n])
  BY <1>2
<1>4. \A n \in 1 .. Len(ps) : ss[n] \in Text /\ Made(ss[n], Runes)
  BY <1>3, PieceText DEF Bodied
<1>5. ss = [n \in 1 .. Len(ps) |-> ss[n]]
  BY <1>2
<1> HIDE DEF ss
<1>6. ss \in Seq(Text) /\ Len(ss) = Len(ps)
  BY <1>1, <1>4, <1>5
<1> QED BY <1>1, <1>3, <1>4, <1>6 DEF ss

\* Property q stands from k to z.
Placed(T, k, z, q) ==
    /\ k \in Nat /\ Len(q.key) \in Nat /\ Len(q.value) \in Nat
    /\ Named(T, k, k + Len(q.key) + 2, q.key)
    /\ HasAt(T, k + Len(q.key) + 2, q.value)
    /\ z = k + Len(q.key) + 2 + Len(q.value)

\* Where property n of ps stands in the text T.
LEMMA PieceAt ==
    ASSUME NEW H \in Text, NEW ps \in Seq(Property), Bodied(ps), NEW P, Chain(P, H, Pieces(ps)),
           NEW T \in Text, HasAt(T, 0, P[Len(ps)]), NEW n \in 1 .. Len(ps)
    PROVE  /\ Len(P[n - 1]) \in Nat /\ HasAt(T, Len(P[n - 1]), Lead(n))
           /\ Placed(T, Len(P[n - 1]) + Len(Lead(n)), Len(P[n]), ps[n])
<1> DEFINE ss == Pieces(ps)
           a == Len(P[n - 1])
           e == Len(Lead(n))
           q == ps[n]
           x == Len(q.key)
           y == Len(q.value)
           b == Len(P[n])
           k == a + e
<1>1. ss \in Seq(Text) /\ Len(ss) = Len(ps) /\ ss[n] = PlainProp(Lead(n), q)
  BY PiecesText
<1>2. q.key \in Text /\ q.value \in Text /\ Made(q.key, BodyBytes) /\ Made(q.value, BodyBytes)
  BY DEF Bodied
<1>3. HasAt(T, a, ss[n]) /\ a \in Nat /\ b = a + Len(ss[n])
  <2>1. n \in 1 .. Len(ss) /\ HasAt(T, 0, P[Len(ss)]) /\ Chain(P, H, ss)
    BY <1>1
  <2> HIDE DEF ss
  <2> QED BY <1>1, <2>1, ChainPiece
<1>4. k = a + e
  OBVIOUS
<1> HIDE DEF a, q, b, ss
<1>5. /\ e \in Nat /\ x \in Nat /\ y \in Nat
      /\ Len(PlainProp(Lead(n), q)) = e + x + 2 + y
      /\ HasAt(T, a, Lead(n)) /\ HasAt(T, a + e, q.key)
      /\ HasAt(T, a + e + x, <<":", "sp">>)
      /\ HasAt(T, a + e + x + 2, q.value)
  BY <1>1, <1>2, <1>3, PieceHas
<1>6. Len(ss[n]) = e + x + 2 + y
  BY <1>1, <1>5
<1>10. e \in Nat /\ x \in Nat /\ y \in Nat /\ a \in Nat /\ b = a + (e + x + 2 + y)
  BY <1>3, <1>5, <1>6
<1> HIDE DEF e, x, y, k
<1>7. /\ a + e = k /\ a + e + x = (k + x + 2) - 2 /\ a + e + x + 2 = k + x + 2 /\ k \in Nat
      /\ b = k + x + 2 + y
  BY <1>4, <1>10
<1>8. HasAt(T, k, q.key) /\ HasAt(T, (k + x + 2) - 2, <<":", "sp">>) /\ HasAt(T, k + x + 2, q.value)
  BY <1>5, <1>7
<1>9. Named(T, k, k + x + 2, q.key)
  BY <1>8 DEF Named, x
<1>11. Placed(T, k, b, q)
  BY <1>7, <1>8, <1>9, <1>10 DEF Placed, x, y
<1> QED BY <1>3, <1>5, <1>11 DEF a, e, q, b, k

\* It is then a property of the format.
LEMMA PlacedPair ==
    ASSUME NEW T, NEW k, NEW z, NEW q, Placed(T, k, z, q), IsName(q.key), IsValue(q.value)
    PROVE  Pair(T, k, z, q)
<1> DEFINE x == Len(q.key)
           y == Len(q.value)
           v == k + x + 2
<1>1. k \in Nat /\ x \in Nat /\ y \in Nat /\ z = k + x + 2 + y
  BY DEF Placed
<1>2. Named(T, k, v, q.key) /\ HasAt(T, v, q.value)
  BY DEF Placed
<1> HIDE DEF x, y
<1>3. k \in k .. z /\ v \in k .. z /\ z = v + y
  BY <1>1
<1> HIDE DEF v
<1>4. z = v + Len(q.value)
  BY <1>3 DEF y
<1> QED BY <1>2, <1>3, <1>4, Zenon DEF Pair

\* The properties ps that WriteTo writes after the text H stand there in the format.
LEMMA PairsWritten ==
    ASSUME NEW H \in Text, NEW ps \in Seq(Property), SoundProps(ps), NEW P, Chain(P, H, Pieces(ps)),
           NEW T \in Text, HasAt(T, 0, P[Len(ps)]), NEW b, b = Len(P[Len(ps)])
    PROVE  b \in Nat /\ Len(P[1]) \in Nat /\ Len(P[1]) <= b /\ Pairs(T, Len(P[1]) + 2, b, ps)
<1> DEFINE N == Len(ps)
           K == [n \in 0 .. N |-> Len(P[n])]
           a == Len(P[1]) + 2
           o == [n \in 2 .. N + 1 |-> K[n - 1] + 2]
<1>1. Bodied(ps) /\ N \in Nat /\ N > 1
  BY SoundBodied
<1>2. Pieces(ps) \in Seq(Text) /\ Len(Pieces(ps)) = N
  BY <1>1, PiecesText
<1>3. ASSUME NEW m \in 0 .. N, NEW n \in m .. N
      PROVE  K[m] \in Nat /\ K[m] <= K[n]
  <2>1. m \in 0 .. Len(Pieces(ps)) /\ n \in m .. Len(Pieces(ps)) /\ n \in 0 .. N
    BY <1>1, <1>2
  <2>2. Len(P[m]) \in Nat /\ Len(P[m]) <= Len(P[n])
    BY <1>2, <2>1, ChainHas
  <2> QED BY <2>1, <2>2
<1>4. a = K[1] + 2 /\ b = K[N] /\ 0 \in 0 .. N /\ 1 \in 0 .. N /\ N \in 1 .. N /\ N \in 0 .. N
  BY <1>1
<1>5. a \in Nat /\ b \in Nat /\ K[1] \in Nat /\ K[1] <= b /\ K[N] \in Nat
  <2>1. K[1] \in Nat /\ K[1] <= K[N]
    BY <1>3, <1>4
  <2>2. K[N] \in Nat
    <3>1. N \in N .. N
      BY <1>1
    <3> QED BY <1>3, <1>4, <3>1
  <2> HIDE DEF K
  <2> QED BY <1>4, <2>1, <2>2
<1>6. ASSUME NEW j \in 2 .. N
      PROVE  /\ K[j - 1] \in Nat /\ HasAt(T, K[j - 1], Separator)
             /\ Placed(T, K[j - 1] + 2, K[j], ps[j])
  <2>1. j \in 1 .. Len(ps) /\ j # 1 /\ j - 1 \in 0 .. N /\ j \in 0 .. N
    BY <1>1
  <2>2. K[j - 1] = Len(P[j - 1]) /\ K[j] = Len(P[j])
    BY <2>1
  <2>3. Lead(j) = Separator /\ Len(Lead(j)) = 2
    BY <2>1, LeadText DEF Lead
  <2> HIDE DEF N, K
  <2>4. /\ Len(P[j - 1]) \in Nat /\ HasAt(T, Len(P[j - 1]), Lead(j))
        /\ Placed(T, Len(P[j - 1]) + Len(Lead(j)), Len(P[j]), ps[j])
    BY <1>1, <2>1, PieceAt
  <2> QED BY <2>2, <2>3, <2>4
<1>7. ASSUME NEW j \in 2 .. N
      PROVE  Pair(T, o[j], o[j + 1] - 2, ps[j])
  <2>1. o[j] = K[j - 1] + 2 /\ o[j + 1] = K[j] + 2 /\ K[j] \in Nat
    <3>1. /\ j \in 2 .. N + 1 /\ j + 1 \in 2 .. N + 1 /\ (j + 1) - 1 = j /\ j \in 0 .. N
          /\ j \in j .. N
      BY <1>1
    <3>2. K[j] \in Nat
      BY <1>3, <3>1
    <3> HIDE DEF K
    <3> QED BY <3>1, <3>2
  <2>2. IsName(ps[j].key) /\ IsValue(ps[j].value)
    BY DEF SoundProps
  <2> HIDE DEF K, o
  <2>3. o[j + 1] - 2 = K[j]
    BY <2>1
  <2> QED BY <1>6, <2>1, <2>2, <2>3, PlacedPair
<1>8. ASSUME NEW j \in 2 .. N, j < N
      PROVE  HasAt(T, o[j + 1] - 2, Separator)
  <2>1. j + 1 \in 2 .. N /\ j + 1 \in 2 .. N + 1 /\ (j + 1) - 1 = j
    BY <1>1, <1>8
  <2>2. HasAt(T, K[(j + 1) - 1], Separator) /\ K[(j + 1) - 1] \in Nat
    BY <1>6, <2>1
  <2> HIDE DEF K
  <2>3. o[j + 1] = K[j] + 2 /\ K[j] \in Nat
    BY <2>1, <2>2
  <2>4. o[j + 1] - 2 = K[j]
    BY <2>3
  <2> QED BY <2>1, <2>2, <2>4
<1>9. o[2] = a /\ o[N + 1] = b + 2
  <2>1. 2 \in 2 .. N + 1 /\ N + 1 \in 2 .. N + 1 /\ 2 - 1 = 1 /\ (N + 1) - 1 = N
    BY <1>1
  <2> HIDE DEF K
  <2> QED BY <1>4, <2>1
<1> DEFINE Commas == {k \in a .. b + 2 : k = a \/ k = b + 2 \/ HasAt(T, k - 2, Separator)}
<1>10. ASSUME NEW j \in 2 .. N + 1
       PROVE  o[j] \in Commas
  <2>1. o[j] = K[j - 1] + 2
    <3> HIDE DEF K
    <3> QED OBVIOUS
  <2>2. j - 1 \in 1 .. N /\ j - 1 \in 0 .. N /\ N \in j - 1 .. N
    BY <1>1
  <2>3. K[1] <= K[j - 1] /\ K[j - 1] <= K[N] /\ K[j - 1] \in Nat
    BY <1>3, <1>4, <2>2
  <2> HIDE DEF K, o
  <2>4. o[j] \in a .. b + 2
    <3> DEFINE x == K[j - 1]
               y == K[1]
    <3>1. /\ o[j] = x + 2 /\ a = y + 2 /\ y <= x /\ x <= b
          /\ x \in Nat /\ y \in Nat /\ b \in Nat
      BY <1>4, <1>5, <2>1, <2>3
    <3> HIDE DEF a, x, y
    <3> QED BY <3>1
  <2>5. CASE j = 2
    BY <1>9, <2>4, <2>5
  <2>6. CASE j # 2
    <3>1. j - 1 \in 2 .. N /\ (j - 1) + 1 = j
      BY <1>1, <2>6
    <3>2. CASE j = N + 1
      BY <1>9, <2>4, <3>2
    <3>3. CASE j # N + 1
      <4>1. j - 1 < N
        BY <1>1, <3>3
      <4>2. HasAt(T, o[(j - 1) + 1] - 2, Separator)
        BY <1>8, <3>1, <4>1
      <4> QED BY <2>4, <3>1, <4>2
    <3> QED BY <3>2, <3>3
  <2> QED BY <2>5, <2>6
<1>11. o \in [2 .. N + 1 -> Commas]
  BY <1>10
<1> HIDE DEF o, Commas, a
<1>12. Pairs(T, a, b, ps)
  BY <1>1, <1>7, <1>8, <1>9, <1>11, Zenon DEF Pairs, Commas
<1> QED BY <1>4, <1>5, <1>12 DEF a

\* The bytes of the texts that WriteTo writes between the fields.
LEMMA OneByteAt ==
    ASSUME NEW T, NEW k \in Nat, NEW x, HasAt(T, k, <<x>>), Len(T) \in Nat
    PROVE  k < Len(T) /\ T[k + 1] = x
<1> DEFINE w == <<x>>
<1>1. Len(w) = 1 /\ w[1] = x /\ 1 \in 1 .. 1
  OBVIOUS
<1>2. HasAt(T, k, w)
  OBVIOUS
<1> HIDE DEF w
<1> QED BY <1>1, <1>2 DEF HasAt

\* All of a body that WriteTo writes.
LEMMA BodyWritten ==
    ASSUME NEW H \in Text, NEW ps \in Seq(Property), SoundProps(ps), NEW P, Chain(P, H, Pieces(ps)),
           NEW T \in Text, HasAt(T, 0, P[Len(ps)]), NEW l, l.props = ps, l.message = NoText
    PROVE  /\ Len(H) \in Nat /\ Len(P[Len(ps)]) \in Nat /\ Len(H) + 1 <= Len(P[Len(ps)])
           /\ Len(H) < Len(T) /\ T[Len(H) + 1] = "tab"
           /\ PairsAlone(T, Len(H) + 1, Len(P[Len(ps)]), l)
<1> DEFINE N == Len(ps)
           b == Len(P[N])
           h == Len(H)
           a == h + 1
           k2 == Len(P[2])
           k1 == Len(P[1])
           q == ps[1]
           x == Len(q.key)
           y == Len(q.value)
           c == a + x + 2
           d == k1 + 2
<1>1. Bodied(ps) /\ N \in Nat /\ N > 1
  BY SoundBodied
<1>2. Pieces(ps) \in Seq(Text) /\ Len(Pieces(ps)) = N /\ P[0] = H /\ Len(T) \in Nat
  BY <1>1, PiecesText DEF Chain, Text
<1>3. 1 \in 1 .. N /\ 2 \in 1 .. N /\ 1 - 1 = 0 /\ 2 - 1 = 1 /\ 2 \in 0 .. N /\ N \in 2 .. N
  BY <1>1
<1>4. /\ Len(P[1 - 1]) \in Nat /\ HasAt(T, Len(P[1 - 1]), Lead(1))
      /\ Placed(T, Len(P[1 - 1]) + Len(Lead(1)), Len(P[1]), ps[1])
  BY <1>1, <1>3, PieceAt
<1>5. /\ Len(P[2 - 1]) \in Nat /\ HasAt(T, Len(P[2 - 1]), Lead(2))
      /\ Placed(T, Len(P[2 - 1]) + Len(Lead(2)), Len(P[2]), ps[2])
  BY <1>1, <1>3, PieceAt
<1>6. Lead(1) = <<"tab">> /\ Len(Lead(1)) = 1 /\ Lead(2) = Separator /\ Len(Lead(2)) = 2
  <2>1. Lead(1) = <<"tab">> /\ Lead(2) = Separator
    BY DEF Lead
  <2>2. Len(Lead(1)) = 1 /\ Len(Lead(2)) = 2
    BY LeadText
  <2> QED BY <2>1, <2>2
<1>7. b \in Nat /\ k1 \in Nat /\ Pairs(T, d, b, ps)
  <2>1. HasAt(T, 0, P[N]) /\ b = Len(P[Len(ps)])
    OBVIOUS
  <2> HIDE DEF b
  <2> QED BY <2>1, PairsWritten
<1>8. k2 \in Nat /\ k2 <= b
  BY <1>2, <1>3, ChainHas
<1>9. h \in Nat /\ HasAt(T, h, <<"tab">>) /\ Placed(T, a, k1, q)
  BY <1>2, <1>3, <1>4, <1>6
<1>10. HasAt(T, k1, Separator) /\ Placed(T, k1 + 2, k2, ps[2])
  BY <1>3, <1>5, <1>6
<1>11. k1 + 2 <= k2
  <2> DEFINE m == ps[2]
             f == Len(m.key)
             g == Len(m.value)
  <2>1. f \in Nat /\ g \in Nat /\ k2 = (k1 + 2) + f + 2 + g
    BY <1>10 DEF Placed
  <2> HIDE DEF f, g, k1, k2
  <2> QED BY <1>7, <2>1
<1>12. h < Len(T) /\ T[h + 1] = "tab"
  <2> HIDE DEF h
  <2> QED BY <1>2, <1>9, OneByteAt
<1>13. /\ x \in Nat /\ y \in Nat /\ k1 = c + y
       /\ Named(T, a, c, q.key) /\ HasAt(T, c, q.value)
  BY <1>9 DEF Placed
<1>14. IsTitle(q.key) /\ Made(q.value, NameBytes)
  BY DEF SoundProps
<1>15. l.props[1] = q /\ l.props # <<>> /\ l.message = NoText /\ l.props = ps
  BY <1>1
<1> HIDE DEF N, b, h, k2, k1, q, x, y
<1>16. c \in a .. b /\ d \in a .. b /\ d = c + y + 2 /\ d - 2 = k1 /\ a <= b
  BY <1>7, <1>8, <1>9, <1>11, <1>13
<1> HIDE DEF a, c, d
<1>17. d = c + Len(q.value) + 2 /\ HasAt(T, d - 2, Separator)
  BY <1>10, <1>16 DEF y
<1>18. PairsAlone(T, a, b, l)
  BY <1>7, <1>13, <1>14, <1>15, <1>16, <1>17, Zenon DEF PairsAlone
<1> QED BY <1>7, <1>9, <1>12, <1>16, <1>18 DEF a, b, h, N

\* Texts of one rune
LEMMA TextOne ==
    ASSUME NEW x \in Runes
    PROVE  <<x>> \in Text /\ Made(<<x>>, Runes) /\ Len(<<x>>) = 1
<1>1. x \in Bytes
  BY DEF Runes
<1> DEFINE w == <<x>>
<1>2. w \in Text /\ Len(w) = 1 /\ w[1] = x
  BY <1>1 DEF Text
<1> HIDE DEF w
<1>3. Made(w, Runes)
  BY <1>2 DEF Made
<1> QED BY <1>2, <1>3 DEF w

\* and of two.
LEMMA TextTwo ==
    ASSUME NEW x \in Runes, NEW y \in Runes
    PROVE  <<x, y>> \in Text /\ Made(<<x, y>>, Runes) /\ Len(<<x, y>>) = 2
<1>1. x \in Bytes /\ y \in Bytes
  BY DEF Runes
<1> DEFINE w == <<x, y>>
<1>2. w \in Text /\ Len(w) = 2 /\ w[1] = x /\ w[2] = y
  BY <1>1 DEF Text
<1> HIDE DEF w
<1>3. Made(w, Runes)
  <2>1. \A n \in 1 .. 2 : n = 1 \/ n = 2
    OBVIOUS
  <2> QED BY <1>2, <2>1 DEF Made
<1> QED BY <1>2, <1>3 DEF w

\* What WriteTo writes for the header, when thread and class are there.
HeaderText(l) ==
    l.date \o <<"sp">> \o l.time \o <<"tab">> \o l.level \o <<"tab", "[">> \o l.thread
    \o <<"]", "tab">> \o l.class

\* The parts of the header, one by one.
LEMMA HeaderParts ==
    ASSUME NEW l \in Log, SoundHeader(l)
    PROVE  \E h1, h2, h3, h4, h5, h6, h7, h8 \in Text :
             /\ Joined(h1, l.date, <<"sp">>) /\ Joined(h2, h1, l.time) /\ Joined(h3, h2, <<"tab">>)
             /\ Joined(h4, h3, l.level) /\ Joined(h5, h4, <<"tab", "[">>)
             /\ Joined(h6, h5, l.thread)
             /\ Joined(h7, h6, <<"]", "tab">>) /\ Joined(h8, h7, l.class)
             /\ h8 = HeaderText(l) /\ Made(h8, Runes)
<1> DEFINE h1 == l.date \o <<"sp">>
           h2 == h1 \o l.time
           h3 == h2 \o <<"tab">>
           h4 == h3 \o l.level
           h5 == h4 \o <<"tab", "[">>
           h6 == h5 \o l.thread
           h7 == h6 \o <<"]", "tab">>
           h8 == h7 \o l.class
<1>1. "sp" \in Runes /\ "tab" \in Runes /\ "[" \in Runes /\ "]" \in Runes
  BY Zenon DEF Runes, Bytes
<1>2. DateBytes \subseteq Runes /\ WordBytes \subseteq Runes /\ ThreadBytes \subseteq Runes
  BY Zenon DEF DateBytes, WordBytes, ThreadBytes, Runes, Bytes
<1>3. /\ l.date \in Text /\ l.time \in Text /\ l.level \in Text /\ l.thread \in Text
      /\ l.class \in Text
  BY DEF Log
<1>4. /\ Made(l.date, Runes) /\ Made(l.time, Runes) /\ Made(l.level, Runes) /\ Made(l.thread, Runes)
      /\ Made(l.class, Runes)
  BY <1>2, MadeMore DEF SoundHeader
<1> DEFINE Good(w) == w \in Text /\ Made(w, Runes)
<1>5. ASSUME NEW u, NEW w, Good(u), Good(w) PROVE Good(u \o w)
  BY <1>5, ConcatHas, MadeConcat
<1>6. Good(l.date) /\ Good(l.time) /\ Good(l.level) /\ Good(l.thread) /\ Good(l.class)
  BY <1>3, <1>4
<1>7. Good(<<"sp">>) /\ Good(<<"tab">>) /\ Good(<<"tab", "[">>) /\ Good(<<"]", "tab">>)
  BY <1>1, TextOne, TextTwo
<1> HIDE DEF Good
<1>h1. Good(h1)
  BY <1>5, <1>6, <1>7
<1> HIDE DEF h1
<1>h2. Good(h2)
  BY <1>5, <1>6, <1>h1
<1> HIDE DEF h2
<1>h3. Good(h3)
  BY <1>5, <1>7, <1>h2
<1> HIDE DEF h3
<1>h4. Good(h4)
  BY <1>5, <1>6, <1>h3
<1> HIDE DEF h4
<1>h5. Good(h5)
  BY <1>5, <1>7, <1>h4
<1> HIDE DEF h5
<1>h6. Good(h6)
  BY <1>5, <1>6, <1>h5
<1> HIDE DEF h6
<1>h7. Good(h7)
  BY <1>5, <1>7, <1>h6
<1> HIDE DEF h7
<1>h8. Good(h8)
  BY <1>5, <1>6, <1>h7
<1>8. h8 = HeaderText(l)
  BY DEF h1, h2, h3, h4, h5, h6, h7, HeaderText
<1> HIDE DEF h8
<1>9. /\ Joined(h1, l.date, <<"sp">>) /\ Joined(h2, h1, l.time) /\ Joined(h3, h2, <<"tab">>)
      /\ Joined(h4, h3, l.level) /\ Joined(h5, h4, <<"tab", "[">>) /\ Joined(h6, h5, l.thread)
      /\ Joined(h7, h6, <<"]", "tab">>) /\ Joined(h8, h7, l.class)
  BY DEF Joined, h1, h2, h3, h4, h5, h6, h7, h8
<1>10. /\ h1 \in Text /\ h2 \in Text /\ h3 \in Text /\ h4 \in Text /\ h5 \in Text /\ h6 \in Text
       /\ h7 \in Text /\ h8 \in Text /\ Made(h8, Runes)
  BY <1>h1, <1>h2, <1>h3, <1>h4, <1>h5, <1>h6, <1>h7, <1>h8 DEF Good
<1> QED BY <1>8, <1>9, <1>10, Zenon

\* A text and the byte after it.
LEMMA EndedAt ==
    ASSUME NEW T, NEW k \in Nat, NEW w \in Text, HasAt(T, k, w), NEW B, NEW e \in Nat,
           e = k + Len(w),
           e < Len(T), T[e + 1] \in B
    PROVE  Ended(T, k, e + 1, w, B)
<1>1. e + 1 = k + Len(w) + 1 /\ (e + 1) - 1 = e
  BY DEF Text
<1>2. ByteAt(T, e, B)
  BY DEF ByteAt
<1> QED BY <1>1, <1>2 DEF Ended

\* No blanks and no bracket.
LEMMA GapNone ==
    ASSUME NEW T, NEW a \in Nat, a <= Len(T)
    PROVE  Gap(T, a, a) /\ Bracket(T, a, a)
  BY DEF Gap, Bracket

\* A word right after what is before it.
LEMMA WordedAt ==
    ASSUME NEW T, NEW a \in Nat, NEW g \in Nat, a <= g, Gap(T, a, g), NEW w \in Text, w # NoText,
           Made(w, WordBytes),
           NEW b \in Nat, Ended(T, g, b, w, WordEnds), g <= b
    PROVE  Worded(T, a, b, w)
<1>1. g \in a .. b /\ Bracket(T, g, g)
  BY DEF Bracket
<1> QED BY <1>1 DEF Worded

\* The parts of a text that stands at the beginning.
LEMMA StartParts ==
    ASSUME NEW T \in Text, NEW u \in Text, NEW w \in Text, NEW s, Joined(s, u, w), HasAt(T, 0, s)
    PROVE  /\ HasAt(T, 0, u) /\ HasAt(T, Len(u), w)
           /\ Len(u) \in Nat /\ Len(w) \in Nat /\ Len(s) = Len(u) + Len(w)
<1>1. /\ Len(u) \in Nat /\ Len(w) \in Nat /\ Len(s) = Len(u) + Len(w)
      /\ HasAt(T, 0, u) /\ HasAt(T, 0 + Len(u), w)
  BY HasParts
<1>2. 0 + Len(u) = Len(u)
  BY <1>1
<1> QED BY <1>1, <1>2

\* The header WriteTo writes is one of the format.
LEMMA HeaderWritten ==
    ASSUME NEW l \in Log, SoundHeader(l), NEW T \in Text, HasAt(T, 0, HeaderText(l)),
           Len(HeaderText(l)) < Len(T), T[Len(HeaderText(l)) + 1] = "tab"
    PROVE  Header(T, 0, Len(HeaderText(l)) + 1, l)
<1>1. PICK h1, h2, h3, h4, h5, h6, h7, h8 \in Text :
             /\ Joined(h1, l.date, <<"sp">>) /\ Joined(h2, h1, l.time) /\ Joined(h3, h2, <<"tab">>)
             /\ Joined(h4, h3, l.level) /\ Joined(h5, h4, <<"tab", "[">>)
             /\ Joined(h6, h5, l.thread)
             /\ Joined(h7, h6, <<"]", "tab">>) /\ Joined(h8, h7, l.class)
             /\ h8 = HeaderText(l) /\ Made(h8, Runes)
  BY HeaderParts, Zenon
<1> DEFINE D == l.date
           M == l.time
           V == l.level
           R == l.thread
           C == l.class
           sp == <<"sp">>
           tab == <<"tab">>
           open == <<"tab", "[">>
           close == <<"]", "tab">>
<1>2. D \in Text /\ M \in Text /\ V \in Text /\ R \in Text /\ C \in Text
  BY DEF Log
<1>3. /\ sp \in Text /\ tab \in Text /\ open \in Text /\ close \in Text
      /\ Len(sp) = 1 /\ Len(tab) = 1 /\ Len(open) = 2 /\ Len(close) = 2
  <2>1. "sp" \in Runes /\ "tab" \in Runes /\ "[" \in Runes /\ "]" \in Runes
    BY Zenon DEF Runes, Bytes
  <2> QED BY <2>1, TextOne, TextTwo
<1>4. /\ Joined(h1, D, sp) /\ Joined(h2, h1, M) /\ Joined(h3, h2, tab)
      /\ Joined(h4, h3, V) /\ Joined(h5, h4, open) /\ Joined(h6, h5, R)
      /\ Joined(h7, h6, close) /\ Joined(h8, h7, C)
  BY <1>1
<1>5. HasAt(T, 0, h8) /\ Len(h8) < Len(T) /\ T[Len(h8) + 1] = "tab" /\ 0 \in Nat
  BY <1>1
<1>6. /\ D = l.date /\ M = l.time /\ V = l.level /\ R = l.thread /\ C = l.class
      /\ sp = <<"sp">> /\ tab = <<"tab">> /\ open = <<"tab", "[">> /\ close = <<"]", "tab">>
  OBVIOUS
<1> HIDE DEF D, M, V, R, C, sp, tab, open, close
<1>7. /\ HasAt(T, 0, h7) /\ HasAt(T, Len(h7), C)
      /\ Len(h7) \in Nat /\ Len(C) \in Nat /\ Len(h8) = Len(h7) + Len(C)
  <2>1. Joined(h8, h7, C) /\ C \in Text /\ HasAt(T, 0, h8)
    BY <1>2, <1>3, <1>4, <1>5
  <2> QED BY <2>1, StartParts
<1>8. /\ HasAt(T, 0, h6) /\ HasAt(T, Len(h6), close)
      /\ Len(h6) \in Nat /\ Len(close) \in Nat /\ Len(h7) = Len(h6) + Len(close)
  <2>1. Joined(h7, h6, close) /\ close \in Text /\ HasAt(T, 0, h7)
    BY <1>2, <1>3, <1>4, <1>7
  <2> QED BY <2>1, StartParts
<1>9. /\ HasAt(T, 0, h5) /\ HasAt(T, Len(h5), R)
      /\ Len(h5) \in Nat /\ Len(R) \in Nat /\ Len(h6) = Len(h5) + Len(R)
  <2>1. Joined(h6, h5, R) /\ R \in Text /\ HasAt(T, 0, h6)
    BY <1>2, <1>3, <1>4, <1>8
  <2> QED BY <2>1, StartParts
<1>10. /\ HasAt(T, 0, h4) /\ HasAt(T, Len(h4), open)
      /\ Len(h4) \in Nat /\ Len(open) \in Nat /\ Len(h5) = Len(h4) + Len(open)
  <2>1. Joined(h5, h4, open) /\ open \in Text /\ HasAt(T, 0, h5)
    BY <1>2, <1>3, <1>4, <1>9
  <2> QED BY <2>1, StartParts
<1>11. /\ HasAt(T, 0, h3) /\ HasAt(T, Len(h3), V)
      /\ Len(h3) \in Nat /\ Len(V) \in Nat /\ Len(h4) = Len(h3) + Len(V)
  <2>1. Joined(h4, h3, V) /\ V \in Text /\ HasAt(T, 0, h4)
    BY <1>2, <1>3, <1>4, <1>10
  <2> QED BY <2>1, StartParts
<1>12. /\ HasAt(T, 0, h2) /\ HasAt(T, Len(h2), tab)
      /\ Len(h2) \in Nat /\ Len(tab) \in Nat /\ Len(h3) = Len(h2) + Len(tab)
  <2>1. Joined(h3, h2, tab) /\ tab \in Text /\ HasAt(T, 0, h3)
    BY <1>2, <1>3, <1>4, <1>11
  <2> QED BY <2>1, StartParts
<1>13. /\ HasAt(T, 0, h1) /\ HasAt(T, Len(h1), M)
      /\ Len(h1) \in Nat /\ Len(M) \in Nat /\ Len(h2) = Len(h1) + Len(M)
  <2>1. Joined(h2, h1, M) /\ M \in Text /\ HasAt(T, 0, h2)
    BY <1>2, <1>3, <1>4, <1>12
  <2> QED BY <2>1, StartParts
<1>14. /\ HasAt(T, 0, D) /\ HasAt(T, Len(D), sp)
       /\ Len(D) \in Nat /\ Len(sp) \in Nat /\ Len(h1) = Len(D) + Len(sp)
  <2>1. Joined(h1, D, sp) /\ sp \in Text /\ D \in Text /\ HasAt(T, 0, h1)
    BY <1>2, <1>3, <1>4, <1>13
  <2> QED BY <2>1, StartParts
<1> DEFINE n0 == Len(D)
           n1 == Len(h1)
           n2 == Len(h2)
           n3 == Len(h3)
           n4 == Len(h4)
           n5 == Len(h5)
           n6 == Len(h6)
           n7 == Len(h7)
           n8 == Len(h8)
           m == Len(M)
           v == Len(V)
           r == Len(R)
           c == Len(C)
<1>15. /\ n0 \in Nat /\ n1 = n0 + 1 /\ n2 = n1 + m /\ n3 = n2 + 1 /\ n4 = n3 + v
       /\ n5 = n4 + 2 /\ n6 = n5 + r /\ n7 = n6 + 2 /\ n8 = n7 + c
       /\ m \in Nat /\ v \in Nat /\ r \in Nat /\ c \in Nat
  BY <1>3, <1>7, <1>8, <1>9, <1>10, <1>11, <1>12, <1>13, <1>14
<1>16. /\ HasAt(T, 0, D) /\ HasAt(T, n0, sp) /\ HasAt(T, n1, M) /\ HasAt(T, n2, tab)
       /\ HasAt(T, n3, V)
       /\ HasAt(T, n4, open) /\ HasAt(T, n5, R) /\ HasAt(T, n6, close) /\ HasAt(T, n7, C)
  BY <1>7, <1>8, <1>9, <1>10, <1>11, <1>12, <1>13, <1>14
<1>17. n8 < Len(T) /\ T[n8 + 1] = "tab" /\ Len(T) \in Nat
  BY <1>5 DEF Text
<1>35. /\ n2 = n1 + Len(M) /\ n4 = n3 + Len(V) /\ n6 = n5 + Len(R) /\ n8 = n7 + Len(C)
       /\ n0 = 0 + Len(D)
  <2>1. n0 = 0 + Len(D)
    BY <1>14
  <2>2. n2 = n1 + Len(M) /\ n4 = n3 + Len(V) /\ n6 = n5 + Len(R) /\ n8 = n7 + Len(C)
    <3> HIDE DEF n0, n1, n2, n3, n4, n5, n6, n7, n8
    <3> QED BY <1>15
  <2> QED BY <2>1, <2>2
<1> HIDE DEF n0, n1, n2, n3, n4, n5, n6, n7, n8, m, v, r, c
<1>36. /\ n0 \in Nat /\ n1 \in Nat /\ n2 \in Nat /\ n3 \in Nat /\ n4 \in Nat
       /\ n5 \in Nat /\ n6 \in Nat /\ n7 \in Nat /\ n8 \in Nat
  BY <1>15
<1>37. /\ n1 <= n3 /\ n3 <= n4 /\ n5 = (n4 + 1) + 1 /\ n5 <= n6 /\ n7 = (n6 + 1) + 1 /\ n7 <= n8
       /\ n4 + 1 <= n6 + 1
  BY <1>15
<1>18. n0 < Len(T) /\ T[n0 + 1] = "sp" /\ n2 < Len(T) /\ T[n2 + 1] = "tab"
  <2>1. HasAt(T, n0, <<"sp">>) /\ HasAt(T, n2, <<"tab">>)
    BY <1>16 DEF sp, tab
  <2> QED BY <1>17, <1>36, <2>1, OneByteAt
<1>19. /\ n4 < Len(T) /\ n4 + 1 < Len(T) /\ T[n4 + 1] = "tab" /\ T[(n4 + 1) + 1] = "["
       /\ n6 < Len(T) /\ n6 + 1 < Len(T) /\ T[n6 + 1] = "]" /\ T[(n6 + 1) + 1] = "tab"
  <2>1. HasAt(T, n4, <<"tab", "[">>) /\ HasAt(T, n6, <<"]", "tab">>)
    BY <1>16 DEF open, close
  <2> QED BY <1>36, <2>1, TwoBytes
<1>20. /\ "sp" \in DateEnds /\ "tab" \in DateEnds /\ "tab" \in WordEnds /\ "]" \in {"tab", "]"}
       /\ "tab" \in Blanks
  BY Zenon DEF DateEnds, WordEnds, Blanks, Runes, Bytes, DateBytes
<1>21. 0 \in Nat
  OBVIOUS
<1>22. Ended(T, 0, n0 + 1, D, DateEnds)
  BY <1>2, <1>35, <1>36, <1>16, <1>18, <1>20, <1>21, EndedAt
<1>23. Ended(T, n1, n2 + 1, M, DateEnds)
  BY <1>2, <1>35, <1>36, <1>16, <1>18, <1>20, EndedAt
<1>24. Ended(T, n3, n4 + 1, V, WordEnds)
  BY <1>2, <1>35, <1>36, <1>16, <1>19, <1>20, EndedAt
<1>25. Ended(T, n5, n6 + 1, R, {"tab", "]"})
  BY <1>2, <1>35, <1>36, <1>16, <1>19, <1>20, EndedAt
<1>26. Ended(T, n7, n8 + 1, C, WordEnds)
  BY <1>2, <1>35, <1>36, <1>16, <1>17, <1>20, EndedAt
<1>27. /\ Made(D, DateBytes) /\ Made(M, DateBytes) /\ V # NoText /\ Made(V, WordBytes)
       /\ R # NoText /\ Made(R, ThreadBytes) /\ C # NoText /\ Made(C, WordBytes)
  BY DEF SoundHeader, D, M, V, R, C
<1>28. Dated(T, 0, n3, l)
  <2>1. Bracket(T, 0, 0) /\ 0 \in 0 .. n3 /\ n1 \in 0 .. n3
    BY <1>36, <1>37 DEF Bracket
  <2>2. Ended(T, 0, n1, D, DateEnds) /\ Ended(T, n1, n3, M, DateEnds)
    BY <1>15, <1>22, <1>23
  <2> QED BY <1>6, <1>27, <2>1, <2>2, Zenon DEF Dated
<1>29. Worded(T, n3, n4 + 1, V)
  <2>1. n3 <= n3 /\ n3 <= n4 + 1 /\ n4 + 1 \in Nat /\ n3 <= Len(T)
    BY <1>17, <1>19, <1>36, <1>37
  <2>2. Gap(T, n3, n3)
    BY <1>36, <2>1, GapNone
  <2> QED BY <1>2, <1>36, <1>24, <1>27, <2>1, <2>2, WordedAt
<1>30. Threaded(T, n4 + 1, n6 + 1, R)
  <2> DEFINE g == n4 + 1
  <2>1. g \in Nat /\ g <= Len(T) /\ g \in g .. n6 + 1 /\ n5 = g + 1
    BY <1>17, <1>19, <1>36, <1>37
  <2>2. ByteAt(T, g, {"["})
    BY <1>19 DEF ByteAt
  <2>3. Ended(T, g + 1, n6 + 1, R, {"tab", "]"})
    BY <1>25, <2>1
  <2> HIDE DEF g
  <2>4. Gap(T, g, g)
    BY <2>1, GapNone
  <2>5. Threaded(T, g, n6 + 1, R)
    BY <1>27, <2>1, <2>2, <2>3, <2>4, Zenon DEF Threaded
  <2> QED BY <2>5 DEF g
<1>31. Worded(T, n6 + 1, n8 + 1, C)
  <2>1. Gap(T, n6 + 1, n7)
    <3>1. \A j \in (n6 + 1) + 1 .. n7 : j = (n6 + 1) + 1
      BY <1>36, <1>37
    <3>2. n7 <= Len(T)
      BY <1>17, <1>36, <1>37
    <3> QED BY <1>19, <1>20, <3>1, <3>2 DEF Gap
  <2>2. n6 + 1 <= n7 /\ n7 <= n8 + 1 /\ n8 + 1 \in Nat /\ n6 + 1 \in Nat
    BY <1>36, <1>37
  <2> QED BY <1>2, <1>36, <1>26, <1>27, <2>1, <2>2, WordedAt
<1>32. Gap(T, n8 + 1, n8 + 1)
  <2>1. n8 + 1 \in Nat /\ n8 + 1 <= Len(T)
    BY <1>17, <1>36
  <2> QED BY <2>1, GapNone
<1>33. /\ n3 \in 0 .. n8 + 1 /\ n4 + 1 \in n3 .. n8 + 1 /\ n6 + 1 \in n4 + 1 .. n8 + 1
       /\ n8 + 1 \in n6 + 1 .. n8 + 1
  BY <1>36, <1>37
<1>34. Header(T, 0, n8 + 1, l)
  <2>1. /\ Worded(T, n3, n4 + 1, l.level) /\ Threaded(T, n4 + 1, n6 + 1, l.thread)
        /\ Worded(T, n6 + 1, n8 + 1, l.class)
    BY <1>6, <1>29, <1>30, <1>31
  <2> DEFINE x == n3
             d == n4 + 1
             e == n6 + 1
             b == n8 + 1
  <2>2. /\ x \in 0 .. b /\ d \in x .. b /\ e \in d .. b /\ b \in e .. b
        /\ Dated(T, 0, x, l) /\ Worded(T, x, d, l.level) /\ Threaded(T, d, e, l.thread)
        /\ Worded(T, e, b, l.class) /\ Gap(T, b, b)
    BY <1>28, <1>32, <1>33, <2>1
  <2> HIDE DEF x, d, e, b
  <2>3. Header(T, 0, b, l)
    BY <2>2, Zenon DEF Header
  <2> QED BY <2>3 DEF b
<1> QED BY <1>1, <1>34 DEF n8

\* The text of one line, in the format.
LEMMA LineWritten ==
    ASSUME NEW X \in Text, Made(X, Runes), NEW l \in Log, Line(X, 0, Len(X), l), X[Len(X)] = "nl"
    PROVE  Written([text |-> X, logs |-> <<l>>])
<1> DEFINE x == [text |-> X, logs |-> <<l>>]
           o == [j \in 1 .. 1 + 1 |-> IF j = 1 THEN 0 ELSE Len(X)]
           K == {k \in 0 .. Len(X) : k = 0 \/ X[k] = "nl"}
<1>1. x.text = X /\ Len(x.logs) = 1 /\ x.logs[1] = l /\ Len(X) \in Nat
  BY DEF Text
<1>2. 0 \in K /\ Len(X) \in K
  BY <1>1
<1>3. o[1] = 0 /\ o[1 + 1] = Len(X)
  OBVIOUS
<1> HIDE DEF K
<1>4. o \in [1 .. 1 + 1 -> K]
  BY <1>2
<1> HIDE DEF o, x
<1>5. \A j \in 1 .. 1 : Line(X, o[j], o[j + 1], x.logs[j])
  <2>1. \A j \in 1 .. 1 : j = 1
    OBVIOUS
  <2> QED BY <1>1, <1>3, <2>1
<1>6. \E f \in [1 .. 1 + 1 -> K] :
        /\ f[1] = 0 /\ f[1 + 1] = Len(X)
        /\ \A j \in 1 .. 1 : Line(X, f[j], f[j + 1], x.logs[j])
  BY <1>3, <1>4, <1>5
<1>7. Written(x)
  BY <1>1, <1>6, Zenon DEF Written, K
<1> QED BY <1>7 DEF x

\* What WriteTo writes for a sound log is parsed as that log, its message a property
\* and the properties with their escapes.
LEMMA Rewritten ==
    ASSUME NEW l \in Log, SoundHeader(l), SoundProps(All(l)), All(l) \in Seq(Property)
    PROVE  Reparsed(l) = <<Bare(l, Escapes(All(l)))>>
<1> DEFINE ps == Escapes(All(l))
           N == Len(ps)
           y == Bare(l, ps)
           H == HeaderText(l)
           nl == <<"nl">>
<1>1. WriteTo(l) = H \o FlattenSeq(Pieces(ps))
  <2>1. OrDash(l.thread) = l.thread /\ OrDash(l.class) = l.class
    BY DEF OrDash, SoundHeader
  <2>2. WriteTo(l) = H \o serialize(l)
    BY <2>1, Zenon DEF WriteTo, HeaderText
  <2> QED BY <2>2, Serialized
<1>21. SoundProps(ps) /\ ps \in Seq(Property)
  BY EscapesSound
<1>2. y \in Log /\ y.props = ps /\ y.message = NoText /\ SoundHeader(y) /\ HeaderText(y) = H
  <2>1. /\ y.date = l.date /\ y.time = l.time /\ y.level = l.level /\ y.thread = l.thread
        /\ y.class = l.class
        /\ y.props = ps /\ y.message = NoText
    BY DEF Bare
  <2>2. y \in Log
    BY <1>21 DEF Bare, Log, NoText, Text
  <2> HIDE DEF y, ps
  <2> QED BY <2>1, <2>2 DEF SoundHeader, HeaderText
<1>3. H \in Text /\ Made(H, Runes)
  <2>1. PICK h \in Text : h = HeaderText(l) /\ Made(h, Runes)
    BY HeaderParts
  <2> QED BY <2>1
<1> HIDE DEF ps, y, H
<1>4. Bodied(ps) /\ N \in Nat /\ N > 1 /\ ps \in Seq(Property) /\ SoundProps(ps)
  BY <1>21, SoundBodied
<1> DEFINE ss == Pieces(ps)
<1>5. ss \in Seq(Text) /\ Len(ss) = N /\ \A n \in 1 .. N : Made(ss[n], Runes)
  BY <1>4, PiecesText
<1>6. PICK P : Chain(P, H, ss) /\ P[N] = WriteTo(l)
  <2>1. \E P : Chain(P, H, ss) /\ P[Len(ss)] = H \o FlattenSeq(ss)
    <3>1. Len(ss) # 0
      BY <1>4, <1>5
    <3> HIDE DEF ss
    <3> QED BY <1>3, <1>5, <3>1, ChainExists
  <2> QED BY <1>1, <1>5, <2>1
<1> DEFINE w == P[N]
           X == w \o nl
<1>7. w \in Text /\ Made(w, Runes) /\ HasAt(w, 0, H) /\ Len(w) \in Nat
  <2>1. 0 \in 0 .. Len(ss) /\ N \in 0 .. Len(ss) /\ P[0] = H /\ N = Len(ss)
    BY <1>4, <1>5, <1>6 DEF Chain
  <2> HIDE DEF ss, N
  <2>2. P[N] \in Text /\ HasAt(P[N], 0, P[0]) /\ Len(P[N]) \in Nat
    BY <1>3, <1>5, <1>6, <2>1, ChainHas
  <2>3. Made(P[N], Runes)
    BY <1>3, <1>5, <1>6, <2>1, ChainMade
  <2> QED BY <2>1, <2>2, <2>3
<1>8. nl \in Text /\ Made(nl, Runes) /\ Len(nl) = 1
  <2>1. "nl" \in Runes
    BY Zenon DEF Runes, Bytes
  <2> QED BY <2>1, TextOne
<1>9. nl = <<"nl">>
  OBVIOUS
<1> HIDE DEF nl, w, N, ss
<1>10. /\ X \in Text /\ Len(X) = Len(w) + 1 /\ HasAt(X, 0, w) /\ HasAt(X, Len(w), nl)
       /\ Made(X, Runes) /\ Len(X) \in Nat
  <2>1. X \in Text /\ Len(X) = Len(w) + Len(nl) /\ HasAt(X, 0, w) /\ HasAt(X, Len(w), nl)
    BY <1>7, <1>8, ConcatHas
  <2>2. Made(X, Runes)
    BY <1>7, <1>8, MadeConcat
  <2> HIDE DEF X
  <2> QED BY <1>7, <1>8, <2>1, <2>2
<1>11. X = WriteTo(l) \o <<"nl">>
  BY <1>6 DEF w, nl
<1> HIDE DEF X
<1>12. Len(w) < Len(X) /\ X[Len(w) + 1] = "nl"
  BY <1>7, <1>9, <1>10, OneByteAt
<1>13. /\ Len(H) \in Nat /\ Len(H) + 1 <= Len(w) /\ Len(H) < Len(X) /\ X[Len(H) + 1] = "tab"
       /\ PairsAlone(X, Len(H) + 1, Len(w), y)
  <2>1. HasAt(X, 0, P[Len(ps)]) /\ Chain(P, H, Pieces(ps)) /\ w = P[Len(ps)]
    BY <1>6, <1>10 DEF w, N, ss
  <2> QED BY <1>2, <1>3, <1>4, <1>10, <2>1, BodyWritten
<1>14. HasAt(X, 0, H)
  <2>1. HasAt(X, 0 + 0, H)
    BY <1>7, <1>10, <1>13, HasIn
  <2> QED BY <2>1
<1>15. Header(X, 0, Len(H) + 1, y)
  BY <1>2, <1>10, <1>13, <1>14, HeaderWritten
<1>16. Line(X, 0, Len(X), y)
  <2> DEFINE c == Len(H) + 1
             b == Len(w)
  <2>1. 0 < Len(X) /\ Len(X) - 1 = b /\ c \in 0 .. b
    BY <1>7, <1>10, <1>13
  <2>2. Header(X, 0, c, y) /\ Body(X, c, b, y)
    BY <1>13, <1>15 DEF Body
  <2>3. ByteAt(X, b, {"nl"})
    BY <1>12 DEF ByteAt
  <2> HIDE DEF c, b
  <2> QED BY <2>1, <2>2, <2>3 DEF Line
<1>17. X[Len(X)] = "nl"
  BY <1>10, <1>12
<1> DEFINE x == [text |-> X, logs |-> <<y>>]
<1>18. Written(x)
  BY <1>2, <1>10, <1>16, <1>17, LineWritten
<1>19. x.text = X /\ x.logs = <<y>> /\ <<y>> \in Seq(Log)
  BY <1>2
<1>20. Scan(X)[Len(X)].logs = <<y>>
  <2> HIDE DEF x
  <2>1. Scan(x.text)[Len(x.text)].logs = x.logs
    BY <1>10, <1>18, <1>19, WrittenParsed
  <2> QED BY <1>19, <2>1
<1> QED BY <1>11, <1>20 DEF Reparsed, WholeParse, y, ps

\* The log that StringReadBack promises.
LEMMA Promised ==
    ASSUME NEW l \in Log, NEW A
    PROVE  [l EXCEPT !.message = NoText, !.props = A] = Bare(l, A)
<1> DEFINE u == [l EXCEPT !.message = NoText, !.props = A]
           v == Bare(l, A)
           F == {"date", "time", "level", "thread", "class", "message", "props"}
<1>2. u = [f \in F |-> u[f]]
  BY DEF Log
<1>3. v = [f \in F |-> v[f]]
  BY DEF Bare
<1>4. \A f \in F : u[f] = v[f]
  <2>1. DOMAIN l = F
    BY DEF Log
  <2>2. /\ u["date"] = l["date"] /\ u["time"] = l["time"] /\ u["level"] = l["level"]
        /\ u["thread"] = l["thread"]
        /\ u["class"] = l["class"] /\ u["message"] = NoText /\ u["props"] = A
    BY <2>1
  <2>3. /\ v["date"] = l["date"] /\ v["time"] = l["time"] /\ v["level"] = l["level"]
        /\ v["thread"] = l["thread"]
        /\ v["class"] = l["class"] /\ v["message"] = NoText /\ v["props"] = A
    BY DEF Bare
  <2> HIDE DEF u, v
  <2> QED BY <2>2, <2>3
<1>1. u = v
  <2> HIDE DEF u, v, F
  <2> QED BY <1>2, <1>3, <1>4
<1> QED BY <1>1
-----------------------------------------------------------------------------
(* log_string and the logs of the parser *)

\* A scan only adds logs.
LEMMA ScanKeepsLogs ==
    ASSUME NEW t \in Text, Plain(t), NEW m \in 0 .. Len(t)
    PROVE  HasAt(Scan(t)[Len(t)].logs, 0, Scan(t)[m].logs) /\ Scan(t)[m].logs \in Seq(Log)
<1> DEFINE n == Len(t)
           L(k) == Scan(t)[k].logs
           U == {d \in 0 .. n - m : HasAt(L(m + d), 0, L(m))}
<1>1. n \in Nat /\ m \in 0 .. n /\ n - m \in Nat
  BY DEF Text
<1>2. OneByte(t)
  BY DEF Plain, OneByte
<1>3. \A k \in 0 .. n : Scan(t)[k] \in ScanType
  BY KeptAll DEF Kept
<1>4. \A k \in 0 .. n : L(k) \in Seq(Log) /\ Len(L(k)) \in Nat
  <2> TAKE k \in 0 .. n
  <2>1. Scan(t)[k] \in ScanType
    BY <1>3
  <2>2. L(k) \in Seq(Log)
    BY <2>1 DEF ScanType
  <2> QED BY <2>2
<1>5. 0 \in U
  <2>1. HasAt(L(m), 0, L(m))
    <3> HIDE DEF L
    <3> QED BY <1>1, <1>4 DEF HasAt
  <2>2. m + 0 = m /\ 0 \in 0 .. n - m
    BY <1>1
  <2> QED BY <2>1, <2>2
<1>6. ASSUME NEW d \in 0 .. (n - m) - 1, d \in U
      PROVE  d + 1 \in U
  <2> DEFINE k == m + d
  <2>1. /\ k \in 0 .. n - 1 /\ k \in 0 .. n /\ k + 1 \in 0 .. n /\ m + (d + 1) = k + 1
        /\ d + 1 \in 0 .. n - m
    BY <1>1
  <2>2. HasAt(L(k), 0, L(m))
    BY <1>6
  <2> HIDE DEF k
  <2>3. HasAt(L(k + 1), 0, L(k))
    <3>1. Scan(t)[k] \in ScanType /\ L(k) \in Seq(Log) /\ L(k + 1) \in Seq(Log) /\ Len(L(k)) \in Nat
      BY <1>3, <1>4, <2>1
    <3>2. CASE t[k + 1] = "nl"
      <4> DEFINE e == consumeLog(Scan(t)[k].p, t).current
      <4>1. Scan(t)[k + 1] = [p |-> EndOfLine(k), logs |-> Append(L(k), e)]
        BY <1>2, <2>1, <3>1, <3>2, ScanStep
      <4>2. L(k + 1) = Append(L(k), e)
        BY <4>1
      <4> HIDE DEF e, L
      <4> QED BY <3>1, <4>2 DEF HasAt
    <3>3. CASE t[k + 1] # "nl"
      <4>1. L(k + 1) = L(k)
        BY <1>2, <2>1, <3>1, <3>3, ScanStep
      <4> HIDE DEF L
      <4> QED BY <3>1, <4>1 DEF HasAt
    <3> QED BY <3>2, <3>3
  <2>4. HasAt(L(k + 1), 0 + 0, L(m))
    <3>1. 0 \in Nat /\ Len(L(k + 1)) \in Nat /\ Len(L(k)) \in Nat /\ Len(L(m)) \in Nat
      BY <1>1, <1>4, <2>1
    <3> HIDE DEF L
    <3> QED BY <2>2, <2>3, <3>1, HasIn
  <2> HIDE DEF L
  <2> QED BY <2>1, <2>4
<1>7. \A d \in 0 .. n - m : d \in U
  <2> HIDE DEF U, n
  <2> QED BY <1>1, <1>5, <1>6, UpTo
<1>8. n - m \in 0 .. n - m /\ m + (n - m) = n
  BY <1>1
<1>9. HasAt(L(m + (n - m)), 0, L(m))
  BY <1>7, <1>8
<1> QED BY <1>1, <1>4, <1>8, <1>9

\* So every log that the parser has emitted is one of those of a whole scan.
LEMMA LogsOfScan ==
    ASSUME Inv, Tracks, Plain(input.text)
    PROVE  HasAt(Scan(input.text)[Len(input.text)].logs, 0, logs)
<1> DEFINE t == input.text
<1>1. t \in Text /\ Len(t) \in Nat /\ fed \in 0 .. Len(t)
  BY InputsAssumption DEF Inv, TypeOK, Text
<1>2. Located /\ i \in Nat /\ i <= Len(raw) /\ raw \in Text /\ Len(raw) \in Nat
  BY DEF Tracks, Inv, TypeOK, SlicesInBounds, Text
<1>3. \E m \in 0 .. Len(t) : logs = Scan(t)[m].logs
  <2> HIDE DEF t
  <2>1. CASE i > 0
    <3>1. Base + i \in 0 .. Len(t)
      BY <1>1, <1>2 DEF Located, Base
    <3>2. logs = Scan(t)[Base + i].logs
      BY <1>2, <2>1 DEF Located, t
    <3> QED BY <3>1, <3>2
  <2>2. CASE i = 0
    <3>1. PICK m \in Base .. fed : logs = Scan(t)[m].logs
      BY <1>2, <2>2 DEF Located, t
    <3>2. m \in 0 .. Len(t)
      BY <1>1, <1>2, <3>1 DEF Located
    <3> QED BY <3>1, <3>2
  <2> QED BY <1>2, <2>1, <2>2
<1> QED BY <1>1, <1>3, ScanKeepsLogs

\* If every input is written in the format, then a log that the parser emits and a
\* script writes with log_string is parsed with the same header and the same
\* properties, its message now one of them and keys and values with their escapes
\* (logging.go:186-280).
THEOREM StringSafe ==
    ASSUME \A x \in Inputs : Written(x)
    PROVE  Spec => []StringReadBack
<1>1. ASSUME Inv, Tracks
      PROVE  StringReadBack
  <2> DEFINE t == input.text
             S == input.logs
  <2>1. input \in Inputs /\ t \in Text /\ S \in Seq(Log) /\ Written(input) /\ logs \in Seq(Log)
    BY <1>1, InputsAssumption DEF Inv, TypeOK
  <2>2. Plain(t) /\ Scan(t)[Len(t)].logs = S
    BY <2>1, WrittenParsed
  <2>3. HasAt(S, 0, logs)
    BY <1>1, <2>2, LogsOfScan
  <2>4. ASSUME NEW n \in DOMAIN logs, Writable(logs[n])
        PROVE  Reparsed(logs[n]) = <<Bare(logs[n], Escapes(All(logs[n])))>> /\ logs[n] \in Log
    <3> DEFINE l == logs[n]
    <3>1. n \in 1 .. Len(logs) /\ n \in 1 .. Len(S) /\ l = S[n]
      <4>1. n \in 1 .. Len(logs) /\ Len(logs) \in Nat /\ Len(S) \in Nat
        BY <2>1
      <4>2. 0 + Len(logs) <= Len(S) /\ \A j \in 1 .. Len(logs) : S[0 + j] = logs[j]
        BY <2>3 DEF HasAt
      <4> HIDE DEF S
      <4>3. S[0 + n] = logs[n] /\ 0 + n = n
        BY <4>1, <4>2
      <4> QED BY <4>1, <4>2, <4>3
    <3>2. l \in Log
      BY <2>1, <3>1, ElementOfSeq
    <3>3. PICK o : \A j \in 1 .. Len(S) : Line(t, o[j], o[j + 1], S[j])
      BY <2>1 DEF Written
    <3>4. PICK a, b : Header(t, o[n], a, l) /\ Body(t, a, b, l)
      BY <3>1, <3>3 DEF Line
    <3> HIDE DEF l
    <3>5. Writable(l)
      BY <2>4 DEF l
    <3>6. SoundHeader(l) /\ SoundProps(All(l)) /\ All(l) \in Seq(Property)
      BY <3>2, <3>4, <3>5, HeaderSound, BodySound
    <3>7. Reparsed(l) = <<Bare(l, Escapes(All(l)))>>
      BY <3>2, <3>6, Rewritten
    <3> QED BY <3>2, <3>7 DEF l
  <2>5. ASSUME NEW l \in Log, Reparsed(l) = <<Bare(l, Escapes(All(l)))>>
        PROVE  Reparsed(l) = <<[l EXCEPT !.message = NoText, !.props = Escapes(All(l))]>>
    BY <2>5, Promised
  <2> QED BY <2>4, <2>5 DEF StringReadBack, Escapes
<1>2. Spec => []Tracks
  BY InitTracks, NextTracks, Invariance, PTL DEF Spec
<1> QED BY <1>1, <1>2, Invariance, PTL
=============================================================================
