------------------------------ MODULE LogFormat ------------------------------
(***************************************************************************)
(* The format of the logs that README.md and parse_test.go describe: a     *)
(* header, and then a message, a call type or properties.  A definition    *)
(* says what the part of a text t between two offsets stands for, without  *)
(* regard to how it is parsed.                                             *)
(***************************************************************************)
EXTENDS Parser

Runes       == Bytes \ {"wide", "wide2"}       \* of one byte
Blanks      == {"tab", "sp"}
DateBytes   == {"digit", ":", ","}
DateEnds    == Runes \ (DateBytes \cup {"nl", "["})
WordBytes   == Runes \ {"nl", "tab", "sp", "[", "]"}
WordEnds    == Blanks \cup {"]"}
ThreadBytes == Runes \ {"nl", "tab", "]"}
BodyBytes   == Runes \ {"nl", "tab"}
NameBytes   == BodyBytes \ {"sp", ":", ","}
Comma       == ","
Separator   == <<Comma, "sp">>

Made(w, B) == \A j \in 1 .. Len(w) : w[j] \in B

\* The text w, and a byte of B.
HasAt(t, k, w)  == k + Len(w) <= Len(t) /\ \A j \in 1 .. Len(w) : t[k + j] = w[j]
ByteAt(t, k, B) == k < Len(t) /\ t[k + 1] \in B

\* From a to b: blanks; w and a byte of B; a bracket or none; w, a colon and a space.
Gap(t, a, b)      == b <= Len(t) /\ \A j \in a + 1 .. b : t[j] \in Blanks
Ended(t, a, b, w, B) == HasAt(t, a, w) /\ b = a + Len(w) + 1 /\ ByteAt(t, b - 1, B)
Bracket(t, a, b)  == b = a \/ (b = a + 1 /\ ByteAt(t, a, {"["}))
Named(t, a, b, w) == HasAt(t, a, w) /\ b = a + Len(w) + 2 /\ HasAt(t, b - 2, <<":", "sp">>)
-----------------------------------------------------------------------------
(* Header: date and time, level, thread and class *)

Dated(t, a, b, l) ==
    /\ Made(l.date, DateBytes) /\ Made(l.time, DateBytes)
    /\ \E d, m \in a .. b : /\ Bracket(t, a, d)
                            /\ Ended(t, d, m, l.date, DateEnds)
                            /\ Ended(t, m, b, l.time, DateEnds)

\* A word, perhaps after a bracket; the closing one then ends it.
Worded(t, a, b, w) ==
    /\ w # NoText /\ Made(w, WordBytes)
    /\ \E g, v \in a .. b : Gap(t, a, g) /\ Bracket(t, g, v) /\ Ended(t, v, b, w, WordEnds)

\* A thread in brackets may have blanks.
Threaded(t, a, b, w) ==
    /\ w # NoText
    /\ \E g \in a .. b :
          /\ Gap(t, a, g)
          /\ \/ Made(w, WordBytes) /\ Ended(t, g, b, w, WordEnds)
             \/ /\ Made(w, ThreadBytes)
                /\ ByteAt(t, g, {"["}) /\ Ended(t, g + 1, b, w, {"tab", "]"})

Header(t, a, b, l) ==
    \E c \in a .. b : /\ Dated(t, a, c, l)
    /\ \E d \in c .. b : /\ Worded(t, c, d, l.level)
       /\ \E e \in d .. b : /\ Threaded(t, d, e, l.thread)
          /\ \E f \in e .. b : Worded(t, e, f, l.class) /\ Gap(t, f, b)
-----------------------------------------------------------------------------
(* Body: a message, or a call type or a property and what follows *)

IsName(w)  == w # NoText /\ Made(w, NameBytes)
IsTitle(w) == w # NoText /\ w[1] # "sp" /\ Made(w, BodyBytes \ {":", ","})
\* A colon in a value is not followed by a space, which would make it a key.
IsValue(w) ==
    /\ Made(w, BodyBytes \ {","})
    /\ w # NoText => w[1] # "sp"
    /\ \A j \in 1 .. Len(w) : w[j] = ":" => j > 1 /\ j < Len(w) /\ w[j + 1] \notin {":", "sp"}

\* key: value, perhaps with another key before, which does not count.
Pair(t, a, b, q) ==
    /\ IsName(q.key) /\ IsValue(q.value)
    /\ \E c \in a .. b :
          /\ c = a \/ (c > a + 2 /\ LET w == SubSeq(t, a + 1, c - 2) IN IsName(w) /\ Named(t, a, c, w))
          /\ \E v \in c .. b : Named(t, c, v, q.key) /\ HasAt(t, v, q.value) /\ b = v + Len(q.value)

\* The properties from the second one on; property j begins at offset o[j].
Pairs(t, a, b, props) ==
    LET n == Len(props)
        Commas == {k \in a .. b + 2 : k = a \/ k = b + 2 \/ HasAt(t, k - 2, Separator)}
    IN  n > 1 /\ \E o \in [2 .. n + 1 -> Commas] :
           /\ o[2] = a /\ o[n + 1] = b + 2
           /\ \A j \in 2 .. n : /\ Pair(t, o[j], o[j + 1] - 2, props[j])
                                /\ j < n => HasAt(t, o[j + 1] - 2, Separator)

Message(t, a, b, l) ==
    /\ l.props = <<>>
    /\ Made(l.message, BodyBytes \ {":"})
    /\ l.message # NoText => l.message[1] # "sp"
    /\ HasAt(t, a, l.message) /\ b = a + Len(l.message)

\* callType: word
CallTypeMessage(t, a, b, l) ==
    /\ Len(l.props) = 1 /\ l.props[1].key = KeyCallType /\ IsTitle(l.props[1].value) /\ IsName(l.message)
    /\ \E c \in a .. b : /\ Named(t, a, c, l.props[1].value)
                         /\ HasAt(t, c, l.message) /\ b = c + Len(l.message)

\* callType: key: value, key: value
CallTypePairs(t, a, b, l) ==
    /\ l.message = NoText /\ l.props # <<>>
    /\ l.props[1].key = KeyCallType /\ IsTitle(l.props[1].value)
    /\ \E c \in a .. b : Named(t, a, c, l.props[1].value) /\ Pairs(t, c, b, l.props)

\* key: word, key: value, key: value
PairsAlone(t, a, b, l) ==
    /\ l.message = NoText /\ l.props # <<>>
    /\ IsTitle(l.props[1].key) /\ Made(l.props[1].value, NameBytes)
    /\ \E c, d \in a .. b : /\ Named(t, a, c, l.props[1].key)
                            /\ HasAt(t, c, l.props[1].value) /\ d = c + Len(l.props[1].value) + 2
                            /\ HasAt(t, d - 2, Separator)
                            /\ Pairs(t, d, b, l.props)

Body(t, a, b, l) ==
    Message(t, a, b, l) \/ CallTypeMessage(t, a, b, l) \/ CallTypePairs(t, a, b, l) \/ PairsAlone(t, a, b, l)
-----------------------------------------------------------------------------
Line(t, a, b, l) ==
    a < b /\ ByteAt(t, b - 1, {"nl"}) /\ \E c \in a .. b - 1 : Header(t, a, c, l) /\ Body(t, c, b - 1, l)

\* Text x.text is that of the logs x.logs, line n of which begins at offset o[n].
Written(x) ==
    LET n == Len(x.logs)
    IN  /\ Made(x.text, Runes)
        /\ \E o \in [1 .. n + 1 -> {k \in 0 .. Len(x.text) : k = 0 \/ x.text[k] = "nl"}] :
              /\ o[1] = 0 /\ o[n + 1] = Len(x.text)
              /\ \A j \in 1 .. n : Line(x.text, o[j], o[j + 1], x.logs[j])
=============================================================================
