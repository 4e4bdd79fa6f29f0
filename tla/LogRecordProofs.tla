--------------------------- MODULE LogRecordProofs ---------------------------
(***************************************************************************)
(* Proofs about LogRecord, for a log that the parser hands over without    *)
(* two properties of one key.                                              *)
(***************************************************************************)
EXTENDS LogRecord, SequenceTheorems, TLAPS

\* Inductive invariant: with distinct keys, the loops of Set, Remove and Get stop
\* at the only property of the key they look for.
Inv == TypeOK /\ KeysStayDistinct

Answers == [flag : BOOLEAN, text : Seq(STRING)]

\* What the operations of the Log have to see to; the builtins set call themselves.
Kept == log \in Log /\ answer \in Answers /\ KeysStayDistinct

\* The property that the loops of Set, Remove and Get find.
LEMMA FirstFound ==
  ASSUME NEW l \in Log, Distinct(l), NEW k, Found(l, k)
  PROVE  /\ First(l, k) \in DOMAIN l.props
         /\ l.props[First(l, k)].key = k
         /\ \A j \in DOMAIN l.props : l.props[j].key = k => j = First(l, k)
<1>1. DOMAIN l.props \subseteq Int
  BY DEF Log
<1>2. PICK j : j \in At(l, k)
  BY DEF Found
<1>3. \A m \in At(l, k) : m = j
  BY <1>2 DEF At, Distinct
<1>4. \A m \in At(l, k) : j <= m
  BY <1>1, <1>2, <1>3 DEF At
<1>5. First(l, k) \in At(l, k)
  BY <1>2, <1>4, Zenon DEF First
<1> QED
  BY <1>3, <1>5 DEF At

\* The answers of the builtins have their type.
LEMMA AnswerType ==
  /\ \A b \in BOOLEAN : Flag(b) \in Answers
  /\ Panic \in Answers
  /\ \A v \in Seq(STRING) : Text(v) \in Answers
<1>1. Blank \in Seq(STRING)
  BY LogAssumption
<1> QED
  BY <1>1 DEF Flag, Text, Panic, Answers

\* The empty log has distinct keys.
LEMMA NewLogDistinct == NewLog \in Log /\ Distinct(NewLog)
BY LogAssumption DEF NewLog, Log, Distinct

\* SetField changes no property.
LEMMA SetFieldInv == ASSUME Inv, NEW f \in Fields, NEW v \in Values, SetField(f, v) PROVE Kept'
<1>1. log' \in Log /\ log'.props = log.props
  BY DEF Inv, TypeOK, SetField, Log
<1>2. answer' \in Answers
  BY AnswerType DEF SetField
<1> QED
  BY <1>1, <1>2 DEF Inv, Kept, KeysStayDistinct, Distinct

\* SetTimestamp changes no property.
LEMMA SetTimestampInv == ASSUME Inv, NEW v \in Values, SetTimestamp(v) PROVE Kept'
<1>1. <<v[1]>> \in Values
  BY LogAssumption
<1>2. v # Blank => <<v[2]>> \in Values
  BY LogAssumption DEF SetTimestamp
<1>3. log' \in Log /\ log'.props = log.props
  BY <1>1, <1>2, LogAssumption DEF Inv, TypeOK, SetTimestamp, Log, Fields
<1>4. answer' \in Answers
  BY AnswerType DEF SetTimestamp, HasTimestamp
<1> QED
  BY <1>3, <1>4 DEF Inv, Kept, KeysStayDistinct, Distinct

\* SetProp overwrites the value it finds, or appends a property.
LEMMA SetPropShape ==
  ASSUME Inv, NEW k \in PropKeys, NEW v \in Values, SetProp(k, v)
  PROVE  /\ log'.field = log.field
         /\ log'.props \in Seq(Property)
         /\ Found(log, k) =>
               /\ DOMAIN log'.props = DOMAIN log.props
               /\ \A m \in DOMAIN log.props :
                     /\ log'.props[m].key = log.props[m].key
                     /\ log'.props[m].value = IF log.props[m].key = k THEN v ELSE log.props[m].value
         /\ ~Found(log, k) =>
               \E n : /\ n \notin DOMAIN log.props
                      /\ \A m \in DOMAIN log.props : m < n
                      /\ DOMAIN log'.props = DOMAIN log.props \cup {n}
                      /\ \A m \in DOMAIN log.props : log'.props[m] = log.props[m]
                      /\ log'.props[n] = [key |-> k, value |-> v]
<1>1. log \in Log /\ Distinct(log)
  BY DEF Inv, TypeOK, KeysStayDistinct
<1>2. log.props \in Seq(Property)
  BY <1>1 DEF Log
<1>3. log'.field = log.field
  BY <1>1 DEF SetProp, Log
<1>4. CASE Found(log, k)
  <2> DEFINE j == First(log, k)
             r == [log.props[j] EXCEPT !.value = v]
             s == [log.props EXCEPT ![j] = r]
  <2>1. /\ j \in DOMAIN log.props
        /\ \A m \in DOMAIN log.props : log.props[m].key = k <=> m = j
    BY <1>1, <1>4, FirstFound
  <2>2. log'.props = s
    BY <1>1, <1>4 DEF SetProp, Log
  <2> HIDE DEF j
  <2>3. r \in Property /\ r.key = log.props[j].key /\ r.value = v
    <3>1. log.props[j] \in Property
      BY <1>2, <2>1
    <3> QED
      BY <3>1 DEF Property
  <2> HIDE DEF r
  <2>4. /\ s \in Seq(Property)
        /\ DOMAIN s = DOMAIN log.props
        /\ \A m \in DOMAIN log.props : s[m] = IF m = j THEN r ELSE log.props[m]
    BY <1>2, <2>1, <2>3, ExceptSeq
  <2> QED
    BY <1>3, <1>4, <2>1, <2>2, <2>3, <2>4
<1>5. CASE ~Found(log, k)
  <2> DEFINE r == [key |-> k, value |-> v]
             n == Len(log.props) + 1
  <2>1. r \in Property
    BY DEF Property
  <2>2. log'.props = Append(log.props, r)
    BY <1>1, <1>5 DEF SetProp, Log
  <2> HIDE DEF r
  <2>3. /\ log'.props \in Seq(Property)
        /\ DOMAIN log'.props = 1 .. n
        /\ \A m \in DOMAIN log.props : log'.props[m] = log.props[m]
        /\ log'.props[n] = r
    BY <1>2, <2>1, <2>2, AppendProperties
  <2>4. Len(log.props) \in Nat /\ DOMAIN log.props = 1 .. Len(log.props)
    BY <1>2
  <2>5. /\ n \notin DOMAIN log.props
        /\ \A m \in DOMAIN log.props : m < n
        /\ 1 .. n = DOMAIN log.props \cup {n}
    BY <2>4
  <2> HIDE DEF n
  <2> QED
    BY <1>3, <1>5, <2>3, <2>5 DEF r
<1> QED
  BY <1>4, <1>5

\* The keys stay distinct: only a key that was not found is appended.
LEMMA SetPropInv == ASSUME Inv, NEW k \in PropKeys, NEW v \in Values, SetProp(k, v) PROVE Kept'
<1>1. answer' \in Answers
  BY AnswerType DEF SetProp, Found
<1>2. log \in Log /\ Distinct(log)
  BY DEF Inv, TypeOK, KeysStayDistinct
<1>3. log'.props \in Seq(Property)
  BY SetPropShape
<1>4. log' \in Log
  BY <1>2, <1>3 DEF SetProp, Log
<1>5. Distinct(log')
  <2>1. CASE Found(log, k)
    BY <1>2, <2>1, SetPropShape DEF Distinct
  <2>2. CASE ~Found(log, k)
    <3>1. \A m \in DOMAIN log.props : log.props[m].key # k
      BY <2>2 DEF Found, At
    <3>2. PICK n : /\ DOMAIN log'.props = DOMAIN log.props \cup {n}
                   /\ \A m \in DOMAIN log.props : log'.props[m] = log.props[m]
                   /\ log'.props[n] = [key |-> k, value |-> v]
      BY <2>2, SetPropShape, Zenon
    <3>3. ASSUME NEW a \in DOMAIN log'.props, NEW b \in DOMAIN log'.props,
                 log'.props[a].key = log'.props[b].key
          PROVE  a = b
      BY <1>2, <3>1, <3>2, <3>3 DEF Distinct
    <3> QED
      BY <3>3 DEF Distinct
  <2> QED
    BY <2>1, <2>2
<1> QED
  BY <1>1, <1>4, <1>5 DEF Kept, KeysStayDistinct

\* What Remove leaves of a sequence.
LEMMA WithoutFacts ==
  ASSUME NEW S, NEW s \in Seq(S), NEW j \in DOMAIN s
  PROVE  /\ Without(s, j) \in Seq(S)
         /\ DOMAIN Without(s, j) = 1 .. Len(s) - 1
         /\ \A m \in 1 .. Len(s) - 1 :
               Without(s, j)[m] = s[IF m < j THEN m ELSE m + 1]
<1>1. Len(s) - 1 \in Nat
  BY LenProperties
<1>2. \A m \in 1 .. Len(s) - 1 : Without(s, j)[m] \in S
  BY DEF Without
<1>3. Without(s, j) \in Seq(S)
  BY <1>1, <1>2, IsASeq DEF Without
<1> QED
  BY <1>3 DEF Without

\* RemoveProp removes the property it finds and shifts those behind it; index x[m]
\* is where property m of the new sequence was.
LEMMA RemovePropShape ==
  ASSUME Inv, NEW k \in PropKeys, RemoveProp(k), Found(log, k)
  PROVE  /\ log' \in Log
         /\ log'.field = log.field
         /\ \E x : /\ \A m \in DOMAIN log'.props :
                        /\ x[m] \in DOMAIN log.props
                        /\ log.props[x[m]].key # k
                        /\ log'.props[m] = log.props[x[m]]
                   /\ \A m, n \in DOMAIN log'.props : (m < n <=> x[m] < x[n]) /\ (x[m] = x[n] => m = n)
                   /\ \A m \in DOMAIN log.props :
                        log.props[m].key # k => \E n \in DOMAIN log'.props : x[n] = m
<1> DEFINE j == First(log, k)
           s == log.props
           len == Len(s)
           w == Without(s, j)
           x == [m \in 1 .. len - 1 |-> IF m < j THEN m ELSE m + 1]
<1>1. log \in Log /\ Distinct(log)
  BY DEF Inv, TypeOK, KeysStayDistinct
<1>2. s \in Seq(Property)
  BY <1>1 DEF Log
<1>3. /\ j \in DOMAIN s
      /\ \A m \in DOMAIN s : s[m].key = k <=> m = j
  BY <1>1, FirstFound
<1>4. log' = [log EXCEPT !.props = w]
  BY DEF RemoveProp
<1> HIDE DEF j
<1>5. /\ w \in Seq(Property)
      /\ DOMAIN w = 1 .. len - 1
      /\ \A m \in 1 .. len - 1 : w[m] = s[IF m < j THEN m ELSE m + 1]
  BY <1>2, <1>3, WithoutFacts
<1> HIDE DEF w
<1>6. log' \in Log /\ log'.field = log.field /\ log'.props = w
  BY <1>1, <1>4, <1>5 DEF Log
<1>7. len \in Nat /\ DOMAIN s = 1 .. len /\ j \in 1 .. len
  BY <1>2, <1>3
<1> HIDE DEF s, len
<1>8. \A m \in 1 .. len - 1 : x[m] \in 1 .. len /\ x[m] # j /\ w[m] = s[x[m]]
  BY <1>5, <1>7
<1>9. \A m, n \in 1 .. len - 1 : (m < n <=> x[m] < x[n]) /\ (x[m] = x[n] => m = n)
  BY <1>7
<1>10. \A m \in 1 .. len : m # j => \E n \in 1 .. len - 1 : x[n] = m
  <2> SUFFICES ASSUME NEW m \in 1 .. len, m # j PROVE \E n \in 1 .. len - 1 : x[n] = m
    OBVIOUS
  <2>1. CASE m < j
    <3>1. m \in 1 .. len - 1 /\ x[m] = m
      BY <1>7, <2>1
    <3> QED
      BY <3>1
  <2>2. CASE m > j
    <3>1. m - 1 \in 1 .. len - 1 /\ x[m - 1] = m
      BY <1>7, <2>2
    <3> QED
      BY <3>1
  <2> QED
    BY <1>7, <2>1, <2>2
<1> HIDE DEF x
<1>11. \A m \in DOMAIN w : x[m] \in DOMAIN s /\ s[x[m]].key # k /\ w[m] = s[x[m]]
  BY <1>3, <1>5, <1>7, <1>8
<1>12. \A m, n \in DOMAIN w : (m < n <=> x[m] < x[n]) /\ (x[m] = x[n] => m = n)
  BY <1>5, <1>9
<1>13. \A m \in DOMAIN s : s[m].key # k => \E n \in DOMAIN w : x[n] = m
  BY <1>3, <1>5, <1>7, <1>10
<1>14. log'.props = w /\ log.props = s
  BY <1>6 DEF s
<1> QED
  BY <1>6, <1>11, <1>12, <1>13, <1>14

\* The keys stay distinct: the others are those of distinct properties.
LEMMA RemovePropInv == ASSUME Inv, NEW k \in PropKeys, RemoveProp(k) PROVE Kept'
<1>1. answer' \in Answers
  BY AnswerType DEF RemoveProp, Found
<1>2. log \in Log /\ Distinct(log)
  BY DEF Inv, TypeOK, KeysStayDistinct
<1>3. CASE Found(log, k)
  <2>1. PICK x : /\ \A m \in DOMAIN log'.props :
                       x[m] \in DOMAIN log.props /\ log'.props[m] = log.props[x[m]]
                 /\ \A m, n \in DOMAIN log'.props : x[m] = x[n] => m = n
    BY <1>3, RemovePropShape
  <2>2. Distinct(log')
    BY <1>2, <2>1 DEF Distinct
  <2> QED
    BY <1>1, <1>3, <2>2, RemovePropShape DEF Kept, KeysStayDistinct
<1>4. CASE ~Found(log, k)
  BY <1>1, <1>2, <1>4 DEF RemoveProp, Kept, KeysStayDistinct
<1> QED
  BY <1>3, <1>4

\* What Get finds is a string.
LEMMA LookupType ==
  ASSUME NEW l \in Log, Distinct(l), NEW k \in Keys \cup {"timestamp"}
  PROVE  Lookup(l, k) \in [ok : BOOLEAN, value : Seq(STRING)]
<1>1. \A f \in Fields : l.field[f] \in Seq(STRING)
  BY LogAssumption DEF Log
<1>2. Timestamp(l) \in Seq(STRING)
  <2>1. l.field["date"] \in Seq(STRING) /\ l.field["time"] \in Seq(STRING)
    BY <1>1 DEF Fields
  <2> QED
    BY <2>1 DEF Timestamp
<1>3. ASSUME Found(l, k) PROVE l.props[First(l, k)].value \in Seq(STRING)
  <2>1. First(l, k) \in DOMAIN l.props
    BY <1>3, FirstFound
  <2>2. l.props \in Seq(Property)
    BY DEF Log
  <2>3. l.props[First(l, k)] \in Property
    BY <2>1, <2>2
  <2> QED
    BY <2>3, LogAssumption DEF Property
<1>4. Blank \in Seq(STRING)
  BY LogAssumption
<1> QED
  BY <1>1, <1>2, <1>3, <1>4 DEF Lookup

\* The builtin calls an operation of the Log for its key.
LEMMA Builtins ==
  ASSUME Next
  PROVE  \/ \E k \in Fields, v \in Values :
               /\ SetField(k, v)
               /\ \/ call' = Called("set", k, v)
                  \/ call' = Called("remove", k, Blank) /\ v = Blank
         \/ \E k \in PropKeys, v \in Values : SetProp(k, v) /\ call' = Called("set", k, v)
         \/ \E k \in PropKeys : RemoveProp(k) /\ call' = Called("remove", k, Blank)
         \/ \E v \in Values :
               /\ SetTimestamp(v)
               /\ \/ call' = Called("set", "timestamp", v)
                  \/ call' = Called("remove", "timestamp", Blank) /\ v = Blank
         \/ \E v \in Values : SetTimestampPanics(v) /\ call' = Called("set", "timestamp", v)
         \/ Reset /\ call' = Called("reset", "", Blank)
         \/ \E k \in Keys \cup {"timestamp"} : luaGetLogProperty(k)
<1>1. Touched \subseteq Fields /\ Blank \in Values
  BY LogAssumption
<1>2. CASE \E k \in Named, v \in Values : luaSetLogProperty(k, v)
  BY <1>1, <1>2 DEF luaSetLogProperty
<1>3. CASE \E k \in Named : luaRemoveLogProperty(k)
  BY <1>1, <1>3 DEF luaRemoveLogProperty
<1>4. CASE \E k \in Named : luaGetLogProperty(k)
  BY <1>1, <1>4 DEF Named, Keys
<1>5. CASE luaResetLog
  BY <1>5 DEF luaResetLog
<1> QED
  BY <1>2, <1>3, <1>4, <1>5 DEF Next

\* Every builtin preserves the invariant.
LEMMA NextInv == ASSUME Inv, [Next]_vars PROVE Inv'
<1>0. log \in Log /\ Distinct(log) /\ Blank \in Values
  BY LogAssumption DEF Inv, TypeOK, KeysStayDistinct
<1>1. CASE Next
  <2>1. Kept'
    <3>1. ASSUME NEW v \in Values, SetTimestampPanics(v) PROVE Kept'
      BY <1>0, <3>1, AnswerType DEF SetTimestampPanics, Kept, KeysStayDistinct
    <3>2. CASE Reset
      BY <3>2, NewLogDistinct, AnswerType DEF Reset, Kept, KeysStayDistinct
    <3>3. ASSUME NEW k \in Keys \cup {"timestamp"}, luaGetLogProperty(k) PROVE Kept'
      <4>1. Blank \in Seq(STRING)
        BY LogAssumption
      <4>2. (IF Lookup(log, k).ok THEN Lookup(log, k).value ELSE Blank) \in Seq(STRING)
        BY <1>0, <4>1, LookupType
      <4> QED
        BY <1>0, <3>3, <4>2, AnswerType DEF luaGetLogProperty, Kept, KeysStayDistinct
    <3> QED
      BY <1>1, <3>1, <3>2, <3>3, Builtins, SetFieldInv, SetPropInv, RemovePropInv, SetTimestampInv
  <2>2. call' \in [op : {"none", "set", "remove", "reset", "get"},
                   key : Keys \cup {"timestamp", ""}, value : Values]
    <3>2. \E o \in {"set", "remove", "reset", "get"}, k \in Keys \cup {"timestamp", ""}, v \in Values :
             call' = Called(o, k, v)
      <4>1. Fields \subseteq Keys /\ PropKeys \subseteq Keys
        BY DEF Keys
      <4> QED
        BY <1>0, <1>1, <4>1, Builtins, Zenon DEF luaGetLogProperty
    <3>3. PICK o \in {"set", "remove", "reset", "get"}, k \in Keys \cup {"timestamp", ""}, v \in Values :
             call' = Called(o, k, v)
      BY <3>2
    <3>4. Called(o, k, v) \in [op : {"none", "set", "remove", "reset", "get"},
                              key : Keys \cup {"timestamp", ""}, value : Values]
      BY DEF Called
    <3> QED
      BY <3>3, <3>4
  <2> QED
    BY <2>1, <2>2 DEF Inv, Kept, TypeOK, Answers
<1>2. CASE UNCHANGED vars
  BY <1>2 DEF vars, Inv, TypeOK, KeysStayDistinct
<1> QED
  BY <1>1, <1>2

\* A parsed log with distinct keys satisfies the invariant.
LEMMA InitInv == ASSUME \A l \in Logs : Distinct(l), Init PROVE Inv
BY NewLogDistinct, AnswerType, LogAssumption DEF Init, Inv, TypeOK, KeysStayDistinct, Called, Answers

\* The inductive invariant holds in every state.
THEOREM Invariance == ASSUME \A l \in Logs : Distinct(l) PROVE Spec => []Inv
<1>1. Init => Inv
  BY InitInv
<1>2. Inv /\ [Next]_vars => Inv'
  BY NextInv
<1> QED
  BY <1>1, <1>2, PTL DEF Spec

\* The Log keeps its type, whatever builtins a script calls.
THEOREM TypeCorrect == ASSUME \A l \in Logs : Distinct(l) PROVE Spec => []TypeOK
<1>1. Inv => TypeOK
  BY DEF Inv
<1> QED
  BY <1>1, Invariance, PTL

\* No sequence of builtins makes two properties of one key.
THEOREM Distinctness == ASSUME \A l \in Logs : Distinct(l) PROVE Spec => []KeysStayDistinct
<1>1. Inv => KeysStayDistinct
  BY DEF Inv
<1> QED
  BY <1>1, Invariance, PTL
-----------------------------------------------------------------------------
(* Order of the properties *)

\* The action of KeepsOrder.
OrderKept ==
    \A i, j \in DOMAIN log'.props :
       i < j => \A m, n \in DOMAIN log.props :
                   log.props[m].key = log'.props[i].key /\ log.props[n].key = log'.props[j].key
                   => m < n

\* Where the keys stay in place, so does their order.
LEMMA SameKeys ==
  ASSUME Distinct(log), DOMAIN log'.props = DOMAIN log.props,
         \A m \in DOMAIN log.props : log'.props[m].key = log.props[m].key
  PROVE  OrderKept
<1>1. ASSUME NEW i \in DOMAIN log.props, NEW j \in DOMAIN log.props, i < j,
             NEW m \in DOMAIN log.props, NEW n \in DOMAIN log.props,
             log.props[m].key = log'.props[i].key, log.props[n].key = log'.props[j].key
      PROVE  m < n
  <2>1. m = i /\ n = j
    BY <1>1 DEF Distinct
  <2> QED
    BY <1>1, <2>1
<1> QED
  BY <1>1 DEF OrderKept

\* A key that was not found is appended behind all others.
LEMMA SetPropOrder == ASSUME Inv, NEW k \in PropKeys, NEW v \in Values, SetProp(k, v) PROVE OrderKept
<1>1. Distinct(log) /\ log \in Log
  BY DEF Inv, KeysStayDistinct, TypeOK
<1>2. CASE Found(log, k)
  BY <1>1, <1>2, SetPropShape, SameKeys
<1>3. CASE ~Found(log, k)
  <2>1. PICK z : /\ \A m \in DOMAIN log.props : m < z
                 /\ DOMAIN log'.props = DOMAIN log.props \cup {z}
                 /\ \A m \in DOMAIN log.props : log'.props[m] = log.props[m]
                 /\ log'.props[z] = [key |-> k, value |-> v]
    BY <1>3, SetPropShape, Zenon
  <2>2. \A m \in DOMAIN log.props : log.props[m].key # k
    BY <1>3 DEF Found, At
  <2>3. ASSUME NEW i \in DOMAIN log'.props, NEW j \in DOMAIN log'.props, i < j,
               NEW m \in DOMAIN log.props, NEW n \in DOMAIN log.props,
               log.props[m].key = log'.props[i].key, log.props[n].key = log'.props[j].key
        PROVE  m < n
    <3>1. i # z /\ j # z
      BY <2>1, <2>2, <2>3
    <3>2. i \in DOMAIN log.props /\ j \in DOMAIN log.props
      BY <2>1, <3>1
    <3>3. m = i /\ n = j
      BY <1>1, <2>1, <2>3, <3>2 DEF Distinct
    <3> QED
      BY <2>3, <3>3
  <2> QED
    BY <2>3 DEF OrderKept
<1> QED
  BY <1>2, <1>3

\* What is left was in the same order.
LEMMA RemovePropOrder == ASSUME Inv, NEW k \in PropKeys, RemoveProp(k) PROVE OrderKept
<1>1. Distinct(log)
  BY DEF Inv, KeysStayDistinct
<1>2. CASE Found(log, k)
  <2>1. PICK x : /\ \A m \in DOMAIN log'.props :
                       x[m] \in DOMAIN log.props /\ log'.props[m] = log.props[x[m]]
                 /\ \A m, n \in DOMAIN log'.props : m < n <=> x[m] < x[n]
    BY <1>2, RemovePropShape
  <2>2. ASSUME NEW i \in DOMAIN log'.props, NEW j \in DOMAIN log'.props, i < j,
               NEW m \in DOMAIN log.props, NEW n \in DOMAIN log.props,
               log.props[m].key = log'.props[i].key, log.props[n].key = log'.props[j].key
        PROVE  m < n
    <3>1. m = x[i] /\ n = x[j]
      BY <1>1, <2>1, <2>2 DEF Distinct
    <3> QED
      BY <2>1, <2>2, <3>1
  <2> QED
    BY <2>2 DEF OrderKept
<1>3. CASE ~Found(log, k)
  BY <1>1, <1>3, SameKeys DEF RemoveProp
<1> QED
  BY <1>2, <1>3

\* Every builtin keeps the order.
LEMMA NextOrder == ASSUME Inv, [Next]_vars PROVE [OrderKept]_vars
<1>1. Distinct(log) /\ log \in Log
  BY DEF Inv, KeysStayDistinct, TypeOK
<1>2. ASSUME log'.props = log.props PROVE OrderKept
  BY <1>1, <1>2, SameKeys
<1>3. ASSUME NEW f \in Fields, NEW v \in Values, SetField(f, v) PROVE OrderKept
  BY <1>1, <1>2, <1>3 DEF SetField, Log
<1>4. ASSUME NEW v \in Values, SetTimestamp(v) PROVE OrderKept
  BY <1>1, <1>2, <1>4 DEF SetTimestamp, Log
<1>5. CASE Reset
  BY <1>5 DEF Reset, NewLog, OrderKept
<1>6. CASE UNCHANGED log
  BY <1>2, <1>6
<1>7. CASE Next
  BY <1>3, <1>4, <1>5, <1>6, <1>7, SetPropOrder, RemovePropOrder, Builtins
     DEF SetTimestampPanics, luaGetLogProperty
<1> QED
  BY <1>7

\* No builtin changes the order of the properties it leaves in the log.
THEOREM Order == ASSUME \A l \in Logs : Distinct(l) PROVE Spec => KeepsOrder
<1>1. Inv /\ [Next]_vars => [OrderKept]_vars
  BY NextOrder
<1>2. Spec => [][OrderKept]_vars
  BY <1>1, Invariance, PTL DEF Spec
<1> QED
  BY <1>2 DEF KeepsOrder, OrderKept
-----------------------------------------------------------------------------
(* The log implements a map *)

\* What the map holds for a key.
Held(l, k) == IF Lookup(l, k).ok THEN Lookup(l, k).value ELSE Absent

\* With distinct keys, any property of a key is the one Get finds.
LEMMA LookupProp ==
  ASSUME NEW l \in Log, Distinct(l), NEW k \in PropKeys
  PROVE  /\ \A j \in DOMAIN l.props :
               l.props[j].key = k => Lookup(l, k) = [ok |-> TRUE, value |-> l.props[j].value]
         /\ (\A j \in DOMAIN l.props : l.props[j].key # k)
               => Lookup(l, k) = [ok |-> FALSE, value |-> Blank]
         /\ Found(l, k) <=> \E j \in DOMAIN l.props : l.props[j].key = k
         /\ Lookup(l, k).ok <=> Found(l, k)
<1>1. k \notin Fields /\ k # "timestamp"
  BY LogAssumption
<1>2. Found(l, k) <=> \E j \in DOMAIN l.props : l.props[j].key = k
  BY DEF Found, At
<1>3. ASSUME NEW j \in DOMAIN l.props, l.props[j].key = k
      PROVE  Lookup(l, k) = [ok |-> TRUE, value |-> l.props[j].value]
  <2>1. Found(l, k)
    BY <1>2, <1>3
  <2>2. j = First(l, k)
    BY <1>3, <2>1, FirstFound
  <2> QED
    BY <1>1, <2>1, <2>2 DEF Lookup
<1> QED
  BY <1>1, <1>2, <1>3 DEF Lookup

\* A value found is a value, never the mark of absence.
LEMMA HeldFacts ==
  ASSUME NEW l \in Log, Distinct(l), NEW k \in Keys
  PROVE  /\ Held(l, k) \in Values \cup {Absent}
         /\ Held(l, k) # Absent <=> Lookup(l, k).ok
         /\ Lookup(l, k) = [ok |-> Held(l, k) # Absent, value |-> IF Held(l, k) = Absent THEN Blank ELSE Held(l, k)]
<1>1. CASE k \in Fields
  <2>1. l.field[k] \in Values /\ k # "timestamp"
    BY <1>1 DEF Log, Fields
  <2> QED
    BY <1>1, <2>1, LogAssumption DEF Held, Lookup
<1>2. CASE k \in PropKeys
  <2>1. CASE \E j \in DOMAIN l.props : l.props[j].key = k
    <3>1. PICK j \in DOMAIN l.props : l.props[j].key = k
      BY <2>1
    <3>2. Lookup(l, k) = [ok |-> TRUE, value |-> l.props[j].value]
      BY <1>2, <3>1, LookupProp
    <3>3. l.props[j] \in Property
      BY DEF Log
    <3>4. l.props[j].value \in Values
      BY <3>3 DEF Property
    <3>5. Lookup(l, k).ok = TRUE /\ Lookup(l, k).value = l.props[j].value
      BY <3>2
    <3>6. Held(l, k) = l.props[j].value /\ Held(l, k) # Absent
      BY <3>4, <3>5, LogAssumption DEF Held
    <3> QED
      BY <3>2, <3>4, <3>5, <3>6
  <2>2. CASE \A j \in DOMAIN l.props : l.props[j].key # k
    <3>1. Lookup(l, k) = [ok |-> FALSE, value |-> Blank]
      BY <1>2, <2>2, LookupProp
    <3>2. Lookup(l, k).ok = FALSE
      BY <3>1
    <3>3. Held(l, k) = Absent
      BY <3>2 DEF Held
    <3> QED
      BY <3>1, <3>2, <3>3
  <2> QED
    BY <2>1, <2>2
<1> QED
  BY <1>1, <1>2 DEF Keys

\* Logs with the same properties hold the same for every key that is no field.
LEMMA HeldSameProps ==
  ASSUME NEW l, NEW h, l.props = h.props
  PROVE  \A k \in PropKeys : Held(l, k) = Held(h, k)
BY LogAssumption DEF Held, Lookup, Found, First, At

\* Logs with the same fields hold the same for every field.
LEMMA HeldSameFields ==
  ASSUME NEW l, NEW h, l.field = h.field
  PROVE  \A k \in Fields : Held(l, k) = Held(h, k)
BY DEF Held, Lookup, Fields

\* What a field holds.
LEMMA HeldField ==
  ASSUME NEW l, NEW k \in Fields
  PROVE  Held(l, k) = IF l.field[k] = Blank THEN Absent ELSE l.field[k]
BY DEF Held, Lookup, Fields

\* Setting a property changes what the map holds for its key, and for no other.
LEMMA SetPropHeld ==
  ASSUME Inv, NEW k \in PropKeys, NEW v \in Values, SetProp(k, v)
  PROVE  \A q \in Keys : Held(log', q) = IF q = k THEN v ELSE Held(log, q)
<1>1. log \in Log /\ Distinct(log) /\ log' \in Log /\ Distinct(log')
  BY SetPropInv DEF Inv, Kept, TypeOK, KeysStayDistinct
<1>2. ASSUME NEW q \in Fields PROVE Held(log', q) = IF q = k THEN v ELSE Held(log, q)
  <2>1. q # k
    BY LogAssumption
  <2>2. log'.field = log.field
    BY SetPropShape
  <2>3. Held(log', q) = Held(log, q)
    BY <2>2, HeldSameFields
  <2> QED
    BY <2>1, <2>3
<1>3. ASSUME NEW q \in PropKeys PROVE Held(log', q) = IF q = k THEN v ELSE Held(log, q)
  <2>1. ASSUME NEW j \in DOMAIN log'.props, log'.props[j].key = q PROVE Held(log', q) = log'.props[j].value
    BY <1>1, <1>3, <2>1, LookupProp DEF Held
  <2>2. ASSUME NEW j \in DOMAIN log.props, log.props[j].key = q PROVE Held(log, q) = log.props[j].value
    BY <1>1, <1>3, <2>2, LookupProp DEF Held
  <2>3. (\A j \in DOMAIN log'.props : log'.props[j].key # q) => Held(log', q) = Absent
    BY <1>1, <1>3, LookupProp DEF Held
  <2>4. (\A j \in DOMAIN log.props : log.props[j].key # q) => Held(log, q) = Absent
    BY <1>1, <1>3, LookupProp DEF Held
  <2>5. CASE Found(log, k)
    <3>1. /\ DOMAIN log'.props = DOMAIN log.props
          /\ \A m \in DOMAIN log.props :
                /\ log'.props[m].key = log.props[m].key
                /\ log'.props[m].value = IF log.props[m].key = k THEN v ELSE log.props[m].value
      BY <2>5, SetPropShape, Zenon
    <3>2. \E m \in DOMAIN log.props : log.props[m].key = k
      BY <2>5 DEF Found, At
    <3> QED
      BY <2>1, <2>2, <2>3, <2>4, <3>1, <3>2
  <2>6. CASE ~Found(log, k)
    <3>1. PICK n : /\ DOMAIN log'.props = DOMAIN log.props \cup {n}
                   /\ \A m \in DOMAIN log.props : log'.props[m] = log.props[m]
                   /\ log'.props[n] = [key |-> k, value |-> v]
      BY <2>6, SetPropShape, Zenon
    <3>2. CASE q = k
      BY <2>1, <3>1, <3>2
    <3>3. CASE q # k
      BY <2>1, <2>2, <2>3, <2>4, <3>1, <3>3
    <3> QED
      BY <3>2, <3>3
  <2> QED
    BY <2>5, <2>6
<1> QED
  BY <1>2, <1>3 DEF Keys

\* Removing a property leaves nothing for its key, and the rest as it was.
LEMMA RemovePropHeld ==
  ASSUME Inv, NEW k \in PropKeys, RemoveProp(k)
  PROVE  \A q \in Keys : Held(log', q) = IF q = k THEN Absent ELSE Held(log, q)
<1>1. log \in Log /\ Distinct(log) /\ log' \in Log /\ Distinct(log')
  BY RemovePropInv DEF Inv, Kept, TypeOK, KeysStayDistinct
<1>2. CASE ~Found(log, k)
  <2>1. log' = log /\ Held(log, k) = Absent
    BY <1>1, <1>2, LookupProp DEF RemoveProp, Held
  <2> QED
    BY <2>1
<1>3. CASE Found(log, k)
  <2>1. ASSUME NEW q \in Fields PROVE Held(log', q) = IF q = k THEN Absent ELSE Held(log, q)
    BY <1>3, RemovePropShape, HeldSameFields, LogAssumption
  <2>2. ASSUME NEW q \in PropKeys PROVE Held(log', q) = IF q = k THEN Absent ELSE Held(log, q)
    <3>1. PICK x : /\ \A m \in DOMAIN log'.props :
                        /\ x[m] \in DOMAIN log.props
                        /\ log.props[x[m]].key # k
                        /\ log'.props[m] = log.props[x[m]]
                   /\ \A m \in DOMAIN log.props :
                        log.props[m].key # k => \E n \in DOMAIN log'.props : x[n] = m
      BY <1>3, RemovePropShape
    <3>2. ASSUME NEW j \in DOMAIN log'.props, log'.props[j].key = q PROVE Held(log', q) = log'.props[j].value
      BY <1>1, <2>2, <3>2, LookupProp DEF Held
    <3>3. ASSUME NEW j \in DOMAIN log.props, log.props[j].key = q PROVE Held(log, q) = log.props[j].value
      BY <1>1, <2>2, <3>3, LookupProp DEF Held
    <3>4. (\A j \in DOMAIN log'.props : log'.props[j].key # q) => Held(log', q) = Absent
      BY <1>1, <2>2, LookupProp DEF Held
    <3>5. (\A j \in DOMAIN log.props : log.props[j].key # q) => Held(log, q) = Absent
      BY <1>1, <2>2, LookupProp DEF Held
    <3>6. CASE q = k
      BY <3>1, <3>4, <3>6
    <3>7. CASE q # k
      BY <3>1, <3>2, <3>3, <3>4, <3>5, <3>7
    <3> QED
      BY <3>6, <3>7
  <2> QED
    BY <2>1, <2>2 DEF Keys
<1> QED
  BY <1>2, <1>3

\* Setting a field changes what the map holds for it, and for no other key.
LEMMA SetFieldHeld ==
  ASSUME Inv, NEW f \in Fields, NEW v \in Values, SetField(f, v)
  PROVE  \A q \in Keys : Held(log', q) = IF q = f THEN (IF v = Blank THEN Absent ELSE v) ELSE Held(log, q)
<1>1. log \in Log
  BY DEF Inv, TypeOK
<1>2. log'.props = log.props /\ log'.field = [log.field EXCEPT ![f] = v] /\ log.field \in [Fields -> Values]
  BY <1>1 DEF SetField, Log
<1>3. ASSUME NEW q \in Fields
      PROVE  Held(log', q) = IF q = f THEN (IF v = Blank THEN Absent ELSE v) ELSE Held(log, q)
  BY <1>2 DEF Held, Lookup, Fields
<1>4. ASSUME NEW q \in PropKeys PROVE q # f /\ Held(log', q) = Held(log, q)
  BY <1>2, HeldSameProps, LogAssumption
<1> QED
  BY <1>3, <1>4 DEF Keys

\* Setting the timestamp changes what the map holds for date and time.
LEMMA SetTimestampHeld ==
  ASSUME NEW l \in Log, NEW h \in Log, NEW d, NEW t,
         h.props = l.props, h.field = [l.field EXCEPT !["date"] = d, !["time"] = t]
  PROVE  \A q \in Keys :
            Held(h, q) = IF q = "date" THEN (IF d = Blank THEN Absent ELSE d)
                         ELSE IF q = "time" THEN (IF t = Blank THEN Absent ELSE t)
                         ELSE Held(l, q)
<1>1. ASSUME NEW q \in Fields
      PROVE  Held(h, q) = IF q = "date" THEN (IF d = Blank THEN Absent ELSE d)
                          ELSE IF q = "time" THEN (IF t = Blank THEN Absent ELSE t)
                          ELSE Held(l, q)
  <2>1. h.field[q] = IF q = "time" THEN t ELSE IF q = "date" THEN d ELSE l.field[q]
    BY DEF Log
  <2>2. Held(h, q) = IF h.field[q] = Blank THEN Absent ELSE h.field[q]
    BY HeldField
  <2>3. Held(l, q) = IF l.field[q] = Blank THEN Absent ELSE l.field[q]
    BY HeldField
  <2> QED
    BY <2>1, <2>2, <2>3
<1>2. ASSUME NEW q \in PropKeys PROVE q \notin {"date", "time"} /\ Held(h, q) = Held(l, q)
  BY HeldSameProps, LogAssumption DEF Fields
<1> QED
  BY <1>1, <1>2 DEF Keys

\* Every call of a builtin is a call of the map's.
LEMMA StepImplements == ASSUME Inv, Next PROVE Map!Next
<1> USE DEF Map!Keys, Map!Blank, Map!Flag, Map!Text, Map!Panic, Map!Called
<1>1. log \in Log /\ Distinct(log) /\ log' \in Log /\ Distinct(log')
  BY NextInv DEF Inv, TypeOK, KeysStayDistinct
<1>2. /\ bar = [k \in Keys |-> Held(log, k)]
      /\ bar' = [k \in Keys |-> Held(log', k)]
  BY DEF bar, Held
<1>3. Fields \subseteq Keys /\ PropKeys \subseteq Keys /\ "date" \in Keys /\ "time" \in Keys
  BY DEF Keys, Fields
<1>4. HasTimestamp(log) <=> Map!HasTimestamp
  BY <1>1, <1>2, <1>3, HeldFacts DEF HasTimestamp, Map!HasTimestamp, Lookup, Fields
<1>5. ASSUME NEW f \in Fields, NEW v \in Values, SetField(f, v)
      PROVE  /\ call' = Called("set", f, v) => Map!Set(f, v)
             /\ call' = Called("remove", f, Blank) /\ v = Blank => Map!Remove(f)
  <2>1. bar' = [bar EXCEPT ![f] = Map!Stored(f, v)]
    BY <1>2, <1>5, SetFieldHeld DEF Map!Stored, Blank
  <2>2. v = Blank => Map!Stored(f, v) = Absent
    BY DEF Map!Stored, Blank
  <2>3. answer' = Map!Flag(bar[f] # Absent)
    BY <1>1, <1>2, <1>3, <1>5, HeldFacts DEF SetField, Flag, Blank, Lookup, Fields
  <2> QED
    BY <2>1, <2>2, <2>3 DEF Map!Set, Map!Remove, Called, Blank
<1>6. ASSUME NEW k \in PropKeys, NEW v \in Values, SetProp(k, v), call' = Called("set", k, v)
      PROVE  Map!Set(k, v)
  <2>1. Map!Stored(k, v) = v
    BY LogAssumption DEF Map!Stored
  <2>2. bar' = [bar EXCEPT ![k] = v]
    BY <1>2, <1>6, SetPropHeld
  <2>3. bar[k] # Absent <=> Found(log, k)
    BY <1>1, <1>2, <1>3, HeldFacts, LookupProp
  <2>4. answer' = Map!Flag(bar[k] # Absent)
    BY <1>6, <2>3 DEF SetProp, Flag, Blank, Found
  <2> QED
    BY <1>6, <2>1, <2>2, <2>4 DEF Map!Set, Called
<1>7. ASSUME NEW v \in Values, SetTimestamp(v)
      PROVE  /\ call' = Called("set", "timestamp", v) => Map!SetTimestamp(v) \/ Map!ClearTimestamp
             /\ call' = Called("remove", "timestamp", Blank) /\ v = Blank => Map!ClearTimestamp
  <2> DEFINE d == <<v[1]>>
             t == IF v = Blank THEN Blank ELSE <<v[2]>>
  <2>1. \A q \in Keys :
            Held(log', q) = IF q = "date" THEN (IF d = Blank THEN Absent ELSE d)
                            ELSE IF q = "time" THEN (IF t = Blank THEN Absent ELSE t)
                            ELSE Held(log, q)
    <3>1. log'.props = log.props /\ log'.field = [log.field EXCEPT !["date"] = d, !["time"] = t]
      BY <1>1, <1>7 DEF SetTimestamp, Log
    <3> HIDE DEF d, t
    <3> QED
      BY <1>1, <3>1, SetTimestampHeld
  <2>2. answer' = Map!Flag(Map!HasTimestamp)
    BY <1>4, <1>7 DEF SetTimestamp, Flag, Blank, HasTimestamp, Map!HasTimestamp
  <2>3. CASE v = Blank
    <3>1. d = Blank /\ t = Blank
      BY <2>3 DEF Blank
    <3> HIDE DEF d, t
    <3>2. bar' = [bar EXCEPT !["date"] = Absent, !["time"] = Absent]
      BY <1>2, <1>3, <2>1, <3>1
    <3> QED
      BY <2>2, <2>3, <3>2 DEF Map!ClearTimestamp, Called, Blank
  <2>4. CASE v # Blank
    <3>1. Len(v) = 2 /\ t = <<v[2]>>
      BY <1>7, <2>4 DEF SetTimestamp
    <3>2. Map!Stored("date", d) = (IF d = Blank THEN Absent ELSE d) /\ Map!Stored("time", t) = (IF t = Blank THEN Absent ELSE t)
      BY DEF Map!Stored, Blank, Fields
    <3>3. bar' = [bar EXCEPT !["date"] = Map!Stored("date", d), !["time"] = Map!Stored("time", t)]
      <4> HIDE DEF d, t
      <4> QED
        BY <1>2, <1>3, <2>1, <3>2
    <3> QED
      BY <2>2, <2>4, <3>1, <3>3 DEF Map!SetTimestamp, Called
  <2> QED
    BY <2>3, <2>4
<1>8. ASSUME NEW v \in Values, SetTimestampPanics(v), call' = Called("set", "timestamp", v)
      PROVE  Map!Refuse(v)
  BY <1>2, <1>8 DEF SetTimestampPanics, Panic, Blank, Called, Map!Refuse
<1>9. ASSUME NEW k \in PropKeys, RemoveProp(k), call' = Called("remove", k, Blank)
      PROVE  Map!Remove(k)
  <2>1. bar' = [bar EXCEPT ![k] = Absent]
    BY <1>2, <1>9, RemovePropHeld
  <2>2. bar[k] # Absent <=> Found(log, k)
    BY <1>1, <1>2, <1>3, HeldFacts, LookupProp
  <2>3. answer' = Map!Flag(bar[k] # Absent)
    BY <1>9, <2>2 DEF RemoveProp, Flag, Blank, Found
  <2> QED
    BY <1>9, <2>1, <2>3 DEF Map!Remove, Called, Blank
<1>10. ASSUME Reset, call' = Called("reset", "", Blank)
       PROVE  Map!Reset
  <2>1. log' = NewLog
    BY <1>10 DEF Reset
  <2>2. ASSUME NEW k \in Keys PROVE Lookup(log', k).ok = FALSE
    <3>1. DOMAIN NewLog.props = {} /\ \A f \in Fields : NewLog.field[f] = Blank
      BY DEF NewLog
    <3>2. ~Found(NewLog, k) /\ k # "timestamp"
      BY <3>1, LogAssumption DEF Found, At, Keys, Fields
    <3> QED
      BY <2>1, <3>1, <3>2 DEF Lookup
  <2>3. \A k \in Keys : Held(log', k) = Absent
    BY <2>2 DEF Held
  <2>4. bar' = [k \in Keys |-> Absent]
    BY <1>2, <2>3
  <2> QED
    BY <1>10, <2>4 DEF Reset, Flag, Blank, Called, Map!Reset, Keys
<1>11. ASSUME NEW k \in Keys, luaGetLogProperty(k) PROVE Map!Get(k)
  <2>1. Lookup(log, k) = [ok |-> bar[k] # Absent, value |-> IF bar[k] = Absent THEN Blank ELSE bar[k]]
    BY <1>1, <1>2, HeldFacts
  <2>2. Lookup(log, k).ok = (bar[k] # Absent) /\ (bar[k] # Absent => Lookup(log, k).value = bar[k])
    BY <2>1
  <2>3. bar' = bar
    BY <1>2, <1>11 DEF luaGetLogProperty
  <2> QED
    BY <1>11, <2>2, <2>3 DEF luaGetLogProperty, Text, Called, Blank, Map!Get, Map!Shown
<1>12. ASSUME luaGetLogProperty("timestamp") PROVE Map!GetTimestamp
  <2>1. Map!Shown(bar["date"]) = log.field["date"] /\ Map!Shown(bar["time"]) = log.field["time"]
    BY <1>1, <1>2, <1>3, HeldFacts DEF Map!Shown, Lookup, Fields, Blank
  <2>2. /\ log.field["date"] \in Seq(STRING) /\ log.field["date"] # <<>>
        /\ log.field["time"] \in Seq(STRING) /\ log.field["time"] # <<>>
    BY <1>1, LogAssumption DEF Log, Fields
  <2>3. Timestamp(log) # Blank
    <3> DEFINE d == log.field["date"]
               t == log.field["time"]
    <3>1. Len(d) >= 1 /\ Len(t) >= 1 /\ Len(d) \in Nat /\ Len(t) \in Nat
      BY <2>2, EmptySeq, LenProperties
    <3>2. Len(d \o t) = Len(d) + Len(t)
      BY <2>2, ConcatProperties
    <3> HIDE DEF d, t
    <3>3. Len(d \o t) # 1
      BY <3>1, <3>2
    <3>4. Len(Blank) = 1
      BY DEF Blank
    <3> QED
      BY <3>3, <3>4 DEF Timestamp, d, t
  <2>4. answer' = Text(log.field["date"] \o log.field["time"])
    BY <1>12, <2>3 DEF luaGetLogProperty, Lookup, Timestamp
  <2>5. bar' = bar
    BY <1>2, <1>12 DEF luaGetLogProperty
  <2> QED
    BY <1>12, <2>1, <2>4, <2>5 DEF Map!GetTimestamp, luaGetLogProperty, Text, Called, Blank
<1> QED
  <2>1. ASSUME NEW k \in Keys, NEW v \in Values, Map!Set(k, v) PROVE Map!Next
    BY <2>1 DEF Map!Next, Keys
  <2>2. ASSUME NEW k \in Keys, Map!Remove(k) \/ Map!Get(k) PROVE Map!Next
    BY <2>2 DEF Map!Next, Keys
  <2>3. ASSUME NEW v \in Values, Map!SetTimestamp(v) \/ Map!Refuse(v) \/ Map!ClearTimestamp PROVE Map!Next
    BY <2>3 DEF Map!Next
  <2>4. Map!Reset \/ Map!GetTimestamp => Map!Next
    BY DEF Map!Next
  <2> QED
    BY <1>3, <1>5, <1>6, <1>7, <1>8, <1>9, <1>10, <1>11, <1>12, <2>1, <2>2, <2>3, <2>4, Builtins

\* The Log implements LogMap: each builtin changes the value of the key it was given
\* only, tells whether there was one when it sets or removes it, gives the value back
\* when it reads it, and refuses the timestamps of other than two words and no others
\* (logging.go:68-181, builtin.go:107-153).
THEOREM Refinement == ASSUME \A l \in Logs : Distinct(l) PROVE Spec => ImplementsLogMap
<1>1. Init => Map!Init
  <2> SUFFICES ASSUME Init PROVE Map!Init
    OBVIOUS
  <2>1. log \in Log /\ Distinct(log)
    BY InitInv DEF Inv, TypeOK, KeysStayDistinct
  <2>2. \A k \in Keys : Held(log, k) \in Values \cup {Absent}
    BY <2>1, HeldFacts
  <2>3. bar \in [Keys -> Values \cup {Absent}]
    BY <2>2 DEF bar, Held
  <2> QED
    BY <2>3 DEF Init, Flag, Called, Blank, Keys, Map!Init, Map!Keys, Map!Flag, Map!Called, Map!Blank
<1>2. Inv /\ [Next]_vars => [Map!Next]_<<bar, call, answer>>
  BY StepImplements DEF vars, bar
<1> QED
  BY <1>1, <1>2, Invariance, PTL DEF Spec, ImplementsLogMap, Map!Spec
=============================================================================
