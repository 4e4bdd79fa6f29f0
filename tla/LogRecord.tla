------------------------------ MODULE LogRecord ------------------------------
(***************************************************************************)
(* logging/logging.go: the structured log, as the builtins log_get,        *)
(* log_set, log_remove and log_reset of lua/builtin.go change it while a   *)
(* hook of the script holds its pointer.                                   *)
(*                                                                         *)
(* A string is the sequence of its words, so that joining two strings with *)
(* a space is \o and strings.Split(value, " ") is the value itself.        *)
(***************************************************************************)
EXTENDS Integers, Sequences

CONSTANTS
    Touched,    \* fields the script names in its calls
    PropKeys,   \* keys that name no field of the Log
    Values,     \* strings a script may write
    Logs,       \* logs the parser may hand to a hook
    Absent      \* no value, for the abstract map

Blank  == <<"">>
Fields == {"date", "time", "level", "thread", "class", "msg"}
Keys   == Fields \cup PropKeys

Property == [key : PropKeys, value : Values]
Log == [field : [Fields -> Values], props : Seq(Property)]

ASSUME LogAssumption ==
    /\ Touched \subseteq Fields
    /\ Blank \in Values
    /\ \A v \in Values : v # <<>> /\ v \in Seq(STRING) /\ \A j \in DOMAIN v : <<v[j]>> \in Values
    /\ PropKeys \cap (Fields \cup {"timestamp"}) = {}
    /\ Logs \subseteq Log
    /\ Absent \notin Values

VARIABLES
    log,        \* the Log behind logptr
    call,       \* the last builtin that was called, with its key and value
    answer      \* what it pushed

vars == <<log, call, answer>>

Called(op, k, v) == [op |-> op, key |-> k, value |-> v]

\* A builtin pushes a boolean, a string or nothing; no string has no words at all.
Flag(b) == [flag |-> b, text |-> Blank]
Text(v) == [flag |-> FALSE, text |-> v]
Panic   == [flag |-> FALSE, text |-> <<>>]

NewLog == [field |-> [f \in Fields |-> Blank], props |-> <<>>]

Init ==
    /\ log \in Logs \cup {NewLog}
    /\ call = Called("none", "", Blank)
    /\ answer = Flag(FALSE)
-----------------------------------------------------------------------------
(* Lookup *)

At(l, k)    == { j \in DOMAIN l.props : l.props[j].key = k }
Found(l, k) == At(l, k) # {}
First(l, k) == CHOOSE j \in At(l, k) : \A m \in At(l, k) : j <= m

Timestamp(l) == l.field["date"] \o l.field["time"]

\* Get.  A timestamp has a space between date and time, so it is never empty.
Lookup(l, k) ==
    IF k = "timestamp" THEN [ok |-> Timestamp(l) # Blank, value |-> Timestamp(l)]
    ELSE IF k \in Fields THEN [ok |-> l.field[k] # Blank, value |-> l.field[k]]
    ELSE IF Found(l, k) THEN [ok |-> TRUE, value |-> l.props[First(l, k)].value]
    ELSE [ok |-> FALSE, value |-> Blank]
-----------------------------------------------------------------------------
(* Set, Remove and Reset of the Log *)

SetField(f, v) ==
    /\ log' = [log EXCEPT !.field[f] = v]
    /\ answer' = Flag(log.field[f] # Blank)

SetProp(k, v) ==
    /\ log' = IF Found(log, k)
              THEN [log EXCEPT !.props[First(log, k)].value = v]
              ELSE [log EXCEPT !.props = Append(@, [key |-> k, value |-> v])]
    /\ answer' = Flag(Found(log, k))

HasTimestamp(l) == l.field["date"] # Blank \/ l.field["time"] # Blank

SetTimestamp(v) ==
    /\ v = Blank \/ Len(v) = 2
    /\ log' = [log EXCEPT !.field["date"] = <<v[1]>>,
                          !.field["time"] = IF v = Blank THEN Blank ELSE <<v[2]>>]
    /\ answer' = Flag(HasTimestamp(log))

\* Set panics; a protected script goes on in on_error with the same log.
SetTimestampPanics(v) ==
    /\ v # Blank /\ Len(v) # 2
    /\ answer' = Panic
    /\ UNCHANGED log

Without(s, j) == [m \in 1 .. Len(s) - 1 |-> IF m < j THEN s[m] ELSE s[m + 1]]

\* Mutant: the hole is filled with the last property.
RemovePropSwaps(k) ==
    /\ LET s == log.props
       IN  log' = IF Found(log, k)
                  THEN [log EXCEPT !.props = SubSeq([s EXCEPT ![First(log, k)] = s[Len(s)]], 1, Len(s) - 1)]
                  ELSE log
    /\ answer' = Flag(Found(log, k))

RemoveProp(k) ==
    /\ log' = IF Found(log, k)
              THEN [log EXCEPT !.props = Without(@, First(log, k))]
              ELSE log
    /\ answer' = Flag(Found(log, k))

\* Mutant: the properties stay.
ResetFields ==
    /\ log' = [log EXCEPT !.field = NewLog.field]
    /\ answer' = Flag(FALSE)

Reset ==
    /\ log' = NewLog
    /\ answer' = Flag(FALSE)
-----------------------------------------------------------------------------
(* The builtins *)

luaSetLogProperty(k, v) ==
    /\ call' = Called("set", k, v)
    /\ \/ k \in Fields /\ SetField(k, v)
       \/ k \in PropKeys /\ SetProp(k, v)
       \/ k = "timestamp" /\ (SetTimestamp(v) \/ SetTimestampPanics(v))

\* Remove sets a field and the timestamp to the empty string.
luaRemoveLogProperty(k) ==
    /\ call' = Called("remove", k, Blank)
    /\ \/ k \in Fields /\ SetField(k, Blank)
       \/ k \in PropKeys /\ RemoveProp(k)
       \/ k = "timestamp" /\ SetTimestamp(Blank)

luaResetLog ==
    /\ call' = Called("reset", "", Blank)
    /\ Reset

\* A script is not told whether there was a value.
luaGetLogProperty(k) ==
    /\ call' = Called("get", k, Blank)
    /\ LET got == Lookup(log, k) IN answer' = Text(IF got.ok THEN got.value ELSE Blank)
    /\ UNCHANGED log

Named == Touched \cup PropKeys \cup {"timestamp"}

Next ==
    \/ \E k \in Named, v \in Values : luaSetLogProperty(k, v)
    \/ \E k \in Named : luaRemoveLogProperty(k) \/ luaGetLogProperty(k)
    \/ luaResetLog

Spec == Init /\ [][Next]_vars
-----------------------------------------------------------------------------
(* Properties *)

\* Type invariant of the Log struct and of what the builtins return.
TypeOK ==
    /\ log \in Log
    /\ call \in [op : {"none", "set", "remove", "reset", "get"},
                 key : Keys \cup {"timestamp", ""}, value : Values]
    /\ answer \in [flag : BOOLEAN, text : Seq(STRING)]

\* No sequence of builtins makes two properties of the same key out of a log that
\* had none: Set looks for the key before it appends (logging.go:130-137).
Distinct(l) == \A i, j \in DOMAIN l.props : l.props[i].key = l.props[j].key => i = j
KeysStayDistinct == Distinct(log)

\* No builtin changes the order of the properties it leaves in the log, so a
\* script's output lists them as the input did (Remove's copy, logging.go:82).
KeepsOrder ==
    [][\A i, j \in DOMAIN log'.props :
          i < j => \A m, n \in DOMAIN log.props :
                      log.props[m].key = log'.props[i].key /\ log.props[n].key = log'.props[j].key
                      => m < n]_vars

\* The log is a map: whatever was called before, each builtin changes the value of
\* the key it was given only, tells whether there was one when it sets or removes it,
\* and gives the value back when it reads it; a timestamp of other than two words is
\* refused and changes nothing.
bar == [k \in Keys |-> IF Lookup(log, k).ok THEN Lookup(log, k).value ELSE Absent]
Map == INSTANCE LogMap WITH map <- bar
ImplementsLogMap == Map!Spec
=============================================================================
