------------------------------- MODULE LogMap -------------------------------
(***************************************************************************)
(* What a structured log promises to the script that log_get, log_set,     *)
(* log_remove and log_reset work on: a map from keys to values, in which   *)
(* date and time can also be written and read together, as the timestamp.  *)
(* A script cannot tell a key without a value from an empty value: log_get *)
(* gives the empty string for both, and a timestamp without date and time  *)
(* is the space between them.                                              *)
(***************************************************************************)
EXTENDS Integers, Sequences

CONSTANTS
    Fields,     \* keys of the header and the message: "" stands for no value
    PropKeys,   \* every other key
    Values,     \* values, each the sequence of its words
    Absent      \* no value

Keys == Fields \cup PropKeys
Blank == <<"">>     \* the empty string

Called(op, k, v) == [op |-> op, key |-> k, value |-> v]

\* A builtin pushes a boolean, a string or nothing; no string has no words at all.
Flag(b) == [flag |-> b, text |-> Blank]
Text(v) == [flag |-> FALSE, text |-> v]
Panic   == [flag |-> FALSE, text |-> <<>>]

VARIABLES
    map,
    call,       \* the last call of a builtin
    answer      \* what it gave back

\* A field that is set to the empty string has no value afterwards.
Stored(k, v) == IF k \in Fields /\ v = Blank THEN Absent ELSE v

Shown(v) == IF v = Absent THEN Blank ELSE v

Init ==
    /\ map \in [Keys -> Values \cup {Absent}]
    /\ call = Called("none", "", Blank)
    /\ answer = Flag(FALSE)

Set(k, v) ==
    /\ call' = Called("set", k, v)
    /\ map' = [map EXCEPT ![k] = Stored(k, v)]
    /\ answer' = Flag(map[k] # Absent)

HasTimestamp == map["date"] # Absent \/ map["time"] # Absent

\* A timestamp is a date and a time.
SetTimestamp(v) ==
    /\ Len(v) = 2
    /\ call' = Called("set", "timestamp", v)
    /\ map' = [map EXCEPT !["date"] = Stored("date", <<v[1]>>), !["time"] = Stored("time", <<v[2]>>)]
    /\ answer' = Flag(HasTimestamp)

\* A value that is no timestamp is refused.
Refuse(v) ==
    /\ v # Blank /\ Len(v) # 2
    /\ call' = Called("set", "timestamp", v)
    /\ answer' = Panic
    /\ UNCHANGED map

\* The empty timestamp, by log_set or log_remove, takes both away.
ClearTimestamp ==
    /\ \E op \in {"set", "remove"} : call' = Called(op, "timestamp", Blank)
    /\ map' = [map EXCEPT !["date"] = Absent, !["time"] = Absent]
    /\ answer' = Flag(HasTimestamp)

Remove(k) ==
    /\ call' = Called("remove", k, Blank)
    /\ map' = [map EXCEPT ![k] = Absent]
    /\ answer' = Flag(map[k] # Absent)

Reset ==
    /\ call' = Called("reset", "", Blank)
    /\ map' = [k \in Keys |-> Absent]
    /\ answer' = Flag(FALSE)

Get(k) ==
    /\ call' = Called("get", k, Blank)
    /\ answer' = Text(Shown(map[k]))
    /\ UNCHANGED map

GetTimestamp ==
    /\ call' = Called("get", "timestamp", Blank)
    /\ answer' = Text(Shown(map["date"]) \o Shown(map["time"]))
    /\ UNCHANGED map

Next ==
    \/ \E k \in Keys, v \in Values : Set(k, v)
    \/ \E v \in Values : SetTimestamp(v) \/ Refuse(v)
    \/ ClearTimestamp
    \/ \E k \in Keys : Remove(k) \/ Get(k)
    \/ Reset
    \/ GetTimestamp

Spec == Init /\ [][Next]_<<map, call, answer>>
=============================================================================
