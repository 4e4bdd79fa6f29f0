---------------------------- MODULE MCHttpHooks ----------------------------
(* Instances of HttpHooks for TLC. *)
EXTENDS HttpHooks

Config(n, b) == [concurrency |-> n, chanBuffer |-> b, errorchan |-> TRUE]

\* One worker with a queue of one place, and a value that validateConfiguration
\* refuses.  A config_set of an existing client starts its worker anew.
MCConfigs == {Config(1, 1), Config(0, 1)}

MCAffinities == {-1}
=============================================================================
