--------------------------- MODULE MCAsyncClient ---------------------------
(* Instances of AsyncClient for TLC. *)
EXTENDS AsyncClient, TLC

Config(n, b, e) == [concurrency |-> n, chanBuffer |-> b, errorchan |-> e]

\* Two workers with one-place queues, one worker with and without an error
\* channel, and a configuration that validateConfiguration refuses.
MCConfigs == {Config(2, 1, TRUE), Config(1, 1, FALSE), Config(0, 1, TRUE)}

\* For liveness: one worker, and a queue size that is refused. Three requests are
\* then enough for one in flight, one queued and one whose Post waits for room.
MCLiveConfigs == {Config(1, 1, TRUE), Config(1, 0, TRUE)}

\* Any worker, each of the two workers, and one affinity too many.
MCAffinities == {-1, 0, 1, 2}
MCAnyWorker == {-1}

Symmetric == Permutations(Requests) \cup Permutations(Callers)
=============================================================================
