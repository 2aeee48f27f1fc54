-------------------------- MODULE MCOfflineProfiler --------------------------
(* Two protocols, two workloads each, three runs; wrk lasts as long as the *)
(* longest workload, the ten probes of http.                               *)
EXTENDS OfflineProfiler
MCProtocols == <<"tcp", "http">>
=============================================================================
