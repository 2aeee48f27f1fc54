--------------------------- MODULE MCCpuBreakdown ---------------------------
(* The echo server, the proxy's two workers, and processes right of each   *)
(* that call the same functions, the last with or without a frame of its   *)
(* own before them, and one write within a write. The stacks in Optional   *)
(* may be missing, seen once or three times, the second worker's among     *)
(* them: a frame of one sample is less than a tenth of a pixel wide and is *)
(* not drawn. Two request rates.                                           *)
EXTENDS CpuBreakdown
MCStacks == <<
    <<"echo-server", "vfs_read">>, <<"echo-server", "vfs_write", "process_backlog">>,
    <<"echo-server", "vfs_write", "vfs_write">>, <<"redis", "process_backlog">>,
    <<"server", "vfs_write">>,
    <<"wrk:worker_0", "do_epoll_wait">>, <<"wrk:worker_0", "onContinueReading">>,
    <<"wrk:worker_0", "writev">>, <<"wrk:worker_0", "writev", "process_backlog">>,
    <<"wrk:worker_0", "writev", "process_backlog", "br_handle_frame">>,
    <<"wrk:worker_1", "readv">>, <<"xdm">>, <<"xdm", "readv">> >>
Absent(p) == IF p = "grpc" THEN 1..3 ELSE {5}
Optional == {2, 9, 10, 11, 12}
Sampled(p, seen) ==
    [s \in DOMAIN MCStacks |->
        CASE s \in Absent(p) -> 0
          [] s \in Optional \ Absent(p) -> seen[s]
          [] OTHER -> 1 + (s % 2)]
Seen ==
    {[s \in Optional |-> IF s \in many THEN 3 ELSE IF s \in none THEN 0 ELSE 1] :
        many \in {{}, {9, 10, 11}, {2, 9, 11, 12}, {11, 12}, {11}, {2, 10}},
        none \in {{}, {10, 12}}}
MCProfiles ==
    [p \in {"tcp", "http", "grpc"} |-> {Sampled(p, seen) : seen \in Seen}]
MCPairs == << <<100, 1>>, <<100, 2>> >>
=============================================================================
