---------------------------- MODULE CpuBreakdown ----------------------------
(***************************************************************************)
(* The arithmetic of the cpu experiment in profiler/offline_profiler.py:   *)
(* for every request size and rate a flame graph is drawn, the shares of a *)
(* few functions are scraped from its SVG file, subtracted from each other *)
(* and halved, and the results become the points of regressions. The       *)
(* picture is drawn by profiler/cpu/flamegraph.pl.                         *)
(*                                                                         *)
(* The unit of a share is one sample: all samples of a graph together      *)
(* stand for core_count, so the factor virtual_cores * 0.01 and the        *)
(* rounding of a percentage are left out, and so is the division by the    *)
(* scale. Borders are in halves of a tenth of a pixel: the file has tenths,*)
(* and the half stands for the last bit of a floating-point sum.           *)
(***************************************************************************)
EXTENDS Integers, Sequences, FiniteSets, FiniteSetsExt, TLC

CONSTANTS Stacks,      \* sampled call stacks, in the order of the flame graph's x axis
          Profiles,    \* per protocol, the numbers of samples of each stack that may be seen
          Canvas,      \* width of all samples together, in tenths of a pixel: 11800
          Pairs        \* <<request size, request rate>>, in the order of the loops

VARIABLES
    protocol, phase, k,          \* what is measured, the pair in progress
    samples,                     \* what perf recorded for this pair
    app_xranges, proxy_xranges,
    result,                      \* per pair, what parse_cpu_breakdown returned
    models                       \* per regression, its points

cpuVars == <<protocol, phase, k, samples, app_xranges, proxy_xranges, result, models>>

(* Functions and threads that istio.yml names, without their name spaces.  *)
PROXY == [IPC |-> "br_handle_frame", READ |-> "readv", WRITE |-> <<"process_backlog", "writev">>,
          EPOLL |-> "do_epoll_wait", USER |-> <<"wrk:worker_0", "wrk:worker_1">>,
          PARSE |-> "onContinueReading"]
APP == [READ |-> "vfs_read", WRITE |-> "vfs_write", IPC |-> "process_backlog"]

Under(frame) == {s \in DOMAIN Stacks : Len(Stacks[s]) >= Len(frame)
                                       /\ SubSeq(Stacks[s], 1, Len(frame)) = frame}

(* A stack begins with its process, and no function has a process's name.  *)
ASSUME StacksAssumption ==
    /\ Stacks \in Seq(Seq(STRING) \ {<<>>})
    /\ \A s \in DOMAIN Stacks : \A n \in DOMAIN Stacks[s] :
           Stacks[s][n] \in {"echo-server", "server", PROXY.USER[1], PROXY.USER[2]} => n = 1

(* flamegraph.pl sorts the stacks, by which those with a common beginning  *)
(* and those of the proxy's two workers become neighbours; unless the name *)
(* of one function is that of another with a suffix like ".part.0", for a  *)
(* full stop sorts before the separator.                                   *)
ASSUME SortedAssumption ==
    LET first == Under(<<PROXY.USER[1]>>)
        last == Under(<<PROXY.USER[2]>>)
    IN  /\ \A s \in DOMAIN Stacks : \A n \in DOMAIN Stacks[s] :
               LET under == Under(SubSeq(Stacks[s], 1, n)) IN \A t \in under : s..t \subseteq under
        /\ \A s \in first : \A t \in last : s < t /\ s..t \subseteq first \cup last

ASSUME ProfilesAssumption ==
    \A p \in DOMAIN Profiles : Profiles[p] \subseteq [DOMAIN Stacks -> Nat]

ASSUME CanvasAssumption == Canvas \in Nat \ {0}

NoKeys == [x \in {} |-> 0]
NoRange == <<0, 0>>

CpuInit ==
    /\ protocol \in DOMAIN Profiles
    /\ phase = "load" /\ k = 1
    /\ samples = [s \in DOMAIN Stacks |-> 0]
    /\ app_xranges = NoRange /\ proxy_xranges = NoRange
    /\ result = NoKeys /\ models = NoKeys

(* perf records the stacks, of which flamegraph.pl draws the Frames below. *)
generate_flamegraph ==
    /\ phase = "load" /\ k <= Len(Pairs)
    /\ phase' = "svg" /\ samples' \in Profiles[protocol]
    /\ UNCHANGED <<protocol, k, app_xranges, proxy_xranges, result, models>>

All == MapThenSumSet(LAMBDA s : samples[s], DOMAIN Stacks)
Before(frame) ==
    MapThenSumSet(LAMBDA s : samples[s], {s \in DOMAIN Stacks : s < Min(Under(frame))})
Width(frame) == MapThenSumSet(LAMBDA s : samples[s], Under(frame))

(* A frame is one beginning of a stack over all its samples; those that    *)
(* are less than a tenth of a pixel wide are not drawn.                    *)
Drawn(frame) == Width(frame) > 0 /\ Width(frame) * Canvas >= All
Beginnings == UNION {{SubSeq(Stacks[s], 1, n) : n \in 1..Len(Stacks[s])} : s \in DOMAIN Stacks}
Frames == {f \in Beginnings : Drawn(f)}
Named(name) == {f \in Beginnings : f[Len(f)] = name /\ Drawn(f)}

(* The borders of a drawn frame, each rounded to the nearest tenth.        *)
Edge(sampled) == LET all == All IN (2 * Canvas * sampled + all) \div (2 * all)
X(frame) == 2 * Edge(Before(frame))
Right(frame) == 2 * Edge(Before(frame) + Width(frame))

-----------------------------------------------------------------------------
(* The last line with the name counts, and lines are in no certain order.  *)
(* x2 is the sum of x1 and the width, and may miss the right border, as it *)
(* is written for the next frame, by a bit.                                *)
get_target_xrange(name) == {<<X(f), Right(f) + bit>> : f \in Named(name), bit \in -1..1}

AppName == IF protocol # "grpc" THEN "echo-server" ELSE "server"

FindRanges ==
    /\ phase = "svg"
    /\ phase' = "ranges"
    /\ app_xranges' \in get_target_xrange(AppName)
    /\ \E first \in get_target_xrange("wrk:worker_0"), last \in get_target_xrange("wrk:worker_1") :
           proxy_xranges' = <<first[1], last[2]>>
    /\ UNCHANGED <<protocol, k, samples, result, models>>

(* x1 is unbound: the process was not sampled, or too rarely to be drawn.  *)
NotDrawn ==
    /\ phase = "svg"
    /\ \E name \in {AppName, "wrk:worker_0", "wrk:worker_1"} : Named(name) = {}
    /\ phase' = "failed"
    /\ UNCHANGED <<protocol, k, samples, app_xranges, proxy_xranges, result, models>>

(* Fault variants, here and below: what the definition after each would be *)
(* with a slip in the code. They are not part of CpuNext.                  *)
RightOf(x, range) == range[1] <= x

Inside(x, range) == range[1] <= x /\ x <= range[2]

Counted(name, range) == {f \in Named(name) : Inside(X(f), range)}

(* get_target_cpu_percentage, with and without xranges.                    *)
Within(name, range) == MapThenSumSet(Width, Counted(name, range))
Anywhere(name) == MapThenSumSet(Width, Named(name))

get_cpu_breakdown(app) ==
    LET P(name) == Within(name, proxy_xranges)
        A(name) == Within(name, app_xranges)
        parsed == protocol \in {"http", "grpc"}
        backlog == P(PROXY.WRITE[1])
        bridge == P(PROXY.IPC)
        read == P(PROXY.READ)
        write == P(PROXY.WRITE[2]) - backlog
        loopback == backlog - bridge
        epoll == P(PROXY.EPOLL)
        user == Anywhere(PROXY.USER[1]) + Anywhere(PROXY.USER[2])
                - (read + write + epoll) + loopback
        parsing == IF parsed THEN Anywhere(PROXY.PARSE) ELSE 0
        app_loopback == A(APP.IPC)
        app_write == A(APP.WRITE) - app_loopback
        app_userspace == Anywhere(app) - A(APP.READ) - app_write - app_loopback
        values == read + backlog + write + bridge + loopback + epoll + user + parsing
                  + A(APP.READ) + app_loopback + app_write + app_userspace
    IN [envoy_read |-> read, envoy_process_backlog |-> backlog, envoy_write |-> write,
        envoy_br_handle_frame |-> bridge, envoy_loopback |-> loopback, envoy_epoll |-> epoll,
        envoy_userspace |-> user, envoy_parsing |-> parsing,
        app_read |-> A(APP.READ), app_loopback |-> app_loopback, app_write |-> app_write,
        app_userspace |-> app_userspace, others |-> All - values + parsing]

ParsingTwice(b) == b.others + b.envoy_parsing

Others(b) == b.others

(* Halves of samples, because of the divisions by two.                     *)
parse_cpu_breakdown(b) ==
    [read |-> b.envoy_read + 2 * b.app_read,
     write |-> b.envoy_write + 2 * b.app_write,
     ipc |-> 2 * (b.envoy_loopback + b.app_loopback),
     epoll |-> 2 * b.envoy_epoll,
     app_userspace |-> 2 * b.app_userspace,
     parsing |-> IF protocol = "tcp" THEN 0 ELSE 2 * b.envoy_parsing,
     others_proxy |-> 2 * b.envoy_userspace,
     others |-> 2 * Others(b)]

Breakdown ==
    /\ phase = "ranges"
    /\ phase' = "load" /\ k' = k + 1
    /\ result' = [p \in DOMAIN result \cup {Pairs[k]} |->
           IF p = Pairs[k] THEN parse_cpu_breakdown(get_cpu_breakdown("echo-server"))
           ELSE result[p]]
    /\ UNCHANGED <<protocol, samples, app_xranges, proxy_xranges, models>>

-----------------------------------------------------------------------------
BytesPerSecond(pair) == pair[1] * pair[2]
Points(field) == [j \in DOMAIN Pairs |-> <<BytesPerSecond(Pairs[j]), result[Pairs[j]][field]>>]

Regressions == [read_reg |-> "read", write_reg |-> "write", epoll_reg |-> "epoll", ipc_reg |-> "ipc",
                envoy_reg |-> "others_proxy"]
Fields == IF protocol = "tcp" THEN Regressions ELSE Regressions @@ [parsing_reg |-> "parsing"]

build_cpu_model ==
    /\ phase = "load" /\ k > Len(Pairs)
    /\ phase' = "done"
    /\ models' = [reg \in DOMAIN Fields |-> Points(Fields[reg])]
    /\ UNCHANGED <<protocol, k, samples, app_xranges, proxy_xranges, result>>

CpuNext == generate_flamegraph \/ FindRanges \/ NotDrawn \/ Breakdown \/ build_cpu_model

CpuSpec == CpuInit /\ [][CpuNext]_cpuVars

-----------------------------------------------------------------------------
Proxy == {PROXY.USER[1], PROXY.USER[2]}

(* "We are only interested in function that is within the xranges": all    *)
(* drawn calls of a process begin within its range and before its end; one *)
(* of another process does only if it is drawn where the range ends, for   *)
(* no rounding brings together what is drawn apart.                        *)
OwnCalls(range, names) ==
    \A f \in Frames :
        LET x == X(f) IN
        IF f[1] \in names THEN Inside(x, range) /\ range[1] <= x /\ x < range[2]
        ELSE Inside(x, range) => x \in {range[2] - 1, range[2]}
NoCrossTalk ==
    phase = "ranges" => OwnCalls(proxy_xranges, Proxy) /\ OwnCalls(app_xranges, {AppName})

(* The calls of a function, as positions in stacks, that are charged to    *)
(* the processes of a range: their own, and those of the next process that *)
(* are drawn where the range ends, as far as they are drawn. A call within *)
(* a call of the same function is charged again.                           *)
ChargedCalls(name, range, names) ==
    {c \in UNION {{<<s, n>> : n \in DOMAIN Stacks[s]} : s \in DOMAIN Stacks} :
        LET frame == SubSeq(Stacks[c[1]], 1, c[2])
        IN  /\ Stacks[c[1]][c[2]] = name /\ Drawn(frame)
            /\ Stacks[c[1]][1] \in names \/ X(frame) \in {range[2] - 1, range[2]}}
Charged(name, range, names) ==
    MapThenSumSet(LAMBDA c : samples[c[1]], ChargedCalls(name, range, names))

DrawnSamples(names) ==
    MapThenSumSet(LAMBDA s : samples[s],
        {s \in DOMAIN Stacks : Stacks[s][1] \in names /\ Drawn(<<Stacks[s][1]>>)})

(* What the models are built from are the samples of the calls, whatever   *)
(* the picture looks like. "Get other background processes CPU usage":     *)
(* what is left for the others lacks the packets handled within the        *)
(* proxy's writes three times, but for those that reach the bridge, and    *)
(* has the application in it if that is not called echo-server.            *)
SharesAsSampled ==
    phase = "ranges" =>
        LET proxy(name) == Charged(name, proxy_xranges, Proxy)
            app(name) == Charged(name, app_xranges, {AppName})
            share == parse_cpu_breakdown(get_cpu_breakdown("echo-server"))
            backlog == proxy(PROXY.WRITE[1])
            bridge == proxy(PROXY.IPC)
        IN  /\ share.read = proxy(PROXY.READ) + 2 * app(APP.READ)
            /\ share.write = proxy(PROXY.WRITE[2]) - backlog
                               + 2 * (app(APP.WRITE) - app(APP.IPC))
            /\ share.ipc = 2 * (backlog - bridge + app(APP.IPC))
            /\ share.epoll = 2 * proxy(PROXY.EPOLL)
            /\ share.others =
                 2 * (All - DrawnSamples(Proxy \cup {"echo-server"}) - 3 * backlog + bridge)
=============================================================================
