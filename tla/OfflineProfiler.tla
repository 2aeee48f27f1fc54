-------------------------- MODULE OfflineProfiler --------------------------
(***************************************************************************)
(* A life of profiler/offline_profiler.py: the script is started, deploys  *)
(* an echo server per protocol, drives it with one wrk process at a time,  *)
(* measures, fits models and saves the profile at the very end; it may be  *)
(* aborted or raise at any step, and be started again on what it left.     *)
(*                                                                         *)
(* Around it: the wrk processes, which are forked before they are found by *)
(* pidof, run for a fixed time and survive the script; the pods of the     *)
(* echo server; the profile file. Steps that sleep or wait for kubectl or  *)
(* for a measurement are long: a forked wrk has been executed before one   *)
(* ends.                                                                   *)
(***************************************************************************)
EXTENDS Integers, Sequences, FiniteSets

CONSTANTS Pids, NoPid,
          Protocols,      \* cfg.PROTOCOLS, in order
          Workloads,      \* workloads per protocol: sizes, or sizes and rates
          WrkLife,        \* wrk's -d, in durations of one measurement
          MaxRuns         \* how often the script is started

Kinds == {"latency", "cpu"}

ASSUME NoPidAssumption == NoPid \notin Pids
ASSUME ProtocolsAssumption == Protocols \in Seq(STRING)
ASSUME CountAssumption ==
    /\ Workloads \in Nat \ {0} /\ WrkLife \in Nat \ {0} /\ MaxRuns \in Nat

VARIABLES
    pc,                    \* what the script does, "off" when it does not run
    stage,                 \* where clean_up was called from
    asked,                 \* the kinds of job of this run's arguments
    jobs,                  \* jobs left, the current one first
    workload, measured,    \* progress in the current job and workload
    wrk_pid,               \* the pid get_pid returned
    profile,               \* jobs in the profile built in memory
    wrk, left,             \* state of each wrk process, and the time it has left
    spinners,              \* getpid loops profile_syscall has started and not stopped
    pods,                  \* the echo server in the cluster
    file,                  \* profile.pkl: its state, its jobs, and those asked for
    idle,                  \* measurements of this run taken without load (history)
    runs, aborted          \* runs started, and those of them that did not end (history)

env == <<wrk, left, spinners, pods, file>>
progress == <<stage, asked, jobs, workload, measured, wrk_pid, profile, idle, runs,
              aborted>>
vars == <<pc, stage, asked, jobs, workload, measured, wrk_pid, profile, wrk, left,
          spinners, pods, file, idle, runs, aborted>>

JobsOf(kinds) ==
    LET run(k) == IF k \in kinds
                  THEN [i \in DOMAIN Protocols |-> [kind |-> k, proto |-> Protocols[i]]]
                  ELSE <<>>
    IN  run("latency") \o run("cpu")
JobSet(kinds) == {JobsOf(kinds)[i] : i \in DOMAIN JobsOf(kinds)}
NoFile == [state |-> "absent", jobs |-> {}, asked |-> {}]

Init ==
    /\ pc = "off" /\ stage = "start" /\ asked = {} /\ jobs = <<>>
    /\ workload = 0 /\ measured = 0 /\ wrk_pid = NoPid /\ profile = {}
    /\ wrk = [p \in Pids |-> "none"] /\ left = [p \in Pids |-> 0]
    /\ spinners = 0 /\ pods = "none" /\ file = NoFile
    /\ idle = 0 /\ runs = 0 /\ aborted = 0

job == Head(jobs)
Alive == {p \in Pids : wrk[p] # "none"}
Found == {p \in Pids : wrk[p] = "running"}     \* what pidof wrk prints
Long == \A p \in Pids : wrk[p] # "forked"

-----------------------------------------------------------------------------
(* main up to its first clean_up.                                          *)
Start(kinds) ==
    /\ pc = "off" /\ runs < MaxRuns
    /\ pc' = "delete" /\ stage' = "start"
    /\ asked' = kinds /\ jobs' = JobsOf(kinds)
    /\ workload' = 0 /\ measured' = 0 /\ wrk_pid' = NoPid /\ profile' = {}
    /\ idle' = 0 /\ runs' = runs + 1
    /\ UNCHANGED <<aborted, env>>

(* clean_up, first half: kubectl delete all --all.                         *)
DeletePods ==
    /\ pc = "delete" /\ Long
    /\ pods' = "none"
    /\ pc' = "kill_stray"
    /\ UNCHANGED <<progress, wrk, left, spinners, file>>

AfterCleanUpSavingEarly ==
    IF stage = "saved" THEN "off"
    ELSE IF stage = "job" \/ jobs = <<>> THEN "save"
    ELSE IF "latency" \in asked THEN "getpid_loop"
    ELSE "deploy"

AfterCleanUp ==
    IF stage = "saved" THEN "off"
    ELSE IF stage = "start" /\ "latency" \in asked THEN "getpid_loop"
    ELSE IF (IF stage = "job" THEN Tail(jobs) ELSE jobs) = <<>> THEN "save"
    ELSE "deploy"

(* The rest of main between two calls of clean_up: the models of a job     *)
(* that is over are put into the profile.                                  *)
KeepJob ==
    IF stage = "job"
    THEN profile' = profile \cup {job} /\ jobs' = Tail(jobs)
    ELSE UNCHANGED <<profile, jobs>>

LeaveStray ==
    /\ pc = "kill_stray" /\ Cardinality(Found) <= 1
    /\ pc' = AfterCleanUp
    /\ KeepJob
    /\ UNCHANGED <<wrk, stage, asked, workload, measured, wrk_pid, idle, runs, aborted, left,
                   spinners, pods, file>>

(* clean_up, second half: the wrk process pidof finds, if any, is killed.  *)
(* With two of them int() raises: see Raise.                               *)
KillStray ==
    /\ pc = "kill_stray" /\ Cardinality(Found) <= 1
    /\ wrk' = [p \in Pids |-> IF p \in Found THEN "none" ELSE wrk[p]]
    /\ pc' = AfterCleanUp
    /\ KeepJob
    /\ UNCHANGED <<stage, asked, workload, measured, wrk_pid, idle, runs, aborted, left,
                   spinners, pods, file>>

(* profile_syscall: the loop is started, measured and terminated.          *)
StartSpinner ==
    /\ pc = "getpid_loop"
    /\ spinners' = spinners + 1
    /\ pc' = "measure_getpid"
    /\ UNCHANGED <<progress, wrk, left, pods, file>>

LeaveSpinner ==
    /\ pc = "measure_getpid" /\ Long
    /\ pc' = IF jobs = <<>> THEN "save" ELSE "deploy"
    /\ UNCHANGED <<progress, env>>

StopSpinner ==
    /\ pc = "measure_getpid" /\ Long
    /\ spinners' = spinners - 1
    /\ pc' = IF jobs = <<>> THEN "save" ELSE "deploy"
    /\ UNCHANGED <<progress, wrk, left, pods, file>>

(* kubectl apply: with a wrong file no echo server ever appears.           *)
Deploy ==
    /\ pc = "deploy" /\ Long
    /\ pods' \in {"none", "pending"}
    /\ workload' = 0
    /\ pc' = "wait"
    /\ UNCHANGED <<stage, asked, jobs, measured, wrk_pid, profile, idle, runs, aborted, wrk,
                   left, spinners, file>>

PodsStart ==
    /\ pods = "pending" /\ pods' = "running"
    /\ UNCHANGED <<pc, progress, wrk, left, spinners, file>>

WaitForAnEchoPod ==
    /\ pc = "wait" /\ Long
    /\ pods = "running"
    /\ pc' = IF job.kind = "cpu" THEN "find_rate" ELSE "spawn"
    /\ UNCHANGED <<progress, env>>

(* wait_until_running returns when no echo pod is in another phase.        *)
WaitUntilRunning ==
    /\ pc = "wait" /\ Long
    /\ pods # "pending"
    /\ pc' = IF job.kind = "cpu" THEN "find_rate" ELSE "spawn"
    /\ UNCHANGED <<progress, env>>

(* A new process takes some pid that is free.                              *)
Fork(p, state, life) ==
    /\ wrk[p] = "none"
    /\ wrk' = [wrk EXCEPT ![p] = state]
    /\ left' = [left EXCEPT ![p] = life]

(* run_cpu_experiment first runs wrk2 to its end to find the maximum rate, *)
(* and raises if wrk2 printed none.                                        *)
StartFindRate(p) ==
    /\ pc = "find_rate"
    /\ Fork(p, "running", 1)
    /\ wrk_pid' = p
    /\ pc' = "rating"
    /\ UNCHANGED <<stage, asked, jobs, workload, measured, profile, idle, runs, aborted,
                   spinners, pods, file>>

EndFindRate ==
    /\ pc = "rating" /\ Long
    /\ wrk' = [wrk EXCEPT ![wrk_pid] = "none"]
    /\ pods = "running"
    /\ pc' = "spawn"
    /\ UNCHANGED <<progress, left, spinners, pods, file>>

(* One workload: Popen, get_pid, the measurements, kill -9.                *)
SpawnWrk(p) ==
    /\ pc = "spawn"
    /\ Fork(p, "forked", WrkLife)
    /\ measured' = 0
    /\ pc' = "get_pid"
    /\ UNCHANGED <<stage, asked, jobs, workload, wrk_pid, profile, idle, runs, aborted,
                   spinners, pods, file>>

Exec(p) ==
    /\ wrk[p] = "forked"
    /\ wrk' = [wrk EXCEPT ![p] = "running"]
    /\ UNCHANGED <<pc, progress, left, spinners, pods, file>>

(* get_pid raises unless pidof prints one pid; a latency job looks up the  *)
(* pids of the proxy and the echo server too.                              *)
GetPid ==
    /\ pc = "get_pid" /\ Cardinality(Found) = 1
    /\ job.kind = "latency" => pods = "running"
    /\ wrk_pid' = CHOOSE p \in Found : TRUE
    /\ pc' = "measure"
    /\ UNCHANGED <<stage, asked, jobs, workload, measured, profile, idle, runs, aborted, env>>

(* Every probe and every mpstat measures for the duration the user asks    *)
(* for: loopback, read, write, epoll and userspace of the proxy, parsing in*)
(* both directions unless it speaks tcp; loopback, read and write of the   *)
(* application. A cpu workload has five times mpstat, then perf.           *)
ProxyProbes(proto) == IF proto = "tcp" THEN 5 ELSE 7
AppProbes == 3
MpstatRuns == 5

MeasureEachSideTwice(j) ==
    IF j.kind = "latency" THEN 2 * (ProxyProbes(j.proto) + AppProbes) ELSE MpstatRuns + 1
WorkloadLength(j) ==
    IF j.kind = "latency" THEN ProxyProbes(j.proto) + AppProbes ELSE MpstatRuns + 1

(* Every wrk grows older by one measurement.                               *)
Measure ==
    /\ pc = "measure" /\ measured < WorkloadLength(job) /\ Long
    /\ idle' = IF wrk_pid \in Found THEN idle ELSE idle + 1
    /\ left' = [p \in Pids |-> IF p \in Found THEN left[p] - 1 ELSE left[p]]
    /\ wrk' = [p \in Pids |-> IF p \in Found /\ left[p] = 1 THEN "none" ELSE wrk[p]]
    /\ measured' = measured + 1
    /\ UNCHANGED <<pc, stage, asked, jobs, workload, wrk_pid, profile, runs, aborted,
                   spinners, pods, file>>

EndWorkload ==
    /\ pc = "measure" /\ measured = WorkloadLength(job)
    /\ wrk' = [wrk EXCEPT ![wrk_pid] = "none"]
    /\ workload' = workload + 1
    /\ IF workload' < Workloads
       THEN pc' = "spawn" /\ UNCHANGED stage
       ELSE pc' = "delete" /\ stage' = "job"
    /\ UNCHANGED <<asked, jobs, measured, wrk_pid, profile, idle, runs, aborted, left,
                   spinners, pods, file>>

(* open(..., "wb") empties the file, pickle.dump and close fill it.        *)
OpenProfile ==
    /\ pc = "save"
    /\ file' = [state |-> "torn", jobs |-> {}, asked |-> asked]
    /\ pc' = "dump"
    /\ UNCHANGED <<progress, wrk, left, spinners, pods>>

DumpProfile ==
    /\ pc = "dump"
    /\ file' = [state |-> "complete", jobs |-> profile, asked |-> asked]
    /\ stage' = "saved"
    /\ pc' = "delete"
    /\ UNCHANGED <<asked, jobs, workload, measured, wrk_pid, profile, idle, runs, aborted,
                   wrk, left, spinners, pods>>

(* Any step may raise, and the user may stop the script: nothing is undone *)
(* and the processes it started go on.                                     *)
Abort ==
    /\ pc # "off"
    /\ pc' = "off" /\ stage' = "aborted" /\ aborted' = aborted + 1
    /\ UNCHANGED <<asked, jobs, workload, measured, wrk_pid, profile, idle, runs, env>>

(* The steps that raise because of what they find: two wrk processes, none *)
(* yet, no echo server, no maximum rate.                                   *)
Raise ==
    /\ \/ pc = "kill_stray" /\ Cardinality(Found) > 1
       \/ pc = "get_pid" /\ (Cardinality(Found) # 1 \/ pods # "running")
       \/ pc = "rating" /\ pods # "running"
    /\ Abort

(* A wrk process that an earlier run left runs out, before the script is   *)
(* started again or while its first clean_up is deleting the pods.         *)
WrkExit(p) ==
    /\ pc \in {"off", "delete", "kill_stray"} /\ wrk[p] = "running"
    /\ wrk' = [wrk EXCEPT ![p] = "none"]
    /\ UNCHANGED <<pc, progress, left, spinners, pods, file>>

Step ==
    \/ DeletePods \/ KillStray \/ StartSpinner \/ StopSpinner
    \/ Deploy \/ WaitUntilRunning
    \/ \E p \in Pids : StartFindRate(p) \/ SpawnWrk(p)
    \/ EndFindRate \/ GetPid \/ Measure \/ EndWorkload \/ OpenProfile \/ DumpProfile

Next ==
    \/ \E kinds \in SUBSET Kinds : Start(kinds)
    \/ Step \/ Abort \/ PodsStart
    \/ \E p \in Pids : Exec(p) \/ WrkExit(p)

(* The script takes its steps as long as one is possible, a pod that is    *)
(* pending comes up, a forked process is executed, and a step that cannot  *)
(* be taken raises. Nobody has to start or stop the script.                *)
Fairness ==
    /\ WF_vars(Step) /\ WF_vars(PodsStart)
    /\ \A p \in Pids : WF_vars(Exec(p))
    /\ WF_vars(Raise)

Spec == Init /\ [][Next]_vars /\ Fairness

-----------------------------------------------------------------------------
(* Over any number of aborted and repeated runs there is never more than   *)
(* one wrk process: with two, get_pid raises on pidof's answer, in clean_up*)
(* as well, and no later run could get past its first step.                *)
AtMostOneWrk == \A p, q \in Alive : p = q

(* Every measurement is taken under load, as long as the 800 s of wrk are  *)
(* at least ten measurements: for durations of up to 80 s.                 *)
MeasuredUnderLoad == WrkLife >= 10 => idle = 0

(* A profile that can be read holds every job the run that saved it was    *)
(* asked for, in spite of all the runs that were aborted before.           *)
SavedProfileComplete == file.state = "complete" => file.jobs = JobSet(file.asked)

(* A run that has come to its end leaves no wrk process and no deployment, *)
(* whatever earlier runs left it.                                          *)
CleanExit == pc = "off" /\ stage = "saved" => Alive = {} /\ pods = "none"

(* Only an aborted run leaves its getpid loop behind, and only one: cpu is *)
(* measured beside no more loops than runs were aborted.                   *)
SpinnersFromAborts == spinners <= aborted + (IF pc = "measure_getpid" THEN 1 ELSE 0)

(* Every run comes to an end.                                              *)
RunEnds == pc # "off" ~> pc = "off"

(* "If we can not find echo server status, the yaml files are probably     *)
(* wrong": the wait is only over when an echo server is there.             *)
WaitFindsEchoServer == pc \in {"find_rate", "spawn"} => pods = "running"
=============================================================================
