----------------------- MODULE OfflineProfilerProofs -----------------------
(***************************************************************************)
(* However often the script is aborted and started again, whatever its     *)
(* protocols, workloads and durations: one wrk process at most is alive,   *)
(* a run that ends leaves nothing behind, and leaked getpid loops are      *)
(* paid for by aborted runs.                                               *)
(***************************************************************************)
EXTENDS OfflineProfiler, CpuBreakdown, FiniteSums, SequenceTheorems

(* Where no wrk process is alive: from a clean_up to the next Popen.       *)
NoLoad == {"getpid_loop", "measure_getpid", "deploy", "wait", "find_rate", "spawn",
           "save", "dump"}

(* The types the argument needs.                                           *)
WrkOK == wrk \in [Pids -> {"none", "forked", "running"}]
CountsOK == spinners \in Int /\ aborted \in Nat

(* Which processes are alive where. kubectl delete takes so long that      *)
(* pidof then sees every process there is.                                 *)
LoadOK ==
    /\ pc \in NoLoad => Alive = {}
    /\ pc = "kill_stray" => Alive = Found
    /\ pc \in {"measure", "rating"} => Alive \subseteq {wrk_pid}

(* A saved profile is followed by the last clean_up and nothing else.      *)
SavedOK ==
    stage = "saved" => /\ pc \in {"delete", "kill_stray", "off"}
                       /\ Alive = {}
                       /\ pc # "delete" => pods = "none"

Inv == /\ WrkOK /\ CountsOK /\ AtMostOneWrk /\ LoadOK /\ SavedOK /\ SpinnersFromAborts

-----------------------------------------------------------------------------
(* Nothing runs before the first start.                                    *)
LEMMA InitInv == Init => Inv
  BY DEF Init, Inv, WrkOK, CountsOK, AtMostOneWrk, LoadOK, SavedOK, SpinnersFromAborts,
         Alive, Found, NoLoad

(* A fork where nothing is alive leaves one process alive.                 *)
LEMMA ForkOne ==
  ASSUME WrkOK, Alive = {}, NEW p \in Pids, NEW s \in {"forked", "running"}, NEW l, Fork(p, s, l)
  PROVE  WrkOK' /\ Alive' = {p}
  BY DEF WrkOK, Fork, Alive

(* get_pid returns the only process alive.                                 *)
LEMMA FoundIsAlive ==
  ASSUME WrkOK, AtMostOneWrk, Cardinality(Found) = 1
  PROVE  Alive \subseteq {CHOOSE p \in Found : TRUE}
<1>1. Found # {}
  BY FS_EmptySet
<1>2. (CHOOSE p \in Found : TRUE) \in Found
  BY <1>1
<1>3. Found \subseteq Alive
  BY DEF Found, Alive
<1> QED
  BY <1>2, <1>3 DEF AtMostOneWrk

(* The steps of the script that touch neither a process nor a pod, nor     *)
(* leave a place where something is known.                                 *)
LEMMA NextInv == Inv /\ [Next]_vars => Inv'
<1> SUFFICES ASSUME Inv, [Next]_vars PROVE Inv'
  OBVIOUS
<1> USE DEF env, progress
<1>0. WrkOK /\ CountsOK /\ AtMostOneWrk /\ LoadOK /\ SavedOK /\ SpinnersFromAborts
  BY DEF Inv
<1>1. ASSUME NEW kinds \in SUBSET Kinds, Start(kinds) PROVE Inv'
  BY <1>0, <1>1 DEF Start, Inv, WrkOK, CountsOK, AtMostOneWrk, LoadOK, SavedOK,
                    SpinnersFromAborts, Alive, Found, NoLoad
<1>2. CASE DeletePods
  <2>1. Alive = Found
    BY <1>0, <1>2 DEF DeletePods, Long, Alive, Found, WrkOK
  <2> QED
    BY <2>1, <1>0, <1>2 DEF DeletePods, Inv, WrkOK, CountsOK, AtMostOneWrk, LoadOK,
                            SavedOK, SpinnersFromAborts, Alive, Found, NoLoad
<1>3. CASE KillStray
  <2>1. WrkOK' /\ Alive' = {}
    BY <1>0, <1>3 DEF KillStray, WrkOK, LoadOK, Alive, Found
  <2>2. AtMostOneWrk' /\ LoadOK' 
    BY <2>1, <1>3 DEF KillStray, AtMostOneWrk, LoadOK, AfterCleanUp, Found, Alive
  <2>3. SavedOK'
    BY <2>1, <1>0, <1>3 DEF KillStray, SavedOK, AfterCleanUp
  <2>4. CountsOK' /\ SpinnersFromAborts'
    BY <1>0, <1>3 DEF KillStray, CountsOK, SpinnersFromAborts, AfterCleanUp
  <2> QED
    BY <2>1, <2>2, <2>3, <2>4 DEF Inv
<1>4. CASE StartSpinner \/ StopSpinner
  <2>1. WrkOK' /\ AtMostOneWrk' /\ LoadOK' /\ SavedOK'
    BY <1>0, <1>4 DEF StartSpinner, StopSpinner, WrkOK, AtMostOneWrk, LoadOK, SavedOK,
                      Alive, Found, NoLoad
  <2>2. CountsOK' /\ SpinnersFromAborts'
    BY <1>0, <1>4 DEF StartSpinner, StopSpinner, CountsOK, SpinnersFromAborts
  <2> QED
    BY <2>1, <2>2 DEF Inv
<1>5. CASE Deploy \/ WaitUntilRunning \/ OpenProfile \/ DumpProfile
  BY <1>0, <1>5 DEF Deploy, WaitUntilRunning, OpenProfile, DumpProfile, Inv, WrkOK,
                    CountsOK, AtMostOneWrk, LoadOK, SavedOK, SpinnersFromAborts,
                    Alive, Found, NoLoad
<1>6. ASSUME NEW p \in Pids, StartFindRate(p) \/ SpawnWrk(p) PROVE Inv'
  <2>1. Alive = {}
    BY <1>0, <1>6 DEF StartFindRate, SpawnWrk, LoadOK, NoLoad
  <2>2. WrkOK' /\ Alive' = {p}
    BY <2>1, <1>0, <1>6, ForkOne DEF StartFindRate, SpawnWrk
  <2>3. AtMostOneWrk' /\ LoadOK'
    BY <2>2, <1>6 DEF StartFindRate, SpawnWrk, AtMostOneWrk, LoadOK, NoLoad
  <2>4. SavedOK' /\ CountsOK' /\ SpinnersFromAborts'
    BY <1>0, <1>6 DEF StartFindRate, SpawnWrk, SavedOK, CountsOK, SpinnersFromAborts
  <2> QED
    BY <2>2, <2>3, <2>4 DEF Inv
<1>7. CASE EndFindRate \/ EndWorkload
  <2>1. WrkOK' /\ Alive' = {}
    BY <1>0, <1>7 DEF EndFindRate, EndWorkload, WrkOK, LoadOK, Alive
  <2>2. AtMostOneWrk' /\ LoadOK'
    BY <2>1, <1>7 DEF EndFindRate, EndWorkload, AtMostOneWrk, LoadOK, NoLoad
  <2>3. SavedOK' /\ CountsOK' /\ SpinnersFromAborts'
    BY <2>1, <1>0, <1>7 DEF EndFindRate, EndWorkload, SavedOK, CountsOK, SpinnersFromAborts
  <2> QED
    BY <2>1, <2>2, <2>3 DEF Inv
<1>8. CASE GetPid
  <2>1. Alive' = Alive /\ Alive' \subseteq {wrk_pid'}
    BY <1>0, <1>8, FoundIsAlive DEF GetPid, Alive
  <2>2. WrkOK' /\ AtMostOneWrk' /\ LoadOK'
    BY <2>1, <1>0, <1>8 DEF GetPid, WrkOK, AtMostOneWrk, LoadOK, NoLoad
  <2>3. SavedOK' /\ CountsOK' /\ SpinnersFromAborts'
    BY <1>0, <1>8 DEF GetPid, SavedOK, CountsOK, SpinnersFromAborts
  <2> QED
    BY <2>2, <2>3 DEF Inv
<1>9. CASE Measure
  <2>1. WrkOK' /\ Alive' \subseteq Alive
    BY <1>0, <1>9 DEF Measure, WrkOK, Alive
  <2>2. AtMostOneWrk' /\ LoadOK'
    BY <2>1, <1>0, <1>9 DEF Measure, AtMostOneWrk, LoadOK, NoLoad
  <2>3. SavedOK' /\ CountsOK' /\ SpinnersFromAborts'
    BY <1>0, <1>9 DEF Measure, SavedOK, CountsOK, SpinnersFromAborts
  <2> QED
    BY <2>1, <2>2, <2>3 DEF Inv
<1>10. CASE Abort
  BY <1>0, <1>10 DEF Abort, Inv, WrkOK, CountsOK, AtMostOneWrk, LoadOK, SavedOK,
                     SpinnersFromAborts, Alive, Found, NoLoad
<1>11. CASE PodsStart
  BY <1>0, <1>11 DEF PodsStart, Inv, WrkOK, CountsOK, AtMostOneWrk, LoadOK, SavedOK,
                     SpinnersFromAborts, Alive, Found, NoLoad
<1>12. ASSUME NEW p \in Pids, Exec(p) PROVE Inv'
  <2>1. WrkOK' /\ Alive' = Alive
    BY <1>0, <1>12 DEF Exec, WrkOK, Alive
  <2>2. pc # "kill_stray"
    BY <1>0, <1>12 DEF Exec, LoadOK, Alive, Found
  <2>3. AtMostOneWrk' /\ LoadOK' /\ SavedOK' /\ CountsOK' /\ SpinnersFromAborts'
    BY <2>1, <2>2, <1>0, <1>12 DEF Exec, AtMostOneWrk, LoadOK, SavedOK, CountsOK,
                                   SpinnersFromAborts
  <2> QED
    BY <2>1, <2>3 DEF Inv
<1>13. ASSUME NEW p \in Pids, WrkExit(p) PROVE Inv'
  <2>1. WrkOK' /\ Alive' \subseteq Alive
    BY <1>0, <1>13 DEF WrkExit, WrkOK, Alive
  <2>2. Alive = Found => Alive' = Found'
    BY <1>0, <1>13 DEF WrkExit, WrkOK, Alive, Found
  <2>3. AtMostOneWrk' /\ SavedOK' /\ CountsOK' /\ SpinnersFromAborts'
    BY <2>1, <1>0, <1>13 DEF WrkExit, AtMostOneWrk, SavedOK, CountsOK, SpinnersFromAborts
  <2>4. LoadOK'
    BY <2>1, <2>2, <1>0, <1>13 DEF WrkExit, LoadOK, NoLoad
  <2> QED
    BY <2>1, <2>3, <2>4 DEF Inv
<1>14. CASE UNCHANGED vars
  BY <1>0, <1>14 DEF vars, Inv, WrkOK, CountsOK, AtMostOneWrk, LoadOK, SavedOK,
                     SpinnersFromAborts, Alive, Found, NoLoad
<1> QED
  BY <1>1, <1>2, <1>3, <1>4, <1>5, <1>6, <1>7, <1>8, <1>9, <1>10, <1>11, <1>12, <1>13,
     <1>14 DEF Next, Step

(* The invariant holds over any number of runs.                            *)
THEOREM InvHolds == Spec => []Inv
  BY InitInv, NextInv, PTL DEF Spec

-----------------------------------------------------------------------------
(* There is never a second wrk process: get_pid never meets two pids, and  *)
(* a clean_up always finds what an aborted run left.                       *)
THEOREM OneWrk == Spec => []AtMostOneWrk
<1>1. Inv => AtMostOneWrk
  BY DEF Inv
<1> QED
  BY InvHolds, <1>1, PTL

(* A run that ends leaves neither a wrk process nor a deployment.          *)
THEOREM ExitsClean == Spec => []CleanExit
<1>1. Inv => CleanExit
  BY DEF Inv, SavedOK, CleanExit
<1> QED
  BY InvHolds, <1>1, PTL

(* Leaked getpid loops never outnumber the aborted runs.                   *)
THEOREM LeaksBounded == Spec => []SpinnersFromAborts
<1>1. Inv => SpinnersFromAborts
  BY DEF Inv
<1> QED
  BY InvHolds, <1>1, PTL

-----------------------------------------------------------------------------
(* The jobs of a run: what is in the profile and what is still to be done  *)
(* are the jobs that were asked for; only a run that has done them saves,  *)
(* and while a job is worked on there is one.                              *)
AnyJob == [kind : Kinds, proto : STRING]
Todo == {jobs[n] : n \in DOMAIN jobs}
Working == {"deploy", "wait", "find_rate", "rating", "spawn", "get_pid", "measure"}

JobsInv ==
    /\ jobs \in Seq(AnyJob)
    /\ pc # "off" /\ stage # "saved" => profile \cup Todo = JobSet(asked)
    /\ pc \in {"save", "dump"} => jobs = <<>> /\ stage # "saved"
    /\ pc \in Working \/ (pc \in {"delete", "kill_stray"} /\ stage = "job") => jobs # <<>>
    /\ pc \in Working \cup {"getpid_loop", "measure_getpid"} => stage # "saved"
    /\ SavedProfileComplete

(* The jobs of a set of kinds are a list of jobs.                          *)
LEMMA JobLists == ASSUME NEW kinds \in SUBSET Kinds PROVE JobsOf(kinds) \in Seq(AnyJob)
<1>1. \A kind \in Kinds :
        [n \in DOMAIN Protocols |-> [kind |-> kind, proto |-> Protocols[n]]] \in Seq(AnyJob)
  <2> SUFFICES ASSUME NEW kind \in Kinds
               PROVE  [n \in DOMAIN Protocols |-> [kind |-> kind, proto |-> Protocols[n]]] \in Seq(AnyJob)
    OBVIOUS
  <2>1. DOMAIN Protocols = 1..Len(Protocols) /\ Len(Protocols) \in Nat
        /\ \A n \in 1..Len(Protocols) : Protocols[n] \in STRING
    BY ProtocolsAssumption
  <2>2. [n \in 1..Len(Protocols) |-> [kind |-> kind, proto |-> Protocols[n]]]
          \in [1..Len(Protocols) -> AnyJob]
    BY <2>1 DEF AnyJob
  <2> QED  BY <2>1, <2>2, SeqDef
<1>2. <<>> \in Seq(AnyJob)
  OBVIOUS
<1> DEFINE run(kind) == IF kind \in kinds
                     THEN [n \in DOMAIN Protocols |-> [kind |-> kind, proto |-> Protocols[n]]]
                     ELSE <<>>
<1>3. run("latency") \in Seq(AnyJob) /\ run("cpu") \in Seq(AnyJob)
  BY <1>1, <1>2 DEF Kinds
<1> QED
  BY <1>3 DEF JobsOf

(* Taking the first job off the list.                                      *)
LEMMA FirstAndRest ==
  ASSUME jobs \in Seq(AnyJob), jobs # <<>>
  PROVE  /\ Tail(jobs) \in Seq(AnyJob)
         /\ Todo = {job} \cup {Tail(jobs)[n] : n \in DOMAIN Tail(jobs)}
<1>1. /\ Tail(jobs) \in Seq(AnyJob) /\ Len(jobs) \in Nat /\ Len(jobs) >= 1
      /\ Len(Tail(jobs)) = Len(jobs) - 1 /\ DOMAIN jobs = 1..Len(jobs)
      /\ DOMAIN Tail(jobs) = 1..(Len(jobs) - 1)
      /\ \A n \in 1..(Len(jobs) - 1) : Tail(jobs)[n] = jobs[n + 1]
      /\ job = jobs[1]
  BY DEF job
<1>2. ASSUME NEW x \in Todo PROVE x \in {job} \cup {Tail(jobs)[n] : n \in DOMAIN Tail(jobs)}
  <2>1. PICK n \in 1..Len(jobs) : x = jobs[n]
    BY <1>1, <1>2 DEF Todo
  <2>2. CASE n = 1
    BY <2>1, <2>2, <1>1
  <2>3. CASE n # 1
    <3>1. n - 1 \in 1..(Len(jobs) - 1) /\ Tail(jobs)[n - 1] = jobs[n]
      BY <1>1, <2>1, <2>3
    <3> QED  BY <2>1, <3>1, <1>1
  <2> QED  BY <2>2, <2>3
<1>3. ASSUME NEW x \in {job} \cup {Tail(jobs)[n] : n \in DOMAIN Tail(jobs)} PROVE x \in Todo
  <2>1. 1 \in DOMAIN jobs /\ \A n \in DOMAIN Tail(jobs) : n + 1 \in DOMAIN jobs
    BY <1>1
  <2> QED  BY <1>1, <1>3, <2>1 DEF Todo
<1> QED  BY <1>1, <1>2, <1>3

(* At the start there are no jobs and nothing is in the profile.           *)
LEMMA InitJobs == Init => JobsInv
  BY DEF Init, JobsInv, SavedProfileComplete, NoFile, Working

(* Every step keeps what is known of jobs and profile.                     *)
LEMMA NextJobs == JobsInv /\ [Next]_vars => JobsInv'
<1> SUFFICES ASSUME JobsInv, [Next]_vars PROVE JobsInv'
  OBVIOUS
<1> USE DEF env, progress
<1>0. /\ jobs \in Seq(AnyJob)
      /\ pc # "off" /\ stage # "saved" => profile \cup Todo = JobSet(asked)
      /\ pc \in {"save", "dump"} => jobs = <<>> /\ stage # "saved"
      /\ pc \in Working \/ (pc \in {"delete", "kill_stray"} /\ stage = "job") => jobs # <<>>
      /\ pc \in Working \cup {"getpid_loop", "measure_getpid"} => stage # "saved"
      /\ SavedProfileComplete
  BY DEF JobsInv
<1>1. ASSUME NEW kinds \in SUBSET Kinds, Start(kinds) PROVE JobsInv'
  <2>1. /\ jobs' = JobsOf(kinds) /\ asked' = kinds /\ profile' = {}
        /\ pc' = "delete" /\ stage' = "start" /\ file' = file
    BY <1>1 DEF Start
  <2>2. Todo' = JobSet(asked)'
    BY <2>1 DEF Todo, JobSet
  <2> QED
    BY <2>1, <2>2, <1>0, JobLists DEF JobsInv, SavedProfileComplete, Working
<1>2. CASE KillStray
  <2>1. /\ pc = "kill_stray" /\ pc' = AfterCleanUp /\ KeepJob
        /\ stage' = stage /\ asked' = asked /\ file' = file
    BY <1>2 DEF KillStray
  <2>2. CASE stage = "job"
    <3>1. /\ jobs' = Tail(jobs) /\ profile' = profile \cup {job}
      BY <2>1, <2>2 DEF KeepJob
    <3>2. jobs' \in Seq(AnyJob) /\ profile' \cup Todo' = profile \cup Todo
      BY <3>1, <2>1, <2>2, <1>0, FirstAndRest DEF Todo
    <3>3. JobSet(asked)' = JobSet(asked)
      BY <2>1 DEF JobSet
    <3>4. pc' = IF jobs' = <<>> THEN "save" ELSE "deploy"
      BY <2>1, <2>2, <3>1 DEF AfterCleanUp
    <3> QED
      BY <3>2, <3>3, <3>4, <2>1, <2>2, <1>0 DEF JobsInv, SavedProfileComplete, Working
  <2>3. CASE stage # "job"
    <3>1. jobs' = jobs /\ profile' = profile
      BY <2>1, <2>3 DEF KeepJob
    <3>2. Todo' = Todo /\ JobSet(asked)' = JobSet(asked)
      BY <3>1, <2>1 DEF Todo, JobSet
    <3>3. \/ pc' = "off" /\ stage = "saved"
          \/ pc' = "getpid_loop" /\ stage # "saved"
          \/ pc' = "save" /\ jobs = <<>> /\ stage # "saved"
          \/ pc' = "deploy" /\ jobs # <<>> /\ stage # "saved"
      BY <2>1, <2>3 DEF AfterCleanUp
    <3> QED
      BY <3>1, <3>2, <3>3, <2>1, <1>0 DEF JobsInv, SavedProfileComplete, Working
  <2> QED  BY <2>2, <2>3
<1>3. CASE StopSpinner
  <2>1. Todo' = Todo /\ JobSet(asked)' = JobSet(asked)
    BY <1>3 DEF StopSpinner, Todo, JobSet
  <2> QED
    BY <2>1, <1>0, <1>3 DEF StopSpinner, JobsInv, SavedProfileComplete, Working
<1>4. CASE DumpProfile
  <2>1. /\ jobs = <<>> /\ profile \cup Todo = JobSet(asked)
        /\ file' = [state |-> "complete", jobs |-> profile, asked |-> asked]
    BY <1>0, <1>4 DEF DumpProfile
  <2>2. profile = JobSet(asked)
    <3>1. Todo = {}
      BY <2>1 DEF Todo
    <3> QED  BY <2>1, <3>1
  <2>3. JobSet(file'.asked) = JobSet(asked) /\ SavedProfileComplete'
    BY <2>1, <2>2 DEF SavedProfileComplete, JobSet
  <2> QED
    BY <2>3, <1>0, <1>4 DEF DumpProfile, JobsInv, Working
<1>5. CASE OpenProfile
  <2>1. Todo' = Todo /\ JobSet(asked)' = JobSet(asked)
    BY <1>5 DEF OpenProfile, Todo, JobSet
  <2> QED
    BY <2>1, <1>0, <1>5 DEF OpenProfile, JobsInv, SavedProfileComplete, Working
<1>6. CASE Abort
  BY <1>0, <1>6 DEF Abort, JobsInv, SavedProfileComplete, Working
<1>7. ASSUME \/ DeletePods \/ StartSpinner \/ Deploy \/ WaitUntilRunning
             \/ \E p \in Pids : StartFindRate(p) \/ SpawnWrk(p)
             \/ EndFindRate \/ GetPid \/ Measure \/ EndWorkload
      PROVE  JobsInv'
  <2>1. jobs' = jobs /\ profile' = profile /\ asked' = asked /\ file' = file
    BY <1>7 DEF DeletePods, StartSpinner, Deploy, WaitUntilRunning, StartFindRate, SpawnWrk,
                EndFindRate, GetPid, Measure, EndWorkload
  <2>2. /\ pc # "off"
        /\ \/ pc = "delete" /\ pc' = "kill_stray" /\ stage' = stage
           \/ pc = "getpid_loop" /\ pc' = "measure_getpid" /\ stage' = stage
           \/ pc \in Working /\ pc' \in Working /\ stage' = stage
           \/ pc \in Working /\ pc' = "delete" /\ stage' = "job"
    BY <1>7 DEF DeletePods, StartSpinner, Deploy, WaitUntilRunning, StartFindRate, SpawnWrk,
                EndFindRate, GetPid, Measure, EndWorkload, Working
  <2>3. Todo' = Todo /\ JobSet(asked)' = JobSet(asked)
    BY <2>1 DEF Todo, JobSet
  <2> QED
    BY <2>1, <2>2, <2>3, <1>0 DEF JobsInv, SavedProfileComplete, Working
<1>8. ASSUME PodsStart \/ (\E p \in Pids : Exec(p) \/ WrkExit(p)) \/ UNCHANGED vars
      PROVE  JobsInv'
  <2>1. /\ jobs' = jobs /\ profile' = profile /\ asked' = asked /\ file' = file
        /\ pc' = pc /\ stage' = stage
    BY <1>8 DEF PodsStart, Exec, WrkExit, vars
  <2>2. Todo' = Todo /\ JobSet(asked)' = JobSet(asked)
    BY <2>1 DEF Todo, JobSet
  <2> QED
    BY <2>1, <2>2, <1>0 DEF JobsInv, SavedProfileComplete, Working
<1> QED
  BY <1>1, <1>2, <1>3, <1>4, <1>5, <1>6, <1>7, <1>8 DEF Next, Step

(* Whatever was aborted before, a profile that can be read holds every job *)
(* that the run which saved it was asked for.                              *)
THEOREM CompleteIfSaved == Spec => []SavedProfileComplete
<1>1. JobsInv => SavedProfileComplete
  BY DEF JobsInv
<1> QED
  BY InitJobs, NextJobs, <1>1, PTL DEF Spec

-----------------------------------------------------------------------------
(* How old the wrk process is: a new one has all of its life before it,    *)
(* and every measurement takes one unit of it.                             *)
WrkLasts == WrkLife >= 10

LifeOK == left \in [Pids -> Int] /\ idle \in Nat

AgeOK ==
    /\ pc = "get_pid" => measured = 0 /\ \A p \in Alive : left[p] = WrkLife
    /\ pc = "measure" =>
          /\ measured \in Nat
          /\ measured < WrkLife => /\ wrk_pid \in Pids /\ wrk[wrk_pid] = "running"
                                  /\ left[wrk_pid] = WrkLife - measured

LoadInv == Inv /\ JobsInv /\ (WrkLasts => LifeOK /\ AgeOK /\ idle = 0)

(* At the start no load generator runs.                                    *)
LEMMA InitLoad == Init => LoadInv
<1>1. Init => LifeOK /\ AgeOK /\ idle = 0
  BY DEF Init, LifeOK, AgeOK
<1> QED
  BY <1>1, InitInv, InitJobs DEF LoadInv

(* Every step keeps the age of the load generator below the time it was    *)
(* started for.                                                            *)
LEMMA NextLoad == LoadInv /\ [Next]_vars => LoadInv'
<1> SUFFICES ASSUME LoadInv, [Next]_vars, WrkLasts, LifeOK, AgeOK, idle = 0
             PROVE  LifeOK' /\ AgeOK' /\ idle' = 0
  BY NextInv, NextJobs DEF LoadInv, WrkLasts
<1> USE DEF env, progress
<1>0. WrkOK /\ LoadOK /\ AtMostOneWrk /\ WrkLife \in Nat \ {0}
  BY CountAssumption DEF LoadInv, Inv
<1>1. ASSUME NEW p \in Pids, SpawnWrk(p) PROVE LifeOK' /\ AgeOK' /\ idle' = 0
  <2>1. Alive = {}
    BY <1>0, <1>1 DEF SpawnWrk, LoadOK, NoLoad
  <2>2. Alive' = {p} /\ left' = [left EXCEPT ![p] = WrkLife]
    BY <2>1, <1>0, <1>1, ForkOne DEF SpawnWrk, Fork
  <2> QED
    BY <2>2, <1>0, <1>1 DEF SpawnWrk, LifeOK, AgeOK
<1>2. ASSUME NEW p \in Pids, StartFindRate(p) PROVE LifeOK' /\ AgeOK' /\ idle' = 0
  BY <1>0, <1>2 DEF StartFindRate, Fork, LifeOK, AgeOK
<1>3. CASE GetPid
  <2>1. wrk_pid' \in Found
    <3>1. Found # {}
      BY <1>3, FS_EmptySet DEF GetPid
    <3> QED  BY <3>1, <1>3 DEF GetPid
  <2>2. wrk_pid' \in Pids /\ wrk[wrk_pid'] = "running" /\ wrk_pid' \in Alive
    BY <2>1 DEF Found, Alive
  <2>3. left[wrk_pid'] = WrkLife /\ measured = 0
    BY <2>2, <1>3 DEF GetPid, AgeOK
  <2> QED
    BY <2>2, <2>3, <1>0, <1>3 DEF GetPid, LifeOK, AgeOK
<1>4. CASE Measure
  <2>1. pc = "measure" /\ measured \in Nat /\ measured < WorkloadLength(job)
    BY <1>4 DEF Measure, AgeOK
  <2>3. WorkloadLength(job) \in Nat /\ WorkloadLength(job) <= WrkLife
    BY <1>0 DEF WorkloadLength, ProxyProbes, AppProbes, MpstatRuns, WrkLasts
  <2>4. /\ measured < WrkLife /\ wrk_pid \in Pids /\ wrk[wrk_pid] = "running"
        /\ left[wrk_pid] = WrkLife - measured
    BY <2>1, <2>3, <1>0 DEF AgeOK
  <2>5. idle' = 0
    BY <2>4, <1>4 DEF Measure, Found
  <2>6. /\ left' = [p \in Pids |-> IF p \in Found THEN left[p] - 1 ELSE left[p]]
        /\ wrk' = [p \in Pids |-> IF p \in Found /\ left[p] = 1 THEN "none" ELSE wrk[p]]
        /\ measured' = measured + 1 /\ pc' = "measure" /\ wrk_pid' = wrk_pid
    BY <2>1, <1>4 DEF Measure
  <2>7. wrk_pid \in Found
    BY <2>4 DEF Found
  <2>8. left' \in [Pids -> Int] /\ left'[wrk_pid] = WrkLife - measured'
    BY <2>1, <2>4, <2>6, <2>7, <1>0 DEF LifeOK
  <2>9. measured' < WrkLife => wrk'[wrk_pid] = "running"
    BY <2>1, <2>4, <2>6, <2>7, <1>0
  <2> QED
    BY <2>1, <2>4, <2>5, <2>6, <2>8, <2>9 DEF LifeOK, AgeOK
<1>5. ASSUME NEW p \in Pids, Exec(p) PROVE LifeOK' /\ AgeOK' /\ idle' = 0
  <2>1. Alive' = Alive
    BY <1>0, <1>5 DEF Exec, WrkOK, Alive
  <2> QED
    BY <2>1, <1>0, <1>5 DEF Exec, WrkOK, LifeOK, AgeOK
<1>6. ASSUME NEW p \in Pids, WrkExit(p) PROVE LifeOK' /\ AgeOK' /\ idle' = 0
  BY <1>6 DEF WrkExit, LifeOK, AgeOK
<1>7. ASSUME NEW kinds \in SUBSET Kinds, Start(kinds) PROVE LifeOK' /\ AgeOK' /\ idle' = 0
  BY <1>7 DEF Start, LifeOK, AgeOK
<1>8. ASSUME \/ DeletePods \/ KillStray \/ StartSpinner \/ StopSpinner \/ Deploy
             \/ WaitUntilRunning \/ EndFindRate \/ EndWorkload \/ OpenProfile \/ DumpProfile
             \/ Abort
      PROVE  LifeOK' /\ AgeOK' /\ idle' = 0
  <2>1. /\ left' = left /\ idle' = idle
        /\ pc' \notin {"get_pid", "measure"}
    BY <1>8 DEF DeletePods, KillStray, AfterCleanUp, StartSpinner, StopSpinner, Deploy,
                WaitUntilRunning, EndFindRate, EndWorkload, OpenProfile, DumpProfile, Abort
  <2> QED
    BY <2>1 DEF LifeOK, AgeOK
<1>9. CASE PodsStart \/ UNCHANGED vars
  BY <1>9 DEF PodsStart, vars, LifeOK, AgeOK, Alive
<1> QED
  BY <1>1, <1>2, <1>3, <1>4, <1>5, <1>6, <1>7, <1>8, <1>9 DEF Next, Step

(* As long as wrk runs at least as long as the measurements of a workload, *)
(* none of them is taken without load, however often runs were aborted.    *)
THEOREM AlwaysLoaded == Spec => []MeasuredUnderLoad
<1>1. LoadInv => MeasuredUnderLoad
  BY DEF LoadInv, MeasuredUnderLoad, WrkLasts
<1> QED
  BY InitLoad, NextLoad, <1>1, PTL DEF Spec

-----------------------------------------------------------------------------
(* The cpu experiment, theorems of CpuSpec. The samples of a set of stacks,*)
(* the stacks drawn left of a set, and where the two ends of a piece of    *)
(* the x axis whose stacks are neighbours are drawn: the last bit of the   *)
(* right end is not certain.                                               *)
Total(S) == SumFunctionOnSet(samples, S)
Left(G) == {s \in DOMAIN Stacks : s < Min(G)}
Neighbours(G) ==
    /\ G # {} /\ G \subseteq DOMAIN Stacks
    /\ \A s \in G : \A t \in G : s..t \subseteq G
LeftEnd(G) == Edge(Total(Left(G)))
RightEnd(G) == Edge(Total(Left(G) \cup G))
IsRange(range, G) ==
    range[1] = 2 * LeftEnd(G) /\ range[2] \in {2 * RightEnd(G) + bit : bit \in -1..1}

(* What is drawn is a tenth of a pixel wide.                               *)
Wide(G) == All > 0 /\ Total(G) * Canvas >= All

(* The stacks of a process, and those of the proxy's workers together.     *)
Of(name) == Under(<<name>>)
OfProxy == Of(PROXY.USER[1]) \cup Of(PROXY.USER[2])
Processes == {"echo-server", "server", PROXY.USER[1], PROXY.USER[2]}

(* perf counts, and the ranges of a graph are those of its processes.      *)
SamplesOK == samples \in [DOMAIN Stacks -> Nat]
RangesOK ==
    phase = "ranges" => /\ Of(AppName) # {} /\ Wide(Of(AppName))
                        /\ IsRange(app_xranges, Of(AppName))
                        /\ Of(PROXY.USER[1]) # {} /\ Of(PROXY.USER[2]) # {}
                        /\ Wide(OfProxy) /\ IsRange(proxy_xranges, OfProxy)
GraphInv == protocol \in DOMAIN Profiles /\ SamplesOK /\ RangesOK

(* The stacks are a finite list of lists, each with a first frame.         *)
LEMMA StackFacts ==
  /\ Len(Stacks) \in Nat /\ DOMAIN Stacks = 1..Len(Stacks) /\ IsFiniteSet(DOMAIN Stacks)
  /\ \A s \in DOMAIN Stacks : /\ Stacks[s] \in Seq(STRING) /\ Stacks[s] # <<>>
                              /\ Len(Stacks[s]) \in Nat /\ Len(Stacks[s]) >= 1
                              /\ DOMAIN Stacks[s] = 1..Len(Stacks[s])
<1>1. Stacks \in Seq(Seq(STRING) \ {<<>>})
  BY StacksAssumption
<1>2. Len(Stacks) \in Nat /\ DOMAIN Stacks = 1..Len(Stacks)
  BY <1>1
<1>3. IsFiniteSet(DOMAIN Stacks)
  <2>1. Len(Stacks) \in Int /\ 1 \in Int
    BY <1>2
  <2> QED
    BY <1>2, <2>1, FS_Interval
<1>4. ASSUME NEW s \in DOMAIN Stacks
      PROVE  /\ Stacks[s] \in Seq(STRING) /\ Stacks[s] # <<>>
             /\ Len(Stacks[s]) \in Nat /\ Len(Stacks[s]) >= 1
             /\ DOMAIN Stacks[s] = 1..Len(Stacks[s])
  <2>1. Stacks[s] \in Seq(STRING) /\ Stacks[s] # <<>>
    BY <1>1, <1>2
  <2>2. Len(Stacks[s]) \in Nat /\ DOMAIN Stacks[s] = 1..Len(Stacks[s])
    BY <2>1
  <2>3. Len(Stacks[s]) # 0
    BY <2>1, EmptySeq
  <2> QED
    BY <2>1, <2>2, <2>3
<1> QED
  BY <1>2, <1>3, <1>4

(* A set of stacks has a leftmost one.                                     *)
LEMMA Leftmost ==
  ASSUME NEW G, G \subseteq DOMAIN Stacks, G # {}
  PROVE  Min(G) \in G /\ \A s \in G : Min(G) <= s
<1> DEFINE F == {1..s : s \in G}
           S == DOMAIN Stacks
<1>1. G \subseteq Nat /\ S = 1..Len(Stacks) /\ Len(Stacks) \in Nat /\ IsFiniteSet(S)
  BY StackFacts
<1>2. F \subseteq SUBSET S /\ F # {}
  BY <1>1
<1>3. PICK T \in F : \A U \in F : U \subseteq T => U = T
  <2>1. IsFiniteSet(S)
    BY <1>1
  <2>2. F \subseteq SUBSET S /\ F # {}
    BY <1>2
  <2> HIDE DEF F, S
  <2> QED
    BY <2>1, <2>2, SmallestSubset
<1>4. PICK m \in G : T = 1..m
  OBVIOUS
<1>5. ASSUME NEW s \in G PROVE m <= s
  <2> SUFFICES ASSUME s < m PROVE FALSE
    BY <1>1
  <2>1. 1..s \in F /\ 1..s \subseteq 1..m
    BY <1>1
  <2>2. 1..s = 1..m
    BY <2>1, <1>3, <1>4
  <2>3. m \in 1..m /\ m \notin 1..s
    BY <1>1, StackFacts
  <2> QED
    BY <2>2, <2>3
<1> QED
  BY <1>5 DEF Min

(* Sums of samples: of a part, and of two sets that share no stack.        *)
LEMMA Totals ==
  ASSUME SamplesOK, NEW S \in SUBSET DOMAIN Stacks, NEW T \in SUBSET DOMAIN Stacks
  PROVE  /\ Total(S) \in Nat
         /\ T \subseteq S => Total(T) <= Total(S)
         /\ S \cap T = {} => Total(S \cup T) = Total(S) + Total(T)
<1>1. IsFiniteSet(S) /\ IsFiniteSet(T)
  BY StackFacts, FS_Subset
<1>2. \A x \in DOMAIN Stacks : samples[x] \in Int /\ samples[x] >= 0
  BY DEF SamplesOK
<1>3. ASSUME NEW U \in SUBSET S PROVE Total(U) \in Int /\ Total(S) \in Int /\ Total(U) <= Total(S)
  BY <1>1, <1>2, SumOfPart DEF Total
<1>4. Total({}) = 0
  BY SumEmpty DEF Total
<1>5. S \cap T = {} => Total(S \cup T) = Total(S) + Total(T)
  <2> SUFFICES ASSUME S \cap T = {} PROVE Total(S \cup T) = Total(S) + Total(T)
    OBVIOUS
  <2>1. \A x \in S \cup T : samples[x] \in Int
    BY <1>2
  <2> QED
    BY <1>1, <2>1, SumUnion DEF Total
<1> QED
  BY <1>3, <1>4, <1>5

(* Division by a positive number keeps the order, and a whole step.        *)
LEMMA DivisionKeepsOrder ==
  ASSUME NEW d \in Nat \ {0}, NEW p \in Int, NEW q \in Int
  PROVE  /\ p \div d \in Int
         /\ p <= q => p \div d <= q \div d
         /\ p + d <= q => p \div d + 1 <= q \div d
<1>1. /\ p \div d \in Int /\ q \div d \in Int
      /\ p % d \in 0..(d - 1) /\ q % d \in 0..(d - 1)
      /\ p = d * (p \div d) + (p % d) /\ q = d * (q \div d) + (q % d)
  OBVIOUS
<1> DEFINE a == p \div d
           b == q \div d
<1>2. ASSUME NEW e \in Int, NEW f \in Int, e + 1 <= f PROVE d * e + d <= d * f
  <2> DEFINE g == f - e - 1
  <2>1. g \in Nat /\ f = e + 1 + g
    BY <1>2
  <2> HIDE DEF g
  <2>2. d * g >= 0
    BY <2>1
  <2>3. d * (e + 1 + g) = d * e + d + d * g
    BY <2>1
  <2>4. d * e \in Int /\ d * g \in Int
    BY <2>1
  <2> QED
    BY <2>1, <2>2, <2>3, <2>4
<1>3. ASSUME p <= q PROVE a <= b
  <2> SUFFICES ASSUME b + 1 <= a PROVE FALSE
    BY <1>1
  <2>1. d * b + d <= d * a
    BY <1>1, <1>2
  <2> QED
    BY <1>1, <1>3, <2>1
<1>4. ASSUME p + d <= q PROVE a + 1 <= b
  <2> SUFFICES ASSUME b <= a PROVE FALSE
    BY <1>1
  <2>1. d * b <= d * a
    BY <1>1, <1>2
  <2> QED
    BY <1>1, <1>4, <2>1
<1> QED
  BY <1>1, <1>3, <1>4

(* Rounding keeps the order of borders, and those that are a tenth of a    *)
(* pixel apart do not meet.                                                *)
LEMMA Edges ==
  ASSUME NEW all \in Nat \ {0}, NEW a \in Nat, NEW b \in Nat, a <= b
  PROVE  LET e(x) == (2 * Canvas * x + all) \div (2 * all)
         IN /\ e(a) \in Int /\ e(b) \in Int /\ e(a) <= e(b)
            /\ (b - a) * Canvas >= all => e(a) + 1 <= e(b)
<1> DEFINE d == 2 * all
           p == 2 * Canvas * a + all
           q == 2 * Canvas * b + all
           w == (b - a) * Canvas
<1>1. Canvas \in Nat
  BY CanvasAssumption
<1>2. d \in Nat \ {0} /\ w \in Nat /\ p \in Int /\ q \in Int
  BY <1>1
<1>3. q = p + 2 * w
  BY <1>1
<1> HIDE DEF p, q, d, w
<1>4. p <= q
  BY <1>2, <1>3
<1>5. w >= all => p + d <= q
  BY <1>2, <1>3 DEF d
<1>6. /\ p \div d \in Int /\ q \div d \in Int /\ p \div d <= q \div d
      /\ w >= all => p \div d + 1 <= q \div d
  BY <1>2, <1>4, <1>5, DivisionKeepsOrder
<1> QED
  BY <1>6 DEF p, q, d, w

(* All samples are those of all stacks.                                    *)
LEMMA AllOfTotal == All = Total(DOMAIN Stacks)
  BY DEF All, Total, MapThenSumSet, SumFunctionOnSet, FoldFunctionOnSet

(* Their number is a natural one.                                          *)
LEMMA AllIsTotal ==
  ASSUME SamplesOK
  PROVE  All = Total(DOMAIN Stacks) /\ All \in Nat
BY AllOfTotal, Totals

(* What is within a set of neighbours is drawn between its ends.           *)
LEMMA BeginsInside ==
  ASSUME SamplesOK, NEW G, Neighbours(G), NEW H, Neighbours(H), H \subseteq G
  PROVE  /\ Total(Left(H)) \in Nat
         /\ Total(Left(G)) <= Total(Left(H))
         /\ Total(Left(H)) + Total(H) <= Total(Left(G) \cup G)
<1> DEFINE g == Min(G)
           h == Min(H)
<1>1. g \in G /\ h \in H /\ g <= h /\ G \subseteq DOMAIN Stacks /\ DOMAIN Stacks \subseteq Nat
  <2>1. G # {} /\ H # {} /\ G \subseteq DOMAIN Stacks /\ H \subseteq DOMAIN Stacks
    BY DEF Neighbours
  <2>2. g \in G /\ (\A s \in G : g <= s) /\ h \in H
    BY <2>1, Leftmost
  <2> QED
    BY <2>1, <2>2, StackFacts
<1>2. Left(G) \subseteq Left(H)
  BY <1>1 DEF Left
<1>3. Left(H) \subseteq Left(G) \cup G
  <2> SUFFICES ASSUME NEW s \in DOMAIN Stacks, s < h, ~ (s < g) PROVE s \in G
    BY DEF Left
  <2>1. g..h \subseteq G /\ s \in g..h
    BY <1>1 DEF Neighbours
  <2> QED
    BY <2>1
<1>4. Left(H) \in SUBSET DOMAIN Stacks /\ Left(G) \cup G \in SUBSET DOMAIN Stacks
      /\ Left(G) \in SUBSET DOMAIN Stacks /\ H \in SUBSET DOMAIN Stacks
      /\ Left(H) \cup H \in SUBSET DOMAIN Stacks
  BY <1>1 DEF Left, Neighbours
<1>5. Left(H) \cap H = {}
  <2>1. \A s \in H : h <= s
    BY Leftmost DEF Neighbours
  <2> QED
    BY <1>1, <2>1, StackFacts DEF Left
<1>6. Total(Left(H) \cup H) = Total(Left(H)) + Total(H)
  BY <1>4, <1>5, Totals
<1>7. Left(H) \cup H \subseteq Left(G) \cup G
  BY <1>3
<1> QED
  BY <1>2, <1>4, <1>6, <1>7, Totals

(* What is beside it ends before it begins, or begins after it ends.       *)
LEMMA BeginsOutside ==
  ASSUME SamplesOK, NEW G, Neighbours(G), NEW H, Neighbours(H), G \cap H = {}
  PROVE  \/ Total(Left(H)) + Total(H) <= Total(Left(G))
         \/ Total(Left(G) \cup G) <= Total(Left(H))
<1> DEFINE g == Min(G)
           h == Min(H)
<1>1. /\ g \in G /\ h \in H /\ g # h /\ G \subseteq DOMAIN Stacks /\ H \subseteq DOMAIN Stacks
      /\ DOMAIN Stacks \subseteq Nat
      /\ (\A s \in G : g <= s) /\ (\A s \in H : h <= s)
  BY Leftmost, StackFacts DEF Neighbours
<1>2. /\ Left(G) \in SUBSET DOMAIN Stacks /\ Left(H) \in SUBSET DOMAIN Stacks
      /\ G \in SUBSET DOMAIN Stacks /\ H \in SUBSET DOMAIN Stacks
  BY <1>1 DEF Left
<1>3. CASE h < g
  <2>1. Left(H) \cup H \subseteq Left(G)
    <3>1. Left(H) \subseteq Left(G)
      BY <1>1, <1>3 DEF Left
    <3>2. ASSUME NEW s \in H, ~ (s < g) PROVE FALSE
      <4>1. h..s \subseteq H /\ g \in h..s
        BY <1>1, <1>3, <3>2 DEF Neighbours
      <4> QED
        BY <4>1, <1>1
    <3> QED
      BY <1>1, <3>1, <3>2 DEF Left
  <2>2. Left(H) \cap H = {}
    BY <1>1 DEF Left
  <2>3. /\ Total(Left(H) \cup H) = Total(Left(H)) + Total(H)
        /\ Total(Left(H)) \in Nat /\ Total(H) \in Nat
    BY <1>2, <2>2, Totals
  <2>4. Left(H) \cup H \in SUBSET DOMAIN Stacks
    BY <1>2
  <2>5. Total(Left(H) \cup H) <= Total(Left(G)) /\ Total(Left(G)) \in Nat
    BY <1>2, <2>1, <2>4, Totals
  <2> QED
    BY <2>3, <2>5
<1>4. CASE g < h
  <2>1. Left(G) \cup G \subseteq Left(H)
    <3>1. Left(G) \subseteq Left(H)
      BY <1>1, <1>4 DEF Left
    <3>2. ASSUME NEW s \in G, ~ (s < h) PROVE FALSE
      <4>1. g..s \subseteq G /\ h \in g..s
        BY <1>1, <1>4, <3>2 DEF Neighbours
      <4> QED
        BY <4>1, <1>1
    <3> QED
      BY <1>1, <3>1, <3>2 DEF Left
  <2>2. Left(G) \cup G \in SUBSET DOMAIN Stacks
    BY <1>2
  <2> QED
    BY <1>2, <2>1, <2>2, Totals
<1> QED
  BY <1>1, <1>3, <1>4

(* The beginning of a stack that has one frame.                            *)
LEMMA FirstFrame ==
  ASSUME NEW q \in Seq(STRING), Len(q) >= 1
  PROVE  SubSeq(q, 1, 1) = <<q[1]>>
<1>1. Len(q) \in Nat
  OBVIOUS
<1>2. SubSeq(q, 1, 1) = [i \in 1..1 |-> q[i]]
  BY <1>1
<1>3. 1..1 = {1}
  OBVIOUS
<1>4. <<q[1]>> = [i \in 1..1 |-> q[1]]
  OBVIOUS
<1>5. [i \in 1..1 |-> q[i]] = [i \in 1..1 |-> q[1]]
  BY <1>3
<1> QED
  BY <1>2, <1>4, <1>5

(* The stacks with a common beginning are neighbours.                      *)
LEMMA FrameIsWhole ==
  ASSUME NEW s \in DOMAIN Stacks, NEW n \in DOMAIN Stacks[s]
  PROVE  LET f == SubSeq(Stacks[s], 1, n)
         IN  /\ f \in Seq(STRING) /\ Len(f) = n /\ \A i \in 1..n : f[i] = Stacks[s][i]
             /\ s \in Under(f) /\ Neighbours(Under(f))
             /\ Under(f) \subseteq Of(f[1])
             /\ \A name : name # f[1] => Under(f) \cap Of(name) = {}
<1> DEFINE f == SubSeq(Stacks[s], 1, n)
<1>1. /\ Stacks[s] \in Seq(STRING) /\ Len(Stacks[s]) \in Nat /\ n \in 1..Len(Stacks[s])
      /\ DOMAIN Stacks \subseteq Nat
  BY StackFacts
<1>2. f \in Seq(STRING) /\ Len(f) = n /\ \A i \in 1..n : f[i] = Stacks[s][i]
  BY <1>1
<1> HIDE DEF f
<1>3. s \in Under(f)
  BY <1>1, <1>2 DEF Under, f
<1>4. ASSUME NEW t \in Under(f), NEW u \in Under(f) PROVE t..u \subseteq Under(f)
  <2>1. t \in DOMAIN Stacks /\ Len(Stacks[t]) >= n /\ SubSeq(Stacks[t], 1, n) = f
    BY <1>2 DEF Under
  <2>2. n \in DOMAIN Stacks[t]
    BY <1>1, <2>1, StackFacts
  <2>3. \A x \in Under(SubSeq(Stacks[t], 1, n)) : t..x \subseteq Under(SubSeq(Stacks[t], 1, n))
    BY <2>1, <2>2, SortedAssumption
  <2> QED
    BY <2>1, <2>3
<1>5. Neighbours(Under(f))
  BY <1>3, <1>4 DEF Neighbours, Under
<1>6. ASSUME NEW t \in Under(f) PROVE Stacks[t][1] = f[1] /\ t \in Of(f[1])
  <2>1. /\ t \in DOMAIN Stacks /\ SubSeq(Stacks[t], 1, n) = f
        /\ Stacks[t] \in Seq(STRING) /\ Len(Stacks[t]) \in Nat /\ Len(Stacks[t]) >= n
    BY <1>2, StackFacts DEF Under
  <2>2. f[1] = Stacks[t][1]
    BY <1>1, <2>1
  <2>3. SubSeq(Stacks[t], 1, 1) = <<f[1]>> /\ Len(<<f[1]>>) = 1
    BY <1>1, <2>1, <2>2, FirstFrame
  <2> QED
    BY <1>1, <2>1, <2>2, <2>3 DEF Of, Under
<1>7. ASSUME NEW name, NEW t \in Of(name) PROVE Stacks[t][1] = name
  <2>1. /\ t \in DOMAIN Stacks /\ SubSeq(Stacks[t], 1, 1) = <<name>>
        /\ Stacks[t] \in Seq(STRING) /\ Len(Stacks[t]) \in Nat /\ Len(Stacks[t]) >= 1
    BY StackFacts DEF Of, Under
  <2>2. <<Stacks[t][1]>> = <<name>>
    BY <2>1, FirstFrame
  <2> QED
    BY <2>2
<1>8. Under(f) \subseteq Of(f[1]) /\ \A name : name # f[1] => Under(f) \cap Of(name) = {}
  BY <1>6, <1>7
<1> USE DEF f
<1> QED
  BY <1>2, <1>3, <1>5, <1>8

(* A stack is of the process it begins with.                               *)
LEMMA OfProcess == \A name : Of(name) = {s \in DOMAIN Stacks : Stacks[s][1] = name}
<1> SUFFICES ASSUME NEW name, NEW s \in DOMAIN Stacks
             PROVE  s \in Of(name) <=> Stacks[s][1] = name
  BY DEF Of, Under
<1>1. /\ Stacks[s] \in Seq(STRING) /\ Len(Stacks[s]) \in Nat /\ Len(Stacks[s]) >= 1
  BY StackFacts
<1>2. SubSeq(Stacks[s], 1, 1) = <<Stacks[s][1]>>
  BY <1>1, FirstFrame
<1> QED
  BY <1>1, <1>2 DEF Of, Under

(* What spans something wide is as wide.                                   *)
LEMMA WiderStill ==
  ASSUME NEW x \in Nat, NEW w \in Nat, NEW b \in Nat, NEW all \in Nat,
         x + w <= b, w * Canvas >= all
  PROVE  x <= b /\ (b - x) * Canvas >= all
<1>1. Canvas \in Nat
  BY CanvasAssumption
<1> DEFINE d == b - x - w
<1>2. d \in Nat /\ b - x = w + d
  OBVIOUS
<1> HIDE DEF d
<1>3. d * Canvas >= 0 /\ (w + d) * Canvas = w * Canvas + d * Canvas
      /\ w * Canvas \in Int /\ d * Canvas \in Int
  BY <1>1, <1>2
<1>4. (b - x) * Canvas >= all
  <2>1. (b - x) * Canvas = (w + d) * Canvas
    BY <1>2
  <2> QED
    BY <2>1, <1>3
<1> QED
  BY <1>2, <1>4

(* A frame that is drawn: its stacks, its borders and its width.           *)
LEMMA FrameFacts ==
  ASSUME SamplesOK, NEW f \in Frames
  PROVE  /\ Neighbours(Under(f)) /\ Under(f) \subseteq Of(f[1])
         /\ \A name : name # f[1] => Under(f) \cap Of(name) = {}
         /\ Width(f) = Total(Under(f)) /\ X(f) = 2 * LeftEnd(Under(f)) /\ Wide(Under(f))
         /\ Right(f) = 2 * RightEnd(Under(f))
         /\ \E s \in DOMAIN Stacks : \E n \in DOMAIN Stacks[s] : f = SubSeq(Stacks[s], 1, n)
<1> DEFINE H == Under(f)
<1>1. \E s \in DOMAIN Stacks : \E n \in DOMAIN Stacks[s] : f = SubSeq(Stacks[s], 1, n)
  <2>1. PICK s \in DOMAIN Stacks : f \in {SubSeq(Stacks[s], 1, n) : n \in 1..Len(Stacks[s])}
    BY DEF Frames, Beginnings
  <2> QED
    BY <2>1, StackFacts
<1>2. PICK s \in DOMAIN Stacks : \E n \in DOMAIN Stacks[s] : f = SubSeq(Stacks[s], 1, n)
  BY <1>1
<1>3. /\ Neighbours(H) /\ H \subseteq Of(f[1])
      /\ \A name : name # f[1] => H \cap Of(name) = {}
  BY <1>2, FrameIsWhole
<1>4. Width(f) = Total(H)
  BY DEF Width, Total, MapThenSumSet, SumFunctionOnSet, FoldFunctionOnSet
<1>5. Before(f) = Total(Left(H))
  BY DEF Before, Left, Total, MapThenSumSet, SumFunctionOnSet, FoldFunctionOnSet
<1>6. Left(H) \in SUBSET DOMAIN Stacks /\ H \in SUBSET DOMAIN Stacks /\ Left(H) \cap H = {}
  <2>1. H \subseteq DOMAIN Stacks /\ DOMAIN Stacks \subseteq Nat /\ H # {}
    BY <1>3, StackFacts DEF Neighbours
  <2>2. \A t \in H : Min(H) <= t /\ Min(H) \in Nat
    BY <2>1, Leftmost
  <2> QED
    BY <2>1, <2>2 DEF Left
<1>7. Total(Left(H) \cup H) = Total(Left(H)) + Total(H)
  BY <1>6, Totals
<1>8. Wide(H)
  <2>1. Total(H) <= All /\ Total(H) \in Nat /\ All \in Nat
    BY <1>6, AllIsTotal, Totals
  <2>2. Total(H) > 0 /\ Total(H) * Canvas >= All
    BY <1>4 DEF Frames, Drawn
  <2> QED
    BY <2>1, <2>2 DEF Wide
<1>9. X(f) = 2 * LeftEnd(H) /\ Right(f) = 2 * RightEnd(H)
  BY <1>4, <1>5, <1>7 DEF X, Right, LeftEnd, RightEnd
<1> QED
  BY <1>1, <1>3, <1>4, <1>8, <1>9

(* The ends of a piece of the x axis that is wide enough to be drawn do    *)
(* not meet.                                                               *)
LEMMA EndsApart ==
  ASSUME SamplesOK, NEW G, Neighbours(G), Wide(G)
  PROVE  LeftEnd(G) \in Int /\ RightEnd(G) \in Int /\ LeftEnd(G) + 1 <= RightEnd(G)
<1>1. Left(G) \in SUBSET DOMAIN Stacks /\ G \in SUBSET DOMAIN Stacks
      /\ Left(G) \cup G \in SUBSET DOMAIN Stacks
  BY DEF Left, Neighbours
<1> DEFINE a == Total(Left(G))
           b == Total(Left(G) \cup G)
<1>2. Left(G) \cap G = {}
  <2>1. G # {} /\ G \subseteq DOMAIN Stacks /\ DOMAIN Stacks \subseteq Nat
    BY StackFacts DEF Neighbours
  <2>2. \A s \in G : Min(G) <= s /\ s \in Nat /\ Min(G) \in Nat
    BY <2>1, Leftmost
  <2> QED
    BY <2>2 DEF Left
<1>3. b = a + Total(G)
  BY <1>1, <1>2, Totals
<1>4. a \in Nat /\ b \in Nat /\ Total(G) \in Nat /\ a <= b /\ b - a = Total(G)
  <2>1. a \in Nat /\ b \in Nat /\ Total(G) \in Nat
    BY <1>1, Totals
  <2> HIDE DEF a, b
  <2> QED
    BY <2>1, <1>3
<1>5. All \in Nat \ {0} /\ (b - a) * Canvas >= All
  <2>1. All \in Nat /\ All > 0 /\ Total(G) * Canvas >= All
    BY AllIsTotal DEF Wide
  <2> HIDE DEF a, b
  <2> QED
    BY <2>1, <1>4
<1> HIDE DEF a, b
<1>6. Edge(a) \in Int /\ Edge(b) \in Int /\ Edge(a) + 1 <= Edge(b)
  BY <1>4, <1>5, Edges DEF Edge
<1> QED
  BY <1>6 DEF LeftEnd, RightEnd, a, b

(* What is drawn within it begins within its ends, and before the last.    *)
LEMMA DrawnInside ==
  ASSUME SamplesOK, NEW G, Neighbours(G), NEW H, Neighbours(H), Wide(H), H \subseteq G
  PROVE  /\ LeftEnd(G) \in Int /\ LeftEnd(H) \in Int /\ RightEnd(G) \in Int
         /\ LeftEnd(G) <= LeftEnd(H) /\ LeftEnd(H) + 1 <= RightEnd(G)
<1> DEFINE a == Total(Left(G))
           b == Total(Left(G) \cup G)
           x == Total(Left(H))
           w == Total(H)
<1>1. a \in Nat /\ b \in Nat /\ x \in Nat /\ w \in Nat
  <2>1. Left(G) \in SUBSET DOMAIN Stacks /\ Left(H) \in SUBSET DOMAIN Stacks
        /\ Left(G) \cup G \in SUBSET DOMAIN Stacks /\ H \in SUBSET DOMAIN Stacks
    BY DEF Left, Neighbours
  <2> QED
    BY <2>1, Totals
<1>2. a <= x /\ x + w <= b
  BY BeginsInside
<1>3. All \in Nat \ {0} /\ w * Canvas >= All
  BY AllIsTotal DEF Wide
<1>4. Edge(a) = LeftEnd(G) /\ Edge(b) = RightEnd(G) /\ Edge(x) = LeftEnd(H)
  BY DEF LeftEnd, RightEnd
<1> HIDE DEF a, b, x, w
<1>5. Edge(a) \in Int /\ Edge(x) \in Int /\ Edge(a) <= Edge(x)
  BY <1>1, <1>2, <1>3, Edges DEF Edge
<1>6. x <= b /\ (b - x) * Canvas >= All
  BY <1>1, <1>2, <1>3, WiderStill
<1>7. Edge(b) \in Int /\ Edge(x) + 1 <= Edge(b)
  BY <1>1, <1>3, <1>6, Edges DEF Edge
<1> QED
  BY <1>4, <1>5, <1>7

(* What is drawn beside it begins before it, or not before it ends.        *)
LEMMA DrawnBeside ==
  ASSUME SamplesOK, NEW G, Neighbours(G), NEW H, Neighbours(H), Wide(H), G \cap H = {}
  PROVE  /\ LeftEnd(G) \in Int /\ LeftEnd(H) \in Int /\ RightEnd(G) \in Int
         /\ LeftEnd(H) + 1 <= LeftEnd(G) \/ RightEnd(G) <= LeftEnd(H)
<1> DEFINE a == Total(Left(G))
           b == Total(Left(G) \cup G)
           x == Total(Left(H))
           w == Total(H)
<1>1. a \in Nat /\ b \in Nat /\ x \in Nat /\ w \in Nat
  <2>1. Left(G) \in SUBSET DOMAIN Stacks /\ Left(H) \in SUBSET DOMAIN Stacks
        /\ Left(G) \cup G \in SUBSET DOMAIN Stacks /\ H \in SUBSET DOMAIN Stacks
    BY DEF Left, Neighbours
  <2> QED
    BY <2>1, Totals
<1>2. x + w <= a \/ b <= x
  BY BeginsOutside
<1>3. All \in Nat \ {0} /\ w * Canvas >= All
  BY AllIsTotal DEF Wide
<1>4. Edge(a) = LeftEnd(G) /\ Edge(b) = RightEnd(G) /\ Edge(x) = LeftEnd(H)
  BY DEF LeftEnd, RightEnd
<1> HIDE DEF a, b, x, w
<1>5. Edge(a) \in Int /\ Edge(x) \in Int /\ Edge(b) \in Int
  <2>1. a <= a /\ b <= b /\ x <= x
    BY <1>1
  <2> QED
    BY <1>1, <1>3, <2>1, Edges DEF Edge
<1>6. CASE x + w <= a
  <2>1. x <= a /\ (a - x) * Canvas >= All
    BY <1>1, <1>6, <1>3, WiderStill
  <2>2. Edge(x) + 1 <= Edge(a)
    BY <1>1, <1>3, <2>1, Edges DEF Edge
  <2> QED
    BY <1>4, <1>5, <2>2
<1>7. CASE b <= x
  <2>1. Edge(b) <= Edge(x)
    BY <1>1, <1>3, <1>7, Edges DEF Edge
  <2> QED
    BY <1>4, <1>5, <2>1
<1> QED
  BY <1>2, <1>6, <1>7

(* All drawn calls of a process begin within its range and before its end; *)
(* one of another process does only if it is drawn where the range ends,   *)
(* and if it is drawn there, it does.                                      *)
LEMMA RangeOfOwnCalls ==
  ASSUME SamplesOK, NEW names, NEW G, Neighbours(G), Wide(G), NEW range, IsRange(range, G),
         G = UNION {Of(name) : name \in names}
  PROVE  /\ OwnCalls(range, names)
         /\ \A f \in Frames : X(f) \in {range[2] - 1, range[2]} => Inside(X(f), range)
<1> SUFFICES ASSUME NEW f \in Frames
             PROVE  /\ f[1] \in names => Inside(X(f), range) /\ range[1] <= X(f) /\ X(f) < range[2]
                    /\ f[1] \notin names /\ Inside(X(f), range) =>
                         X(f) \in {range[2] - 1, range[2]}
                    /\ X(f) \in {range[2] - 1, range[2]} => Inside(X(f), range)
  BY DEF OwnCalls
<1> DEFINE H == Under(f)
           a == LeftEnd(G)
           b == RightEnd(G)
           x == LeftEnd(H)
<1>1. Neighbours(H) /\ X(f) = 2 * x /\ Wide(H)
  BY FrameFacts
<1>2. a \in Int /\ b \in Int /\ a + 1 <= b
  BY EndsApart
<1>3. range[1] = 2 * a /\ range[2] \in {2 * b - 1, 2 * b, 2 * b + 1}
  BY <1>2 DEF IsRange
<1>4. x \in Int
  BY <1>1, EndsApart
<1>5. ASSUME f[1] \in names PROVE a <= x /\ x + 1 <= b
  <2>1. H \subseteq G
    BY <1>5, FrameFacts
  <2> QED
    BY <1>1, <2>1, DrawnInside
<1>6. ASSUME f[1] \notin names PROVE x + 1 <= a \/ b <= x
  <2>1. G \cap H = {}
    BY <1>6, FrameFacts
  <2> QED
    BY <1>1, <2>1, DrawnBeside
<1> HIDE DEF a, b, x, H
<1>7. f[1] \in names => range[1] <= X(f) /\ X(f) < range[2] /\ X(f) <= range[2]
  BY <1>1, <1>2, <1>3, <1>4, <1>5
<1>8. f[1] \notin names /\ range[1] <= X(f) /\ X(f) <= range[2] =>
        X(f) \in {range[2] - 1, range[2]}
  BY <1>1, <1>2, <1>3, <1>4, <1>6
<1>9. X(f) \in {range[2] - 1, range[2]} => range[1] <= X(f) /\ X(f) <= range[2]
  BY <1>1, <1>2, <1>3, <1>4
<1> QED
  BY <1>7, <1>8, <1>9 DEF Inside

(* A process's name is found at its own frame and nowhere else.            *)
LEMMA NamedOnce ==
  ASSUME SamplesOK, NEW name \in Processes
  PROVE  /\ Named(name) \subseteq {<<name>>} /\ Named(name) \subseteq Frames
         /\ Named(name) # {} <=> Drawn(<<name>>)
         /\ Drawn(<<name>>) => Of(name) # {}
         /\ Width(<<name>>) = Total(Of(name))
<1>1. Named(name) \subseteq Frames
  BY DEF Named, Frames
<1>2. ASSUME NEW f \in Named(name) PROVE f = <<name>>
  <2>1. PICK s \in DOMAIN Stacks : \E n \in DOMAIN Stacks[s] : f = SubSeq(Stacks[s], 1, n)
    BY <1>1, FrameFacts
  <2>2. PICK n \in DOMAIN Stacks[s] : f = SubSeq(Stacks[s], 1, n)
    BY <2>1
  <2>3. n \in Nat /\ 1 <= n /\ Stacks[s] \in Seq(STRING) /\ Len(Stacks[s]) >= 1
    BY StackFacts
  <2>4. Len(f) = n /\ f[n] = Stacks[s][n]
    BY <2>2, <2>3, FrameIsWhole
  <2>5. Stacks[s][n] = name
    BY <2>4 DEF Named
  <2>6. n = 1
    BY <2>5, StacksAssumption DEF Processes
  <2> QED
    BY <2>2, <2>3, <2>5, <2>6, FirstFrame
<1>3. Width(<<name>>) = Total(Of(name))
  BY DEF Width, Of, Total, MapThenSumSet, SumFunctionOnSet, FoldFunctionOnSet
<1>4. ASSUME Drawn(<<name>>) PROVE Of(name) # {} /\ <<name>> \in Named(name)
  <2>1. Of(name) # {}
    <3>1. Width(<<name>>) > 0 /\ Width(<<name>>) = Total(Of(name))
      BY <1>3, <1>4 DEF Drawn
    <3>2. Of(name) = {} => Total(Of(name)) = 0
      BY SumEmpty DEF Total
    <3> QED
      BY <3>1, <3>2
  <2>2. PICK s \in DOMAIN Stacks : Stacks[s][1] = name
    BY <2>1, OfProcess
  <2>3. SubSeq(Stacks[s], 1, 1) = <<name>> /\ 1 \in 1..Len(Stacks[s])
    BY <2>2, StackFacts, FirstFrame
  <2>4. <<name>> \in {SubSeq(Stacks[s], 1, n) : n \in 1..Len(Stacks[s])}
    BY <2>3
  <2>5. <<name>> \in Beginnings
    BY <2>4 DEF Beginnings
  <2>6. Len(<<name>>) = 1
    OBVIOUS
  <2> QED
    BY <2>1, <2>5, <2>6, <1>4 DEF Named
<1>5. ASSUME Named(name) # {} PROVE Drawn(<<name>>)
  BY <1>2, <1>5 DEF Named
<1> QED
  BY <1>1, <1>2, <1>3, <1>4, <1>5

(* The stacks of a process, and those of the two workers, are neighbours.  *)
LEMMA ProcessesAreWhole ==
  /\ \A name : Of(name) # {} => Neighbours(Of(name))
  /\ (Of(PROXY.USER[1]) # {} /\ Of(PROXY.USER[2]) # {}) =>
       /\ Neighbours(OfProxy)
       /\ Left(OfProxy) = Left(Of(PROXY.USER[1]))
       /\ Left(OfProxy) \cup OfProxy = Left(Of(PROXY.USER[2])) \cup Of(PROXY.USER[2])
<1>1. ASSUME NEW name, NEW s \in Of(name) PROVE Neighbours(Of(name))
  <2>1. s \in DOMAIN Stacks /\ Stacks[s][1] = name
    BY OfProcess
  <2>2. SubSeq(Stacks[s], 1, 1) = <<name>> /\ 1 \in DOMAIN Stacks[s]
    BY <2>1, StackFacts, FirstFrame
  <2>3. Neighbours(Under(SubSeq(Stacks[s], 1, 1)))
    BY <2>1, <2>2, FrameIsWhole
  <2> QED
    BY <2>2, <2>3 DEF Of
<1>2. ASSUME Of(PROXY.USER[1]) # {}, Of(PROXY.USER[2]) # {}
      PROVE  /\ Neighbours(OfProxy)
             /\ Left(OfProxy) = Left(Of(PROXY.USER[1]))
             /\ Left(OfProxy) \cup OfProxy = Left(Of(PROXY.USER[2])) \cup Of(PROXY.USER[2])
  <2> DEFINE A == Of(PROXY.USER[1])
             B == Of(PROXY.USER[2])
  <2>1. /\ A \subseteq DOMAIN Stacks /\ B \subseteq DOMAIN Stacks
        /\ DOMAIN Stacks = 1..Len(Stacks) /\ Len(Stacks) \in Nat
        /\ (\A s \in A : \A t \in A : s..t \subseteq A)
        /\ (\A s \in B : \A t \in B : s..t \subseteq B)
    BY <1>1, StackFacts DEF Neighbours, Of, Under
  <2>2. \A s \in A : \A t \in B : s < t /\ s..t \subseteq A \cup B
    BY SortedAssumption DEF Of
  <2> DEFINE a == Min(A)
             b == Min(B)
             m == Min(A \cup B)
  <2>3. /\ a \in A /\ (\A s \in A : a <= s) /\ b \in B /\ (\A s \in B : b <= s)
        /\ m \in A \cup B /\ (\A s \in A \cup B : m <= s)
    <3>1. A # {} /\ B # {} /\ A \cup B # {} /\ A \cup B \subseteq DOMAIN Stacks
      BY <1>2, <2>1
    <3> HIDE DEF A, B
    <3> QED
      BY <3>1, <2>1, Leftmost
  <2>4. OfProxy = A \cup B /\ Left(OfProxy) = {s \in DOMAIN Stacks : s < m}
        /\ Left(A) = {s \in DOMAIN Stacks : s < a} /\ Left(B) = {s \in DOMAIN Stacks : s < b}
    BY DEF OfProxy, Left
  <2> HIDE DEF A, B, a, b, m
  <2>5. m = a
    BY <2>1, <2>2, <2>3
  <2>6. ASSUME NEW s \in A \cup B, NEW t \in A \cup B PROVE s..t \subseteq A \cup B
    <3>1. CASE s \in A /\ t \in A
      BY <3>1, <2>1
    <3>2. CASE s \in B /\ t \in B
      BY <3>2, <2>1
    <3>3. CASE s \in A /\ t \in B
      BY <3>3, <2>2
    <3>4. CASE s \in B /\ t \in A
      BY <3>4, <2>1, <2>2
    <3> QED
      BY <3>1, <3>2, <3>3, <3>4
  <2>7. {s \in DOMAIN Stacks : s < a} \cup (A \cup B) = {s \in DOMAIN Stacks : s < b} \cup B
    <3>1. ASSUME NEW s \in DOMAIN Stacks, s < b, ~ (s < a) PROVE s \in A \cup B
      <4>1. a..b \subseteq A \cup B /\ s \in a..b
        BY <2>1, <2>2, <2>3, <3>1
      <4> QED
        BY <4>1
    <3>2. ASSUME NEW s \in DOMAIN Stacks, s < a PROVE s < b
      BY <2>1, <2>2, <2>3, <3>2
    <3>3. ASSUME NEW s \in A PROVE s \in DOMAIN Stacks /\ s < b
      BY <2>1, <2>2, <2>3
    <3> QED
      BY <2>1, <3>1, <3>2, <3>3
  <2>8. Neighbours(OfProxy)
    BY <2>1, <2>3, <2>4, <2>6 DEF Neighbours
  <2>9. Left(OfProxy) = Left(A) /\ Left(OfProxy) \cup OfProxy = Left(B) \cup B
    BY <2>4, <2>5, <2>7
  <2> QED
    BY <2>8, <2>9 DEF A, B
<1> QED
  BY <1>1, <1>2

(* The range that is found for a process.                                  *)
LEMMA RangeFound ==
  ASSUME SamplesOK, NEW name \in Processes, NEW range \in get_target_xrange(name)
  PROVE  Of(name) # {} /\ Wide(Of(name)) /\ IsRange(range, Of(name))
<1>1. PICK f \in Named(name), bit \in -1..1 : range = <<X(f), Right(f) + bit>>
  BY DEF get_target_xrange
<1>2. f = <<name>> /\ f \in Frames /\ Of(name) # {} /\ Under(f) = Of(name)
  BY NamedOnce DEF Of
<1>3. X(f) = 2 * LeftEnd(Of(name)) /\ Right(f) = 2 * RightEnd(Of(name)) /\ Wide(Of(name))
  BY <1>2, FrameFacts
<1> QED
  BY <1>1, <1>2, <1>3 DEF IsRange

(* The range from the first worker to the second is that of both.          *)
LEMMA RangeOfWorkers ==
  ASSUME SamplesOK, NEW worker0 \in get_target_xrange(PROXY.USER[1]),
         NEW worker1 \in get_target_xrange(PROXY.USER[2])
  PROVE  Wide(OfProxy) /\ IsRange(<<worker0[1], worker1[2]>>, OfProxy)
<1>1. /\ Of(PROXY.USER[1]) # {} /\ Wide(Of(PROXY.USER[1])) /\ IsRange(worker0, Of(PROXY.USER[1]))
      /\ Of(PROXY.USER[2]) # {} /\ Wide(Of(PROXY.USER[2])) /\ IsRange(worker1, Of(PROXY.USER[2]))
  BY RangeFound DEF Processes
<1>2. LeftEnd(OfProxy) = LeftEnd(Of(PROXY.USER[1])) /\ RightEnd(OfProxy) = RightEnd(Of(PROXY.USER[2]))
  BY <1>1, ProcessesAreWhole DEF LeftEnd, RightEnd
<1>3. IsRange(<<worker0[1], worker1[2]>>, OfProxy)
  BY <1>1, <1>2 DEF IsRange
<1>4. Wide(OfProxy)
  <2> DEFINE A == Of(PROXY.USER[1])
  <2>1. OfProxy \in SUBSET DOMAIN Stacks /\ A \in SUBSET DOMAIN Stacks /\ A \subseteq OfProxy
    BY DEF OfProxy, Of, Under
  <2>2. Total(A) \in Nat /\ Total(OfProxy) \in Nat /\ Total(A) <= Total(OfProxy)
    BY <2>1, Totals
  <2>3. All > 0 /\ All \in Nat /\ Total(A) * Canvas >= All
    BY <1>1, AllIsTotal DEF Wide
  <2>4. (Total(OfProxy) - 0) * Canvas >= All
    <3> HIDE DEF A
    <3>1. 0 + Total(A) <= Total(OfProxy)
      BY <2>2
    <3> QED
      BY <3>1, <2>2, <2>3, WiderStill
  <2>5. Total(OfProxy) - 0 = Total(OfProxy)
    BY <2>2
  <2> QED
    BY <2>3, <2>4, <2>5 DEF Wide
<1> QED
  BY <1>3, <1>4

(* The application's name is one of a process's.                           *)
LEMMA ProcessNames ==
  AppName \in Processes /\ PROXY.USER[1] \in Processes /\ PROXY.USER[2] \in Processes
BY DEF AppName, Processes

(* The same samples are drawn in the same places.                          *)
LEMMA DrawnAlike ==
  ASSUME samples' = samples
  PROVE  /\ \A G : Wide(G)' = Wide(G)
         /\ \A G : LeftEnd(G)' = LeftEnd(G) /\ RightEnd(G)' = RightEnd(G)
<1>1. \A G : Total(G)' = Total(G)
  BY DEF Total
<1>2. All' = All
  <2>1. (All = Total(DOMAIN Stacks))'
    BY AllOfTotal, PTL
  <2> QED
    BY <2>1, <1>1, AllOfTotal
<1>3. \A G : Wide(G)' = Wide(G)
  BY <1>1, <1>2 DEF Wide
<1>4. \A x : Edge(x)' = Edge(x)
  BY <1>2 DEF Edge
<1>5. \A G : LeftEnd(G)' = LeftEnd(G) /\ RightEnd(G)' = RightEnd(G)
  BY <1>1, <1>4 DEF LeftEnd, RightEnd
<1> QED
  BY <1>3, <1>5

(* A step that changes neither the graph nor the ranges keeps what is known*)
(* of them.                                                                *)
LEMMA GraphKept ==
  ASSUME GraphInv, UNCHANGED <<protocol, samples, app_xranges, proxy_xranges>>,
         phase' = "ranges" => phase = "ranges"
  PROVE  GraphInv'
<1>1. (protocol \in DOMAIN Profiles)' /\ SamplesOK'
  BY DEF GraphInv, SamplesOK
<1>2. \A G : /\ Wide(G)' = Wide(G) /\ IsRange(app_xranges, G)' = IsRange(app_xranges, G)
             /\ IsRange(proxy_xranges, G)' = IsRange(proxy_xranges, G)
  BY DrawnAlike DEF IsRange
<1>3. RangesOK'
  BY <1>2 DEF GraphInv, RangesOK, AppName
<1> QED
  BY <1>1, <1>3 DEF GraphInv

(* Ranges are looked up in the graph they are used with.                   *)
LEMMA GraphStep == GraphInv /\ [CpuNext]_cpuVars => GraphInv'
<1> SUFFICES ASSUME GraphInv, [CpuNext]_cpuVars PROVE GraphInv'
  OBVIOUS
<1>1. CASE generate_flamegraph
  <2>1. protocol' = protocol /\ protocol \in DOMAIN Profiles /\ samples' \in Profiles[protocol]
        /\ phase' = "svg"
    BY <1>1 DEF generate_flamegraph, GraphInv
  <2>2. samples' \in [DOMAIN Stacks -> Nat]
    BY <2>1, ProfilesAssumption
  <2> QED
    BY <2>1, <2>2 DEF GraphInv, SamplesOK, RangesOK
<1>2. CASE FindRanges
  <2>1. /\ protocol' = protocol /\ samples' = samples
        /\ app_xranges' \in get_target_xrange(AppName)
    BY <1>2 DEF FindRanges
  <2>2. PICK worker0 \in get_target_xrange(PROXY.USER[1]),
             worker1 \in get_target_xrange(PROXY.USER[2]) :
          proxy_xranges' = <<worker0[1], worker1[2]>>
    BY <1>2 DEF FindRanges, PROXY
  <2>3. SamplesOK
    BY DEF GraphInv
  <2>4. Of(AppName) # {} /\ Wide(Of(AppName)) /\ IsRange(app_xranges', Of(AppName))
    BY <2>1, <2>3, ProcessNames, RangeFound
  <2>5. Of(PROXY.USER[1]) # {} /\ Of(PROXY.USER[2]) # {}
    BY <2>3, ProcessNames, RangeFound
  <2>6. Wide(OfProxy) /\ IsRange(proxy_xranges', OfProxy)
    BY <2>2, <2>3, RangeOfWorkers
  <2>7. \A G : /\ Wide(G)' = Wide(G) /\ IsRange(app_xranges, G)' = IsRange(app_xranges', G)
               /\ IsRange(proxy_xranges, G)' = IsRange(proxy_xranges', G)
    BY <2>1, DrawnAlike DEF IsRange
  <2>8. RangesOK'
    BY <2>1, <2>4, <2>5, <2>6, <2>7 DEF RangesOK, AppName
  <2> QED
    BY <2>1, <2>3, <2>8 DEF GraphInv, SamplesOK
<1>3. CASE NotDrawn
  BY <1>3, GraphKept DEF NotDrawn
<1>4. CASE Breakdown
  BY <1>4, GraphKept DEF Breakdown
<1>5. CASE build_cpu_model
  BY <1>5, GraphKept DEF build_cpu_model
<1>6. CASE UNCHANGED cpuVars
  BY <1>6, GraphKept DEF cpuVars
<1> QED
  BY <1>1, <1>2, <1>3, <1>4, <1>5, <1>6 DEF CpuNext

(* The ranges in use are those of the processes of the graph in use.       *)
LEMMA GraphIsRead == CpuSpec => []GraphInv
<1>1. CpuInit => GraphInv
  BY DEF CpuInit, GraphInv, SamplesOK, RangesOK
<1> QED
  BY <1>1, GraphStep, PTL DEF CpuSpec

(* The ranges of a graph are those of the application and of the proxy.    *)
LEMMA GraphRanges ==
  ASSUME GraphInv, phase = "ranges"
  PROVE  /\ SamplesOK
         /\ Neighbours(Of(AppName)) /\ Wide(Of(AppName)) /\ IsRange(app_xranges, Of(AppName))
         /\ Neighbours(OfProxy) /\ Wide(OfProxy) /\ IsRange(proxy_xranges, OfProxy)
         /\ Of(AppName) = UNION {Of(name) : name \in {AppName}}
         /\ OfProxy = UNION {Of(name) : name \in Proxy}
<1>1. /\ SamplesOK
      /\ Of(AppName) # {} /\ Wide(Of(AppName)) /\ IsRange(app_xranges, Of(AppName))
      /\ Of(PROXY.USER[1]) # {} /\ Of(PROXY.USER[2]) # {}
      /\ Wide(OfProxy) /\ IsRange(proxy_xranges, OfProxy)
  BY DEF GraphInv, RangesOK
<1>2. Neighbours(Of(AppName)) /\ Neighbours(OfProxy)
  BY <1>1, ProcessesAreWhole
<1>3. Of(AppName) = UNION {Of(name) : name \in {AppName}}
  OBVIOUS
<1>4. OfProxy = UNION {Of(name) : name \in Proxy}
  BY DEF OfProxy, Proxy
<1> QED
  BY <1>1, <1>2, <1>3, <1>4

(* A process is charged for all its drawn calls, each of which begins      *)
(* before its range ends, and for one of another process only if that is   *)
(* drawn where the range ends: rounded borders do not mix up what is drawn *)
(* apart, wherever the last bit of the end falls.                          *)
THEOREM OwnCallsAreCharged == CpuSpec => []NoCrossTalk
<1>1. GraphInv => NoCrossTalk
  <2> SUFFICES ASSUME GraphInv, phase = "ranges"
               PROVE  OwnCalls(proxy_xranges, Proxy) /\ OwnCalls(app_xranges, {AppName})
    BY DEF NoCrossTalk
  <2> QED
    BY GraphRanges, RangeOfOwnCalls
<1> QED
  BY <1>1, GraphIsRead, PTL

-----------------------------------------------------------------------------
(* The values a function takes on a finite set.                            *)
LEMMA FiniteImage ==
  ASSUME NEW S, IsFiniteSet(S), NEW g
  PROVE  IsFiniteSet({g[x] : x \in S})
<1> DEFINE T == {g[x] : x \in S}
           h == [x \in S |-> g[x]]
<1>1. h \in Surjection(S, T)
  BY DEF Surjection
<1> HIDE DEF h, T
<1>2. IsFiniteSet(T)
  BY <1>1, FS_Surjection
<1> QED
  BY <1>2 DEF T

(* There are finitely many frames, drawn or not.                           *)
LEMMA FramesAreFinite == IsFiniteSet(Beginnings) /\ IsFiniteSet(Frames)
<1> DEFINE cut(s) == [n \in 1..Len(Stacks[s]) |-> SubSeq(Stacks[s], 1, n)]
           B == [s \in DOMAIN Stacks |-> {cut(s)[n] : n \in 1..Len(Stacks[s])}]
           Lists == {B[s] : s \in DOMAIN Stacks}
<1>1. IsFiniteSet(Lists)
  <2> HIDE DEF B
  <2> QED
    BY StackFacts, FiniteImage
<1>2. ASSUME NEW s \in DOMAIN Stacks PROVE IsFiniteSet(B[s])
  <2>1. Len(Stacks[s]) \in Int /\ 1 \in Int
    BY StackFacts
  <2>2. IsFiniteSet(1..Len(Stacks[s]))
    BY <2>1, FS_Interval
  <2> HIDE DEF cut
  <2>3. IsFiniteSet({cut(s)[n] : n \in 1..Len(Stacks[s])})
    BY <2>2, FiniteImage
  <2> QED
    BY <2>3
<1>3. IsFiniteSet(UNION Lists)
  <2>1. \A T \in Lists : IsFiniteSet(T)
    BY <1>2
  <2> HIDE DEF Lists
  <2> QED
    BY <1>1, <2>1, FS_UNION
<1>4. Beginnings \subseteq UNION Lists
  <2> SUFFICES ASSUME NEW s \in DOMAIN Stacks, NEW n \in 1..Len(Stacks[s])
               PROVE  SubSeq(Stacks[s], 1, n) \in B[s]
    BY DEF Beginnings
  <2>1. SubSeq(Stacks[s], 1, n) = cut(s)[n]
    OBVIOUS
  <2> HIDE DEF cut
  <2> QED
    BY <2>1
<1>5. IsFiniteSet(Beginnings) /\ Frames \subseteq Beginnings
  BY <1>3, <1>4, FS_Subset DEF Frames
<1> QED
  BY <1>5, FS_Subset

(* The calls in sampled stacks, and those that belong to a set of frames.  *)
Calls == UNION {{<<s, n>> : n \in DOMAIN Stacks[s]} : s \in DOMAIN Stacks}
CallsOf(S) == {c \in Calls : SubSeq(Stacks[c[1]], 1, c[2]) \in S}
Weights == [c \in Calls |-> samples[c[1]]]
Widths == [f \in Beginnings |-> Total(Under(f))]

(* Finitely many calls, each with its samples.                             *)
LEMMA CallsAreCounted ==
  ASSUME SamplesOK
  PROVE  /\ IsFiniteSet(Calls) /\ \A c \in Calls : Weights[c] \in Int
         /\ \A c \in Calls : /\ c = <<c[1], c[2]>> /\ c[1] \in DOMAIN Stacks
                             /\ c[2] \in DOMAIN Stacks[c[1]]
         /\ \A f \in Beginnings : Widths[f] \in Int
<1> DEFINE pair(s) == [n \in DOMAIN Stacks[s] |-> <<s, n>>]
           B == [s \in DOMAIN Stacks |-> {pair(s)[n] : n \in DOMAIN Stacks[s]}]
           Lists == {B[s] : s \in DOMAIN Stacks}
<1>1. IsFiniteSet(Lists)
  <2> HIDE DEF B
  <2> QED
    BY StackFacts, FiniteImage
<1>2. ASSUME NEW s \in DOMAIN Stacks PROVE IsFiniteSet(B[s])
  <2>1. Len(Stacks[s]) \in Int /\ 1 \in Int /\ DOMAIN Stacks[s] = 1..Len(Stacks[s])
    BY StackFacts
  <2>2. IsFiniteSet(DOMAIN Stacks[s])
    BY <2>1, FS_Interval
  <2> HIDE DEF pair
  <2>3. IsFiniteSet({pair(s)[n] : n \in DOMAIN Stacks[s]})
    BY <2>2, FiniteImage
  <2> QED
    BY <2>3
<1>3. IsFiniteSet(UNION Lists)
  <2>1. \A T \in Lists : IsFiniteSet(T)
    BY <1>2
  <2> HIDE DEF Lists
  <2> QED
    BY <1>1, <2>1, FS_UNION
<1>4. Calls \subseteq UNION Lists
  <2> SUFFICES ASSUME NEW s \in DOMAIN Stacks, NEW n \in DOMAIN Stacks[s]
               PROVE  <<s, n>> \in B[s]
    BY DEF Calls
  <2>1. <<s, n>> = pair(s)[n]
    OBVIOUS
  <2> HIDE DEF pair
  <2> QED
    BY <2>1
<1>5. IsFiniteSet(Calls)
  BY <1>3, <1>4, FS_Subset
<1>6. \A c \in Calls : c = <<c[1], c[2]>> /\ c[1] \in DOMAIN Stacks /\ c[2] \in DOMAIN Stacks[c[1]]
  <2> SUFFICES ASSUME NEW s \in DOMAIN Stacks, NEW n \in DOMAIN Stacks[s], NEW c, c = <<s, n>>
               PROVE  c = <<c[1], c[2]>> /\ c[1] \in DOMAIN Stacks /\ c[2] \in DOMAIN Stacks[c[1]]
    BY DEF Calls
  <2> QED
    OBVIOUS
<1>7. \A c \in Calls : Weights[c] \in Int
  BY <1>6 DEF Weights, SamplesOK
<1>8. \A f \in Beginnings : Widths[f] \in Int
  <2> TAKE f \in Beginnings
  <2>1. Under(f) \in SUBSET DOMAIN Stacks
    BY DEF Under
  <2>2. Total(Under(f)) \in Nat
    BY <2>1, Totals
  <2> QED
    BY <2>2 DEF Widths
<1> QED
  BY <1>5, <1>6, <1>7, <1>8

(* The samples of the calls at one depth are those of their stacks.        *)
LEMMA CallsAtDepth ==
  ASSUME SamplesOK, NEW n, NEW S \in SUBSET DOMAIN Stacks, \A s \in S : n \in DOMAIN Stacks[s]
  PROVE  SumFunctionOnSet(Weights, {<<s, n>> : s \in S}) = Total(S)
<1> DEFINE at(T) == {<<s, n>> : s \in T}
           F == {T \in SUBSET S : SumFunctionOnSet(Weights, at(T)) = Total(T)}
<1>1. {} \in F
  <2>1. at({}) = {}
    OBVIOUS
  <2> QED
    BY <2>1, SumEmpty DEF Total
<1>2. ASSUME NEW T \in SUBSET S, NEW x \in S \ T, T \in F PROVE T \cup {x} \in F
  <2>1. at(T) \subseteq Calls /\ <<x, n>> \in Calls /\ <<x, n>> \notin at(T)
    BY <1>2 DEF Calls
  <2>2. at(T \cup {x}) = at(T) \cup {<<x, n>>}
    OBVIOUS
  <2>3. IsFiniteSet(at(T)) /\ (\A c \in at(T) \cup {<<x, n>>} : Weights[c] \in Int)
    BY <2>1, CallsAreCounted, FS_Subset
  <2>4. IsFiniteSet(T) /\ \A s \in T \cup {x} : samples[s] \in Int
    BY <1>2, StackFacts, FS_Subset DEF SamplesOK
  <2>5. Total(T \cup {x}) = Total(T) + samples[x]
    BY <1>2, <2>4, SumAdd DEF Total
  <2>6. Weights[<<x, n>>] = samples[x]
    BY <2>1 DEF Weights
  <2>7. SumFunctionOnSet(Weights, at(T)) = Total(T)
    BY <1>2
  <2> DEFINE A == at(T)
             c == <<x, n>>
  <2>8. SumFunctionOnSet(Weights, A \cup {c}) = SumFunctionOnSet(Weights, A) + Weights[c]
    <3>1. IsFiniteSet(A) /\ c \notin A /\ \A y \in A \cup {c} : Weights[y] \in Int
      BY <2>1, <2>3
    <3> HIDE DEF A, c
    <3> QED
      BY <3>1, SumAdd
  <2> QED
    BY <1>2, <2>2, <2>5, <2>6, <2>7, <2>8
<1>3. IsFiniteSet(S)
  BY StackFacts, FS_Subset
<1>4. S \in F
  <2> HIDE DEF F
  <2> QED
    BY <1>1, <1>2, <1>3, Growing
<1> QED
  BY <1>4

(* The calls of a frame are one call in each of its stacks.                *)
LEMMA CallsOfFrame ==
  ASSUME SamplesOK, NEW f \in Beginnings
  PROVE  SumFunctionOnSet(Weights, CallsOf({f})) = Widths[f]
<1> DEFINE n == Len(f)
<1>1. PICK s0 \in DOMAIN Stacks : \E m \in DOMAIN Stacks[s0] : f = SubSeq(Stacks[s0], 1, m)
  BY StackFacts DEF Beginnings
<1>2. PICK m \in DOMAIN Stacks[s0] : f = SubSeq(Stacks[s0], 1, m)
  BY <1>1
<1>3. n = m /\ n \in Nat /\ n >= 1
  BY <1>2, StackFacts, FrameIsWhole
<1> HIDE DEF n
<1>4. ASSUME NEW t \in Under(f) PROVE /\ t \in DOMAIN Stacks /\ n \in DOMAIN Stacks[t]
                                      /\ SubSeq(Stacks[t], 1, n) = f
  <2>1. t \in DOMAIN Stacks /\ Len(Stacks[t]) >= n /\ SubSeq(Stacks[t], 1, n) = f
    BY DEF Under, n
  <2> QED
    BY <2>1, <1>3, StackFacts
<1>5. ASSUME NEW c \in CallsOf({f}) PROVE c[2] = n /\ c[1] \in Under(f) /\ c = <<c[1], n>>
  <2>1. /\ c[1] \in DOMAIN Stacks /\ c[2] \in DOMAIN Stacks[c[1]] /\ c = <<c[1], c[2]>>
        /\ SubSeq(Stacks[c[1]], 1, c[2]) = f
    BY CallsAreCounted DEF CallsOf
  <2>2. Len(f) = c[2]
    BY <2>1, FrameIsWhole
  <2>3. c[1] \in Under(f)
    BY <2>1, FrameIsWhole
  <2> QED
    BY <2>1, <2>2, <2>3 DEF n
<1>6. ASSUME NEW t \in Under(f) PROVE <<t, n>> \in CallsOf({f})
  <2>1. <<t, n>> \in Calls
    BY <1>4 DEF Calls
  <2> QED
    BY <2>1, <1>4 DEF CallsOf
<1>7. CallsOf({f}) = {<<t, n>> : t \in Under(f)}
  BY <1>5, <1>6
<1>8. Under(f) \in SUBSET DOMAIN Stacks /\ \A t \in Under(f) : n \in DOMAIN Stacks[t]
  BY <1>4
<1>9. SumFunctionOnSet(Weights, {<<t, n>> : t \in Under(f)}) = Total(Under(f))
  BY <1>8, CallsAtDepth
<1> QED
  BY <1>7, <1>9 DEF Widths

(* Adding up the widths of frames adds up the samples of their calls.      *)
LEMMA WidthsAreSamples ==
  ASSUME SamplesOK, NEW S \in SUBSET Beginnings
  PROVE  SumFunctionOnSet(Widths, S) = SumFunctionOnSet(Weights, CallsOf(S))
<1> DEFINE F == {T \in SUBSET S :
                   SumFunctionOnSet(Widths, T) = SumFunctionOnSet(Weights, CallsOf(T))}
<1>1. {} \in F
  <2>1. CallsOf({}) = {}
    BY DEF CallsOf
  <2> QED
    BY <2>1, SumEmpty
<1>2. ASSUME NEW T \in SUBSET S, NEW f \in S \ T, T \in F PROVE T \cup {f} \in F
  <2> DEFINE A == CallsOf(T)
             B == CallsOf({f})
  <2>1. A \cap B = {} /\ CallsOf(T \cup {f}) = A \cup B /\ A \cup B \subseteq Calls
    BY <1>2 DEF CallsOf
  <2>2. IsFiniteSet(A) /\ IsFiniteSet(B) /\ \A c \in A \cup B : Weights[c] \in Int
    BY <2>1, CallsAreCounted, FS_Subset
  <2>3. SumFunctionOnSet(Weights, B) = Widths[f]
    BY CallsOfFrame
  <2> HIDE DEF A, B
  <2>4. SumFunctionOnSet(Weights, A \cup B) = SumFunctionOnSet(Weights, A) + Widths[f]
    BY <2>1, <2>2, <2>3, SumUnion
  <2>5. SumFunctionOnSet(Widths, T \cup {f}) = SumFunctionOnSet(Widths, T) + Widths[f]
    <3>1. IsFiniteSet(T) /\ f \notin T /\ \A g \in T \cup {f} : Widths[g] \in Int
      BY <1>2, FramesAreFinite, CallsAreCounted, FS_Subset
    <3> QED
      BY <3>1, SumAdd
  <2> QED
    BY <1>2, <2>1, <2>4, <2>5 DEF A
<1>3. IsFiniteSet(S)
  BY FramesAreFinite, FS_Subset
<1>4. S \in F
  <2> HIDE DEF F
  <2> QED
    BY <1>1, <1>2, <1>3, Growing
<1> QED
  BY <1>4

(* Shares that are added up are numbers of samples.                        *)
LEMMA SharesAreNumbers ==
  ASSUME SamplesOK, NEW S \in SUBSET Beginnings
  PROVE  /\ MapThenSumSet(Width, S) = SumFunctionOnSet(Widths, S)
         /\ MapThenSumSet(Width, S) \in Int
<1>1. \A f \in Beginnings : Width(f) = Widths[f]
  BY DEF Widths, Width, Total, MapThenSumSet, SumFunctionOnSet, FoldFunctionOnSet
<1>2. MapThenSumSet(Width, S) = SumFunctionOnSet(Widths, S)
  <2> DEFINE w == [f \in Beginnings |-> Width(f)]
  <2>1. MapThenSumSet(Width, S) = SumFunctionOnSet(w, S)
    BY DEF MapThenSumSet, SumFunctionOnSet, FoldFunctionOnSet, MapThenFoldSet
  <2>2. w = Widths
    BY <1>1 DEF Widths
  <2> QED
    BY <2>1, <2>2
<1>3. IsFiniteSet(S) /\ \A f \in S : Widths[f] \in Int
  BY FramesAreFinite, CallsAreCounted, FS_Subset
<1> QED
  BY <1>2, <1>3, SumInt

(* What is found within a range are the samples of the calls charged to it.*)
LEMMA WithinIsCharged ==
  ASSUME SamplesOK, NEW names, NEW G, Neighbours(G), Wide(G), NEW range, IsRange(range, G),
         G = UNION {Of(name) : name \in names}, NEW name
  PROVE  Within(name, range) = Charged(name, range, names) /\ Within(name, range) \in Int
<1>1. /\ \A f \in Frames : f[1] \in names => Inside(X(f), range)
      /\ \A f \in Frames : f[1] \notin names /\ Inside(X(f), range) =>
           X(f) \in {range[2] - 1, range[2]}
      /\ \A f \in Frames : X(f) \in {range[2] - 1, range[2]} => Inside(X(f), range)
  <2>1. /\ OwnCalls(range, names)
        /\ \A f \in Frames : X(f) \in {range[2] - 1, range[2]} => Inside(X(f), range)
    BY RangeOfOwnCalls
  <2> QED
    BY <2>1 DEF OwnCalls
<1> DEFINE S == Counted(name, range)
<1>2. S \in SUBSET Beginnings
  BY DEF Counted, Named
<1>3. ASSUME NEW c \in Calls PROVE c \in ChargedCalls(name, range, names) <=> c \in CallsOf(S)
  <2> DEFINE f == SubSeq(Stacks[c[1]], 1, c[2])
  <2>1. c[1] \in DOMAIN Stacks /\ c[2] \in DOMAIN Stacks[c[1]]
    BY CallsAreCounted
  <2>2. f \in Beginnings
    BY <2>1, StackFacts DEF Beginnings
  <2>3. Len(f) = c[2] /\ 1 \in 1..c[2] /\ c[2] \in 1..c[2]
    BY <2>1, StackFacts, FrameIsWhole
  <2>4. f[Len(f)] = Stacks[c[1]][c[2]] /\ f[1] = Stacks[c[1]][1]
    BY <2>1, <2>3, FrameIsWhole
  <2>5. f \in Frames <=> Drawn(f)
    BY <2>2 DEF Frames
  <2>6. c \in CallsOf(S) <=> /\ f[Len(f)] = name /\ Drawn(f) /\ Inside(X(f), range)
    BY <2>2 DEF CallsOf, Counted, Named
  <2>7. c \in ChargedCalls(name, range, names) <=>
          /\ Stacks[c[1]][c[2]] = name /\ Drawn(f)
          /\ Stacks[c[1]][1] \in names \/ X(f) \in {range[2] - 1, range[2]}
    BY DEF ChargedCalls, Calls
  <2> HIDE DEF f, S
  <2>8. f \in Frames => (Inside(X(f), range)
                           <=> f[1] \in names \/ X(f) \in {range[2] - 1, range[2]})
    BY <1>1
  <2> QED
    BY <2>4, <2>5, <2>6, <2>7, <2>8
<1>4. ChargedCalls(name, range, names) = CallsOf(S)
  <2>1. ChargedCalls(name, range, names) \subseteq Calls /\ CallsOf(S) \subseteq Calls
    BY DEF ChargedCalls, CallsOf, Calls
  <2> QED
    BY <2>1, <1>3
<1>5. Within(name, range) = SumFunctionOnSet(Widths, S) /\ Within(name, range) \in Int
  BY <1>2, SharesAreNumbers DEF Within
<1>6. Charged(name, range, names) = SumFunctionOnSet(Weights, CallsOf(S))
  <2>1. CallsOf(S) \subseteq Calls
    BY DEF CallsOf
  <2>2. Charged(name, range, names) = MapThenSumSet(LAMBDA c : samples[c[1]], CallsOf(S))
    BY <1>4 DEF Charged
  <2> HIDE DEF S
  <2> QED
    BY <2>1, <2>2
       DEF Weights, MapThenSumSet, SumFunctionOnSet, FoldFunctionOnSet, MapThenFoldSet
<1> QED
  BY <1>2, <1>5, <1>6, WidthsAreSamples

(* The samples of a process, if it is drawn.                               *)
DrawnOf(name) == {s \in Of(name) : Drawn(<<name>>)}

(* What is found for a process anywhere are the samples of its stacks.     *)
LEMMA FoundAnywhere ==
  ASSUME SamplesOK, NEW name \in Processes
  PROVE  Anywhere(name) = Total(DrawnOf(name)) /\ Total(DrawnOf(name)) \in Nat
<1>1. Named(name) \in SUBSET Beginnings
  BY DEF Named
<1>2. Anywhere(name) = SumFunctionOnSet(Widths, Named(name))
  BY <1>1, SharesAreNumbers DEF Anywhere
<1>3. DrawnOf(name) \in SUBSET DOMAIN Stacks
  BY DEF DrawnOf, Of, Under
<1>4. Total(DrawnOf(name)) \in Nat
  BY <1>3, Totals
<1>5. CASE Drawn(<<name>>)
  <2>1. Named(name) = {<<name>>} /\ <<name>> \in Beginnings
    BY <1>1, <1>5, NamedOnce
  <2>2. DrawnOf(name) = Of(name)
    BY <1>5 DEF DrawnOf
  <2>3. Widths[<<name>>] = Total(Of(name))
    BY <2>1 DEF Widths, Of
  <2> DEFINE x == <<name>>
  <2>4. SumFunctionOnSet(Widths, {} \cup {x}) = SumFunctionOnSet(Widths, {}) + Widths[x]
    <3>1. IsFiniteSet({}) /\ x \notin {} /\ \A y \in {} \cup {x} : Widths[y] \in Int
      BY <2>1, CallsAreCounted, FS_EmptySet
    <3> HIDE DEF x
    <3> QED
      BY <3>1, SumAdd
  <2>5. SumFunctionOnSet(Widths, {}) = 0 /\ {} \cup {x} = {x}
    BY SumEmpty
  <2> QED
    BY <1>2, <1>4, <2>1, <2>2, <2>3, <2>4, <2>5
<1>6. CASE ~ Drawn(<<name>>)
  <2>1. Named(name) = {} /\ DrawnOf(name) = {}
    BY <1>6, NamedOnce DEF DrawnOf
  <2> QED
    BY <1>2, <1>4, <2>1, SumEmpty DEF Total
<1> QED
  BY <1>5, <1>6

(* The samples of the proxy and the application are those of three         *)
(* processes that share no stack.                                          *)
LEMMA SamplesOfThree ==
  ASSUME SamplesOK
  PROVE  /\ DrawnSamples(Proxy \cup {"echo-server"})
              = Anywhere(PROXY.USER[1]) + Anywhere(PROXY.USER[2]) + Anywhere("echo-server")
         /\ Anywhere(PROXY.USER[1]) \in Nat /\ Anywhere(PROXY.USER[2]) \in Nat
         /\ Anywhere("echo-server") \in Nat
<1> DEFINE A == DrawnOf(PROXY.USER[1])
           B == DrawnOf(PROXY.USER[2])
           C == DrawnOf("echo-server")
           names == Proxy \cup {"echo-server"}
           S == {s \in DOMAIN Stacks : Stacks[s][1] \in names /\ Drawn(<<Stacks[s][1]>>)}
<1>1. /\ A \in SUBSET DOMAIN Stacks /\ B \in SUBSET DOMAIN Stacks /\ C \in SUBSET DOMAIN Stacks
      /\ A \cap B = {} /\ (A \cup B) \cap C = {} /\ S = (A \cup B) \cup C
  <2>1. PROXY.USER[1] = "wrk:worker_0" /\ PROXY.USER[2] = "wrk:worker_1"
    BY DEF PROXY
  <2>2. \A name : DrawnOf(name) = {s \in DOMAIN Stacks : Stacks[s][1] = name /\ Drawn(<<name>>)}
    BY OfProcess DEF DrawnOf
  <2> QED
    BY <2>1, <2>2 DEF Proxy
<1>2. DrawnSamples(names) = Total(S)
  BY DEF DrawnSamples, Total, MapThenSumSet, SumFunctionOnSet, FoldFunctionOnSet
<1>3. /\ Anywhere(PROXY.USER[1]) = Total(A) /\ Anywhere(PROXY.USER[2]) = Total(B)
      /\ Anywhere("echo-server") = Total(C)
  BY FoundAnywhere DEF Processes
<1> HIDE DEF A, B, C, S
<1>4. Total(A) \in Nat /\ Total(B) \in Nat /\ Total(C) \in Nat
  BY <1>1, Totals
<1>5. Total(A \cup B) = Total(A) + Total(B)
  BY <1>1, Totals
<1>6. A \cup B \in SUBSET DOMAIN Stacks
  BY <1>1
<1>7. Total((A \cup B) \cup C) = Total(A \cup B) + Total(C)
  BY <1>1, <1>6, Totals
<1> QED
  BY <1>1, <1>2, <1>3, <1>4, <1>5, <1>7

(* The shares that become the points of the models are the samples of the  *)
(* calls that are charged to the proxy and to the application, and what is *)
(* left for the others lacks the packets handled within the proxy's writes *)
(* three times, but for those that reach the bridge: whatever is on the    *)
(* stacks and however the picture rounds.                                  *)
THEOREM SharesAreSamples == CpuSpec => []SharesAsSampled
<1>1. GraphInv => SharesAsSampled
  <2> DEFINE proxy(name) == Charged(name, proxy_xranges, Proxy)
             app(name) == Charged(name, app_xranges, {AppName})
             P(name) == Within(name, proxy_xranges)
             A(name) == Within(name, app_xranges)
             share == parse_cpu_breakdown(get_cpu_breakdown("echo-server"))
             three == DrawnSamples(Proxy \cup {"echo-server"})
  <2> SUFFICES ASSUME GraphInv, phase = "ranges"
               PROVE  /\ share.read = proxy(PROXY.READ) + 2 * app(APP.READ)
                      /\ share.write = proxy(PROXY.WRITE[2]) - proxy(PROXY.WRITE[1])
                                         + 2 * (app(APP.WRITE) - app(APP.IPC))
                      /\ share.ipc = 2 * (proxy(PROXY.WRITE[1]) - proxy(PROXY.IPC) + app(APP.IPC))
                      /\ share.epoll = 2 * proxy(PROXY.EPOLL)
                      /\ share.others = 2 * (All - three - 3 * proxy(PROXY.WRITE[1])
                                               + proxy(PROXY.IPC))
    BY DEF SharesAsSampled
  <2>1. SamplesOK
    BY GraphRanges
  <2>2. \A name : P(name) = proxy(name) /\ P(name) \in Int
    BY GraphRanges, WithinIsCharged
  <2>3. \A name : A(name) = app(name) /\ A(name) \in Int
    BY GraphRanges, WithinIsCharged
  <2>4. Anywhere(PROXY.PARSE) \in Int
    <3>1. Named(PROXY.PARSE) \in SUBSET Beginnings
      BY DEF Named
    <3> QED
      BY <2>1, <3>1, SharesAreNumbers DEF Anywhere
  <2> DEFINE read == P(PROXY.READ)
             backlog == P(PROXY.WRITE[1])
             writev == P(PROXY.WRITE[2])
             bridge == P(PROXY.IPC)
             epoll == P(PROXY.EPOLL)
             worker0 == Anywhere(PROXY.USER[1])
             worker1 == Anywhere(PROXY.USER[2])
             parsing == IF protocol \in {"http", "grpc"} THEN Anywhere(PROXY.PARSE) ELSE 0
             app_read == A(APP.READ)
             app_write == A(APP.WRITE)
             app_ipc == A(APP.IPC)
             server == Anywhere("echo-server")
             b == get_cpu_breakdown("echo-server")
  <2>5. /\ read \in Int /\ backlog \in Int /\ writev \in Int /\ bridge \in Int /\ epoll \in Int
        /\ parsing \in Int /\ app_read \in Int /\ app_write \in Int /\ app_ipc \in Int
        /\ worker0 \in Int /\ worker1 \in Int /\ server \in Int /\ All \in Int
        /\ three = worker0 + worker1 + server
    BY <2>1, <2>2, <2>3, <2>4, SamplesOfThree, AllIsTotal
  <2>6. /\ b.envoy_read = read /\ b.envoy_write = writev - backlog
        /\ b.envoy_loopback = backlog - bridge /\ b.envoy_epoll = epoll
        /\ b.app_read = app_read /\ b.app_loopback = app_ipc /\ b.app_write = app_write - app_ipc
    BY DEF get_cpu_breakdown
  <2>7. b.others =
          All - (read + backlog + (writev - backlog) + bridge + (backlog - bridge) + epoll
                 + (worker0 + worker1 - (read + (writev - backlog) + epoll) + (backlog - bridge))
                 + parsing + app_read + app_ipc + (app_write - app_ipc)
                 + (server - app_read - (app_write - app_ipc) - app_ipc)) + parsing
    BY DEF get_cpu_breakdown
  <2>8. /\ share.read = b.envoy_read + 2 * b.app_read
        /\ share.write = b.envoy_write + 2 * b.app_write
        /\ share.ipc = 2 * (b.envoy_loopback + b.app_loopback)
        /\ share.epoll = 2 * b.envoy_epoll /\ share.others = 2 * b.others
    BY DEF parse_cpu_breakdown, Others
  <2>9. /\ proxy(PROXY.READ) = read /\ proxy(PROXY.WRITE[1]) = backlog
        /\ proxy(PROXY.WRITE[2]) = writev /\ proxy(PROXY.IPC) = bridge
        /\ proxy(PROXY.EPOLL) = epoll
        /\ app(APP.READ) = app_read /\ app(APP.WRITE) = app_write /\ app(APP.IPC) = app_ipc
    BY <2>2, <2>3
  <2> HIDE DEF read, backlog, writev, bridge, epoll, worker0, worker1, parsing, app_read,
               app_write, app_ipc, server, b, share, three, proxy, app
  <2>10. b.others = All - three - 3 * backlog + bridge
    BY <2>5, <2>7
  <2> QED
    BY <2>5, <2>6, <2>8, <2>9, <2>10
<1> QED
  BY <1>1, GraphIsRead, PTL
=============================================================================
