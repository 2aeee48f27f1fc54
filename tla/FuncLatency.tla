----------------------------- MODULE FuncLatency -----------------------------
(***************************************************************************)
(* latency/funclatency_filter.py: the BPF program that times the calls of  *)
(* some functions, and the script that attaches it, sleeps, reads its      *)
(* tables and prints.                                                      *)
(*                                                                         *)
(* The probes run in the threads that make the calls: one thread's entry   *)
(* and return probes run in the order of its calls, and those of different *)
(* threads, and the script, interleave between any two table operations.   *)
(* A return probe only runs for a call that began when the return probe of *)
(* its function was attached (a uretprobe or kretprobe hooks the entry).   *)
(* The variant for -l, which does not compile, is left out, and so is the  *)
(* log2 histogram dist, which is printed and not used.                     *)
(***************************************************************************)
EXTENDS Integers, Sequences, FiniteSets, FiniteSetsExt

CONSTANTS Threads, None,
          Funcs,           \* the functions the pattern matches
          RetVals,         \* return values
          Ret,             \* -t, or NoRet
          NoRet,
          Number, LowerBound,     \* -n and -w, 0 when not given
          Width,           \* 2^32: delta is stored as an int
          Buckets,         \* length of latency_hist
          Interval, Duration,     \* -i and -d
          MaxTime, MaxCalls, MaxDepth   \* bounds of the instance

ASSUME NoneAssumption == None \notin Nat
ASSUME ThreadsAssumption == IsFiniteSet(Threads)
ASSUME NumbersAssumption ==
    /\ Number \in Nat /\ LowerBound \in Nat /\ MaxTime \in Nat /\ MaxCalls \in Nat
    /\ MaxDepth \in Nat /\ Width \in Nat \ {0} /\ Buckets \in Nat /\ 2 * Buckets <= Width
    /\ Interval \in Nat \ {0} /\ Duration \in Nat

VARIABLES
    now, calls,            \* the clock of bpf_ktime_get_ns, and the calls made
    traced,                \* the threads of the process given by -p
    frames,                \* each thread's calls in progress, the innermost last
    entryOn, returnOn,     \* functions whose entry, return probe is attached
    start,                 \* BPF_HASH start: the time stored for a thread
    probe, delta,          \* what each thread's return probe does next, and with what
    sample,                \* the call a return probe believes it has timed (history)
    total, count,          \* BPF_ARRAY avg
    latency_table,
    pc, seconds, exiting,  \* the script
    latency_hist, unread,  \* the script's copy of the latency table, and what it has not read
    latency_vals,          \* number of calls of each latency in the report
    missed,                \* innermost calls that are over and unrecorded (history)
    cleared                \* avg has been cleared (history)

threadVars == <<now, calls, traced, frames>>
probeVars == <<start, probe, delta, sample, total, count, latency_table>>
scriptVars == <<pc, seconds, exiting, latency_hist, unread, latency_vals>>
history == <<missed, cleared>>
attached == <<entryOn, returnOn>>
vars == <<now, calls, traced, frames, entryOn, returnOn, start, probe, delta, sample, total,
          count, latency_table, pc, seconds, exiting, latency_hist, unread, latency_vals,
          missed, cleared>>

Keys == 0..(Width - 1)
Index == 0..(Buckets - 1)
NoCalls == [i \in Index |-> 0]
NoSample == [took |-> 0, leaf |-> TRUE, settled |-> TRUE]

Init ==
    /\ now = 0 /\ calls = 0
    /\ traced \in SUBSET Threads
    /\ frames = [t \in Threads |-> <<>>]
    /\ entryOn = {} /\ returnOn = {}
    /\ start = [t \in Threads |-> None]
    /\ probe = [t \in Threads |-> "idle"]
    /\ delta = [t \in Threads |-> 0]
    /\ sample = [t \in Threads |-> NoSample]
    /\ total = 0 /\ count = 0
    /\ latency_table = [k \in Keys |-> 0]
    /\ pc = "attach" /\ seconds = 0 /\ exiting = FALSE
    /\ latency_hist = NoCalls /\ unread = {} /\ latency_vals = NoCalls
    /\ missed = 0 /\ cleared = FALSE

-----------------------------------------------------------------------------
(* The traced program. A frame knows when its call began, if its entry and *)
(* its return are probed, if another call was made during it (leaf) and if *)
(* it began after everything was attached (settled).                       *)
Tick ==
    /\ now < MaxTime /\ pc # "done"
    /\ now' = now + 1
    /\ UNCHANGED <<calls, traced, frames, attached, probeVars, scriptVars, history>>

Covered(fs) ==
    IF fs = <<>> THEN fs
    ELSE [fs EXCEPT ![Len(fs)] =
            [at |-> @.at, hooked |-> @.hooked, leaf |-> FALSE, settled |-> @.settled]]
top(t) == frames[t][Len(frames[t])]

NewFrame(f) ==
    [at |-> now, hooked |-> f \in returnOn, leaf |-> TRUE, settled |-> pc # "attach"]

(* Fault variants, here and below: what the definition after each would be *)
(* with a slip in the code. They are not part of Next.                     *)
StoreOutermost(t, f) ==
    IF f \in entryOn /\ t \in traced /\ frames[t] = <<>>
    THEN [start EXCEPT ![t] = now] ELSE start

(* trace_func_entry: only the threads of the process are timed.            *)
EntryProbe(t, f) ==
    IF f \in entryOn /\ t \in traced THEN [start EXCEPT ![t] = now] ELSE start

Call(t, f) ==
    /\ pc # "done" /\ probe[t] = "idle"
    /\ calls < MaxCalls /\ Len(frames[t]) < MaxDepth
    /\ calls' = calls + 1
    /\ frames' = [frames EXCEPT ![t] = Append(Covered(@), NewFrame(f))]
    /\ start' = EntryProbe(t, f)
    /\ UNCHANGED <<now, traced, attached, probe, delta, sample, total, count, latency_table,
                   scriptVars, history>>

KeepStart(t) == start
ForgetStart(t) == [start EXCEPT ![t] = None]

CheckFails(ret) == Ret # NoRet /\ ret # Ret

(* trace_func_return up to its first update of a shared table: the check   *)
(* of the return value, the lookup, the delta and the delete.              *)
ReturnProbe(t, ret) ==
    IF CheckFails(ret) \/ start[t] = None
    THEN UNCHANGED <<start, probe, delta, sample>>
    ELSE /\ delta' = [delta EXCEPT ![t] = now - start[t]]
         /\ start' = ForgetStart(t)
         /\ probe' = [probe EXCEPT ![t] = "total"]
         /\ sample' = [sample EXCEPT ![t] =
                [took |-> now - top(t).at, leaf |-> top(t).leaf, settled |-> top(t).settled]]

(* History: an innermost call of the process that the probes have seen     *)
(* from its beginning, and whose return value passes, should be recorded.  *)
Wanted(t, ret) == t \in traced /\ top(t).settled /\ top(t).leaf /\ ~CheckFails(ret)

Return(t, ret) ==
    /\ pc # "done" /\ probe[t] = "idle" /\ frames[t] # <<>>
    /\ frames' = [frames EXCEPT ![t] = SubSeq(@, 1, Len(@) - 1)]
    /\ IF top(t).hooked
       THEN ReturnProbe(t, ret)
       ELSE UNCHANGED <<start, probe, delta, sample>>
    /\ missed' = missed + (IF Wanted(t, ret) /\ probe'[t] = "idle" THEN 1 ELSE 0)
    /\ UNCHANGED <<now, calls, traced, attached, total, count, latency_table, scriptVars,
                   cleared>>

AddTotal(t) ==
    /\ pc # "done" /\ probe[t] = "total"
    /\ total' = total + delta[t]
    /\ probe' = [probe EXCEPT ![t] = "count"]
    /\ UNCHANGED <<threadVars, attached, start, delta, sample, count, latency_table,
                   scriptVars, history>>

AddCount(t) ==
    /\ pc # "done" /\ probe[t] = "count"
    /\ count' = count + 1
    /\ probe' = [probe EXCEPT ![t] = "latency"]
    /\ UNCHANGED <<threadVars, attached, start, delta, sample, total, latency_table,
                   scriptVars, history>>

AddLatencyOnce(t) ==
    /\ pc # "done" /\ probe[t] = "latency"
    /\ latency_table' = [latency_table EXCEPT ![delta[t] % Width] = 1]
    /\ probe' = [probe EXCEPT ![t] = "idle"]
    /\ delta' = [delta EXCEPT ![t] = 0] /\ sample' = [sample EXCEPT ![t] = NoSample]
    /\ UNCHANGED <<threadVars, attached, start, total, count, scriptVars, history>>

(* latency_table.atomic_increment((int)delta): a key above Width \div 2    *)
(* stands for a negative int, which as a u64 is beyond every bucket.       *)
AddLatency(t) ==
    /\ pc # "done" /\ probe[t] = "latency"
    /\ latency_table' = [latency_table EXCEPT ![delta[t] % Width] = @ + 1]
    /\ probe' = [probe EXCEPT ![t] = "idle"]
    /\ delta' = [delta EXCEPT ![t] = 0] /\ sample' = [sample EXCEPT ![t] = NoSample]
    /\ UNCHANGED <<threadVars, attached, start, total, count, scriptVars, history>>

-----------------------------------------------------------------------------
(* The script. All entry probes are attached, then all return probes, one  *)
(* function after the other.                                               *)
AttachEntry(f) ==
    /\ pc = "attach" /\ f \notin entryOn
    /\ entryOn' = entryOn \cup {f}
    /\ UNCHANGED <<threadVars, returnOn, probeVars, scriptVars, history>>

AttachReturn(f) ==
    /\ pc = "attach" /\ entryOn = Funcs /\ f \notin returnOn
    /\ returnOn' = returnOn \cup {f}
    /\ pc' = IF returnOn' = Funcs THEN "sleep" ELSE pc
    /\ UNCHANGED <<threadVars, entryOn, probeVars, seconds, exiting, latency_hist, unread,
                   latency_vals, history>>

(* sleep is over: one more interval.                                       *)
Wake ==
    /\ pc = "sleep"
    /\ seconds' = seconds + Interval
    /\ exiting' = (exiting \/ (Duration > 0 /\ seconds' >= Duration))
    /\ latency_hist' = NoCalls
    /\ unread' = Index
    /\ pc' = "read"
    /\ UNCHANGED <<threadVars, attached, probeVars, latency_vals, history>>

(* Ctrl-C.                                                                 *)
Interrupt ==
    /\ pc = "sleep"
    /\ exiting' = TRUE
    /\ latency_hist' = NoCalls
    /\ unread' = Index
    /\ pc' = "read"
    /\ UNCHANGED <<threadVars, attached, probeVars, seconds, latency_vals, history>>

(* latency.items(): the keys of the table are read one after the other,    *)
(* and those of 1024000 ns and more are left out.                          *)
ReadBucket(k) ==
    /\ pc = "read" /\ k \in unread
    /\ latency_hist' = [latency_hist EXCEPT ![k] = latency_table[k]]
    /\ unread' = unread \ {k}
    /\ UNCHANGED <<threadVars, attached, probeVars, pc, seconds, exiting, latency_vals, history>>

SumFrom(i) == SumFunctionOnSet(latency_hist, i..(Buckets - 1))

(* The three ways the report is made. With -n the buckets are taken from   *)
(* the slowest on, until the next would exceed the number. -w is given in  *)
(* microseconds and the buckets are nanoseconds: the factor is not scaled. *)
Chosen(i) ==
    IF Number > 0 THEN SumFrom(i) <= Number
    ELSE LowerBound > 0 => i > LowerBound

Report ==
    /\ pc = "read" /\ unread = {}
    /\ latency_vals' = [i \in Index |-> IF Chosen(i) THEN latency_hist[i] ELSE 0]
    /\ pc' = "clear"
    /\ UNCHANGED <<threadVars, attached, probeVars, seconds, exiting, latency_hist, unread,
                   history>>

(* avg is cleared for the next interval, latency_table is not.             *)
ClearAverage ==
    /\ pc = "clear"
    /\ total' = 0 /\ count' = 0 /\ cleared' = TRUE
    /\ pc' = IF exiting THEN "done" ELSE "sleep"
    /\ UNCHANGED <<threadVars, attached, start, probe, delta, sample, latency_table, seconds,
                   exiting, latency_hist, unread, latency_vals, missed>>

Next ==
    \/ Tick
    \/ \E t \in Threads :
         \/ \E f \in Funcs : Call(t, f)
         \/ \E ret \in RetVals : Return(t, ret)
         \/ AddTotal(t) \/ AddCount(t) \/ AddLatency(t)
    \/ \E f \in Funcs : AttachEntry(f) \/ AttachReturn(f)
    \/ Wake \/ Interrupt
    \/ \E k \in Index : ReadBucket(k)
    \/ Report \/ ClearAverage

Spec == Init /\ [][Next]_vars

-----------------------------------------------------------------------------
Recorded == SumFunction(latency_table)
Doing(what) == {t \in Threads : probe[t] \in what}

Innermost(s, d) == s.leaf /\ d = s.took

(* "Without the '-l' option, only the innermost calls will be recorded":   *)
(* for the calls that begin after everything is attached. What is recorded *)
(* is the time of a call, and of one that made no other traced call.       *)
OnlyInnermost ==
    \A t \in Threads :
        probe[t] # "idle" /\ sample[t].settled => Innermost(sample[t], delta[t])

(* ... and every such call is recorded, whatever calls of the same thread  *)
(* came before or were in progress when the probes were attached.          *)
NoneMissed == missed = 0

(* Until the first clear, avg and latency_table tell the same story, up to *)
(* the probes between their updates: no update is lost or made twice. As   *)
(* the keys are narrow, the times agree up to multiples of Width.          *)
TablesAgree ==
    ~cleared =>
        /\ count = Recorded + Cardinality(Doing({"latency"}))
        /\ (total - SumFunction([k \in Keys |-> k * latency_table[k]])
                  - SumFunctionOnSet(delta, Doing({"count", "latency"}))) % Width = 0
=============================================================================
