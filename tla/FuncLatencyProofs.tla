-------------------------- MODULE FuncLatencyProofs --------------------------
(***************************************************************************)
(* For any number of threads, functions, calls and levels of nesting: of   *)
(* the calls that begin after everything is attached, every innermost one  *)
(* is timed, and, unless return values are filtered, nothing else.         *)
(***************************************************************************)
EXTENDS FuncLatency, FiniteSums, SequenceTheorems

Frame == [at : Nat, hooked : BOOLEAN, leaf : BOOLEAN, settled : BOOLEAN]
Sample == [took : Int, leaf : BOOLEAN, settled : BOOLEAN]

(* The types the argument needs.                                           *)
TypesOK ==
    /\ now \in Nat
    /\ frames \in [Threads -> Seq(Frame)]
    /\ start \in [Threads -> Nat \cup {None}]
    /\ probe \in [Threads -> {"idle", "total", "count", "latency"}]
    /\ delta \in [Threads -> Int]
    /\ sample \in [Threads -> Sample]

(* Nobody but the process given by -p is timed.                            *)
OnlyTraced == \A t \in Threads \ traced : start[t] = None /\ probe[t] = "idle"

(* The script leaves its first phase when everything is attached.          *)
AttachedOK == pc # "attach" => entryOn = Funcs /\ returnOn = Funcs

(* Settled frames are probed and lie on top of the others, none of which   *)
(* is innermost.                                                           *)
FramesOK(t) ==
    LET fs == frames[t] IN
    /\ \A i \in 1..Len(fs) : fs[i].settled => fs[i].hooked
    /\ \A i, j \in 1..Len(fs) : i < j /\ fs[i].settled => fs[j].settled
    /\ \A i \in 1..Len(fs) : fs[i].leaf => i = Len(fs)

SettledOK(t) ==
    LET fs == frames[t] IN
    fs # <<>> /\ fs[Len(fs)].settled => pc # "attach"

(* What start holds while a settled frame is on top: its own time as long  *)
(* as it has called nobody, and nothing after that.                        *)
StartOK(t) ==
    LET fs == frames[t] IN
    fs # <<>> /\ fs[Len(fs)].settled =>
        /\ fs[Len(fs)].leaf /\ t \in traced => start[t] = fs[Len(fs)].at
        /\ ~fs[Len(fs)].leaf /\ Ret = NoRet => start[t] = None

Inv ==
    /\ TypesOK /\ AttachedOK /\ OnlyTraced /\ NoneMissed
    /\ \A t \in Threads : FramesOK(t) /\ SettledOK(t) /\ StartOK(t)
    /\ Ret = NoRet => OnlyInnermost

-----------------------------------------------------------------------------
(* When tracing starts no thread is inside a traced function.              *)
LEMMA InitInv == Init => Inv
  BY DEF Init, Inv, TypesOK, AttachedOK, OnlyTraced, NoneMissed, FramesOK, SettledOK, StartOK,
         OnlyInnermost, Innermost, NoSample, Sample

(* Covering the innermost frame changes nothing but its leaf mark.         *)
LEMMA CoveredFrames ==
  ASSUME NEW fs \in Seq(Frame)
  PROVE  /\ Covered(fs) \in Seq(Frame) /\ Len(Covered(fs)) = Len(fs)
         /\ \A i \in 1..Len(fs) :
              /\ Covered(fs)[i].at = fs[i].at /\ Covered(fs)[i].hooked = fs[i].hooked
              /\ Covered(fs)[i].settled = fs[i].settled
              /\ Covered(fs)[i].leaf => fs[i].leaf /\ i # Len(fs)
<1>1. CASE fs = <<>>
  BY <1>1 DEF Covered
<1>2. CASE fs # <<>>
  <2>1. Len(fs) \in 1..Len(fs) /\ \A i \in 1..Len(fs) : fs[i] \in Frame
    BY <1>2
  <2> DEFINE last == fs[Len(fs)]
             cov == [at |-> last.at, hooked |-> last.hooked, leaf |-> FALSE,
                     settled |-> last.settled]
  <2>2. cov \in Frame /\ Covered(fs) = [fs EXCEPT ![Len(fs)] = cov]
    BY <1>2, <2>1 DEF Covered, Frame
  <2>3. cov.at = last.at /\ cov.hooked = last.hooked /\ ~cov.leaf /\ cov.settled = last.settled
    OBVIOUS
  <2> HIDE DEF cov
  <2> QED
    BY <2>1, <2>2, <2>3
<1> QED
  BY <1>1, <1>2

(* A call: the new frame is on top, an innermost one, and the time stored  *)
(* is its own if the call began after everything was attached.             *)
LEMMA CallInv ==
  ASSUME Inv, NEW t \in Threads, NEW f \in Funcs, Call(t, f)
  PROVE  Inv'
<1> DEFINE fs == frames[t]
           new == NewFrame(f)
<1>1. fs \in Seq(Frame) /\ new \in Frame
  BY DEF Inv, TypesOK, NewFrame, Frame
<1>2. new.at = now /\ new.leaf /\ (new.settled <=> pc # "attach") /\ (new.hooked <=> f \in returnOn)
  BY DEF NewFrame
<1>3. frames' = [frames EXCEPT ![t] = Append(Covered(fs), new)]
  BY DEF Call
<1>4. /\ frames'[t] = Append(Covered(fs), new)
      /\ \A u \in Threads \ {t} : frames'[u] = frames[u]
  BY <1>3 DEF Inv, TypesOK
<1> HIDE DEF fs, new
<1>5. /\ frames'[t] \in Seq(Frame) /\ Len(frames'[t]) = Len(fs) + 1
      /\ frames'[t][Len(fs) + 1] = new
      /\ \A i \in 1..Len(fs) : frames'[t][i] = Covered(fs)[i]
  BY <1>1, <1>4, CoveredFrames
<1>6. /\ \A i \in 1..Len(fs) : fs[i].settled => fs[i].hooked
      /\ \A i, j \in 1..Len(fs) : i < j /\ fs[i].settled => fs[j].settled
      /\ \A i \in 1..Len(fs) : fs[i].leaf => i = Len(fs)
      /\ fs # <<>> /\ fs[Len(fs)].settled => pc # "attach"
      /\ pc # "attach" => f \in entryOn /\ f \in returnOn
  BY DEF Inv, FramesOK, SettledOK, AttachedOK, fs
<1>7. \A i \in 1..Len(fs) : fs[i].settled => pc # "attach"
  <2> SUFFICES ASSUME NEW i \in 1..Len(fs), fs[i].settled PROVE pc # "attach"
    OBVIOUS
  <2>1. Len(fs) \in 1..Len(fs) /\ fs # <<>> /\ (i = Len(fs) \/ i < Len(fs))
    BY <1>1
  <2> QED
    BY <1>6, <2>1
<1>8. FramesOK(t)'
  <2>1. \A i \in 1..(Len(fs) + 1) : i \in 1..Len(fs) \/ i = Len(fs) + 1
    BY <1>1
  <2>2. \A i \in 1..Len(fs) : /\ frames'[t][i].settled = fs[i].settled
                              /\ frames'[t][i].hooked = fs[i].hooked
                              /\ ~frames'[t][i].leaf
    BY <1>1, <1>5, <1>6, CoveredFrames
  <2> QED
    BY <2>1, <2>2, <1>1, <1>2, <1>5, <1>6, <1>7 DEF FramesOK
<1>9. pc' = pc /\ entryOn' = entryOn /\ returnOn' = returnOn /\ traced' = traced
  BY DEF Call, attached, scriptVars
<1>10. SettledOK(t)'
  BY <1>2, <1>5, <1>9 DEF SettledOK
<1>11. /\ start' \in [Threads -> Nat \cup {None}]
       /\ \A u \in Threads \ {t} : start'[u] = start[u]
       /\ f \in entryOn /\ t \in traced => start'[t] = now
       /\ t \notin traced => start'[t] = start[t]
  BY DEF Call, EntryProbe, Inv, TypesOK
<1>12. StartOK(t)'
  BY <1>2, <1>5, <1>6, <1>9, <1>11 DEF StartOK
<1>13. \A u \in Threads \ {t} : (FramesOK(u) /\ SettledOK(u) /\ StartOK(u))'
  BY <1>4, <1>9, <1>11 DEF Inv, FramesOK, SettledOK, StartOK
<1>14. TypesOK' /\ AttachedOK' /\ OnlyTraced' /\ NoneMissed' /\ (Ret = NoRet => OnlyInnermost')
  <2>1. /\ now' = now /\ probe' = probe /\ delta' = delta /\ sample' = sample /\ missed' = missed
    BY DEF Call, history
  <2>2. frames' \in [Threads -> Seq(Frame)]
    BY <1>3, <1>4, <1>5 DEF Inv, TypesOK
  <2> QED
    BY <2>1, <2>2, <1>9, <1>11 DEF Inv, TypesOK, AttachedOK, OnlyTraced, NoneMissed, OnlyInnermost
<1> QED
  BY <1>8, <1>10, <1>12, <1>13, <1>14 DEF Inv

(* A return: the time found is that of the call if it is an innermost one, *)
(* and nothing is found if it is not.                                      *)
LEMMA ReturnInv ==
  ASSUME Inv, NEW t \in Threads, NEW ret \in RetVals, Return(t, ret)
  PROVE  Inv'
<1> DEFINE fs == frames[t]
           n == Len(fs)
<1>1. fs \in Seq(Frame) /\ fs # <<>> /\ n \in Nat \ {0} /\ n \in 1..n
  BY DEF Inv, TypesOK, Return
<1>2. fs[n] \in Frame /\ top(t) = fs[n]
  BY <1>1 DEF top
<1>3. /\ frames' = [frames EXCEPT ![t] = SubSeq(fs, 1, n - 1)]
      /\ frames'[t] = SubSeq(fs, 1, n - 1)
      /\ \A u \in Threads \ {t} : frames'[u] = frames[u]
  BY DEF Return, Inv, TypesOK
<1>4. /\ \A i \in 1..n : fs[i].settled => fs[i].hooked
      /\ \A i, j \in 1..n : i < j /\ fs[i].settled => fs[j].settled
      /\ \A i \in 1..n : fs[i].leaf => i = n
      /\ fs[n].settled => pc # "attach"
      /\ fs[n].settled =>
           /\ fs[n].leaf /\ t \in traced => start[t] = fs[n].at
           /\ ~fs[n].leaf /\ Ret = NoRet => start[t] = None
  BY <1>1 DEF Inv, FramesOK, SettledOK, StartOK
<1> HIDE DEF fs, n
<1>5. /\ frames'[t] \in Seq(Frame) /\ Len(frames'[t]) = n - 1
      /\ \A i \in 1..(n - 1) : frames'[t][i] = fs[i]
  <2>1. \A i \in 1..(n - 1) : fs[i] \in Frame
    BY <1>1 DEF n
  <2>2. 1 \in Int /\ n - 1 \in Int /\ n - 1 >= 0
    BY <1>1
  <2>3. /\ SubSeq(fs, 1, n - 1) \in Seq(Frame)
        /\ Len(SubSeq(fs, 1, n - 1)) = IF 1 <= n - 1 THEN (n - 1) - 1 + 1 ELSE 0
        /\ \A i \in 1..((n - 1) - 1 + 1) : SubSeq(fs, 1, n - 1)[i] = fs[1 + i - 1]
    BY <2>1, <2>2, SubSeqProperties
  <2>4. (n - 1) - 1 + 1 = n - 1 /\ Len(SubSeq(fs, 1, n - 1)) = n - 1
    BY <2>2, <2>3
  <2>5. \A i \in 1..(n - 1) : SubSeq(fs, 1, n - 1)[i] = fs[i]
    <3> SUFFICES ASSUME NEW i \in 1..(n - 1) PROVE SubSeq(fs, 1, n - 1)[i] = fs[i]
      OBVIOUS
    <3>1. 1 + i - 1 = i
      BY <2>2
    <3> QED
      BY <2>3, <2>4, <3>1
  <2> QED
    BY <2>3, <2>4, <2>5, <1>3
<1>6. FramesOK(t)'
  <2>1. \A i \in 1..(n - 1) : i \in 1..n /\ i # n /\ frames'[t][i] = fs[i]
    BY <1>1, <1>5
  <2> QED
    BY <2>1, <1>4, <1>5 DEF FramesOK
<1>7. n - 1 > 0 => ~frames'[t][n - 1].leaf /\ frames'[t][n - 1].settled = fs[n - 1].settled
  BY <1>1, <1>4, <1>5
<1>8. n - 1 > 0 /\ fs[n - 1].settled => fs[n].settled /\ fs[n].hooked
  BY <1>1, <1>4
<1>9. pc' = pc /\ entryOn' = entryOn /\ returnOn' = returnOn /\ traced' = traced /\ now' = now
  BY DEF Return, attached, scriptVars
<1>10. SettledOK(t)'
  <2>1. frames'[t] # <<>> => n - 1 > 0 /\ frames'[t][Len(frames'[t])].settled = fs[n - 1].settled
    BY <1>1, <1>5, <1>7
  <2>2. n - 1 > 0 /\ fs[n - 1].settled => pc # "attach"
    BY <1>4, <1>8
  <2> QED
    BY <2>1, <2>2, <1>9 DEF SettledOK
<1>11. CASE fs[n].hooked /\ ~CheckFails(ret) /\ start[t] # None
  <2>1. /\ delta' = [delta EXCEPT ![t] = now - start[t]]
        /\ start' = [start EXCEPT ![t] = None]
        /\ probe' = [probe EXCEPT ![t] = "total"]
        /\ sample' = [sample EXCEPT ![t] =
             [took |-> now - fs[n].at, leaf |-> fs[n].leaf, settled |-> fs[n].settled]]
    BY <1>2, <1>11 DEF Return, ReturnProbe, ForgetStart
  <2>2. t \in traced
    BY <1>11 DEF Inv, OnlyTraced
  <2>3. now - start[t] \in Int /\ now - fs[n].at \in Int
    BY <1>2, <1>11 DEF Inv, TypesOK, Frame
  <2>4. TypesOK'
    BY <2>1, <2>3, <1>2, <1>3, <1>5, <1>9 DEF Inv, TypesOK, Sample, Frame
  <2>5. OnlyTraced'
    BY <2>1, <2>2, <1>9 DEF Inv, TypesOK, OnlyTraced
  <2>6. StartOK(t)'
    <3>1. start'[t] = None
      BY <2>1 DEF Inv, TypesOK
    <3>2. frames'[t] # <<>> => ~frames'[t][Len(frames'[t])].leaf
      BY <1>1, <1>5, <1>7
    <3> QED
      BY <3>1, <3>2 DEF StartOK
  <2>7. \A u \in Threads \ {t} : start'[u] = start[u] /\ probe'[u] = probe[u]
                                 /\ delta'[u] = delta[u] /\ sample'[u] = sample[u]
    BY <2>1 DEF Inv, TypesOK
  <2>8. Ret = NoRet => OnlyInnermost'
    <3> SUFFICES ASSUME Ret = NoRet, fs[n].settled
                 PROVE  sample'[t].leaf /\ delta'[t] = sample'[t].took
      BY <2>1, <2>7 DEF Inv, TypesOK, OnlyInnermost, Innermost
    <3>1. fs[n].leaf /\ start[t] = fs[n].at
      BY <1>4, <1>11, <2>2
    <3> QED
      BY <2>1, <3>1 DEF Inv, TypesOK
  <2>9. NoneMissed'
    BY <2>1 DEF Return, Inv, TypesOK, NoneMissed
  <2>10. \A u \in Threads \ {t} : (FramesOK(u) /\ SettledOK(u) /\ StartOK(u))'
    BY <2>7, <1>3, <1>9 DEF Inv, FramesOK, SettledOK, StartOK
  <2>11. AttachedOK'
    BY <1>9 DEF Inv, AttachedOK
  <2> QED
    BY <2>4, <2>5, <2>6, <2>8, <2>9, <2>10, <2>11, <1>6, <1>10 DEF Inv
<1>12. CASE ~(fs[n].hooked /\ ~CheckFails(ret) /\ start[t] # None)
  <2>1. start' = start /\ probe' = probe /\ delta' = delta /\ sample' = sample
    BY <1>2, <1>12 DEF Return, ReturnProbe
  <2>2. TypesOK' /\ OnlyTraced' /\ AttachedOK' /\ (Ret = NoRet => OnlyInnermost')
    BY <2>1, <1>3, <1>5, <1>9 DEF Inv, TypesOK, OnlyTraced, AttachedOK, OnlyInnermost
  <2>3. StartOK(t)'
    <3>0. frames'[t] # <<>> => /\ n - 1 > 0 /\ ~frames'[t][Len(frames'[t])].leaf
                               /\ frames'[t][Len(frames'[t])].settled = fs[n - 1].settled
      BY <1>1, <1>5, <1>7
    <3> SUFFICES ASSUME n - 1 > 0, fs[n - 1].settled, Ret = NoRet PROVE start[t] = None
      BY <2>1, <3>0 DEF StartOK
    <3>1. ~CheckFails(ret)
      BY DEF CheckFails
    <3> QED
      BY <3>1, <1>8, <1>12
  <2>4. NoneMissed'
    <3>1. ~Wanted(t, ret)
      <4> SUFFICES ASSUME Wanted(t, ret) PROVE FALSE
        OBVIOUS
      <4>1. fs[n].hooked /\ start[t] = fs[n].at
        BY <1>1, <1>2, <1>4 DEF Wanted
      <4>2. start[t] # None
        BY <4>1, <1>2, NoneAssumption DEF Frame
      <4> QED
        BY <4>1, <4>2, <1>12 DEF Wanted
    <3> QED
      BY <3>1 DEF Return, Inv, NoneMissed
  <2>5. \A u \in Threads \ {t} : (FramesOK(u) /\ SettledOK(u) /\ StartOK(u))'
    BY <2>1, <1>3, <1>9 DEF Inv, FramesOK, SettledOK, StartOK
  <2> QED
    BY <2>2, <2>3, <2>4, <2>5, <1>6, <1>10 DEF Inv
<1> QED
  BY <1>11, <1>12

(* Every call, return, other event and report keeps the invariant.         *)
LEMMA NextInv == Inv /\ [Next]_vars => Inv'
<1> SUFFICES ASSUME Inv, [Next]_vars PROVE Inv'
  OBVIOUS
<1> USE DEF Inv, TypesOK, AttachedOK, OnlyTraced, NoneMissed, OnlyInnermost, FramesOK, SettledOK,
            StartOK, threadVars, attached, history, probeVars, scriptVars
<1>1. CASE Tick
  BY <1>1 DEF Tick
<1>2. ASSUME NEW t \in Threads, NEW f \in Funcs, Call(t, f) PROVE Inv'
  BY <1>2, CallInv
<1>3. ASSUME NEW t \in Threads, NEW ret \in RetVals, Return(t, ret) PROVE Inv'
  BY <1>3, ReturnInv
<1>4. ASSUME NEW t \in Threads, AddTotal(t) PROVE Inv'
  BY <1>4 DEF AddTotal
<1>5. ASSUME NEW t \in Threads, AddCount(t) PROVE Inv'
  BY <1>5 DEF AddCount
<1>6. ASSUME NEW t \in Threads, AddLatency(t) PROVE Inv'
  BY <1>6 DEF AddLatency, NoSample, Sample
<1>7. ASSUME NEW f \in Funcs, AttachEntry(f) PROVE Inv'
  BY <1>7 DEF AttachEntry
<1>8. ASSUME NEW f \in Funcs, AttachReturn(f) PROVE Inv'
  BY <1>8 DEF AttachReturn
<1>9. CASE Wake
  BY <1>9 DEF Wake
<1>10. CASE Interrupt
  BY <1>10 DEF Interrupt
<1>11. ASSUME NEW k \in Index, ReadBucket(k) PROVE Inv'
  BY <1>11 DEF ReadBucket
<1>12. CASE Report
  BY <1>12 DEF Report
<1>13. CASE ClearAverage
  BY <1>13 DEF ClearAverage
<1>14. CASE UNCHANGED vars
  BY <1>14 DEF vars
<1> QED
  BY <1>1, <1>2, <1>3, <1>4, <1>5, <1>6, <1>7, <1>8, <1>9, <1>10, <1>11, <1>12, <1>13, <1>14
     DEF Next

(* The inductive invariant holds in every reachable state.                 *)
THEOREM InvHolds == Spec => []Inv
  BY InitInv, NextInv, PTL DEF Spec

(* Every innermost call that begins after everything is attached, by a     *)
(* traced thread and with a return value that passes, is recorded.         *)
THEOREM InnermostRecorded == Spec => []NoneMissed
<1>1. Inv => NoneMissed
  BY DEF Inv
<1> QED
  BY <1>1, InvHolds, PTL

(* Without -t nothing but innermost calls is recorded, each with the time  *)
(* it took, of the calls that begin after everything is attached.          *)
THEOREM RecordedInnermost == ASSUME Ret = NoRet PROVE Spec => []OnlyInnermost
<1>1. Inv => OnlyInnermost
  BY DEF Inv
<1> QED
  BY <1>1, InvHolds, PTL

-----------------------------------------------------------------------------
(* The types of the two tables.                                            *)
TablesOK ==
    /\ total \in Int /\ count \in Int
    /\ latency_table \in [Keys -> Int]

Weighted == [k \in Keys |-> k * latency_table[k]]
Pending == SumFunctionOnSet(delta, Doing({"count", "latency"}))

(* A natural number below n that is a multiple of n is zero.               *)
LEMMA SmallMultiple ==
  ASSUME NEW n \in Nat \ {0}, NEW q \in Int, NEW r \in Int, 0 <= r, r < n, n * q = r
  PROVE  q = 0
<1>1. q >= 1 => n * q >= n
  OBVIOUS
<1>2. q <= -1 => n * q <= -n
  OBVIOUS
<1> QED
  BY <1>1, <1>2

(* Quotient and remainder.                                                 *)
LEMMA DivMod ==
  ASSUME NEW n \in Nat \ {0}, NEW a \in Int
  PROVE  /\ a \div n \in Int /\ a % n \in 0..(n - 1)
         /\ a = n * (a \div n) + (a % n)
  OBVIOUS

(* A multiple of n leaves no remainder by n.                               *)
LEMMA MultipleMod ==
  ASSUME NEW n \in Nat \ {0}, NEW q \in Int
  PROVE  (n * q) % n = 0
<1> DEFINE k == (n * q) \div n
           r == (n * q) % n
<1>1. n * q \in Int
  OBVIOUS
<1>2. k \in Int /\ r \in 0..(n - 1) /\ n * q = n * k + r
  BY <1>1, DivMod
<1> HIDE DEF k, r
<1>3. n * (q - k) = r /\ q - k \in Int
  BY <1>2
<1>4. q - k = 0
  BY <1>2, <1>3, SmallMultiple
<1>5. r = 0
  BY <1>3, <1>4
<1> QED
  BY <1>5 DEF r

(* A difference that is a multiple of n stays one when what is added is a  *)
(* number less its remainder.                                              *)
LEMMA StaysMultiple ==
  ASSUME NEW n \in Nat \ {0}, NEW x \in Int, NEW d \in Int, x % n = 0
  PROVE  (x + (d - (d % n))) % n = 0
<1> DEFINE a == x \div n
           b == d \div n
<1>1. a \in Int /\ x = n * a
  BY DivMod
<1>2. b \in Int /\ d - (d % n) = n * b
  <2>1. d = n * b + (d % n) /\ b \in Int /\ d % n \in Int
    BY DivMod
  <2> QED
    BY <2>1
<1> HIDE DEF a, b
<1>3. x + (d - (d % n)) = n * (a + b) /\ a + b \in Int
  BY <1>1, <1>2
<1> QED
  BY <1>3, MultipleMod

(* The probes that have started to update the tables are finitely many,    *)
(* and each has a time to add.                                             *)
LEMMA DoingFinite ==
  ASSUME TypesOK, NEW what
  PROVE  /\ IsFiniteSet(Doing(what))
         /\ \A t \in Doing(what) : delta[t] \in Int
<1>1. Doing(what) \subseteq Threads
  BY DEF Doing
<1> QED
  BY <1>1, ThreadsAssumption, FS_Subset DEF TypesOK

(* total += delta: the time is in total now, and the thread's probe is     *)
(* among those that have still to add it to the table.                     *)
LEMMA AddTotalAgrees ==
  ASSUME TypesOK, TypesOK', TablesOK, TablesAgree, NEW t \in Threads, AddTotal(t)
  PROVE  TablesAgree'
<1>1. /\ probe[t] = "total" /\ probe' = [probe EXCEPT ![t] = "count"]
      /\ total' = total + delta[t]
      /\ UNCHANGED <<delta, count, latency_table, cleared>>
  BY DEF AddTotal, history
<1>2. /\ Doing({"latency"})' = Doing({"latency"})
      /\ Doing({"count", "latency"})' = Doing({"count", "latency"}) \cup {t}
      /\ t \notin Doing({"count", "latency"})
  BY <1>1 DEF Doing, TypesOK
<1>3. IsFiniteSet(Doing({"count", "latency"}))
      /\ \A u \in Doing({"count", "latency"}) \cup {t} : delta[u] \in Int
  BY DoingFinite DEF TypesOK
<1>4. /\ Pending \in Int
      /\ SumFunctionOnSet(delta, Doing({"count", "latency"}) \cup {t}) = Pending + delta[t]
  <2> DEFINE D == Doing({"count", "latency"})
  <2> HIDE DEF D
  <2>1. IsFiniteSet(D) /\ t \notin D /\ \A u \in D \cup {t} : delta[u] \in Int
    BY <1>2, <1>3 DEF D
  <2> QED
    BY <2>1, SumAdd DEF Pending, D
<1>5. Pending' = Pending + delta[t]
  BY <1>1, <1>2, <1>4 DEF Pending
<1>6. SumFunction(Weighted) \in Int
  <2>1. IsFiniteSet(Keys) /\ DOMAIN Weighted = Keys /\ \A k \in Keys : Weighted[k] \in Int
    BY NumbersAssumption, FS_Interval DEF Keys, Weighted, TablesOK
  <2> QED
    BY <2>1, SumInt DEF SumFunction
<1>7. total' - SumFunction(Weighted) - Pending' = total - SumFunction(Weighted) - Pending
  BY <1>1, <1>4, <1>5, <1>6 DEF TablesOK, TypesOK
<1> QED
  BY <1>1, <1>2, <1>7 DEF TablesAgree, Weighted, Pending, Recorded

(* count += 1: the thread's probe is among those whose call is counted and *)
(* not yet in the table.                                                   *)
LEMMA AddCountAgrees ==
  ASSUME TypesOK, TablesOK, TablesAgree, NEW t \in Threads, AddCount(t)
  PROVE  TablesAgree'
<1>1. /\ probe[t] = "count" /\ probe' = [probe EXCEPT ![t] = "latency"]
      /\ count' = count + 1
      /\ UNCHANGED <<delta, total, latency_table, cleared>>
  BY DEF AddCount, history
<1>2. /\ Doing({"latency"})' = Doing({"latency"}) \cup {t}
      /\ t \notin Doing({"latency"})
      /\ Doing({"count", "latency"})' = Doing({"count", "latency"})
  BY <1>1 DEF Doing, TypesOK
<1>3. /\ Cardinality(Doing({"latency"})) \in Nat
      /\ Cardinality(Doing({"latency"})') = Cardinality(Doing({"latency"})) + 1
  <2> DEFINE D == Doing({"latency"})
  <2>1. IsFiniteSet(D) /\ t \notin D
    BY <1>2, DoingFinite
  <2> HIDE DEF D
  <2>2. Cardinality(D) \in Nat /\ Cardinality(D \cup {t}) = Cardinality(D) + 1
    BY <2>1, FS_AddElement, FS_CardinalityType
  <2> QED
    BY <2>2, <1>2 DEF D
<1>4. Recorded \in Int
  <2>1. IsFiniteSet(Keys) /\ DOMAIN latency_table = Keys /\ \A k \in Keys : latency_table[k] \in Int
    BY NumbersAssumption, FS_Interval DEF Keys, TablesOK
  <2> QED
    BY <2>1, SumInt DEF Recorded, SumFunction
<1>5. count = Recorded + Cardinality(Doing({"latency"}))
        => count' = Recorded + Cardinality(Doing({"latency"})')
  BY <1>1, <1>3, <1>4 DEF TablesOK
<1> QED
  BY <1>1, <1>2, <1>5 DEF TablesAgree, Recorded

(* The last update moves the call from the pending ones into the table,    *)
(* under the remainder of its time.                                        *)
LEMMA AddLatencyAgrees ==
  ASSUME TypesOK, TablesOK, TablesAgree, NEW t \in Threads, AddLatency(t)
  PROVE  TablesAgree' /\ TablesOK'
<1> DEFINE d == delta[t]
           key == delta[t] % Width
<1>1. /\ probe[t] = "latency" /\ probe' = [probe EXCEPT ![t] = "idle"]
      /\ delta' = [delta EXCEPT ![t] = 0]
      /\ latency_table' = [latency_table EXCEPT ![key] = @ + 1]
      /\ UNCHANGED <<total, count, cleared>>
  BY DEF AddLatency, history
<1>2. d \in Int /\ key \in Keys /\ key \in Int /\ IsFiniteSet(Keys) /\ Keys \subseteq Int
  <2>1. d \in Int /\ Width \in Nat \ {0}
    BY NumbersAssumption DEF TypesOK
  <2>2. key \in 0..(Width - 1)
    BY <2>1
  <2>3. IsFiniteSet(0..(Width - 1))
    BY <2>1, FS_Interval
  <2> QED
    BY <2>1, <2>2, <2>3 DEF Keys
<1>3. /\ latency_table' \in [Keys -> Int]
      /\ latency_table'[key] = latency_table[key] + 1 /\ latency_table[key] \in Int
      /\ \A k \in Keys \ {key} : latency_table'[k] = latency_table[k]
  BY <1>1, <1>2 DEF TablesOK
<1>4. TablesOK'
  BY <1>1, <1>3 DEF TablesOK
<1> HIDE DEF d, key
<1>5. Recorded' = Recorded + 1 /\ Recorded \in Int
  <2>0. DOMAIN latency_table = Keys /\ DOMAIN latency_table' = Keys
    BY <1>3 DEF TablesOK
  <2>1. /\ \A k \in Keys : latency_table[k] \in Int
        /\ \A k \in Keys : latency_table'[k] \in Int
        /\ \A k \in Keys \ {key} : latency_table'[k] = latency_table[k]
    BY <1>3 DEF TablesOK
  <2>2. SumFunctionOnSet(latency_table', Keys)
          = SumFunctionOnSet(latency_table, Keys) + latency_table'[key] - latency_table[key]
    BY <1>2, <2>1, SumChange
  <2>3. SumFunctionOnSet(latency_table, Keys) \in Int
    BY <1>2, <2>1, SumInt
  <2> QED
    BY <2>0, <2>2, <2>3, <1>3 DEF Recorded, SumFunction
<1>6. SumFunction(Weighted') = SumFunction(Weighted) + key /\ SumFunction(Weighted) \in Int
  <2>1. /\ \A k \in Keys : Weighted[k] \in Int
        /\ \A k \in Keys : Weighted'[k] \in Int
        /\ \A k \in Keys \ {key} : Weighted'[k] = Weighted[k]
        /\ DOMAIN Weighted = Keys /\ DOMAIN Weighted' = Keys
    BY <1>2, <1>3 DEF Weighted, TablesOK
  <2>2. SumFunctionOnSet(Weighted', Keys)
          = SumFunctionOnSet(Weighted, Keys) + Weighted'[key] - Weighted[key]
    BY <1>2, <2>1, SumChange
  <2>3. SumFunctionOnSet(Weighted, Keys) \in Int
    BY <1>2, <2>1, SumInt
  <2>4. Weighted'[key] - Weighted[key] = key /\ Weighted[key] \in Int /\ Weighted'[key] \in Int
    <3>1. Weighted'[key] = key * (latency_table[key] + 1) /\ Weighted[key] = key * latency_table[key]
      BY <1>2, <1>3 DEF Weighted
    <3> QED
      BY <3>1, <1>2, <1>3
  <2> QED
    BY <1>2, <2>1, <2>2, <2>3, <2>4 DEF SumFunction
<1>7. /\ Cardinality(Doing({"latency"})) \in Nat
      /\ Cardinality(Doing({"latency"})') = Cardinality(Doing({"latency"})) - 1
  <2> DEFINE D == Doing({"latency"})
  <2>1. IsFiniteSet(D) /\ t \in D /\ D' = D \ {t}
    BY <1>1, DoingFinite DEF Doing, TypesOK
  <2> HIDE DEF D
  <2>2. Cardinality(D) \in Nat /\ Cardinality(D \ {t}) = Cardinality(D) - 1
    BY <2>1, FS_RemoveElement, FS_CardinalityType
  <2>3. Cardinality(D') = Cardinality(D) - 1
    BY <2>1, <2>2
  <2> QED
    BY <2>2, <2>3 DEF D
<1>8. Pending' = Pending - d /\ Pending \in Int
  <2> DEFINE D == Doing({"count", "latency"})
  <2>1. IsFiniteSet(D) /\ t \in D /\ D' = D \ {t} /\ (\A u \in D : delta[u] \in Int)
    BY <1>1, DoingFinite DEF Doing, TypesOK
  <2>2. \A u \in D \ {t} : delta'[u] = delta[u]
    BY <1>1 DEF Doing, TypesOK
  <2>3. Pending = SumFunctionOnSet(delta, D) /\ Pending' = SumFunctionOnSet(delta', D \ {t})
    BY <2>1 DEF Pending
  <2> HIDE DEF D
  <2>4. IsFiniteSet(D \ {t})
    BY <2>1, FS_Subset
  <2>5. SumFunctionOnSet(delta, D) = delta[t] + SumFunctionOnSet(delta, D \ {t})
    BY <2>1, SumRemove
  <2>6. SumFunctionOnSet(delta', D \ {t}) = SumFunctionOnSet(delta, D \ {t})
    BY <2>2, <2>4, SumSame
  <2>7. SumFunctionOnSet(delta, D \ {t}) \in Int
    BY <2>1, <2>4, SumInt
  <2> QED
    BY <2>3, <2>5, <2>6, <2>7, <1>2 DEF d
<1>9. ~cleared' => count' = Recorded' + Cardinality(Doing({"latency"})')
  BY <1>1, <1>5, <1>7 DEF TablesAgree, TablesOK
<1>10. ~cleared' => (total' - SumFunction(Weighted') - Pending') % Width = 0
  <2> DEFINE x == total - SumFunction(Weighted) - Pending
  <2>1. total \in Int /\ total' = total /\ x \in Int
    BY <1>1, <1>6, <1>8 DEF TablesOK
  <2>2. total' - SumFunction(Weighted') - Pending' = x + (d - key)
    BY <2>1, <1>2, <1>6, <1>8
  <2>3. ~cleared' => x % Width = 0
    BY <1>1 DEF TablesAgree, Weighted, Pending
  <2>4. key = d % Width
    BY DEF key, d
  <2> HIDE DEF x
  <2>5. x % Width = 0 => (x + (d - (d % Width))) % Width = 0
    BY <2>1, <1>2, NumbersAssumption, StaysMultiple
  <2>6. total' - SumFunction(Weighted') - Pending' = x + (d - (d % Width))
    BY <2>2, <2>4, Zenon
  <2> QED
    BY <2>3, <2>5, <2>6, Zenon
<1> QED
  BY <1>4, <1>9, <1>10 DEF TablesAgree, Weighted, Pending

(* No step but the three updates changes what the tables say together:     *)
(* a thread's time is set before its probe starts to add it.               *)
LEMMA OtherStepsAgree ==
  ASSUME TypesOK, TypesOK', TablesAgree,
         UNCHANGED <<total, count, latency_table, cleared>>,
         \A t \in Threads : \/ probe'[t] = probe[t] /\ delta'[t] = delta[t]
                            \/ probe[t] = "idle" /\ probe'[t] = "total"
  PROVE  TablesAgree'
<1> DEFINE D == Doing({"count", "latency"})
<1>1. Doing({"latency"})' = Doing({"latency"}) /\ D' = D /\ \A t \in D : delta'[t] = delta[t]
  BY DEF Doing
<1>2. IsFiniteSet(D)
  BY DoingFinite
<1>3. Pending' = SumFunctionOnSet(delta', D) /\ Pending = SumFunctionOnSet(delta, D)
  BY <1>1 DEF Pending
<1> HIDE DEF D
<1>4. SumFunctionOnSet(delta', D) = SumFunctionOnSet(delta, D)
  BY <1>1, <1>2, SumSame
<1> QED
  BY <1>1, <1>3, <1>4 DEF TablesAgree, Recorded, Pending

(* The two tables agree at the start and every step keeps them agreeing.   *)
LEMMA TablesInvHolds == Spec => [](TablesAgree /\ TablesOK)
<1>1. Init => TablesAgree /\ TablesOK
  <2> SUFFICES ASSUME Init PROVE TablesAgree /\ TablesOK
    OBVIOUS
  <2>1. /\ Width \in Nat \ {0} /\ IsFiniteSet(Keys) /\ latency_table = [k \in Keys |-> 0]
        /\ total = 0 /\ count = 0
    BY NumbersAssumption, FS_Interval DEF Init, Keys
  <2>2. Doing({"latency"}) = {} /\ Doing({"count", "latency"}) = {}
    BY DEF Init, Doing
  <2>3. Cardinality(Doing({"latency"})) = 0 /\ Pending = 0
    BY <2>2, FS_EmptySet, SumEmpty DEF Pending
  <2>4. Recorded = 0
    BY <2>1, SumZero DEF Recorded, SumFunction
  <2>5. SumFunction(Weighted) = 0
    <3>1. DOMAIN Weighted = Keys /\ \A k \in Keys : Weighted[k] = 0
      BY <2>1 DEF Weighted, Keys
    <3> QED
      BY <2>1, <3>1, SumZero DEF SumFunction
  <2>6. (total - SumFunction(Weighted) - Pending) % Width = 0
    BY <2>1, <2>3, <2>5
  <2> QED
    BY <2>1, <2>3, <2>4, <2>6 DEF TablesAgree, TablesOK, Weighted, Pending
<1>2. /\ Inv /\ Inv' /\ TablesAgree /\ TablesOK /\ [Next]_vars => TablesAgree' /\ TablesOK'
  <2> SUFFICES ASSUME TypesOK, TypesOK', TablesAgree, TablesOK, [Next]_vars
               PROVE  TablesAgree' /\ TablesOK'
    BY DEF Inv
  <2>1. ASSUME UNCHANGED <<total, count, latency_table, cleared, probe, delta>>
        PROVE  TablesAgree' /\ TablesOK'
    BY <2>1, OtherStepsAgree DEF TablesOK
  <2> USE DEF threadVars, attached, history, probeVars, scriptVars
  <2>2. CASE Tick
    BY <2>1, <2>2 DEF Tick
  <2>3. ASSUME NEW t \in Threads, NEW f \in Funcs, Call(t, f) PROVE TablesAgree' /\ TablesOK'
    BY <2>1, <2>3 DEF Call
  <2>4. ASSUME NEW t \in Threads, NEW ret \in RetVals, Return(t, ret)
        PROVE  TablesAgree' /\ TablesOK'
    <3>1. UNCHANGED <<total, count, latency_table, cleared>>
      BY <2>4 DEF Return
    <3>2. \A u \in Threads : \/ probe'[u] = probe[u] /\ delta'[u] = delta[u]
                             \/ probe[u] = "idle" /\ probe'[u] = "total"
      BY <2>4 DEF Return, ReturnProbe, TypesOK
    <3> QED
      BY <3>1, <3>2, OtherStepsAgree DEF TablesOK
  <2>5. ASSUME NEW t \in Threads, AddTotal(t) PROVE TablesAgree' /\ TablesOK'
    <3>1. TablesOK'
      BY <2>5 DEF AddTotal, TablesOK, TypesOK
    <3> QED
      BY <2>5, <3>1, AddTotalAgrees
  <2>6. ASSUME NEW t \in Threads, AddCount(t) PROVE TablesAgree' /\ TablesOK'
    <3>1. TablesOK'
      BY <2>6 DEF AddCount, TablesOK
    <3> QED
      BY <2>6, <3>1, AddCountAgrees
  <2>7. ASSUME NEW t \in Threads, AddLatency(t) PROVE TablesAgree' /\ TablesOK'
    BY <2>7, AddLatencyAgrees
  <2>8. ASSUME NEW f \in Funcs, AttachEntry(f) \/ AttachReturn(f) PROVE TablesAgree' /\ TablesOK'
    BY <2>1, <2>8 DEF AttachEntry, AttachReturn
  <2>9. CASE Wake \/ Interrupt \/ Report
    BY <2>1, <2>9 DEF Wake, Interrupt, Report
  <2>10. ASSUME NEW k \in Index, ReadBucket(k) PROVE TablesAgree' /\ TablesOK'
    BY <2>1, <2>10 DEF ReadBucket
  <2>11. CASE ClearAverage
    BY <2>11 DEF ClearAverage, TablesAgree, TablesOK
  <2>12. CASE UNCHANGED vars
    BY <2>1, <2>12 DEF vars
  <2> QED
    BY <2>2, <2>3, <2>4, <2>5, <2>6, <2>7, <2>8, <2>9, <2>10, <2>11, <2>12 DEF Next
<1> QED
  BY <1>1, <1>2, InvHolds, PTL DEF Spec

(* Before the first clear, avg and latency_table count the same calls and, *)
(* up to the width of a key, the same times: no probe's update is lost to  *)
(* another's, however they interleave.                                     *)
THEOREM TablesStayInStep == Spec => []TablesAgree
  BY TablesInvHolds, PTL
=============================================================================
