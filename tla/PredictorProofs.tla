-------------------------- MODULE PredictorProofs --------------------------
(***************************************************************************)
(* For any number of traces, any services, paths, protocols and models:    *)
(* what the predictor prints for a trace is the sum over its own calls,    *)
(* and a run that fails does so for one of the reasons the code has.       *)
(***************************************************************************)
EXTENDS Predictor, FiniteSums

Stages == {"latency", "cpu", "latencyOpt", "cpuOpt"}
Calls(k) == [j \in DOMAIN path[k] |-> protocol(path[k][j])]

(* The positions of the script at which a pass is over and its sums are    *)
(* still to be printed.                                                    *)
After(stage) ==
    CASE stage = "latency" -> {"cpu", "print", "latencyOpt", "cpuOpt", "printOpt"}
      [] stage = "cpu" -> {"print", "latencyOpt", "cpuOpt", "printOpt"}
      [] stage = "latencyOpt" -> {"cpuOpt", "printOpt"}
      [] stage = "cpuOpt" -> {"printOpt"}

(* The number of calls of trace k that a pass has predicted.               *)
Handled(stage, k) ==
    IF pc = stage THEN IF k < file THEN Len(path[k]) ELSE IF k = file THEN call - 1 ELSE 0
    ELSE IF pc \in After(stage) THEN Len(path[k]) ELSE 0

(* What the calls of trace k add to the accumulator of a pass, and what    *)
(* they have added so far.                                                 *)
Weight(stage, k) ==
    IF Optimized(stage)
    THEN [j \in DOMAIN path[k] |-> predictOpt(TypeOf(stage), protocol(path[k][j]))]
    ELSE [j \in DOMAIN path[k] |-> predict(TypeOf(stage), protocol(path[k][j]))]
SoFar(stage, k) == SumFunctionOnSet(Weight(stage, k), 1..Handled(stage, k))

Positions == {"crisp", "parse", "print", "printOpt", "done", "failed"} \cup Stages
Loaded == pc \in Stages \cup {"print", "printOpt"}
Printed == pc \in {"latencyOpt", "cpuOpt", "printOpt", "done"}

ParsedPath ==
    [parsed_cp : {Calls(k) : k \in 1..Files}, trace_name : 1..Files,
     latency : Int, cpu : Int, latencyOpt : Int, cpuOpt : Int]

TypesOK ==
    /\ content \in [1..Files -> Contents] /\ path \in [1..Files -> CriticalPaths]
    /\ models \in [Types -> SUBSET Protocols] /\ speedup \in SpeedupProfiles
    /\ inputsReadable \in BOOLEAN
    /\ pc \in Positions /\ file \in Nat \ {0} /\ call \in Nat \ {0}
    /\ critical_paths \in Seq({CrispResult(k) : k \in 1..Files})
    /\ parsed \in Seq(ParsedPath)

(* CRISP's results are in the order of the files.                          *)
CrispOK ==
    /\ Len(critical_paths) = IF pc = "crisp" THEN file - 1 ELSE Files
    /\ \A k \in 1..Len(critical_paths) : critical_paths[k] = CrispResult(k)

PositionOK ==
    /\ pc \in {"crisp", "parse"} \cup Stages => file <= Files + 1
    /\ pc \in Stages /\ file <= Files => call <= Len(path[file]) + 1

(* Behind every parsed path there is a trace with a root.                  *)
ParsedOK ==
    /\ pc = "crisp" => Len(parsed) = 0
    /\ pc = "parse" => Len(parsed) = file - 1
    /\ Loaded => Len(parsed) = Files
    /\ pc = "parse" \/ Loaded => inputsReadable /\ \A k \in 1..Len(parsed) : content[k] = "rooted"

(* The accumulators hold the sums over the calls their passes have done.   *)
SumsOK ==
    pc = "parse" \/ Loaded =>
        \A k \in 1..Len(parsed) :
            parsed[k] = [parsed_cp |-> Calls(k), trace_name |-> k,
                         latency |-> SoFar("latency", k), cpu |-> SoFar("cpu", k),
                         latencyOpt |-> SoFar("latencyOpt", k), cpuOpt |-> SoFar("cpuOpt", k)]

(* A call that is behind had a model, and the speed-up profile a form the  *)
(* code can read.                                                          *)
HandledOK ==
    \A stage \in Stages, k \in 1..Files : \A j \in 1..Handled(stage, k) :
        /\ Calls(k)[j] \in models[TypeOf(stage)]
        /\ Optimized(stage) => speedup # "flat"

Good ==
    /\ inputsReadable
    /\ \A k \in 1..Files : content[k] = "rooted"
    /\ \A k \in 1..Files : \A type \in Types : \A j \in DOMAIN path[k] :
          protocol(path[k][j]) \in models[type]
SpeedupFails == speedup = "unreadable" \/ (speedup = "flat" /\ Files > 0)

Exact ==
    [k \in 1..Files |-> [trace |-> k, latency |-> Total("latency", k), cpu |-> Total("cpu", k)]]
ExactOpt ==
    [k \in 1..Files |->
        [trace |-> k, latency |-> TotalOpt("latency", k), cpu |-> TotalOpt("cpu", k)]]

(* Nothing is printed before every call has had a model.                   *)
PrintedOK ==
    /\ pc \in {"crisp", "parse", "latency", "cpu", "print"} => reported = <<>>
    /\ Printed => Good /\ reported = Exact
    /\ pc = "failed" => (~Good /\ reported = <<>>) \/ (Good /\ reported = Exact /\ SpeedupFails)
    /\ pc \in {"latencyOpt", "cpuOpt", "printOpt"} => speedup # "unreadable"
    /\ pc = "done" => ~SpeedupFails
    /\ reportedOpt = <<>> \/ reportedOpt = ExactOpt

Inv ==
    /\ TypesOK /\ CrispOK /\ PositionOK /\ ParsedOK /\ SumsOK /\ HandledOK /\ PrintedOK

-----------------------------------------------------------------------------
(* A path is a nonempty sequence, whose positions are its domain.          *)
LEMMA PathIs ==
  ASSUME TypesOK, NEW k \in 1..Files
  PROVE  /\ path[k] \in Seq(Services) /\ path[k] # <<>>
         /\ Len(path[k]) \in Nat \ {0} /\ DOMAIN path[k] = 1..Len(path[k])
<1>1. path[k] \in Seq(Services) \ {<<>>}
  BY PathsAssumption DEF TypesOK
<1> QED
  BY <1>1

(* The number of calls handled is one of a position in the path.           *)
LEMMA HandledIs ==
  ASSUME TypesOK, PositionOK, NEW stage \in Stages, NEW k \in 1..Files
  PROVE  Handled(stage, k) \in 0..Len(path[k])
<1>1. Len(path[k]) \in Nat
  BY PathIs
<1> QED
  BY <1>1 DEF Handled, TypesOK, PositionOK

(* A call with a model adds a whole number.                                *)
LEMMA WeightIs ==
  ASSUME TypesOK, NEW stage \in Stages, NEW k \in 1..Files, NEW j \in DOMAIN path[k],
         Calls(k)[j] \in models[TypeOf(stage)]
  PROVE  Weight(stage, k)[j] \in Int
<1>1. TypeOf(stage) \in {"latency", "cpu"} /\ TypeOf(stage) \in Types
  BY DEF TypeOf, Types, Stages
<1>2. Calls(k)[j] = protocol(path[k][j]) /\ Calls(k)[j] \in Protocols
  BY <1>1 DEF Calls, TypesOK
<1> DEFINE c == Cost[TypeOf(stage)][protocol(path[k][j])]
<1>3. c.read \in Int /\ c.others \in Int /\ Gain.READ \in Int /\ Gain.OTHERS \in Int
  BY <1>1, <1>2, CostAssumption, GainAssumption
<1>4. Weight(stage, k)[j] = IF Optimized(stage)
                            THEN c.read * (100 - Gain.READ) + 100 * c.others * (100 - Gain.OTHERS)
                            ELSE 100 * (c.read + c.others)
  BY DEF Weight, predict, predictOpt
<1> HIDE DEF c
<1> QED
  BY <1>3, <1>4

(* Before a pass its accumulator is zero.                                  *)
LEMMA NothingYet ==
  ASSUME NEW stage, NEW k, Handled(stage, k) = 0
  PROVE  SoFar(stage, k) = 0
<1>1. 1..Handled(stage, k) = {}
  OBVIOUS
<1> QED
  BY <1>1, SumEmpty DEF SoFar

(* After a pass its accumulator is the sum over all the calls.             *)
LEMMA Everything ==
  ASSUME TypesOK, NEW k \in 1..Files
  PROVE  /\ Handled("latency", k) = Len(path[k]) => SoFar("latency", k) = Total("latency", k)
         /\ Handled("cpu", k) = Len(path[k]) => SoFar("cpu", k) = Total("cpu", k)
         /\ Handled("latencyOpt", k) = Len(path[k]) => SoFar("latencyOpt", k) = TotalOpt("latency", k)
         /\ Handled("cpuOpt", k) = Len(path[k]) => SoFar("cpuOpt", k) = TotalOpt("cpu", k)
<1>1. DOMAIN path[k] = 1..Len(path[k])
  BY PathIs
<1>2. \A stage \in Stages : DOMAIN Weight(stage, k) = 1..Len(path[k])
  BY <1>1 DEF Weight
<1>3. /\ Total("latency", k) = SumFunction(Weight("latency", k))
      /\ Total("cpu", k) = SumFunction(Weight("cpu", k))
      /\ TotalOpt("latency", k) = SumFunction(Weight("latencyOpt", k))
      /\ TotalOpt("cpu", k) = SumFunction(Weight("cpuOpt", k))
  BY DEF Total, TotalOpt, Weight, TypeOf, Optimized
<1> QED
  BY <1>2, <1>3 DEF SoFar, SumFunction, Stages

(* Before the first call nothing has been added up.                        *)
LEMMA InitInv == Init => Inv
<1> SUFFICES ASSUME Init PROVE Inv
  OBVIOUS
<1>1. TypesOK
  BY DEF Init, TypesOK, Positions
<1>2. CrispOK /\ PositionOK /\ ParsedOK /\ SumsOK
  BY FilesAssumption DEF Init, CrispOK, PositionOK, ParsedOK, SumsOK, Loaded, Stages
<1>3. \A stage \in Stages, k \in 1..Files : Handled(stage, k) = 0
  BY DEF Init, Handled, After, Stages
<1>4. HandledOK
  BY <1>3 DEF HandledOK
<1>5. PrintedOK
  BY DEF Init, PrintedOK, Printed
<1> QED
  BY <1>1, <1>2, <1>4, <1>5 DEF Inv

(* The inputs never change, nor does what is defined from them alone.      *)
LEMMA InputsStay ==
  ASSUME UNCHANGED inputs
  PROVE  /\ Good' = Good /\ SpeedupFails' = SpeedupFails /\ Exact' = Exact /\ ExactOpt' = ExactOpt
         /\ \A k : CrispResult(k)' = CrispResult(k) /\ Calls(k)' = Calls(k)
         /\ \A stage, k : Weight(stage, k)' = Weight(stage, k)
         /\ ParsedPath' = ParsedPath
<1>1. Good' = Good /\ SpeedupFails' = SpeedupFails
  BY DEF inputs, Good, SpeedupFails, protocol
<1>2. Exact' = Exact /\ ExactOpt' = ExactOpt
  BY DEF inputs, Exact, ExactOpt, Total, TotalOpt, predict, predictOpt, protocol
<1>3. \A k : CrispResult(k)' = CrispResult(k) /\ Calls(k)' = Calls(k)
  BY DEF inputs, CrispResult, Calls, protocol
<1>4. \A stage, k : Weight(stage, k)' = Weight(stage, k)
  BY DEF inputs, Weight, predict, predictOpt, protocol
<1>5. ParsedPath' = ParsedPath
  BY <1>3 DEF ParsedPath
<1> QED
  BY <1>1, <1>2, <1>3, <1>4, <1>5

(* Every parsed path is the path of a trace.                               *)
LEMMA ParsedIsTrace ==
  ASSUME Inv, pc = "parse" \/ Loaded
  PROVE  Len(parsed) \in 0..Files
<1>1. Len(parsed) \in Nat /\ Files \in Nat /\ file \in Nat
  BY FilesAssumption DEF Inv, TypesOK
<1>2. CASE pc = "parse"
  BY <1>1, <1>2 DEF Inv, ParsedOK, PositionOK
<1>3. CASE Loaded
  BY <1>1, <1>3 DEF Inv, ParsedOK
<1> QED
  BY <1>2, <1>3

(* A step between two calls leaves the inputs, the paths and the number of *)
(* calls handled alone, and so the sums.                                   *)
LEMMA Between ==
  ASSUME Inv, UNCHANGED <<inputs, parsed>>, pc = "parse" \/ Loaded,
         \A stage \in Stages, k \in 1..Files : Handled(stage, k)' = Handled(stage, k)
  PROVE  SumsOK' /\ HandledOK'
<1>1. \A k \in 1..Files : /\ Calls(k)' = Calls(k)
                          /\ \A stage \in Stages : SoFar(stage, k)' = SoFar(stage, k)
  BY InputsStay DEF SoFar
<1>2. \A k \in 1..Len(parsed) : k \in 1..Files
  BY ParsedIsTrace, FilesAssumption
<1>3. SumsOK'
  BY <1>1, <1>2 DEF Inv, SumsOK, Stages
<1>4. HandledOK'
  BY <1>1 DEF Inv, HandledOK, inputs
<1> QED
  BY <1>3, <1>4

(* At the position of no pass nothing is handled.                          *)
LEMMA NothingHandled ==
  ASSUME pc \notin Stages \cup {"print", "printOpt"}
  PROVE  \A stage \in Stages, k \in 1..Files : Handled(stage, k) = 0
BY DEF Handled, After, Stages

-----------------------------------------------------------------------------
(* Reading a trace file keeps the invariant.                               *)
LEMMA ProcessTraceInv == Inv /\ ProcessTrace => Inv'
<1> SUFFICES ASSUME Inv, ProcessTrace PROVE Inv'
  OBVIOUS
<1> USE DEF ProcessTrace
<1>0. UNCHANGED inputs /\ file \in 1..Files /\ Files \in Nat
  BY FilesAssumption DEF Inv, TypesOK
<1>1. TypesOK'
  <2> DEFINE results == {CrispResult(k) : k \in 1..Files}
  <2>1. critical_paths' \in Seq(results)
    <3>1. CrispResult(file) \in results /\ critical_paths \in Seq(results)
      BY <1>0 DEF Inv, TypesOK
    <3> HIDE DEF results
    <3> QED
      BY <3>1
  <2>2. {CrispResult(k) : k \in 1..Files}' = {CrispResult(k) : k \in 1..Files}
    BY <1>0, InputsStay
  <2> QED
    BY <2>1, <2>2, <1>0, InputsStay DEF Inv, TypesOK, inputs
<1>2. CrispOK'
  <2>1. Len(critical_paths) = file - 1 /\ critical_paths \in Seq({CrispResult(k) : k \in 1..Files})
    BY DEF Inv, CrispOK, TypesOK
  <2>2. Len(critical_paths') = file /\ file' = file + 1
    BY <2>1, <1>0
  <2>3. \A k \in 1..Len(critical_paths') : critical_paths'[k] = CrispResult(k)
    BY <2>1, <2>2, <1>0 DEF Inv, CrispOK
  <2> QED
    BY <2>2, <2>3, <1>0, InputsStay DEF CrispOK
<1>3. PositionOK' /\ ParsedOK' /\ SumsOK'
  BY <1>0 DEF Inv, PositionOK, ParsedOK, SumsOK, Loaded, Stages
<1>4. HandledOK'
  <2>1. \A stage \in Stages, k \in 1..Files : Handled(stage, k)' = 0
    BY DEF Handled, After, Stages
  <2> QED
    BY <2>1 DEF HandledOK
<1>5. PrintedOK'
  BY <1>0, InputsStay DEF Inv, PrintedOK, Printed
<1> QED
  BY <1>1, <1>2, <1>3, <1>4, <1>5 DEF Inv

(* A file on which CRISP raised ends the run, and explains its end.        *)
LEMMA MapRaisesInv == Inv /\ MapRaises => Inv'
<1> SUFFICES ASSUME Inv, MapRaises PROVE Inv'
  OBVIOUS
<1> USE DEF MapRaises, GoTo
<1>0. UNCHANGED inputs /\ file = Files + 1 /\ Files \in Nat
  BY FilesAssumption DEF Inv, TypesOK, PositionOK
<1>1. TypesOK'
  <2>1. {CrispResult(k) : k \in 1..Files}' = {CrispResult(k) : k \in 1..Files}
    BY <1>0, InputsStay
  <2> QED
    BY <2>1, <1>0, InputsStay DEF Inv, TypesOK, inputs, Positions
<1>2. CrispOK'
  BY <1>0, InputsStay DEF Inv, CrispOK
<1>3. PositionOK' /\ ParsedOK' /\ SumsOK'
  BY DEF PositionOK, ParsedOK, SumsOK, Loaded, Stages
<1>4. HandledOK'
  <2>1. \A stage \in Stages, k \in 1..Files : Handled(stage, k)' = 0
    BY DEF Handled, After, Stages
  <2> QED
    BY <2>1 DEF HandledOK
<1>5. PrintedOK'
  <2>1. PICK k \in 1..Files : CrispResult(k).shape = "raised"
    BY <1>0 DEF Raised, Inv, CrispOK
  <2>2. content[k] # "rooted"
    BY <2>1 DEF CrispResult
  <2>3. ~Good
    BY <2>2 DEF Good
  <2> QED
    BY <2>3, <1>0, InputsStay DEF Inv, PrintedOK, Printed
<1> QED
  BY <1>1, <1>2, <1>3, <1>4, <1>5 DEF Inv

(* Loading the profile of a known or of an unknown platform keeps it.      *)
LEMMA LoadProfileInv == Inv /\ LoadProfile => Inv'
<1> SUFFICES ASSUME Inv, LoadProfile PROVE Inv'
  OBVIOUS
<1> USE DEF LoadProfile, GoTo
<1>0. UNCHANGED inputs /\ file = Files + 1 /\ Files \in Nat
  BY FilesAssumption DEF Inv, TypesOK, PositionOK
<1>1. TypesOK'
  <2>1. {CrispResult(k) : k \in 1..Files}' = {CrispResult(k) : k \in 1..Files}
    BY <1>0, InputsStay
  <2> QED
    BY <2>1, <1>0, InputsStay DEF Inv, TypesOK, inputs, Positions
<1>2. CrispOK'
  BY <1>0, InputsStay DEF Inv, CrispOK
<1>3. PositionOK' /\ ParsedOK' /\ SumsOK'
  <2>1. Len(parsed) = 0
    BY DEF Inv, ParsedOK
  <2> QED
    BY <2>1, <1>0 DEF Inv, PositionOK, ParsedOK, SumsOK, Loaded, Stages, inputs
<1>4. HandledOK'
  <2>1. \A stage \in Stages, k \in 1..Files : Handled(stage, k)' = 0
    BY DEF Handled, After, Stages
  <2> QED
    BY <2>1 DEF HandledOK
<1>5. PrintedOK'
  <2>1. pc' = "failed" => ~Good
    BY DEF Good
  <2> QED
    BY <2>1, <1>0, InputsStay DEF Inv, PrintedOK, Printed
<1> QED
  BY <1>1, <1>2, <1>3, <1>4, <1>5 DEF Inv

(* Parsing a path, or failing at a trace without a root, keeps it.         *)
LEMMA ParsePathInv == Inv /\ ParsePath => Inv'
<1> SUFFICES ASSUME Inv, ParsePath PROVE Inv'
  OBVIOUS
<1> USE DEF ParsePath, GoTo
<1>0. UNCHANGED inputs /\ file \in 1..Files /\ Files \in Nat
  BY FilesAssumption DEF Inv, TypesOK
<1>a. critical_paths[file] = CrispResult(file)
  BY <1>0 DEF Inv, CrispOK
<1>b. (critical_paths[file].shape = "triple") <=> content[file] = "rooted"
  BY <1>a, <1>0 DEF CrispResult, Inv, TypesOK, Contents
<1>c. {CrispResult(k) : k \in 1..Files}' = {CrispResult(k) : k \in 1..Files}
  BY <1>0, InputsStay
<1>d. CrispOK' /\ PositionOK'
  BY <1>0, InputsStay DEF Inv, CrispOK, PositionOK, Stages, TypesOK
<1>e. HandledOK'
  <2>1. \A stage \in Stages, k \in 1..Files : Handled(stage, k)' = 0
    BY DEF Handled, After, Stages
  <2> QED
    BY <2>1 DEF HandledOK
<1>1. CASE content[file] # "rooted"
  <2>1. TypesOK'
    BY <1>1, <1>b, <1>c, <1>0, InputsStay DEF Inv, TypesOK, inputs, Positions
  <2>2. ParsedOK' /\ SumsOK'
    BY <1>1, <1>b DEF ParsedOK, SumsOK, Loaded, Stages
  <2>3. PrintedOK'
    <3>1. ~Good
      BY <1>1, <1>0 DEF Good
    <3> QED
      BY <3>1, <1>1, <1>b, <1>0, InputsStay DEF Inv, PrintedOK, Printed
  <2> QED
    BY <2>1, <2>2, <2>3, <1>d, <1>e DEF Inv
<1>2. CASE content[file] = "rooted"
  <2> DEFINE new == [parsed_cp |-> Calls(file), trace_name |-> file,
                     latency |-> 0, cpu |-> 0, latencyOpt |-> 0, cpuOpt |-> 0]
  <2>1. Critical_Path(critical_paths[file]) = new
    BY <1>2, <1>a DEF CrispResult, Critical_Path, Calls
  <2>2. new \in ParsedPath
    BY <1>0 DEF ParsedPath
  <2>3. parsed' = Append(parsed, new) /\ file' = file + 1 /\ pc' = "parse" /\ call' = call
    BY <2>1, <1>2, <1>b
  <2>4. parsed \in Seq(ParsedPath) /\ Len(parsed) = file - 1
    BY DEF Inv, TypesOK, ParsedOK
  <2> HIDE DEF new
  <2>5. parsed' \in Seq(ParsedPath) /\ Len(parsed') = file /\ parsed'[file] = new
        /\ \A k \in 1..(file - 1) : parsed'[k] = parsed[k]
    BY <2>2, <2>3, <2>4, <1>0
  <2>6. TypesOK'
    BY <2>3, <2>5, <1>c, <1>0, InputsStay DEF Inv, TypesOK, inputs, Positions
  <2>7. ParsedOK'
    BY <2>3, <2>5, <1>0, <1>2 DEF Inv, ParsedOK, Loaded, Stages, inputs
  <2>8. SumsOK'
    <3>1. \A stage \in Stages, k \in 1..Files : Handled(stage, k) = 0 /\ Handled(stage, k)' = 0
      BY <2>3 DEF Handled, After, Stages
    <3>2. \A stage \in Stages, k \in 1..Files : SoFar(stage, k) = 0 /\ SoFar(stage, k)' = 0
      <4>1. \A stage \in Stages, k \in 1..Files : SoFar(stage, k) = 0
        BY <3>1, NothingYet
      <4>2. \A stage \in Stages, k \in 1..Files : SoFar(stage, k)' = SoFar(stage, k)
        BY <3>1, <1>0, InputsStay DEF SoFar
      <4> QED
        BY <4>1, <4>2
    <3>3. ASSUME NEW k \in 1..file
          PROVE  parsed'[k] = [parsed_cp |-> Calls(k), trace_name |-> k,
                               latency |-> 0, cpu |-> 0, latencyOpt |-> 0, cpuOpt |-> 0]
      <4>1. CASE k = file
        BY <4>1, <2>5 DEF new
      <4>2. CASE k # file
        <5>1. k \in 1..(file - 1) /\ k \in 1..Files
          BY <4>2, <1>0
        <5> QED
          BY <5>1, <2>4, <2>5, <3>2 DEF Inv, SumsOK, Stages
      <4> QED
        BY <4>1, <4>2
    <3>4. \A k \in 1..file : k \in 1..Files
      BY <1>0
    <3> QED
      BY <3>2, <3>3, <3>4, <2>5, <1>0, InputsStay DEF SumsOK, Stages
  <2>9. PrintedOK'
    BY <2>3, <1>0, InputsStay DEF Inv, PrintedOK, Printed
  <2> QED
    BY <2>6, <2>7, <2>8, <2>9, <1>d, <1>e DEF Inv
<1> QED
  BY <1>1, <1>2

(* Going on from the paths to the first pass keeps it.                     *)
LEMMA ParseEndsInv == Inv /\ ParseEnds => Inv'
<1> SUFFICES ASSUME Inv, ParseEnds PROVE Inv'
  OBVIOUS
<1> USE DEF ParseEnds, GoTo
<1>0. UNCHANGED inputs /\ file = Files + 1 /\ Files \in Nat
  BY FilesAssumption DEF Inv, TypesOK, PositionOK
<1>1. TypesOK'
  <2>1. {CrispResult(k) : k \in 1..Files}' = {CrispResult(k) : k \in 1..Files}
    BY <1>0, InputsStay
  <2> QED
    BY <2>1, <1>0, InputsStay DEF Inv, TypesOK, inputs, Positions, Stages
<1>2. CrispOK' /\ PrintedOK'
  BY <1>0, InputsStay DEF Inv, CrispOK, PrintedOK, Printed
<1>3. PositionOK'
  <2>1. \A k \in 1..Files : Len(path[k]) \in Nat
    BY PathIs DEF Inv
  <2>2. path' = path
    BY DEF inputs
  <2> QED
    BY <2>1, <2>2, <1>0 DEF PositionOK
<1>4. ParsedOK'
  BY <1>0 DEF Inv, ParsedOK, Loaded, Stages, inputs
<1>5. SumsOK' /\ HandledOK'
  <2>1. \A stage \in Stages, k \in 1..Files : Handled(stage, k)' = 0
    BY DEF Handled, After, Stages
  <2>2. \A stage \in Stages, k \in 1..Files : Handled(stage, k)' = Handled(stage, k)
    BY <2>1, NothingHandled DEF Stages
  <2> QED
    BY <2>2, <1>0, Between
<1> QED
  BY <1>1, <1>2, <1>3, <1>4, <1>5 DEF Inv

(* A pass goes on to the next trace when all the calls of one are handled. *)
LEMMA NextTraceInv == Inv /\ NextTrace => Inv'
<1> SUFFICES ASSUME Inv, NextTrace PROVE Inv'
  OBVIOUS
<1> USE DEF NextTrace
<1>0. UNCHANGED inputs /\ pc \in Stages /\ pc' = pc
  BY DEF Predicting, Stages
<1>a. Len(parsed) = Files /\ file \in 1..Files /\ Files \in Nat
  BY <1>0, FilesAssumption DEF Inv, ParsedOK, Loaded, TypesOK
<1>b. \A k \in 1..Files : Len(path[k]) \in Nat /\ DOMAIN path[k] = 1..Len(path[k])
  BY PathIs DEF Inv
<1>c. call = Len(path[file]) + 1
  <2>1. parsed[file].parsed_cp = Calls(file)
    BY <1>0, <1>a DEF Inv, SumsOK, Loaded
  <2>2. Len(Calls(file)) = Len(path[file])
    BY <1>a, <1>b DEF Calls
  <2> QED
    <3>1. ~(call <= Len(path[file])) /\ call \in Nat
      BY <2>1, <2>2, <1>a, <1>b DEF Inv, TypesOK
    <3>2. call <= Len(path[file]) + 1
      BY <1>0, <1>a DEF Inv, PositionOK
    <3> QED
      BY <3>1, <3>2, <1>a, <1>b
<1>1. TypesOK'
  <2>1. {CrispResult(k) : k \in 1..Files}' = {CrispResult(k) : k \in 1..Files}
    BY <1>0, InputsStay
  <2> QED
    BY <2>1, <1>0, InputsStay DEF Inv, TypesOK, inputs
<1>2. CrispOK' /\ PrintedOK' /\ ParsedOK'
  BY <1>0, InputsStay
     DEF Inv, CrispOK, PrintedOK, Printed, ParsedOK, Loaded, Stages, inputs
<1>3. PositionOK'
  <2>1. path' = path /\ file' = file + 1 /\ call' = 1
    BY DEF inputs
  <2> QED
    BY <2>1, <1>0, <1>a, <1>b DEF PositionOK
<1>5. SumsOK' /\ HandledOK'
  <2>1. ASSUME NEW stage \in Stages, NEW k \in 1..Files
        PROVE  Handled(stage, k)' = Handled(stage, k)
    BY <1>0, <1>a, <1>b, <1>c DEF Handled, inputs
  <2> QED
    BY <2>1, <1>0, Between DEF Loaded
<1> QED
  BY <1>1, <1>2, <1>3, <1>5 DEF Inv

(* A pass over all traces is followed by the next.                         *)
LEMMA PassEndsInv == Inv /\ PassEnds => Inv'
<1> SUFFICES ASSUME Inv, PassEnds PROVE Inv'
  OBVIOUS
<1> USE DEF PassEnds, GoTo
<1>0. UNCHANGED inputs /\ pc \in Stages /\ pc' = NextStage(pc)
  BY DEF Predicting, Stages
<1>a. file = Files + 1 /\ Files \in Nat
  BY <1>0, FilesAssumption DEF Inv, ParsedOK, Loaded, TypesOK, PositionOK
<1>b. \A k \in 1..Files : Len(path[k]) \in Nat
  BY PathIs DEF Inv
<1>1. TypesOK'
  <2>1. {CrispResult(k) : k \in 1..Files}' = {CrispResult(k) : k \in 1..Files}
    BY <1>0, InputsStay
  <2> QED
    BY <2>1, <1>0, InputsStay DEF Inv, TypesOK, inputs, Positions, Stages, NextStage
<1>2. CrispOK' /\ PrintedOK' /\ ParsedOK'
  BY <1>0, InputsStay
     DEF Inv, CrispOK, PrintedOK, Printed, ParsedOK, Loaded, Stages, inputs, NextStage
<1>3. PositionOK'
  <2>1. path' = path
    BY DEF inputs
  <2> QED
    BY <2>1, <1>a, <1>b DEF PositionOK
<1>5. SumsOK' /\ HandledOK'
  <2>1. ASSUME NEW stage \in Stages, NEW k \in 1..Files
        PROVE  Handled(stage, k)' = Handled(stage, k)
    BY <1>0, <1>a, <1>b DEF Handled, inputs, After, NextStage, Stages
  <2> QED
    BY <2>1, <1>0, Between DEF Loaded
<1> QED
  BY <1>1, <1>2, <1>3, <1>5 DEF Inv

(* When both passes are over every call had a model, and the sums are over *)
(* all the calls.                                                          *)
LEMMA AllPredicted ==
  ASSUME Inv, pc = "print"
  PROVE  /\ Good
         /\ \A k \in 1..Len(parsed) :
               parsed[k].trace_name = k /\ parsed[k].latency = Total("latency", k)
                                        /\ parsed[k].cpu = Total("cpu", k)
<1>1. Len(parsed) = Files /\ Loaded
  BY DEF Inv, ParsedOK, Loaded
<1>2. \A k \in 1..Files :
         Handled("latency", k) = Len(path[k]) /\ Handled("cpu", k) = Len(path[k])
  BY DEF Handled, After
<1>3. \A k \in 1..Files, type \in Types : \A j \in DOMAIN path[k] :
         protocol(path[k][j]) \in models[type]
  <2> SUFFICES ASSUME NEW k \in 1..Files, NEW type \in Types, NEW j \in DOMAIN path[k]
               PROVE  protocol(path[k][j]) \in models[type]
    OBVIOUS
  <2>1. type \in Stages /\ TypeOf(type) = type /\ Handled(type, k) = Len(path[k])
    BY <1>2 DEF Types, Stages, TypeOf
  <2>2. j \in 1..Handled(type, k)
    BY <2>1, PathIs DEF Inv
  <2>3. Calls(k)[j] \in models[type]
    BY <2>1, <2>2 DEF Inv, HandledOK
  <2> QED
    BY <2>3 DEF Calls
<1>4. Good
  BY <1>1, <1>3 DEF Inv, ParsedOK, Good
<1>5. \A k \in 1..Files :
         SoFar("latency", k) = Total("latency", k) /\ SoFar("cpu", k) = Total("cpu", k)
  BY <1>2, Everything DEF Inv
<1>6. \A k \in 1..Len(parsed) :
         /\ parsed[k].trace_name = k
         /\ parsed[k].latency = SoFar("latency", k) /\ parsed[k].cpu = SoFar("cpu", k)
  BY <1>1 DEF Inv, SumsOK
<1> QED
  BY <1>1, <1>4, <1>5, <1>6

(* The first report keeps the invariant.                                   *)
LEMMA ReportInv == Inv /\ Report => Inv'
<1> SUFFICES ASSUME Inv, Report PROVE Inv'
  OBVIOUS
<1> USE DEF Report, GoTo
<1>0. UNCHANGED inputs /\ pc = "print" /\ Loaded /\ Len(parsed) = Files /\ Files \in Nat
      /\ speedup \in SpeedupProfiles
  BY FilesAssumption DEF Inv, ParsedOK, Loaded, TypesOK
<1>b. \A k \in 1..Files : Len(path[k]) \in Nat
  BY PathIs DEF Inv
<1>1. TypesOK'
  <2>1. {CrispResult(k) : k \in 1..Files}' = {CrispResult(k) : k \in 1..Files}
    BY <1>0, InputsStay
  <2> QED
    BY <2>1, <1>0, InputsStay DEF Inv, TypesOK, inputs, Positions, Stages
<1>2. CrispOK' /\ ParsedOK'
  BY <1>0, InputsStay DEF Inv, CrispOK, ParsedOK, Loaded, Stages, inputs
<1>3. PositionOK'
  <2>1. path' = path
    BY DEF inputs
  <2> QED
    BY <2>1, <1>0, <1>b DEF PositionOK
<1>4. PrintedOK'
  <2>1. DOMAIN parsed = 1..Files
    BY <1>0 DEF Inv, TypesOK
  <2>2. reported' = Exact
    BY <2>1, <1>0, AllPredicted DEF Line, Exact
  <2>3. /\ pc' \in {"done", "failed", "latencyOpt"}
        /\ pc' = "done" => ~SpeedupFails
        /\ pc' = "failed" => SpeedupFails
        /\ pc' = "latencyOpt" => speedup # "unreadable"
    BY <1>0 DEF SpeedupFails, SpeedupProfiles
  <2>4. Good /\ (reportedOpt = <<>> \/ reportedOpt = ExactOpt) /\ speedup' = speedup
    BY <1>0, AllPredicted DEF Inv, PrintedOK, inputs
  <2> QED
    BY <2>2, <2>3, <2>4, <1>0, InputsStay DEF PrintedOK, Printed
<1>5. SumsOK' /\ HandledOK'
  <2>1. CASE pc' \in {"done", "failed"}
    <3>1. \A stage \in Stages, k \in 1..Files : Handled(stage, k)' = 0
      BY <2>1 DEF Handled, After, Stages
    <3> QED
      BY <2>1, <3>1 DEF SumsOK, HandledOK, Loaded, Stages
  <2>2. CASE pc' = "latencyOpt"
    <3>1. ASSUME NEW stage \in Stages, NEW k \in 1..Files
          PROVE  Handled(stage, k)' = Handled(stage, k)
      BY <2>2, <1>0, <1>b DEF Handled, inputs, After, Stages
    <3> QED
      BY <3>1, <1>0, Between
  <2> QED
    BY <2>1, <2>2, <1>0 DEF SpeedupProfiles
<1> QED
  BY <1>1, <1>2, <1>3, <1>4, <1>5 DEF Inv

(* The second report keeps it.                                             *)
LEMMA ReportOptInv == Inv /\ ReportOpt => Inv'
<1> SUFFICES ASSUME Inv, ReportOpt PROVE Inv'
  OBVIOUS
<1> USE DEF ReportOpt, GoTo
<1>0. UNCHANGED inputs /\ pc = "printOpt" /\ pc' = "done" /\ Loaded /\ Len(parsed) = Files
      /\ Files \in Nat
  BY FilesAssumption DEF Inv, ParsedOK, Loaded
<1>1. TypesOK'
  <2>1. {CrispResult(k) : k \in 1..Files}' = {CrispResult(k) : k \in 1..Files}
    BY <1>0, InputsStay
  <2> QED
    BY <2>1, <1>0, InputsStay DEF Inv, TypesOK, inputs, Positions
<1>2. CrispOK' /\ ParsedOK' /\ PositionOK' /\ SumsOK'
  BY <1>0, InputsStay
     DEF Inv, CrispOK, ParsedOK, PositionOK, SumsOK, Loaded, Stages
<1>3. HandledOK'
  <2>1. \A stage \in Stages, k \in 1..Files : Handled(stage, k)' = 0
    BY DEF Handled, After, Stages
  <2> QED
    BY <2>1 DEF HandledOK
<1>4. \A k \in 1..Files :
         /\ Handled("latencyOpt", k) = Len(path[k]) /\ Handled("cpuOpt", k) = Len(path[k])
         /\ Len(path[k]) \in Nat \ {0}
  BY <1>0, PathIs DEF Handled, After, Inv
<1>5. ~SpeedupFails
  <2> SUFFICES ASSUME Files > 0 PROVE speedup # "flat"
    BY <1>0 DEF SpeedupFails, Inv, PrintedOK
  <2>1. 1 \in 1..Files /\ 1 \in 1..Handled("latencyOpt", 1)
    BY <1>0, <1>4
  <2> QED
    BY <2>1 DEF Inv, HandledOK, Stages, Optimized
<1>6. reportedOpt' = ExactOpt
  <2>1. \A k \in 1..Files :
           /\ SoFar("latencyOpt", k) = TotalOpt("latency", k)
           /\ SoFar("cpuOpt", k) = TotalOpt("cpu", k)
    BY <1>4, Everything DEF Inv
  <2>2. \A k \in 1..Files :
           /\ parsed[k].trace_name = k
           /\ parsed[k].latencyOpt = SoFar("latencyOpt", k)
           /\ parsed[k].cpuOpt = SoFar("cpuOpt", k)
    BY <1>0 DEF Inv, SumsOK
  <2>3. DOMAIN parsed = 1..Files
    BY <1>0 DEF Inv, TypesOK
  <2> QED
    BY <2>1, <2>2, <2>3 DEF ExactOpt
<1>7. PrintedOK'
  BY <1>0, <1>5, <1>6, InputsStay DEF Inv, PrintedOK, Printed
<1> QED
  BY <1>1, <1>2, <1>3, <1>7 DEF Inv

(* A prediction that fails stops the run for one of the reasons.           *)
LEMMA PredictFailsInv ==
  ASSUME Inv, PredictCall, PredictFails(parsed[file].parsed_cp[call])
  PROVE  Inv'
<1> USE DEF GoTo
<1>0. UNCHANGED inputs /\ pc \in Stages /\ pc' = "failed" /\ UNCHANGED parsed /\ file' = 1
      /\ call' = 1 /\ UNCHANGED <<critical_paths, reported, reportedOpt>>
  BY DEF Predicting, Stages, PredictCall
<1>1. TypesOK'
  <2>1. {CrispResult(k) : k \in 1..Files}' = {CrispResult(k) : k \in 1..Files}
    BY <1>0, InputsStay
  <2> QED
    BY <2>1, <1>0, InputsStay DEF Inv, TypesOK, inputs, Positions
<1>2. CrispOK' /\ ParsedOK' /\ PositionOK' /\ SumsOK'
  BY <1>0, InputsStay
     DEF Inv, CrispOK, ParsedOK, PositionOK, SumsOK, Loaded, Stages
<1>3. HandledOK'
  <2>1. \A stage \in Stages, k \in 1..Files : Handled(stage, k)' = 0
    BY <1>0 DEF Handled, After, Stages
  <2> QED
    BY <2>1 DEF HandledOK
<1>4. Len(parsed) = Files /\ file \in 1..Files /\ call \in Nat \ {0}
      /\ speedup \in SpeedupProfiles
  BY <1>0, FilesAssumption DEF Inv, ParsedOK, Loaded, TypesOK, PredictCall
<1>5. /\ parsed[file].parsed_cp = Calls(file) /\ DOMAIN path[file] = 1..Len(path[file])
      /\ Len(path[file]) \in Nat /\ call \in 1..Len(path[file])
  <2>1. parsed[file].parsed_cp = Calls(file)
    BY <1>0, <1>4 DEF Inv, SumsOK, Loaded
  <2>2. DOMAIN path[file] = 1..Len(path[file]) /\ Len(path[file]) \in Nat
    BY <1>4, PathIs DEF Inv
  <2>3. Len(Calls(file)) = Len(path[file])
    BY <2>2 DEF Calls
  <2> QED
    BY <2>1, <2>2, <2>3, <1>4 DEF PredictCall
<1>6. TypeOf(pc) \in Types /\ Calls(file)[call] = protocol(path[file][call])
  BY <1>5 DEF TypeOf, Types, Calls
<1>7. NoModel(Calls(file)[call]) => ~Good
  BY <1>4, <1>5, <1>6 DEF NoModel, Good
<1>8. Optimized(pc) => Good /\ reported = Exact
  BY DEF Inv, PrintedOK, Printed, Optimized
<1>9. ~Optimized(pc) => reported = <<>>
  BY <1>0 DEF Inv, PrintedOK, Optimized, Stages
<1>10. NoModel(Calls(file)[call]) \/ (Optimized(pc) /\ SpeedupFails)
  BY <1>4, <1>5, FilesAssumption DEF PredictFails, SpeedupFails
<1>11. reportedOpt = <<>> \/ reportedOpt = ExactOpt
  BY DEF Inv, PrintedOK
<1>12. PrintedOK'
  BY <1>0, <1>7, <1>8, <1>9, <1>10, <1>11, InputsStay DEF PrintedOK, Printed
<1> QED
  BY <1>1, <1>2, <1>3, <1>12 DEF Inv

(* A prediction that succeeds adds one call to one sum.                    *)
LEMMA PredictedInv ==
  ASSUME Inv, PredictCall, ~PredictFails(parsed[file].parsed_cp[call])
  PROVE  Inv'
<1>4. UNCHANGED inputs /\ pc \in Stages /\ Loaded /\ Len(parsed) = Files /\ file \in 1..Files
      /\ call \in Nat \ {0} /\ Files \in Nat
  <2>1. UNCHANGED inputs /\ pc \in Stages /\ Loaded
    BY DEF PredictCall, Predicting, Stages, Loaded
  <2> QED
    BY <2>1, FilesAssumption DEF Inv, ParsedOK, Loaded, TypesOK, PredictCall
<1>5. /\ parsed[file].parsed_cp = Calls(file) /\ DOMAIN path[file] = 1..Len(path[file])
      /\ Len(path[file]) \in Nat /\ call \in 1..Len(path[file])
  <2>1. parsed[file].parsed_cp = Calls(file)
    BY <1>4 DEF Inv, SumsOK
  <2>2. DOMAIN path[file] = 1..Len(path[file]) /\ Len(path[file]) \in Nat
    BY <1>4, PathIs DEF Inv
  <2>3. Len(Calls(file)) = Len(path[file])
    BY <2>2 DEF Calls
  <2> QED
    BY <2>1, <2>2, <2>3, <1>4 DEF PredictCall
<1> DEFINE p == Calls(file)[call]
<1>0. /\ parsed' = [parsed EXCEPT ![file] = Add(@, p)]
      /\ call' = call + 1 /\ pc' = pc /\ file' = file
      /\ UNCHANGED <<critical_paths, reported, reportedOpt>>
  BY <1>5 DEF PredictCall
<1>6. p = protocol(path[file][call])
  BY <1>5 DEF Calls
<1>7. p \in models[TypeOf(pc)] /\ (Optimized(pc) => speedup # "flat")
  BY <1>5 DEF PredictFails, NoModel
<1> DEFINE w(stage) == Weight(stage, file)[call]
<1>8. \A stage \in Stages :
        w(stage) = IF Optimized(stage) THEN predictOpt(TypeOf(stage), p)
                                       ELSE predict(TypeOf(stage), p)
  BY <1>5, <1>6 DEF Weight
<1> HIDE DEF p
<1>9. DOMAIN parsed = 1..Files /\ parsed \in Seq(ParsedPath)
  BY <1>4 DEF Inv, TypesOK
<1>10. parsed[file] = [parsed_cp |-> Calls(file), trace_name |-> file,
                       latency |-> SoFar("latency", file), cpu |-> SoFar("cpu", file),
                       latencyOpt |-> SoFar("latencyOpt", file),
                       cpuOpt |-> SoFar("cpuOpt", file)]
  BY <1>4 DEF Inv, SumsOK
<1>11. \A stage \in Stages : Handled(stage, file) \in Nat
  BY <1>4, <1>5, HandledIs DEF Inv
<1>12. /\ Handled(pc, file) = call - 1 /\ Handled(pc, file)' = call
       /\ \A stage \in Stages, k \in 1..Files :
             stage # pc \/ k # file => Handled(stage, k)' = Handled(stage, k)
  <2>1. Handled(pc, file) = call - 1 /\ Handled(pc, file)' = call
    BY <1>0, <1>4 DEF Handled
  <2>2. ASSUME NEW stage \in Stages, NEW k \in 1..Files, stage # pc \/ k # file
        PROVE  Handled(stage, k)' = Handled(stage, k)
    BY <2>2, <1>0, <1>4 DEF Handled, inputs
  <2> QED
    BY <2>1, <2>2
<1>13. HandledOK'
  <2> SUFFICES ASSUME NEW stage \in Stages, NEW k \in 1..Files, NEW j \in 1..Handled(stage, k)'
               PROVE  /\ Calls(k)'[j] \in models[TypeOf(stage)]
                      /\ Optimized(stage) => speedup # "flat"
    BY <1>4 DEF HandledOK, inputs
  <2>1. Calls(k)' = Calls(k)
    BY <1>4, InputsStay
  <2>2. CASE stage = pc /\ k = file /\ j = call
    BY <2>1, <2>2, <1>7 DEF p
  <2>3. CASE ~(stage = pc /\ k = file /\ j = call)
    <3>1. j \in 1..Handled(stage, k)
      <4>1. CASE stage = pc /\ k = file
        <5>1. j \in 1..call /\ j # call
          BY <4>1, <2>3, <1>12, <1>0
        <5> QED
          BY <5>1, <4>1, <1>12, <1>4
      <4>2. CASE stage # pc \/ k # file
        BY <4>2, <1>12
      <4> QED
        BY <4>1, <4>2
    <3> QED
      BY <3>1, <2>1 DEF Inv, HandledOK
  <2> QED
    BY <2>2, <2>3
<1>14. \A stage \in Stages, k \in 1..Files :
          stage # pc \/ k # file => SoFar(stage, k)' = SoFar(stage, k)
  BY <1>4, <1>12, InputsStay DEF SoFar
<1>15. SoFar(pc, file)' = SoFar(pc, file) + w(pc) /\ w(pc) \in Int
  <2> DEFINE n == call - 1
             W == Weight(pc, file)
  <2>1. n \in Nat /\ call = n + 1
    BY <1>4
  <2>2. \A j \in 1..(n + 1) : W[j] \in Int
    <3> SUFFICES ASSUME NEW j \in 1..(n + 1) PROVE W[j] \in Int
      OBVIOUS
    <3>1. j \in 1..Len(path[file]) /\ j \in 1..call
      BY <2>1, <1>5, <1>4
    <3>2. \A k : Calls(k)' = Calls(k)
      BY <1>4, InputsStay
    <3>3. Handled(pc, file)' = call
      BY <1>12
    <3>4. \A stage \in Stages, k \in 1..Files : \A i \in 1..Handled(stage, k)' :
             Calls(k)[i] \in models[TypeOf(stage)]
      BY <3>2, <1>13, <1>4 DEF HandledOK, inputs
    <3>5. Calls(file)[j] \in models[TypeOf(pc)]
      BY <3>1, <3>3, <3>4, <1>0, <1>4
    <3> QED
      BY <3>1, <3>5, <1>4, <1>5, WeightIs DEF Inv
  <2>3. SoFar(pc, file)' = SumFunctionOnSet(W, 1..(n + 1)) /\ SoFar(pc, file) = SumFunctionOnSet(W, 1..n)
    <3>1. Weight(pc, file)' = W /\ Handled(pc, file)' = n + 1 /\ Handled(pc, file) = n
      BY <1>12, <1>4, <1>0, <2>1, InputsStay
    <3> QED
      BY <3>1 DEF SoFar
  <2>4. w(pc) = W[n + 1] /\ (n + 1) \in 1..(n + 1)
    BY <2>1
  <2> HIDE DEF n, W, w
  <2> QED
    BY <2>1, <2>2, <2>3, <2>4, SumInterval
<1> DEFINE sum(stage) == SoFar(stage, file)
           new == [parsed_cp |-> Calls(file), trace_name |-> file,
                   latency |-> sum("latency") + (IF pc = "latency" THEN w(pc) ELSE 0),
                   cpu |-> sum("cpu") + (IF pc = "cpu" THEN w(pc) ELSE 0),
                   latencyOpt |-> sum("latencyOpt") + (IF pc = "latencyOpt" THEN w(pc) ELSE 0),
                   cpuOpt |-> sum("cpuOpt") + (IF pc = "cpuOpt" THEN w(pc) ELSE 0)]
<1>16. \A stage \in Stages : sum(stage) \in Int
  <2>1. parsed[file] \in ParsedPath
    BY <1>4, <1>9
  <2> QED
    BY <1>10, <2>1 DEF ParsedPath, Stages
<1>17. Add(parsed[file], p) = new
  <2>1. w(pc) = IF Optimized(pc) THEN predictOpt(TypeOf(pc), p) ELSE predict(TypeOf(pc), p)
    BY <1>8, <1>4
  <2> HIDE DEF w, sum
  <2>2. parsed[file] = [parsed_cp |-> Calls(file), trace_name |-> file,
                        latency |-> sum("latency"), cpu |-> sum("cpu"),
                        latencyOpt |-> sum("latencyOpt"), cpuOpt |-> sum("cpuOpt")]
    BY <1>10 DEF sum
  <2>3. CASE pc = "latency"
    BY <2>1, <2>2, <2>3, <1>16 DEF Add, Optimized, TypeOf, Stages
  <2>4. CASE pc = "cpu"
    BY <2>1, <2>2, <2>4, <1>16 DEF Add, Optimized, TypeOf, Stages
  <2>5. CASE pc = "latencyOpt"
    BY <2>1, <2>2, <2>5, <1>16 DEF Add, Optimized, TypeOf, Stages
  <2>6. CASE pc = "cpuOpt"
    BY <2>1, <2>2, <2>6, <1>16 DEF Add, Optimized, TypeOf, Stages
  <2> QED
    BY <2>3, <2>4, <2>5, <2>6, <1>4 DEF Stages
<1>18. new = [parsed_cp |-> Calls(file), trace_name |-> file,
              latency |-> SoFar("latency", file)', cpu |-> SoFar("cpu", file)',
              latencyOpt |-> SoFar("latencyOpt", file)', cpuOpt |-> SoFar("cpuOpt", file)']
  <2>1. \A stage \in Stages :
          SoFar(stage, file)' = sum(stage) + (IF pc = stage THEN w(pc) ELSE 0)
    <3> SUFFICES ASSUME NEW stage \in Stages
                 PROVE  SoFar(stage, file)' = sum(stage) + (IF pc = stage THEN w(pc) ELSE 0)
      OBVIOUS
    <3>1. CASE stage = pc
      BY <3>1, <1>15, <1>0
    <3>2. CASE stage # pc
      BY <3>2, <1>14, <1>16, <1>4, <1>0
    <3> QED
      BY <3>1, <3>2
  <2> HIDE DEF w, sum
  <2> QED
    BY <2>1 DEF Stages
<1>19. parsed' = [parsed EXCEPT ![file] = new]
  BY <1>0, <1>17
<1>20. new \in ParsedPath
  <2>1. w(pc) \in Int /\ Calls(file) \in {Calls(k) : k \in 1..Files}
    BY <1>15, <1>4
  <2> HIDE DEF w, sum
  <2> QED
    BY <2>1, <1>16, <1>4 DEF ParsedPath, Stages
<1> HIDE DEF new, w, sum
<1>21. parsed' \in Seq(ParsedPath) /\ Len(parsed') = Files /\ parsed'[file] = new
       /\ \A k \in 1..Files : k # file => parsed'[k] = parsed[k]
  BY <1>4, <1>9, <1>19, <1>20
<1>22. TypesOK'
  <2>1. {CrispResult(k) : k \in 1..Files}' = {CrispResult(k) : k \in 1..Files}
    BY <1>4, InputsStay
  <2> QED
    BY <2>1, <1>0, <1>4, <1>21, InputsStay DEF Inv, TypesOK, inputs
<1>23. CrispOK' /\ PrintedOK' /\ ParsedOK'
  BY <1>0, <1>4, <1>21, InputsStay
     DEF Inv, CrispOK, PrintedOK, Printed, ParsedOK, Loaded, Stages, inputs
<1>24. PositionOK'
  BY <1>0, <1>4, <1>5 DEF Inv, PositionOK, inputs
<1>25. SumsOK'
  <2>1. ASSUME NEW k \in 1..Files
        PROVE  parsed'[k] = [parsed_cp |-> Calls(k), trace_name |-> k,
                             latency |-> SoFar("latency", k)', cpu |-> SoFar("cpu", k)',
                             latencyOpt |-> SoFar("latencyOpt", k)',
                             cpuOpt |-> SoFar("cpuOpt", k)']
    <3>1. CASE k = file
      <4>1. \A stage \in Stages : SoFar(stage, k)' = SoFar(stage, file)'
        BY <3>1, <1>0
      <4> QED
        BY <3>1, <4>1, <1>21, <1>18 DEF Stages
    <3>2. CASE k # file
      BY <3>2, <1>21, <1>14, <1>4 DEF Inv, SumsOK, Stages
    <3> QED
      BY <3>1, <3>2
  <2> QED
    BY <2>1, <1>21, <1>4, InputsStay DEF SumsOK
<1> QED
  BY <1>13, <1>22, <1>23, <1>24, <1>25 DEF Inv

(* Every step keeps the invariant.                                         *)
LEMMA NextInv == Inv /\ [Next]_vars => Inv'
<1> SUFFICES ASSUME Inv, [Next]_vars PROVE Inv'
  OBVIOUS
<1>1. CASE PredictCall
  BY <1>1, PredictFailsInv, PredictedInv
<1>2. CASE UNCHANGED vars
  <2>1. UNCHANGED inputs
    BY <1>2 DEF vars, inputs
  <2>2. {CrispResult(k) : k \in 1..Files}' = {CrispResult(k) : k \in 1..Files}
    BY <2>1, InputsStay
  <2>3. \A stage \in Stages, k \in 1..Files : /\ Handled(stage, k)' = Handled(stage, k)
                                              /\ SoFar(stage, k)' = SoFar(stage, k)
    BY <1>2, <2>1, InputsStay DEF vars, Handled, SoFar
  <2>4. TypesOK'
    BY <2>2, <1>2, <2>1, InputsStay DEF Inv, TypesOK, vars
  <2>5. CrispOK' /\ PositionOK' /\ ParsedOK'
    BY <1>2, <2>1, InputsStay DEF Inv, CrispOK, PositionOK, ParsedOK, Loaded, vars
  <2>6. PrintedOK'
    BY <1>2, <2>1, InputsStay DEF Inv, PrintedOK, Printed, vars
  <2>7. HandledOK'
    BY <1>2, <2>1, <2>3, InputsStay DEF Inv, HandledOK, vars
  <2>8. SumsOK'
    <3> SUFFICES ASSUME pc = "parse" \/ Loaded PROVE SumsOK'
      BY <1>2 DEF SumsOK, Loaded, vars
    <3> QED
      BY <2>1, <2>3, <1>2, Between DEF vars
  <2> QED
    BY <2>4, <2>5, <2>6, <2>7, <2>8 DEF Inv
<1> QED
  BY <1>1, <1>2, ProcessTraceInv, MapRaisesInv, LoadProfileInv, ParsePathInv, ParseEndsInv, NextTraceInv,
     PassEndsInv, ReportInv, ReportOptInv DEF Next

(* In every reachable state the accumulators hold the sums over the calls  *)
(* that are behind, and what was printed is complete and exact.            *)
THEOREM InvHolds == Spec => []Inv
BY InitInv, NextInv, PTL DEF Spec

(* What is printed for a trace is the sum over the calls on its own path,  *)
(* each once and with the model of its proxy.                              *)
THEOREM PrintedOverheads == Spec => []EachCallOnce
<1>1. Inv => EachCallOnce
  <2> SUFFICES ASSUME Inv PROVE EachCallOnce
    OBVIOUS
  <2>1. reported = <<>> \/ reported = Exact
    BY DEF Inv, PrintedOK, Printed, TypesOK, Positions, Stages
  <2>2. reportedOpt = <<>> \/ reportedOpt = ExactOpt
    BY DEF Inv, PrintedOK
  <2>3. Len(Exact) = Files /\ Len(ExactOpt) = Files
    BY FilesAssumption DEF Exact, ExactOpt
  <2> QED
    <3>1. \A k \in 1..Len(reported) :
             reported[k] = [trace |-> k, latency |-> Total("latency", k), cpu |-> Total("cpu", k)]
      BY <2>1, <2>3, FilesAssumption DEF Exact
    <3>2. \A k \in 1..Len(reportedOpt) :
             reportedOpt[k] = [trace |-> k, latency |-> TotalOpt("latency", k),
                               cpu |-> TotalOpt("cpu", k)]
      BY <2>2, <2>3, FilesAssumption DEF ExactOpt
    <3> QED
      BY <3>1, <3>2 DEF EachCallOnce
<1> QED
  BY <1>1, InvHolds, PTL

(* A run fails exactly if a trace is broken or has no root, the profile or *)
(* the deployment cannot be used, a call has no model, or the speed-up     *)
(* profile fails it; in all but the last of these nothing is printed.      *)
THEOREM FailuresExplained == Spec => []FailureExplained
<1>1. Inv => FailureExplained
  <2> SUFFICES ASSUME Inv, Over PROVE FailureExplained
    BY DEF FailureExplained
  <2>1. Good <=> ~( \/ ~inputsReadable
                    \/ \E f \in 1..Files : content[f] # "rooted"
                    \/ \E f \in 1..Files : \E type \in Types :
                         \E k \in DOMAIN path[f] : protocol(path[f][k]) \notin models[type])
    BY DEF Good
  <2>2. Len(Exact) = Files /\ Len(<<>>) = 0
    BY FilesAssumption DEF Exact
  <2>3. CASE pc = "done"
    <3>1. Good /\ reported = Exact /\ ~SpeedupFails
      BY <2>3 DEF Inv, PrintedOK, Printed
    <3> QED
      BY <3>1, <2>1, <2>2, <2>3 DEF FailureExplained, SpeedupFails
  <2>4. CASE pc = "failed"
    <3>1. (~Good /\ reported = <<>>) \/ (Good /\ reported = Exact /\ SpeedupFails)
      BY <2>4 DEF Inv, PrintedOK
    <3> QED
      BY <3>1, <2>1, <2>2, <2>4 DEF FailureExplained, SpeedupFails
  <2> QED
    BY <2>3, <2>4 DEF Over
<1> QED
  BY <1>1, InvHolds, PTL
=============================================================================
