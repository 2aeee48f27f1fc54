---------------------------- MODULE MCCrispReport ----------------------------
(* Three files and two workers: traces that share call paths, an operation *)
(* on two call paths of a trace, one that takes no time of its own, one    *)
(* that calls itself, equal totals; file names with a second dot.          *)
EXTENDS CrispReport
CONSTANTS a, b, c
Plain == <<<<"t1", "json">>, <<"t2", "json">>, <<"t3", "json">>>>
Dotted == <<<<"t1", "json">>, <<"t1", "2", "json">>>>
Dir == [given |-> "dir", names |-> Plain, parallelism |-> 2, topN |-> 1, numTrace |-> 2,
        numOperation |-> 2, anonymize |-> FALSE]
MCArgs == {Dir, [Dir EXCEPT !.anonymize = TRUE], [Dir EXCEPT !.given = "file"],
           [Dir EXCEPT !.given = "both"],
           [Dir EXCEPT !.names = Dotted], [Dir EXCEPT !.parallelism = 0]}
Dict(keys, values) == [k \in {keys[j] : j \in DOMAIN keys} |->
                          values[CHOOSE j \in DOMAIN keys : keys[j] = k]]
Alone == [self |-> Dict(<<<<a>>>>, <<3>>), chain |-> Dict(<<a>>, <<<<a>>>>)]
Pair == [self |-> Dict(<<<<a>>, <<a, b>>>>, <<1, 2>>),
         chain |-> Dict(<<a, b>>, <<<<a>>, <<a, b>>>>)]
TwoPaths == [self |-> Dict(<<<<a>>, <<a, b>>, <<a, c>>, <<a, c, b>>>>, <<0, 1, 2, 4>>),
             chain |-> Dict(<<a, b, c>>, <<<<a>>, <<a, c, b>>, <<a, c>>>>)]
Nested == [self |-> Dict(<<<<a>>, <<a, c>>, <<a, c, c>>>>, <<1, 1, 1>>),
           chain |-> Dict(<<a, c>>, <<<<a>>, <<a, c>>>>)]
MCTraces == {Alone, Pair, TwoPaths, Nested}
=============================================================================
