---------------------------- MODULE MCPredictor ----------------------------
(* Two traces with paths of one or two calls of two services, each behind  *)
(* a proxy of its own kind, of an unknown one, or none. All predictions of *)
(* the models differ.                                                      *)
EXTENDS Predictor
MCPaths == {<<"a">>, <<"b">>, <<"a", "b">>, <<"b", "b">>}
MCCost ==
    [latency |-> [tcp |-> [read |-> 1, others |-> 2], http |-> [read |-> 3, others |-> 5]],
     cpu |-> [tcp |-> [read |-> 7, others |-> 11], http |-> [read |-> 13, others |-> 17]]]
MCGain == [READ |-> 0, OTHERS |-> 50]
=============================================================================
