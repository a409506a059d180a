--------------------------- MODULE MCComparison ----------------------------
(***************************************************************************)
(* Two models on two hosts and one that never attested its host.  The kinds *)
(* of bundles: "left" favours configuration a, "right" configuration b,    *)
(* "tie" only in latency, "untimed" has no times for b, "repeat" holds a    *)
(* twice, "other" does not pair a with b, "old" is another pack.            *)
(***************************************************************************)
EXTENDS Comparison

A == [model |-> "m", environment |-> "host1"]
B == [model |-> "m", environment |-> "host2"]
C == [model |-> "n", environment |-> None]

Row(c, passed, lost, walls) ==
    [configuration |-> c, passed |-> passed, total |-> 4, lost |-> lost, walls |-> walls]
P(rows) == [pack |-> "p", rows |-> rows]

MCBody ==
    [left    |-> P(<<Row(A, 4, 0, <<<<2, 8>>>>), Row(B, 2, 0, <<<<3, 6>>>>)>>),
     right   |-> P(<<Row(A, 1, 0, <<<<2, 8>>>>), Row(B, 2, 2, <<<<2, 6>>>>)>>),
     tie     |-> P(<<Row(A, 3, 0, <<<<1, None>>>>), Row(B, 3, 0, <<<<4, 8>>>>)>>),
     untimed |-> P(<<Row(A, 3, 0, <<<<4, 8>>>>), Row(B, 2, 0, <<>>)>>),
     repeat  |-> P(<<Row(A, 4, 0, <<<<2, 8>>>>), Row(A, 0, 0, <<<<4, 8>>>>),
                     Row(B, 1, 0, <<<<2, None>>>>), Row(C, 1, 0, <<<<5, 5>>>>)>>),
     other   |-> P(<<Row(B, 4, 0, <<<<2, 8>>>>), Row(C, 2, 0, <<<<2, 6>>>>)>>),
     old     |-> [pack |-> "q", rows |-> <<Row(A, 4, 0, <<>>), Row(B, 0, 0, <<>>)>>]]

MCKinds == DOMAIN MCBody

Floors(x) == [o \in RECOMMENDATION_OBJECTIVES |-> x]
Query(objectives, pack, family, floor) ==
    [left |-> A, right |-> B, objectives |-> objectives, pack |-> pack,
     family |-> family, floor |-> Floors(floor)]

MCQueries == {Query({"accuracy"}, "p", None, 0), Query({"accuracy"}, None, None, 1),
              Query({"accuracy", "latency"}, "p", None, 0),
              Query({"latency", "throughput"}, "p", 3, 1)}

\* Seven pairs are past the limit: the luckiest draws, the unluckiest and some between.
MCSampled == [o \in RECOMMENDATION_OBJECTIVES |->
                 [n \in 1..7 |-> IF o = "accuracy" THEN 0
                                 ELSE IF o = "latency" THEN 20000 ELSE 700]]

MCThresholds ==
    [target_bundles |-> 5,
     gates |-> [independent_objective_coverage |-> 2, configuration_diversity |-> 2,
                serving_environment_diversity |-> 2, paired_configuration_overlap |-> 1,
                cross_environment_model_repetition |-> 1]]
=============================================================================
