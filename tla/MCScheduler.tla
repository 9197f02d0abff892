---------------------------- MODULE MCScheduler ----------------------------
(***************************************************************************)
(* Instances of Scheduler: three processes; two valid parameter sets of    *)
(* which not every pair is feasible; one that is refused although it would *)
(* fit, because its period in microseconds wraps around 16 bits.  The      *)
(* limits are those of the analysis, 1, 0.828 and 0.779, less 0.05, in     *)
(* thousandths.                                                            *)
(***************************************************************************)
EXTENDS Scheduler

MCRmsLimit == <<950, 778, 729>>

Heavy   == [period |-> 10, deadline |-> 10, wcet |-> 5000]
Light   == [period |-> 20, deadline |-> 15, wcet |-> 4000]
Wrapped == [period |-> 66, deadline |-> 66, wcet |-> 1000]

MCRtParams == {Heavy, Light, Wrapped}
=============================================================================
