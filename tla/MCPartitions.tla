----------------------------- MODULE MCPartitions ----------------------------
(***************************************************************************)
(* Both ways of cutting a list in blocks: optimal_partition of ds2i, with  *)
(* what a block of indexed_sequence takes, on every increasing list of a   *)
(* small universe, and the optimizer of opt_vbyte on every short list of   *)
(* a few gaps.                                                             *)
(***************************************************************************)
EXTENDS OptimalPartition, Optimizer, FiniteSets, TLC

CONSTANT WindowFixCost    \* conf.fix_cost of optimal_partition

Sequence == INSTANCE IndexedSequence WITH
  LinearScanThreshold <- 8, PvbBlockSize <- 2, Garbage <- 1000,
  EfLogSampling0 <- 9, EfLogSampling1 <- 8,
  RbLogRank1Sampling <- 9, RbLogSampling1 <- 8, NoSampling <- 63

(* The cost function of partitioned_sequence::write, evaluated once.         *)
MCCostTable ==
  [universe \in 1 .. Universe, n \in 1 .. Universe |->
     IF n > universe THEN 0 ELSE WindowFixCost + Sequence!IndexedBitsize(universe, n)]

MCCostFun(universe, n) == MCCostTable[universe, n]

(* A code that takes the same for every gap, as VByte does for small ones.   *)
MCEncoderCost(gap) == 3

MCGaps == {1, 2, 6}

CONSTANT MaxPostings      \* bound: the longest list of gaps

MCGapLists ==
  {list \in UNION {[1 .. n -> MCGaps \cup {0}] : n \in 1 .. MaxPostings} :
     \A k \in 1 .. Len(list) : list[k] = 0 <=> k = 1}

MCValueLists ==
  {[k \in 1 .. Cardinality(S) |-> CHOOSE x \in S : Cardinality({y \in S : y < x}) = k - 1] :
     S \in (SUBSET (0 .. Universe - 1)) \ {{}}}

(* One list is cut each way, and one of the two is the shortest there is.    *)
Init ==
  \/ CutStart /\ OptimizerInit(<<0>>)
  \/ CutInit(<<0>>) /\ OptimizerStart

Cut == CutNext /\ UNCHANGED optimizerVars

Optimize == phase = "done" /\ OptimizerNext /\ UNCHANGED vars

Done == phase = "done" /\ step = "done" /\ UNCHANGED <<vars, optimizerVars>>

Next == Cut \/ Optimize \/ Done

Spec == Init /\ [][Next]_<<vars, optimizerVars>>
=============================================================================
