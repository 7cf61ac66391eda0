----------------------------- MODULE ReportProofs -----------------------------
(***************************************************************************)
(* What a report averages and lists, for every number of benchmarks,       *)
(* configurations, checkpoints and summaries.                              *)
(***************************************************************************)
EXTENDS Report, SequenceTheorems, TLAPS

(* The summaries still to be looked at are of configurations that no       *)
(* result has been read of: a configuration has one summary.               *)
Ahead ==
    /\ \A i, j \in DOMAIN summary_data :
         summary_data[i].config = summary_data[j].config => i = j
    /\ \A i \in DOMAIN summary_data :
         /\ sim_series[summary_data[i].config] = {}
         /\ pc = "results" => summary_data[i].config # summary.config

(* The checkpoints still to be read are claimed and have not been read.    *)
Reading ==
    pc = "results" =>
      /\ summary \in Summary
      /\ result_dirs \subseteq claimed[summary.config]
      /\ result_dirs \cap sim_series[summary.config] = {}

Claimed == \A k \in Config : sim_series[k] \subseteq claimed[k]

(* The flags, and after each summary the lists, agree with the data.       *)
FlagsTruthful ==
    ~gone => \A k \in Config : \A c \in Checkpoints : present[k][c] = 1 <=> c \in sim_series[k]
ListsTruthful ==
    pc \in {"summary", "done"} /\ ~gone =>
      \A k \in Config : \A i \in DOMAIN present_list[k] :
        present_list[k][i] = 1 <=> i - 1 \in sim_series[k]

Averaged == pc = "done" => \A k \in Config : frames[k] = OnlyUse(k[1], k[2])

IInv ==
    /\ TypeOK /\ Ahead /\ Reading /\ Claimed /\ FlagsTruthful /\ ListsTruthful /\ Averaged

-----------------------------------------------------------------------------
LEMMA SummaryFields ==
    ASSUME NEW s \in Summary
    PROVE  /\ s.config \in Config /\ s.successful \subseteq Checkpoints
           /\ s.total_checkpoints \in 0 .. MaxCheckpoints
           /\ s.finished \in BOOLEAN
  BY DEF Summary

(* What the steps that begin or skip a summary leave of the queue.         *)
LEMMA Dequeue ==
    ASSUME TypeOK, Ahead, summary_data # <<>>, summary_data' = Tail(summary_data)
    PROVE  /\ Head(summary_data) \in Summary
           /\ summary_data' \in Seq(Summary)
           /\ 1 \in DOMAIN summary_data /\ Head(summary_data) = summary_data[1]
           /\ \A i \in DOMAIN summary_data' :
                /\ i + 1 \in DOMAIN summary_data /\ summary_data'[i] = summary_data[i + 1]
                /\ i \in Nat \ {0}
  <1>1. summary_data \in Seq(Summary)  BY DEF TypeOK
  <1>2. Len(summary_data) \in Nat \ {0} /\ DOMAIN summary_data = 1 .. Len(summary_data)
    BY <1>1, EmptySeq
  <1>3. /\ summary_data' \in Seq(Summary) /\ Len(summary_data') = Len(summary_data) - 1
        /\ \A i \in 1 .. Len(summary_data') : summary_data'[i] = summary_data[i + 1]
        /\ Head(summary_data) \in Summary /\ Head(summary_data) = summary_data[1]
    BY <1>1, HeadTailProperties
  <1>4. DOMAIN summary_data' = 1 .. Len(summary_data')  BY <1>3
  <1>5. QED  BY <1>2, <1>3, <1>4

LEMMA SkipSummaryKeeps ==
    ASSUME IInv, SkipSummary
    PROVE  IInv'
  <1>1. TypeOK'  BY Dequeue DEF SkipSummary, IInv, TypeOK
  <1>2. Ahead'
    <2>1. /\ pc' = "summary" /\ sim_series' = sim_series
          /\ \A i \in DOMAIN summary_data' :
               /\ i + 1 \in DOMAIN summary_data /\ summary_data'[i] = summary_data[i + 1]
               /\ i \in Nat \ {0}
      BY Dequeue DEF SkipSummary, IInv
    <2>2. QED  BY <2>1 DEF IInv, Ahead
  <1>3. QED
    BY <1>1, <1>2
       DEF SkipSummary, IInv, Reading, Claimed, FlagsTruthful, ListsTruthful, Averaged, OnlyUse,
           ConfigSeries

LEMMA NextSummaryKeeps ==
    ASSUME IInv, NextSummary
    PROVE  IInv'
  <1>1. /\ summary' \in Summary /\ summary' = summary_data[1] /\ 1 \in DOMAIN summary_data
        /\ summary'.config \in Config /\ summary'.successful \subseteq Checkpoints
    BY Dequeue, SummaryFields DEF NextSummary, IInv
  <1>2. TypeOK'  BY <1>1, Dequeue DEF NextSummary, IInv, TypeOK
  <1>3. Ahead'  BY <1>1, Dequeue DEF NextSummary, IInv, Ahead
  <1>4. sim_series[summary'.config] = {}
    BY <1>1 DEF IInv, Ahead
  <1>5. claimed'[summary'.config] = summary'.successful
    BY <1>1 DEF NextSummary, IInv, TypeOK
  <1>6. Reading'
    BY <1>1, <1>4, <1>5 DEF NextSummary, Reading
  <1>7. Claimed'
    BY <1>4 DEF NextSummary, IInv, TypeOK, Claimed
  <1>8. QED
    BY <1>2, <1>3, <1>6, <1>7
       DEF NextSummary, IInv, FlagsTruthful, ListsTruthful, Averaged

LEMMA SetFlag ==
    ASSUME NEW f \in Flags, NEW k \in Config, NEW c \in Checkpoints, NEW v \in {0, 1}
    PROVE  [f EXCEPT ![k][c] = v] \in Flags
  <1> DEFINE V == {0, 1, Unknown}
             W == [Checkpoints -> V]
  <1>1. f \in [Config -> W] /\ v \in V  BY DEF Flags
  <1> HIDE DEF V
  <1>2. [f[k] EXCEPT ![c] = v] \in W  BY <1>1
  <1> HIDE DEF W
  <1>3. [f EXCEPT ![k] = [f[k] EXCEPT ![c] = v]] \in [Config -> W]  BY <1>1, <1>2
  <1>4. QED  BY <1>3 DEF Flags, W, V

(* Taking one checkpoint off the list of those to be read, and what        *)
(* becomes of its flag.                                                    *)
Takes(c, flag) ==
    /\ c \in result_dirs /\ result_dirs' = result_dirs \ {c}
    /\ present' = [present EXCEPT ![summary.config][c] = flag]

LEMMA TakesKeeps ==
    ASSUME IInv, pc = "results", NEW c, NEW flag \in {0, 1}, Takes(c, flag),
           local' = summary.config, files' \in Nat,
           sim_series' = IF flag = 0 THEN sim_series
                         ELSE [sim_series EXCEPT ![summary.config] = @ \cup {c}],
           UNCHANGED <<pc, summary_data, summary, present_list, do_intersection, frames,
                       claimed, gone>>
    PROVE  IInv'
  <1> DEFINE k0 == summary.config
  <1>1. /\ summary \in Summary /\ k0 \in Config
        /\ c \in Checkpoints /\ c \in claimed[k0] /\ c \notin sim_series[k0]
    BY SummaryFields DEF IInv, TypeOK, Reading, Takes
  <1>2. present' \in Flags
    <2>1. present \in Flags  BY DEF IInv, TypeOK
    <2>2. [present EXCEPT ![k0][c] = flag] \in Flags  BY <1>1, <2>1, SetFlag, Zenon
    <2>3. QED  BY <2>2 DEF Takes
  <1>3. \A k \in Config : sim_series'[k] = IF flag = 1 /\ k = k0 THEN sim_series[k] \cup {c}
                                           ELSE sim_series[k]
    <2>1. sim_series \in [Config -> SUBSET Checkpoints]  BY DEF IInv, TypeOK
    <2>2. CASE flag = 0  BY <2>2
    <2>3. CASE flag = 1  BY <1>1, <2>1, <2>3
    <2>4. QED  BY <2>2, <2>3
  <1>4. sim_series' \in [Config -> SUBSET Checkpoints]
    BY <1>1 DEF IInv, TypeOK
  <1>5. TypeOK'
    BY <1>1, <1>2, <1>4 DEF IInv, TypeOK, Takes
  <1>6. \A i \in DOMAIN summary_data : summary_data[i].config \in Config
    BY SummaryFields DEF IInv, TypeOK
  <1>7. Ahead'
    BY <1>3, <1>6 DEF IInv, Ahead
  <1>8. Reading'
    BY <1>1, <1>3 DEF IInv, Reading, Takes
  <1>9. Claimed'
    BY <1>1, <1>3 DEF IInv, Claimed
  <1>10. \A k \in Config : \A d \in Checkpoints :
           present'[k][d] = IF k = k0 /\ d = c THEN flag ELSE present[k][d]
    BY <1>1 DEF IInv, TypeOK, Flags, Takes
  <1>11. FlagsTruthful'
    BY <1>1, <1>3, <1>10 DEF IInv, FlagsTruthful
  <1>12. ListsTruthful' /\ Averaged'
    BY DEF ListsTruthful, Averaged
  <1>13. QED  BY <1>5, <1>7, <1>8, <1>9, <1>11, <1>12 DEF IInv

LEMMA ResultsKeep ==
    ASSUME IInv, ResultMissing \/ ResultTorn \/ ResultRead
    PROVE  IInv'
  <1>1. PICK c : \E flag \in {0, 1} :
          /\ Takes(c, flag)
          /\ sim_series' = IF flag = 0 THEN sim_series
                           ELSE [sim_series EXCEPT ![summary.config] = @ \cup {c}]
    BY DEF ResultMissing, ResultTorn, ResultRead, Takes
  <1>2. /\ pc = "results" /\ local' = summary.config /\ files' \in Nat
        /\ UNCHANGED <<pc, summary_data, summary, present_list, do_intersection, frames,
                       claimed, gone>>
    BY DEF ResultMissing, ResultTorn, ResultRead, IInv, TypeOK
  <1>3. QED  BY <1>1, <1>2, TakesKeeps

LEMMA DirGoneKeeps ==
    ASSUME IInv, DirGone
    PROVE  IInv'
  <1>1. PICK c \in result_dirs :
          /\ result_dirs' = result_dirs \ {c}
          /\ IF local = <<>> THEN pc' = "raised" /\ UNCHANGED present
             ELSE pc' = pc /\ present' = [present EXCEPT ![local][c] = 0]
    BY DEF DirGone
  <1>2. TypeOK'
    <2>1. c \in Checkpoints  BY DEF IInv, TypeOK
    <2>2. present' \in Flags
      <3>1. present \in Flags /\ local \in Config \cup {<<>>}  BY DEF IInv, TypeOK
      <3>2. CASE local = <<>>  BY <1>1, <3>1, <3>2
      <3>3. CASE local # <<>>
        <4>1. [present EXCEPT ![local][c] = 0] \in Flags  BY <2>1, <3>1, <3>3, SetFlag, Zenon
        <4>2. QED  BY <1>1, <3>3, <4>1, Zenon
      <3>4. QED  BY <3>2, <3>3
    <2>3. QED  BY <1>1, <2>2 DEF DirGone, IInv, TypeOK
  <1>3. gone' /\ pc' \in {"results", "raised"}
    BY <1>1 DEF DirGone
  <1>4. Ahead' /\ Reading'
    BY <1>1, <1>3 DEF DirGone, IInv, Ahead, Reading
  <1>5. QED
    BY <1>2, <1>3, <1>4 DEF DirGone, IInv, Claimed, FlagsTruthful, ListsTruthful, Averaged

LEMMA PresentListKeeps ==
    ASSUME IInv, PresentList
    PROVE  IInv'
  <1> DEFINE total == summary.total_checkpoints
  <1>1. total \in Nat /\ \A i \in 1 .. total : i - 1 \in Checkpoints
    BY SummaryFields, BoundsAssumption DEF IInv, Reading, PresentList, Checkpoints
  <1> HIDE DEF total
  <1>2. \A k \in Config : FlagList(present[k], total) \in Seq({0, 1})
    BY <1>1 DEF FlagList
  <1>3. TypeOK'
    <2>1. present_list' \in [Config -> Seq({0, 1})]
      BY <1>2 DEF PresentList, total
    <2>2. QED  BY <2>1 DEF PresentList, IInv, TypeOK
  <1>4. ASSUME ~gone PROVE ListsTruthful'
    <2> SUFFICES ASSUME NEW k \in Config, NEW i \in DOMAIN present_list'[k]
                 PROVE  present_list'[k][i] = 1 <=> i - 1 \in sim_series[k]
      BY DEF PresentList, ListsTruthful
    <2>1. present_list'[k] = FlagList(present[k], total) /\ i \in 1 .. total
      <3>1. \/ present_list'[k] = <<>>
            \/ present_list'[k] = FlagList(present[k], total)
        BY DEF PresentList, total
      <3>2. DOMAIN <<>> = {}  OBVIOUS
      <3>3. present_list'[k] # <<>>  BY <3>2
      <3>4. QED  BY <3>1, <3>3, Zenon DEF FlagList
    <2>2. present_list'[k][i] = 1 <=> present[k][i - 1] = 1
      BY <2>1 DEF FlagList
    <2>3. QED  BY <1>1, <1>4, <2>1, <2>2 DEF IInv, FlagsTruthful
  <1>5. QED
    BY <1>3, <1>4
       DEF PresentList, IInv, Ahead, Reading, Claimed, FlagsTruthful, ListsTruthful, Averaged

LEMMA ConstructDataFramesKeeps ==
    ASSUME IInv, ConstructDataFrames
    PROVE  IInv'
  <1>1. \A k \in Config : k[1] \in Benchmarks /\ k[2] \in Modes /\ k = <<k[1], k[2]>>
    BY DEF Config
  <1>2. \A k \in Config : OnlyUse(k[1], k[2]) \subseteq Checkpoints
    BY <1>1, Zenon DEF OnlyUse, IInv, TypeOK
  <1>3. TypeOK'
    BY <1>2 DEF ConstructDataFrames, IInv, TypeOK
  <1>4. Averaged'
    BY Zenon DEF ConstructDataFrames, Averaged, OnlyUse, ConfigSeries
  <1>5. QED
    BY <1>3, <1>4
       DEF ConstructDataFrames, IInv, Ahead, Reading, Claimed, FlagsTruthful, ListsTruthful

LEMMA InitIInv == Init => IInv
  <1> SUFFICES ASSUME Init PROVE IInv  OBVIOUS
  <1>1. summary_data \in Seq(Summary)
    BY BoundsAssumption DEF Init
  <1>2. \A i \in DOMAIN summary_data : summary_data[i].config \in Config
    BY <1>1, SummaryFields
  <1>3. TypeOK
    <2>1. present \in Flags  BY DEF Init, NoFlags, Flags
    <2>2. present_list \in [Config -> Seq({0, 1})]  BY DEF Init, NoLists
    <2>3. QED  BY <1>1, <2>1, <2>2, Zenon DEF Init, TypeOK, NoSets
  <1>4. Ahead
    BY <1>2 DEF Init, Ahead, NoSets
  <1>5. FlagsTruthful
    BY DEF Init, FlagsTruthful, NoFlags, NoSets, Unknown
  <1>6. ListsTruthful
    BY DEF Init, ListsTruthful, NoLists
  <1>7. QED
    BY <1>3, <1>4, <1>5, <1>6 DEF Init, IInv, Reading, Claimed, Averaged, NoSets

(* IInv is inductive.                                                      *)
THEOREM IInvInvariant == Spec => []IInv
  <1>1. IInv /\ UNCHANGED vars => IInv'
    <2> SUFFICES ASSUME IInv, UNCHANGED vars PROVE IInv'  OBVIOUS
    <2>1. TypeOK'  BY DEF vars, IInv, TypeOK
    <2>2. Ahead' /\ Reading' /\ Claimed'  BY DEF vars, IInv, Ahead, Reading, Claimed
    <2>3. FlagsTruthful' /\ ListsTruthful'  BY DEF vars, IInv, FlagsTruthful, ListsTruthful
    <2>4. Averaged'  BY Zenon DEF vars, IInv, Averaged, OnlyUse, ConfigSeries
    <2>5. QED  BY <2>1, <2>2, <2>3, <2>4 DEF IInv
  <1>2. IInv /\ [Next]_vars => IInv'
    BY <1>1, SkipSummaryKeeps, NextSummaryKeeps, DirGoneKeeps, ResultsKeep, PresentListKeeps,
       ConstructDataFramesKeeps DEF Next
  <1>3. QED  BY <1>2, InitIInv, PTL DEF Spec

(* Unless all results are included, the averages of a benchmark are taken  *)
(* over the same checkpoints in every configuration that has results, all  *)
(* of them successful in each, in whatever order the files are read and    *)
(* whatever happens to them meanwhile.                                     *)
THEOREM AveragesComparable == Spec => []Comparable
  <1>1. IInv => Comparable
    <2> SUFFICES ASSUME IInv, pc = "done", do_intersection, NEW b \in Benchmarks,
                        NEW m \in ConfigSeries(b), NEW n \in ConfigSeries(b)
                 PROVE  frames[<<b, m>>] = frames[<<b, n>>]
                        /\ frames[<<b, m>>] \subseteq claimed[<<b, n>>]
      BY Zenon DEF Comparable
    <2>1. m \in Modes /\ n \in Modes /\ <<b, m>> \in Config /\ <<b, n>> \in Config
      BY DEF ConfigSeries, Config
    <2>2. frames[<<b, m>>] = OnlyUse(b, m) /\ frames[<<b, n>>] = OnlyUse(b, n)
      BY <2>1 DEF IInv, Averaged
    <2>3. OnlyUse(b, m) = OnlyUse(b, n) /\ OnlyUse(b, m) \subseteq sim_series[<<b, n>>]
      BY DEF OnlyUse
    <2>4. QED  BY <2>1, <2>2, <2>3 DEF IInv, Claimed
  <1>2. QED  BY <1>1, IInvInvariant, PTL

(* In the list of a verbatim report a checkpoint is present exactly if its *)
(* results are in the data, as long as no directory is gone.               *)
THEOREM ListsTrue == Spec => []PresentTruthful
  <1>1. IInv => PresentTruthful
    BY DEF IInv, ListsTruthful, PresentTruthful
  <1>2. QED  BY <1>1, IInvInvariant, PTL

(* Every variable stays in its domain.                                     *)
THEOREM TypeCorrect == Spec => []TypeOK
  BY IInvInvariant, PTL DEF IInv
=============================================================================
