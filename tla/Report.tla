-------------------------------- MODULE Report --------------------------------
(***************************************************************************)
(* report process (Report.__init__, _construct_data_frames): the summaries  *)
(* of the simulations are read one after the other, then the res.json of    *)
(* every checkpoint that a summary calls successful, and per benchmark and  *)
(* configuration the statistics of a set of checkpoints are averaged.       *)
(* Simulations may be going on, so what a result file holds is only known   *)
(* when it is read.                                                        *)
(***************************************************************************)
EXTENDS Naturals, Sequences, FiniteSets

CONSTANTS
    Benchmarks, Modes,
    MaxCheckpoints,     \* bound: checkpoints per benchmark
    MaxSummaries        \* bound: summary files

ASSUME BoundsAssumption == {MaxCheckpoints, MaxSummaries} \subseteq Nat

VARIABLES
    pc,
    summary_data,       \* summaries still to be looked at
    summary, result_dirs,   \* the current one, and its checkpoints to be read
    local,              \* the variables benchmark and mode of __init__, <<>> when unbound
    present, present_list,
    sim_series,         \* checkpoints whose results have been read
    files,              \* number of result files seen
    do_intersection,
    frames,             \* checkpoints that each average is made of
    claimed,            \* history: checkpoints a summary calls successful
    gone                \* history: a directory of a successful checkpoint was gone

vars == <<pc, summary_data, summary, result_dirs, local, present, present_list, sim_series,
          files, do_intersection, frames, claimed, gone>>

Checkpoints == 0 .. MaxCheckpoints - 1
Config == Benchmarks \X Modes
Unknown == 2        \* not a key of the dictionary
Flags == [Config -> [Checkpoints -> {0, 1, Unknown}]]
NoFlags == [k \in Config |-> [c \in Checkpoints |-> Unknown]]
NoSets == [k \in Config |-> {}]
NoLists == [k \in Config |-> <<>>]

(* "checkpoints" is missing if the simulation was terminated early.        *)
Summary == {s \in [config : Config, finished : BOOLEAN, successful : SUBSET Checkpoints,
                   total_checkpoints : 0 .. MaxCheckpoints] :
              \A c \in s.successful : c < s.total_checkpoints}
NoSummary == [config |-> <<>>]

Init ==
    /\ pc = "summary" /\ do_intersection \in BOOLEAN
    /\ \E n \in 0 .. MaxSummaries : summary_data \in [1 .. n -> Summary]
    /\ \A i, j \in DOMAIN summary_data :
         summary_data[i].config = summary_data[j].config => i = j
    /\ summary = NoSummary /\ result_dirs = {} /\ local = <<>>
    /\ present = NoFlags /\ present_list = NoLists
    /\ sim_series = NoSets /\ frames = NoSets /\ claimed = NoSets /\ files = 0
    /\ gone = FALSE

SkipSummary ==
    /\ pc = "summary" /\ summary_data # <<>> /\ ~Head(summary_data).finished
    /\ summary_data' = Tail(summary_data)
    /\ UNCHANGED <<pc, summary, result_dirs, local, present, present_list, sim_series, files,
                   do_intersection, frames, claimed, gone>>

NextSummary ==
    /\ pc = "summary" /\ summary_data # <<>> /\ Head(summary_data).finished
    /\ summary' = Head(summary_data) /\ summary_data' = Tail(summary_data)
    /\ result_dirs' = summary'.successful
    /\ claimed' = [claimed EXCEPT ![summary'.config] = summary'.successful]
    /\ pc' = "results"
    /\ UNCHANGED <<local, present, present_list, sim_series, files, do_intersection, frames,
                   gone>>

(* The directory is gone: the flag of whichever configuration benchmark and *)
(* mode still name is cleared; before the first one the names are unbound.  *)
DirGone ==
    /\ pc = "results" /\ gone' = TRUE
    /\ \E c \in result_dirs :
         /\ result_dirs' = result_dirs \ {c}
         /\ IF local = <<>> THEN pc' = "raised" /\ UNCHANGED present
            ELSE pc' = pc /\ present' = [present EXCEPT ![local][c] = 0]
    /\ UNCHANGED <<summary_data, summary, local, present_list, sim_series, files,
                   do_intersection, frames, claimed>>

ResultMissing ==
    /\ pc = "results"
    /\ \E c \in result_dirs :
         /\ result_dirs' = result_dirs \ {c}
         /\ present' = [present EXCEPT ![summary.config][c] = 0]
    /\ local' = summary.config
    /\ UNCHANGED <<pc, summary_data, summary, present_list, sim_series, files,
                   do_intersection, frames, claimed, gone>>

(* Mutant: the flag is left as it was set before the file was parsed.      *)
ResultTornKept ==
    /\ pc = "results"
    /\ \E c \in result_dirs :
         /\ result_dirs' = result_dirs \ {c}
         /\ present' = [present EXCEPT ![summary.config][c] = 1]
    /\ local' = summary.config /\ files' = files + 1
    /\ UNCHANGED <<pc, summary_data, summary, present_list, sim_series, do_intersection,
                   frames, claimed, gone>>

(* res.json exists but is not valid JSON.                                  *)
ResultTorn ==
    /\ pc = "results"
    /\ \E c \in result_dirs :
         /\ result_dirs' = result_dirs \ {c}
         /\ present' = [present EXCEPT ![summary.config][c] = 0]
    /\ local' = summary.config /\ files' = files + 1
    /\ UNCHANGED <<pc, summary_data, summary, present_list, sim_series, do_intersection,
                   frames, claimed, gone>>

ResultRead ==
    /\ pc = "results"
    /\ \E c \in result_dirs :
         /\ result_dirs' = result_dirs \ {c}
         /\ present' = [present EXCEPT ![summary.config][c] = 1]
         /\ sim_series' = [sim_series EXCEPT ![summary.config] = @ \cup {c}]
    /\ local' = summary.config /\ files' = files + 1
    /\ UNCHANGED <<pc, summary_data, summary, present_list, do_intersection, frames,
                   claimed, gone>>

FlagList(flags, total) == [i \in 1 .. total |-> IF flags[i - 1] = 1 THEN 1 ELSE 0]

(* The lists of all configurations are made anew after each summary, with   *)
(* the number of checkpoints of that summary.                              *)
PresentList ==
    /\ pc = "results" /\ result_dirs = {} /\ pc' = "summary"
    /\ present_list' = [k \in Config |->
          IF \A c \in Checkpoints : present[k][c] = Unknown THEN <<>>
          ELSE FlagList(present[k], summary.total_checkpoints)]
    /\ UNCHANGED <<summary_data, summary, result_dirs, local, present, sim_series, files,
                   do_intersection, frames, claimed, gone>>

(* The configurations of a benchmark that have results.                    *)
ConfigSeries(b) == {m \in Modes : sim_series[<<b, m>>] # {}}

(* Mutant: every configuration is averaged over its own checkpoints.       *)
OnlyUseOwn(b, m) == sim_series[<<b, m>>]

OnlyUse(b, m) ==
    IF do_intersection
    THEN {c \in sim_series[<<b, m>>] : \A n \in ConfigSeries(b) : c \in sim_series[<<b, n>>]}
    ELSE sim_series[<<b, m>>]

(* Without any result file, or if a statistic is missing, the report fails. *)
ConstructDataFrames ==
    /\ pc = "summary" /\ summary_data = <<>>
    /\ \/ /\ files > 0 /\ pc' = "done"
          /\ frames' = [k \in Config |-> OnlyUse(k[1], k[2])]
       \/ pc' = "raised" /\ UNCHANGED frames
    /\ UNCHANGED <<summary_data, summary, result_dirs, local, present, present_list, sim_series,
                   files, do_intersection, claimed, gone>>

Next ==
    \/ SkipSummary \/ NextSummary \/ DirGone \/ ResultMissing \/ ResultTorn \/ ResultRead
    \/ PresentList \/ ConstructDataFrames

Spec == Init /\ [][Next]_vars

-----------------------------------------------------------------------------
(* Every variable stays in its domain.                                     *)
TypeOK ==
    /\ pc \in {"summary", "results", "done", "raised"}
    /\ do_intersection \in BOOLEAN /\ gone \in BOOLEAN
    /\ summary_data \in Seq(Summary) /\ summary \in Summary \cup {NoSummary}
    /\ result_dirs \subseteq Checkpoints /\ local \in Config \cup {<<>>}
    /\ present \in Flags /\ present_list \in [Config -> Seq({0, 1})] /\ files \in Nat
    /\ sim_series \in [Config -> SUBSET Checkpoints]
    /\ frames \in [Config -> SUBSET Checkpoints] /\ claimed \in [Config -> SUBSET Checkpoints]

(* Configurations are compared "across matching subsets of checkpoints":    *)
(* unless all results are included, the averages of a benchmark are taken   *)
(* over the same checkpoints for every configuration that has results, and  *)
(* only over checkpoints whose simulation was successful in it, although    *)
(* result files appear, tear and vanish while they are read.               *)
Comparable ==
    pc = "done" /\ do_intersection =>
      \A b \in Benchmarks : \A m, n \in ConfigSeries(b) :
        frames[<<b, m>>] = frames[<<b, n>>] /\ frames[<<b, m>>] \subseteq claimed[<<b, n>>]

(* In the list of checkpoints of a verbatim report a checkpoint is present  *)
(* exactly if its results are in the data, as long as no directory of a     *)
(* successful checkpoint is gone.                                          *)
PresentTruthful ==
    pc = "done" /\ ~gone =>
      \A k \in Config : \A i \in DOMAIN present_list[k] :
        present_list[k][i] = 1 <=> i - 1 \in sim_series[k]
=============================================================================
