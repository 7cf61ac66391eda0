------------------------------ MODULE Experiment ------------------------------
(***************************************************************************)
(* One simulation inside gem5 (Experiment.RunExperiment): a warm-up and a   *)
(* measured period, both run in slices of a fixed number of cycles.  The    *)
(* script learns what happened only from stats.txt, to which gem5 appends a *)
(* dump on demand (utils.StatsFile); the result is the difference of two    *)
(* dumps (Results) and goes to res.json.                                   *)
(***************************************************************************)
EXTENDS Integers, Sequences

CONSTANTS
    Warmups, Reals,     \* values of --warmup-insts and --reportable-insts
    MaxSlice,           \* most instructions that commit in one slice
    MaxTicks            \* bound: slices simulated

ASSUME OptionsAssumption == Warmups \subseteq Nat /\ Reals \subseteq Int
ASSUME BoundsAssumption == MaxSlice \in Nat \ {0} /\ MaxTicks \in Nat

VARIABLES
    pc,
    num_warmup_insts, real,     \* the options
    insts, tick, lastDump,      \* gem5: what has been simulated, tick of the last dump
    stats_txt,                  \* dumps in the statistics file
    file_size, cached,          \* StatsFile: dumps seen, the statistics of the last one
    warmup_insts_done, realInstructionsDone,
    warmup_stats, final_stats,  \* Results
    exit_cause,
    res,                        \* res.json
    mark                        \* history: the last dump before after_warmup_config

options == <<num_warmup_insts, real>>
gem5 == <<insts, tick>>
statsFile == <<lastDump, stats_txt, file_size, cached>>
vars == <<pc, options, gem5, statsFile, warmup_insts_done, realInstructionsDone, warmup_stats,
          final_stats, exit_cause, res, mark>>

(* A dump has no line for sim_insts while the count is zero.               *)
Stats == [insts : 0 .. MaxSlice * MaxTicks, ticks : 0 .. MaxTicks]
Empty == [insts |-> 0, ticks |-> -1]
NaN == [insts |-> -1, ticks |-> -1]

Init ==
    /\ pc = "instantiate"
    /\ num_warmup_insts \in Warmups /\ real \in Reals
    /\ insts = 0 /\ tick = 0 /\ lastDump = 0
    /\ stats_txt = <<>> /\ file_size = 0 /\ cached = Empty
    /\ warmup_insts_done = 0 /\ realInstructionsDone = 0
    /\ warmup_stats = Empty /\ final_stats = Empty
    /\ exit_cause = "none" /\ mark = Empty
    /\ res \in {"none", "old"}

(* The launcher raises if the checkpoint has no mappings.json.  gem5 opens  *)
(* stats.txt anew in the output directory; res.json is left as it is.      *)
Instantiate ==
    /\ pc = "instantiate" /\ pc' \in {"warmup", "exit"}
    /\ stats_txt' = <<>>
    /\ UNCHANGED <<options, gem5, lastDump, file_size, cached, warmup_insts_done,
                   realInstructionsDone, warmup_stats, final_stats, exit_cause, res, mark>>

(* A slice ends at its limit, or earlier for a reason of the program's.     *)
Simulate ==
    /\ tick < MaxTicks
    /\ \/ /\ exit_cause' = "limit" /\ tick' = tick + 1
          /\ \E n \in 0 .. MaxSlice : insts' = insts + n
       \/ /\ exit_cause' = "other" /\ tick' = tick + 1
          /\ \E n \in 0 .. MaxSlice : insts' = insts + n
       \/ exit_cause' = "other" /\ UNCHANGED gem5

(* m5.stats.dump: nothing happens twice at the same tick.                  *)
Dump ==
    /\ lastDump' = tick'
    /\ stats_txt' = IF tick' = lastDump THEN stats_txt
                    ELSE Append(stats_txt, [insts |-> insts', ticks |-> tick'])

(* Mutant: without news the caller gets nothing.                           *)
GetCurrentStatsUncached ==
    /\ Dump
    /\ file_size' = Len(stats_txt')
    /\ cached' = IF Len(stats_txt') = file_size THEN Empty ELSE stats_txt'[Len(stats_txt')]

(* If the file has not grown the cached statistics are returned, otherwise  *)
(* the lines from the old end on are read, the last dump winning.          *)
GetCurrentStats ==
    /\ Dump
    /\ file_size' = Len(stats_txt')
    /\ cached' = IF Len(stats_txt') = file_size THEN cached ELSE stats_txt'[Len(stats_txt')]

(* stats['sim_insts'] raises KeyError if nothing has committed.            *)
WarmupSlice ==
    /\ pc = "warmup" /\ warmup_insts_done < num_warmup_insts
    /\ Simulate /\ GetCurrentStats
    /\ warmup_insts_done' = cached'.insts
    /\ pc' = IF cached'.insts = 0 THEN "shell"
             ELSE IF exit_cause' = "other" THEN "cleanup" ELSE "warmup"
    /\ UNCHANGED <<options, realInstructionsDone, warmup_stats, final_stats, res, mark>>

(* The hook after_warmup_config of the flag configuration may raise.       *)
GetWarmupStats ==
    /\ pc = "warmup" /\ warmup_insts_done >= num_warmup_insts
    /\ UNCHANGED gem5 /\ GetCurrentStats
    /\ warmup_stats' = cached'
    /\ mark' = [insts |-> insts, ticks |-> tick]
    /\ pc' \in {"real", "shell"}
    /\ UNCHANGED <<options, warmup_insts_done, realInstructionsDone, final_stats, exit_cause, res>>

(* Mutant: the instructions of the warm-up count as measured.              *)
RealInstsOfAll == cached'.insts

RealInsts == cached'.insts - warmup_insts_done

RealSlice ==
    /\ pc = "real" /\ (realInstructionsDone < real \/ real < 0)
    /\ Simulate /\ GetCurrentStats
    /\ realInstructionsDone' = RealInsts
    /\ pc' = IF cached'.insts = 0 THEN "shell"
             ELSE IF exit_cause' = "other" THEN "final" ELSE "real"
    /\ UNCHANGED <<options, warmup_insts_done, warmup_stats, final_stats, res, mark>>

LeaveReal ==
    /\ pc = "real" /\ real >= 0 /\ realInstructionsDone >= real
    /\ pc' = "final"
    /\ UNCHANGED <<options, gem5, statsFile, warmup_insts_done, realInstructionsDone,
                   warmup_stats, final_stats, exit_cause, res, mark>>

(* Mutant: the warm-up is not subtracted.                                  *)
MinusNothing(run, warmup) == run

(* A statistic that only one of two dumps has becomes NaN.                 *)
Minus(run, warmup) ==
    IF warmup = Empty THEN NaN
    ELSE [insts |-> run.insts - warmup.insts, ticks |-> run.ticks - warmup.ticks]

(* The assertion on an empty dump and the divisions by the instructions and *)
(* the cycles may raise.                                                   *)
GetFinalStats ==
    /\ pc = "final"
    /\ UNCHANGED gem5 /\ GetCurrentStats
    /\ LET diff == Minus(cached', warmup_stats)
       IN IF cached' = Empty \/ diff.insts = 0 \/ diff.ticks = 0
          THEN pc' = "shell" /\ UNCHANGED final_stats
          ELSE pc' = "open" /\ final_stats' = diff
    /\ UNCHANGED <<options, warmup_insts_done, realInstructionsDone, warmup_stats, exit_cause,
                   res, mark>>

OpenRes ==
    /\ pc = "open" /\ pc' = "write" /\ res' = "torn"
    /\ UNCHANGED <<options, gem5, statsFile, warmup_insts_done, realInstructionsDone,
                   warmup_stats, final_stats, exit_cause, mark>>

WriteRes ==
    /\ pc = "write" /\ pc' = "cleanup" /\ res' = "new"
    /\ UNCHANGED <<options, gem5, statsFile, warmup_insts_done, realInstructionsDone,
                   warmup_stats, final_stats, exit_cause, mark>>

(* An exception has opened an interactive shell, which the user leaves.     *)
LeaveShell ==
    /\ pc = "shell" /\ pc' = "cleanup"
    /\ UNCHANGED <<options, gem5, statsFile, warmup_insts_done, realInstructionsDone,
                   warmup_stats, final_stats, exit_cause, res, mark>>

(* stats.txt goes away with the StatsFile object.                          *)
Cleanup ==
    /\ pc = "cleanup" /\ pc' = "exit"
    /\ stats_txt' = <<>>
    /\ UNCHANGED <<options, gem5, lastDump, file_size, cached, warmup_insts_done,
                   realInstructionsDone, warmup_stats, final_stats, exit_cause, res, mark>>

Killed ==
    /\ pc \notin {"exit", "killed"} /\ pc' = "killed"
    /\ UNCHANGED <<options, gem5, statsFile, warmup_insts_done, realInstructionsDone,
                   warmup_stats, final_stats, exit_cause, res, mark>>

Next ==
    \/ Instantiate \/ WarmupSlice \/ GetWarmupStats \/ RealSlice \/ LeaveReal
    \/ GetFinalStats \/ OpenRes \/ WriteRes \/ LeaveShell \/ Cleanup \/ Killed

Spec == Init /\ [][Next]_vars

-----------------------------------------------------------------------------
(* Every variable stays in its domain.                                     *)
TypeOK ==
    /\ pc \in {"instantiate", "warmup", "real", "final", "open", "write", "shell", "cleanup",
               "exit", "killed"}
    /\ num_warmup_insts \in Warmups /\ real \in Reals
    /\ [insts |-> insts, ticks |-> tick] \in Stats /\ lastDump \in 0 .. MaxTicks
    /\ stats_txt \in Seq(Stats) /\ file_size \in 0 .. MaxTicks
    /\ {cached, warmup_stats, mark} \subseteq Stats \cup {Empty}
    /\ final_stats \in Stats \cup {Empty, NaN}
    /\ warmup_insts_done \in Nat /\ realInstructionsDone \in Nat
    /\ exit_cause \in {"none", "limit", "other"} /\ res \in {"none", "old", "torn", "new"}

(* A real simulation period "generates the reported statistics": what       *)
(* res.json holds is exactly what was simulated from after_warmup_config to *)
(* the end, although every number went through stats.txt and the cache of   *)
(* StatsFile, and the warm-up was as long as asked for.                    *)
SampleIsWindow ==
    res = "new" => /\ final_stats = [insts |-> insts - mark.insts, ticks |-> tick - mark.ticks]
                   /\ mark.insts >= num_warmup_insts

(* The measured period is as long as asked for and exceeds it by less than  *)
(* a slice; it is shorter, or unlimited, only up to the program's end.      *)
SampleSize ==
    res = "new" => /\ exit_cause = "limit" => real >= 0 /\ final_stats.insts >= real
                   /\ real >= 0 => final_stats.insts < real + MaxSlice

(* A simulation that measured something and was not killed reports it; one  *)
(* that measured nothing leaves the res.json of an earlier run untouched.   *)
MeasuredIsReported ==
    pc = "exit" => IF mark # Empty /\ insts > mark.insts THEN res = "new"
                   ELSE res \in {"none", "old"}
=============================================================================
