--------------------------- MODULE ExperimentProofs ---------------------------
(***************************************************************************)
(* What a simulation reports, for every length of the warm-up (at least    *)
(* one instruction) and of the measured period, every slice length and any *)
(* number of slices.  Without a warm-up the difference of the two dumps is *)
(* not a number: see Minus.                                                *)
(***************************************************************************)
EXTENDS Experiment, SequenceTheorems, TLAPS

(* A dump that has been taken; Empty is not one.                           *)
Taken == [insts : Nat, ticks : Nat]
Now == [insts |-> insts, ticks |-> tick]

Typed ==
    /\ num_warmup_insts \in Warmups /\ real \in Reals
    /\ insts \in Nat /\ tick \in Nat
    /\ pc \in {"instantiate", "warmup", "real", "final", "open", "write", "shell", "cleanup",
               "exit", "killed"}

(* What StatsFile holds is the present state of gem5: nothing can commit   *)
(* at a tick whose dump exists.                                            *)
Fresh ==
    /\ stats_txt \in Seq(Taken) /\ file_size = Len(stats_txt) /\ lastDump = tick
    /\ cached = IF tick = 0 THEN Empty ELSE Now
    /\ tick = 0 => insts = 0

Unstarted ==
    /\ tick = 0 /\ insts = 0 /\ lastDump = 0 /\ file_size = 0 /\ cached = Empty
    /\ warmup_insts_done = 0 /\ realInstructionsDone = 0

(* The end of the warm-up lies behind, with the measured period after it.  *)
Marked ==
    /\ mark \in Taken /\ mark.insts >= num_warmup_insts
    /\ mark.ticks <= tick /\ mark.insts <= insts
    /\ mark.ticks = tick => mark.insts = insts
    /\ real >= 0 => insts - mark.insts < real + MaxSlice

Measuring ==
    /\ Marked /\ Fresh
    /\ warmup_stats = mark /\ warmup_insts_done = mark.insts
    /\ realInstructionsDone = insts - mark.insts

LimitReached == exit_cause = "limit" => real >= 0 /\ insts - mark.insts >= real

Sampled ==
    /\ Marked /\ LimitReached
    /\ final_stats = [insts |-> insts - mark.insts, ticks |-> tick - mark.ticks]
    /\ insts > mark.insts

Nothing == mark = Empty \/ insts = mark.insts

(* Where the script is determines what it has measured and reported.       *)
Phase ==
    /\ pc = "instantiate" => Unstarted
    /\ pc = "warmup" => Fresh /\ warmup_insts_done = insts /\ realInstructionsDone = 0
    /\ pc \in {"instantiate", "warmup"} => mark = Empty
    /\ pc \in {"real", "final"} => Measuring
    /\ pc = "final" => LimitReached
    /\ pc \in {"open", "write"} => Sampled
    /\ pc = "write" => res = "torn"
    /\ pc = "shell" => Nothing
    /\ pc \notin {"write", "cleanup", "exit", "killed"} => res \in {"none", "old"}
    /\ pc \in {"cleanup", "exit"} => res = "new" \/ (res \in {"none", "old"} /\ Nothing)
    /\ res = "new" => Sampled

IInv == Typed /\ Phase

-----------------------------------------------------------------------------
(* The warm-up is at least one instruction long.                           *)
WarmedUp == 0 \notin Warmups

(* Asking for the statistics keeps them fresh.                             *)
LEMMA StatsFresh ==
    ASSUME Typed, Fresh, GetCurrentStats, insts' \in Nat, tick' \in Nat,
           tick' >= tick, tick' = tick => insts' = insts
    PROVE  Fresh'
  <1> DEFINE d == [insts |-> insts', ticks |-> tick']
  <1>1. d \in Taken  BY DEF Taken
  <1>2. CASE tick' = tick
    BY <1>2 DEF Typed, Fresh, GetCurrentStats, Dump, Now
  <1>3. CASE tick' # tick
    <2>1. stats_txt' = Append(stats_txt, d) /\ lastDump' = tick'
      BY <1>3 DEF Fresh, GetCurrentStats, Dump
    <2>2. /\ stats_txt' \in Seq(Taken) /\ Len(stats_txt') = Len(stats_txt) + 1
          /\ stats_txt'[Len(stats_txt')] = d
      BY <1>1, <2>1, AppendProperties DEF Fresh
    <2>3. file_size' = Len(stats_txt') /\ cached' = d
      BY <2>2 DEF Fresh, GetCurrentStats
    <2>4. tick' # 0  BY <1>3 DEF Typed
    <2>5. QED  BY <2>1, <2>2, <2>3, <2>4 DEF Fresh, Now
  <1>4. QED  BY <1>2, <1>3

(* A slice commits at most MaxSlice instructions, in no tick none.         *)
LEMMA Slice ==
    ASSUME Typed, Simulate
    PROVE  /\ insts' \in Nat /\ tick' \in Nat /\ tick' >= tick
           /\ tick' = tick => insts' = insts
           /\ insts <= insts' /\ insts' <= insts + MaxSlice
           /\ exit_cause' \in {"limit", "other"}
  BY BoundsAssumption DEF Typed, Simulate, gem5

-----------------------------------------------------------------------------
LEMMA WarmupSliceKeeps ==
    ASSUME WarmedUp, IInv, WarmupSlice
    PROVE  IInv'
  <1>1. Typed' /\ Fresh'
    BY Slice, StatsFresh DEF IInv, Typed, Phase, WarmupSlice, options
  <1>2. cached'.insts = insts'
    BY <1>1 DEF Fresh, Empty, Now
  <1>3. /\ warmup_insts_done' = insts' /\ realInstructionsDone' = 0 /\ mark' = Empty
        /\ res' \in {"none", "old"} /\ pc' \in {"shell", "cleanup", "warmup"}
    BY <1>2 DEF IInv, Phase, WarmupSlice
  <1>4. QED  BY <1>1, <1>3 DEF IInv, Phase, Nothing

LEMMA GetWarmupStatsKeeps ==
    ASSUME WarmedUp, IInv, GetWarmupStats
    PROVE  IInv'
  <1>1. Typed' /\ Fresh' /\ insts' = insts /\ tick' = tick
    BY StatsFresh DEF IInv, Typed, Phase, GetWarmupStats, options, gem5
  <1>2. insts >= num_warmup_insts /\ num_warmup_insts \in Nat \ {0}
    BY OptionsAssumption DEF WarmedUp, IInv, Typed, Phase, GetWarmupStats
  <1>3. tick # 0 /\ cached' = Now
    BY <1>1, <1>2 DEF IInv, Typed, Fresh, Now
  <1>4. mark' = Now /\ warmup_stats' = mark' /\ warmup_insts_done' = insts
    BY <1>3 DEF IInv, Phase, GetWarmupStats, Now
  <1>5. Marked'
    BY <1>1, <1>2, <1>4, OptionsAssumption, BoundsAssumption
       DEF Marked, Now, Taken, IInv, Typed, GetWarmupStats, options
  <1>6. Measuring' /\ Nothing'
    BY <1>1, <1>4, <1>5 DEF Measuring, Nothing, Now, IInv, Typed, Phase, GetWarmupStats
  <1>7. res' \in {"none", "old"} /\ pc' \in {"real", "shell"}
    BY DEF IInv, Phase, GetWarmupStats
  <1>8. QED  BY <1>1, <1>6, <1>7 DEF IInv, Phase

LEMMA RealSliceKeeps ==
    ASSUME WarmedUp, IInv, RealSlice
    PROVE  IInv'
  <1>1. Typed' /\ Fresh'
    BY Slice, StatsFresh DEF IInv, Typed, Phase, Measuring, RealSlice, options
  <1>2. mark \in Taken /\ mark.insts \in Nat \ {0} /\ mark.ticks \in Nat
    BY OptionsAssumption DEF WarmedUp, IInv, Typed, Phase, Measuring, Marked, RealSlice, Taken
  <1>3. /\ insts <= insts' /\ insts' <= insts + MaxSlice /\ tick <= tick'
        /\ tick' = tick => insts' = insts
        /\ exit_cause' \in {"limit", "other"}
    BY Slice DEF IInv, RealSlice
  <1>4. insts' # 0 /\ cached'.insts = insts'
    BY <1>1, <1>2, <1>3 DEF IInv, Typed, Phase, Measuring, Marked, RealSlice, Fresh, Now, Empty
  <1>5. Marked'
    BY <1>1, <1>2, <1>3, OptionsAssumption, BoundsAssumption
       DEF Marked, IInv, Typed, Phase, Measuring, RealSlice, options
  <1>6. Measuring'
    BY <1>1, <1>4, <1>5 DEF Measuring, IInv, Phase, RealSlice, RealInsts
  <1>7. /\ res' \in {"none", "old"} /\ pc' \in {"real", "final"}
        /\ pc' = "final" => exit_cause' = "other"
    BY <1>3, <1>4 DEF IInv, Phase, RealSlice
  <1>8. QED  BY <1>1, <1>6, <1>7 DEF IInv, Phase, LimitReached

LEMMA LeaveRealKeeps ==
    ASSUME IInv, LeaveReal
    PROVE  IInv'
  <1> USE DEF LeaveReal, options, gem5, statsFile
  <1>1. Typed' /\ Measuring'
    BY DEF IInv, Typed, Phase, Measuring, Marked, Fresh, Now
  <1>2. LimitReached'
    BY DEF IInv, Typed, Phase, Measuring, LimitReached
  <1>3. QED  BY <1>1, <1>2 DEF IInv, Phase

LEMMA GetFinalStatsKeeps ==
    ASSUME WarmedUp, IInv, GetFinalStats
    PROVE  IInv'
  <1>1. Typed' /\ Fresh' /\ insts' = insts /\ tick' = tick
    BY StatsFresh DEF IInv, Typed, Phase, Measuring, GetFinalStats, options, gem5
  <1>2. mark \in Taken /\ mark.insts \in Nat \ {0} /\ mark.ticks \in Nat
    BY OptionsAssumption DEF WarmedUp, IInv, Typed, Phase, Measuring, Marked, GetFinalStats, Taken
  <1>3. cached' = Now /\ cached' # Empty
    BY <1>1, <1>2 DEF IInv, Typed, Phase, Measuring, Marked, GetFinalStats, Fresh, Now, Empty
  <1>4. Minus(cached', warmup_stats)
            = [insts |-> insts - mark.insts, ticks |-> tick - mark.ticks]
    <2>1. warmup_stats = mark /\ mark # Empty
      BY <1>2 DEF IInv, Phase, Measuring, GetFinalStats, Empty, Taken
    <2>2. QED  BY <1>3, <2>1 DEF Minus, Now
  <1>5. Marked' /\ LimitReached'
    BY <1>1 DEF IInv, Phase, Measuring, Marked, LimitReached, GetFinalStats, options
  <1>6. res' \in {"none", "old"}
    BY DEF IInv, Phase, GetFinalStats
  <1>7. CASE insts - mark.insts = 0 \/ tick - mark.ticks = 0
    <2>1. Nothing' /\ pc' = "shell"
      BY <1>1, <1>2, <1>4, <1>7
         DEF IInv, Typed, Phase, Measuring, Marked, Nothing, GetFinalStats
    <2>2. QED  BY <1>1, <1>6, <2>1 DEF IInv, Phase
  <1>8. CASE insts - mark.insts # 0 /\ tick - mark.ticks # 0
    <2>1. /\ pc' = "open"
          /\ final_stats' = [insts |-> insts - mark.insts, ticks |-> tick - mark.ticks]
      BY <1>3, <1>4, <1>8 DEF GetFinalStats
    <2>2. insts > mark.insts
      BY <1>2, <1>8 DEF IInv, Typed, Phase, Measuring, Marked, GetFinalStats
    <2>3. Sampled'
      BY <1>1, <1>5, <2>1, <2>2 DEF Sampled, GetFinalStats
    <2>4. QED  BY <1>1, <1>6, <2>1, <2>3 DEF IInv, Phase
  <1>9. QED  BY <1>7, <1>8

(* The steps that neither simulate nor ask for statistics.                 *)
LEMMA OthersKeep ==
    ASSUME WarmedUp, IInv,
           \/ Instantiate \/ OpenRes \/ WriteRes \/ LeaveShell \/ Cleanup \/ Killed
           \/ UNCHANGED vars
    PROVE  IInv'
  <1> DEFINE Same == UNCHANGED <<options, gem5, exit_cause, final_stats, mark>>
  <1>1. Same
    BY DEF Instantiate, OpenRes, WriteRes, LeaveShell, Cleanup, Killed, vars
  <1>2. /\ num_warmup_insts' = num_warmup_insts /\ real' = real /\ insts' = insts /\ tick' = tick
        /\ exit_cause' = exit_cause /\ final_stats' = final_stats /\ mark' = mark
    BY <1>1 DEF options, gem5
  <1>3. Sampled' = Sampled /\ Nothing' = Nothing
    BY <1>2 DEF Sampled, Marked, LimitReached, Nothing
  <1>4. Typed'
    BY <1>2 DEF IInv, Typed, Instantiate, OpenRes, WriteRes, LeaveShell, Cleanup, Killed, vars
  <1>5. CASE Instantiate
    <2>1. pc' = "warmup" => Fresh'
      BY <1>2, <1>5, EmptySeq DEF Instantiate, IInv, Phase, Unstarted, Fresh
    <2>2. QED  BY <1>2, <1>3, <1>4, <1>5, <2>1
                  DEF Instantiate, IInv, Phase, Unstarted, Nothing
  <1>6. CASE OpenRes
    BY <1>3, <1>4, <1>6 DEF OpenRes, IInv, Phase
  <1>7. CASE WriteRes
    BY <1>3, <1>4, <1>7 DEF WriteRes, IInv, Phase
  <1>8. CASE LeaveShell \/ Cleanup \/ Killed
    BY <1>3, <1>4, <1>8 DEF LeaveShell, Cleanup, Killed, IInv, Phase
  <1>9. CASE UNCHANGED vars
    BY <1>3, <1>4, <1>9
       DEF vars, options, gem5, statsFile, IInv, Phase, Unstarted, Fresh, Measuring, Marked,
           LimitReached, Now
  <1>10. QED  BY <1>5, <1>6, <1>7, <1>8, <1>9

LEMMA InitIInv == Init => IInv
  BY OptionsAssumption DEF Init, IInv, Typed, Phase, Unstarted

(* IInv is inductive.                                                      *)
THEOREM IInvInvariant ==
    ASSUME WarmedUp
    PROVE  Spec => []IInv
  <1>1. IInv /\ [Next]_vars => IInv'
    BY WarmupSliceKeeps, GetWarmupStatsKeeps, RealSliceKeeps, LeaveRealKeeps, GetFinalStatsKeeps,
       OthersKeep DEF Next
  <1>2. QED  BY <1>1, InitIInv, PTL DEF Spec

(* The statistics in res.json are those of exactly the instructions and    *)
(* ticks simulated after the warm-up, whatever the cache of StatsFile did. *)
THEOREM ReportsTheWindow ==
    ASSUME WarmedUp
    PROVE  Spec => []SampleIsWindow
  <1>1. IInv => SampleIsWindow
    BY DEF IInv, Phase, Sampled, Marked, SampleIsWindow
  <1>2. QED  BY <1>1, IInvInvariant, PTL

(* The measured period has the length that was asked for, to within one    *)
(* slice, unless the program ended.                                        *)
THEOREM ReportsTheLength ==
    ASSUME WarmedUp
    PROVE  Spec => []SampleSize
  <1>1. IInv => SampleSize
    BY DEF IInv, Phase, Sampled, Marked, LimitReached, SampleSize
  <1>2. QED  BY <1>1, IInvInvariant, PTL

(* What was measured is reported, and a run that measured nothing leaves   *)
(* an earlier res.json alone.                                              *)
THEOREM ReportsWhatWasMeasured ==
    ASSUME WarmedUp
    PROVE  Spec => []MeasuredIsReported
  <1>1. IInv => MeasuredIsReported
    BY DEF IInv, Typed, Phase, Sampled, Marked, Nothing, Taken, Empty, MeasuredIsReported
  <1>2. QED  BY <1>1, IInvInvariant, PTL
=============================================================================
