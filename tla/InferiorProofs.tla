--------------------------- MODULE InferiorProofs ---------------------------
(***************************************************************************)
(* What the engine does to its inferior.  It asks it for brk and fs_base   *)
(* (InjectedProbe): proved for every number of engines that run one after  *)
(* the other, of runs, checkpoints and deaths.  It interrupts it at        *)
(* intervals (IntervalTimer): proved for every interval and max_iter.  It   *)
(* writes its registers for gem5 to read (RegisterLayout): proved for       *)
(* every choice of the register files.                                     *)
(***************************************************************************)
EXTENDS InjectedProbe, IntervalTimer, RegisterLayout, SequenceTheorems, TLAPS

(* One engine runs at a time.                                              *)
Serial == \A e, f \in Engines : at[e] # "off" /\ at[f] # "off" => e = f

(* The file of the brk value holds this engine's value and no other between *)
(* the injected call and the reading.                                      *)
FreshBrk ==
    \A e \in Engines :
        /\ at[e] = "brk_inject" => sbrk_txt = Absent
        /\ at[e] = "brk_read" => sbrk_txt = <<Brk(e)>>

(* A file that an engine may still find, or a first value that is not the  *)
(* run's own, was paid for by a death that has not spoilt a run yet.       *)
InFs(e) == at[e] \in {"fs_inject", "fs_read", "fs_unlink"}
Paid ==
    /\ fs_base_txt # Absent /\ (\A e \in Engines : ~InFs(e)) => wrong < kills
    /\ \A e \in Engines :
        /\ at[e] = "fs_inject" /\ fs_base_txt # Absent => wrong < kills
        /\ at[e] = "fs_read" =>
              fs_base_txt # Absent /\ (Head(fs_base_txt) = FsBase(e) \/ wrong < kills)

ProbeIInv == ProbeTypeOK /\ Serial /\ FreshBrk /\ OwnBrk /\ Paid /\ OneWrongRunPerKill

-----------------------------------------------------------------------------
(* What is written to a file or read from one is a value.                  *)
LEMMA Values ==
    ASSUME ProbeTypeOK
    PROVE  /\ Absent \in Seq(Value) /\ Zero \in Value
           /\ \A e \in Engines : FsBase(e) \in Value /\ Brk(e) \in Value
           /\ \A txt \in Seq(Value) : FirstOf(txt) \in Value
  <1>1. Zero \in Value  BY ProbeBoundsAssumption DEF Value, Zero
  <1>2. \A e \in Engines : FsBase(e) \in Value /\ Brk(e) \in Value
    BY ProbeBoundsAssumption DEF ProbeTypeOK, Value, FsBase, Brk
  <1>3. QED  BY <1>1, <1>2 DEF FirstOf, Absent

LEMMA TypeKept ==
    ASSUME ProbeTypeOK, [ProbeNext]_probeVars
    PROVE  ProbeTypeOK'
  <1> USE Values, ProbeBoundsAssumption DEF ProbeTypeOK
  <1>1. CASE UNCHANGED probeVars  BY <1>1 DEF probeVars, probe
  <1>2. ASSUME NEW e \in Engines, RunBase(e) PROVE ProbeTypeOK'
    BY <1>2 DEF RunBase
  <1>3. ASSUME NEW e \in Engines, InjectFsBase(e) PROVE ProbeTypeOK'
    BY <1>3, SMTT(30) DEF InjectFsBase, probe
  <1>4. ASSUME NEW e \in Engines, ReadFsBase(e) PROVE ProbeTypeOK'
    BY <1>4 DEF ReadFsBase, probe
  <1>5. ASSUME NEW e \in Engines, UnlinkFsBase(e) PROVE ProbeTypeOK'
    BY <1>5 DEF UnlinkFsBase, probe
  <1>6. ASSUME NEW e \in Engines, RunOn(e) PROVE ProbeTypeOK'
    BY <1>6 DEF RunOn
  <1>7. ASSUME NEW e \in Engines, CheckBrkFile(e) \/ Stop(e) PROVE ProbeTypeOK'
    <2>1. CASE CheckBrkFile(e)  BY <2>1 DEF CheckBrkFile, probe
    <2>2. CASE Stop(e)  BY <2>2 DEF Stop, probe
    <2>3. QED  BY ONLY <1>7, <2>1, <2>2
  <1>8. ASSUME NEW e \in Engines, RemoveBrkFile(e) \/ UnlinkBrk(e) PROVE ProbeTypeOK'
    <2>1. CASE RemoveBrkFile(e)  BY <2>1 DEF RemoveBrkFile, probe
    <2>2. CASE UnlinkBrk(e)  BY <2>2 DEF UnlinkBrk, probe
    <2>3. QED  BY ONLY <1>8, <2>1, <2>2
  <1>9. ASSUME NEW e \in Engines, InjectBrk(e) PROVE ProbeTypeOK'
    <2>1. sbrk_txt' \in Seq(Value)
      BY ONLY <1>9, Values, ProbeTypeOK DEF InjectBrk, ProbeTypeOK
    <2>2. QED  BY <1>9, <2>1 DEF InjectBrk, probe
  <1>10. ASSUME NEW e \in Engines, ReadBrk(e) PROVE ProbeTypeOK'
    BY <1>10 DEF ReadBrk, probe
  <1>11. ASSUME NEW e \in Engines, Killed(e) PROVE ProbeTypeOK'
    BY <1>11 DEF Killed, probe
  <1>12. QED
    BY <1>1, <1>2, <1>3, <1>4, <1>5, <1>6, <1>7, <1>8, <1>9, <1>10, <1>11, Zenon DEF ProbeNext

(* Appending leaves the first value, and is the first value of a new file. *)
LEMMA FirstStays ==
    ASSUME NEW txt \in Seq(Value), NEW v \in Value
    PROVE  /\ Append(txt, v) # Absent
           /\ txt = Absent => Append(txt, v) = <<v>> /\ Head(Append(txt, v)) = v
           /\ txt # Absent => Head(Append(txt, v)) = Head(txt)
           /\ FirstOf(<<v>>) = v
  <1>1. Append(txt, v) # Absent  BY AppendProperties DEF Absent
  <1>2. Append(Absent, v) = <<v>>  BY DEF Absent
  <1>3. <<v>> # Absent /\ Head(<<v>>) = v  BY DEF Absent
  <1>4. ASSUME txt # Absent PROVE Head(Append(txt, v)) = Head(txt)
    <2>1. Len(txt) # 0  BY <1>4 DEF Absent
    <2>2. QED  BY <2>1
  <1>5. QED  BY <1>1, <1>2, <1>3, <1>4 DEF FirstOf

(* One engine at a time keeps the two files apart.                         *)
LEMMA BrkKept ==
    ASSUME ProbeTypeOK, Serial, FreshBrk, OwnBrk, ~Concurrent, [ProbeNext]_probeVars
    PROVE  Serial' /\ FreshBrk' /\ OwnBrk'
  <1> DEFINE Ours == Serial' /\ FreshBrk' /\ OwnBrk'
  <1> USE DEF ProbeTypeOK, Serial, FreshBrk, OwnBrk
  <1>1. CASE UNCHANGED probeVars  BY <1>1 DEF probeVars, probe, Brk
  <1>2. ASSUME NEW e \in Engines, RunBase(e) PROVE Ours
    BY <1>2 DEF RunBase
  <1>3. ASSUME NEW e \in Engines, InjectFsBase(e) \/ ReadFsBase(e) \/ UnlinkFsBase(e) PROVE Ours
    <2>1. CASE InjectFsBase(e)  BY <2>1, Zenon DEF InjectFsBase, probe
    <2>2. CASE ReadFsBase(e)  BY <2>2, Zenon DEF ReadFsBase, probe
    <2>3. CASE UnlinkFsBase(e)  BY <2>3 DEF UnlinkFsBase, probe
    <2>4. QED  BY ONLY <1>3, <2>1, <2>2, <2>3
  <1>6. ASSUME NEW e \in Engines, RunOn(e) PROVE Ours
    BY <1>6, Zenon DEF RunOn
  <1>7. ASSUME NEW e \in Engines, CheckBrkFile(e) \/ Stop(e) \/ Killed(e) PROVE Ours
    <2>1. CASE CheckBrkFile(e)  BY <2>1, Zenon DEF CheckBrkFile, probe
    <2>2. CASE Stop(e)  BY <2>2 DEF Stop, probe
    <2>3. CASE Killed(e)  BY <2>3 DEF Killed, probe
    <2>4. QED  BY ONLY <1>7, <2>1, <2>2, <2>3
  <1>8. ASSUME NEW e \in Engines, RemoveBrkFile(e) \/ UnlinkBrk(e) PROVE Ours
    <2>1. CASE RemoveBrkFile(e)  BY <2>1, Zenon DEF RemoveBrkFile, probe
    <2>2. CASE UnlinkBrk(e)  BY <2>2, Zenon DEF UnlinkBrk, probe
    <2>3. QED  BY ONLY <1>8, <2>1, <2>2
  <1>9. ASSUME NEW e \in Engines, InjectBrk(e) PROVE Ours
    <2>1. sbrk_txt = Absent /\ sbrk_txt' = Append(sbrk_txt, Brk(e)) /\ Brk(e)' = Brk(e)
      BY <1>9 DEF InjectBrk, probe, Brk
    <2>2. sbrk_txt' = <<Brk(e)>>  BY <2>1, Values, FirstStays, Zenon
    <2>3. QED  BY <1>9, <2>1, <2>2, Zenon DEF InjectBrk
  <1>10. ASSUME NEW e \in Engines, ReadBrk(e) PROVE Ours
    <2>1. brk'[e] = Brk(e) /\ Brk(e)' = Brk(e)
      BY <1>10, Values, FirstStays, Zenon DEF ReadBrk, probe, Brk
    <2>2. QED  BY <1>10, <2>1, Zenon DEF ReadBrk
  <1>12. QED
    BY <1>1, <1>2, <1>3, <1>6, <1>7, <1>8, <1>9, <1>10 DEF ProbeNext

(* Only a death leaves a file of fs_base behind, and the run that finds it *)
(* removes it.                                                             *)
LEMMA PaidKept ==
    ASSUME ProbeTypeOK, Serial, Paid, OneWrongRunPerKill, ~Concurrent, [ProbeNext]_probeVars
    PROVE  Paid' /\ OneWrongRunPerKill'
  <1> DEFINE Ours == Paid' /\ OneWrongRunPerKill'
  <1> USE DEF ProbeTypeOK, Serial, Paid, OneWrongRunPerKill, InFs
  <1>1. CASE UNCHANGED probeVars  BY <1>1 DEF probeVars, probe, FsBase
  <1>2. ASSUME NEW e \in Engines, RunBase(e) PROVE Ours
    BY <1>2 DEF RunBase
  <1>3. ASSUME NEW e \in Engines, InjectFsBase(e) PROVE Ours
    <2>1. fs_base_txt' = Append(fs_base_txt, FsBase(e)) /\ FsBase(e)' = FsBase(e)
      BY <1>3 DEF InjectFsBase, probe, FsBase
    <2>2. /\ fs_base_txt' # Absent
          /\ Head(fs_base_txt') = IF fs_base_txt = Absent THEN FsBase(e) ELSE Head(fs_base_txt)
      BY <2>1, Values, FirstStays, Zenon
    <2>3. QED  BY <1>3, <2>1, <2>2, Zenon DEF InjectFsBase, probe
  <1>4. ASSUME NEW e \in Engines, ReadFsBase(e) PROVE Ours
    <2>1. fs_base'[e] = Head(fs_base_txt)
      BY <1>4 DEF ReadFsBase, FirstOf
    <2>2. wrong' <= kills
      BY <1>4, <2>1 DEF ReadFsBase
    <2>3. QED  BY <1>4, <2>2, Zenon DEF ReadFsBase, probe
  <1>5. ASSUME NEW e \in Engines, UnlinkFsBase(e) PROVE Ours
    BY <1>5 DEF UnlinkFsBase, probe
  <1>6. ASSUME NEW e \in Engines, RunOn(e) PROVE Ours
    BY <1>6, Zenon DEF RunOn
  <1>7. ASSUME NEW e \in Engines, Killed(e) PROVE Ours
    BY <1>7 DEF Killed, probe
  <1>8. ASSUME NEW e \in Engines,
               \/ CheckBrkFile(e) \/ RemoveBrkFile(e) \/ InjectBrk(e)
               \/ ReadBrk(e) \/ UnlinkBrk(e) \/ Stop(e)
        PROVE  Ours
    BY <1>8 DEF CheckBrkFile, RemoveBrkFile, InjectBrk, ReadBrk, UnlinkBrk, Stop, probe
  <1>12. QED
    BY <1>1, <1>2, <1>3, <1>4, <1>5, <1>6, <1>7, <1>8 DEF ProbeNext

LEMMA ProbeInitIInv == ProbeInit => ProbeIInv
  BY ProbeBoundsAssumption, Values
     DEF ProbeInit, ProbeIInv, ProbeTypeOK, Serial, FreshBrk, OwnBrk, Paid, OneWrongRunPerKill,
         Absent, Zero, Value

(* The types hold throughout, also of engines that run at the same time.   *)
THEOREM ProbeTypeCorrect == ProbeSpec => []ProbeTypeOK
  BY ProbeInitIInv, TypeKept, PTL DEF ProbeSpec, ProbeIInv

(* IInv is inductive when one engine runs at a time.                       *)
THEOREM ProbeInvariant ==
    ASSUME ~Concurrent
    PROVE  ProbeSpec => []ProbeIInv
  <1>1. ProbeIInv /\ [ProbeNext]_probeVars => ProbeIInv'
    BY TypeKept, BrkKept, PaidKept DEF ProbeIInv
  <1>2. QED  BY <1>1, ProbeInitIInv, PTL DEF ProbeSpec

(* _get_brk_value, for any number of engines that run one after the other  *)
(* and any number of deaths: what goes into a checkpoint is the brk of     *)
(* this inferior at this stop, whatever was left in /tmp.                  *)
THEOREM BrkIsOwn ==
    ASSUME ~Concurrent
    PROVE  ProbeSpec => []OwnBrk
  BY ProbeInvariant, PTL DEF ProbeIInv

(* _get_fs_base, likewise: each run that ended half-way spoils at most one *)
(* later run.                                                              *)
THEOREM DeathSpoilsOneRun ==
    ASSUME ~Concurrent
    PROVE  ProbeSpec => []OneWrongRunPerKill
  BY ProbeInvariant, PTL DEF ProbeIInv

-----------------------------------------------------------------------------
(* The timed mode.                                                         *)
LEMMA TimerInitIInv == Init => IInv
  <1> SUFFICES ASSUME Init PROVE IInv  OBVIOUS
  <1> USE DEF Init
  <1>1. TypeOK
    <2>1. timer \in Off .. Interval /\ ran \in 0 .. MaxRan /\ chk_num \in 0 .. MaxChk
      BY IntervalAssumption, BoundsAssumption DEF Off
    <2>2. QED  BY <2>1, Zenon DEF TypeOK
  <1>2. Joined /\ Coming /\ OnlyPauses  BY DEF Joined, Coming, OnlyPauses, InterruptComes
  <1>3. Undisturbed  BY DEF Undisturbed
  <1>4. QED  BY <1>1, <1>2, <1>3 DEF IInv

(* The engine's steps.                                                     *)
LEMMA TimerEngineKeeps ==
    ASSUME IInv, InterruptIn \/ LeaveLoop \/ Continue \/ Join \/ TryCreateCheckpoint
                 \/ KeyboardInterrupt \/ Return \/ Finish
    PROVE  IInv'
  <1> USE IntervalAssumption, BoundsAssumption
      DEF IInv, TypeOK, Joined, Coming, Undisturbed, OnlyPauses, InterruptComes, InLoop, Off
  <1>1. CASE InterruptIn  BY <1>1 DEF InterruptIn
  <1>2. CASE LeaveLoop  BY <1>2 DEF LeaveLoop
  <1>3. CASE Continue
    <2>1. pending' = FALSE /\ UNCHANGED <<timer, target, ran, chk_num, cause, disturbed>>
      BY <1>3 DEF Continue
    <2>2. CASE pending
      <3>1. pc' = "join"  BY <1>3, <2>2, Zenon DEF Continue
      <3>2. disturbed  BY <1>3, <2>2 DEF Continue
      <3>3. QED  BY <2>1, <3>1, <3>2, Zenon
    <2>3. CASE ~pending
      <3>1. pc' = "running"  BY <1>3, <2>3, Zenon DEF Continue
      <3>2. pc = "continue"  BY <1>3 DEF Continue
      <3>3. timer # Off /\ target  BY <2>3, <3>2
      <3>4. ~disturbed => timer = Interval  BY <3>2
      <3>5. TypeOK'  BY <2>1, <3>1, Zenon
      <3>6. Joined' /\ Coming' /\ OnlyPauses'  BY <2>1, <3>1, <3>3
      <3>7. ~disturbed' => ran' + timer' >= Interval  BY <2>1, <3>4
      <3>8. Undisturbed'  BY <2>1, <3>1, <3>7
      <3>9. QED  BY <3>5, <3>6, <3>8, Zenon
    <2>4. QED  BY <2>2, <2>3
  <1>4. CASE Join  BY <1>4 DEF Join
  <1>5. CASE TryCreateCheckpoint
    <2>1. CASE pc' = "loop"  BY <1>5, <2>1 DEF TryCreateCheckpoint, Capped
    <2>2. CASE pc' = "wait" /\ pending  BY <1>5, <2>2, Zenon DEF TryCreateCheckpoint
    <2>3. CASE pc' = "wait" /\ ~pending  BY <1>5, <2>3, Zenon DEF TryCreateCheckpoint
    <2>4. QED  BY <1>5, <2>1, <2>2, <2>3 DEF TryCreateCheckpoint
  <1>6. CASE KeyboardInterrupt  BY <1>6 DEF KeyboardInterrupt
  <1>7. CASE Return  BY <1>7, Zenon DEF Return
  <1>8. CASE Finish  BY <1>8 DEF Finish
  <1>9. QED  BY <1>1, <1>2, <1>3, <1>4, <1>5, <1>6, <1>7, <1>8

(* The clock, the timer process and the inferior.                          *)
LEMMA TimerWorldKeeps ==
    ASSUME IInv, Tick \/ Oversleep \/ ControlC \/ StopsEarly \/ Exits
    PROVE  IInv'
  <1> USE IntervalAssumption, BoundsAssumption
      DEF IInv, TypeOK, Joined, Coming, Undisturbed, OnlyPauses, InterruptComes, InLoop, Off
  <1>1. CASE Tick  BY <1>1 DEF Tick, Capped
  <1>2. CASE Oversleep
    <2>1. /\ pc = "running" /\ pc' = pc /\ timer' = timer /\ target' = target
          /\ pending' = pending /\ chk_num' = chk_num /\ cause' = cause
          /\ disturbed' = disturbed /\ ran' = Capped(ran + 1, MaxRan)
      BY ONLY <1>2 DEF Oversleep
    <2>2. timer = 0 /\ ran \in 0 .. MaxRan  BY ONLY <1>2, IInv DEF Oversleep, IInv, TypeOK
    <2>3. ran' \in 0 .. MaxRan /\ ran' >= ran
      BY ONLY <2>1, <2>2, BoundsAssumption DEF Capped
    <2>4. TypeOK'  BY ONLY <2>1, <2>3, IInv, Zenon DEF IInv, TypeOK
    <2>5. Joined' /\ Coming' /\ OnlyPauses'
      BY ONLY <2>1, IInv, Zenon DEF IInv, Joined, Coming, InterruptComes, OnlyPauses
    <2>6. ~disturbed => ~pending /\ ran + timer >= Interval
      BY ONLY <2>1, IInv DEF IInv, Undisturbed, InLoop
    <2>7. Undisturbed'
      BY ONLY <2>1, <2>2, <2>3, <2>6, IntervalAssumption, BoundsAssumption DEF Undisturbed
    <2>8. QED  BY ONLY <2>4, <2>5, <2>7 DEF IInv
  <1>3. CASE ControlC  BY <1>3 DEF ControlC
  <1>4. CASE StopsEarly  BY <1>4 DEF StopsEarly
  <1>5. CASE Exits  BY <1>5, Zenon DEF Exits
  <1>6. QED  BY <1>1, <1>2, <1>3, <1>4, <1>5

(* The inductive invariant of the timed mode.                              *)
THEOREM TimerInvariant == Spec => []IInv
  <1>1. IInv /\ UNCHANGED vars => IInv'
    <2> SUFFICES ASSUME IInv, UNCHANGED vars PROVE IInv'  OBVIOUS
    <2>1. /\ pc' = pc /\ timer' = timer /\ target' = target /\ pending' = pending
          /\ ran' = ran /\ chk_num' = chk_num /\ cause' = cause /\ disturbed' = disturbed
      BY DEF vars
    <2>2. TypeOK'  BY <2>1, Zenon DEF IInv, TypeOK
    <2>3. Joined' /\ Coming' /\ OnlyPauses'
      BY <2>1, Zenon DEF IInv, Joined, Coming, InterruptComes, OnlyPauses
    <2>4. Undisturbed'  BY <2>1, Zenon DEF IInv, Undisturbed
    <2>5. QED  BY <2>2, <2>3, <2>4 DEF IInv
  <1>2. IInv /\ [Next]_vars => IInv'
    BY <1>1, TimerEngineKeeps, TimerWorldKeeps DEF Next
  <1>3. QED  BY <1>2, TimerInitIInv, PTL DEF Spec

(* Checkpoints are at least sec_between_chk apart while only the timer     *)
(* stops the inferior, for every interval.                                 *)
THEOREM IntervalKept == Spec => []EveryInterval
  <1>1. IInv => EveryInterval  BY DEF IInv, Undisturbed, EveryInterval
  <1>2. QED  BY <1>1, TimerInvariant, PTL

(* Whenever the inferior runs, the interrupt that stops it is to come.     *)
THEOREM InterruptNotLost == Spec => []InterruptComes
  <1>1. IInv => InterruptComes  BY DEF IInv, Coming
  <1>2. QED  BY <1>1, TimerInvariant, PTL

(* The interrupt ends an injected call only after a disturbance.           *)
THEOREM InterruptPauses == Spec => []OnlyPauses
  <1>1. IInv => OnlyPauses  BY DEF IInv
  <1>2. QED  BY <1>1, TimerInvariant, PTL

-----------------------------------------------------------------------------
(* The registers.  A string is built from blocks with \o; the predicates    *)
(* below say what is needed of a block and hide how it is made.            *)
Written(s) == \E S : s \in Seq(S)
Block(s, n) == Written(s) /\ Len(s) = n /\ DOMAIN s = 1 .. n
Starts(s, w) == DOMAIN s \subseteq DOMAIN w /\ \A k \in DOMAIN s : w[k] = s[k]
Continues(w, n, l, t) == \A k \in n + 1 .. l : w[k] = t[k - n]

(* Names that the miscellaneous file does not have.                        *)
Foreign == {"rax", "rcx", "rdx", "rbx", "rsp", "rbp", "rsi", "rdi", "r8", "r9", "r10", "r11",
            "r12", "r13", "r14", "r15", "xmm_low", "xmm_high"}
Native(s) == \A k \in 1 .. Len(s) : s[k][1] \notin Foreign
MiscBlock(s, n) == Block(s, n) /\ Native(s)

Proper(names, n) == Len(names) = n /\ \A k \in 1 .. n : names[k] \notin Foreign
Distinct(names, n) ==
    Len(names) = n /\ \A k, l \in 1 .. n : names[k] = names[l] => k = l

(* A numbered family of registers, as a block.                             *)
LEMMA BankIs ==
    ASSUME NEW name, NEW n \in Nat
    PROVE  /\ \A k \in 1 .. n : Bank(name, n)[k] = <<name, k - 1>>
           /\ Block(Bank(name, n), n)
           /\ name \notin Foreign => MiscBlock(Bank(name, n), n)
  <1>1. \A k \in 1 .. n : Bank(name, n)[k] = <<name, k - 1>> /\ Bank(name, n)[k][1] = name
    BY DEF Bank
  <1>2. /\ Bank(name, n) \in Seq({name} \X Nat) /\ Len(Bank(name, n)) = n
        /\ DOMAIN Bank(name, n) = 1 .. n
    BY DEF Bank
  <1>3. QED  BY <1>1, <1>2 DEF Native, Written, Block, MiscBlock

(* A list of names, none of them of another file, as a block.              *)
LEMMA NamedIs ==
    ASSUME NEW names, NEW n \in Nat, Proper(names, n)
    PROVE  MiscBlock(Named(names), n) /\ \A k \in 1 .. n : Named(names)[k] = <<names[k], 0>>
  <1>1. Len(names) = n /\ \A k \in 1 .. n : names[k] \notin Foreign  BY DEF Proper
  <1>2. /\ \A k \in 1 .. n : Named(names)[k] = <<names[k], 0>>
        /\ \A k \in 1 .. n : Named(names)[k][1] = names[k]
    BY <1>1 DEF Named
  <1>3. /\ Named(names) \in Seq({<<names[k], 0>> : k \in 1 .. n})
        /\ Len(Named(names)) = n /\ DOMAIN Named(names) = 1 .. n
    BY <1>1 DEF Named
  <1>4. QED  BY <1>1, <1>2, <1>3 DEF Native, Written, Block, MiscBlock

(* The segment registers of one kind, as a block.                          *)
LEMMA SuffixedIs ==
    ASSUME NEW suffix
    PROVE  /\ \A k \in 1 .. 13 : Suffixed(suffix)[k] = <<suffix, SegmentRegIndex[k]>>
           /\ suffix \notin Foreign => MiscBlock(Suffixed(suffix), 13)
  <1>1. Suffixed(suffix) = [k \in 1 .. 13 |-> <<suffix, SegmentRegIndex[k]>>]
    BY DEF Suffixed, SegmentRegIndex
  <1>2. \A k \in 1 .. 13 : SegmentRegIndex[k] \in Range(SegmentRegIndex)
    BY DEF SegmentRegIndex, Range
  <1>3. /\ Suffixed(suffix) \in Seq({suffix} \X Range(SegmentRegIndex))
        /\ Len(Suffixed(suffix)) = 13 /\ DOMAIN Suffixed(suffix) = 1 .. 13
    BY <1>1, <1>2
  <1>4. /\ \A k \in 1 .. 13 : Suffixed(suffix)[k] = <<suffix, SegmentRegIndex[k]>>
        /\ \A k \in 1 .. 13 : Suffixed(suffix)[k][1] = suffix
    BY <1>1
  <1>5. QED  BY <1>3, <1>4 DEF Native, Written, Block, MiscBlock

(* What \o makes of two blocks: the length, the beginning and the rest.    *)
LEMMA BlocksJoined ==
    ASSUME NEW s, NEW t, NEW n \in Nat, NEW m \in Nat, NEW l \in Nat,
           Block(s, n), Block(t, m), l = n + m
    PROVE  Block(s \o t, l) /\ Starts(s, s \o t) /\ Continues(s \o t, n, l, t)
  <1>1. PICK S, T : s \in Seq(S) /\ t \in Seq(T)  BY DEF Written, Block
  <1>2. s \in Seq(S \cup T) /\ t \in Seq(S \cup T)  BY <1>1, SeqMonotonic
  <1>3. Len(s) = n /\ Len(t) = m /\ DOMAIN s = 1 .. n  BY DEF Block
  <1>4. /\ s \o t \in Seq(S \cup T) /\ Len(s \o t) = l
        /\ \A k \in 1 .. l : (s \o t)[k] = IF k <= n THEN s[k] ELSE t[k - n]
    BY <1>2, <1>3, ConcatProperties
  <1>5. DOMAIN (s \o t) = 1 .. l  BY <1>4, LenProperties
  <1>6. Starts(s, s \o t)  BY <1>3, <1>4, <1>5 DEF Starts
  <1>7. Continues(s \o t, n, l, t)  BY <1>4 DEF Continues
  <1>8. QED  BY <1>4, <1>5, <1>6, <1>7 DEF Block, Written

(* The same where no name of another file may slip in.                     *)
LEMMA MiscBlocksJoined ==
    ASSUME NEW s, NEW t, NEW n \in Nat, NEW m \in Nat, NEW l \in Nat,
           MiscBlock(s, n), MiscBlock(t, m), l = n + m
    PROVE  MiscBlock(s \o t, l) /\ Starts(s, s \o t) /\ Continues(s \o t, n, l, t)
  <1>1. Block(s, n) /\ Block(t, m) /\ Native(s) /\ Native(t)  BY DEF MiscBlock
  <1>2. Block(s \o t, l) /\ Starts(s, s \o t) /\ Continues(s \o t, n, l, t)
    BY <1>1, BlocksJoined
  <1>3. Native(s \o t)  BY <1>1, <1>2 DEF Native, Block, Starts, Continues
  <1>4. QED  BY <1>2, <1>3 DEF MiscBlock

(* The beginning of a beginning is a beginning.                            *)
LEMMA StartsTransitive ==
    ASSUME NEW s, NEW t, NEW w, Starts(s, t), Starts(t, w)
    PROVE  Starts(s, w)
  BY DEF Starts

(* What a sequence starts with can be read off its beginning.              *)
LEMMA BeginningIs ==
    ASSUME NEW s, NEW w, NEW n \in Nat, MiscBlock(s, n), Starts(s, w)
    PROVE  \A k \in 1 .. n : w[k] = s[k]
  BY DEF Starts, MiscBlock, Block

(* gem5's enumerations number distinct names from 0.                       *)
LEMMA AtPlace ==
    ASSUME NEW names, NEW n \in Nat, Distinct(names, n), NEW k \in 1 .. n
    PROVE  At(names, names[k]) = k - 1
  BY DEF At, Distinct

(* No enumeration names a register twice.                                  *)
LEMMA NamesDistinct ==
    Distinct(IntRegIndex, 16) /\ Distinct(SegmentRegIndex, 13) /\ Distinct(X87, 13)
  <1>1. Distinct(IntRegIndex, 16)  BY DEF Distinct, IntRegIndex
  <1>2. Distinct(SegmentRegIndex, 13)  BY DEF Distinct, SegmentRegIndex
  <1>3. Distinct(X87, 13)  BY DEF Distinct, X87
  <1>4. QED  BY <1>1, <1>2, <1>3

(* The five kinds of segment registers that get_misc_reg_string writes.    *)
LEMMA SegmentLayout ==
    /\ MiscBlock(SegmentOrder, 65)
    /\ \A k \in 1 .. 13 : SegmentOrder[k] = <<"sel", SegmentRegIndex[k]>>
    /\ \A k \in 14 .. 26 : SegmentOrder[k] = <<"base", SegmentRegIndex[k - 13]>>
    /\ \A k \in 27 .. 39 : SegmentOrder[k] = <<"eff_base", SegmentRegIndex[k - 26]>>
    /\ \A k \in 53 .. 65 : SegmentOrder[k] = <<"attr", SegmentRegIndex[k - 52]>>
  <1> DEFINE b1 == Suffixed("sel")    b2 == Suffixed("base")   b3 == Suffixed("eff_base")
             b4 == Suffixed("limit")  b5 == Suffixed("attr")
             s2 == b1 \o b2  s3 == s2 \o b3  s4 == s3 \o b4  s5 == s4 \o b5
  <1>1. /\ MiscBlock(b1, 13) /\ MiscBlock(b2, 13) /\ MiscBlock(b3, 13)
        /\ MiscBlock(b4, 13) /\ MiscBlock(b5, 13)
    BY SuffixedIs DEF Foreign
  <1>2. \A k \in 1 .. 13 : /\ b1[k] = <<"sel", SegmentRegIndex[k]>>
                           /\ b2[k] = <<"base", SegmentRegIndex[k]>>
                           /\ b3[k] = <<"eff_base", SegmentRegIndex[k]>>
                           /\ b5[k] = <<"attr", SegmentRegIndex[k]>>
    BY SuffixedIs
  <1>3. SegmentOrder = s5  BY DEF SegmentOrder
  <1> HIDE DEF b1, b2, b3, b4, b5
  <1>4. MiscBlock(s2, 26) /\ Starts(b1, s2) /\ Continues(s2, 13, 26, b2)
    BY <1>1, MiscBlocksJoined
  <1> HIDE DEF s2
  <1>5. MiscBlock(s3, 39) /\ Starts(s2, s3) /\ Continues(s3, 26, 39, b3)
    BY <1>1, <1>4, MiscBlocksJoined
  <1> HIDE DEF s3
  <1>6. MiscBlock(s4, 52) /\ Starts(s3, s4)
    BY <1>1, <1>5, MiscBlocksJoined
  <1> HIDE DEF s4
  <1>7. MiscBlock(s5, 65) /\ Starts(s4, s5) /\ Continues(s5, 52, 65, b5)
    BY <1>1, <1>6, MiscBlocksJoined
  <1> HIDE DEF s5
  <1>8. Starts(s3, s5) /\ Starts(s2, s5) /\ Starts(b1, s5)
    BY <1>4, <1>5, <1>6, <1>7, StartsTransitive, Zenon
  <1>9. /\ \A k \in 1 .. 13 : s5[k] = b1[k]
        /\ \A k \in 1 .. 26 : s5[k] = s2[k]
        /\ \A k \in 1 .. 39 : s5[k] = s3[k]
    BY <1>1, <1>4, <1>5, <1>8, Zenon DEF Starts, Block, MiscBlock
  <1>10. \A k \in 1 .. 13 : s5[k] = <<"sel", SegmentRegIndex[k]>>  BY <1>2, <1>9
  <1>11. \A k \in 14 .. 26 : s5[k] = <<"base", SegmentRegIndex[k - 13]>>
    BY <1>2, <1>4, <1>9 DEF Continues
  <1>12. \A k \in 27 .. 39 : s5[k] = <<"eff_base", SegmentRegIndex[k - 26]>>
    BY <1>2, <1>5, <1>9 DEF Continues
  <1>13. \A k \in 53 .. 65 : s5[k] = <<"attr", SegmentRegIndex[k - 52]>>
    BY <1>2, <1>7 DEF Continues
  <1>14. QED  BY <1>3, <1>7, <1>10, <1>11, <1>12, <1>13, Zenon

(* Where the miscellaneous registers are written: the blocks of MiscOrder   *)
(* follow one another (the names n, the blocks b, the beginnings m).        *)
LEMMA MiscLayout ==
    /\ MiscBlock(MiscOrder, 204)
    /\ \A k \in 1 .. 16 : MiscOrder[k] = <<"cr", k - 1>>
    /\ \A k \in 17 .. 24 : MiscOrder[k] = <<"dr", k - 17>>
    /\ MiscOrder[25] = <<"rflags", 0>> /\ MiscOrder[26] = <<"m5", 0>>
    /\ MiscOrder[101] = <<"efer", 0>>
    /\ \A k \in 127 .. 191 : MiscOrder[k] = SegmentOrder[k - 126]
    /\ \A k \in 192 .. 204 : MiscOrder[k] = <<X87[k - 191], 0>>
  <1> DEFINE n3 == <<"rflags", "m5", "tsc", "mtrrcap", "sysenter_cs", "sysenter_esp",
                     "sysenter_eip", "mcg_cap", "mcg_status", "mcg_ctl", "debug_ctl_msr", "lbfi",
                     "lbti", "lefi", "leti">>
             n7 == <<"pat", "def_type">>
             n12 == <<"efer", "star", "lstar", "cstar", "sf_mask", "kernel_gs_base", "tsc_aux">>
             n15 == <<"syscfg", "iorr_base0", "iorr_base1", "iorr_mask0", "iorr_mask1", "top_mem",
                      "top_mem2", "vm_cr", "ignne", "smm_ctl", "vm_hsave_pa">>
             b1 == Bank("cr", 16)  b2 == Bank("dr", 8)  b3 == Named(n3)
             b4 == Bank("mtrr_phys_base", 8)  b5 == Bank("mtrr_phys_mask", 8)
             b6 == Bank("mtrr_fix", 11)
             b7 == Named(n7)  b8 == Bank("mc_ctl", 8)  b9 == Bank("mc_status", 8)
             b10 == Bank("mc_addr", 8)  b11 == Bank("mc_misc", 8)  b12 == Named(n12)
             b13 == Bank("perf_evt_sel", 4)  b14 == Bank("perf_evt_ctr", 4)  b15 == Named(n15)
             b16 == SegmentOrder  b17 == Named(X87)
             m2 == b1 \o b2
             m3 == m2 \o b3  m4 == m3 \o b4  m5 == m4 \o b5  m6 == m5 \o b6
             m7 == m6 \o b7  m8 == m7 \o b8  m9 == m8 \o b9  m10 == m9 \o b10
             m11 == m10 \o b11  m12 == m11 \o b12  m13 == m12 \o b13  m14 == m13 \o b14
             m15 == m14 \o b15  m16 == m15 \o b16  m17 == m16 \o b17
  <1>1. MiscOrder = m17  BY DEF MiscOrder, X87
  <1>2. Proper(n3, 15) /\ n3[1] = "rflags" /\ n3[2] = "m5"  BY DEF Proper, Foreign
  <1>3. Proper(n7, 2)  BY DEF Proper, Foreign
  <1>4. Proper(n12, 7) /\ n12[1] = "efer"  BY DEF Proper, Foreign
  <1>5. Proper(n15, 11)  BY DEF Proper, Foreign
  <1>6. Proper(X87, 13)  BY DEF Proper, Foreign, X87
  <1> HIDE DEF n3, n7, n12, n15
  <1>7. /\ MiscBlock(b1, 16) /\ MiscBlock(b2, 8) /\ MiscBlock(b4, 8) /\ MiscBlock(b5, 8)
        /\ MiscBlock(b6, 11) /\ MiscBlock(b8, 8) /\ MiscBlock(b9, 8) /\ MiscBlock(b10, 8)
        /\ MiscBlock(b11, 8) /\ MiscBlock(b13, 4) /\ MiscBlock(b14, 4)
    BY BankIs DEF Foreign
  <1>8. MiscBlock(b3, 15) /\ b3[1] = <<"rflags", 0>> /\ b3[2] = <<"m5", 0>>
    BY <1>2, NamedIs
  <1>9. MiscBlock(b7, 2)  BY <1>3, NamedIs
  <1>10. MiscBlock(b12, 7) /\ b12[1] = <<"efer", 0>>  BY <1>4, NamedIs
  <1>11. MiscBlock(b15, 11)  BY <1>5, NamedIs
  <1>12. MiscBlock(b17, 13) /\ \A k \in 1 .. 13 : b17[k] = <<X87[k], 0>>  BY <1>6, NamedIs
  <1>13. MiscBlock(b16, 65)  BY SegmentLayout
  <1>14. /\ \A k \in 1 .. 16 : b1[k] = <<"cr", k - 1>>
         /\ \A k \in 1 .. 8 : b2[k] = <<"dr", k - 1>>
    BY BankIs
  <1> HIDE DEF b1, b2, b3, b4, b5, b6, b7, b8, b9, b10, b11, b12, b13, b14, b15, b16, b17
  <1>15. /\ MiscBlock(m2, 24) /\ Starts(b1, m2)
         /\ Continues(m2, 16, 24, b2)
    BY <1>7, MiscBlocksJoined
  <1> HIDE DEF m2
  <1>16. /\ MiscBlock(m3, 39) /\ Starts(m2, m3)
         /\ Continues(m3, 24, 39, b3)
    BY <1>8, <1>15, MiscBlocksJoined
  <1> HIDE DEF m3
  <1>17. /\ MiscBlock(m4, 47) /\ Starts(m3, m4)
         /\ Continues(m4, 39, 47, b4)
    BY <1>7, <1>16, MiscBlocksJoined
  <1> HIDE DEF m4
  <1>18. /\ MiscBlock(m5, 55) /\ Starts(m4, m5)
         /\ Continues(m5, 47, 55, b5)
    BY <1>7, <1>17, MiscBlocksJoined
  <1> HIDE DEF m5
  <1>19. /\ MiscBlock(m6, 66) /\ Starts(m5, m6)
         /\ Continues(m6, 55, 66, b6)
    BY <1>7, <1>18, MiscBlocksJoined
  <1> HIDE DEF m6
  <1>20. /\ MiscBlock(m7, 68) /\ Starts(m6, m7)
         /\ Continues(m7, 66, 68, b7)
    BY <1>9, <1>19, MiscBlocksJoined
  <1> HIDE DEF m7
  <1>21. /\ MiscBlock(m8, 76) /\ Starts(m7, m8)
         /\ Continues(m8, 68, 76, b8)
    BY <1>7, <1>20, MiscBlocksJoined
  <1> HIDE DEF m8
  <1>22. /\ MiscBlock(m9, 84) /\ Starts(m8, m9)
         /\ Continues(m9, 76, 84, b9)
    BY <1>7, <1>21, MiscBlocksJoined
  <1> HIDE DEF m9
  <1>23. /\ MiscBlock(m10, 92) /\ Starts(m9, m10)
         /\ Continues(m10, 84, 92, b10)
    BY <1>7, <1>22, MiscBlocksJoined
  <1> HIDE DEF m10
  <1>24. /\ MiscBlock(m11, 100) /\ Starts(m10, m11)
         /\ Continues(m11, 92, 100, b11)
    BY <1>7, <1>23, MiscBlocksJoined
  <1> HIDE DEF m11
  <1>25. /\ MiscBlock(m12, 107) /\ Starts(m11, m12)
         /\ Continues(m12, 100, 107, b12)
    BY <1>10, <1>24, MiscBlocksJoined
  <1> HIDE DEF m12
  <1>26. /\ MiscBlock(m13, 111) /\ Starts(m12, m13)
         /\ Continues(m13, 107, 111, b13)
    BY <1>7, <1>25, MiscBlocksJoined
  <1> HIDE DEF m13
  <1>27. /\ MiscBlock(m14, 115) /\ Starts(m13, m14)
         /\ Continues(m14, 111, 115, b14)
    BY <1>7, <1>26, MiscBlocksJoined
  <1> HIDE DEF m14
  <1>28. /\ MiscBlock(m15, 126) /\ Starts(m14, m15)
         /\ Continues(m15, 115, 126, b15)
    BY <1>11, <1>27, MiscBlocksJoined
  <1> HIDE DEF m15
  <1>29. /\ MiscBlock(m16, 191) /\ Starts(m15, m16)
         /\ Continues(m16, 126, 191, b16)
    BY <1>13, <1>28, MiscBlocksJoined
  <1> HIDE DEF m16
  <1>30. /\ MiscBlock(m17, 204) /\ Starts(m16, m17)
         /\ Continues(m17, 191, 204, b17)
    BY <1>12, <1>29, MiscBlocksJoined
  <1> HIDE DEF m17
  <1>31. Starts(m16, m17)  BY <1>30
  <1>32. Starts(m15, m17)  BY <1>29, <1>31, StartsTransitive, Zenon
  <1>33. Starts(m14, m17)  BY <1>28, <1>32, StartsTransitive, Zenon
  <1>34. Starts(m13, m17)  BY <1>27, <1>33, StartsTransitive, Zenon
  <1>35. Starts(m12, m17)  BY <1>26, <1>34, StartsTransitive, Zenon
  <1>36. Starts(m11, m17)  BY <1>25, <1>35, StartsTransitive, Zenon
  <1>37. Starts(m10, m17)  BY <1>24, <1>36, StartsTransitive, Zenon
  <1>38. Starts(m9, m17)  BY <1>23, <1>37, StartsTransitive, Zenon
  <1>39. Starts(m8, m17)  BY <1>22, <1>38, StartsTransitive, Zenon
  <1>40. Starts(m7, m17)  BY <1>21, <1>39, StartsTransitive, Zenon
  <1>41. Starts(m6, m17)  BY <1>20, <1>40, StartsTransitive, Zenon
  <1>42. Starts(m5, m17)  BY <1>19, <1>41, StartsTransitive, Zenon
  <1>43. Starts(m4, m17)  BY <1>18, <1>42, StartsTransitive, Zenon
  <1>44. Starts(m3, m17)  BY <1>17, <1>43, StartsTransitive, Zenon
  <1>45. Starts(m2, m17)  BY <1>16, <1>44, StartsTransitive, Zenon
  <1>46. Starts(b1, m17)  BY <1>15, <1>45, StartsTransitive, Zenon
  <1>47. \A k \in 1 .. 16 : m17[k] = b1[k]
    <2>1. MiscBlock(b1, 16)  BY <1>7
    <2>2. 16 \in Nat  OBVIOUS
    <2>3. QED  BY <1>46, <2>1, <2>2, BeginningIs, Zenon
  <1>48. \A k \in 1 .. 24 : m17[k] = m2[k]
    <2>1. MiscBlock(m2, 24)  BY <1>15
    <2>2. 24 \in Nat  OBVIOUS
    <2>3. QED  BY <1>45, <2>1, <2>2, BeginningIs, Zenon
  <1>49. \A k \in 1 .. 39 : m17[k] = m3[k]
    <2>1. MiscBlock(m3, 39)  BY <1>16
    <2>2. 39 \in Nat  OBVIOUS
    <2>3. QED  BY <1>44, <2>1, <2>2, BeginningIs, Zenon
  <1>50. \A k \in 1 .. 107 : m17[k] = m12[k]
    <2>1. MiscBlock(m12, 107)  BY <1>25
    <2>2. 107 \in Nat  OBVIOUS
    <2>3. QED  BY <1>35, <2>1, <2>2, BeginningIs, Zenon
  <1>51. \A k \in 1 .. 191 : m17[k] = m16[k]
    <2>1. MiscBlock(m16, 191)  BY <1>29
    <2>2. 191 \in Nat  OBVIOUS
    <2>3. QED  BY <1>31, <2>1, <2>2, BeginningIs, Zenon
  <1>52. \A k \in 1 .. 16 : m17[k] = <<"cr", k - 1>>  BY <1>14, <1>47
  <1>53. \A k \in 17 .. 24 : m17[k] = <<"dr", k - 17>>
    <2>1. \A k \in 17 .. 24 : m2[k] = b2[k - 16]  BY <1>15 DEF Continues
    <2>2. \A k \in 1 .. 8 : b2[k] = <<"dr", k - 1>>  BY <1>14
    <2>3. QED  BY <1>48, <2>1, <2>2
  <1>54. m17[25] = <<"rflags", 0>> /\ m17[26] = <<"m5", 0>>
    BY <1>8, <1>16, <1>49 DEF Continues
  <1>55. m17[101] = <<"efer", 0>>  BY <1>10, <1>25, <1>50 DEF Continues
  <1>56. \A k \in 127 .. 191 : m17[k] = SegmentOrder[k - 126]
    BY <1>29, <1>51 DEF Continues, b16
  <1>57. \A k \in 192 .. 204 : m17[k] = <<X87[k - 191], 0>>  BY <1>12, <1>30 DEF Continues
  <1>58. QED  BY <1>1, <1>30, <1>52, <1>53, <1>54, <1>55, <1>56, <1>57, Zenon

(* get_int_reg_string: the sixteen registers come first.                   *)
LEMMA IntLayout ==
    Block(IntOrder, 38) /\ \A k \in 1 .. 16 : IntOrder[k] = <<IntRegIndex[k], 0>>
  <1> DEFINE b1 == Named(IntRegIndex)  b2 == Bank("none", 22)
  <1>1. IntOrder = b1 \o b2  BY DEF IntOrder, IntRegIndex
  <1>2. Len(IntRegIndex) = 16  BY DEF IntRegIndex
  <1>3. /\ \A k \in 1 .. 16 : b1[k] = <<IntRegIndex[k], 0>>
        /\ b1 \in Seq({<<IntRegIndex[k], 0>> : k \in 1 .. 16})
        /\ Len(b1) = 16 /\ DOMAIN b1 = 1 .. 16
    BY <1>2 DEF Named
  <1>4. Block(b1, 16)  BY <1>3, Zenon DEF Block, Written
  <1>5. Block(b2, 22)  BY BankIs
  <1> HIDE DEF b1, b2
  <1>6. Block(b1 \o b2, 38) /\ Starts(b1, b1 \o b2)  BY <1>4, <1>5, BlocksJoined
  <1>7. \A k \in 1 .. 16 : (b1 \o b2)[k] = b1[k]  BY <1>3, <1>6, Zenon DEF Starts
  <1>8. QED  BY <1>1, <1>3, <1>6, <1>7, Zenon

(* get_float_reg_string: the halves of xmm0 are numbers 17 and 18.         *)
LEMMA FloatLayout ==
    /\ Block(FloatOrder, 56)
    /\ \A k \in 17 .. 48 :
          FloatOrder[k] = <<IF (k - 16) % 2 = 1 THEN "xmm_high" ELSE "xmm_low", (k - 17) \div 2>>
  <1> DEFINE b1 == Bank("none", 8)  b2 == Bank("fpr", 8)
             b3 == [k \in 1 .. 32 |-> <<IF k % 2 = 1 THEN "xmm_high" ELSE "xmm_low",
                                        (k - 1) \div 2>>]
             b4 == Bank("microfp", 8)
             m2 == b1 \o b2  m3 == m2 \o b3  m4 == m3 \o b4
  <1>1. FloatOrder = m4  BY DEF FloatOrder
  <1>2. Block(b1, 8) /\ Block(b2, 8) /\ Block(b4, 8)  BY BankIs
  <1>3. b3 \in Seq({b3[k] : k \in 1 .. 32}) /\ Len(b3) = 32 /\ DOMAIN b3 = 1 .. 32  OBVIOUS
  <1>4. \A k \in 17 .. 48 :
           b3[k - 16] = <<IF (k - 16) % 2 = 1 THEN "xmm_high" ELSE "xmm_low", (k - 17) \div 2>>
    <2>1. \A k \in 17 .. 48 : k - 16 \in 1 .. 32 /\ (k - 16) - 1 = k - 17  OBVIOUS
    <2>2. QED  BY <2>1
  <1>5. Block(b3, 32)  BY <1>3, Zenon DEF Block, Written
  <1> HIDE DEF b1, b2, b3, b4
  <1>6. Block(m2, 16)  BY <1>2, BlocksJoined
  <1> HIDE DEF m2
  <1>7. Block(m3, 48) /\ Continues(m3, 16, 48, b3)  BY <1>5, <1>6, BlocksJoined
  <1> HIDE DEF m3
  <1>8. Block(m4, 56) /\ Starts(m3, m4)  BY <1>2, <1>7, BlocksJoined
  <1> HIDE DEF m4
  <1>9. \A k \in 17 .. 48 : m4[k] = m3[k] /\ m3[k] = b3[k - 16]
    BY <1>7, <1>8 DEF Starts, Continues, Block
  <1>10. QED  BY <1>1, <1>4, <1>8, <1>9, Zenon

(* How many registers gem5's three files have.                             *)
LEMMA Sizes ==
    NumRegs("int") = 38 /\ NumRegs("float") = 56 /\ NumRegs("misc") = 204
  <1>1. NumRegs("int") = 38
    BY NamesDistinct DEF Distinct, NumRegs, NumMicroIntRegs, NumImplicitIntRegs
  <1>2. NumRegs("float") = 56
    BY DEF NumRegs, NumMMXRegs, NumXMMRegs, NumMicroFpRegs
  <1>3. NumRegs("misc") = 204
    BY NamesDistinct DEF Distinct, NumRegs, X87_TOP, SEG_SEL_BASE, EFER, RFLAGS,
         NumCRegs, NumDRegs, NUM_SEGMENTREGS
  <1>4. QED  BY <1>1, <1>2, <1>3

(* Every string has as many numbers as gem5's array.                       *)
LEMMA StringsFit ==
    ASSUME NEW f \in {"int", "float", "misc"}
    PROVE  /\ Len(RegString(f)) = NumRegs(f) /\ NumRegs(f) \in Nat
           /\ \A k \in 1 .. NumRegs(f) : RegString(f)[k] = GetItem(Order(f)[k])
  <1>1. Len(IntOrder) = 38 /\ Len(FloatOrder) = 56 /\ Len(MiscOrder) = 204
    BY IntLayout, FloatLayout, MiscLayout, Zenon DEF Block, MiscBlock
  <1>2. Len(Order(f)) = NumRegs(f) /\ NumRegs(f) \in Nat
    <2>1. CASE f = "int"
      <3>1. NumRegs(f) = 38  BY <2>1, Sizes, Zenon
      <3>2. Order(f) = IntOrder  BY <2>1 DEF Order
      <3>3. QED  BY <1>1, <3>1, <3>2
    <2>2. CASE f = "float"
      <3>1. NumRegs(f) = 56  BY <2>2, Sizes, Zenon
      <3>2. Order(f) = FloatOrder  BY <2>2 DEF Order
      <3>3. QED  BY <1>1, <3>1, <3>2
    <2>3. CASE f = "misc"
      <3>1. NumRegs(f) = 204  BY <2>3, Sizes, Zenon
      <3>2. Order(f) = MiscOrder  BY <2>3 DEF Order
      <3>3. QED  BY <1>1, <3>1, <3>2
    <2>4. QED  BY <2>1, <2>2, <2>3
  <1>3. QED  BY <1>2 DEF RegString

(* RegisterValues returns a captured register's own value, xmm aside.      *)
LEMMA CapturedKept ==
    ASSUME NEW r \in Captured, r[1] \notin {"xmm_low", "xmm_high"}
    PROVE  GetItem(r) = r
  BY DEF GetItem, Half

(* Every integer register is written at its index.                         *)
LEMMA IntPlaces ==
    ASSUME NEW r \in DOMAIN Index("int")
    PROVE  /\ Index("int")[r] \in 0 .. 37 /\ IntOrder[Index("int")[r] + 1] = r
           /\ r \in Captured /\ r[1] \notin {"xmm_low", "xmm_high"}
  <1>1. /\ r \in {<<n, 0>> : n \in Range(IntRegIndex)}
        /\ Index("int")[r] = At(IntRegIndex, r[1])
    BY DEF Index
  <1>2. DOMAIN IntRegIndex = 1 .. 16  BY DEF IntRegIndex
  <1>3. PICK k \in 1 .. 16 : r = <<IntRegIndex[k], 0>>  BY <1>1, <1>2 DEF Range
  <1>4. Index("int")[r] = k - 1
    <2>1. At(IntRegIndex, IntRegIndex[k]) = k - 1  BY AtPlace, NamesDistinct
    <2>2. r[1] = IntRegIndex[k]  BY <1>3
    <2>3. QED  BY <1>1, <2>1, <2>2, Zenon
  <1>5. r[1] \notin {"xmm_low", "xmm_high"}  BY <1>3 DEF IntRegIndex
  <1>6. r \in Captured
    <2> DEFINE c == <<"rax", "rcx", "rdx", "rbx", "rsp", "rbp", "rsi", "rdi", "r8", "r9", "r10",
                      "r11", "r12", "r13", "r14", "r15", "rflags", "mxcsr", "ftag", "fiseg",
                      "fioff", "foseg", "fooff", "fop", "m5", "efer">>
    <2>1. Len(c) = 26 /\ c[k] = IntRegIndex[k]  BY DEF IntRegIndex
    <2>2. Range(Named(c)) \subseteq Captured  BY Zenon DEF Captured
    <2> HIDE DEF c
    <2>3. k \in DOMAIN Named(c) /\ Named(c)[k] = r  BY <1>3, <2>1 DEF Named
    <2>4. QED  BY <2>2, <2>3 DEF Range
  <1>7. QED  BY <1>3, <1>4, <1>5, <1>6, IntLayout

(* MiscRegIndex with the bases of its families worked out.                 *)
LEMMA MiscIndexIs ==
    ASSUME NEW r \in DOMAIN Index("misc")
    PROVE  /\ r \in Captured /\ r \in Range(MiscOrder)
           /\ r[1] = "cr" => Index("misc")[r] = r[2]
           /\ r[1] = "dr" => Index("misc")[r] = 16 + r[2]
           /\ r[1] = "rflags" => Index("misc")[r] = 24
           /\ r[1] = "m5" => Index("misc")[r] = 25
           /\ r[1] = "efer" => Index("misc")[r] = 100
           /\ r[1] = "sel" => Index("misc")[r] = 126 + At(SegmentRegIndex, r[2])
           /\ r[1] = "base" => Index("misc")[r] = 139 + At(SegmentRegIndex, r[2])
           /\ r[1] = "eff_base" => Index("misc")[r] = 152 + At(SegmentRegIndex, r[2])
           /\ r[1] = "attr" => Index("misc")[r] = 178 + At(SegmentRegIndex, r[2])
           /\ r[1] \in {"mxcsr", "ftag", "fiseg", "fioff", "foseg", "fooff", "fop"}
                 => Index("misc")[r] = 191 + At(X87, r[1])
  <1>1. DOMAIN Index("misc") = Captured \cap Range(MiscOrder)  BY DEF Index
  <1>2. NumCRegs = 16 /\ RFLAGS = 24 /\ EFER = 100 /\ SEG_SEL_BASE = 126 /\ NUM_SEGMENTREGS = 13
        /\ X87_TOP = 191
    BY DEF NumCRegs, NumDRegs, RFLAGS, EFER, SEG_SEL_BASE, NUM_SEGMENTREGS, X87_TOP
  <1>3. QED  BY <1>1, <1>2 DEF Index

(* Every captured miscellaneous register is written at its index: the      *)
(* order of CheckpointTemplate and the enumeration of gem5 coincide where  *)
(* it matters.                                                             *)
LEMMA MiscPlaces ==
    ASSUME NEW r \in DOMAIN Index("misc")
    PROVE  /\ Index("misc")[r] \in 0 .. 203 /\ MiscOrder[Index("misc")[r] + 1] = r
           /\ r \in Captured /\ r[1] \notin {"xmm_low", "xmm_high"}
  <1> DEFINE c == <<"rax", "rcx", "rdx", "rbx", "rsp", "rbp", "rsi", "rdi", "r8", "r9", "r10",
                    "r11", "r12", "r13", "r14", "r15", "rflags", "mxcsr", "ftag", "fiseg",
                    "fioff", "foseg", "fooff", "fop", "m5", "efer">>
             Goal == Index("misc")[r] \in 0 .. 203 /\ MiscOrder[Index("misc")[r] + 1] = r
  <1>1. r \in Captured /\ r \in Range(MiscOrder)  BY MiscIndexIs, Zenon
  <1>2. r[1] \notin Foreign
    <2>1. Native(MiscOrder) /\ Len(MiscOrder) = 204 /\ DOMAIN MiscOrder = 1 .. 204
      BY MiscLayout, Zenon DEF MiscBlock, Block
    <2>2. PICK k \in DOMAIN MiscOrder : r = MiscOrder[k]  BY <1>1, Zenon DEF Range
    <2>3. k \in 1 .. Len(MiscOrder)  BY <2>1
    <2>4. QED  BY <2>1, <2>2, <2>3, Zenon DEF Native
  <1>3. \/ r \in Range(Named(c))
        \/ r \in {<<"cr", 0>>, <<"dr", 6>>, <<"dr", 7>>, <<"base", "fs">>, <<"eff_base", "fs">>}
        \/ r \in {<<"sel", s>> : s \in {"es", "cs", "ss", "ds", "fs", "gs"}}
        \/ r \in Range(Suffixed("attr"))
        \/ r \in Range(Bank("xmm_low", 16)) \/ r \in Range(Bank("xmm_high", 16))
    BY <1>1, Zenon DEF Captured
  <1>4. ASSUME r \in Range(Named(c)) PROVE Goal
    <2>1. Len(c) = 26 /\ \A k \in 1 .. 26 : c[k] \in Foreign \/
              c[k] \in {"rflags", "m5", "efer"} \/
              c[k] \in {"mxcsr", "ftag", "fiseg", "fioff", "foseg", "fooff", "fop"}
      BY DEF Foreign
    <2> HIDE DEF c
    <2>2. PICK k \in 1 .. 26 : r = <<c[k], 0>>  BY <1>4, <2>1 DEF Range, Named
    <2>3. r[1] = c[k]  BY <2>2
    <2>4. CASE c[k] = "rflags"
      <3>1. Index("misc")[r] = 24
        <4>1. r[1] = "rflags" => Index("misc")[r] = 24  BY MiscIndexIs
        <4>2. QED  BY <2>3, <2>4, <4>1, Zenon
      <3>2. MiscOrder[25] = r  BY <2>2, <2>4, MiscLayout, Zenon
      <3>3. QED  BY <3>1, <3>2
    <2>5. CASE c[k] = "m5"
      <3>1. Index("misc")[r] = 25
        <4>1. r[1] = "m5" => Index("misc")[r] = 25  BY MiscIndexIs
        <4>2. QED  BY <2>3, <2>5, <4>1, Zenon
      <3>2. MiscOrder[26] = r  BY <2>2, <2>5, MiscLayout, Zenon
      <3>3. QED  BY <3>1, <3>2
    <2>6. CASE c[k] = "efer"
      <3>1. Index("misc")[r] = 100
        <4>1. r[1] = "efer" => Index("misc")[r] = 100  BY MiscIndexIs
        <4>2. QED  BY <2>3, <2>6, <4>1, Zenon
      <3>2. MiscOrder[101] = r  BY <2>2, <2>6, MiscLayout, Zenon
      <3>3. QED  BY <3>1, <3>2
    <2>7. CASE c[k] \in {"mxcsr", "ftag", "fiseg", "fioff", "foseg", "fooff", "fop"}
      <3>1. PICK x \in 1 .. 13 : X87[x] = c[k]  BY <2>7 DEF X87
      <3>2. At(X87, c[k]) = x - 1
        <4>1. At(X87, X87[x]) = x - 1  BY AtPlace, NamesDistinct
        <4>2. QED  BY <3>1, <4>1, Zenon
      <3>3. Index("misc")[r] = 191 + At(X87, c[k])
        <4>1. r[1] \in {"mxcsr", "ftag", "fiseg", "fioff", "foseg", "fooff", "fop"}
                 => Index("misc")[r] = 191 + At(X87, r[1])
          BY MiscIndexIs
        <4>2. QED  BY <2>3, <2>7, <4>1, Zenon
      <3>4. \A k1 \in 192 .. 204 : MiscOrder[k1] = <<X87[k1 - 191], 0>>  BY MiscLayout, Zenon
      <3>5. MiscOrder[191 + x] = <<X87[x], 0>>  BY <3>4
      <3>6. QED  BY <2>2, <3>1, <3>2, <3>3, <3>5
    <2>8. QED  BY <1>2, <2>1, <2>3, <2>4, <2>5, <2>6, <2>7
  <1>5. ASSUME r \in {<<"cr", 0>>, <<"dr", 6>>, <<"dr", 7>>} PROVE Goal
    <2>1. /\ \A k \in 1 .. 16 : MiscOrder[k] = <<"cr", k - 1>>
          /\ \A k \in 17 .. 24 : MiscOrder[k] = <<"dr", k - 17>>
      BY MiscLayout, Zenon
    <2>2. CASE r = <<"cr", 0>>
      <3>1. r[1] = "cr" /\ r[2] = 0  BY <2>2
      <3>2. Index("misc")[r] = r[2]  BY <3>1, MiscIndexIs, Zenon
      <3>3. QED  BY <2>1, <2>2, <3>1, <3>2
    <2>3. ASSUME NEW d \in {6, 7}, r = <<"dr", d>> PROVE Goal
      <3>1. r[1] = "dr" /\ r[2] = d  BY <2>3
      <3>2. Index("misc")[r] = 16 + r[2]  BY <3>1, MiscIndexIs, Zenon
      <3>3. QED  BY <2>1, <2>3, <3>1, <3>2
    <2>4. QED  BY <1>5, <2>2, <2>3, Zenon
  <1>6. ASSUME NEW x \in 1 .. 13,
               r \in {<<"sel", SegmentRegIndex[x]>>, <<"base", SegmentRegIndex[x]>>,
                      <<"eff_base", SegmentRegIndex[x]>>, <<"attr", SegmentRegIndex[x]>>}
        PROVE  Goal
    <2>1. At(SegmentRegIndex, SegmentRegIndex[x]) = x - 1  BY AtPlace, NamesDistinct
    <2>2. \A k \in 127 .. 191 : MiscOrder[k] = SegmentOrder[k - 126]  BY MiscLayout, Zenon
    <2>3. CASE r = <<"sel", SegmentRegIndex[x]>>
      <3>1. r[1] = "sel" /\ r[2] = SegmentRegIndex[x]  BY <2>3
      <3>2. Index("misc")[r] = 126 + At(SegmentRegIndex, r[2])  BY <3>1, MiscIndexIs, Zenon
      <3>3. \A k \in 1 .. 13 : SegmentOrder[k] = <<"sel", SegmentRegIndex[k]>>
        BY SegmentLayout, Zenon
      <3>4. SegmentOrder[x] = r  BY <2>3, <3>3
      <3>5. Index("misc")[r] = 125 + x  BY <2>1, <3>1, <3>2
      <3>6. QED  BY <2>2, <3>4, <3>5
    <2>4. CASE r = <<"base", SegmentRegIndex[x]>>
      <3>1. r[1] = "base" /\ r[2] = SegmentRegIndex[x]  BY <2>4
      <3>2. Index("misc")[r] = 139 + At(SegmentRegIndex, r[2])  BY <3>1, MiscIndexIs, Zenon
      <3>3. \A k \in 14 .. 26 : SegmentOrder[k] = <<"base", SegmentRegIndex[k - 13]>>
        BY SegmentLayout, Zenon
      <3>4. SegmentOrder[13 + x] = r  BY <2>4, <3>3
      <3>5. Index("misc")[r] = 138 + x  BY <2>1, <3>1, <3>2
      <3>6. QED  BY <2>2, <3>4, <3>5
    <2>5. CASE r = <<"eff_base", SegmentRegIndex[x]>>
      <3>1. r[1] = "eff_base" /\ r[2] = SegmentRegIndex[x]  BY <2>5
      <3>2. Index("misc")[r] = 152 + At(SegmentRegIndex, r[2])  BY <3>1, MiscIndexIs, Zenon
      <3>3. \A k \in 27 .. 39 : SegmentOrder[k] = <<"eff_base", SegmentRegIndex[k - 26]>>
        BY SegmentLayout, Zenon
      <3>4. SegmentOrder[26 + x] = r  BY <2>5, <3>3
      <3>5. Index("misc")[r] = 151 + x  BY <2>1, <3>1, <3>2
      <3>6. QED  BY <2>2, <3>4, <3>5
    <2>6. CASE r = <<"attr", SegmentRegIndex[x]>>
      <3>1. r[1] = "attr" /\ r[2] = SegmentRegIndex[x]  BY <2>6
      <3>2. Index("misc")[r] = 178 + At(SegmentRegIndex, r[2])  BY <3>1, MiscIndexIs, Zenon
      <3>3. \A k \in 53 .. 65 : SegmentOrder[k] = <<"attr", SegmentRegIndex[k - 52]>>
        BY SegmentLayout, Zenon
      <3>4. SegmentOrder[52 + x] = r  BY <2>6, <3>3
      <3>5. Index("misc")[r] = 177 + x  BY <2>1, <3>1, <3>2
      <3>6. QED  BY <2>2, <3>4, <3>5
    <2>7. QED  BY <1>6, <2>3, <2>4, <2>5, <2>6, Zenon
  <1>7. \A s \in {"es", "cs", "ss", "ds", "fs", "gs"} : \E x \in 1 .. 13 : SegmentRegIndex[x] = s
    BY DEF SegmentRegIndex
  <1>8. ASSUME r \in {<<"base", "fs">>, <<"eff_base", "fs">>} PROVE Goal
    BY <1>6, <1>7, <1>8, Zenon
  <1>9. ASSUME NEW s \in {"es", "cs", "ss", "ds", "fs", "gs"}, r = <<"sel", s>> PROVE Goal
    BY <1>6, <1>7, <1>9, Zenon
  <1>10. ASSUME r \in Range(Suffixed("attr")) PROVE Goal
    <2>1. /\ DOMAIN Suffixed("attr") = 1 .. 13
          /\ \A x \in 1 .. 13 : Suffixed("attr")[x] = <<"attr", SegmentRegIndex[x]>>
      BY DEF Suffixed, SegmentRegIndex
    <2>2. PICK x \in 1 .. 13 : r = <<"attr", SegmentRegIndex[x]>>
      BY <1>10, <2>1, Zenon DEF Range
    <2>3. QED  BY <1>6, <2>2, Zenon
  <1>11. r \notin Range(Bank("xmm_low", 16)) /\ r \notin Range(Bank("xmm_high", 16))
    <2>1. \A name : \A q \in Range(Bank(name, 16)) : q[1] = name  BY DEF Range, Bank
    <2>2. QED  BY <1>2, <2>1 DEF Foreign
  <1>12. Goal  BY <1>3, <1>4, <1>5, <1>8, <1>9, <1>10, <1>11, Zenon
  <1>13. QED  BY <1>1, <1>2, <1>12 DEF Foreign

-----------------------------------------------------------------------------
(* The part of the file that was read holds the numbers of the string.     *)
RegIInv ==
    /\ file \in Files /\ stage \in {"param", "set"}
    /\ i \in 0 .. NumRegs(file)
    /\ DOMAIN regs = 0 .. NumRegs(file) - 1
    /\ \A k \in 0 .. i - 1 : regs[k] = RegString(file)[k + 1]

(* get_float_reg_string writes every half of an xmm register eight places  *)
(* behind its index: the number that belongs to it is there, and no other. *)
(* This is the whole disagreement the float file has with gem5.            *)
THEOREM XmmEightTooFar ==
    \A r \in DOMAIN Index("float") : RegString("float")[Index("float")[r] + 8 + 1] = r
  <1> SUFFICES ASSUME NEW r \in DOMAIN Index("float")
               PROVE  RegString("float")[Index("float")[r] + 8 + 1] = r
    OBVIOUS
  <1>1. /\ r \in {"xmm_low", "xmm_high"} \X (0 .. 15)
        /\ Index("float")[r] = 8 + 2 * r[2] + (IF r[1] = "xmm_high" THEN 1 ELSE 0)
    BY DEF Index, NumXMMRegs, FLOATREG_XMM_BASE, NumMMXRegs
  <1>2. PICK j \in 0 .. 15 : r = <<"xmm_low", j>> \/ r = <<"xmm_high", j>>  BY <1>1
  <1>3. /\ FloatOrder[17 + 2 * j] = <<"xmm_high", j>>
        /\ FloatOrder[18 + 2 * j] = <<"xmm_low", j>>
    BY FloatLayout
  <1>4. /\ RegString("float")[17 + 2 * j] = GetItem(FloatOrder[17 + 2 * j])
        /\ RegString("float")[18 + 2 * j] = GetItem(FloatOrder[18 + 2 * j])
    <2>1. \A k \in 1 .. NumRegs("float") : RegString("float")[k] = GetItem(Order("float")[k])
      BY StringsFit, Zenon
    <2>2. NumRegs("float") = 56 /\ Order("float") = FloatOrder  BY Sizes DEF Order
    <2>3. 17 + 2 * j \in 1 .. 56 /\ 18 + 2 * j \in 1 .. 56  OBVIOUS
    <2>4. QED  BY <2>1, <2>2, <2>3, Zenon
  <1>5. <<"xmm_high", j>> \in Captured /\ <<"xmm_low", j>> \in Captured
    <2>1. /\ j + 1 \in DOMAIN Bank("xmm_high", 16)
          /\ Bank("xmm_high", 16)[j + 1] = <<"xmm_high", j>>
          /\ j + 1 \in DOMAIN Bank("xmm_low", 16)
          /\ Bank("xmm_low", 16)[j + 1] = <<"xmm_low", j>>
      BY DEF Bank
    <2>2. /\ <<"xmm_high", j>> \in Range(Bank("xmm_high", 16))
          /\ <<"xmm_low", j>> \in Range(Bank("xmm_low", 16))
      BY <2>1, Zenon DEF Range
    <2>3. QED  BY <2>2, Zenon DEF Captured
  <1>6. /\ GetItem(<<"xmm_high", j>>) = <<"xmm_low", j>>
        /\ GetItem(<<"xmm_low", j>>) = <<"xmm_high", j>>
    BY <1>5 DEF GetItem, Half
  <1>7. CASE r = <<"xmm_low", j>>  BY <1>1, <1>3, <1>4, <1>6, <1>7
  <1>8. CASE r = <<"xmm_high", j>>  BY <1>1, <1>3, <1>4, <1>6, <1>8
  <1>9. QED  BY <1>2, <1>7, <1>8

(* unserialize fills the array from the string in order, for every choice  *)
(* of register files.                                                      *)
THEOREM RegInvariant == RegSpec => []RegIInv
  <1>1. RegInit => RegIInv
    BY FilesAssumption, StringsFit DEF RegInit, RegIInv
  <1>2. RegIInv /\ [RegNext]_regVars => RegIInv'
    <2> SUFFICES ASSUME RegIInv, [RegNext]_regVars PROVE RegIInv'  OBVIOUS
    <2>1. NumRegs(file) \in Nat /\ Len(RegString(file)) = NumRegs(file)
      BY FilesAssumption, StringsFit DEF RegIInv
    <2>2. CASE UNCHANGED regVars  BY <2>2 DEF regVars, RegIInv
    <2>3. CASE ArrayParamIn  BY <2>1, <2>3 DEF ArrayParamIn, RegIInv
    <2>4. CASE SetReg  BY <2>1, <2>4 DEF SetReg, RegIInv
    <2>5. QED  BY <2>2, <2>3, <2>4 DEF RegNext
  <1>3. QED  BY <1>1, <1>2, PTL DEF RegSpec

(* gem5 never refuses a string of registers for its length: arrayParamIn   *)
(* has no occasion for its fatal error, whichever files are restored.      *)
THEOREM EveryStringAccepted == RegSpec => []Accepted
  <1>1. RegIInv => Accepted  BY DEF RegIInv, Accepted
  <1>2. QED  BY <1>1, RegInvariant, PTL

(* Without the floating-point file, every register that was captured is    *)
(* restored into gem5's register of that name. The hypothesis is needed:   *)
(* the run on the float file violates Restored.                            *)
THEOREM RegistersRestored ==
    ASSUME "float" \notin Files
    PROVE  RegSpec => []Restored
  <1>1. RegIInv => Restored
    <2> SUFFICES ASSUME RegIInv, NEW r \in DOMAIN Index(file), Index(file)[r] < i
                 PROVE  regs[Index(file)[r]] = r
      BY DEF Restored
    <2>1. file \in {"int", "misc"}  BY FilesAssumption DEF RegIInv
    <2>2. /\ Index(file)[r] \in 0 .. NumRegs(file) - 1 /\ Order(file)[Index(file)[r] + 1] = r
          /\ r \in Captured /\ r[1] \notin {"xmm_low", "xmm_high"}
      <3>1. CASE file = "int"
        <4>1. NumRegs(file) = 38 /\ Order(file) = IntOrder  BY <3>1, Sizes DEF Order
        <4>2. QED  BY <3>1, <4>1, IntPlaces
      <3>2. CASE file = "misc"
        <4>1. NumRegs(file) = 204 /\ Order(file) = MiscOrder  BY <3>2, Sizes DEF Order
        <4>2. QED  BY <3>2, <4>1, MiscPlaces
      <3>3. QED  BY <2>1, <3>1, <3>2
    <2>3. GetItem(r) = r  BY <2>2, CapturedKept, Zenon
    <2>4. RegString(file)[Index(file)[r] + 1] = r
      <3>1. /\ NumRegs(file) \in Nat
            /\ \A k \in 1 .. NumRegs(file) : RegString(file)[k] = GetItem(Order(file)[k])
        BY <2>1, StringsFit
      <3>2. Index(file)[r] + 1 \in 1 .. NumRegs(file)  BY <2>2, <3>1
      <3>3. QED  BY <2>2, <2>3, <3>1, <3>2, Zenon
    <2>5. QED  BY <2>2, <2>4 DEF RegIInv
  <1>2. QED  BY <1>1, RegInvariant, PTL
=============================================================================
