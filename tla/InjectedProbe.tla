---------------------------- MODULE InjectedProbe ----------------------------
(***************************************************************************)
(* How the engine learns brk and fs_base (GDBEngine._get_brk_value,         *)
(* _get_fs_base): a piece of C is run inside the stopped inferior and       *)
(* appends the value to a file in /tmp, whose name is the same for every    *)
(* engine on the machine; the engine reads the first value and removes the  *)
(* file.  An engine may be killed at any point, or the call may fail.       *)
(* The names differ from those of IntervalTimer: InferiorProofs has both.   *)
(***************************************************************************)
EXTENDS Naturals, Sequences

CONSTANTS
    Engines,
    Concurrent,     \* whether engines run at the same time
    MaxRuns,        \* bound: runs of all engines together
    MaxBrk,         \* bound: checkpoints per run
    MaxKills        \* bound: runs that end half-way

ASSUME ConcurrentAssumption == Concurrent \in BOOLEAN
ASSUME ProbeBoundsAssumption == {MaxRuns, MaxBrk, MaxKills} \subseteq Nat

VARIABLES
    at,         \* where each engine is
    run,        \* the number of each engine's current run
    moved,      \* how often its inferior has run: brk differs each time
    sbrk_txt, fs_base_txt,      \* the files: the values appended, Absent
    brk, fs_base,               \* what each engine has read
    started, kills,
    wrong       \* history: runs that have read another run's fs_base

probe == <<run, moved, started>>
probeVars == <<at, probe, sbrk_txt, fs_base_txt, brk, fs_base, kills, wrong>>

Absent == <<>>
Zero == <<0, 0>>

(* The values of a run: fs_base stays, brk may change when the program runs. *)
FsBase(e) == <<run[e], 0>>
Brk(e) == <<run[e], moved[e]>>
Value == (0 .. MaxRuns) \X (0 .. MaxBrk)

(* f.read()[:8], and 0 without a file.                                     *)
FirstOf(file) == IF file = Absent THEN Zero ELSE Head(file)

ProbeInit ==
    /\ at = [e \in Engines |-> "off"]
    /\ run = [e \in Engines |-> 0] /\ moved = [e \in Engines |-> 0]
    /\ sbrk_txt = Absent /\ fs_base_txt = Absent
    /\ brk = [e \in Engines |-> Zero] /\ fs_base = [e \in Engines |-> Zero]
    /\ started = 0 /\ kills = 0 /\ wrong = 0

(* _run_base has reached main of a new inferior.                           *)
RunBase(e) ==
    /\ at[e] = "off" /\ started < MaxRuns
    /\ Concurrent \/ \A f \in Engines : at[f] = "off"
    /\ at' = [at EXCEPT ![e] = "fs_inject"]
    /\ started' = started + 1
    /\ run' = [run EXCEPT ![e] = started'] /\ moved' = [moved EXCEPT ![e] = 0]
    /\ brk' = [brk EXCEPT ![e] = Zero] /\ fs_base' = [fs_base EXCEPT ![e] = Zero]
    /\ UNCHANGED <<sbrk_txt, fs_base_txt, kills, wrong>>

InjectFsBase(e) ==
    /\ at[e] = "fs_inject" /\ at' = [at EXCEPT ![e] = "fs_read"]
    /\ fs_base_txt' = Append(fs_base_txt, FsBase(e))
    /\ UNCHANGED <<probe, sbrk_txt, brk, fs_base, kills, wrong>>

ReadFsBase(e) ==
    /\ at[e] = "fs_read" /\ at' = [at EXCEPT ![e] = "fs_unlink"]
    /\ fs_base' = [fs_base EXCEPT ![e] = FirstOf(fs_base_txt)]
    /\ wrong' = IF fs_base'[e] = FsBase(e) THEN wrong ELSE wrong + 1
    /\ UNCHANGED <<probe, sbrk_txt, fs_base_txt, brk, kills>>

(* Mutant: the file stays.                                                 *)
UnlinkFsBaseNot(e) ==
    /\ at[e] = "fs_unlink" /\ at' = [at EXCEPT ![e] = "ready"]
    /\ UNCHANGED <<probe, sbrk_txt, fs_base_txt, brk, fs_base, kills, wrong>>

(* Removing a file that is gone ends the engine: nobody catches OSError.   *)
UnlinkFsBase(e) ==
    /\ at[e] = "fs_unlink"
    /\ at' = [at EXCEPT ![e] = IF fs_base_txt = Absent THEN "off" ELSE "ready"]
    /\ fs_base_txt' = Absent
    /\ UNCHANGED <<probe, sbrk_txt, brk, fs_base, kills, wrong>>

(* The inferior ran and has stopped for the next checkpoint.               *)
RunOn(e) ==
    /\ at[e] = "ready" /\ moved[e] < MaxBrk
    /\ moved' = [moved EXCEPT ![e] = @ + 1] /\ at' = [at EXCEPT ![e] = "brk_exists"]
    /\ UNCHANGED <<run, started, sbrk_txt, fs_base_txt, brk, fs_base, kills, wrong>>

(* Mutant: as for fs_base, no old file is expected.                        *)
CheckBrkFileNot(e) ==
    /\ at[e] = "brk_exists" /\ at' = [at EXCEPT ![e] = "brk_inject"]
    /\ UNCHANGED <<probe, sbrk_txt, fs_base_txt, brk, fs_base, kills, wrong>>

CheckBrkFile(e) ==
    /\ at[e] = "brk_exists"
    /\ at' = [at EXCEPT ![e] = IF sbrk_txt = Absent THEN "brk_inject" ELSE "brk_remove"]
    /\ UNCHANGED <<probe, sbrk_txt, fs_base_txt, brk, fs_base, kills, wrong>>

RemoveBrkFile(e) ==
    /\ at[e] = "brk_remove"
    /\ at' = [at EXCEPT ![e] = IF sbrk_txt = Absent THEN "off" ELSE "brk_inject"]
    /\ sbrk_txt' = Absent
    /\ UNCHANGED <<probe, fs_base_txt, brk, fs_base, kills, wrong>>

InjectBrk(e) ==
    /\ at[e] = "brk_inject" /\ at' = [at EXCEPT ![e] = "brk_read"]
    /\ sbrk_txt' = Append(sbrk_txt, Brk(e))
    /\ UNCHANGED <<probe, fs_base_txt, brk, fs_base, kills, wrong>>

ReadBrk(e) ==
    /\ at[e] = "brk_read" /\ at' = [at EXCEPT ![e] = "brk_unlink"]
    /\ brk' = [brk EXCEPT ![e] = FirstOf(sbrk_txt)]
    /\ UNCHANGED <<probe, sbrk_txt, fs_base_txt, fs_base, kills, wrong>>

UnlinkBrk(e) ==
    /\ at[e] = "brk_unlink"
    /\ at' = [at EXCEPT ![e] = IF sbrk_txt = Absent THEN "off" ELSE "ready"]
    /\ sbrk_txt' = Absent
    /\ UNCHANGED <<probe, fs_base_txt, brk, fs_base, kills, wrong>>

Stop(e) ==
    /\ at[e] = "ready" /\ at' = [at EXCEPT ![e] = "off"]
    /\ UNCHANGED <<probe, sbrk_txt, fs_base_txt, brk, fs_base, kills, wrong>>

(* A kill, or an injected call that fails after it has written.            *)
Killed(e) ==
    /\ at[e] \notin {"off", "ready"} /\ kills < MaxKills
    /\ at' = [at EXCEPT ![e] = "off"] /\ kills' = kills + 1
    /\ UNCHANGED <<probe, sbrk_txt, fs_base_txt, brk, fs_base, wrong>>

ProbeNext == \E e \in Engines :
    \/ RunBase(e) \/ InjectFsBase(e) \/ ReadFsBase(e) \/ UnlinkFsBase(e)
    \/ RunOn(e) \/ CheckBrkFile(e) \/ RemoveBrkFile(e) \/ InjectBrk(e) \/ ReadBrk(e)
    \/ UnlinkBrk(e) \/ Stop(e) \/ Killed(e)

ProbeSpec == ProbeInit /\ [][ProbeNext]_probeVars

-----------------------------------------------------------------------------
(* Every variable stays in its domain.                                     *)
ProbeTypeOK ==
    /\ at \in [Engines -> {"off", "fs_inject", "fs_read", "fs_unlink", "ready", "brk_exists",
                           "brk_remove", "brk_inject", "brk_read", "brk_unlink"}]
    /\ run \in [Engines -> 0 .. MaxRuns] /\ moved \in [Engines -> 0 .. MaxBrk]
    /\ sbrk_txt \in Seq(Value) /\ fs_base_txt \in Seq(Value)
    /\ brk \in [Engines -> Value] /\ fs_base \in [Engines -> Value]
    /\ started \in 0 .. MaxRuns /\ kills \in 0 .. MaxKills /\ wrong \in Nat

(* get_brk "is injected into the running binary so that it can make a       *)
(* syscall to retrieve the brk value": the value that goes into the         *)
(* checkpoint is that of this inferior at this stop, whatever earlier runs  *)
(* have left in /tmp.                                                      *)
OwnBrk == \A e \in Engines : at[e] = "brk_unlink" => brk[e] = Brk(e)

(* _get_fs_base does not look for an old file, but removes what it has      *)
(* read: a run that ended half-way spoils at most one later run.           *)
OneWrongRunPerKill == wrong <= kills
=============================================================================
