---------------------------- MODULE ParallelSim ----------------------------
(***************************************************************************)
(* Simulation of many checkpoints with a pool of worker processes, the      *)
(* summary file that lets a later session resume, and the result files the  *)
(* simulations leave behind.  A checkpoint is a natural number, its place   *)
(* in the natural order of directory names.  Of a result file only the       *)
(* session during which it was written matters, 0 when it does not exist.  *)
(***************************************************************************)
EXTENDS EvenSpacing

CONSTANTS
    Chk,            \* checkpoint directories
    MaxProcs,       \* --pool-size
    NumArgs,        \* values of --num-checkpoints a session may be given
    ForceArgs,      \* values of --force-rerun a session may be given
    MaxSessions,    \* model bound: number of sessions
    MaxLen          \* most checkpoints a selection is looked at for

ASSUME ChkAssumption == Chk \subseteq Nat /\ IsFiniteSet(Chk)
ASSUME MaxProcsAssumption == MaxProcs \in Nat \ {0}
ASSUME NumArgsAssumption == NumArgs \subseteq Nat
ASSUME ForceArgsAssumption == ForceArgs \subseteq BOOLEAN
ASSUME MaxSessionsAssumption == MaxSessions \in Nat
ASSUME MaxLenAssumption == MaxLen \in Nat \ {0}

Settled == {"invalid", "failed", "failed (timeout)", "successful"}
Status  == Settled \cup {"absent", "not run"}

VARIABLES
    dirs, pmem,         \* directories that exist, and that have a pmem file
    saved, torn,        \* the summary file; torn: a crash cut it short
    res,                \* res.json of each checkpoint
    session, force, pc, \* which session, its --force-rerun, where it is
    status,             \* self.summary['checkpoints']
    num_checkpoints, all_proc_args, successful_counter, failed_counter,
    tasks, batch,       \* checkpoints of the tracked tasks; round they were launched in
    rounds,             \* rounds of the outer loop so far
    expired,            \* time() - start_time exceeds timeout_seconds
    sim,                \* the pool's view of each checkpoint's task
    orphans             \* checkpoints with a gem5 process that outlived its pool

disk == <<dirs, pmem, saved, torn>>
task == <<tasks, batch, rounds, expired>>
book == <<status, successful_counter, failed_counter>>
plan == <<session, force, num_checkpoints>>
vars == <<disk, res, plan, pc, all_proc_args, book, task, sim, orphans>>

With(s) == {c \in Chk : status[c] = s}

Init ==
    /\ dirs = Chk /\ pmem \in SUBSET Chk
    /\ saved = [c \in Chk |-> "absent"] /\ torn = FALSE
    /\ res = [c \in Chk |-> 0]
    /\ session = 0 /\ force = FALSE /\ pc = "idle"
    /\ status = [c \in Chk |-> "absent"]
    /\ num_checkpoints = 0 /\ all_proc_args = {}
    /\ successful_counter = 0 /\ failed_counter = 0
    /\ tasks = {} /\ batch = [c \in Chk |-> 0] /\ rounds = 0
    /\ expired = [c \in Chk |-> FALSE]
    /\ sim = [c \in Chk |-> "none"] /\ orphans = {}

-----------------------------------------------------------------------------
(* A session.                                                              *)

(* Mutant: the summary file is never loaded.                               *)
LoadedNothing(f) == [c \in Chk |-> "absent"]

(* What a session knows of earlier ones.                                   *)
Loaded(f) == IF f THEN [c \in Chk |-> "absent"] ELSE saved

(* Mutant: more may be asked for than there is.                            *)
TargetUncapped(n, avail) == n

(* self.num_checkpoints: what was asked for, as far as it is available.     *)
Target(n, avail) == IF n < avail THEN n ELSE avail

(* ParallelSim.__init__ with arguments f and n: checkpoints whose status is *)
(* settled are dropped, the others are 'not run', or 'invalid' without pmem. *)
(* It raises when nothing is left to run.                                  *)
Construct(f, n) ==
    /\ pc = "idle" /\ session < MaxSessions /\ ~torn
    /\ session' = session + 1 /\ force' = f
    /\ LET old    == Loaded(f)
           chkpts == {c \in dirs : old[c] \notin Settled}
           succ   == Cardinality({c \in Chk : old[c] = "successful"})
           avail  == Cardinality(chkpts \cap pmem) + succ
       IN  /\ status' = [c \in Chk |-> IF c \notin chkpts THEN old[c]
                                       ELSE IF c \in pmem THEN "not run" ELSE "invalid"]
           /\ successful_counter' = succ
           /\ failed_counter' = Cardinality({c \in Chk : old[c] = "failed"})
           /\ all_proc_args' = chkpts \cap pmem
           /\ num_checkpoints' = Target(n, avail)
           /\ pc' = IF chkpts \cap pmem = {} THEN "aborting" ELSE "outer"
    /\ tasks' = {} /\ batch' = [c \in Chk |-> 0] /\ rounds' = 0
    /\ expired' = [c \in Chk |-> FALSE]
    /\ UNCHANGED <<disk, res, sim, orphans>>

(* The summary file was cut short: json.load raises in __init__, and         *)
(* __del__ replaces the file by an empty summary.                          *)
ConstructOnTorn ==
    /\ pc = "idle" /\ torn
    /\ torn' = FALSE /\ saved' = [c \in Chk |-> "absent"]
    /\ UNCHANGED <<dirs, pmem, res, plan, pc, all_proc_args, book, task, sim, orphans>>

WantsMore == successful_counter < num_checkpoints /\ all_proc_args # {}

(* One round of the outer loop: select what is still needed, submit it.    *)
Launch ==
    /\ pc = "outer" /\ WantsMore
    /\ rounds' = rounds + 1
    /\ LET chosen == SelectEvenlySpaced(all_proc_args, num_checkpoints - successful_counter)
       IN  /\ all_proc_args' = all_proc_args \ chosen
           /\ tasks' = tasks \cup chosen
           /\ batch' = [c \in Chk |-> IF c \in chosen THEN rounds + 1 ELSE batch[c]]
           /\ expired' = [c \in Chk |-> expired[c] /\ c \notin chosen]
           /\ sim' = [c \in Chk |-> IF c \in chosen THEN "queued" ELSE sim[c]]
    /\ pc' = "wait"
    /\ UNCHANGED <<disk, res, plan, book, orphans>>

LeaveOuter ==
    /\ pc = "outer" /\ ~WantsMore
    /\ pc' = IF successful_counter >= num_checkpoints THEN "finished" ELSE "straggle"
    /\ UNCHANGED <<disk, res, plan, all_proc_args, book, task, sim, orphans>>

(* tasks is iterated in the order of submission.                           *)
Before(c, d) == batch[c] < batch[d] \/ (batch[c] = batch[d] /\ c < d)

IsReady(c) == sim[c] \in {"ready", "raised"}

(* The status of the tasks found ready (S) or given up (T): a task          *)
(* succeeded if its result file exists.                                    *)
NewStatus(S, T) ==
    [c \in Chk |->
        IF c \in T THEN "failed (timeout)"
        ELSE IF c \in S THEN IF res[c] # 0 THEN "successful" ELSE "failed"
        ELSE status[c]]

Failures(S, T) == Cardinality({c \in S : res[c] = 0}) + Cardinality(T)

(* Mutants: a task given up is still tracked; it is not counted.           *)
RecordKeepsLate(S, T) ==
    /\ status' = NewStatus(S, T)
    /\ successful_counter' = successful_counter + Cardinality({c \in S : res[c] # 0})
    /\ failed_counter' = failed_counter + Failures(S, T)
    /\ tasks' = tasks \ S

RecordForgetsLate(S, T) ==
    /\ status' = NewStatus(S, T)
    /\ successful_counter' = successful_counter + Cardinality({c \in S : res[c] # 0})
    /\ failed_counter' = failed_counter + Failures(S, {})
    /\ tasks' = tasks \ (S \cup T)

(* The bookkeeping both loops do.                                          *)
Record(S, T) ==
    /\ status' = NewStatus(S, T)
    /\ successful_counter' = successful_counter + Cardinality({c \in S : res[c] # 0})
    /\ failed_counter' = failed_counter + Failures(S, T)
    /\ tasks' = tasks \ (S \cup T)

(* Mutant: the waiting loop has no timeout.                                *)
DoneWaitingNoTimeout(ready) ==
    tasks \subseteq ready \/ successful_counter' >= num_checkpoints

(* The waiting loop is left when all tasks are done, enough succeeded, or    *)
(* nothing finished in this pass and a clock has run out.                  *)
DoneWaiting(ready) ==
    \/ tasks \subseteq ready
    \/ successful_counter' >= num_checkpoints
    \/ ready = {} /\ \E c \in tasks : expired[c]

(* One pass of the waiting loop in which no task raises.  A task found ready *)
(* restarts the clocks of the tasks after it; a clock goes with its task.  *)
WaitPass ==
    /\ pc = "wait" /\ \A c \in tasks : sim[c] # "raised"
    /\ LET ready == {c \in tasks : IsReady(c)}
       IN  /\ Record(ready, {})
           /\ expired' = [c \in Chk |->
                expired[c] /\ c \in tasks' /\ ~\E d \in ready : Before(d, c)]
           /\ pc' = IF DoneWaiting(ready) THEN "outer" ELSE "wait"
    /\ UNCHANGED <<disk, res, plan, all_proc_args, batch, rounds, sim, orphans>>

(* task.get() re-raises: the tasks before it in the pass were recorded, the  *)
(* counters of the session are not stored.                                 *)
WaitRaises ==
    /\ pc = "wait"
    /\ \E r \in tasks :
        /\ sim[r] = "raised"
        /\ \A d \in tasks : sim[d] = "raised" => ~Before(d, r)
        /\ Record({c \in tasks : IsReady(c) /\ Before(c, r)}, {})
    /\ pc' = "aborting"
    /\ UNCHANGED <<disk, res, plan, all_proc_args, batch, rounds, expired, sim, orphans>>

(* Mutant: a task that is neither ready nor late does not keep the loop.   *)
ReadyIfQuiet(ready, late) == ready = {}

(* Every remaining task has just been given up.                            *)
ReadyToTerminate(ready, late) == ready = {} /\ late = tasks

(* One pass of the straggler loop: exceptions are not looked at.           *)
StragglerPass ==
    /\ pc = "straggle"
    /\ LET ready == {c \in tasks : IsReady(c)}
           late  == {c \in tasks : ~IsReady(c) /\ expired[c]}
       IN  /\ Record(ready, late)
           /\ expired' = [c \in Chk |-> expired[c] /\ c \in tasks']
           /\ pc' = IF ReadyToTerminate(ready, late) THEN "finished" ELSE "straggle"
    /\ UNCHANGED <<disk, res, plan, all_proc_args, batch, rounds, sim, orphans>>

(* The pool's workers are killed; the gem5 processes they started are not.  *)
KillPool ==
    /\ orphans' = orphans \cup {c \in Chk : sim[c] = "running"}
    /\ sim' = [c \in Chk |-> "none"]

(* The ParallelSim object and its local variables are gone.                *)
Forget ==
    /\ pc' = "idle" /\ force' = FALSE /\ session' = session
    /\ status' = [c \in Chk |-> "absent"]
    /\ num_checkpoints' = 0 /\ all_proc_args' = {}
    /\ successful_counter' = 0 /\ failed_counter' = 0
    /\ tasks' = {} /\ batch' = [c \in Chk |-> 0] /\ rounds' = 0
    /\ expired' = [c \in Chk |-> FALSE]

(* The Pool's context ends, then __del__ writes the summary file ...       *)
Destroy ==
    /\ pc \in {"finished", "aborting"}
    /\ saved' = status /\ KillPool /\ Forget
    /\ UNCHANGED <<dirs, pmem, torn, res>>

(* ... unless the process dies while it does, or before.                   *)
Killed ==
    /\ pc # "idle"
    /\ torn' \in BOOLEAN /\ (torn' => pc \in {"finished", "aborting"})
    /\ KillPool /\ Forget
    /\ UNCHANGED <<dirs, pmem, saved, res>>

-----------------------------------------------------------------------------
(* The pool, the simulations, the clock and the rest of the world.         *)

StartSim(c) ==
    /\ sim[c] = "queued"
    /\ Cardinality({d \in Chk : sim[d] = "running"}) < MaxProcs
    /\ \A d \in Chk : sim[d] = "queued" => ~Before(d, c)
    /\ sim' = [sim EXCEPT ![c] = "running"]
    /\ UNCHANGED <<disk, res, plan, pc, all_proc_args, book, task, orphans>>

(* _run_process returns or raises, whether or not a result was written.    *)
EndSim(c) ==
    /\ sim[c] = "running"
    /\ \E s \in {"ready", "raised"} : sim' = [sim EXCEPT ![c] = s]
    /\ \E r \in {session, res[c]} : res' = [res EXCEPT ![c] = r]
    /\ UNCHANGED <<disk, plan, pc, all_proc_args, book, task, orphans>>

(* timeout_seconds pass.                                                   *)
Expire(c) ==
    /\ c \in tasks /\ ~expired[c] /\ pc \in {"wait", "straggle"}
    /\ expired' = [expired EXCEPT ![c] = TRUE]
    /\ UNCHANGED <<disk, res, plan, pc, all_proc_args, book, tasks, batch, rounds, sim, orphans>>

(* An orphan ends, with a result or without.                               *)
OrphanEnds(c) ==
    /\ c \in orphans
    /\ orphans' = orphans \ {c}
    /\ \/ res' = [res EXCEPT ![c] = session]
       \/ res' = res
    /\ UNCHANGED <<disk, plan, pc, all_proc_args, book, task, sim>>

(* Between sessions a checkpoint is converted, or removed.                 *)
ChangeDirs(c) ==
    /\ pc = "idle" /\ c \in dirs
    /\ \/ pmem' = pmem \cup {c} /\ dirs' = dirs
       \/ pmem' = pmem \ {c} /\ dirs' = dirs \ {c}
    /\ UNCHANGED <<saved, torn, res, plan, pc, all_proc_args, book, task, sim, orphans>>

-----------------------------------------------------------------------------
Master == Launch \/ LeaveOuter \/ WaitPass \/ WaitRaises \/ StragglerPass \/ Destroy

Next ==
    \/ \E f \in ForceArgs, n \in NumArgs : Construct(f, n)
    \/ ConstructOnTorn \/ Master \/ Killed
    \/ \E c \in Chk :
        StartSim(c) \/ EndSim(c) \/ Expire(c) \/ OrphanEnds(c) \/ ChangeDirs(c)

Spec == Init /\ [][Next]_vars

(* The session's own process runs and time passes.  Nothing is assumed of  *)
(* the simulations: they may hang for ever.                                *)
Fairness == WF_vars(Master) /\ \A c \in Chk : WF_vars(Expire(c))

FairSpec == Spec /\ Fairness

-----------------------------------------------------------------------------
InSession == {"outer", "wait", "straggle", "finished", "aborting"}

(* Every variable stays in its domain.                                     *)
TypeOK ==
    /\ dirs \subseteq Chk /\ pmem \subseteq dirs
    /\ saved \in [Chk -> Status] /\ torn \in BOOLEAN
    /\ res \in [Chk -> 0 .. MaxSessions]
    /\ session \in 0 .. MaxSessions /\ force \in BOOLEAN
    /\ pc \in InSession \cup {"idle"}
    /\ status \in [Chk -> Status]
    /\ num_checkpoints \in Nat /\ all_proc_args \subseteq Chk
    /\ successful_counter \in Nat /\ failed_counter \in Nat
    /\ tasks \subseteq Chk /\ batch \in [Chk -> Nat] /\ rounds \in Nat
    /\ expired \in [Chk -> BOOLEAN]
    /\ sim \in [Chk -> {"none", "queued", "running", "ready", "raised"}]
    /\ orphans \subseteq Chk

(* No checkpoint is lost and none is simulated twice in a session: the      *)
(* existing ones still marked 'not run' are exactly those waiting to be     *)
(* selected and those with a tracked task, and never both.                 *)
NoneLostNoneTwice ==
    pc \in InSession =>
        /\ all_proc_args \cap tasks = {}
        /\ With("not run") \cap dirs = all_proc_args \cup tasks

(* The counters are the numbers of the checkpoints they count, of earlier   *)
(* sessions too; timeouts count where they happened, and are forgotten by   *)
(* the next __init__, which knows only the status 'failed'.                *)
CountersExact ==
    pc \in InSession =>
        /\ successful_counter = Cardinality(With("successful"))
        /\ failed_counter =
            Cardinality(With("failed"))
            + Cardinality({c \in With("failed (timeout)") : batch[c] > 0})

(* start() returns only when enough simulations succeeded or every          *)
(* checkpoint was tried and accounted for, whatever was slow or hung.      *)
FinishedMeansDone ==
    pc = "finished" =>
        successful_counter >= num_checkpoints \/ With("not run") \cap dirs = {}

(* A round submits no more simulations than are missing, so the target is   *)
(* exceeded only by tasks of rounds that were given up and answered late.  *)
NeverMoreThanNeeded ==
    pc \in InSession /\ rounds > 0 =>
        successful_counter + Cardinality({c \in tasks : batch[c] = rounds})
            <= num_checkpoints
               + Cardinality({c \in With("successful") : batch[c] \in 1 .. (rounds - 1)})

(* What may be asked of select_evenly_spaced.                              *)
Requests == {r \in (1 .. MaxLen) \X (1 .. MaxLen) : r[1] <= r[2]}
AllExact == \A r \in Requests : SelectsExactly(r[1], r[2])
AllEven  == \A r \in Requests : SelectsEvenly(r[1], r[2])

Left    == Cardinality(all_proc_args)
Missing == num_checkpoints - successful_counter

(* A round that is about to be launched gets from select_evenly_spaced as   *)
(* many checkpoints as are missing, or all that are left; and so does every *)
(* request for up to MaxLen checkpoints that can be met.                   *)
ExactSelection ==
    pc = "outer" /\ WantsMore =>
        /\ Cardinality(SelectEvenlySpaced(all_proc_args, Missing)) = Target(Missing, Left)
        /\ AllExact

(* Its selection is spread evenly over what is left, as is that of every    *)
(* request for up to MaxLen checkpoints.                                   *)
EvenSelection ==
    pc = "outer" /\ WantsMore /\ Missing <= Left => SelectsEvenly(Missing, Left) /\ AllEven

(* A step of no session that starts from scratch leaves the settled alone.  *)
LeavesSettled ==
    \A c \in Chk :
        /\ saved[c] \in Settled /\ ~force /\ ~torn => saved'[c] = saved[c]
        /\ saved[c] \in Settled /\ ~force /\ pc \in InSession
              => sim'[c] = sim[c] \/ sim'[c] = "none"

(* A settled checkpoint stays as it is: a session that resumes from the     *)
(* summary neither simulates it again nor changes what the file says of it. *)
SettledStays == [][LeavesSettled]_vars

(* What is left of a status when rounds, clocks and tasks are forgotten.   *)
Verdict(s) == [c \in Chk |-> IF s[c] \in Settled THEN s[c] ELSE "open"]
Phase ==
    CASE pc \in {"outer", "wait", "straggle"} -> "live"
      [] pc = "finished"                      -> "done"
      [] OTHER                                -> pc

Promise == INSTANCE Campaign
    WITH Verdicts <- Settled, table <- Verdict(saved), readable <- ~torn, phase <- Phase,
         wanted <- num_checkpoints, verdict <- Verdict(status), owed <- all_proc_args \cup tasks

(* The sessions together are a campaign: pool, rounds, timeouts and crashes *)
(* only decide when a checkpoint gets its one verdict.                     *)
IsCampaign == Promise!Spec

(* A session ends even if every simulation hangs.                          *)
SessionEnds == (pc \in InSession) ~> (pc = "idle")

(* --force-rerun starts from scratch: the result file that makes a finished  *)
(* task count as successful was written in this session.  With ForceArgs =  *)
(* {TRUE} the file of an earlier session is found instead.                 *)
ResultIsFresh ==
    \A c \in tasks : IsReady(c) /\ res[c] # 0 => res[c] = session
=============================================================================
