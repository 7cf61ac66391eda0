---------------------------- MODULE IntervalTimer ----------------------------
(***************************************************************************)
(* The timed mode of the engine (GDBEngine.run_time, _interrupt_in): a      *)
(* process of its own sleeps and interrupts the inferior, gdb hands the     *)
(* stopped inferior to the engine, the engine joins the timer and takes a   *)
(* checkpoint.  Time is counted in ticks.                                  *)
(***************************************************************************)
EXTENDS Integers

CONSTANTS
    Interval,       \* sec_between_chk
    MaxIter,        \* max_iter; negative for no limit
    MaxRan,         \* bound: ticks counted between two checkpoints
    MaxChk          \* bound: checkpoints counted

ASSUME IntervalAssumption == Interval \in Nat \ {0}
ASSUME BoundsAssumption == MaxRan \in Nat /\ MaxRan >= Interval /\ MaxChk \in Nat
ASSUME MaxIterAssumption == MaxIter \in Int

Off == -1
Capped(n, max) == IF n < max THEN n ELSE max

VARIABLES
    pc,         \* where run_time is
    timer,      \* ticks the timer process still sleeps, Off without a process
    target,     \* whether the inferior exists
    pending,    \* a SIGINT waits for the stopped inferior
    ran,        \* ticks the inferior has run since the last checkpoint
    chk_num,
    cause,      \* why the loop was left
    disturbed   \* history: the inferior stopped on its own account, or time
                \* passed between the start of the timer and the continue

vars == <<pc, timer, target, pending, ran, chk_num, cause, disturbed>>

Init ==
    /\ pc = "loop" /\ timer = Off /\ target = TRUE
    /\ pending = FALSE /\ ran = 0 /\ chk_num = 0 /\ cause = "none"
    /\ disturbed = FALSE

(* Mutant: the sleep is one tick short.                                    *)
InterruptEarly ==
    /\ pc = "loop" /\ (MaxIter < 0 \/ chk_num < MaxIter)
    /\ timer' = Interval - 1 /\ pc' = "continue"
    /\ UNCHANGED <<target, pending, ran, chk_num, cause, disturbed>>

(* The timer is started before the inferior is resumed.                    *)
InterruptIn ==
    /\ pc = "loop" /\ (MaxIter < 0 \/ chk_num < MaxIter)
    /\ timer' = Interval /\ pc' = "continue"
    /\ UNCHANGED <<target, pending, ran, chk_num, cause, disturbed>>

LeaveLoop ==
    /\ pc = "loop" /\ MaxIter >= 0 /\ chk_num >= MaxIter
    /\ pc' = "wait" /\ cause' = "max_iter"
    /\ UNCHANGED <<timer, target, pending, ran, chk_num, disturbed>>

(* gdb delivers what is pending first: the inferior stops where it stands.  *)
Continue ==
    /\ pc = "continue"
    /\ pending' = FALSE
    /\ pc' = IF pending THEN "join" ELSE "running"
    /\ UNCHANGED <<timer, target, ran, chk_num, cause, disturbed>>

Tick ==
    /\ timer > 0
    /\ timer' = timer - 1
    /\ ran' = IF pc = "running" THEN Capped(ran + 1, MaxRan) ELSE ran
    /\ disturbed' = (disturbed \/ pc = "continue")
    /\ UNCHANGED <<pc, target, pending, chk_num, cause>>

(* The timer process may wake up late.                                     *)
Oversleep ==
    /\ pc = "running" /\ timer = 0
    /\ ran' = Capped(ran + 1, MaxRan)
    /\ UNCHANGED <<pc, timer, target, pending, chk_num, cause, disturbed>>

(* Mutant: an interrupt for a stopped inferior is lost.                    *)
ControlCLost ==
    /\ timer = 0 /\ timer' = Off
    /\ pc' = IF pc = "running" THEN "join" ELSE pc
    /\ UNCHANGED <<target, pending, ran, chk_num, cause, disturbed>>

(* A running inferior stops; for a stopped one the signal stays pending.    *)
ControlC ==
    /\ timer = 0 /\ timer' = Off
    /\ IF pc = "running" THEN pc' = "join" /\ pending' = pending
       ELSE pc' = pc /\ pending' = target
    /\ UNCHANGED <<target, ran, chk_num, cause, disturbed>>

(* A breakpoint or a signal of the program's own ends the continue.        *)
StopsEarly ==
    /\ pc = "running" /\ pc' = "join" /\ disturbed' = TRUE
    /\ UNCHANGED <<timer, target, pending, ran, chk_num, cause>>

Exits ==
    /\ pc = "running" /\ pc' = "join"
    /\ target' = FALSE /\ pending' = FALSE
    /\ UNCHANGED <<timer, ran, chk_num, cause, disturbed>>

(* Mutant: the next timer is started before the checkpoint is taken.       *)
JoinStartsNext ==
    /\ pc = "join" /\ timer = Off /\ pc' = "create" /\ timer' = Interval
    /\ UNCHANGED <<target, pending, ran, chk_num, cause, disturbed>>

Join ==
    /\ pc = "join" /\ timer = Off /\ pc' = "create"
    /\ UNCHANGED <<timer, target, pending, ran, chk_num, cause, disturbed>>

(* In a bad region no checkpoint is taken.  Otherwise get_brk.c is run in   *)
(* the inferior: a pending signal ends that call, and gdb.error the loop.   *)
(* Without an inferior there are no mappings to begin with.                *)
TryCreateCheckpoint ==
    /\ pc = "create"
    /\ \/ /\ target /\ pc' = "loop"
          /\ UNCHANGED <<pending, ran, chk_num, cause>>
       \/ /\ target /\ ~pending /\ pc' = "loop"
          /\ ran' = 0 /\ chk_num' = Capped(chk_num + 1, MaxChk)
          /\ UNCHANGED <<pending, cause>>
       \/ /\ pc' = "wait" /\ pending' = FALSE
          /\ cause' = IF pending THEN "interrupted" ELSE "error"
          /\ UNCHANGED <<ran, chk_num>>
    /\ UNCHANGED <<timer, target, disturbed>>

(* Ctrl-C leaves the loop and the timer behind.                            *)
KeyboardInterrupt ==
    /\ pc \in {"running", "join", "create"} /\ pc' = "wait" /\ cause' = "user"
    /\ UNCHANGED <<timer, target, pending, ran, chk_num, disturbed>>

(* run_time returns, gdb kills the inferior and waits for the timer.       *)
Return ==
    /\ pc = "wait" /\ pc' = "exit"
    /\ target' = FALSE /\ pending' = FALSE
    /\ UNCHANGED <<timer, ran, chk_num, cause, disturbed>>

Finish ==
    /\ pc = "exit" /\ timer = Off /\ pc' = "done"
    /\ UNCHANGED <<timer, target, pending, ran, chk_num, cause, disturbed>>

Next ==
    \/ InterruptIn \/ LeaveLoop \/ Continue \/ Tick \/ Oversleep \/ ControlC \/ StopsEarly
    \/ Exits \/ Join \/ TryCreateCheckpoint \/ KeyboardInterrupt \/ Return \/ Finish

Spec == Init /\ [][Next]_vars

(* The clock, the timer process and the engine go on.                      *)
Fairness ==
    /\ WF_vars(Tick) /\ WF_vars(ControlC)
    /\ WF_vars(InterruptIn \/ LeaveLoop \/ Continue \/ Join \/ TryCreateCheckpoint
               \/ Return \/ Finish)

FairSpec == Spec /\ Fairness

-----------------------------------------------------------------------------
(* Every variable stays in its domain.                                     *)
TypeOK ==
    /\ pc \in {"loop", "continue", "running", "join", "create", "wait", "exit", "done"}
    /\ timer \in Off .. Interval
    /\ target \in BOOLEAN /\ pending \in BOOLEAN /\ disturbed \in BOOLEAN
    /\ ran \in 0 .. MaxRan /\ chk_num \in 0 .. MaxChk
    /\ cause \in {"none", "max_iter", "user", "error", "interrupted"}

(* run_time takes checkpoints "every N seconds": as long as nothing but the *)
(* timer stops the inferior, it has run that long between two of them.      *)
EveryInterval == pc = "create" /\ target /\ ~disturbed => ran >= Interval

(* The interrupt is never lost: while the inferior runs, the signal that    *)
(* will stop it is still to come, also if the timer overtakes the continue. *)
InterruptComes == pc = "running" => timer # Off

(* "Control is given back to the debugger": a running inferior is stopped,  *)
(* and the engine takes its checkpoint or leaves the loop.                 *)
ControlGivenBack == pc = "running" ~> pc \in {"create", "wait"}

(* The interrupt is "used to pause GDB": as long as nothing but the timer   *)
(* stops the inferior, it never hits the code that the engine runs inside   *)
(* the stopped inferior.  (Otherwise it can: the engine joins the timer     *)
(* while the inferior is stopped, and the pending signal ends the injected  *)
(* call and the run.)                                                      *)
OnlyPauses == cause = "interrupted" => disturbed

-----------------------------------------------------------------------------
(* The inductive invariant of the timed mode.                              *)
InLoop == {"loop", "continue", "running", "join", "create"}

(* The timer process exists from before the continue until it is joined,   *)
(* and the inferior as long as the loop goes on.                           *)
Joined ==
    /\ pc \in {"loop", "create"} => timer = Off
    /\ pc \in {"loop", "continue", "running"} => target

(* An interrupt that overtakes the continue is pending.                    *)
Coming ==
    /\ pc = "continue" => pending \/ timer # Off
    /\ InterruptComes

(* Without a disturbance no signal is pending in the loop, and what the    *)
(* inferior has run and the timer still sleeps make up the interval.       *)
Undisturbed ==
    ~disturbed =>
        /\ pc \in InLoop => ~pending
        /\ pc = "continue" => timer = Interval
        /\ pc = "running" => ran + timer >= Interval
        /\ pc \in {"join", "create"} /\ target => timer = Off /\ ran >= Interval

IInv == TypeOK /\ Joined /\ Coming /\ Undisturbed /\ OnlyPauses
=============================================================================
