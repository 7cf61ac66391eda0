--------------------------- MODULE SpeculativeROB ---------------------------
(***************************************************************************)
(* The speculation control that custom_gem5 adds to the out-of-order CPU:   *)
(* an instruction younger than an unresolved branch is unsafe and does not *)
(* hand its result on, and with many unresolved branches the CPU runs      *)
(* ahead with zeroed results.  One thread.  An instruction is its sequence *)
(* number, so that the head of the reorder buffer is the smallest number   *)
(* in it and the tail the largest; a status bit of DynInst is the set of   *)
(* instructions that carry it.  A cycle is the tick of IEW followed by the *)
(* tick of commit, and commit sees what IEW sent in the cycle before.      *)
(***************************************************************************)
EXTENDS Integers, FiniteSets, FiniteSetsExt

CONSTANTS
    Configs,            \* sets of CD_ debug flags gem5 may be started with
    NumEntries, SquashWidth, WBWidth, CommitWidth, RunaheadThreshold,
    MaxInsts,           \* model bound: instructions that reach the ROB
    MaxTraps            \* model bound: faulting and squash-after instructions

Flags == {"Allow_NonLoads_AfterBranch", "MarkUnsafeIf_LoadtInstruction",
          "Clear_MaySquash_AtExec", "LimitWakeDependandsToWBWidth",
          "SquashInSingleCycle", "Runahead_SquashInSingleCycle",
          "Runahead_ifMoreThanNBranches", "Runahead_ifBranchLoadIsStalling"}

ASSUME ConfigsAssumption == Configs \subseteq SUBSET Flags
ASSUME WidthsAssumption ==
    /\ NumEntries \in Nat \ {0} /\ SquashWidth \in Nat \ {0}
    /\ WBWidth \in Nat \ {0} /\ CommitWidth \in Nat \ {0}
    /\ RunaheadThreshold \in Nat /\ MaxInsts \in Nat /\ MaxTraps \in Nat

VARIABLES
    flags,              \* the CD_ flags of this run of gem5
    kind, stage,        \* of every instruction in the ROB
    maySquash, unsafe, runahead, squashed,
    fault, mispred,     \* faulted; fetch goes the wrong way after this branch
    woken, rewoken,     \* wakeDependents was called for it; more than once
    doomed,             \* history: wrong path, runahead or stale data
    reprieved,          \* history: taken for resolved before it executed
    num,                \* numInstThatMayCauseSquash
    inRunahead, panicked,
    squashIt, squashedSeqNum,
    commitStatus, youngestSeqNum, lastCommitted,
    toCommit, fromIEW,  \* squash written by IEW this cycle; the one commit reads
    numCleared, numWoken,   \* IEW's numClearedMaySquashOthers, numWokenInstructions
    phase,              \* where in the cycle the CPU is
    committed,          \* instructions committed this cycle
    retired,            \* history: what was retired last in this cycle
    nextSeq, traps

marks    == <<maySquash, unsafe, runahead, squashed>>
fate     == <<mispred, doomed, reprieved>>
wakes    == <<woken, rewoken>>
mode     == <<num, inRunahead, panicked>>
squash   == <<squashIt, squashedSeqNum>>
status   == <<commitStatus, youngestSeqNum, lastCommitted>>
wires    == <<toCommit, fromIEW>>
counters == <<numCleared, numWoken, committed>>
frontEnd == <<nextSeq, traps>>
buffer   == <<kind, stage, fault, marks, fate, wakes, mode, squash>>
vars     == <<flags, buffer, status, wires, counters, phase, retired, frontEnd>>

SeqNum == 1 .. MaxInsts
None   == 0             \* no instruction; instList.end() for an iterator
Kind   == {"branch", "load", "store"}   \* store: anything but a branch or a load
instList == DOMAIN stage

(* executed; in this cycle's toCommit; in fromIEW; CanCommit is set         *)
Stage == {"waiting", "executed", "sent", "arrived", "canCommit"}

WritebackDone == {s \in instList : stage[s] \in {"sent", "arrived", "canCommit"}} \ fault

(* seq: squashedSeqNum; inst: mispredictInst, None for a memory violation. *)
NoSquash == [seq |-> None, inst |-> None]

Init ==
    /\ flags \in Configs
    /\ kind = [s \in {} |-> "load"] /\ stage = [s \in {} |-> "waiting"]
    /\ maySquash = {} /\ unsafe = {} /\ runahead = {} /\ squashed = {}
    /\ fault = {} /\ mispred = {} /\ doomed = {} /\ reprieved = {}
    /\ woken = {} /\ rewoken = {}
    /\ num = 0 /\ inRunahead = FALSE /\ panicked = FALSE
    /\ squashIt = None /\ squashedSeqNum = 0
    /\ commitStatus = "Running" /\ youngestSeqNum = 0 /\ lastCommitted = 0
    /\ toCommit = NoSquash /\ fromIEW = NoSquash
    /\ numCleared = 0 /\ numWoken = 0 /\ committed = 0
    /\ phase = "iew" /\ retired = {}
    /\ nextSeq = 1 /\ traps = 0

-----------------------------------------------------------------------------
(* Methods of class ROB. *)

Wake(S) == woken' = woken \cup S /\ rewoken' = rewoken \cup (woken \cap S)

(* The walk from the head passes no instruction that may squash; a load    *)
(* may have to stay unsafe until it retires.                               *)
Clearable(may, dead) ==
    {s \in unsafe \ dead :
        /\ \A o \in may : s <= o
        /\ ~("MarkUnsafeIf_LoadtInstruction" \in flags /\ kind[s] = "load")}

(* It stops once it has woken max instructions.                            *)
MarkedSafe(may, dead, max) ==
    LET all == Clearable(may, dead)
    IN  {s \in all : Cardinality({o \in all \cap WritebackDone : o < s}) < max}

(* The walk sees the bits as the step leaves them.                         *)
MarkFollowingInstructionsAsSafe(max) ==
    LET safe == MarkedSafe(maySquash', squashed', max)
    IN  unsafe' = unsafe \ safe /\ Wake(safe \cap WritebackDone)

(* Mutant: only one of several branches is counted down.                   *)
ReduceByOne(cleared, max) ==
    num' = num - Min({1, cleared}) /\ MarkFollowingInstructionsAsSafe(max)

(* cleared instructions may no longer squash.                              *)
ReduceNumMaySquashOthers(cleared, max) ==
    num' = num - cleared /\ MarkFollowingInstructionsAsSafe(max)

(* Mutant: the mode is not reset by the initiator's end.                   *)
StayInRunahead(S) ==
    /\ inRunahead' = inRunahead
    /\ panicked' = (panicked \/ \E s \in S : ~inRunahead \/ S # {s})

(* leaveRunaheadMode is called for every initiating branch in S.           *)
LeaveRunaheadMode(S) ==
    /\ inRunahead' = (inRunahead /\ S = {})
    /\ panicked' = (panicked \/ \E s \in S : ~inRunahead \/ S # {s})

ShouldEnterRunaheadMode(branches, stalling) ==
    \/ "Runahead_ifMoreThanNBranches" \in flags /\ branches > RunaheadThreshold
    \/ "Runahead_ifBranchLoadIsStalling" \in flags /\ stalling

(* Mutant: one unresolved branch is not enough.                            *)
MarkUnsafeLate(k) ==
    IF num > 1
    THEN ~("Allow_NonLoads_AfterBranch" \in flags /\ k # "load")
    ELSE "MarkUnsafeIf_LoadtInstruction" \in flags /\ k = "load"

MarkUnsafe(k) ==
    IF num > 0
    THEN ~("Allow_NonLoads_AfterBranch" \in flags /\ k # "load")
    ELSE "MarkUnsafeIf_LoadtInstruction" \in flags /\ k = "load"

If(c, n) == IF c THEN {n} ELSE {}

(* Mutant: a branch fetched in runahead may squash, too.                   *)
SquasherAlways(k) == k = "branch"

(* A branch fetched in runahead gets no power to squash.                   *)
Squasher(k) == k = "branch" /\ ~inRunahead

InsertInst(n, k, wrong, stalling) ==
    LET enters == Squasher(k) /\ ShouldEnterRunaheadMode(num + 1, stalling)
    IN  /\ kind' = [s \in instList \cup {n} |-> IF s = n THEN k ELSE kind[s]]
        /\ stage' = [s \in instList \cup {n} |-> IF s = n THEN "waiting" ELSE stage[s]]
        /\ unsafe' = unsafe \cup If(MarkUnsafe(k), n)
        /\ runahead' = runahead \cup If((inRunahead /\ MarkUnsafe(k)) \/ enters, n)
        /\ maySquash' = maySquash \cup If(Squasher(k), n)
        /\ num' = num + (IF Squasher(k) THEN 1 ELSE 0)
        /\ inRunahead' = (inRunahead \/ enters)
        /\ mispred' = mispred \cup If(wrong, n)
        /\ doomed' = doomed \cup If(inRunahead \/ (mispred \cup doomed) \ squashed # {}, n)
        /\ UNCHANGED <<squashed, fault, wakes, reprieved, panicked, squash>>

(* An unsafe head wakes its dependents before it goes.                     *)
RetireHead(h) ==
    /\ kind' = [s \in instList \ {h} |-> kind[s]]
    /\ stage' = [s \in instList \ {h} |-> stage[s]]
    /\ maySquash' = maySquash \ {h} /\ unsafe' = unsafe \ {h}
    /\ runahead' = runahead \ {h} /\ squashed' = squashed \ {h}
    /\ fault' = fault \ {h} /\ mispred' = mispred \ {h}
    /\ woken' = woken \ {h} /\ rewoken' = rewoken \ {h}
    /\ doomed' = doomed \ {h} /\ reprieved' = reprieved \ {h}
    /\ num' = num - (IF h \in maySquash THEN 1 ELSE 0)
    /\ panicked' = (panicked \/ h \in maySquash \cap squashed)
    /\ retired' = If(h \notin squashed,
                     [branch |-> kind[h] = "branch", doomed |-> h \in doomed,
                      woken |-> h \in woken \cup unsafe,
                      rewoken |-> h \in rewoken \cup (woken \cap unsafe)])
    /\ UNCHANGED <<inRunahead, squash>>

(***************************************************************************)
(* One call of doSquash: from squashIt towards the head, at most           *)
(* SquashWidth instructions unless all go in a single cycle.  When the     *)
(* walk ends on the instruction numbered upto, that one is taken to have   *)
(* caused the squash and to be resolved; after a memory order violation it *)
(* is merely the one before the violator, and reprieved records that it    *)
(* has not executed.  ended holds the initiator for which commit has just  *)
(* left runahead.                                                          *)
(***************************************************************************)
Victims(it, upto, single) ==
    LET all == {s \in instList : s <= it /\ s > upto}
    IN  IF single THEN all
        ELSE {s \in all : Cardinality({y \in all : y > s}) < SquashWidth}

Rest(it, V) == {s \in instList : s <= it} \ V

Cause(it, upto, V) ==
    {s \in Rest(it, V) \cap maySquash : s = upto /\ \A t \in Rest(it, V) : t <= s}

DoSquash(it, upto, single, ended) ==
    LET V == Victims(it, upto, single)
        cause == Cause(it, upto, V)
        cleared == (V \cap maySquash) \cup cause
    IN  /\ squashedSeqNum' = upto
        /\ squashIt' = IF \A s \in Rest(it, V) : s <= upto THEN None ELSE Max(Rest(it, V))
        /\ squashed' = squashed \cup V
        /\ stage' = [s \in instList |-> IF s \in V THEN "canCommit" ELSE stage[s]]
        /\ maySquash' = maySquash \ cleared
        /\ runahead' = runahead \ (cleared \cup ended)
        /\ LeaveRunaheadMode(ended \cup (runahead \cap cleared))
        /\ reprieved' = reprieved \cup {s \in cause : stage[s] = "waiting"}
        /\ ReduceNumMaySquashOthers(Cardinality(cleared),
              IF it < upto \/ "LimitWakeDependandsToWBWidth" \in flags
              THEN 0 ELSE NumEntries)
        /\ UNCHANGED <<kind, fault, doomed>>

Squash(n, single, ended) ==
    IF instList = {} THEN UNCHANGED <<kind, stage, fault, marks, doomed, reprieved,
                                      wakes, mode, squash>>
    ELSE DoSquash(Max(instList), n, single, ended)

-----------------------------------------------------------------------------
(* DefaultIEW::tick. *)

Younger(a, b) == a = NoSquash \/ b < a.seq

SquashDueToBranch(s) ==
    toCommit' = IF Younger(toCommit, s) THEN [seq |-> s, inst |-> s] ELSE toCommit

SquashDueToMemOrder(v) ==
    toCommit' = IF Younger(toCommit, v) \/ v = toCommit.seq
                THEN [seq |-> v, inst |-> None] ELSE toCommit

SetExecuted(s) ==
    /\ phase = "iew" /\ s \in instList /\ stage[s] = "waiting"
    /\ stage' = [stage EXCEPT ![s] = "executed"]
    /\ UNCHANGED <<flags, kind, unsafe, runahead, squashed, mispred, reprieved, wakes, mode,
                   squash, status, fromIEW, numWoken, committed, phase, retired, nextSeq>>

(* A branch was mispredicted, or ends runahead, or is resolved.            *)
ExecuteBranch(s) ==
    LET redirects == s \in mispred \cup (maySquash \cap runahead)
        clears == /\ Younger(toCommit, s) /\ ~redirects /\ s \in maySquash
                  /\ "Clear_MaySquash_AtExec" \in flags
    IN  /\ SetExecuted(s) /\ kind[s] = "branch"
        /\ IF redirects THEN SquashDueToBranch(s) ELSE UNCHANGED toCommit
        /\ maySquash' = maySquash \ If(clears, s)
        /\ numCleared' = numCleared + (IF clears THEN 1 ELSE 0)
        /\ UNCHANGED <<fault, doomed, traps>>

(* Any other instruction; a load is executed when its data has arrived.    *)
ExecuteOther(s, faults) ==
    /\ SetExecuted(s) /\ kind[s] # "branch"
    /\ faults => traps < MaxTraps
    /\ fault' = fault \cup If(faults, s)
    /\ traps' = traps + (IF faults THEN 1 ELSE 0)
    /\ UNCHANGED <<maySquash, doomed, toCommit, numCleared>>

(* A store finds that a younger load v has read the location too early.    *)
ExecuteViolatingStore(s, v) ==
    /\ SetExecuted(s) /\ kind[s] = "store"
    /\ v \in instList \ squashed /\ v > s /\ kind[v] = "load"
    /\ IF Younger(toCommit, s) THEN SquashDueToMemOrder(v) ELSE UNCHANGED toCommit
    /\ doomed' = doomed \cup {t \in instList : t >= v}
    /\ UNCHANGED <<maySquash, fault, numCleared, traps>>

(* Mutant: an unsafe instruction wakes its dependents, too.                *)
WakingAll(W) == W \ fault

(* What is unsafe wakes nobody unless it runs ahead.                       *)
Waking(W) == W \ (fault \cup (unsafe \ runahead))

(* W is written back.                                                      *)
WritebackInsts(W) ==
    LET all == {s \in instList : stage[s] = "executed"}
    IN  /\ phase = "iew" /\ phase' = "update"
        /\ W \subseteq all /\ Cardinality(W) = Min({WBWidth, Cardinality(all)})
        /\ stage' = [s \in instList |-> IF s \in W THEN "sent" ELSE stage[s]]
        /\ Wake(Waking(W))
        /\ numWoken' = Cardinality(Waking(W))
        /\ UNCHANGED <<flags, kind, fault, marks, fate, mode, squash, status, wires,
                       numCleared, committed, retired, frontEnd>>

UpdateMaySquashStatusInROB ==
    /\ phase = "update" /\ phase' = "commit"
    /\ numCleared' = 0 /\ numWoken' = 0
    /\ UNCHANGED <<maySquash, squashed>>
    /\ ReduceNumMaySquashOthers(numCleared,
          IF "LimitWakeDependandsToWBWidth" \in flags THEN WBWidth - numWoken ELSE NumEntries)
    /\ UNCHANGED <<flags, kind, stage, fault, runahead, fate, inRunahead, panicked, squash,
                   status, wires, committed, retired, frontEnd>>

-----------------------------------------------------------------------------
(* DefaultCommit::tick. *)

Squashing == commitStatus = "ROBSquashing" /\ squashIt # None

ContinueSquash ==
    /\ phase = "commit" /\ Squashing
    /\ DoSquash(squashIt, squashedSeqNum, FALSE, {})
    /\ phase' = "accept"
    /\ UNCHANGED <<flags, mispred, status, wires, counters, retired, frontEnd>>

Accepting == phase = "accept" \/ (phase = "commit" /\ ~Squashing)

(* squashFromTrap and squashFromSquashAfter.                               *)
SquashAll ==
    /\ Accepting /\ commitStatus \in {"TrapPending", "SquashAfterPending"}
    /\ Squash(IF instList = {} THEN lastCommitted ELSE Min(instList) - 1, FALSE, {})
    /\ commitStatus' = "ROBSquashing" /\ youngestSeqNum' = lastCommitted
    /\ phase' = "accept"
    /\ UNCHANGED <<flags, mispred, lastCommitted, wires, counters, retired, frontEnd>>

(* Mutant: the youngest instruction's own squash is ignored.               *)
AcceptableStrict ==
    /\ fromIEW # NoSquash /\ commitStatus # "TrapPending"
    /\ fromIEW.seq < youngestSeqNum

(* A squash of IEW counts unless an older one is under way.                *)
Acceptable ==
    /\ fromIEW # NoSquash /\ commitStatus # "TrapPending"
    /\ fromIEW.seq <= youngestSeqNum

SquashedInst == IF fromIEW.inst = None THEN fromIEW.seq - 1 ELSE fromIEW.seq

(* Redirecting fetch ends the misprediction; a runahead initiator ends     *)
(* runahead.                                                               *)
AcceptSquash ==
    LET b == fromIEW.inst
        ended == {b} \cap maySquash \cap runahead
        single == /\ b # None
                  /\ IF ended # {} THEN "Runahead_SquashInSingleCycle" \in flags
                     ELSE "SquashInSingleCycle" \in flags
    IN  /\ Accepting /\ commitStatus # "SquashAfterPending" /\ Acceptable
        /\ Squash(SquashedInst, single, ended)
        /\ mispred' = mispred \ {b}
        /\ commitStatus' = "ROBSquashing" /\ youngestSeqNum' = SquashedInst
        /\ phase' = "retire"
        /\ UNCHANGED <<flags, lastCommitted, wires, counters, retired, frontEnd>>

(* Mutant: an empty ROB is never done.                                     *)
DoneWhenNotEmpty ==
    phase = "commit" /\ commitStatus = "ROBSquashing" /\ instList # {}

DoneSquashing == phase = "commit" /\ commitStatus = "ROBSquashing"

(* Nothing to accept; after a squash rename delivers one cycle later.      *)
NothingToAccept ==
    /\ Accepting /\ commitStatus # "SquashAfterPending" /\ ~Acceptable
    /\ commitStatus' = IF DoneSquashing THEN "Running" ELSE commitStatus
    /\ phase' = IF commitStatus = "Running" THEN "insert" ELSE "retire"
    /\ UNCHANGED <<flags, buffer, youngestSeqNum, lastCommitted, wires, counters, retired,
                   frontEnd>>

GetInst(k, wrong, stalling) ==
    /\ phase = "insert" /\ nextSeq <= MaxInsts /\ Cardinality(instList) < NumEntries
    /\ wrong => k = "branch"
    /\ stalling => k = "branch" /\ "Runahead_ifBranchLoadIsStalling" \in flags
    /\ InsertInst(nextSeq, k, wrong, stalling)
    /\ youngestSeqNum' = nextSeq
    /\ nextSeq' = nextSeq + 1
    /\ UNCHANGED <<flags, commitStatus, lastCommitted, wires, counters, phase, retired, traps>>

GotInsts ==
    /\ phase = "insert" /\ phase' = "retire"
    /\ UNCHANGED <<flags, buffer, status, wires, counters, retired, frontEnd>>

head == Min(instList)

CanRetire ==
    /\ phase = "retire" /\ commitStatus = "Running" /\ committed < CommitWidth
    /\ instList # {} /\ stage[head] = "canCommit"

RetireSquashed ==
    /\ CanRetire /\ head \in squashed
    /\ RetireHead(head)
    /\ UNCHANGED <<flags, status, wires, counters, phase, frontEnd>>

(* after: the instruction squashes everything behind it.                   *)
CommitHead(after) ==
    /\ CanRetire /\ head \notin squashed \cup fault
    /\ after => traps < MaxTraps
    /\ RetireHead(head)
    /\ lastCommitted' = head
    /\ committed' = committed + 1
    /\ commitStatus' = IF after THEN "SquashAfterPending" ELSE "Running"
    /\ traps' = traps + (IF after THEN 1 ELSE 0)
    /\ UNCHANGED <<flags, youngestSeqNum, wires, numCleared, numWoken, phase, nextSeq>>

CommitFault ==
    /\ CanRetire /\ head \in fault \ squashed /\ committed = 0
    /\ commitStatus' = "TrapPending"
    /\ UNCHANGED <<flags, buffer, youngestSeqNum, lastCommitted, wires, counters, phase,
                   retired, frontEnd>>

(* markCompletedInsts, and the time buffers advance.                       *)
EndCycle ==
    /\ phase = "retire" /\ phase' = "iew"
    /\ CanRetire => head \in fault \ squashed /\ committed > 0
    /\ stage' = [s \in instList |-> IF stage[s] = "arrived" THEN "canCommit"
                                   ELSE IF stage[s] = "sent" THEN "arrived" ELSE stage[s]]
    /\ fromIEW' = toCommit /\ toCommit' = NoSquash
    /\ committed' = 0 /\ retired' = {}
    /\ UNCHANGED <<flags, kind, fault, marks, fate, wakes, mode, squash, status, numCleared,
                   numWoken, frontEnd>>

Execute(s) ==
    \/ ExecuteBranch(s)
    \/ \E faults \in BOOLEAN : ExecuteOther(s, faults)
    \/ \E v \in instList : ExecuteViolatingStore(s, v)

(* What the CPU does by itself in every cycle.                             *)
Tick ==
    \/ \E W \in SUBSET instList : WritebackInsts(W)
    \/ UpdateMaySquashStatusInROB \/ ContinueSquash \/ AcceptSquash \/ NothingToAccept
    \/ GotInsts \/ RetireSquashed \/ CommitHead(FALSE) \/ CommitFault \/ EndCycle

Next ==
    \/ Tick
    \/ \E s \in instList : Execute(s)
    \/ \E k \in Kind, wrong, stalling \in BOOLEAN : GetInst(k, wrong, stalling)
    \/ CommitHead(TRUE)
    \/ SquashAll

Spec == Init /\ [][Next]_vars

(* The CPU is ticked for ever, the function units and the memory answer    *)
(* and a trap arrives after its latency.                                   *)
Fairness ==
    /\ WF_vars(Tick) /\ SF_vars(SquashAll)
    /\ SF_vars(\E s \in instList : Execute(s))

FairSpec == Spec /\ Fairness

-----------------------------------------------------------------------------
(* Every variable stays in its domain.                                     *)
TypeOK ==
    /\ flags \in Configs
    /\ instList \subseteq SeqNum /\ stage \in [instList -> Stage] /\ kind \in [instList -> Kind]
    /\ \A S \in {maySquash, unsafe, runahead, squashed, fault, mispred, woken, rewoken,
                  doomed, reprieved} : S \subseteq instList
    /\ num \in Int /\ inRunahead \in BOOLEAN /\ panicked \in BOOLEAN
    /\ squashIt \in instList \cup {None} /\ squashedSeqNum \in 0 .. MaxInsts
    /\ commitStatus \in {"Running", "ROBSquashing", "TrapPending", "SquashAfterPending"}
    /\ youngestSeqNum \in 0 .. MaxInsts /\ lastCommitted \in 0 .. MaxInsts
    /\ toCommit \in [seq : 0 .. MaxInsts, inst : 0 .. MaxInsts]
    /\ fromIEW \in [seq : 0 .. MaxInsts, inst : 0 .. MaxInsts]
    /\ numCleared \in Nat /\ numWoken \in 0 .. WBWidth /\ committed \in 0 .. CommitWidth
    /\ phase \in {"iew", "update", "commit", "accept", "insert", "retire"}
    /\ nextSeq \in 1 .. MaxInsts + 1 /\ traps \in 0 .. MaxTraps

(* numInstThatMayCauseSquash, which decides whether the next instruction   *)
(* is unsafe, is the number of instructions in the ROB that may squash,    *)
(* but for the ones IEW resolved in this cycle and has not reported yet.   *)
CounterExact == num = Cardinality(maySquash) + numCleared

(* The CPU is in runahead exactly when one branch in the ROB carries both  *)
(* marks of the initiator, so that somebody will end it.                   *)
RunaheadHasInitiator ==
    IF inRunahead THEN \E s \in instList : maySquash \cap runahead = {s}
    ELSE maySquash \cap runahead = {}

(* Neither panic of class ROB is reached: runahead is not left twice, and  *)
(* no squashed instruction retires with its power to squash.               *)
NeverPanics == ~panicked

Exempt(s) == "Allow_NonLoads_AfterBranch" \in flags /\ kind[s] # "load"

(* An instruction that handed its true result to its dependents has no     *)
(* older branch in the ROB that has not executed, unless non-loads are     *)
(* exempt or a memory order violation took that branch for resolved.       *)
ForwardedIsResolved ==
    \A s \in woken \ (unsafe \cup squashed) :
        Exempt(s) \/ \A o \in instList \ reprieved :
                        o < s /\ kind[o] = "branch" => stage[o] # "waiting"

(* An instruction that retires has woken its dependents, and exactly once  *)
(* if it is not a branch: InstructionQueue::wakeDependents must not        *)
(* complete a memory instruction twice.                                    *)
RetiredWokeOnce == \A i \in retired : i.woken /\ (i.rewoken => i.branch)

(* Nothing fetched on a wrong path, nothing that ran ahead on zeroed       *)
(* results and no load that read too early ever commits.                   *)
OnlyRightPathRetires == \A i \in retired : ~i.doomed

(* Runahead ends and every squash completes: commit gets back to running.  *)
BackToNormal ==
    (inRunahead \/ commitStatus # "Running") ~> (~inRunahead /\ commitStatus = "Running")

(* "It can no longer cause misprediction", says doSquash of the branch     *)
(* whose flag it clears when it stops there.                               *)
ClearedIsResolved == reprieved = {}
=============================================================================
