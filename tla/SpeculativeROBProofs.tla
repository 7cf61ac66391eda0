------------------------ MODULE SpeculativeROBProofs ------------------------
(***************************************************************************)
(* Execution, writeback, retirement and the end of a cycle keep the        *)
(* invariant, and with SpeculativeROBInv every step does: for reorder      *)
(* buffers, widths and sets of flags of any size the speculation control   *)
(* counts right, ends what it starts and retires only what it should.      *)
(***************************************************************************)
EXTENDS SpeculativeROBInv

(* The steps of IEW: execution, writeback and the report of resolved       *)
(* branches to the reorder buffer.                                         *)

(* What every execution of an instruction has in common.                   *)
LEMMA ExecuteFacts ==
    ASSUME IInv, NEW s, SetExecuted(s)
    PROVE  /\ phase = "iew" /\ phase' = phase /\ s \in Live /\ stage[s] = "waiting"
           /\ stage' = [t \in instList |-> IF t = s THEN "executed" ELSE stage[t]]
           /\ flags' = flags /\ kind' = kind /\ unsafe' = unsafe /\ runahead' = runahead
           /\ squashed' = squashed /\ mispred' = mispred /\ reprieved' = reprieved
           /\ woken' = woken /\ rewoken' = rewoken /\ num' = num
           /\ inRunahead' = inRunahead /\ panicked' = panicked
           /\ squashIt' = squashIt /\ squashedSeqNum' = squashedSeqNum
           /\ commitStatus' = commitStatus /\ youngestSeqNum' = youngestSeqNum
           /\ lastCommitted' = lastCommitted /\ fromIEW' = fromIEW
           /\ numWoken' = numWoken /\ committed' = committed /\ retired' = retired
           /\ nextSeq' = nextSeq /\ instList' = instList /\ Live' = Live
           /\ \A t \in Live : t \notin fault \cup fault' =>
                                (t \in WritebackDone' <=> t \in WritebackDone)
<1>1. BufferTypes /\ Swept
  BY DEF IInv, BufferInv
<1>2. /\ phase = "iew" /\ s \in instList /\ stage[s] = "waiting"
      /\ stage' = [stage EXCEPT ![s] = "executed"]
      /\ UNCHANGED <<flags, kind, unsafe, runahead, squashed, mispred, reprieved, wakes, mode,
                     squash, status, fromIEW, numWoken, committed, phase, retired, nextSeq>>
  BY DEF SetExecuted
<1>3. stage' = [t \in instList |-> IF t = s THEN "executed" ELSE stage[t]]
  BY <1>1, <1>2, Zenon DEF BufferTypes
<1>4. instList' = instList /\ Live' = Live /\ s \in Live
  BY <1>1, <1>2, <1>3 DEF instList, Live, Swept
<1>5. ASSUME NEW t \in instList, t \notin fault \cup fault'
      PROVE  t \in WritebackDone' <=> t \in WritebackDone
  <2>1. t \in WritebackDone <=> stage[t] \in {"sent", "arrived", "canCommit"}
    BY <1>5 DEF WritebackDone
  <2>2. t \in WritebackDone' <=> stage'[t] \in {"sent", "arrived", "canCommit"}
    BY <1>4, <1>5 DEF WritebackDone
  <2> QED
    BY <2>1, <2>2, <1>2, <1>3
<1> QED
  BY <1>2, <1>3, <1>4, <1>5, Zenon DEF wakes, mode, squash, status, Live

(* Executing s may take its power to squash.                               *)
Disarms(s) ==
    \/ maySquash' = maySquash /\ numCleared' = numCleared
    \/ /\ s \in maySquash \ runahead /\ maySquash' = maySquash \ {s}
       /\ numCleared' = numCleared + 1

(* It may fault and doom younger instructions.                             *)
Spoils(s) ==
    /\ fault \subseteq fault' /\ fault' \subseteq instList
    /\ doomed \subseteq doomed' /\ doomed' \subseteq instList /\ traps' \in 0 .. MaxTraps
    /\ \A t \in doomed' \ doomed : s < t /\ CutsOff(toCommit', t)

(* It may bring the squash that IEW asks for forward.                      *)
Forwards(s) ==
    /\ SquashOK(toCommit') /\ toCommit'.inst \in {None, toCommit.inst, s}
    /\ s \in Redirecting => Covers(toCommit', s)
    /\ \A t \in Live : /\ Covers(toCommit, t) => Covers(toCommit', t)
                       /\ CutsOff(toCommit, t) => CutsOff(toCommit', t)

(* An execution with these effects keeps the invariant.                    *)
LEMMA ExecutionKeeps ==
    ASSUME IInv, NEW s, SetExecuted(s), Disarms(s), Spoils(s), Forwards(s)
    PROVE  IInv'
<1>1. BufferInv /\ ControlInv
  BY DEF IInv
<1>2. /\ BufferTypes /\ CounterExact /\ RunaheadHasInitiator
      /\ Swept /\ Branches /\ Shielded /\ Guarded /\ WokenRight
      /\ ControlTypes /\ Numbered /\ Sweeping /\ Named /\ Timely /\ Doomed
      /\ RetiredWokeOnce /\ OnlyRightPathRetires
  BY <1>1 DEF BufferInv, ControlInv
<1>3. /\ phase = "iew" /\ phase' = phase /\ s \in Live /\ stage[s] = "waiting"
      /\ stage' = [t \in instList |-> IF t = s THEN "executed" ELSE stage[t]]
      /\ flags' = flags /\ kind' = kind /\ unsafe' = unsafe /\ runahead' = runahead
      /\ squashed' = squashed /\ mispred' = mispred /\ reprieved' = reprieved
      /\ woken' = woken /\ rewoken' = rewoken /\ num' = num
      /\ inRunahead' = inRunahead /\ panicked' = panicked
      /\ squashIt' = squashIt /\ squashedSeqNum' = squashedSeqNum
      /\ commitStatus' = commitStatus /\ youngestSeqNum' = youngestSeqNum
      /\ lastCommitted' = lastCommitted /\ fromIEW' = fromIEW
      /\ numWoken' = numWoken /\ committed' = committed /\ retired' = retired
      /\ nextSeq' = nextSeq /\ instList' = instList /\ Live' = Live
      /\ \A t \in Live : t \notin fault \cup fault' =>
                            (t \in WritebackDone' <=> t \in WritebackDone)
  BY ExecuteFacts
<1>4. maySquash' \subseteq maySquash /\ maySquash \cap runahead = maySquash' \cap runahead'
  BY <1>3 DEF Disarms
<1>5. BufferTypes'
  <2>1. stage' \in [instList -> Stage]
    BY <1>2, <1>3 DEF BufferTypes, Stage
  <2>2. fault' \subseteq instList /\ doomed' \subseteq instList
    BY DEF Spoils
  <2> QED
    BY <2>1, <2>2, <1>2, <1>3, <1>4 DEF BufferTypes
<1>6. CounterExact' /\ numCleared' \in Nat
  <2>1. IsFiniteSet(maySquash)
    BY <1>2, FiniteBuffer DEF BufferTypes
  <2>2. num = Cardinality(maySquash) + numCleared /\ numCleared \in Nat
    BY <1>2 DEF CounterExact, ControlTypes
  <2>3. CASE maySquash' = maySquash /\ numCleared' = numCleared
    BY <2>2, <2>3, <1>3 DEF CounterExact
  <2>4. CASE s \in maySquash /\ maySquash' = maySquash \ {s} /\ numCleared' = numCleared + 1
    <3>1. Cardinality(maySquash \ {s}) = Cardinality(maySquash) - 1
      BY <2>1, <2>4, FS_RemoveElement
    <3>2. Cardinality(maySquash) \in Nat
      BY <2>1, FS_CardinalityType
    <3>3. Cardinality(maySquash') = Cardinality(maySquash) - 1
      BY <2>4, <3>1
    <3>4. num' = Cardinality(maySquash') + numCleared'
      BY <2>2, <2>4, <3>2, <3>3, <1>3
    <3> QED
      BY <2>2, <2>4, <3>4 DEF CounterExact
  <2> QED
    BY <2>3, <2>4 DEF Disarms
<1>7. RunaheadHasInitiator'
  BY <1>2, <1>3, <1>4 DEF RunaheadHasInitiator
<1>8. Swept'
  BY <1>2, <1>3, <1>4 DEF Swept, BufferTypes, Live
<1>9. Branches' /\ Shielded'
  BY <1>2, <1>3, <1>4 DEF Branches, Shielded, Exempt
<1>10. Guarded'
  <2> SUFFICES ASSUME NEW o \in instList \ reprieved, kind[o] = "branch",
                      stage'[o] = "waiting", o \notin maySquash'
               PROVE  Behind(o)'
    BY <1>3 DEF Guarded
  <2>1. o # s /\ stage[o] = "waiting" /\ o \notin maySquash
    BY <1>3 DEF Disarms
  <2>2. PICK b \in maySquash :
            /\ b < o
            /\ \/ b \in runahead
               \/ squashIt # None /\ squashedSeqNum <= b /\ stage[b] # "waiting"
    BY <1>2, <2>1 DEF Guarded, Behind
  <2>3. b \in maySquash' /\ (stage[b] # "waiting" => stage'[b] # "waiting")
    BY <2>2, <1>2, <1>3 DEF BufferTypes, Disarms
  <2> QED
    BY <2>2, <2>3, <1>3 DEF Behind
<1>11. WokenRight'
  <2> SUFFICES ASSUME NEW t \in Live, t \notin fault'
               PROVE  /\ t \in WritebackDone' \ unsafe => t \in woken
                      /\ kind[t] # "branch" /\ t \notin doomed' =>
                            /\ t \notin runahead \cup rewoken
                            /\ t \in woken => t \in WritebackDone' \ unsafe
    BY <1>3 DEF WokenRight
  <2>1. fault \subseteq fault' /\ doomed \subseteq doomed'
    BY DEF Spoils
  <2>2. t \in WritebackDone' <=> t \in WritebackDone
    BY <2>1, <1>3
  <2> QED
    BY <2>1, <2>2, <1>2 DEF WokenRight
<1>12. ControlTypes' /\ Numbered' /\ RetiredWokeOnce' /\ OnlyRightPathRetires'
  <2>1. SquashOK(toCommit') /\ traps' \in 0 .. MaxTraps
    BY DEF Spoils, Forwards
  <2>2. SquashOK(fromIEW')
    BY <1>2, <1>3 DEF ControlTypes
  <2> QED
    BY <2>1, <2>2, <1>2, <1>3, <1>6 DEF ControlTypes, Numbered, RetiredWokeOnce,
       OnlyRightPathRetires
<1>13. Sweeping'
  BY <1>2, <1>3 DEF Sweeping
<1>14. Named'
  <2>1. \A t \in instList : stage'[t] = stage[t] \/ stage'[t] = "executed"
    BY <1>3
  <2>2. stage'[s] = "executed" /\ s \in instList
    BY <1>3 DEF Live
  <2> QED
    BY <2>1, <2>2, <1>2, <1>3 DEF Named, Reading, Forwards
<1>15. Redirecting' = Redirecting
  BY <1>3, <1>4 DEF Redirecting
<1>16. Reading' = Reading /\ \A t \in Live : Dying(t)' = Dying(t)
  BY <1>3 DEF Reading, Dying
<1>17. Redirecting \subseteq Live /\ Live \subseteq instList
  BY <1>2 DEF Redirecting, Live, BufferTypes
<1>18. Timely'
  <2> SUFFICES ASSUME NEW t \in Redirecting', stage'[t] # "waiting", ~Dying(t)
               PROVE  \/ stage'[t] # "canCommit" /\ Reading /\ Covers(fromIEW, t)
                      \/ stage'[t] \in {"executed", "sent"} /\ Covers(toCommit', t)
    BY <1>3, <1>15, <1>16, <1>17 DEF Timely, Covers
  <2>1. t \in Redirecting /\ t \in Live /\ t \in instList
    BY <1>15, <1>17
  <2>2. CASE t = s
    BY <2>1, <2>2, <1>3 DEF Forwards
  <2>3. CASE t # s
    <3>1. stage'[t] = stage[t]
      BY <2>1, <2>3, <1>3
    <3>2. Covers(toCommit, t) => Covers(toCommit', t)
      BY <2>1 DEF Forwards
    <3> QED
      BY <2>1, <3>1, <3>2, <1>2 DEF Timely
  <2> QED
    BY <2>2, <2>3
<1>19. ASSUME NEW t \in Live, NEW st, "executed" \in st, OlderAt(t, st) PROVE OlderAt(t, st)'
  BY <1>3, <1>17, <1>19 DEF OlderAt
<1>20. Doomed'
  <2>1. \A t \in doomed' \ squashed : t \in Live
    BY DEF Live, Spoils
  <2> SUFFICES ASSUME NEW t \in doomed', t \notin squashed, ~Dying(t)
               PROVE  \/ \E o \in Redirecting : o < t
                      \/ CutsOff(toCommit', t) /\ OlderAt(t, {"executed", "sent"})'
                      \/ /\ CutsOff(fromIEW, t) /\ Reading
                         /\ OlderAt(t, {"executed", "sent", "arrived"})'
    BY <2>1, <1>3, <1>15, <1>16 DEF Doomed, CutsOff
  <2>2. CASE t \in doomed
    <3>1. \/ \E o \in Redirecting : o < t
          \/ CutsOff(toCommit, t) /\ OlderAt(t, {"executed", "sent"})
          \/ CutsOff(fromIEW, t) /\ Reading /\ OlderAt(t, {"executed", "sent", "arrived"})
      BY <2>2, <1>2 DEF Doomed
    <3>2. /\ OlderAt(t, {"executed", "sent"}) => OlderAt(t, {"executed", "sent"})'
          /\ OlderAt(t, {"executed", "sent", "arrived"}) =>
             OlderAt(t, {"executed", "sent", "arrived"})'
      BY <2>1, <1>19
    <3>3. CutsOff(toCommit, t) => CutsOff(toCommit', t)
      BY <2>1 DEF Forwards
    <3> QED
      BY <3>1, <3>2, <3>3
  <2>3. CASE t \notin doomed
    <3>1. s < t /\ CutsOff(toCommit', t)
      BY <2>3 DEF Spoils
    <3>2. s \in Live' /\ stage'[s] = "executed"
      BY <1>3, <1>17
    <3> QED
      BY <3>1, <3>2 DEF OlderAt
  <2> QED
    BY <2>2, <2>3
<1> QED
  BY <1>5, <1>6, <1>7, <1>8, <1>10, <1>11, <1>12, <1>13, <1>14, <1>18, <1>9, <1>20
     DEF IInv, BufferInv, ControlInv

(* A branch executes: it redirects fetch, or is resolved.                  *)
LEMMA ExecuteBranchKeeps ==
    ASSUME IInv, NEW s, ExecuteBranch(s)
    PROVE  IInv'
<1>1. BufferTypes /\ ControlTypes
  BY DEF IInv, BufferInv, ControlInv
<1>2. SetExecuted(s) /\ s \in Live
  BY ExecuteFacts DEF ExecuteBranch
<1>3. s \in SeqNum /\ Live \subseteq SeqNum /\ MaxInsts \in Nat
  BY <1>1, <1>2, WidthsAssumption DEF BufferTypes, Live
<1>4. Disarms(s)
  <2> DEFINE clears == /\ Younger(toCommit, s) /\ s \notin mispred \cup (maySquash \cap runahead)
                       /\ s \in maySquash /\ "Clear_MaySquash_AtExec" \in flags
  <2>1. /\ maySquash' = maySquash \ If(clears, s)
        /\ numCleared' = numCleared + (IF clears THEN 1 ELSE 0)
    BY Zenon DEF ExecuteBranch
  <2>2. numCleared \in Nat
    BY <1>1 DEF ControlTypes
  <2>3. clears => s \in maySquash \ runahead
    OBVIOUS
  <2> HIDE DEF clears
  <2>4. CASE clears
    BY <2>1, <2>3, <2>4 DEF If, Disarms
  <2>5. CASE ~clears
    BY <2>1, <2>2, <2>5 DEF If, Disarms
  <2> QED
    BY <2>4, <2>5
<1>5. fault' = fault /\ doomed' = doomed /\ traps' \in 0 .. MaxTraps
  BY <1>1 DEF ExecuteBranch, ControlTypes
<1>6. Spoils(s)
  BY <1>1, <1>5 DEF BufferTypes, Spoils
<1>7. SquashOK(toCommit) /\ toCommit.seq \in Int
  BY <1>1 DEF ControlTypes, SquashOK
<1>8. CASE s \in mispred \cup (maySquash \cap runahead) /\ Younger(toCommit, s)
  <2>1. toCommit' = [seq |-> s, inst |-> s]
    BY <1>8 DEF ExecuteBranch, SquashDueToBranch
  <2>2. SquashOK(toCommit') /\ toCommit'.inst = s /\ toCommit'.seq = s /\ toCommit' # NoSquash
    BY <2>1, <1>3 DEF SquashOK, NoSquash, SeqNum, None
  <2>3. \A t \in Live : /\ Covers(toCommit, t) => Covers(toCommit', t)
                        /\ CutsOff(toCommit, t) => CutsOff(toCommit', t)
    BY <2>2, <1>3, <1>7, <1>8 DEF Covers, CutsOff, Younger, SeqNum
  <2>4. Covers(toCommit', s)
    BY <2>2, <1>3 DEF Covers, SeqNum
  <2>5. Forwards(s)
    BY <2>2, <2>3, <2>4 DEF Forwards
  <2> QED
    BY <1>2, <1>4, <1>6, <2>5, ExecutionKeeps
<1>9. CASE ~(s \in mispred \cup (maySquash \cap runahead) /\ Younger(toCommit, s))
  <2>1. toCommit' = toCommit
    BY <1>9 DEF ExecuteBranch, SquashDueToBranch
  <2>2. s \in Redirecting => Covers(toCommit, s)
    BY <1>3, <1>7, <1>9 DEF Redirecting, Covers, Younger, SeqNum
  <2>3. Forwards(s)
    BY <1>7, <2>1, <2>2 DEF Forwards
  <2> QED
    BY <1>2, <1>4, <1>6, <2>3, ExecutionKeeps
<1> QED
  BY <1>8, <1>9

(* A load or a store executes, with or without a fault.                    *)
LEMMA ExecuteOtherKeeps ==
    ASSUME IInv, NEW s, NEW faults \in BOOLEAN, ExecuteOther(s, faults)
    PROVE  IInv'
<1>1. BufferTypes /\ ControlTypes /\ Branches
  BY DEF IInv, BufferInv, ControlInv
<1>2. SetExecuted(s) /\ s \in Live
  BY ExecuteFacts DEF ExecuteOther
<1>3. fault \subseteq fault' /\ fault' \subseteq instList
  BY <1>1, <1>2 DEF ExecuteOther, If, BufferTypes, Live
<1>4. traps' \in 0 .. MaxTraps
  BY <1>1, WidthsAssumption DEF ExecuteOther, ControlTypes
<1>5. /\ maySquash' = maySquash /\ numCleared' = numCleared /\ toCommit' = toCommit
      /\ doomed' = doomed
  BY DEF ExecuteOther
<1>6. SquashOK(toCommit) /\ doomed' \subseteq instList
  BY <1>1, <1>5 DEF ControlTypes, BufferTypes
<1>7. s \notin Redirecting
  BY <1>1 DEF ExecuteOther, Branches, Redirecting
<1>8. Disarms(s) /\ Forwards(s)
  BY <1>5, <1>6, <1>7 DEF Disarms, Forwards
<1>9. Spoils(s)
  BY <1>3, <1>4, <1>5, <1>6 DEF Spoils
<1> QED
  BY <1>2, <1>8, <1>9, ExecutionKeeps

(* A store finds that a younger load was too early.                        *)
LEMMA ExecuteViolatingStoreKeeps ==
    ASSUME IInv, NEW s, NEW v \in instList, ExecuteViolatingStore(s, v)
    PROVE  IInv'
<1>1. BufferTypes /\ ControlTypes /\ Branches
  BY DEF IInv, BufferInv, ControlInv
<1>2. SetExecuted(s) /\ s \in Live
  BY ExecuteFacts DEF ExecuteViolatingStore
<1>3. s \in SeqNum /\ v \in SeqNum /\ instList \subseteq SeqNum /\ MaxInsts \in Nat /\ s < v
  BY <1>1, <1>2, WidthsAssumption DEF BufferTypes, Live, ExecuteViolatingStore, SeqNum
<1>4. /\ maySquash' = maySquash /\ numCleared' = numCleared /\ fault' = fault
      /\ traps' = traps /\ doomed' = doomed \cup {t \in instList : t >= v}
  BY DEF ExecuteViolatingStore
<1>5. /\ fault' \subseteq instList /\ doomed' \subseteq instList /\ traps' \in 0 .. MaxTraps
      /\ doomed \subseteq doomed'
  BY <1>1, <1>4 DEF BufferTypes, ControlTypes
<1>6. SquashOK(toCommit) /\ toCommit.seq \in Int
  BY <1>1 DEF ControlTypes, SquashOK
<1>7. s \notin Redirecting
  BY <1>1 DEF ExecuteViolatingStore, Branches, Redirecting
<1>8. ASSUME NEW t \in doomed' \ doomed PROVE t \in Int /\ v <= t /\ s < t
  <2>1. t \in instList /\ t >= v
    BY <1>4
  <2>2. t \in Int /\ s \in Int /\ v \in Int
    BY <2>1, <1>3 DEF SeqNum
  <2> QED
    BY <2>1, <2>2, <1>3
<1>9. CASE Younger(toCommit, s) /\ (Younger(toCommit, v) \/ v = toCommit.seq)
  <2>1. toCommit' = [seq |-> v, inst |-> None]
    BY <1>9 DEF ExecuteViolatingStore, SquashDueToMemOrder
  <2>2. SquashOK(toCommit') /\ toCommit'.inst = None /\ toCommit'.seq = v /\ toCommit' # NoSquash
    BY <2>1, <1>3 DEF SquashOK, NoSquash, SeqNum, None
  <2>3. \A t \in Live : /\ Covers(toCommit, t) => Covers(toCommit', t)
                        /\ CutsOff(toCommit, t) => CutsOff(toCommit', t)
    BY <2>2, <1>3, <1>6, <1>9 DEF Covers, CutsOff, Younger, SeqNum, Live
  <2>4. \A t \in doomed' \ doomed : s < t /\ CutsOff(toCommit', t)
    BY <2>2, <1>8 DEF CutsOff
  <2>5. Disarms(s) /\ Forwards(s)
    BY <1>4, <1>7, <2>2, <2>3 DEF Disarms, Forwards
  <2>6. Spoils(s)
    BY <1>4, <1>5, <2>4 DEF Spoils
  <2> QED
    BY <1>2, <2>5, <2>6, ExecutionKeeps
<1>10. CASE ~(Younger(toCommit, s) /\ (Younger(toCommit, v) \/ v = toCommit.seq))
  <2>1. toCommit' = toCommit
    BY <1>10 DEF ExecuteViolatingStore, SquashDueToMemOrder
  <2>2. toCommit # NoSquash /\ toCommit.seq < v
    BY <1>3, <1>6, <1>10 DEF Younger, SeqNum
  <2>3. \A t \in doomed' \ doomed : s < t /\ CutsOff(toCommit', t)
    BY <2>1, <2>2, <1>3, <1>6, <1>8 DEF CutsOff, SeqNum
  <2>4. Disarms(s) /\ Forwards(s)
    BY <1>4, <1>6, <1>7, <2>1 DEF Disarms, Forwards
  <2>5. Spoils(s)
    BY <1>4, <1>5, <2>3 DEF Spoils
  <2> QED
    BY <1>2, <2>4, <2>5, ExecutionKeeps
<1> QED
  BY <1>9, <1>10

(* Instructions are written back; the safe ones wake dependents.           *)
LEMMA WritebackInstsKeeps ==
    ASSUME IInv, NEW W, WritebackInsts(W)
    PROVE  IInv'
<1> DEFINE waking == W \ (fault \cup (unsafe \ runahead))
<1>1. BufferInv /\ ControlInv
  BY DEF IInv
<1>2. /\ BufferTypes /\ CounterExact /\ RunaheadHasInitiator
      /\ Swept /\ Branches /\ Shielded /\ Guarded /\ WokenRight
      /\ ControlTypes /\ Numbered /\ Sweeping /\ Named /\ Timely /\ Doomed
      /\ RetiredWokeOnce /\ OnlyRightPathRetires
  BY <1>1 DEF BufferInv, ControlInv
<1>3. /\ phase = "iew" /\ phase' = "update"
      /\ \A s \in W : s \in instList /\ stage[s] = "executed"
      /\ Cardinality(W) = Min({WBWidth, Cardinality({s \in instList : stage[s] = "executed"})})
      /\ stage' = [s \in instList |-> IF s \in W THEN "sent" ELSE stage[s]]
      /\ woken' = woken \cup waking /\ rewoken' = rewoken \cup (woken \cap waking)
      /\ numWoken' = Cardinality(waking)
      /\ UNCHANGED <<flags, kind, fault, marks, fate, mode, squash, status, wires,
                     numCleared, committed, retired, frontEnd>>
  BY DEF WritebackInsts, Waking, Wake
<1>4. /\ flags' = flags /\ kind' = kind /\ fault' = fault
      /\ maySquash' = maySquash /\ unsafe' = unsafe /\ runahead' = runahead
      /\ squashed' = squashed /\ mispred' = mispred /\ doomed' = doomed
      /\ reprieved' = reprieved
      /\ num' = num /\ inRunahead' = inRunahead /\ panicked' = panicked
      /\ squashIt' = squashIt /\ squashedSeqNum' = squashedSeqNum
      /\ commitStatus' = commitStatus
      /\ youngestSeqNum' = youngestSeqNum /\ lastCommitted' = lastCommitted
      /\ toCommit' = toCommit /\ fromIEW' = fromIEW /\ numCleared' = numCleared
      /\ committed' = committed /\ retired' = retired
      /\ nextSeq' = nextSeq /\ traps' = traps /\ instList' = instList /\ Live' = Live
  BY <1>3 DEF marks, fate, mode, squash, status, wires, frontEnd, instList, Live
<1>5. numWoken' \in 0 .. WBWidth
  <2>1. IsFiniteSet(W) /\ IsFiniteSet({s \in instList : stage[s] = "executed"})
    BY <1>2, <1>3, FiniteBuffer DEF BufferTypes
  <2>2. /\ Cardinality(waking) \in Nat /\ Cardinality(waking) <= Cardinality(W)
        /\ Cardinality({s \in instList : stage[s] = "executed"}) \in Nat
        /\ Cardinality(W) \in Nat
    BY <2>1, FS_Subset, FS_CardinalityType, Zenon
  <2>3. Cardinality(W) <= WBWidth
    <3>1. \A n \in Nat : Min({WBWidth, n}) <= WBWidth
      <4> SUFFICES ASSUME NEW n \in Nat PROVE Min({WBWidth, n}) <= WBWidth
        OBVIOUS
      <4>1. {WBWidth, n} \subseteq Nat /\ {WBWidth, n} # {}
        BY WidthsAssumption
      <4> QED
        BY <4>1, HasMin
    <3> QED
      BY <3>1, <2>2, <1>3
  <2> QED
    BY <2>2, <2>3, <1>3, WidthsAssumption
<1>6. \A s \in instList : /\ s \in W => stage'[s] = "sent" /\ stage[s] = "executed"
                          /\ s \notin W => stage'[s] = stage[s]
  BY <1>3, Zenon
<1>7. BufferTypes'
  <2>1. stage' \in [instList -> Stage]
    BY <1>2, <1>3 DEF BufferTypes, Stage
  <2> QED
    BY <2>1, <1>2, <1>3, <1>4, Zenon DEF BufferTypes
<1>8. CounterExact' /\ RunaheadHasInitiator' /\ Branches' /\ Shielded'
  BY <1>2, <1>4 DEF CounterExact, RunaheadHasInitiator, Branches, Shielded, Exempt
<1>9. Swept'
  BY <1>2, <1>4, <1>6 DEF Swept, BufferTypes
<1>10. Guarded'
  <2>1. \A s \in instList : stage'[s] = "waiting" <=> stage[s] = "waiting"
    BY <1>6
  <2> QED
    BY <2>1, <1>2, <1>4 DEF Guarded, Behind, BufferTypes
<1>11. WokenRight'
  <2> SUFFICES ASSUME NEW s \in Live, s \notin fault
               PROVE  /\ s \in WritebackDone' \ unsafe => s \in woken'
                      /\ kind[s] # "branch" /\ s \notin doomed =>
                            /\ s \notin runahead \cup rewoken'
                            /\ s \in woken' => s \in WritebackDone' \ unsafe
    BY <1>4 DEF WokenRight
  <2>1. s \in instList
    BY DEF Live
  <2>2. s \in WritebackDone' <=> stage'[s] \in {"sent", "arrived", "canCommit"}
    BY <2>1, <1>4 DEF WritebackDone
  <2>3. s \in WritebackDone <=> stage[s] \in {"sent", "arrived", "canCommit"}
    BY <2>1 DEF WritebackDone
  <2>4. s \in WritebackDone' <=> s \in WritebackDone \/ s \in W
    BY <2>1, <2>2, <2>3, <1>6
  <2>5. s \in W => s \notin WritebackDone
    BY <2>1, <2>3, <1>6
  <2> QED
    BY <2>4, <2>5, <1>2, <1>3, Zenon DEF WokenRight
<1>12. ControlTypes' /\ Numbered' /\ RetiredWokeOnce' /\ OnlyRightPathRetires'
  BY <1>2, <1>3, <1>4, <1>5, Zenon DEF ControlTypes, Numbered, RetiredWokeOnce,
     OnlyRightPathRetires, SquashOK
<1>13. Sweeping' /\ Named'
  BY <1>2, <1>3, <1>4, <1>6, Zenon DEF Sweeping, Named, Reading
<1>14. Redirecting' = Redirecting /\ Redirecting \subseteq instList /\ Reading /\ Reading'
  BY <1>2, <1>3, <1>4, Zenon DEF Redirecting, BufferTypes, Reading
<1>15. Timely'
  BY <1>2, <1>4, <1>6, <1>14 DEF Timely, Covers, Dying
<1>16. Doomed'
  <2>1. \A s \in instList : /\ OlderAt(s, {"executed", "sent"}) => OlderAt(s, {"executed", "sent"})'
                            /\ OlderAt(s, {"executed", "sent", "arrived"}) =>
                               OlderAt(s, {"executed", "sent", "arrived"})'
    BY <1>4, <1>6 DEF OlderAt, Live
  <2> QED
    BY <2>1, <1>2, <1>4, <1>14 DEF Doomed, CutsOff, Dying, BufferTypes
<1> QED
  BY <1>7, <1>8, <1>9, <1>10, <1>11, <1>12, <1>13, <1>15, <1>16 DEF IInv, BufferInv, ControlInv

(* IEW reports the branches it has resolved in this cycle.                 *)
LEMMA UpdateMaySquashStatusInROBKeeps ==
    ASSUME IInv, UpdateMaySquashStatusInROB
    PROVE  IInv'
<1>1. BufferInv /\ ControlInv
  BY DEF IInv
<1>2. /\ BufferTypes /\ CounterExact /\ RunaheadHasInitiator
      /\ Swept /\ Branches /\ Shielded /\ Guarded /\ WokenRight
      /\ ControlTypes /\ Numbered /\ Sweeping /\ Named /\ Timely /\ Doomed
      /\ RetiredWokeOnce /\ OnlyRightPathRetires
  BY <1>1 DEF BufferInv, ControlInv
<1>3. /\ phase = "update" /\ phase' = "commit" /\ numCleared' = 0 /\ numWoken' = 0
      /\ maySquash' = maySquash /\ squashed' = squashed
      /\ flags' = flags /\ kind' = kind /\ stage' = stage /\ fault' = fault
      /\ runahead' = runahead /\ mispred' = mispred /\ doomed' = doomed
      /\ reprieved' = reprieved /\ inRunahead' = inRunahead /\ panicked' = panicked
      /\ squashIt' = squashIt /\ squashedSeqNum' = squashedSeqNum
      /\ commitStatus' = commitStatus
      /\ youngestSeqNum' = youngestSeqNum /\ lastCommitted' = lastCommitted
      /\ toCommit' = toCommit /\ fromIEW' = fromIEW
      /\ committed' = committed /\ retired' = retired
      /\ nextSeq' = nextSeq /\ traps' = traps /\ instList' = instList /\ Live' = Live
      /\ WritebackDone' = WritebackDone
  BY DEF UpdateMaySquashStatusInROB, fate, squash, status, wires, frontEnd, instList, Live,
     WritebackDone
<1>4. PICK max : ReduceNumMaySquashOthers(numCleared, max)
  BY DEF UpdateMaySquashStatusInROB
<1>5. /\ num' = num - numCleared
      /\ unsafe' \subseteq unsafe
      /\ \A s \in unsafe \ unsafe' : s \notin squashed' /\ \A o \in maySquash' : s <= o
      /\ woken' = woken \cup ((unsafe \ unsafe') \cap WritebackDone)
      /\ rewoken' = rewoken \cup (woken \cap (unsafe \ unsafe') \cap WritebackDone)
  BY <1>2, <1>4, ReduceFacts
<1>6. BufferTypes'
  <2>1. num \in Int /\ numCleared \in Nat
    BY <1>2, Counts
  <2>2. num' \in Int
    BY <2>1, <1>5
  <2>3. /\ unsafe' \subseteq instList' /\ woken' \subseteq instList'
        /\ rewoken' \subseteq instList'
    BY <1>2, <1>3, <1>5, Zenon DEF BufferTypes
  <2> QED
    BY <2>2, <2>3, <1>2, <1>3, Zenon DEF BufferTypes
<1>7. CounterExact'
  <2>1. Cardinality(maySquash) \in Nat /\ numCleared \in Nat
    BY <1>2, Counts
  <2>2. num = Cardinality(maySquash) + numCleared
    BY <1>2 DEF CounterExact
  <2>3. maySquash' = maySquash /\ numCleared' = 0 /\ num' = num - numCleared
    BY <1>3, <1>5
  <2> QED
    BY <2>1, <2>2, <2>3 DEF CounterExact
<1>8. RunaheadHasInitiator' /\ Branches' /\ Swept' /\ Guarded'
  <2>1. RunaheadHasInitiator'
    BY <1>2, <1>3, Zenon DEF RunaheadHasInitiator
  <2>2. Branches' /\ Swept'
    BY <1>2, <1>3, Zenon DEF Branches, Swept
  <2>3. Guarded'
    BY <1>2, <1>3, Zenon DEF Guarded, Behind
  <2> QED
    BY <2>1, <2>2, <2>3
<1>9. Shielded'
  <2> SUFFICES ASSUME NEW o \in maySquash, NEW s \in Live, o < s, ~Exempt(s)
               PROVE  s \in unsafe'
    BY <1>3 DEF Shielded, Exempt
  <2>1. s \in unsafe
    BY <1>2 DEF Shielded
  <2>2. ~(s <= o)
    BY <1>2 DEF BufferTypes, Live, SeqNum
  <2> QED
    BY <2>1, <2>2, <1>3, <1>5
<1>10. WokenRight'
  BY <1>2, <1>3, <1>5 DEF WokenRight
<1>11. ControlTypes' /\ Numbered' /\ RetiredWokeOnce' /\ OnlyRightPathRetires'
  <2>1. SquashOK(toCommit)' /\ SquashOK(fromIEW)'
    BY <1>2, <1>3, SignalsKept
  <2>2. numCleared' \in Nat /\ numWoken' \in 0 .. WBWidth
    BY <1>3, WidthsAssumption
  <2>3. ControlTypes'
    BY <2>1, <2>2, <1>2, <1>3 DEF ControlTypes
  <2> QED
    BY <2>3, <1>2, <1>3, Zenon DEF Numbered, RetiredWokeOnce, OnlyRightPathRetires
<1>12. Sweeping' /\ Named'
  BY <1>2, <1>3, Zenon DEF Sweeping, Named, Reading
<1>13. Redirecting' = Redirecting /\ Reading /\ Reading'
  BY <1>3 DEF Redirecting, Reading
<1>14. Timely'
  BY <1>2, <1>3, <1>13 DEF Timely, Covers, Dying
<1>15. Doomed'
  BY <1>2, <1>3, <1>13 DEF Doomed, CutsOff, Dying, OlderAt
<1> QED
  BY <1>6, <1>7, <1>8, <1>9, <1>10, <1>11, <1>12, <1>14, <1>15 DEF IInv, BufferInv, ControlInv

-----------------------------------------------------------------------------
(* The steps of commit that retire, and the end of a cycle.                *)

(* What commit does besides taking the head from the reorder buffer.       *)
Retires ==
    /\ head \notin fault \/ head \in squashed
    /\ commitStatus' \in {"Running", "SquashAfterPending"}
    /\ lastCommitted' \in {lastCommitted, head}
    /\ committed' \in 0 .. CommitWidth /\ traps' \in 0 .. MaxTraps
    /\ flags' = flags /\ phase' = phase /\ youngestSeqNum' = youngestSeqNum
    /\ toCommit' = toCommit /\ fromIEW' = fromIEW /\ numCleared' = numCleared
    /\ numWoken' = numWoken /\ nextSeq' = nextSeq

(* The head leaves the reorder buffer.                                     *)
LEMMA RetirementKeeps ==
    ASSUME IInv, CanRetire, RetireHead(head), Retires
    PROVE  IInv'
<1> DEFINE h == head
<1>1. BufferInv /\ ControlInv
  BY DEF IInv
<1>2. /\ BufferTypes /\ CounterExact /\ RunaheadHasInitiator
      /\ Swept /\ Branches /\ Shielded /\ Guarded /\ WokenRight
      /\ ControlTypes /\ Numbered /\ Sweeping /\ Named /\ Timely /\ Doomed
      /\ RetiredWokeOnce /\ OnlyRightPathRetires
  BY <1>1 DEF BufferInv, ControlInv
<1>3. phase = "retire" /\ commitStatus = "Running" /\ instList # {} /\ stage[h] = "canCommit"
  BY DEF CanRetire
<1>4. instList \subseteq SeqNum /\ MaxInsts \in Nat
  BY <1>2, WidthsAssumption DEF BufferTypes
<1>5. h \in instList /\ \A s \in instList : h <= s
  <2>1. instList \subseteq Nat
    BY <1>4 DEF SeqNum
  <2> QED
    BY <2>1, <1>3, HasMin, Zenon DEF head
<1>6. /\ kind' = [s \in instList \ {h} |-> kind[s]]
      /\ stage' = [s \in instList \ {h} |-> stage[s]]
      /\ maySquash' = maySquash \ {h} /\ unsafe' = unsafe \ {h}
      /\ runahead' = runahead \ {h} /\ squashed' = squashed \ {h}
      /\ fault' = fault \ {h} /\ mispred' = mispred \ {h}
      /\ woken' = woken \ {h} /\ rewoken' = rewoken \ {h}
      /\ doomed' = doomed \ {h} /\ reprieved' = reprieved \ {h}
      /\ num' = num - (IF h \in maySquash THEN 1 ELSE 0)
      /\ panicked' = (panicked \/ h \in maySquash \cap squashed)
      /\ inRunahead' = inRunahead /\ squashIt' = squashIt /\ squashedSeqNum' = squashedSeqNum
  BY Zenon DEF RetireHead, squash
<1>7. retired' = If(h \notin squashed,
                     [branch |-> kind[h] = "branch", doomed |-> h \in doomed,
                      woken |-> h \in woken \cup unsafe,
                      rewoken |-> h \in rewoken \cup (woken \cap unsafe)])
  BY Zenon DEF RetireHead
<1> HIDE DEF h
<1>8. instList' = instList \ {h} /\ Live' = Live \ {h}
  BY <1>6, Zenon DEF instList, Live
<1>9. \A s \in instList' : stage'[s] = stage[s] /\ kind'[s] = kind[s]
  BY <1>6, <1>8, Zenon
<1>10. squashIt = None /\ \A s : ~Dying(s)
  BY <1>2, <1>3 DEF Sweeping, Dying
<1>11. ~Reading /\ ~Reading'
  BY <1>3 DEF Reading, Retires
<1>12. h \notin Redirecting
  BY <1>2, <1>3, <1>10, <1>11 DEF Timely
<1>13. \A o \in instList : ~(o < h)
  BY <1>4, <1>5 DEF SeqNum
<1>14. Redirecting \subseteq instList
  BY <1>2 DEF Redirecting, BufferTypes
<1>15. h \notin doomed \/ h \in squashed
  <2>1. ~\E o \in Redirecting : o < h
    BY <1>13, <1>14
  <2>2. ~OlderAt(h, {"executed", "sent"})
    BY <1>13 DEF OlderAt, Live
  <2> QED
    BY <2>1, <2>2, <1>2, <1>10, <1>11 DEF Doomed
<1>16. BufferTypes'
  <2>1. stage' \in [instList' -> Stage] /\ kind' \in [instList' -> Kind]
    BY <1>2, <1>6, <1>8 DEF BufferTypes
  <2>2. num' \in Int
    <3>1. num \in Int
      BY <1>2, Counts
    <3>2. num' = num - (IF h \in maySquash THEN 1 ELSE 0)
      BY <1>6
    <3> QED
      BY <3>1, <3>2
  <2>3. panicked' = FALSE
    BY <1>2, <1>6, Zenon DEF BufferTypes, Swept
  <2>4. instList' \subseteq SeqNum /\ squashIt' = None
    BY <1>4, <1>6, <1>8, <1>10, Zenon
  <2> QED
    BY <2>1, <2>2, <2>3, <2>4, <1>2, <1>6, <1>8 DEF BufferTypes
<1>17. CounterExact'
  <2>1. IsFiniteSet(maySquash)
    BY <1>2, FiniteBuffer DEF BufferTypes
  <2>2. Cardinality(maySquash) \in Nat /\ num = Cardinality(maySquash) + numCleared
        /\ numCleared \in Nat
    BY <2>1, <1>2, FS_CardinalityType DEF CounterExact, ControlTypes
  <2>3. CASE h \in maySquash
    <3>1. Cardinality(maySquash \ {h}) = Cardinality(maySquash) - 1
      BY <2>1, <2>3, FS_RemoveElement
    <3>2. Cardinality(maySquash') = Cardinality(maySquash) - 1 /\ num' = num - 1
      BY <3>1, <2>3, <1>6, Zenon
    <3> QED
      BY <2>2, <3>2 DEF CounterExact, Retires
  <2>4. CASE h \notin maySquash
    <3>1. maySquash' = maySquash /\ num' = num - 0
      BY <2>4, <1>6, Zenon
    <3> QED
      BY <2>2, <3>1 DEF CounterExact, Retires
  <2> QED
    BY <2>3, <2>4
<1>18. maySquash' \cap runahead' = maySquash \cap runahead
  BY <1>2, <1>6, <1>12, Zenon DEF Redirecting, Swept
<1>19. RunaheadHasInitiator'
  BY <1>2, <1>5, <1>6, <1>8, <1>12, <1>18, Zenon DEF RunaheadHasInitiator
<1>20. Swept'
  BY <1>2, <1>6, <1>8, <1>9, <1>10, Zenon DEF Swept, BufferTypes
<1>21. Branches'
  BY <1>2, <1>6, <1>8, <1>9, Zenon DEF Branches, BufferTypes
<1>22. Shielded'
  BY <1>2, <1>6, <1>8, <1>9, Zenon DEF Shielded, Exempt, Live, Retires
<1>23. Guarded'
  <2> SUFFICES ASSUME NEW o \in instList', o \notin reprieved, kind'[o] = "branch",
                      stage'[o] = "waiting", o \notin maySquash'
               PROVE  Behind(o)'
    BY <1>6, <1>8, Zenon DEF Guarded
  <2>1. o \in instList /\ o # h /\ o \notin maySquash /\ kind[o] = "branch"
        /\ stage[o] = "waiting"
    BY <1>6, <1>8, <1>9, Zenon
  <2>2. PICK b \in maySquash : b < o /\ b \in runahead
    BY <2>1, <1>2, <1>10 DEF Guarded, Behind
  <2>3. b \in maySquash' \cap runahead'
    BY <2>2, <1>18
  <2> QED
    BY <2>2, <2>3 DEF Behind
<1>24. WokenRight'
  <2> SUFFICES ASSUME NEW s \in Live', s \notin fault'
               PROVE  /\ s \in WritebackDone' \ unsafe' => s \in woken'
                      /\ kind'[s] # "branch" /\ s \notin doomed' =>
                            /\ s \notin runahead' \cup rewoken'
                            /\ s \in woken' => s \in WritebackDone' \ unsafe'
    BY DEF WokenRight
  <2>1. s \in Live /\ s # h /\ s \in instList' /\ s \in instList /\ s \notin fault
    BY <1>6, <1>8, Zenon DEF Live
  <2>2. s \in WritebackDone' <=> s \in WritebackDone
    BY <2>1, <1>6, <1>9, Zenon DEF WritebackDone
  <2> QED
    BY <2>1, <2>2, <1>2, <1>6, <1>9, Zenon DEF WokenRight
<1>25. ControlTypes'
  <2>1. lastCommitted' \in 0 .. MaxInsts
    <3>1. lastCommitted \in 0 .. MaxInsts
      BY <1>2 DEF ControlTypes
    <3>2. lastCommitted' \in {lastCommitted, h}
      BY Zenon DEF Retires, h
    <3> QED
      BY <3>1, <3>2, <1>4, <1>5 DEF SeqNum
  <2>2. ControlTypes
    BY <1>2
  <2>3. SquashOK(toCommit)' /\ SquashOK(fromIEW)'
    BY <2>2, SignalsKept, Zenon DEF Retires
  <2> QED
    BY <2>1, <2>2, <2>3, <1>3, Zenon DEF ControlTypes, Retires
<1>26. Numbered'
  <2>1. ASSUME NEW s \in instList' PROVE lastCommitted' < s
    <3>1. s \in instList /\ s # h /\ h <= s /\ lastCommitted < s
      BY <1>2, <1>5, <1>8 DEF Numbered
    <3>2. s \in Int /\ h \in Int
      BY <3>1, <1>4, <1>5 DEF SeqNum
    <3> QED
      BY <3>1, <3>2 DEF h, Retires
  <2>2. h < nextSeq
    BY <1>2, <1>5 DEF Numbered
  <2> QED
    BY <2>1, <2>2, <1>2, <1>8 DEF Numbered, h, Retires
<1>27. RetiredWokeOnce' /\ OnlyRightPathRetires'
  <2>1. CASE h \in squashed
    BY <2>1, <1>7 DEF If, RetiredWokeOnce, OnlyRightPathRetires
  <2>2. CASE h \notin squashed
    <3>1. h \in Live \ fault /\ h \in WritebackDone /\ h \notin doomed
      BY <2>2, <1>3, <1>5, <1>15 DEF Live, WritebackDone, h, Retires
    <3>2. /\ h \in woken \cup unsafe
          /\ h \in rewoken \cup (woken \cap unsafe) => kind[h] = "branch"
      BY <3>1, <1>2 DEF WokenRight
    <3>3. \A i \in retired' :
             i = [branch |-> kind[h] = "branch", doomed |-> h \in doomed,
                  woken |-> h \in woken \cup unsafe,
                  rewoken |-> h \in rewoken \cup (woken \cap unsafe)]
      BY <2>2, <1>7, Zenon DEF If
    <3>4. ASSUME NEW i \in retired'
          PROVE  i.woken /\ (i.rewoken => i.branch) /\ ~i.doomed
      <4> DEFINE br == kind[h] = "branch"
                 do == h \in doomed
                 wo == h \in woken \cup unsafe
                 re == h \in rewoken \cup (woken \cap unsafe)
      <4>1. i = [branch |-> br, doomed |-> do, woken |-> wo, rewoken |-> re]
        BY <3>3, Zenon
      <4>3. wo /\ (re => br) /\ ~do
        BY <3>1, <3>2, Zenon
      <4> HIDE DEF br, do, wo, re
      <4>2. i.branch = br /\ i.doomed = do /\ i.woken = wo /\ i.rewoken = re
        BY <4>1
      <4> QED
        BY <4>2, <4>3
    <3> QED
      BY <3>4 DEF RetiredWokeOnce, OnlyRightPathRetires
  <2> QED
    BY <2>1, <2>2
<1>28. Sweeping'
  BY <1>2, <1>6, <1>8, <1>10, Zenon DEF Sweeping, Retires
<1>29. Named'
  BY <1>2, <1>3, <1>8, <1>9, <1>11, Zenon DEF Named, Retires
<1>30. Redirecting' = Redirecting
  BY <1>2, <1>5, <1>6, <1>12 DEF Redirecting
<1>31. Timely'
  BY <1>2, <1>6, <1>8, <1>9, <1>10, <1>11, <1>12, <1>14, <1>30, Zenon DEF Timely,
     Covers, Retires
<1>32. Doomed'
  <2> SUFFICES ASSUME NEW s \in doomed', s \notin squashed'
               PROVE  \/ \E o \in Redirecting : o < s
                      \/ CutsOff(toCommit, s) /\ OlderAt(s, {"executed", "sent"})'
    BY <1>30 DEF Doomed, CutsOff, Retires
  <2>1. s \in doomed \ squashed
    BY <1>6, Zenon
  <2>2. OlderAt(s, {"executed", "sent"}) => OlderAt(s, {"executed", "sent"})'
    BY <1>3, <1>8, <1>9 DEF OlderAt, Live
  <2> QED
    BY <2>1, <2>2, <1>2, <1>10, <1>11 DEF Doomed
<1> QED
  BY <1>16, <1>17, <1>19, <1>20, <1>21, <1>22, <1>23, <1>24, <1>25, <1>26, <1>27, <1>28, <1>29,
     <1>31, <1>32 DEF IInv, BufferInv, ControlInv

(* A squashed head leaves.                                                 *)
LEMMA RetireSquashedKeeps ==
    ASSUME IInv, RetireSquashed
    PROVE  IInv'
<1>1. ControlTypes
  BY DEF IInv, ControlInv
<1>2. Retires
  BY <1>1 DEF RetireSquashed, CanRetire, status, wires, counters, frontEnd, ControlTypes, Retires
<1> QED
  BY <1>2, RetirementKeeps DEF RetireSquashed

(* The head commits, and may squash what follows it.                       *)
LEMMA CommitHeadKeeps ==
    ASSUME IInv, NEW after \in BOOLEAN, CommitHead(after)
    PROVE  IInv'
<1>1. ControlTypes
  BY DEF IInv, ControlInv
<1>2. committed' \in 0 .. CommitWidth /\ traps' \in 0 .. MaxTraps
  <2>1. committed \in 0 .. CommitWidth /\ traps \in 0 .. MaxTraps
    BY <1>1 DEF ControlTypes
  <2>2. /\ committed < CommitWidth /\ committed' = committed + 1
        /\ after => traps < MaxTraps
        /\ traps' = traps + (IF after THEN 1 ELSE 0)
    BY Zenon DEF CommitHead, CanRetire
  <2> QED
    BY <2>1, <2>2, WidthsAssumption
<1>3. CanRetire /\ RetireHead(head) /\ Retires
  BY <1>2 DEF CommitHead, wires, Retires
<1> QED
  BY <1>3, RetirementKeeps

(* The time buffers advance and arrived instructions can commit.           *)
LEMMA EndCycleKeeps ==
    ASSUME IInv, EndCycle
    PROVE  IInv'
<1>1. BufferInv /\ ControlInv
  BY DEF IInv
<1>2. /\ BufferTypes /\ CounterExact /\ RunaheadHasInitiator
      /\ Swept /\ Branches /\ Shielded /\ Guarded /\ WokenRight
      /\ ControlTypes /\ Numbered /\ Sweeping /\ Named /\ Timely /\ Doomed
  BY <1>1 DEF BufferInv, ControlInv
<1>3. /\ phase = "retire" /\ phase' = "iew"
      /\ stage' = [s \in instList |-> IF stage[s] = "arrived" THEN "canCommit"
                                     ELSE IF stage[s] = "sent" THEN "arrived" ELSE stage[s]]
      /\ fromIEW' = toCommit /\ toCommit' = NoSquash /\ committed' = 0 /\ retired' = {}
      /\ flags' = flags /\ kind' = kind /\ fault' = fault
      /\ maySquash' = maySquash /\ unsafe' = unsafe /\ runahead' = runahead
      /\ squashed' = squashed /\ mispred' = mispred /\ doomed' = doomed
      /\ reprieved' = reprieved /\ woken' = woken /\ rewoken' = rewoken
      /\ num' = num /\ inRunahead' = inRunahead /\ panicked' = panicked
      /\ squashIt' = squashIt /\ squashedSeqNum' = squashedSeqNum
      /\ commitStatus' = commitStatus
      /\ youngestSeqNum' = youngestSeqNum /\ lastCommitted' = lastCommitted
      /\ numCleared' = numCleared /\ numWoken' = numWoken
      /\ nextSeq' = nextSeq /\ traps' = traps
  BY DEF EndCycle, marks, fate, wakes, mode, squash, status, frontEnd
<1>4. instList' = instList /\ Live' = Live
  BY <1>3 DEF instList, Live
<1>5. \A s \in instList :
         /\ stage[s] = "waiting"   => stage'[s] = "waiting"
         /\ stage[s] = "executed"  => stage'[s] = "executed"
         /\ stage[s] = "sent"      => stage'[s] = "arrived"
         /\ stage[s] = "arrived"   => stage'[s] = "canCommit"
         /\ stage[s] = "canCommit" => stage'[s] = "canCommit"
         /\ stage[s] \in Stage /\ stage'[s] \in Stage
  BY <1>2, <1>3, Zenon DEF BufferTypes, Stage
<1>6. BufferTypes'
  <2>1. stage' \in [instList -> Stage]
    BY <1>3, <1>5
  <2> QED
    BY <2>1, <1>2, <1>3, <1>4, Zenon DEF BufferTypes
<1>7. CounterExact' /\ RunaheadHasInitiator' /\ Branches' /\ Shielded'
  BY <1>2, <1>3, <1>4 DEF CounterExact, RunaheadHasInitiator, Branches, Shielded, Exempt
<1>8. Swept'
  BY <1>2, <1>3, <1>4, <1>5 DEF Swept, BufferTypes
<1>9. Guarded'
  <2>1. \A s \in instList : stage'[s] = "waiting" <=> stage[s] = "waiting"
    BY <1>5, Zenon DEF Stage
  <2> QED
    <3>1. \A b \in maySquash : b \in instList
      BY <1>2, Zenon DEF BufferTypes
    <3>2. \A o : Behind(o) => Behind(o)'
      BY <2>1, <3>1, <1>3, Zenon DEF Behind
    <3> QED
      BY <2>1, <3>2, <1>2, <1>3, <1>4, Zenon DEF Guarded
<1>10. WokenRight'
  <2>1. WritebackDone' = WritebackDone
    <3>1. \A s \in instList : stage'[s] \in {"sent", "arrived", "canCommit"} <=>
                              stage[s] \in {"sent", "arrived", "canCommit"}
      BY <1>5, Zenon DEF Stage
    <3> QED
      BY <3>1, <1>3, <1>4 DEF WritebackDone
  <2> QED
    BY <2>1, <1>2, <1>3, <1>4 DEF WokenRight
<1>11. ControlTypes'
  <2>1. SquashOK(NoSquash) /\ committed' \in 0 .. CommitWidth
    <3>1. committed' = 0
      BY <1>3
    <3> QED
      BY <3>1, WidthsAssumption DEF SquashOK, NoSquash, None
  <2>2. SquashOK(toCommit)
    BY <1>2 DEF ControlTypes
  <2>3. SquashOK(toCommit)' /\ SquashOK(fromIEW)'
    BY <2>1, <2>2, <1>3, Zenon DEF SquashOK
  <2> QED
    BY <2>1, <2>3, <1>2, <1>3 DEF ControlTypes
<1>12. Numbered' /\ RetiredWokeOnce' /\ OnlyRightPathRetires' /\ Sweeping'
  BY <1>2, <1>3, <1>4 DEF Numbered, RetiredWokeOnce, OnlyRightPathRetires, Sweeping
<1>13. Named'
  <2>1. \A s \in instList : stage[s] # "waiting" => stage'[s] # "waiting"
    BY <1>5 DEF Stage
  <2> QED
    BY <2>1, <1>2, <1>3, <1>4 DEF Named, NoSquash, None
<1>14. Redirecting' = Redirecting /\ Redirecting \subseteq instList /\ ~Reading /\ Reading'
  BY <1>2, <1>3 DEF Redirecting, BufferTypes, Reading
<1>15. Timely'
  <2> SUFFICES ASSUME NEW s \in Redirecting, stage'[s] # "waiting", ~Dying(s)
               PROVE  stage'[s] # "canCommit" /\ Covers(toCommit, s)
    BY <1>3, <1>14 DEF Timely, Covers, Dying
  <2>1. stage[s] # "waiting" /\ s \in instList
    BY <1>5, <1>14, Zenon
  <2>2. stage[s] \in {"executed", "sent"} /\ Covers(toCommit, s)
    BY <2>1, <1>2, <1>14, Zenon DEF Timely
  <2> QED
    BY <2>1, <2>2, <1>5, Zenon
<1>16. Doomed'
  <2> SUFFICES ASSUME NEW s \in doomed \ squashed, ~Dying(s)
               PROVE  \/ \E o \in Redirecting : o < s
                      \/ CutsOff(toCommit, s) /\ OlderAt(s, {"executed", "sent", "arrived"})'
    BY <1>3, <1>14 DEF Doomed, CutsOff, Dying
  <2>1. OlderAt(s, {"executed", "sent"}) => OlderAt(s, {"executed", "sent", "arrived"})'
    BY <1>4, <1>5 DEF OlderAt, Live
  <2> QED
    BY <2>1, <1>2, <1>14 DEF Doomed
<1> QED
  BY <1>6, <1>7, <1>8, <1>9, <1>10, <1>11, <1>12, <1>13, <1>15, <1>16
     DEF IInv, BufferInv, ControlInv

-----------------------------------------------------------------------------
(* The empty reorder buffer satisfies the invariant.                       *)
LEMMA InitIInv == Init => IInv
<1> SUFFICES ASSUME Init PROVE IInv
  OBVIOUS
<1>1. instList = {}
  BY DEF Init, instList
<1>2. BufferTypes
  <2>1. stage \in [{} -> Stage] /\ kind \in [{} -> Kind]
    BY DEF Init
  <2>2. stage \in [instList -> Stage] /\ kind \in [instList -> Kind]
    BY <1>1, <2>1
  <2>3. num \in Int /\ squashedSeqNum \in 0 .. MaxInsts /\ squashIt \in instList \cup {None}
    BY WidthsAssumption DEF Init
  <2>4. inRunahead \in BOOLEAN /\ panicked = FALSE
    BY Zenon DEF Init
  <2>5. /\ maySquash \subseteq instList /\ unsafe \subseteq instList
        /\ runahead \subseteq instList /\ squashed \subseteq instList
        /\ fault \subseteq instList /\ mispred \subseteq instList
        /\ woken \subseteq instList /\ rewoken \subseteq instList
        /\ doomed \subseteq instList /\ reprieved \subseteq instList
    BY DEF Init
  <2>6. instList \subseteq SeqNum
    BY <1>1
  <2> QED
    BY <2>2, <2>3, <2>4, <2>5, <2>6 DEF BufferTypes
<1>3. ControlTypes
  <2>1. SquashOK(NoSquash)
    BY WidthsAssumption DEF SquashOK, NoSquash, None
  <2>2. /\ SquashOK(toCommit) /\ SquashOK(fromIEW) /\ flags \in Configs
        /\ commitStatus = "Running" /\ phase = "iew"
    BY <2>1, Zenon DEF Init
  <2>3. /\ youngestSeqNum \in 0 .. MaxInsts /\ lastCommitted \in 0 .. MaxInsts
        /\ numCleared \in Nat /\ numWoken \in 0 .. WBWidth /\ committed \in 0 .. CommitWidth
        /\ nextSeq \in 1 .. MaxInsts + 1 /\ traps \in 0 .. MaxTraps /\ numCleared = 0
    <3>1. /\ youngestSeqNum = 0 /\ lastCommitted = 0 /\ numCleared = 0 /\ numWoken = 0
          /\ committed = 0 /\ nextSeq = 1 /\ traps = 0
      BY Zenon DEF Init
    <3> QED
      BY <3>1, WidthsAssumption
  <2> QED
    BY <2>2, <2>3 DEF ControlTypes
<1>4. CounterExact
  <2>1. maySquash = {} /\ num = 0 /\ numCleared = 0
    BY DEF Init
  <2> QED
    BY <2>1, FS_EmptySet DEF CounterExact
<1>5. RunaheadHasInitiator /\ Swept /\ Branches /\ Shielded /\ Guarded /\ WokenRight
  BY <1>1 DEF Init, RunaheadHasInitiator, Swept, Branches, Shielded, Guarded, WokenRight, Live
<1>6. Numbered /\ Sweeping /\ Timely /\ Doomed /\ RetiredWokeOnce /\ OnlyRightPathRetires
  <2>1. /\ mispred = {} /\ maySquash = {} /\ doomed = {} /\ retired = {} /\ squashIt = None
        /\ youngestSeqNum = 0 /\ lastCommitted = 0 /\ nextSeq = 1 /\ commitStatus = "Running"
    BY DEF Init
  <2>2. Numbered
    BY <1>1, <2>1 DEF Numbered
  <2>3. Timely /\ Doomed
    BY <1>1, <2>1 DEF Timely, Doomed, Redirecting
  <2>4. Sweeping
    BY <1>1, <2>1 DEF Sweeping, Live
  <2> QED
    BY <2>1, <2>2, <2>3, <2>4 DEF RetiredWokeOnce, OnlyRightPathRetires
<1>7. Named
  BY DEF Init, Named, NoSquash
<1> QED
  BY <1>2, <1>3, <1>4, <1>5, <1>6, <1>7 DEF IInv, BufferInv, ControlInv

(* So does a state in which nothing has changed.                           *)
LEMMA StutterKeeps ==
    ASSUME IInv, UNCHANGED vars
    PROVE  IInv'
<1>1. /\ flags' = flags /\ kind' = kind /\ stage' = stage /\ fault' = fault
      /\ maySquash' = maySquash /\ unsafe' = unsafe /\ runahead' = runahead
      /\ squashed' = squashed /\ mispred' = mispred /\ doomed' = doomed
      /\ reprieved' = reprieved /\ woken' = woken /\ rewoken' = rewoken
      /\ num' = num /\ inRunahead' = inRunahead /\ panicked' = panicked
      /\ squashIt' = squashIt /\ squashedSeqNum' = squashedSeqNum
      /\ commitStatus' = commitStatus
      /\ youngestSeqNum' = youngestSeqNum /\ lastCommitted' = lastCommitted
      /\ toCommit' = toCommit /\ fromIEW' = fromIEW /\ numCleared' = numCleared
      /\ numWoken' = numWoken /\ committed' = committed /\ retired' = retired
      /\ nextSeq' = nextSeq /\ traps' = traps /\ phase' = phase
  BY DEF vars, buffer, marks, fate, wakes, mode, squash, status, wires, counters, frontEnd
<1>2. instList' = instList /\ Live' = Live /\ Redirecting' = Redirecting /\ Reading' = Reading
  BY <1>1 DEF instList, Live, Redirecting, Reading
<1>3. BufferInv'
  BY UntouchedBuffer DEF IInv, vars, counters
<1>4. ControlTypes' /\ Numbered' /\ RetiredWokeOnce' /\ OnlyRightPathRetires' /\ Sweeping'
      /\ Named'
  <2>1. ControlTypes /\ Numbered /\ RetiredWokeOnce /\ OnlyRightPathRetires /\ Sweeping /\ Named
    BY DEF IInv, ControlInv
  <2>2. SquashOK(toCommit)' /\ SquashOK(fromIEW)'
    BY <2>1, <1>1, Zenon DEF ControlTypes, SquashOK
  <2>3. ControlTypes'
    BY <2>1, <2>2, <1>1, Zenon DEF ControlTypes
  <2>4. Numbered' /\ RetiredWokeOnce' /\ OnlyRightPathRetires'
    BY <2>1, <1>1, <1>2, Zenon DEF Numbered, RetiredWokeOnce, OnlyRightPathRetires
  <2>5. Sweeping' /\ Named'
    BY <2>1, <1>1, <1>2, Zenon DEF Sweeping, Named
  <2> QED
    BY <2>3, <2>4, <2>5
<1>5. Timely' /\ Doomed'
  BY <1>1, <1>2, Zenon DEF IInv, ControlInv, Timely, Doomed, Covers, CutsOff, OlderAt, Dying
<1> QED
  BY <1>3, <1>4, <1>5 DEF IInv, ControlInv

(* Every step of IEW, of commit and of the front end keeps it.             *)
LEMMA NextKeepsIInv == IInv /\ [Next]_vars => IInv'
<1> SUFFICES ASSUME IInv, [Next]_vars PROVE IInv'
  OBVIOUS
<1>1. CASE UNCHANGED vars
  BY <1>1, StutterKeeps
<1>2. ASSUME NEW W, WritebackInsts(W) PROVE IInv'
  BY <1>2, WritebackInstsKeeps
<1>3. CASE UpdateMaySquashStatusInROB
  BY <1>3, UpdateMaySquashStatusInROBKeeps
<1>4. CASE ContinueSquash
  BY <1>4, ContinueSquashKeeps
<1>5. CASE AcceptSquash
  BY <1>5, AcceptSquashKeeps
<1>6. CASE NothingToAccept
  BY <1>6, NothingToAcceptKeeps
<1>7. CASE GotInsts \/ CommitFault
  BY <1>7, GotInstsKeeps
<1>8. CASE RetireSquashed
  BY <1>8, RetireSquashedKeeps
<1>9. ASSUME NEW after \in BOOLEAN, CommitHead(after) PROVE IInv'
  BY <1>9, CommitHeadKeeps
<1>10. CASE EndCycle
  BY <1>10, EndCycleKeeps
<1>11. ASSUME NEW s, Execute(s) PROVE IInv'
  BY <1>11, ExecuteBranchKeeps, ExecuteOtherKeeps, ExecuteViolatingStoreKeeps DEF Execute
<1>12. ASSUME NEW k \in Kind, NEW wrong \in BOOLEAN, NEW stalling \in BOOLEAN,
              GetInst(k, wrong, stalling)
       PROVE  IInv'
  BY <1>12, GetInstKeeps
<1>13. CASE SquashAll
  BY <1>13, SquashAllKeeps
<1> QED
  BY <1>1, <1>2, <1>3, <1>4, <1>5, <1>6, <1>7, <1>8, <1>9, <1>10, <1>11, <1>12, <1>13, Zenon
     DEF Next, Tick

(* The invariant holds in every state the CPU reaches.                     *)
THEOREM IInvInvariant == Spec => []IInv
BY InitIInv, NextKeepsIInv, PTL DEF Spec

(* Every piece of the state has its type: squashIt points into the buffer, *)
(* and every status bit belongs to an instruction that is in it.           *)
THEOREM TypeCorrect == Spec => []TypeOK
<1>1. IInv => TypeOK
  BY Zenon DEF IInv, BufferInv, BufferTypes, ControlInv, ControlTypes, SquashOK, TypeOK
<1> QED
  BY <1>1, IInvInvariant, PTL

(* The counter by which insertInst decides whether an instruction is       *)
(* unsafe is the number of branches that may squash, however insertions,   *)
(* executions, squashes and retirements interleave.                        *)
THEOREM CountExact == Spec => []CounterExact
<1>1. IInv => CounterExact
  BY DEF IInv, BufferInv
<1> QED
  BY <1>1, IInvInvariant, PTL

(* Runahead is never entered without a branch that will end it.            *)
THEOREM RunaheadEnds == Spec => []RunaheadHasInitiator
<1>1. IInv => RunaheadHasInitiator
  BY DEF IInv, BufferInv
<1> QED
  BY <1>1, IInvInvariant, PTL

(* No panic of class ROB is reached.                                       *)
THEOREM NoPanic == Spec => []NeverPanics
<1>1. IInv => NeverPanics
  BY DEF IInv, BufferInv, BufferTypes, NeverPanics
<1> QED
  BY <1>1, IInvInvariant, PTL

(* Every instruction that commits has woken its dependents, once if it is  *)
(* no branch.                                                              *)
THEOREM RetiredHasWoken == Spec => []RetiredWokeOnce
<1>1. IInv => RetiredWokeOnce
  BY DEF IInv, ControlInv
<1> QED
  BY <1>1, IInvInvariant, PTL

(* Nothing on a wrong path commits.                                        *)
THEOREM RetiredIsRight == Spec => []OnlyRightPathRetires
<1>1. IInv => OnlyRightPathRetires
  BY DEF IInv, ControlInv
<1> QED
  BY <1>1, IInvInvariant, PTL

(* An instruction that is not unsafe, and so hands its result on, has no   *)
(* older branch that still waits but one a memory order violation took for *)
(* resolved.                                                               *)
THEOREM ForwardingResolved == Spec => []ForwardedIsResolved
<1>1. IInv => ForwardedIsResolved
  <2> SUFFICES ASSUME IInv, NEW s \in woken \ (unsafe \cup squashed), ~Exempt(s),
                      NEW o \in instList \ reprieved, o < s, kind[o] = "branch",
                      stage[o] = "waiting"
               PROVE  FALSE
    BY DEF ForwardedIsResolved
  <2>1. BufferTypes /\ Shielded /\ Guarded
    BY DEF IInv, BufferInv
  <2>2. s \in Live /\ s \in Int /\ o \in Int
    <3>1. s \in Live /\ s \in SeqNum /\ o \in SeqNum
      BY <2>1, Zenon DEF BufferTypes, Live
    <3> QED
      BY <3>1 DEF SeqNum
  <2>3. PICK b \in maySquash : b = o \/ b < o
    <3>1. o \in maySquash \/ Behind(o)
      BY <2>1 DEF Guarded
    <3> QED
      BY <3>1 DEF Behind
  <2>4. b < s
    <3>1. b \in Int
      <4>1. b \in SeqNum
        BY <2>1, <2>3, Zenon DEF BufferTypes
      <4> QED
        BY <4>1 DEF SeqNum
    <3> QED
      BY <3>1, <2>2, <2>3
  <2> QED
    BY <2>1, <2>2, <2>4 DEF Shielded
<1> QED
  BY <1>1, IInvInvariant, PTL
=============================================================================
