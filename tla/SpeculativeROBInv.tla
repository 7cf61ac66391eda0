------------------------- MODULE SpeculativeROBInv --------------------------
(***************************************************************************)
(* The inductive invariant of SpeculativeROB, and that squashing and       *)
(* inserting keep it: the walk of ROB::doSquash, which the steps of commit *)
(* share, the three actions that squash, the steps of commit that only     *)
(* move control on, and the insertion of an instruction.                   *)
(***************************************************************************)
EXTENDS SpeculativeROB, FiniteSetTheorems, WellFoundedInduction, TLAPS

Live == instList \ squashed

SquashOK(m) ==
    /\ m \in [seq : 0 .. MaxInsts, inst : 0 .. MaxInsts]
    /\ m = NoSquash \/ (m.seq \in SeqNum /\ m.inst \in {None, m.seq})

BufferTypes ==
    /\ instList \subseteq SeqNum /\ stage \in [instList -> Stage] /\ kind \in [instList -> Kind]
    /\ maySquash \subseteq instList /\ unsafe \subseteq instList
    /\ runahead \subseteq instList /\ squashed \subseteq instList
    /\ fault \subseteq instList /\ mispred \subseteq instList
    /\ woken \subseteq instList /\ rewoken \subseteq instList
    /\ doomed \subseteq instList /\ reprieved \subseteq instList
    /\ num \in Int /\ inRunahead \in BOOLEAN /\ panicked = FALSE
    /\ squashIt \in instList \cup {None} /\ squashedSeqNum \in 0 .. MaxInsts

ControlTypes ==
    /\ flags \in Configs /\ SquashOK(toCommit) /\ SquashOK(fromIEW)
    /\ commitStatus \in {"Running", "ROBSquashing", "TrapPending", "SquashAfterPending"}
    /\ youngestSeqNum \in 0 .. MaxInsts /\ lastCommitted \in 0 .. MaxInsts
    /\ numCleared \in Nat /\ numWoken \in 0 .. WBWidth /\ committed \in 0 .. CommitWidth
    /\ phase \in {"iew", "update", "commit", "accept", "insert", "retire"}
    /\ nextSeq \in 1 .. MaxInsts + 1 /\ traps \in 0 .. MaxTraps
    /\ numCleared = 0 \/ phase \in {"iew", "update"}
    /\ phase = "insert" => commitStatus = "Running"

(* What is in the reorder buffer came after the last instruction that      *)
(* committed.                                                              *)
Numbered ==
    /\ \A s \in instList : lastCommitted < s /\ s < nextSeq
    /\ youngestSeqNum < nextSeq /\ lastCommitted < nextSeq

(* A squashed instruction has no power left and can leave; everything      *)
(* beyond squashIt is squashed.                                            *)
Swept ==
    /\ \A s \in squashed : s \notin maySquash /\ stage[s] = "canCommit"
    /\ squashIt # None => \A s \in instList : s > squashIt => s \in squashed

(* Only a branch may squash or go the wrong way.                           *)
Branches == \A s \in maySquash \cup mispred : kind[s] = "branch"

(* Everything behind an instruction that may squash is unsafe.             *)
Shielded ==
    \A o \in maySquash, s \in Live : o < s /\ ~Exempt(s) => s \in unsafe

(* A branch that waits may squash, or is behind the branch that started    *)
(* runahead and will be squashed with it.                                  *)
Behind(o) ==
    \E b \in maySquash :
        /\ b < o
        /\ \/ b \in runahead
           \/ squashIt # None /\ squashedSeqNum <= b /\ stage[b] # "waiting"

Guarded ==
    \A o \in instList \ reprieved :
        kind[o] = "branch" /\ stage[o] = "waiting" => o \in maySquash \/ Behind(o)

(* Who was woken: everything written back that is not held unsafe, and no  *)
(* instruction on the right path but a branch for another reason or twice. *)
WokenRight ==
    \A s \in Live \ fault :
        /\ s \in WritebackDone \ unsafe => s \in woken
        /\ kind[s] # "branch" /\ s \notin doomed =>
              /\ s \notin runahead \cup rewoken
              /\ s \in woken => s \in WritebackDone \ unsafe

(* The walk of a squash under way: commit waits for it and has already     *)
(* forgotten what it will squash.                                          *)
Sweeping ==
    /\ squashIt # None => commitStatus = "ROBSquashing" /\ youngestSeqNum <= squashedSeqNum
    /\ \A s \in Live : s > youngestSeqNum => squashIt # None /\ squashedSeqNum < s

(* Commit has yet to read what IEW sent in the cycle before.               *)
Reading == phase \in {"iew", "update", "commit", "accept"}

(* The branch a squash names is still there when commit reads it.          *)
Named ==
    /\ toCommit.inst # None =>
          /\ toCommit.inst \in instList /\ stage[toCommit.inst] # "waiting"
          /\ \/ stage[toCommit.inst] \in {"executed", "sent"}
             \/ commitStatus = "ROBSquashing" /\ phase \in {"accept", "retire"}
    /\ fromIEW.inst # None /\ Reading =>
          fromIEW.inst \in instList /\ stage[fromIEW.inst] # "waiting"

(* An instruction is dying when commit is bound to squash it.              *)
Dying(s) ==
    \/ commitStatus = "TrapPending"
    \/ commitStatus = "ROBSquashing" /\ squashIt # None /\ squashedSeqNum < s

Redirecting == (mispred \cup (maySquash \cap runahead)) \ squashed

Covers(m, s) == m # NoSquash /\ m.seq <= s

(* A branch that has executed and has to redirect fetch is on its way to   *)
(* do so before commit can retire it.                                      *)
Timely ==
    \A s \in Redirecting :
        \/ stage[s] = "waiting"
        \/ Dying(s)
        \/ stage[s] # "canCommit" /\ Reading /\ Covers(fromIEW, s)
        \/ stage[s] \in {"executed", "sent"} /\ Covers(toCommit, s)

CutsOff(m, s) == m # NoSquash /\ IF m.inst = None THEN m.seq <= s ELSE m.seq < s

OlderAt(s, stages) == \E o \in Live : o < s /\ stage[o] \in stages

(* A doomed instruction has an older one that will have it squashed.       *)
Doomed ==
    \A s \in doomed \ squashed :
        \/ \E o \in Redirecting : o < s
        \/ Dying(s)
        \/ CutsOff(toCommit, s) /\ OlderAt(s, {"executed", "sent"})
        \/ CutsOff(fromIEW, s) /\ Reading /\ OlderAt(s, {"executed", "sent", "arrived"})

BufferInv ==
    /\ BufferTypes /\ CounterExact /\ RunaheadHasInitiator
    /\ Swept /\ Branches /\ Shielded /\ Guarded /\ WokenRight

ControlInv ==
    /\ ControlTypes /\ Numbered /\ Sweeping /\ Named /\ Timely /\ Doomed
    /\ RetiredWokeOnce /\ OnlyRightPathRetires

IInv == BufferInv /\ ControlInv

-----------------------------------------------------------------------------
(* Finite sets of sequence numbers have a smallest and a largest member.   *)
LEMMA HasMin ==
    ASSUME NEW S, S \subseteq Nat, S # {}
    PROVE  Min(S) \in S /\ \A s \in S : Min(S) <= s
<1>1. PICK x \in S : \A y \in S : ~(<<y, x>> \in OpToRel(<, Nat))
  BY NatLessThanWellFounded, WFMin, Zenon
<1>2. ASSUME NEW y \in S PROVE x <= y
  <2>1. <<y, x>> \in Nat \X Nat /\ <<y, x>>[1] = y /\ <<y, x>>[2] = x
    OBVIOUS
  <2>2. ~(<<y, x>>[1] < <<y, x>>[2])
    BY <1>1, <2>1 DEF OpToRel
  <2> QED
    BY <2>1, <2>2
<1> QED
  BY <1>2, Zenon DEF Min

(* A non-empty set of sequence numbers has a largest member.               *)
LEMMA HasMax ==
    ASSUME NEW S, S \subseteq SeqNum, S # {}
    PROVE  Max(S) \in S /\ \A s \in S : s <= Max(S)
<1> DEFINE T == {MaxInsts - s : s \in S}
<1>1. MaxInsts \in Nat
  BY WidthsAssumption
<1>2. T \subseteq Nat
  BY <1>1 DEF SeqNum
<1>3. T # {}
  <2>1. PICK s \in S : TRUE
    OBVIOUS
  <2>2. MaxInsts - s \in T
    OBVIOUS
  <2> QED
    BY <2>2
<1> HIDE DEF T
<1>4. Min(T) \in T /\ \A t \in T : Min(T) <= t
  BY <1>2, <1>3, HasMin, Zenon
<1>5. PICK x \in S : Min(T) = MaxInsts - x
  BY <1>4 DEF T
<1>6. ASSUME NEW s \in S PROVE s <= x
  <2>1. MaxInsts - s \in T
    BY DEF T
  <2>2. MaxInsts - x <= MaxInsts - s
    BY <2>1, <1>4, <1>5
  <2> QED
    BY <2>2, <1>1 DEF SeqNum
<1>7. \A s \in S : x >= s
  BY <1>1, <1>6 DEF SeqNum
<1>8. Max(S) \in S /\ \A s \in S : Max(S) >= s
  BY <1>7 DEF Max
<1> QED
  BY <1>1, <1>8 DEF SeqNum

(* What is in the reorder buffer is finite.                                *)
LEMMA FiniteBuffer ==
    ASSUME NEW S, S \subseteq SeqNum
    PROVE  IsFiniteSet(S)
<1>1. MaxInsts \in Int /\ 1 \in Int
  BY WidthsAssumption
<1>2. IsFiniteSet(1 .. MaxInsts)
  BY <1>1, FS_Interval
<1> QED
  BY <1>2, FS_Subset, Zenon DEF SeqNum

(* What commit compares are numbers.                                       *)
LEMMA Numbers ==
    ASSUME BufferTypes, ControlTypes
    PROVE  /\ MaxInsts \in Nat /\ instList \subseteq SeqNum
           /\ \A s \in instList : s \in Int /\ 1 <= s /\ s <= MaxInsts
           /\ youngestSeqNum \in Int /\ lastCommitted \in Int /\ squashedSeqNum \in Int
           /\ nextSeq \in Int /\ 1 <= nextSeq
           /\ toCommit.seq \in Int /\ fromIEW.seq \in Int
<1>1. MaxInsts \in Nat
  BY WidthsAssumption
<1>2. instList \subseteq SeqNum /\ squashedSeqNum \in 0 .. MaxInsts
  BY DEF BufferTypes
<1>3. /\ youngestSeqNum \in 0 .. MaxInsts /\ lastCommitted \in 0 .. MaxInsts
      /\ nextSeq \in 1 .. MaxInsts + 1 /\ SquashOK(toCommit) /\ SquashOK(fromIEW)
  BY DEF ControlTypes
<1>4. ASSUME NEW m, SquashOK(m) PROVE m.seq \in Int
  BY <1>1, <1>4 DEF SquashOK
<1> QED
  BY <1>1, <1>2, <1>3, <1>4 DEF SeqNum

(* The signals of IEW keep their types when they stay.                     *)
LEMMA SignalsKept ==
    ASSUME ControlTypes, toCommit' = toCommit, fromIEW' = fromIEW
    PROVE  SquashOK(toCommit)' /\ SquashOK(fromIEW)'
<1>1. SquashOK(toCommit) /\ SquashOK(fromIEW)
  BY DEF ControlTypes
<1> QED
  BY <1>1, Zenon DEF SquashOK

(* The numbers that count the reorder buffer.                              *)
LEMMA Counts ==
    ASSUME BufferTypes, ControlTypes
    PROVE  num \in Int /\ numCleared \in Nat /\ Cardinality(maySquash) \in Nat
<1>1. maySquash \subseteq SeqNum /\ num \in Int
  BY DEF BufferTypes
<1>2. numCleared \in Nat
  BY DEF ControlTypes
<1>3. Cardinality(maySquash) \in Nat
  BY <1>1, FiniteBuffer, FS_CardinalityType
<1> QED
  BY <1>1, <1>2, <1>3

-----------------------------------------------------------------------------
(* What reduceNumMaySquashOthers leaves unsafe, and whom it wakes.         *)
LEMMA ReduceFacts ==
    ASSUME NEW c, NEW max, ReduceNumMaySquashOthers(c, max), BufferTypes
    PROVE  /\ num' = num - c
           /\ unsafe' \subseteq unsafe
           /\ \A s \in unsafe \ unsafe' : s \notin squashed' /\ \A o \in maySquash' : s <= o
           /\ woken' = woken \cup ((unsafe \ unsafe') \cap WritebackDone)
           /\ rewoken' = rewoken \cup (woken \cap (unsafe \ unsafe') \cap WritebackDone)
<1> DEFINE safe == MarkedSafe(maySquash', squashed', max)
<1>1. safe \subseteq Clearable(maySquash', squashed')
  BY DEF MarkedSafe
<1>2. safe \subseteq unsafe \ squashed' /\ \A s \in safe, o \in maySquash' : s <= o
  BY <1>1 DEF Clearable
<1>3. /\ num' = num - c /\ unsafe' = unsafe \ safe
      /\ woken' = woken \cup (safe \cap WritebackDone)
      /\ rewoken' = rewoken \cup (woken \cap (safe \cap WritebackDone))
  BY DEF ReduceNumMaySquashOthers, MarkFollowingInstructionsAsSafe, Wake
<1>4. unsafe \ unsafe' = safe
  BY <1>2, <1>3
<1> QED
  BY <1>2, <1>3, <1>4

(* One call of doSquash squashes a suffix of the reorder buffer, and when  *)
(* anything younger than the goal is left the walk has a place to resume.  *)
LEMMA SquashWalk ==
    ASSUME BufferTypes, NEW it \in instList, NEW upto \in 0 .. MaxInsts, NEW single, NEW ended,
           \A s \in instList : s > it => s \in squashed,
           DoSquash(it, upto, single, ended)
    PROVE  LET V == Victims(it, upto, single)
           IN  /\ \A s \in V : s \in instList /\ upto < s
               /\ squashed' = squashed \cup V
               /\ \A s \in V, t \in instList : s < t => t \in squashed'
               /\ \A s \in Cause(it, upto, V) :
                     /\ s \in maySquash \ V /\ s = upto
                     /\ \A t \in instList : s < t => t \in squashed'
               /\ \A t \in instList \ squashed' : upto < t => squashIt' # None
               /\ squashIt' \in instList \cup {None}
               /\ squashIt' # None => \A t \in instList : t > squashIt' => t \in squashed'
<1> DEFINE V == Victims(it, upto, single)
           all == {s \in instList : s <= it /\ s > upto}
           R == Rest(it, V)
<1>1. MaxInsts \in Nat /\ instList \subseteq SeqNum
  BY WidthsAssumption DEF BufferTypes
<1>2. V \subseteq all
  BY DEF Victims
<1>3. squashed' = squashed \cup V
  BY DEF DoSquash
<1>4. ASSUME NEW s \in V, NEW t \in instList, s < t PROVE t \in squashed'
  <2>1. s \in instList /\ s > upto
    BY <1>2
  <2>2. s \in Int /\ t \in Int /\ it \in Int /\ upto \in Int
    BY <1>1, <2>1 DEF SeqNum
  <2>3. CASE t > it
    BY <1>3, <2>3
  <2>4. CASE ~(t > it)
    <3>1. t \in all
      BY <1>4, <2>1, <2>2, <2>4
    <3>2. CASE single
      BY <3>1, <3>2, <1>3 DEF Victims
    <3>3. CASE ~single
      <4>1. Cardinality({y \in all : y > s}) < SquashWidth
        BY <1>4, <3>3 DEF Victims
      <4>2. {y \in all : y > t} \subseteq {y \in all : y > s}
        <5> SUFFICES ASSUME NEW y \in all, y > t PROVE y > s
          OBVIOUS
        <5>1. y \in Int
          BY <1>1 DEF SeqNum
        <5> QED
          BY <5>1, <2>2, <1>4
      <4>3. IsFiniteSet({y \in all : y > s})
        BY <1>1, FiniteBuffer
      <4>4. /\ Cardinality({y \in all : y > t}) <= Cardinality({y \in all : y > s})
            /\ Cardinality({y \in all : y > t}) \in Nat
            /\ Cardinality({y \in all : y > s}) \in Nat
        BY <4>2, <4>3, FS_Subset, FS_CardinalityType
      <4>5. Cardinality({y \in all : y > t}) < SquashWidth
        BY <4>1, <4>4, WidthsAssumption
      <4> QED
        BY <3>1, <3>3, <4>5, <1>3 DEF Victims
    <3> QED
      BY <3>2, <3>3
  <2> QED
    BY <2>3, <2>4
<1>5. R \subseteq instList /\ R \cap V = {} /\ \A t \in instList : t \in R \/ t \in squashed'
  BY <1>1, <1>3 DEF Rest, SeqNum
<1>6. ASSUME NEW s \in Cause(it, upto, V)
      PROVE  /\ s \in maySquash \ V /\ s = upto
             /\ \A t \in instList : s < t => t \in squashed'
  <2>1. s \in R /\ s \in maySquash /\ s = upto /\ \A t \in R : t <= s
    BY DEF Cause
  <2> QED
    BY <2>1, <1>5, <1>1 DEF SeqNum
<1>7. squashIt' = IF \A s \in R : s <= upto THEN None ELSE Max(R)
  BY DEF DoSquash
<1>8. CASE \A s \in R : s <= upto
  <2>1. squashIt' = None
    BY <1>7, <1>8
  <2>2. ASSUME NEW t \in instList \ squashed', upto < t PROVE FALSE
    <3>1. t \in R /\ t <= upto
      BY <1>5, <1>8
    <3> QED
      BY <3>1, <2>2, <1>1 DEF SeqNum
  <2> QED
    BY <2>1, <2>2, <1>2, <1>3, <1>4, <1>6
<1>9. CASE ~\A s \in R : s <= upto
  <2>1. R # {} /\ R \subseteq SeqNum
    BY <1>9, <1>1, <1>5
  <2>2. squashIt' \in R /\ \A s \in R : s <= squashIt'
    BY <2>1, <1>7, <1>9, HasMax
  <2>3. squashIt' \in instList /\ squashIt' # None
    BY <2>2, <1>1, <1>5 DEF SeqNum, None
  <2>4. ASSUME NEW t \in instList, t > squashIt' PROVE t \in squashed'
    BY <2>2, <2>3, <2>4, <1>1, <1>5 DEF SeqNum
  <2> QED
    BY <2>3, <2>4, <1>2, <1>3, <1>4, <1>6
<1> QED
  BY <1>8, <1>9

(* A call of doSquash keeps what the invariant says of the buffer.         *)
LEMMA DoSquashKeepsBuffer ==
    ASSUME BufferInv, NEW it \in instList, NEW upto \in 0 .. MaxInsts,
           NEW single, NEW ended, ended \subseteq maySquash \cap runahead,
           \A s \in instList : s > it => s \in squashed,
           \A b \in ended : b = upto /\ stage[b] # "waiting",
           squashIt # None => upto <= squashedSeqNum,
           DoSquash(it, upto, single, ended),
           flags' = flags, numCleared' = numCleared, mispred' \subseteq mispred,
           numCleared \in Nat
    PROVE  BufferInv'
<1> DEFINE V == Victims(it, upto, single)
           cause == Cause(it, upto, V)
           cleared == (V \cap maySquash) \cup cause
           left == ended \cup (runahead \cap cleared)
<1>1. /\ BufferTypes /\ CounterExact /\ RunaheadHasInitiator
      /\ Swept /\ Branches /\ Shielded /\ Guarded /\ WokenRight
  BY DEF BufferInv
<1>2. /\ \A s \in V : s \in instList /\ upto < s
      /\ squashed' = squashed \cup V
      /\ \A s \in V, t \in instList : s < t => t \in squashed'
      /\ \A s \in cause :
            /\ s \in maySquash \ V /\ s = upto
            /\ \A t \in instList : s < t => t \in squashed'
      /\ \A t \in instList \ squashed' : upto < t => squashIt' # None
      /\ squashIt' \in instList \cup {None}
      /\ squashIt' # None => \A t \in instList : t > squashIt' => t \in squashed'
  BY <1>1, SquashWalk
<1>3. /\ squashedSeqNum' = upto
      /\ stage' = [s \in instList |-> IF s \in V THEN "canCommit" ELSE stage[s]]
      /\ maySquash' = maySquash \ cleared
      /\ runahead' = runahead \ (cleared \cup ended)
      /\ LeaveRunaheadMode(left)
      /\ reprieved' = reprieved \cup {s \in cause : stage[s] = "waiting"}
      /\ UNCHANGED <<kind, fault, doomed>>
  BY DEF DoSquash
<1>4. PICK max : ReduceNumMaySquashOthers(Cardinality(cleared), max)
  BY DEF DoSquash
<1>5. /\ num' = num - Cardinality(cleared)
      /\ unsafe' \subseteq unsafe
      /\ \A s \in unsafe \ unsafe' : s \notin squashed' /\ \A o \in maySquash' : s <= o
      /\ woken' = woken \cup ((unsafe \ unsafe') \cap WritebackDone)
      /\ rewoken' = rewoken \cup (woken \cap (unsafe \ unsafe') \cap WritebackDone)
  BY <1>1, <1>4, ReduceFacts
<1>6. cleared \subseteq maySquash /\ maySquash \subseteq instList /\ instList \subseteq SeqNum
  BY <1>1, <1>2 DEF BufferTypes
<1>7. instList' = instList
  BY <1>3 DEF instList
<1> HIDE DEF V, cause, cleared
<1>8. CounterExact'
  <2>1. IsFiniteSet(maySquash) /\ cleared \subseteq maySquash
    BY <1>6, FiniteBuffer
  <2>2. /\ Cardinality(maySquash \ cleared)
                = Cardinality(maySquash) - Cardinality(maySquash \cap cleared)
        /\ Cardinality(maySquash) \in Nat
    BY <2>1, FS_Difference, FS_CardinalityType, Zenon
  <2>3. maySquash \cap cleared = cleared
    BY <2>1
  <2>4. IsFiniteSet(cleared)
    BY <2>1, FS_Subset
  <2>5. Cardinality(cleared) \in Nat
    BY <2>4, FS_CardinalityType
  <2>6. Cardinality(maySquash') = Cardinality(maySquash) - Cardinality(cleared)
    <3>1. maySquash' = maySquash \ cleared
      BY <1>3
    <3> QED
      BY <3>1, <2>2, <2>3, Zenon
  <2>7. num = Cardinality(maySquash) + numCleared
    BY <1>1 DEF CounterExact
  <2>8. num' = Cardinality(maySquash') + numCleared'
    BY <1>5, <2>2, <2>5, <2>6, <2>7
  <2> QED
    BY <2>8 DEF CounterExact
<1>9. RunaheadHasInitiator' /\ inRunahead' \in BOOLEAN /\ panicked' = FALSE
  <2>1. /\ inRunahead' = (inRunahead /\ left = {})
        /\ panicked' = (panicked \/ \E s \in left : ~inRunahead \/ left # {s})
    BY <1>3 DEF LeaveRunaheadMode
  <2>2. left \subseteq maySquash \cap runahead
    BY <1>6
  <2>3. (maySquash \cap runahead)' = (maySquash \cap runahead) \ left
    BY <1>3, <1>6 DEF cleared
  <2>4. inRunahead \in BOOLEAN /\ panicked = FALSE
    BY <1>1 DEF BufferTypes
  <2> HIDE DEF left
  <2>5. CASE inRunahead
    <3>1. PICK s \in instList : maySquash \cap runahead = {s}
      BY <1>1, <2>5 DEF RunaheadHasInitiator
    <3>2. left = {} \/ left = {s}
      BY <2>2, <3>1
    <3> QED
      BY <2>1, <2>3, <2>4, <2>5, <3>1, <3>2, <1>7, Zenon DEF RunaheadHasInitiator
  <2>6. CASE ~inRunahead
    <3>1. maySquash \cap runahead = {} /\ left = {}
      BY <1>1, <2>2, <2>6 DEF RunaheadHasInitiator
    <3> QED
      BY <2>1, <2>3, <2>4, <2>6, <3>1 DEF RunaheadHasInitiator
  <2> QED
    BY <2>5, <2>6, Zenon
<1>10. BufferTypes'
  <2>1. stage' \in [instList -> Stage]
    BY <1>1, <1>3 DEF BufferTypes, Stage
  <2>2. squashedSeqNum' \in 0 .. MaxInsts
    BY <1>3
  <2>3. num' \in Int
    <3>1. IsFiniteSet(cleared)
      BY <1>6, FiniteBuffer
    <3>2. Cardinality(cleared) \in Nat
      BY <3>1, FS_CardinalityType
    <3> QED
      BY <1>1, <1>5, <3>2 DEF BufferTypes
  <2>4. \A S \in {maySquash', unsafe', runahead', squashed', woken', rewoken', reprieved',
                 mispred', fault', doomed'} : S \subseteq instList
    BY <1>1, <1>2, <1>3, <1>5, <1>6 DEF BufferTypes
  <2> QED
    BY <2>1, <2>2, <2>3, <2>4, <1>1, <1>2, <1>3, <1>7, <1>9 DEF BufferTypes
<1>11. Swept'
  <2>1. \A s \in squashed' : s \notin maySquash' /\ stage'[s] = "canCommit"
    BY <1>1, <1>2, <1>3, <1>6 DEF Swept, BufferTypes, cleared
  <2> QED
    BY <2>1, <1>2, <1>7 DEF Swept
<1>12. Branches'
  BY <1>1, <1>3 DEF Branches
<1>13. Shielded'
  <2> SUFFICES ASSUME NEW o \in maySquash', NEW s \in Live', o < s, ~Exempt(s)'
               PROVE  s \in unsafe'
    BY DEF Shielded
  <2>1. o \in maySquash /\ s \in Live /\ ~Exempt(s)
    BY <1>2, <1>3, <1>7 DEF Live, Exempt
  <2>2. s \in unsafe
    BY <2>1, <1>1 DEF Shielded
  <2>3. ~(s <= o)
    BY <2>1, <1>6 DEF Live, SeqNum
  <2> QED
    BY <2>2, <2>3, <1>5
<1>14. Guarded'
  <2> SUFFICES ASSUME NEW o \in instList \ reprieved', kind[o] = "branch",
                      stage'[o] = "waiting", o \notin maySquash'
               PROVE  Behind(o)'
    BY <1>3, <1>7 DEF Guarded
  <2>1. o \notin V /\ stage[o] = "waiting" /\ o \notin reprieved
    BY <1>3
  <2>2. o \notin squashed /\ o \notin squashed'
    BY <2>1, <1>1, <1>2 DEF Swept
  <2>3. o \notin maySquash
    BY <1>3, <2>1 DEF cleared
  <2>4. PICK b \in maySquash :
            /\ b < o
            /\ \/ b \in runahead
               \/ squashIt # None /\ squashedSeqNum <= b /\ stage[b] # "waiting"
    BY <1>1, <2>1, <2>3 DEF Guarded, Behind
  <2>5. b \notin V /\ b \notin cause /\ b \in maySquash'
    BY <1>2, <1>3, <1>6, <2>2, <2>4 DEF cleared
  <2>6. stage'[b] = stage[b]
    BY <2>5, <1>3, <1>6
  <2>7. CASE b \in runahead \ ended
    BY <2>4, <2>5, <2>7, <1>3 DEF Behind, cleared
  <2>8. ASSUME upto <= b, stage[b] # "waiting" PROVE Behind(o)'
    <3>1. upto < o
      BY <2>4, <2>8, <1>6 DEF SeqNum
    <3>2. squashIt' # None
      BY <3>1, <2>2, <1>2
    <3> QED
      BY <3>2, <2>4, <2>5, <2>6, <2>8, <1>3 DEF Behind, None
  <2>9. CASE b \in ended
    BY <2>8, <2>9, <1>6 DEF SeqNum
  <2>10. CASE squashIt # None /\ squashedSeqNum <= b /\ stage[b] # "waiting"
    <3>1. upto <= b
      BY <2>10, <1>1, <1>6 DEF BufferTypes, SeqNum
    <3> QED
      BY <3>1, <2>8, <2>10
  <2> QED
    BY <2>4, <2>7, <2>9, <2>10
<1>15. WokenRight'
  <2> SUFFICES ASSUME NEW s \in instList, s \notin squashed', s \notin fault
               PROVE  /\ s \in WritebackDone' \ unsafe' => s \in woken'
                      /\ kind[s] # "branch" /\ s \notin doomed =>
                            /\ s \notin runahead' \cup rewoken'
                            /\ s \in woken' => s \in WritebackDone' \ unsafe'
    BY <1>3, <1>7 DEF WokenRight, Live
  <2>1. s \in Live \ fault /\ s \notin V
    BY <1>2 DEF Live
  <2>2. s \in WritebackDone' <=> s \in WritebackDone
    BY <2>1, <1>3, <1>7 DEF WritebackDone
  <2> QED
    BY <2>1, <2>2, <1>1, <1>3, <1>5 DEF WokenRight
<1> QED
  BY <1>8, <1>9, <1>10, <1>11, <1>12, <1>13, <1>14, <1>15 DEF BufferInv

(* A call of doSquash that goes at least as far as the squashes commit     *)
(* knew of keeps what the invariant says of commit.                        *)
LEMMA DoSquashKeepsControl ==
    ASSUME BufferInv, Sweeping, Named, Timely, Doomed,
           NEW it \in instList, NEW upto \in 0 .. MaxInsts,
           NEW single, NEW ended,
           \A s \in instList : s > it => s \in squashed,
           \A b \in ended : b = upto,
           DoSquash(it, upto, single, ended),
           mispred' \subseteq mispred, \A s \in mispred \ mispred' : s = upto,
           commitStatus' = "ROBSquashing", youngestSeqNum' <= upto,
           \A s \in Live : s > youngestSeqNum' => upto < s,
           \A s \in Live : Dying(s) => upto < s,
           UNCHANGED wires,
           phase \in {"commit", "accept"}, phase' \in {"accept", "retire"},
           phase' = "retire" =>
              \A s \in Live : /\ Covers(fromIEW, s) /\ s \in Redirecting' => upto < s
                              /\ CutsOff(fromIEW, s) => upto < s
    PROVE  Sweeping' /\ Named' /\ Timely' /\ Doomed'
<1> DEFINE V == Victims(it, upto, single)
           cause == Cause(it, upto, V)
<1>1. BufferTypes /\ Swept
  BY DEF BufferInv
<1>2. /\ \A s \in V : s \in instList /\ upto < s
      /\ squashed' = squashed \cup V
      /\ \A s \in V, t \in instList : s < t => t \in squashed'
      /\ \A s \in cause : s = upto
      /\ \A t \in instList \ squashed' : upto < t => squashIt' # None
  BY <1>1, SquashWalk
<1>3. /\ squashedSeqNum' = upto
      /\ stage' = [s \in instList |-> IF s \in V THEN "canCommit" ELSE stage[s]]
      /\ maySquash' = maySquash \ ((V \cap maySquash) \cup cause)
      /\ runahead' = runahead \ ((V \cap maySquash) \cup cause \cup ended)
      /\ UNCHANGED doomed
  BY DEF DoSquash
<1>4. instList' = instList /\ toCommit' = toCommit /\ fromIEW' = fromIEW
  BY <1>3 DEF instList, wires
<1>5. Live' = Live \ V
  BY <1>2, <1>4 DEF Live
<1> HIDE DEF V, cause
<1>6. ASSUME NEW s \in Live', upto < s PROVE Dying(s)'
  BY <1>2, <1>3, <1>4, <1>6 DEF Dying, Live
<1>7. Redirecting' \subseteq Redirecting /\ Redirecting \subseteq Live
  BY <1>1, <1>2, <1>3 DEF Redirecting, Live, BufferTypes
<1>8. Redirecting' \subseteq Live'
  BY <1>2, <1>5, <1>7 DEF Redirecting, Live
<1>9. \A s \in Live' : stage'[s] = stage[s]
  BY <1>3, <1>5 DEF Live
<1>10. Reading
  BY DEF Reading
<1>11. Sweeping'
  BY <1>2, <1>3, <1>4, <1>5 DEF Sweeping, Live
<1>12. Named'
  <2>1. \A s \in instList : stage[s] # "waiting" => stage'[s] # "waiting"
    BY <1>3
  <2>2. \A s \in instList : stage'[s] = stage[s] \/ stage'[s] = "canCommit"
    BY <1>3
  <2> QED
    BY <2>1, <2>2, <1>4, <1>10 DEF Named
<1>13. Timely'
  <2> SUFFICES ASSUME NEW s \in Redirecting', ~Dying(s)', stage'[s] # "waiting"
               PROVE  \/ stage'[s] # "canCommit" /\ Reading' /\ Covers(fromIEW, s)'
                      \/ stage'[s] \in {"executed", "sent"} /\ Covers(toCommit, s)'
    BY DEF Timely
  <2>1. s \in Live' /\ s \in Live /\ s \in Redirecting /\ ~(upto < s)
    BY <1>5, <1>6, <1>7, <1>8
  <2>2. ~Dying(s) /\ stage[s] # "waiting" /\ stage'[s] = stage[s]
    BY <2>1, <1>9
  <2>3. \/ stage[s] # "canCommit" /\ Covers(fromIEW, s)
        \/ stage[s] \in {"executed", "sent"} /\ Covers(toCommit, s)
    BY <2>1, <2>2 DEF Timely
  <2>4. Covers(fromIEW, s) => phase' = "accept"
    BY <2>1
  <2>5. Covers(fromIEW, s)' = Covers(fromIEW, s) /\ Covers(toCommit, s)' = Covers(toCommit, s)
    BY <1>4 DEF Covers
  <2> QED
    BY <2>2, <2>3, <2>4, <2>5 DEF Reading
<1>14. Doomed'
  <2> SUFFICES ASSUME NEW s \in doomed, s \notin squashed', ~Dying(s)'
               PROVE  \/ \E o \in Redirecting' : o < s
                      \/ CutsOff(toCommit, s)' /\ OlderAt(s, {"executed", "sent"})'
                      \/ /\ CutsOff(fromIEW, s)' /\ Reading'
                         /\ OlderAt(s, {"executed", "sent", "arrived"})'
    BY <1>3 DEF Doomed
  <2>1. s \in instList /\ s \in Live' /\ s \in Live /\ ~(upto < s) /\ s \notin squashed
    BY <1>1, <1>2, <1>4, <1>6 DEF Live, BufferTypes
  <2>2. ~Dying(s)
    BY <2>1
  <2>3. \A o \in instList : o < s => o \notin V
    BY <2>1, <1>2
  <2>4. ASSUME NEW o \in Redirecting, o < s PROVE o \in Redirecting'
    <3>1. o \in Live /\ o # upto /\ o \notin V /\ o \notin cause /\ o \notin ended
      BY <2>1, <2>3, <2>4, <1>2, <1>7 DEF Live
    <3> QED
      BY <3>1, <1>2, <1>3 DEF Redirecting
  <2>5. ASSUME NEW st, OlderAt(s, st) PROVE OlderAt(s, st)'
    BY <2>3, <2>5, <1>5, <1>9 DEF OlderAt, Live
  <2>6. CutsOff(fromIEW, s) => phase' = "accept"
    BY <2>1
  <2>7. /\ CutsOff(fromIEW, s)' = CutsOff(fromIEW, s)
        /\ CutsOff(toCommit, s)' = CutsOff(toCommit, s)
    BY <1>4 DEF CutsOff
  <2>8. \/ \E o \in Redirecting : o < s
        \/ CutsOff(toCommit, s) /\ OlderAt(s, {"executed", "sent"})
        \/ CutsOff(fromIEW, s) /\ OlderAt(s, {"executed", "sent", "arrived"})
    BY <2>1, <2>2 DEF Doomed
  <2> QED
    BY <2>4, <2>5, <2>6, <2>7, <2>8 DEF Reading
<1> QED
  BY <1>11, <1>12, <1>13, <1>14

-----------------------------------------------------------------------------
(* The squashes of commit, and its steps that only move control on.        *)

(* The three actions that squash.                                          *)
LEMMA SquashOnEmpty ==
    ASSUME BufferInv, ControlInv, instList = {}, NEW n, NEW single, NEW ended,
           Squash(n, single, ended), mispred' \subseteq mispred, youngestSeqNum' \in Int,
           UNCHANGED <<flags, wires, numCleared>>, phase \in {"commit", "accept"}
    PROVE  BufferInv' /\ Sweeping' /\ Named' /\ Timely' /\ Doomed'
<1>1. /\ BufferTypes /\ CounterExact /\ RunaheadHasInitiator
      /\ Swept /\ Branches /\ Shielded /\ Guarded /\ WokenRight /\ ControlTypes /\ Named
  BY DEF BufferInv, ControlInv
<1>2. UNCHANGED <<kind, stage, fault, marks, doomed, reprieved, wakes, mode, squash>>
  BY DEF Squash
<1>3. /\ instList' = {} /\ maySquash' = {} /\ runahead' = {} /\ squashed' = {} /\ mispred' = {}
      /\ doomed' = {} /\ squashIt' = None
  BY <1>1, <1>2 DEF BufferTypes, instList, marks, squash
<1>4. BufferTypes'
  BY <1>1, <1>2, <1>3 DEF BufferTypes, instList, marks, squash, wakes, mode
<1>5. CounterExact' /\ RunaheadHasInitiator'
  BY <1>1, <1>2, <1>3 DEF CounterExact, RunaheadHasInitiator, instList, marks, mode
<1>6. Swept' /\ Branches' /\ Shielded' /\ Guarded' /\ WokenRight'
  BY <1>3 DEF Swept, Branches, Shielded, Guarded, WokenRight, Live
<1>7. Sweeping' /\ Timely' /\ Doomed'
  BY <1>3 DEF Sweeping, Timely, Doomed, Live, Redirecting
<1>8. toCommit.inst = None /\ fromIEW.inst = None
  BY <1>1 DEF Named, Reading
<1>9. Named'
  BY <1>1, <1>2, <1>8, <1>3 DEF Named, wires
<1> QED
  BY <1>4, <1>5, <1>6, <1>7, <1>9 DEF BufferInv

(* A call of Squash by commit, for the squash of IEW, a trap or an         *)
(* instruction that squashes what follows it.                              *)
LEMMA SquashKeeps ==
    ASSUME BufferInv, ControlInv, NEW n \in 0 .. MaxInsts, NEW single, NEW ended,
           Squash(n, single, ended), ended \subseteq maySquash \cap runahead,
           \A b \in ended : b = n /\ stage[b] # "waiting",
           squashIt # None => n <= squashedSeqNum,
           mispred' \subseteq mispred, \A s \in mispred \ mispred' : s = n,
           commitStatus' = "ROBSquashing", youngestSeqNum' \in 0 .. MaxInsts,
           instList # {} => youngestSeqNum' <= n,
           \A s \in Live : s > youngestSeqNum' => n < s,
           \A s \in Live : Dying(s) => n < s,
           UNCHANGED <<flags, wires, numCleared>>,
           phase \in {"commit", "accept"}, phase' \in {"accept", "retire"},
           phase' = "retire" =>
              \A s \in Live : /\ Covers(fromIEW, s) /\ s \in Redirecting' => n < s
                              /\ CutsOff(fromIEW, s) => n < s
    PROVE  /\ BufferInv' /\ Sweeping' /\ Named' /\ Timely' /\ Doomed'
           /\ instList' = instList
<1>1. CASE instList = {}
  <2>1. instList' = instList
    BY <1>1 DEF Squash, instList
  <2> QED
    BY <1>1, <2>1, SquashOnEmpty
<1>2. CASE instList # {}
  <2>1. DoSquash(Max(instList), n, single, ended)
    BY <1>2 DEF Squash
  <2>2. instList \subseteq SeqNum /\ MaxInsts \in Nat
    BY WidthsAssumption DEF BufferInv, BufferTypes
  <2>3. Max(instList) \in instList /\ \A s \in instList : s <= Max(instList)
    BY <1>2, <2>2, HasMax
  <2>4. \A s \in instList : s > Max(instList) => s \in squashed
    <3> SUFFICES ASSUME NEW s \in instList, s > Max(instList) PROVE FALSE
      OBVIOUS
    <3>1. s \in SeqNum /\ Max(instList) \in SeqNum /\ s <= Max(instList)
      BY <2>2, <2>3
    <3> QED
      BY <3>1, <2>2 DEF SeqNum
  <2>5. Sweeping /\ Named /\ Timely /\ Doomed /\ numCleared \in Nat
    BY DEF ControlInv, ControlTypes
  <2>6. BufferInv'
    BY <2>1, <2>3, <2>4, <2>5, DoSquashKeepsBuffer
  <2>7. UNCHANGED wires
    OBVIOUS
  <2>8. Sweeping' /\ Named' /\ Timely' /\ Doomed'
    BY <1>2, <2>1, <2>3, <2>4, <2>5, <2>7, DoSquashKeepsControl
  <2>9. instList' = instList
    BY <2>1, Zenon DEF DoSquash, instList
  <2> QED
    BY <2>6, <2>8, <2>9
<1> QED
  BY <1>1, <1>2

(* Commit continues a squash that is wider than SquashWidth.               *)
LEMMA ContinueSquashKeeps ==
    ASSUME IInv, ContinueSquash
    PROVE  IInv'
<1>1. BufferInv /\ ControlInv
  BY DEF IInv
<1>2. /\ BufferTypes /\ Swept /\ ControlTypes /\ Numbered /\ Sweeping /\ Named /\ Timely
      /\ Doomed /\ RetiredWokeOnce /\ OnlyRightPathRetires
  BY <1>1 DEF BufferInv, ControlInv
<1>3. /\ phase = "commit" /\ phase' = "accept" /\ commitStatus = "ROBSquashing"
      /\ squashIt # None /\ DoSquash(squashIt, squashedSeqNum, FALSE, {})
      /\ UNCHANGED <<flags, mispred, status, wires, counters, retired, frontEnd>>
  BY Zenon DEF ContinueSquash, Squashing
<1>4. /\ flags' = flags /\ mispred' = mispred /\ commitStatus' = commitStatus
      /\ youngestSeqNum' = youngestSeqNum /\ lastCommitted' = lastCommitted
      /\ UNCHANGED wires /\ toCommit' = toCommit /\ fromIEW' = fromIEW
      /\ numCleared' = numCleared /\ numWoken' = numWoken /\ committed' = committed
      /\ retired' = retired /\ nextSeq' = nextSeq /\ traps' = traps
  BY <1>3 DEF status, wires, counters, frontEnd
<1>5. squashIt \in instList /\ squashedSeqNum \in 0 .. MaxInsts /\ numCleared \in Nat
  BY <1>2, <1>3 DEF BufferTypes, ControlTypes
<1>6. \A s \in instList : s > squashIt => s \in squashed
  BY <1>2, <1>3 DEF Swept
<1>7. /\ squashIt # None => squashedSeqNum <= squashedSeqNum
      /\ mispred' \subseteq mispred /\ \A s \in mispred \ mispred' : s = squashedSeqNum
  BY <1>4, <1>5, WidthsAssumption
<1>8. PICK single, ended :
          ended = {} /\ DoSquash(squashIt, squashedSeqNum, single, ended)
  BY <1>3, Zenon
<1>9. /\ ended \subseteq maySquash \cap runahead
      /\ \A b \in ended : b = squashedSeqNum /\ stage[b] # "waiting"
  BY <1>8
<1>10. BufferInv'
  BY <1>1, <1>4, <1>5, <1>6, <1>7, <1>8, <1>9, DoSquashKeepsBuffer
<1>11. Sweeping' /\ Named' /\ Timely' /\ Doomed'
  <2>1. /\ youngestSeqNum' <= squashedSeqNum
        /\ \A s \in Live : s > youngestSeqNum' => squashedSeqNum < s
    BY <1>2, <1>3, <1>4 DEF Sweeping
  <2>2. \A s \in Live : Dying(s) => squashedSeqNum < s
    BY <1>3 DEF Dying
  <2>3. /\ commitStatus' = "ROBSquashing" /\ phase \in {"commit", "accept"}
        /\ phase' \in {"accept", "retire"} /\ phase' # "retire" /\ UNCHANGED wires
    BY <1>3, <1>4
  <2> QED
    BY <1>1, <1>2, <1>5, <1>6, <1>7, <1>8, <1>9, <2>1, <2>2, <2>3, DoSquashKeepsControl
<1>12. instList' = instList
  BY <1>3 DEF DoSquash, instList
<1>13. ControlTypes' /\ Numbered' /\ RetiredWokeOnce' /\ OnlyRightPathRetires'
  BY <1>2, <1>3, <1>4, <1>12 DEF ControlTypes, Numbered, RetiredWokeOnce, OnlyRightPathRetires,
     SquashOK
<1> QED
  BY <1>10, <1>11, <1>13 DEF IInv, ControlInv

(* Commit squashes everything after a trap or a squash-after.              *)
LEMMA SquashAllKeeps ==
    ASSUME IInv, SquashAll
    PROVE  IInv'
<1> DEFINE n == IF instList = {} THEN lastCommitted ELSE Min(instList) - 1
<1>1. BufferInv /\ ControlInv
  BY DEF IInv
<1>2. /\ BufferTypes /\ ControlTypes /\ Numbered /\ Sweeping /\ RetiredWokeOnce
      /\ OnlyRightPathRetires
  BY <1>1 DEF BufferInv, ControlInv
<1>3. /\ phase \in {"commit", "accept"} /\ phase' = "accept"
      /\ commitStatus \in {"TrapPending", "SquashAfterPending"}
      /\ commitStatus' = "ROBSquashing" /\ youngestSeqNum' = lastCommitted
      /\ flags' = flags /\ mispred' = mispred /\ lastCommitted' = lastCommitted
      /\ UNCHANGED <<flags, wires, numCleared>> /\ toCommit' = toCommit /\ fromIEW' = fromIEW
      /\ numCleared' = numCleared /\ numWoken' = numWoken /\ committed' = committed
      /\ retired' = retired /\ nextSeq' = nextSeq /\ traps' = traps
  BY DEF SquashAll, Accepting, wires, counters, frontEnd
<1>4. PICK single, ended : ended = {} /\ Squash(n, single, ended)
  BY Zenon DEF SquashAll
<1>5. MaxInsts \in Nat /\ lastCommitted \in 0 .. MaxInsts /\ instList \subseteq SeqNum
  BY <1>2, WidthsAssumption DEF BufferTypes, ControlTypes
<1>6. n \in 0 .. MaxInsts /\ (instList # {} => lastCommitted <= n) /\ \A s \in instList : n < s
  <2>1. CASE instList = {}
    BY <2>1, <1>5
  <2>2. CASE instList # {}
    <3>1. instList \subseteq Nat
      BY <1>5 DEF SeqNum
    <3>2. Min(instList) \in instList /\ \A s \in instList : Min(instList) <= s
      BY <2>2, <3>1, HasMin, Zenon
    <3>3. Min(instList) \in SeqNum /\ lastCommitted < Min(instList)
      BY <3>2, <1>2, <1>5 DEF Numbered
    <3>4. n = Min(instList) - 1
      BY <2>2
    <3> HIDE DEF n
    <3>5. ASSUME NEW s \in instList PROVE n < s
      <4>1. s \in SeqNum /\ Min(instList) <= s
        BY <3>2, <1>5
      <4> QED
        BY <3>3, <3>4, <4>1, <1>5 DEF SeqNum
    <3> QED
      BY <3>3, <3>4, <3>5, <1>5 DEF SeqNum
  <2> QED
    BY <2>1, <2>2
<1> HIDE DEF n
<1>7. squashIt = None
  BY <1>2, <1>3 DEF Sweeping
<1>8. /\ BufferInv' /\ Sweeping' /\ Named' /\ Timely' /\ Doomed'
      /\ instList' = instList
  <2>1. /\ ended \subseteq maySquash \cap runahead
        /\ \A b \in ended : b = n /\ stage[b] # "waiting"
        /\ squashIt # None => n <= squashedSeqNum
        /\ mispred' \subseteq mispred /\ \A s \in mispred \ mispred' : s = n
    BY <1>3, <1>4, <1>7
  <2>2. /\ commitStatus' = "ROBSquashing" /\ youngestSeqNum' \in 0 .. MaxInsts
        /\ instList # {} => youngestSeqNum' <= n
        /\ phase' \in {"accept", "retire"} /\ phase' # "retire"
    BY <1>3, <1>5, <1>6
  <2>3. /\ \A s \in Live : s > youngestSeqNum' => n < s
        /\ \A s \in Live : Dying(s) => n < s
    BY <1>6 DEF Live
  <2> QED
    BY <1>1, <1>3, <1>4, <1>6, <2>1, <2>2, <2>3, SquashKeeps
<1>9. ControlTypes' /\ Numbered' /\ RetiredWokeOnce' /\ OnlyRightPathRetires'
  BY <1>2, <1>3, <1>8 DEF ControlTypes, Numbered, RetiredWokeOnce, OnlyRightPathRetires, SquashOK
<1> QED
  BY <1>8, <1>9 DEF IInv, ControlInv

(* Commit takes over the squash that IEW asked for.                        *)
LEMMA AcceptSquashKeeps ==
    ASSUME IInv, AcceptSquash
    PROVE  IInv'
<1> DEFINE b == fromIEW.inst
           n == SquashedInst
<1>1. BufferInv /\ ControlInv
  BY DEF IInv
<1>2. /\ BufferTypes /\ Swept /\ ControlTypes /\ Numbered /\ Sweeping /\ Named /\ Timely
      /\ RetiredWokeOnce /\ OnlyRightPathRetires
  BY <1>1 DEF BufferInv, ControlInv
<1>3. /\ phase \in {"commit", "accept"} /\ phase' = "retire"
      /\ fromIEW # NoSquash /\ commitStatus # "TrapPending" /\ fromIEW.seq <= youngestSeqNum
      /\ commitStatus' = "ROBSquashing" /\ youngestSeqNum' = n
      /\ flags' = flags /\ mispred' = mispred \ {b} /\ lastCommitted' = lastCommitted
      /\ UNCHANGED <<flags, wires, numCleared>> /\ toCommit' = toCommit /\ fromIEW' = fromIEW
      /\ numCleared' = numCleared /\ numWoken' = numWoken /\ committed' = committed
      /\ retired' = retired /\ nextSeq' = nextSeq /\ traps' = traps
  BY DEF AcceptSquash, Accepting, Acceptable, wires, counters, frontEnd
<1>4. PICK single, ended : ended = {b} \cap maySquash \cap runahead /\ Squash(n, single, ended)
  BY Zenon DEF AcceptSquash
<1>5. MaxInsts \in Nat /\ instList \subseteq SeqNum /\ youngestSeqNum \in 0 .. MaxInsts
  BY <1>2, WidthsAssumption DEF BufferTypes, ControlTypes
<1>6. fromIEW.seq \in SeqNum /\ b \in {None, fromIEW.seq}
  BY <1>2, <1>3 DEF ControlTypes, SquashOK
<1>7. /\ n \in 0 .. MaxInsts /\ n <= youngestSeqNum
      /\ b = None => n = fromIEW.seq - 1
      /\ b # None => n = fromIEW.seq /\ n = b /\ b \in instList /\ stage[b] # "waiting"
  <2>1. fromIEW.seq <= youngestSeqNum
    BY <1>3
  <2>2. b # None => b \in instList /\ stage[b] # "waiting"
    BY <1>2, <1>3, Zenon DEF Named, Reading
  <2>3. CASE b = None
    BY <2>1, <2>3, <1>5, <1>6 DEF SquashedInst, SeqNum
  <2>4. CASE b # None
    BY <2>1, <2>2, <2>4, <1>5, <1>6 DEF SquashedInst, SeqNum
  <2> QED
    BY <2>3, <2>4
<1>8. None \notin instList
  BY <1>5 DEF None, SeqNum
<1>9. ASSUME NEW s \in Live PROVE CutsOff(fromIEW, s) => n < s
  BY <1>5, <1>6, <1>7 DEF CutsOff, Live, SeqNum
<1>10. ASSUME NEW s \in Live, Covers(fromIEW, s), s # n PROVE n < s
  BY <1>5, <1>6, <1>7, <1>10 DEF Covers, Live, SeqNum
<1>11. ASSUME NEW s \in Live, Dying(s) PROVE n < s
  <2>1. youngestSeqNum <= squashedSeqNum /\ squashedSeqNum < s
    BY <1>2, <1>3, <1>11, Zenon DEF Dying, Sweeping
  <2>2. s \in Int /\ youngestSeqNum \in Int /\ squashedSeqNum \in Int
    BY <1>2, Numbers DEF Live
  <2> QED
    BY <2>1, <2>2, <1>7
<1>12. /\ ended \subseteq maySquash \cap runahead
       /\ \A c \in ended : c = n /\ stage[c] # "waiting"
       /\ mispred' \subseteq mispred /\ \A s \in mispred \ mispred' : s = n
  BY <1>2, <1>3, <1>4, <1>7, <1>8 DEF BufferTypes
<1> HIDE DEF n, b
<1>13. squashIt # None => n <= squashedSeqNum
  BY <1>2, <1>5, <1>7 DEF Sweeping, BufferTypes
<1>14. n \notin Redirecting' \/ n < n \/ ~Covers(fromIEW, n)
  <2>1. CASE b = None
    BY <2>1, <1>6, <1>7, <1>5 DEF Covers, SeqNum
  <2>2. CASE b # None
    <3>1. n = b /\ b \in instList
      BY <1>7, <2>2
    <3>2. CASE n \in maySquash \cap runahead
      <4>1. n \in ended
        BY <1>4, <3>1, <3>2
      <4>2. instList # {}
        BY <3>1
      <4>3. runahead' \cap ended = {}
        BY <1>4, <4>2, Zenon DEF Squash, DoSquash
      <4> QED
        BY <4>1, <4>3, <3>1, <1>3 DEF Redirecting
    <3>3. CASE n \notin maySquash \cap runahead
      <4>1. instList # {}
        BY <3>1
      <4>2. runahead' \subseteq runahead /\ maySquash' \subseteq maySquash
        BY <1>4, <4>1, Zenon DEF Squash, DoSquash
      <4> QED
        BY <4>2, <3>1, <3>3, <1>3 DEF Redirecting
    <3> QED
      BY <3>2, <3>3
  <2> QED
    BY <2>1, <2>2
<1>15. \A s \in Live : /\ Covers(fromIEW, s) /\ s \in Redirecting' => n < s
                       /\ CutsOff(fromIEW, s) => n < s
  BY <1>9, <1>10, <1>14
<1>16. /\ BufferInv' /\ Sweeping' /\ Named' /\ Timely' /\ Doomed'
       /\ instList' = instList
  <2>1. /\ youngestSeqNum' \in 0 .. MaxInsts /\ (instList # {} => youngestSeqNum' <= n)
        /\ \A s \in Live : s > youngestSeqNum' => n < s
    <3>1. youngestSeqNum' = n
      BY <1>3
    <3> QED
      BY <3>1, <1>5, <1>7 DEF Live, SeqNum
  <2>2. phase' \in {"accept", "retire"}
    BY <1>3
  <2> QED
    BY <1>1, <1>3, <1>4, <1>7, <1>11, <1>12, <1>13, <1>15, <2>1, <2>2, SquashKeeps
<1>17. ControlTypes' /\ Numbered' /\ RetiredWokeOnce' /\ OnlyRightPathRetires'
  <2>1. SquashOK(toCommit)' /\ SquashOK(fromIEW)'
    BY <1>2, <1>3, SignalsKept
  <2>2. youngestSeqNum < nextSeq
    BY <1>2 DEF Numbered
  <2>3. youngestSeqNum' \in 0 .. MaxInsts /\ youngestSeqNum' < nextSeq
    <3>1. youngestSeqNum' = n
      BY <1>3
    <3>2. youngestSeqNum \in Int /\ nextSeq \in Int /\ MaxInsts \in Nat
      BY <1>2, Numbers
    <3> QED
      BY <3>1, <3>2, <2>2, <1>7
  <2>4. ControlTypes'
    BY <2>1, <2>3, <1>2, <1>3 DEF ControlTypes
  <2>5. Numbered'
    BY <2>3, <1>2, <1>3, <1>16, Zenon DEF Numbered
  <2>6. RetiredWokeOnce' /\ OnlyRightPathRetires'
    BY <1>2, <1>3, Zenon DEF RetiredWokeOnce, OnlyRightPathRetires
  <2> QED
    BY <2>4, <2>5, <2>6
<1> QED
  BY <1>16, <1>17 DEF IInv, ControlInv

-----------------------------------------------------------------------------
(* A step that leaves the buffer alone keeps what is said of the buffer.   *)
LEMMA UntouchedBuffer ==
    ASSUME BufferInv, UNCHANGED <<flags, buffer, numCleared>>
    PROVE  BufferInv'
<1>1. /\ BufferTypes /\ CounterExact /\ RunaheadHasInitiator
      /\ Swept /\ Branches /\ Shielded /\ Guarded /\ WokenRight
  BY DEF BufferInv
<1>2. /\ flags' = flags /\ kind' = kind /\ stage' = stage /\ fault' = fault
      /\ maySquash' = maySquash /\ unsafe' = unsafe /\ runahead' = runahead
      /\ squashed' = squashed /\ mispred' = mispred /\ doomed' = doomed
      /\ reprieved' = reprieved /\ woken' = woken /\ rewoken' = rewoken
      /\ num' = num /\ inRunahead' = inRunahead /\ panicked' = panicked
      /\ squashIt' = squashIt /\ squashedSeqNum' = squashedSeqNum /\ numCleared' = numCleared
  BY DEF buffer, marks, fate, wakes, mode, squash
<1>3. instList' = instList /\ Live' = Live /\ WritebackDone' = WritebackDone
  BY <1>2 DEF instList, Live, WritebackDone
<1>4. BufferTypes'
  BY <1>1, <1>2, <1>3, Zenon DEF BufferTypes
<1>5. CounterExact' /\ RunaheadHasInitiator'
  BY <1>1, <1>2, <1>3, Zenon DEF CounterExact, RunaheadHasInitiator
<1>6. Swept' /\ Branches'
  BY <1>1, <1>2, <1>3, Zenon DEF Swept, Branches
<1>7. Shielded' /\ Guarded'
  BY <1>1, <1>2, <1>3, Zenon DEF Shielded, Exempt, Guarded, Behind
<1>8. WokenRight'
  BY <1>1, <1>2, <1>3, Zenon DEF WokenRight
<1> QED
  BY <1>4, <1>5, <1>6, <1>7, <1>8 DEF BufferInv

(* The steps of commit that only move control on.                          *)
LEMMA NothingToAcceptKeeps ==
    ASSUME IInv, NothingToAccept
    PROVE  IInv'
<1>1. BufferInv /\ ControlInv
  BY DEF IInv
<1>2. /\ BufferTypes /\ ControlTypes /\ Numbered /\ Sweeping /\ Named /\ Timely /\ Doomed
      /\ RetiredWokeOnce /\ OnlyRightPathRetires
  BY <1>1 DEF BufferInv, ControlInv
<1>3. /\ phase \in {"commit", "accept"} /\ ~Acceptable /\ commitStatus # "SquashAfterPending"
      /\ phase = "commit" => ~Squashing
      /\ commitStatus' = IF phase = "commit" /\ commitStatus = "ROBSquashing"
                         THEN "Running" ELSE commitStatus
      /\ phase' = IF commitStatus = "Running" THEN "insert" ELSE "retire"
      /\ UNCHANGED <<flags, buffer, youngestSeqNum, lastCommitted, wires, counters, retired,
                     frontEnd>>
  BY DEF NothingToAccept, DoneSquashing, Accepting
<1>4. /\ flags' = flags /\ kind' = kind /\ stage' = stage /\ fault' = fault
      /\ maySquash' = maySquash /\ unsafe' = unsafe /\ runahead' = runahead
      /\ squashed' = squashed /\ mispred' = mispred /\ doomed' = doomed
      /\ reprieved' = reprieved /\ woken' = woken /\ rewoken' = rewoken
      /\ num' = num /\ inRunahead' = inRunahead /\ panicked' = panicked
      /\ squashIt' = squashIt /\ squashedSeqNum' = squashedSeqNum
      /\ youngestSeqNum' = youngestSeqNum /\ lastCommitted' = lastCommitted
      /\ toCommit' = toCommit /\ fromIEW' = fromIEW /\ numCleared' = numCleared
      /\ numWoken' = numWoken /\ committed' = committed /\ retired' = retired
      /\ nextSeq' = nextSeq /\ traps' = traps /\ instList' = instList
  BY <1>3 DEF buffer, marks, fate, wakes, mode, squash, wires, counters, frontEnd, instList
<1>5. BufferInv'
  BY <1>1, <1>3, <1>4, UntouchedBuffer
<1>6. phase = "commit" /\ commitStatus = "ROBSquashing" => squashIt = None
  BY <1>3 DEF Squashing
<1>7. \A s \in Live : Dying(s) => Dying(s)'
  BY <1>3, <1>4, <1>6 DEF Dying
<1>8. ASSUME NEW s \in Live, Covers(fromIEW, s) PROVE Dying(s)
  <2>1. CASE commitStatus = "TrapPending"
    BY <2>1 DEF Dying
  <2>2. CASE commitStatus # "TrapPending"
    <3>1. fromIEW # NoSquash /\ fromIEW.seq <= s /\ ~(fromIEW.seq <= youngestSeqNum)
      BY <1>3, <1>8, <2>2 DEF Acceptable, Covers
    <3>2. fromIEW.seq \in Int /\ youngestSeqNum \in Int /\ s \in Int
      BY <1>2, Numbers DEF Live
    <3>3. s > youngestSeqNum
      BY <3>1, <3>2
    <3> QED
      BY <3>3, <1>2 DEF Sweeping, Dying
  <2> QED
    BY <2>1, <2>2
<1>9. ASSUME NEW s \in Live, CutsOff(fromIEW, s) PROVE Dying(s)
  <2>1. fromIEW.seq \in Int /\ s \in Int
    BY <1>2, Numbers DEF Live
  <2>2. Covers(fromIEW, s)
    BY <2>1, <1>9 DEF Covers, CutsOff
  <2> QED
    BY <2>2, <1>8
<1>10. ControlTypes' /\ Numbered' /\ RetiredWokeOnce' /\ OnlyRightPathRetires'
  BY <1>2, <1>3, <1>4, Zenon DEF ControlTypes, Numbered, RetiredWokeOnce, OnlyRightPathRetires,
     SquashOK
<1>11. Sweeping'
  BY <1>2, <1>3, <1>4, <1>6 DEF Sweeping, Live
<1>12. Named'
  BY <1>2, <1>3, <1>4, Zenon DEF Named, Reading
<1>13. Redirecting' = Redirecting /\ Live' = Live /\ Redirecting \subseteq Live
  BY <1>2, <1>4 DEF Redirecting, Live, BufferTypes
<1>14. Timely'
  <2> SUFFICES ASSUME NEW s \in Redirecting, stage[s] # "waiting", ~Dying(s)'
               PROVE  stage[s] \in {"executed", "sent"} /\ Covers(toCommit, s)
    BY <1>4, <1>13 DEF Timely, Covers
  <2> QED
    BY <1>2, <1>7, <1>8, <1>13 DEF Timely
<1>15. Doomed'
  <2> SUFFICES ASSUME NEW s \in doomed \ squashed, ~Dying(s)'
               PROVE  \/ \E o \in Redirecting : o < s
                      \/ CutsOff(toCommit, s) /\ OlderAt(s, {"executed", "sent"})
    BY <1>4, <1>13 DEF Doomed, CutsOff, OlderAt
  <2>1. s \in Live
    BY <1>2 DEF Live, BufferTypes
  <2> QED
    BY <2>1, <1>2, <1>7, <1>9 DEF Doomed
<1> QED
  BY <1>5, <1>10, <1>11, <1>12, <1>14, <1>15 DEF IInv, ControlInv

(* getInsts is through.                                                    *)
LEMMA GotInstsKeeps ==
    ASSUME IInv, GotInsts \/ CommitFault
    PROVE  IInv'
<1>1. BufferInv /\ ControlInv
  BY DEF IInv
<1>2. /\ BufferTypes /\ ControlTypes /\ Numbered /\ Sweeping /\ Named /\ Timely /\ Doomed
      /\ RetiredWokeOnce /\ OnlyRightPathRetires
  BY <1>1 DEF BufferInv, ControlInv
<1>3. /\ phase \in {"insert", "retire"} /\ phase' = "retire" /\ commitStatus = "Running"
      /\ commitStatus' \in {"Running", "TrapPending"}
      /\ UNCHANGED <<flags, buffer, youngestSeqNum, lastCommitted, wires, counters, retired,
                     frontEnd>>
  BY <1>2 DEF GotInsts, CommitFault, CanRetire, ControlTypes, status
<1>4. /\ flags' = flags /\ kind' = kind /\ stage' = stage /\ fault' = fault
      /\ maySquash' = maySquash /\ unsafe' = unsafe /\ runahead' = runahead
      /\ squashed' = squashed /\ mispred' = mispred /\ doomed' = doomed
      /\ reprieved' = reprieved /\ woken' = woken /\ rewoken' = rewoken
      /\ num' = num /\ inRunahead' = inRunahead /\ panicked' = panicked
      /\ squashIt' = squashIt /\ squashedSeqNum' = squashedSeqNum
      /\ youngestSeqNum' = youngestSeqNum /\ lastCommitted' = lastCommitted
      /\ toCommit' = toCommit /\ fromIEW' = fromIEW /\ numCleared' = numCleared
      /\ numWoken' = numWoken /\ committed' = committed /\ retired' = retired
      /\ nextSeq' = nextSeq /\ traps' = traps /\ instList' = instList
  BY <1>3 DEF buffer, marks, fate, wakes, mode, squash, wires, counters, frontEnd, instList
<1>5. BufferInv'
  BY <1>1, <1>3, <1>4, UntouchedBuffer
<1>6. ControlTypes' /\ Numbered' /\ RetiredWokeOnce' /\ OnlyRightPathRetires'
  BY <1>2, <1>3, <1>4, Zenon DEF ControlTypes, Numbered, RetiredWokeOnce, OnlyRightPathRetires,
     SquashOK
<1>7. Sweeping' /\ Named'
  BY <1>2, <1>3, <1>4 DEF Sweeping, Live, Named, Reading
<1>8. Timely'
  BY <1>2, <1>3, <1>4 DEF Timely, Redirecting, Covers, Dying, Reading
<1>9. Doomed'
  BY <1>2, <1>3, <1>4 DEF Doomed, Redirecting, CutsOff, OlderAt, Live, Dying, Reading
<1> QED
  BY <1>5, <1>6, <1>7, <1>8, <1>9 DEF IInv, ControlInv

-----------------------------------------------------------------------------
(* An instruction enters the reorder buffer.                               *)
LEMMA GetInstKeeps ==
    ASSUME IInv, NEW k \in Kind, NEW wrong \in BOOLEAN, NEW stalling \in BOOLEAN,
           GetInst(k, wrong, stalling)
    PROVE  IInv'
<1> DEFINE n == nextSeq
           squasher == k = "branch" /\ ~inRunahead
           enters == squasher /\ ShouldEnterRunaheadMode(num + 1, stalling)
<1>1. BufferInv /\ ControlInv
  BY DEF IInv
<1>2. /\ BufferTypes /\ CounterExact /\ RunaheadHasInitiator
      /\ Swept /\ Branches /\ Shielded /\ Guarded /\ WokenRight
      /\ ControlTypes /\ Numbered /\ Sweeping /\ Named /\ Timely /\ Doomed
      /\ RetiredWokeOnce /\ OnlyRightPathRetires
  BY <1>1 DEF BufferInv, ControlInv
<1>3. /\ phase = "insert" /\ phase' = phase /\ n <= MaxInsts /\ (wrong => k = "branch")
      /\ youngestSeqNum' = n /\ nextSeq' = n + 1 /\ InsertInst(n, k, wrong, stalling)
      /\ flags' = flags /\ commitStatus' = commitStatus /\ lastCommitted' = lastCommitted
      /\ toCommit' = toCommit /\ fromIEW' = fromIEW
      /\ numCleared' = numCleared /\ numWoken' = numWoken /\ committed' = committed
      /\ retired' = retired /\ traps' = traps
  BY DEF GetInst, wires, counters
<1>4. /\ kind' = [s \in instList \cup {n} |-> IF s = n THEN k ELSE kind[s]]
      /\ stage' = [s \in instList \cup {n} |-> IF s = n THEN "waiting" ELSE stage[s]]
      /\ unsafe' = unsafe \cup If(MarkUnsafe(k), n)
      /\ runahead' = runahead \cup If((inRunahead /\ MarkUnsafe(k)) \/ enters, n)
      /\ maySquash' = maySquash \cup If(squasher, n)
      /\ num' = num + (IF squasher THEN 1 ELSE 0)
      /\ inRunahead' = (inRunahead \/ enters)
      /\ mispred' = mispred \cup If(wrong, n)
      /\ doomed' = doomed \cup If(inRunahead \/ (mispred \cup doomed) \ squashed # {}, n)
      /\ squashed' = squashed /\ fault' = fault /\ woken' = woken /\ rewoken' = rewoken
      /\ reprieved' = reprieved /\ panicked' = panicked
      /\ squashIt' = squashIt /\ squashedSeqNum' = squashedSeqNum
  BY <1>3 DEF InsertInst, Squasher, wakes, squash
<1>5. /\ MaxInsts \in Nat /\ n \in SeqNum /\ instList \subseteq SeqNum
      /\ \A s \in instList : s < n
  <2>1. n <= MaxInsts
    BY <1>3
  <2>2. \A s \in instList : s < n
    BY <1>2, Zenon DEF Numbered
  <2> QED
    BY <2>1, <2>2, <1>2, Numbers DEF SeqNum
<1>6. n \notin instList
  BY <1>5 DEF SeqNum
<1>7. instList' = instList \cup {n}
  BY <1>4, Zenon DEF instList
<1>8. commitStatus = "Running" /\ squashIt = None /\ numCleared = 0
  BY <1>2, <1>3 DEF ControlTypes, Sweeping
<1>9. /\ \A s \in instList : stage'[s] = stage[s] /\ kind'[s] = kind[s]
      /\ stage'[n] = "waiting" /\ kind'[n] = k
  BY <1>4, <1>6, Zenon
<1>10. Live' = Live \cup {n}
  BY <1>2, <1>4, <1>6, <1>7 DEF Live, BufferTypes
<1>11. /\ maySquash \subseteq maySquash' /\ maySquash' \subseteq maySquash \cup {n}
       /\ n \in maySquash' <=> squasher
       /\ runahead \subseteq runahead' /\ runahead' \subseteq runahead \cup {n}
       /\ n \in runahead' <=> (inRunahead /\ MarkUnsafe(k)) \/ enters
       /\ unsafe \subseteq unsafe' /\ unsafe' \subseteq unsafe \cup {n}
       /\ n \in unsafe' <=> MarkUnsafe(k)
       /\ mispred \subseteq mispred' /\ mispred' \subseteq mispred \cup {n}
       /\ n \in mispred' => k = "branch"
       /\ doomed \subseteq doomed' /\ doomed' \subseteq doomed \cup {n}
       /\ n \in doomed' <=> (inRunahead \/ (mispred \cup doomed) \ squashed # {})
  BY <1>2, <1>3, <1>4, <1>6 DEF If, BufferTypes
<1> HIDE DEF enters
<1>12. BufferTypes'
  <2>1. stage' \in [instList' -> Stage] /\ kind' \in [instList' -> Kind]
    BY <1>2, <1>4, <1>7 DEF BufferTypes, Stage
  <2>2. num' \in Int
    <3>1. num \in Int
      BY <1>2, Zenon DEF BufferTypes
    <3>2. num' = num + (IF squasher THEN 1 ELSE 0)
      BY <1>4
    <3> QED
      BY <3>1, <3>2
  <2>3. inRunahead' \in BOOLEAN /\ panicked' = FALSE
    BY <1>2, <1>4 DEF BufferTypes
  <2>4. /\ maySquash' \subseteq instList' /\ unsafe' \subseteq instList'
        /\ runahead' \subseteq instList' /\ mispred' \subseteq instList'
        /\ doomed' \subseteq instList'
    BY <1>2, <1>7, <1>11, Zenon DEF BufferTypes
  <2>5. /\ squashed' \subseteq instList' /\ fault' \subseteq instList'
        /\ woken' \subseteq instList' /\ rewoken' \subseteq instList'
        /\ reprieved' \subseteq instList'
    BY <1>2, <1>4, <1>7, Zenon DEF BufferTypes
  <2>6. squashIt' \in instList' \cup {None} /\ squashedSeqNum' \in 0 .. MaxInsts
    BY <1>2, <1>4, <1>7, Zenon DEF BufferTypes
  <2>7. instList' \subseteq SeqNum
    BY <1>5, <1>7, Zenon
  <2> QED
    BY <2>1, <2>2, <2>3, <2>4, <2>5, <2>6, <2>7, Zenon DEF BufferTypes
<1>13. Cardinality(maySquash) \in Nat /\ num = Cardinality(maySquash)
  <2>1. IsFiniteSet(maySquash)
    BY <1>2, FiniteBuffer DEF BufferTypes
  <2>2. Cardinality(maySquash) \in Nat
    BY <2>1, FS_CardinalityType
  <2> QED
    BY <2>2, <1>2, <1>8 DEF CounterExact
<1>14. CounterExact'
  <2>1. IsFiniteSet(maySquash) /\ n \notin maySquash
    BY <1>2, <1>6, FiniteBuffer DEF BufferTypes
  <2>2. CASE squasher
    <3>1. maySquash' = maySquash \cup {n} /\ num' = num + 1
      BY <2>2, <1>4 DEF If
    <3>2. Cardinality(maySquash \cup {n}) = Cardinality(maySquash) + 1
      BY <2>1, FS_AddElement
    <3>3. Cardinality(maySquash') = Cardinality(maySquash) + 1
      BY <3>1, <3>2
    <3>4. numCleared' = 0
      BY <1>3, <1>8
    <3>5. num' = Cardinality(maySquash') + numCleared'
      BY <3>1, <3>3, <3>4, <1>13
    <3> QED
      BY <3>5 DEF CounterExact
  <2>3. CASE ~squasher
    <3>1. maySquash' = maySquash /\ num' = num + 0
      BY <2>3, <1>4 DEF If
    <3> QED
      BY <3>1, <1>3, <1>8, <1>13 DEF CounterExact
  <2> QED
    BY <2>2, <2>3
<1>15. RunaheadHasInitiator'
  <2>1. CASE inRunahead
    <3>1. maySquash' = maySquash /\ inRunahead'
      BY <2>1, <1>4, Zenon DEF If
    <3>2. (maySquash \cap runahead)' = maySquash \cap runahead
      BY <3>1, <1>2, <1>6, <1>11 DEF BufferTypes
    <3> QED
      BY <2>1, <3>1, <3>2, <1>2, <1>7 DEF RunaheadHasInitiator
  <2>2. CASE ~inRunahead
    <3>1. maySquash \cap runahead = {} /\ (inRunahead' <=> enters)
      BY <2>2, <1>2, <1>4, Zenon DEF RunaheadHasInitiator
    <3>2. enters => squasher
      BY DEF enters
    <3>3. n \in runahead' <=> enters
      BY <2>2, <1>11
    <3>4. /\ maySquash' \subseteq maySquash \cup {n} /\ runahead' \subseteq runahead \cup {n}
          /\ n \in maySquash' <=> squasher
      BY <1>11, Zenon
    <3>5. n \notin maySquash /\ n \notin runahead
      BY <1>2, <1>6, Zenon DEF BufferTypes
    <3>6. (maySquash \cap runahead)' = IF enters THEN {n} ELSE {}
      BY <3>1, <3>2, <3>3, <3>4, <3>5
    <3> QED
      BY <3>1, <3>6, <1>7 DEF RunaheadHasInitiator
  <2> QED
    BY <2>1, <2>2
<1>16. Swept'
  BY <1>2, <1>4, <1>6, <1>8, <1>9, <1>11, Zenon DEF Swept, BufferTypes
<1>17. Branches'
  BY <1>2, <1>9, <1>11, Zenon DEF Branches, BufferTypes
<1>18. Shielded'
  <2> SUFFICES ASSUME NEW o \in maySquash', NEW s \in Live', o < s, ~Exempt(s)'
               PROVE  s \in unsafe'
    BY DEF Shielded
  <2>1. CASE s = n
    <3>1. o \in maySquash
      <4>1. o \in maySquash \/ o = n
        BY <1>11, Zenon
      <4>2. ~(n < n)
        BY <1>5 DEF SeqNum
      <4> QED
        BY <2>1, <4>1, <4>2
    <3>2. num > 0
      <4>1. IsFiniteSet(maySquash) /\ maySquash # {}
        BY <3>1, <1>2, FiniteBuffer DEF BufferTypes
      <4>2. Cardinality(maySquash) # 0
        BY <4>1, FS_EmptySet
      <4> QED
        BY <4>2, <1>13
    <3> QED
      BY <2>1, <3>2, <1>3, <1>9, <1>11 DEF MarkUnsafe, Exempt
  <2>2. CASE s # n
    <3>1. s \in Live /\ s \in instList
      BY <2>2, <1>10 DEF Live
    <3>2. o \in maySquash
      <4>1. o \in maySquash \/ o = n
        BY <1>11, Zenon
      <4>2. s \in Int /\ n \in Int /\ s < n
        BY <3>1, <1>5 DEF SeqNum
      <4> QED
        BY <4>1, <4>2
    <3>3. ~Exempt(s)
      BY <3>1, <1>3, <1>9, Zenon DEF Exempt
    <3> QED
      BY <3>1, <3>2, <3>3, <1>2, <1>11 DEF Shielded
  <2> QED
    BY <2>1, <2>2
<1>19. Guarded'
  <2> SUFFICES ASSUME NEW o \in instList', o \notin reprieved, kind'[o] = "branch",
                      stage'[o] = "waiting", o \notin maySquash'
               PROVE  Behind(o)'
    BY <1>4, Zenon DEF Guarded
  <2>1. CASE o = n
    <3>1. inRunahead
      BY <2>1, <1>9, <1>11, Zenon
    <3>2. PICK b \in instList : b \in maySquash \cap runahead
      BY <3>1, <1>2, Zenon DEF RunaheadHasInitiator
    <3> QED
      BY <2>1, <3>2, <1>5, <1>11, Zenon DEF Behind
  <2>2. CASE o # n
    <3>1. o \in instList /\ o \notin maySquash
      BY <2>2, <1>7, <1>11, Zenon
    <3>2. Behind(o)
      BY <3>1, <1>2, <1>9, Zenon DEF Guarded
    <3> QED
      BY <3>2, <1>8, <1>11 DEF Behind
  <2> QED
    BY <2>1, <2>2
<1>20. WokenRight'
  <2> SUFFICES ASSUME NEW s \in Live', s \notin fault
               PROVE  /\ s \in WritebackDone' \ unsafe' => s \in woken
                      /\ kind'[s] # "branch" /\ s \notin doomed' =>
                            /\ s \notin runahead' \cup rewoken
                            /\ s \in woken => s \in WritebackDone' \ unsafe'
    BY <1>4, Zenon DEF WokenRight
  <2>1. CASE s = n
    <3>1. s \notin WritebackDone' /\ s \notin woken /\ s \notin rewoken
      BY <2>1, <1>2, <1>6, <1>9, Zenon DEF WritebackDone, BufferTypes
    <3>2. kind'[s] # "branch" /\ s \notin doomed' => s \notin runahead'
      BY <2>1, <1>9, <1>11, Zenon DEF enters
    <3> QED
      BY <3>1, <3>2
  <2>2. CASE s # n
    <3>1. s \in Live /\ s \in instList
      BY <2>2, <1>10 DEF Live
    <3>2. s \in WritebackDone' <=> s \in WritebackDone
      BY <3>1, <1>4, <1>7, <1>9, Zenon DEF WritebackDone
    <3> QED
      BY <2>2, <3>1, <3>2, <1>2, <1>9, <1>11, Zenon DEF WokenRight
  <2> QED
    BY <2>1, <2>2
<1>21. ControlTypes'
  <2>1. SquashOK(toCommit)' /\ SquashOK(fromIEW)'
    BY <1>2, <1>3, SignalsKept
  <2>2. youngestSeqNum' \in 0 .. MaxInsts /\ nextSeq' \in 1 .. MaxInsts + 1
    BY <1>3, <1>5 DEF SeqNum
  <2>3. ControlTypes
    BY <1>2
  <2>4. /\ flags' = flags /\ commitStatus' = commitStatus /\ lastCommitted' = lastCommitted
        /\ numCleared' = numCleared /\ numWoken' = numWoken /\ committed' = committed
        /\ traps' = traps /\ phase' = phase
    BY <1>3
  <2> QED
    BY <2>1, <2>2, <2>3, <2>4 DEF ControlTypes
<1>22. Numbered'
  <2>1. lastCommitted \in Int /\ lastCommitted < n
    BY <1>2 DEF ControlTypes, Numbered
  <2> QED
    BY <2>1, <1>2, <1>3, <1>5, <1>7 DEF Numbered, SeqNum
<1>23. RetiredWokeOnce' /\ OnlyRightPathRetires'
  BY <1>2, <1>3 DEF RetiredWokeOnce, OnlyRightPathRetires
<1>24. Sweeping'
  <2>1. ASSUME NEW s \in Live' PROVE ~(s > n)
    <3>1. s = n \/ (s \in instList /\ s < n)
      BY <1>5, <1>10 DEF Live
    <3>2. s \in SeqNum /\ n \in SeqNum
      BY <3>1, <1>5
    <3>3. s \in Int /\ n \in Int
      BY <3>2, <1>5 DEF SeqNum
    <3> QED
      BY <3>1, <3>3
  <2>2. squashIt' = None /\ youngestSeqNum' = n
    BY <1>3, <1>4, <1>8
  <2> QED
    BY <2>1, <2>2 DEF Sweeping
<1>25. Named'
  <2>1. Named
    BY <1>2
  <2>2. toCommit' = toCommit /\ fromIEW' = fromIEW /\ commitStatus' = commitStatus /\ phase' = phase
    BY <1>3
  <2> QED
    BY <2>1, <2>2, <1>7, <1>9, Zenon DEF Named, Reading
<1>26. Redirecting \subseteq Redirecting' /\ Redirecting' \subseteq Redirecting \cup {n}
  BY <1>4, <1>11, Zenon DEF Redirecting
<1>27. /\ \A s \in instList : Dying(s)' = Dying(s)
       /\ ~Reading /\ ~Reading' /\ Redirecting \subseteq instList
  BY <1>2, <1>3, <1>4, Zenon DEF Dying, Reading, Redirecting, BufferTypes
<1>28. Timely'
  BY <1>2, <1>3, <1>9, <1>26, <1>27 DEF Timely, Covers
<1>29. Doomed'
  <2> SUFFICES ASSUME NEW s \in doomed' \ squashed
               PROVE  \/ \E o \in Redirecting' : o < s
                      \/ CutsOff(toCommit, s) /\ OlderAt(s, {"executed", "sent"})'
    BY <1>3, <1>4, <1>27, Zenon DEF Doomed, CutsOff
  <2>1. \A t \in doomed \ squashed :
            \/ \E o \in Redirecting : o < t
            \/ CutsOff(toCommit, t) /\ OlderAt(t, {"executed", "sent"})
    BY <1>2, <1>8, <1>27 DEF Doomed, Dying
  <2>2. PICK d \in instList : d <= s /\
            \/ \E o \in Redirecting : o < s
            \/ CutsOff(toCommit, d) /\ OlderAt(d, {"executed", "sent"})
    <3>1. CASE s # n
      <4>1. s \in doomed \ squashed /\ s \in instList
        BY <3>1, <1>2, <1>11 DEF BufferTypes
      <4> QED
        BY <4>1, <2>1, <1>5 DEF SeqNum
    <3>2. CASE s = n /\ inRunahead
      <4>1. PICK b \in instList : b \in maySquash \cap runahead
        BY <3>2, <1>2 DEF RunaheadHasInitiator
      <4>2. b \in Redirecting /\ b < s /\ b <= s
        <5>1. b \in Redirecting
          BY <4>1, <1>2, Zenon DEF Redirecting, Swept
        <5> QED
          BY <3>2, <4>1, <5>1, <1>5 DEF SeqNum
      <4> QED
        BY <4>1, <4>2
    <3>3. CASE s = n /\ mispred \ squashed # {}
      <4>1. PICK b \in mispred \ squashed : TRUE
        BY <3>3
      <4>2. b \in instList /\ b \in Redirecting /\ b < s /\ b <= s
        <5>1. b \in instList
          BY <4>1, <1>2, Zenon DEF BufferTypes
        <5>2. b \in Redirecting
          BY <4>1, Zenon DEF Redirecting
        <5> QED
          BY <3>3, <5>1, <5>2, <1>5 DEF SeqNum
      <4> QED
        BY <4>2
    <3>4. CASE s = n /\ doomed \ squashed # {}
      <4>1. PICK d \in doomed \ squashed : TRUE
        BY <3>4
      <4>2. d \in instList /\ d < s /\ d <= s /\ d \in Int /\ s \in Int
        <5>1. d \in instList
          BY <4>1, <1>2, Zenon DEF BufferTypes
        <5> QED
          BY <3>4, <5>1, <1>5 DEF SeqNum
      <4>3. ASSUME NEW o \in Redirecting, o < d PROVE o < s
        <5>1. o \in Int
          BY <1>5, <1>27 DEF SeqNum
        <5> QED
          BY <5>1, <4>2, <4>3
      <4> QED
        BY <4>1, <4>2, <4>3, <2>1
    <3> QED
      BY <3>1, <3>2, <3>3, <3>4, <1>11, Zenon
  <2>3. d \in Int /\ s \in Int /\ toCommit.seq \in Int
    <3>1. s \in instList \/ s = n
      BY <1>2, <1>11, Zenon DEF BufferTypes
    <3> QED
      BY <3>1, <1>2, <1>5, Numbers, Zenon DEF SeqNum
  <2>4. CutsOff(toCommit, d) => CutsOff(toCommit, s)
    <3>1. d <= s
      BY <2>2
    <3> QED
      BY <3>1, <2>3 DEF CutsOff
  <2>5. OlderAt(d, {"executed", "sent"}) => OlderAt(s, {"executed", "sent"})'
    <3> SUFFICES ASSUME NEW o \in Live, o < d, stage[o] \in {"executed", "sent"}
                 PROVE  o \in Live' /\ o < s /\ stage'[o] \in {"executed", "sent"}
      BY DEF OlderAt
    <3>1. o \in instList /\ o \in Int
      BY <1>5 DEF Live, SeqNum
    <3>2. o \in Live' /\ stage'[o] \in {"executed", "sent"}
      BY <3>1, <1>9, <1>10, Zenon
    <3>3. o < s
      BY <3>1, <2>2, <2>3
    <3> QED
      BY <3>2, <3>3
  <2> QED
    BY <2>2, <2>4, <2>5, <1>26
<1> QED
  BY <1>12, <1>14, <1>15, <1>16, <1>17, <1>18, <1>19, <1>20, <1>21, <1>22, <1>23, <1>24, <1>25,
     <1>28, <1>29 DEF IInv, BufferInv, ControlInv
=============================================================================
