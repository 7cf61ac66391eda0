-------------------------- MODULE ParallelSimProofs --------------------------
(***************************************************************************)
(* The bookkeeping of a session and what it leaves in the summary, for     *)
(* every set of checkpoints, pool size, number of sessions and request;    *)
(* and, first, what select_evenly_spaced returns.                          *)
(***************************************************************************)
EXTENDS ParallelSim, FiniteSetTheorems, TLAPS

-----------------------------------------------------------------------------
(* What whole division says, in products only.                             *)
LEMMA Division ==
    ASSUME NEW x \in Nat, NEW m \in Nat \ {0}
    PROVE  x \div m \in Nat /\ m * (x \div m) <= x /\ x < m * (x \div m) + m
  OBVIOUS

LEMMA Cancel ==
    ASSUME NEW a \in Int, NEW b \in Int, NEW m \in Nat \ {0}, m * a < m * b
    PROVE  a < b
  OBVIOUS

(* The parts of an index.                                                  *)
LEMMA IndexParts ==
    ASSUME NEW n \in Nat, NEW m \in 1 .. n, NEW i \in 0 .. m - 1
    PROVE  \E q, h \in Nat :
             /\ Index(i, m, n) = q + h /\ h = n \div (2 * m) /\ m * (2 * h) <= n
             /\ m * q <= i * n /\ i * n < m * q + m
  <1> DEFINE q == (i * n) \div m
             h == n \div (2 * m)
  <1>1. i * n \in Nat /\ m \in Nat \ {0} /\ 2 * m \in Nat \ {0}  OBVIOUS
  <1>2. q \in Nat /\ m * q <= i * n /\ i * n < m * q + m  BY <1>1, Division
  <1>3. h \in Nat /\ (2 * m) * h <= n  BY <1>1, Division, Zenon
  <1>4. m * (2 * h) = (2 * m) * h  BY <1>1, <1>3
  <1>5. Index(i, m, n) = q + h  BY DEF Index
  <1> HIDE DEF q
  <1>6. QED  BY <1>2, <1>3, <1>4, <1>5, Zenon

(* A later index is larger, ...                                            *)
LEMMA IndexGrows ==
    ASSUME NEW n \in Nat, NEW m \in 1 .. n, NEW i \in 0 .. m - 1, NEW j \in 0 .. m - 1, i < j
    PROVE  Index(i, m, n) < Index(j, m, n)
  <1>1. PICK q, h \in Nat :
          /\ Index(i, m, n) = q + h /\ h = n \div (2 * m) /\ m * q <= i * n
    BY IndexParts, Zenon
  <1>2. PICK r, k \in Nat :
          /\ Index(j, m, n) = r + k /\ k = n \div (2 * m) /\ j * n < m * r + m
    BY IndexParts, Zenon
  <1>3. i * n + n <= j * n
    <2>1. j * n = i * n + (j - i) * n /\ j - i >= 1  OBVIOUS
    <2>2. (j - i) * n >= n  BY <2>1
    <2>3. QED  BY <2>1, <2>2
  <1>4. m * q < m * r
    <2>1. i * n \in Nat /\ j * n \in Nat /\ m * q \in Nat /\ m * r \in Nat  OBVIOUS
    <2>2. QED  BY <1>1, <1>2, <1>3, <2>1
  <1>5. q < r  BY <1>4, Cancel
  <1>6. QED  BY <1>1, <1>2, <1>5

(* ... and the last one is inside the list.                                *)
LEMMA IndexInside ==
    ASSUME NEW n \in Nat, NEW m \in 1 .. n, NEW i \in 0 .. m - 1
    PROVE  Index(i, m, n) \in 0 .. n - 1
  <1>1. PICK q, h \in Nat :
          /\ Index(i, m, n) = q + h /\ m * (2 * h) <= n /\ m * q <= i * n
    BY IndexParts, Zenon
  <1>2. i * n + n <= m * n
    <2>1. m * n = i * n + (m - i) * n /\ m - i >= 1  OBVIOUS
    <2>2. (m - i) * n >= n  BY <2>1
    <2>3. QED  BY <2>1, <2>2
  <1>3. m * (q + h) < m * n
    <2>1. m * (q + h) = m * q + m * h /\ m * (2 * h) = m * h + m * h  OBVIOUS
    <2>2. i * n \in Nat /\ m * n \in Nat /\ m * q \in Nat /\ m * h \in Nat  OBVIOUS
    <2>3. QED  BY <1>1, <1>2, <2>1, <2>2
  <1>4. q + h < n  BY <1>3, Cancel
  <1>5. QED  BY <1>1, <1>4

(* The sample of any request that can be met is even.                      *)
LEMMA EvenlySpaced ==
    ASSUME NEW n \in Nat, NEW m \in 1 .. n
    PROVE  SelectsEvenly(m, n)
  <1> DEFINE D == n \div m
  <1>1. D \in Nat /\ m * D <= n /\ n < m * D + m  BY Division
  <1> HIDE DEF D
  <1>2. ASSUME NEW i \in 0 .. m - 2
        PROVE  Index(i + 1, m, n) - Index(i, m, n) \in {D, D + 1}
    <2>0. i \in 0 .. m - 1 /\ i + 1 \in 0 .. m - 1  OBVIOUS
    <2>1. PICK q, h \in Nat :
            /\ Index(i, m, n) = q + h /\ h = n \div (2 * m)
            /\ m * q <= i * n /\ i * n < m * q + m
      BY <2>0, IndexParts, Zenon
    <2>2. PICK r, k \in Nat :
            /\ Index(i + 1, m, n) = r + k /\ k = n \div (2 * m)
            /\ m * r <= (i + 1) * n /\ (i + 1) * n < m * r + m
      BY <2>0, IndexParts, Zenon
    <2>3. (i + 1) * n = i * n + n /\ i * n \in Nat  OBVIOUS
    <2>4. /\ m * (q + D) = m * q + m * D /\ m * (q + D + 2) = m * q + m * D + m + m
          /\ m * (r + 1) = m * r + m
          /\ m * q \in Nat /\ m * r \in Nat /\ m * D \in Nat
      BY <1>1
    <2>5. m * (q + D) < m * (r + 1) /\ m * r < m * (q + D + 2)
      BY <1>1, <2>1, <2>2, <2>3, <2>4
    <2>6. q + D < r + 1 /\ r < q + D + 2  BY <1>1, <2>5, Cancel
    <2>7. QED  BY <1>1, <2>1, <2>2, <2>6
  <1>3. Index(0, m, n) <= D
    <2>0. 0 \in 0 .. m - 1  OBVIOUS
    <2>1. PICK q, h \in Nat :
            Index(0, m, n) = q + h /\ m * (2 * h) <= n /\ m * q <= 0 * n
      BY <2>0, IndexParts, Zenon
    <2>2. q = 0  BY <2>1
    <2>3. m * (2 * h) < m * (D + 1)  BY <1>1, <2>1
    <2>4. 2 * h < D + 1  BY <1>1, <2>3, Cancel
    <2>5. QED  BY <1>1, <2>1, <2>2, <2>4
  <1>4. n - 1 - Index(m - 1, m, n) <= D
    <2>0. m - 1 \in 0 .. m - 1  OBVIOUS
    <2>1. PICK q, h \in Nat :
            Index(m - 1, m, n) = q + h /\ (m - 1) * n < m * q + m
      BY <2>0, IndexParts, Zenon
    <2>2. (m - 1) * n = m * n - n  OBVIOUS
    <2>3. m * (n - D) < m * (q + 2)
      BY <1>1, <2>1, <2>2
    <2>4. n - D < q + 2  BY <1>1, <2>3, Cancel
    <2>5. QED  BY <1>1, <2>1, <2>4
  <1>5. QED  BY <1>2, <1>3, <1>4 DEF SelectsEvenly, D

-----------------------------------------------------------------------------
(* The ranks of the members of a finite set count it through.              *)
LEMMA Ranks ==
    ASSUME NEW A \in SUBSET Nat, IsFiniteSet(A)
    PROVE  /\ \A c \in A : Rank(c, A) \in 0 .. Cardinality(A) - 1
           /\ \A c, d \in A : Rank(c, A) = Rank(d, A) => c = d
           /\ \A k \in 0 .. Cardinality(A) - 1 : \E c \in A : Rank(c, A) = k
  <1> DEFINE n == Cardinality(A)
             Below(c) == {d \in A : d < c}
  <1>1. n \in Nat  BY FS_CardinalityType
  <1>2. \A c \in A : IsFiniteSet(Below(c)) /\ Cardinality(Below(c)) \in Nat
    BY FS_Subset, FS_CardinalityType
  <1>3. ASSUME NEW c \in A
        PROVE  Cardinality(Below(c)) < n
    <2>1. Below(c) \in SUBSET A /\ c \notin Below(c)  OBVIOUS
    <2>2. Cardinality(Below(c)) <= n /\ (n = Cardinality(Below(c)) => A = Below(c))
      BY <2>1, FS_Subset
    <2>3. QED  BY <1>1, <1>2, <2>1, <2>2
  <1>4. ASSUME NEW c \in A, NEW d \in A, c < d
        PROVE  Cardinality(Below(c)) < Cardinality(Below(d))
    <2>0. c \in Nat /\ d \in Nat /\ \A x \in A : x \in Nat  OBVIOUS
    <2>1. Below(c) \in SUBSET Below(d) /\ c \in Below(d) /\ c \notin Below(c)
      <3>1. \A x \in A : x < c => x < d  BY <1>4, <2>0
      <3>2. ~(c < c)  BY <2>0
      <3>3. QED  BY <1>4, <3>1, <3>2, Zenon
    <2>2. /\ Cardinality(Below(c)) <= Cardinality(Below(d))
          /\ Cardinality(Below(d)) = Cardinality(Below(c)) => Below(d) = Below(c)
      BY <1>2, <2>1, FS_Subset
    <2>3. QED  BY <1>2, <2>1, <2>2
  <1> DEFINE rank == [c \in A |-> Rank(c, A)]
  <1>5. \A c \in A : Rank(c, A) = Cardinality(Below(c))  BY DEF Rank
  <1> HIDE DEF Below, n
  <1>6. \A c \in A : Rank(c, A) \in 0 .. n - 1  BY <1>1, <1>2, <1>3, <1>5
  <1>7. \A c, d \in A : Rank(c, A) = Rank(d, A) => c = d
    <2> SUFFICES ASSUME NEW c \in A, NEW d \in A, Rank(c, A) = Rank(d, A), c # d PROVE FALSE
      OBVIOUS
    <2>1. c < d \/ d < c  OBVIOUS
    <2>2. QED  BY <1>2, <1>4, <1>5, <2>1
  <1>8. rank \in Injection(A, 0 .. n - 1)
    BY <1>6, <1>7 DEF Injection, IsInjective
  <1>9. IsFiniteSet(0 .. n - 1) /\ Cardinality(0 .. n - 1) = n
    <2>1. 0 \in Int /\ n - 1 \in Int  BY <1>1
    <2>2. QED  BY <1>1, <2>1, FS_Interval
  <1>10. rank \in Surjection(A, 0 .. n - 1)
    <2>1. Cardinality(A) = Cardinality(0 .. n - 1)  BY <1>9 DEF n
    <2> HIDE DEF rank
    <2>2. QED  BY <1>8, <1>9, <2>1, FS_Injection
  <1>11. \A k \in 0 .. n - 1 : \E c \in A : Rank(c, A) = k
    BY <1>10, Zenon DEF Surjection
  <1>12. QED  BY <1>6, <1>7, <1>11 DEF n

(* select_evenly_spaced returns as many members as were asked for, or all. *)
LEMMA SelectionSize ==
    ASSUME NEW A \in SUBSET Nat, IsFiniteSet(A), NEW m \in Nat \ {0}
    PROVE  /\ SelectEvenlySpaced(A, m) \subseteq A
           /\ m > Cardinality(A) => SelectEvenlySpaced(A, m) = A
           /\ m <= Cardinality(A) => Cardinality(SelectEvenlySpaced(A, m)) = m
  <1> DEFINE n == Cardinality(A)
             Sel == SelectEvenlySpaced(A, m)
  <1>1. n \in Nat  BY FS_CardinalityType
  <1>2. Sel \subseteq A /\ (m > n => Sel = A)
    BY DEF SelectEvenlySpaced
  <1>3. ASSUME m <= n
        PROVE  Cardinality(Sel) = m
    <2>0. m \in 1 .. n  BY <1>1, <1>3
    <2>1. Sel = {c \in A : \E i \in 0 .. (m - 1) : Rank(c, A) = Index(i, m, n)}
      BY <1>1, <1>3 DEF SelectEvenlySpaced
    <2> HIDE DEF Sel, n
    <2>2. \A i \in 0 .. m - 1 : Index(i, m, n) \in 0 .. n - 1
      BY <1>1, <2>0, IndexInside
    <2>3. \A i, j \in 0 .. m - 1 : Index(i, m, n) = Index(j, m, n) => i = j
      <3> SUFFICES ASSUME NEW i \in 0 .. m - 1, NEW j \in 0 .. m - 1,
                          Index(i, m, n) = Index(j, m, n), i # j
                   PROVE  FALSE
        OBVIOUS
      <3>1. i < j \/ j < i  OBVIOUS
      <3>2. Index(i, m, n) < Index(j, m, n) \/ Index(j, m, n) < Index(i, m, n)
        BY <1>1, <2>0, <3>1, IndexGrows
      <3>3. QED  BY <1>1, <2>2, <3>2
    <2> DEFINE At(i) == CHOOSE c \in A : Rank(c, A) = Index(i, m, n)
               at == [i \in 0 .. m - 1 |-> At(i)]
    <2>4. \A i \in 0 .. m - 1 : At(i) \in A /\ Rank(At(i), A) = Index(i, m, n)
      BY <2>2, Ranks DEF n
    <2>5. \A i \in 0 .. m - 1 : At(i) \in Sel
      BY <2>1, <2>4
    <2>6. \A c \in Sel : \E i \in 0 .. m - 1 : At(i) = c
      <3> SUFFICES ASSUME NEW c \in Sel PROVE \E i \in 0 .. m - 1 : At(i) = c
        OBVIOUS
      <3>1. PICK i \in 0 .. m - 1 : c \in A /\ Rank(c, A) = Index(i, m, n)
        BY <2>1
      <3>2. At(i) = c  BY <2>4, <3>1, Ranks
      <3>3. QED  BY <3>2
    <2>7. \A i, j \in 0 .. m - 1 : At(i) = At(j) => i = j
      BY <2>3, <2>4
    <2> HIDE DEF At
    <2>8. at \in Bijection(0 .. m - 1, Sel)
      BY <2>5, <2>6, <2>7 DEF Bijection, Injection, Surjection, IsInjective
    <2>9. IsFiniteSet(0 .. m - 1) /\ Cardinality(0 .. m - 1) = m
      <3>1. 0 \in Int /\ m - 1 \in Int  OBVIOUS
      <3>2. QED  BY <3>1, FS_Interval
    <2>10. QED  BY <2>8, <2>9, FS_Bijection DEF ExistsBijection
  <1>4. QED  BY <1>2, <1>3

-----------------------------------------------------------------------------
(* The rounds tasks were launched in.                                      *)
Batches == \A c \in Chk : batch[c] <= rounds /\ (c \in tasks => batch[c] >= 1)

(* What NeverMoreThanNeeded counts, as one set: no step but a launch puts  *)
(* a checkpoint into it.                                                   *)
Current == {c \in Chk : \/ c \in tasks /\ batch[c] = rounds
                        \/ status[c] = "successful" /\ batch[c] \notin 1 .. (rounds - 1)}
Enough == pc \in InSession /\ rounds > 0 => Cardinality(Current) <= num_checkpoints

StragglersLast == pc = "straggle" => all_proc_args = {}

(* Nothing runs between sessions; in one, what the summary calls settled   *)
(* is neither simulated nor given another status.                          *)
Quiet == pc = "idle" => ~force /\ \A c \in Chk : sim[c] = "none"
Kept ==
    pc \in InSession =>
        /\ ~torn
        /\ ~force => \A c \in Chk : saved[c] \in Settled =>
                        status[c] = saved[c] /\ sim[c] = "none"

Accounts ==
    /\ NoneLostNoneTwice /\ CountersExact /\ Batches /\ Enough
    /\ StragglersLast /\ FinishedMeansDone

IInv == TypeOK /\ Accounts /\ Quiet /\ Kept

-----------------------------------------------------------------------------
(* Every set of checkpoints is finite, and so countable.                   *)
LEMMA Countable ==
    ASSUME NEW S \in SUBSET Chk
    PROVE  IsFiniteSet(S) /\ Cardinality(S) \in Nat
  BY ChkAssumption, FS_Subset, FS_CardinalityType, Zenon

LEMMA Disjoint ==
    ASSUME NEW S \in SUBSET Chk, NEW T \in SUBSET Chk, S \cap T = {}
    PROVE  Cardinality(S \cup T) = Cardinality(S) + Cardinality(T)
  <1>1. /\ IsFiniteSet(S) /\ IsFiniteSet(T)
        /\ Cardinality(S) \in Nat /\ Cardinality(T) \in Nat
    BY Countable
  <1>2. Cardinality(S \cup T) = Cardinality(S) + Cardinality(T) - Cardinality(S \cap T)
    BY <1>1, FS_Union
  <1>3. Cardinality(S \cap T) = 0  BY FS_EmptySet
  <1>4. QED  BY <1>1, <1>2, <1>3

(* What the bookkeeping of a pass does to the accounts.                    *)
LEMMA RecordKeeps ==
    ASSUME TypeOK, NoneLostNoneTwice, CountersExact, Batches, Enough,
           pc \in InSession, pc' \in InSession,
           NEW S, NEW T, S \cup T \subseteq tasks, S \cap T = {}, Record(S, T),
           UNCHANGED <<dirs, all_proc_args, num_checkpoints, batch, rounds, res>>
    PROVE  NoneLostNoneTwice' /\ CountersExact' /\ Batches' /\ Enough'
  <1> DEFINE good == {c \in S : res[c] # 0}
             bad == {c \in S : res[c] = 0}
             lateBefore == {c \in With("failed (timeout)") : batch[c] > 0}
  <1>1. /\ tasks \subseteq Chk /\ \A c \in tasks : status[c] = "not run"
        /\ S \subseteq Chk /\ T \subseteq Chk
    BY Zenon DEF TypeOK, NoneLostNoneTwice, With
  <1>0. \A c \in Chk : batch[c] \in Nat /\ (c \in tasks => batch[c] > 0)
    BY DEF TypeOK, Batches
  <1>2. \A c \in Chk : status'[c] = IF c \in T THEN "failed (timeout)"
                                    ELSE IF c \in S THEN IF res[c] # 0 THEN "successful" ELSE "failed"
                                    ELSE status[c]
    BY Zenon DEF Record, NewStatus
  <1>3. tasks' = tasks \ (S \cup T)  BY DEF Record
  <1>4. NoneLostNoneTwice'
    <2>1. With("not run")' = With("not run") \ (S \cup T)
      BY <1>2, Zenon DEF With
    <2>2. all_proc_args \cap tasks = {} /\ With("not run") \cap dirs = all_proc_args \cup tasks
      BY Zenon DEF NoneLostNoneTwice
    <2>3. QED  BY <1>3, <2>1, <2>2, Zenon DEF NoneLostNoneTwice
  <1>5. successful_counter' = Cardinality(With("successful")')
    <2>1. With("successful")' = With("successful") \cup good
      BY <1>1, <1>2, Zenon DEF With
    <2>2. With("successful") \cap good = {} /\ With("successful") \subseteq Chk /\ good \subseteq Chk
      BY <1>1, Zenon DEF With
    <2>3. QED  BY <2>1, <2>2, Disjoint, Zenon DEF CountersExact, Record
  <1>6. failed_counter' = Cardinality(With("failed")')
                          + Cardinality({c \in With("failed (timeout)") : batch[c] > 0}')
    <2>1. With("failed")' = With("failed") \cup bad
      BY <1>1, <1>2, Zenon DEF With
    <2>2. With("failed") \cap bad = {} /\ With("failed") \subseteq Chk /\ bad \subseteq Chk
      BY <1>1, Zenon DEF With
    <2>3. {c \in With("failed (timeout)") : batch[c] > 0}' = lateBefore \cup T
      <3>1. \A c \in Chk : status'[c] = "failed (timeout)" /\ batch[c] > 0
                            <=> (status[c] = "failed (timeout)" /\ batch[c] > 0) \/ c \in T
        BY <1>0, <1>1, <1>2, Zenon
      <3>2. QED  BY <1>1, <3>1, Zenon DEF With
    <2>4. lateBefore \cap T = {} /\ lateBefore \subseteq Chk
      BY <1>1, Zenon DEF With
    <2>5. /\ Cardinality(With("failed")') = Cardinality(With("failed")) + Cardinality(bad)
          /\ Cardinality(lateBefore \cup T) = Cardinality(lateBefore) + Cardinality(T)
      BY <1>1, <2>1, <2>2, <2>4, Disjoint, Zenon
    <2>6. failed_counter = Cardinality(With("failed")) + Cardinality(lateBefore)
      BY Zenon DEF CountersExact
    <2>7. failed_counter' = failed_counter + (Cardinality(bad) + Cardinality(T))
      BY DEF Record, Failures
    <2>8. /\ Cardinality(With("failed")) \in Nat /\ Cardinality(lateBefore) \in Nat
          /\ Cardinality(bad) \in Nat /\ Cardinality(T) \in Nat
      BY <1>1, <2>2, <2>4, Countable, Zenon
    <2> HIDE DEF lateBefore, bad
    <2>9. failed_counter' = Cardinality(With("failed")') + Cardinality(lateBefore \cup T)
      BY <2>5, <2>6, <2>7, <2>8
    <2>10. QED  BY <2>3, <2>9, Zenon
  <1>7. Batches'  BY <1>3 DEF Batches
  <1>8. Enough'
    <2>1. Current' \subseteq Current
      <3> SUFFICES ASSUME NEW c \in Chk, c \in Current' PROVE c \in Current
        BY DEF Current
      <3>1. \/ c \in tasks' /\ batch[c] = rounds
            \/ status'[c] = "successful" /\ batch[c] \notin 1 .. (rounds - 1)
        BY DEF Current
      <3>2. CASE c \in tasks' /\ batch[c] = rounds  BY <1>3, <3>2 DEF Current
      <3>3. CASE status'[c] = "successful" /\ batch[c] \notin 1 .. (rounds - 1)
        <4>1. c \in S \/ status[c] = "successful"  BY <1>2, <3>3, Zenon
        <4>2. c \in S => batch[c] = rounds  BY <1>0, <3>3 DEF Batches, TypeOK
        <4>3. QED  BY <3>3, <4>1, <4>2 DEF Current
      <3>4. QED  BY <3>1, <3>2, <3>3
    <2>2. Current \in SUBSET Chk  BY DEF Current
    <2>3. Cardinality(Current') <= Cardinality(Current)
      BY <2>1, <2>2, Countable, FS_Subset
    <2>4. Cardinality(Current) \in Nat /\ Cardinality(Current') \in Nat
      BY <2>1, <2>2, Countable
    <2> HIDE DEF Current
    <2>5. QED  BY <2>3, <2>4 DEF Enough, TypeOK
  <1>9. QED  BY <1>4, <1>5, <1>6, <1>7, <1>8, Zenon DEF CountersExact

(* The accounts speak of these variables only.                             *)
LEMMA SameAccounts ==
    ASSUME Accounts,
           UNCHANGED <<dirs, pc, all_proc_args, status, successful_counter, failed_counter,
                       num_checkpoints, tasks, batch, rounds>>
    PROVE  Accounts'
  BY Zenon DEF Accounts, NoneLostNoneTwice, CountersExact, Batches, Enough, Current, StragglersLast,
         FinishedMeansDone, With

(* A session that ends leaves nothing to account for.                      *)
LEMMA ForgetKeeps ==
    ASSUME TypeOK, KillPool, Forget, torn' \in BOOLEAN, saved' \in [Chk -> Status],
           UNCHANGED <<dirs, pmem, res>>
    PROVE  IInv'
  <1>1. TypeOK'
    BY Zenon DEF TypeOK, KillPool, Forget, Status, InSession
  <1>2. Accounts'
    BY DEF Forget, InSession, Accounts, NoneLostNoneTwice, CountersExact, Batches, Enough,
           StragglersLast, FinishedMeansDone
  <1>3. Quiet' /\ Kept'
    BY DEF Forget, KillPool, InSession, Quiet, Kept
  <1>4. QED  BY <1>1, <1>2, <1>3 DEF IInv

LEMMA EndKeeps ==
    ASSUME IInv, Destroy \/ Killed
    PROVE  IInv'
  BY ForgetKeeps DEF IInv, TypeOK, Destroy, Killed

LEMMA WorldKeeps ==
    ASSUME IInv, NEW c \in Chk, StartSim(c) \/ EndSim(c) \/ Expire(c) \/ OrphanEnds(c)
    PROVE  IInv'
  <1>1. UNCHANGED <<dirs, pc, all_proc_args, status, successful_counter, failed_counter,
                    num_checkpoints, tasks, batch, rounds>>
    BY DEF StartSim, EndSim, Expire, OrphanEnds, disk, plan, book, task
  <1>2. Accounts'  BY <1>1, SameAccounts DEF IInv
  <1>3. UNCHANGED <<force, saved, torn, status, pc, session, pmem>>
    BY DEF StartSim, EndSim, Expire, OrphanEnds, disk, plan, book, task
  <1>4. TypeOK'
    <2>1. sim' \in [Chk -> {"none", "queued", "running", "ready", "raised"}]
      BY DEF IInv, TypeOK, StartSim, EndSim, Expire, OrphanEnds
    <2>2. res' \in [Chk -> 0 .. MaxSessions]
      BY DEF IInv, TypeOK, StartSim, EndSim, Expire, OrphanEnds
    <2>3. expired' \in [Chk -> BOOLEAN] /\ orphans' \subseteq Chk
      BY Zenon DEF IInv, TypeOK, StartSim, EndSim, Expire, OrphanEnds, task
    <2>4. QED  BY <1>1, <1>3, <2>1, <2>2, <2>3 DEF IInv, TypeOK
  <1>5. \A d \in Chk : sim[d] = "none" => sim'[d] = "none"
    BY DEF IInv, TypeOK, StartSim, EndSim, Expire, OrphanEnds
  <1>6. Quiet' /\ Kept'
    BY <1>3, <1>5 DEF IInv, Quiet, Kept
  <1>7. QED  BY <1>2, <1>4, <1>6 DEF IInv

LEMMA BetweenKeeps ==
    ASSUME IInv, ConstructOnTorn \/ (\E c \in Chk : ChangeDirs(c))
    PROVE  IInv'
  <1>1. pc = "idle" /\ UNCHANGED <<res, plan, pc, all_proc_args, book, task, sim, orphans>>
    BY DEF ConstructOnTorn, ChangeDirs
  <1>2. TypeOK'
    <2>1. dirs' \subseteq Chk /\ pmem' \subseteq dirs'
      BY DEF IInv, TypeOK, ConstructOnTorn, ChangeDirs
    <2>2. saved' \in [Chk -> Status] /\ torn' \in BOOLEAN
      BY Zenon DEF IInv, TypeOK, ConstructOnTorn, ChangeDirs, Status
    <2>3. QED  BY <1>1, <2>1, <2>2 DEF IInv, TypeOK, plan, book, task
  <1>3. Accounts'
    BY <1>1 DEF InSession, IInv, Accounts, NoneLostNoneTwice, CountersExact, Batches, Enough,
                StragglersLast, FinishedMeansDone, task
  <1>4. Quiet' /\ Kept'
    BY <1>1 DEF InSession, IInv, Quiet, Kept, plan
  <1>5. QED  BY <1>2, <1>3, <1>4 DEF IInv

LEMMA LeaveOuterKeeps ==
    ASSUME IInv, LeaveOuter
    PROVE  IInv'
  <1> USE DEF LeaveOuter, disk, plan, book, task, InSession
  <1>1. TypeOK'  BY DEF IInv, TypeOK
  <1>2. NoneLostNoneTwice' /\ CountersExact' /\ Batches' /\ Enough'
    BY Zenon DEF IInv, Accounts, NoneLostNoneTwice, CountersExact, Batches, Enough, Current, With
  <1>3. StragglersLast' /\ FinishedMeansDone'
    <2>1. successful_counter \in Nat /\ num_checkpoints \in Nat  BY DEF IInv, TypeOK
    <2>2. CASE successful_counter >= num_checkpoints
      BY <2>2, Zenon DEF StragglersLast, FinishedMeansDone
    <2>3. CASE ~(successful_counter >= num_checkpoints)
      BY <2>1, <2>3 DEF WantsMore, StragglersLast, FinishedMeansDone
    <2>4. QED  BY <2>2, <2>3
  <1>4. Quiet' /\ Kept'
    BY DEF IInv, Quiet, Kept
  <1>5. QED  BY <1>1, <1>2, <1>3, <1>4 DEF IInv, Accounts

(* A pass of either loop: S are the tasks found ready, T those given up.   *)
LEMMA PassKeeps ==
    ASSUME IInv, pc \in {"wait", "straggle"}, pc' \in InSession,
           NEW S, NEW T, S \cup T \subseteq tasks, S \cap T = {}, Record(S, T),
           expired' \in [Chk -> BOOLEAN],
           UNCHANGED <<disk, res, plan, all_proc_args, batch, rounds, sim, orphans>>,
           pc' = "straggle" => pc = "straggle", pc' = "finished" => pc = "straggle" /\ tasks' = {}
    PROVE  IInv'
  <1>1. /\ UNCHANGED <<dirs, pmem, saved, torn, session, force, num_checkpoints>>
        /\ pc \in InSession
    BY DEF disk, plan, InSession
  <1>2. NoneLostNoneTwice' /\ CountersExact' /\ Batches' /\ Enough'
    BY <1>1, RecordKeeps DEF IInv, Accounts
  <1>3. /\ S \subseteq Chk /\ T \subseteq Chk /\ \A c \in S \cup T : status[c] = "not run"
        /\ \A c \in Chk : status'[c] = IF c \in T THEN "failed (timeout)"
              ELSE IF c \in S THEN IF res[c] # 0 THEN "successful" ELSE "failed" ELSE status[c]
    BY <1>1, Zenon DEF IInv, TypeOK, Accounts, NoneLostNoneTwice, With, Record, NewStatus
  <1>4. TypeOK'
    <2>1. status' \in [Chk -> Status]
      BY <1>3, Zenon DEF IInv, TypeOK, Status, Settled, Record, NewStatus
    <2>2. successful_counter' \in Nat /\ failed_counter' \in Nat
      <3>1. /\ Cardinality({c \in S : res[c] # 0}) \in Nat
            /\ Cardinality({c \in S : res[c] = 0}) \in Nat /\ Cardinality(T) \in Nat
        BY <1>3, Countable, Zenon
      <3>2. QED  BY <3>1 DEF Record, Failures, IInv, TypeOK
    <2>3. tasks' \subseteq Chk  BY DEF Record, IInv, TypeOK
    <2>4. QED  BY <1>1, <2>1, <2>2, <2>3 DEF IInv, TypeOK
  <1>5. StragglersLast' /\ FinishedMeansDone'
    <2>1. pc' \in {"straggle", "finished"} => all_proc_args = {}
      BY DEF IInv, Accounts, StragglersLast
    <2>2. pc' = "finished" => With("not run")' \cap dirs' = {}
      BY <1>2, <2>1, Zenon DEF NoneLostNoneTwice
    <2>3. QED  BY <2>1, <2>2, Zenon DEF StragglersLast, FinishedMeansDone
  <1>6. Quiet' /\ Kept'
    BY <1>1, <1>3, Zenon DEF IInv, Quiet, Kept, InSession, Settled
  <1>7. QED  BY <1>2, <1>4, <1>5, <1>6 DEF IInv, Accounts

LEMMA WaitPassKeeps ==
    ASSUME IInv, WaitPass
    PROVE  IInv'
  <1> DEFINE ready == {c \in tasks : IsReady(c)}
  <1>1. /\ Record(ready, {}) /\ pc = "wait" /\ pc' \in {"outer", "wait"}
        /\ UNCHANGED <<disk, res, plan, all_proc_args, batch, rounds, sim, orphans>>
    BY DEF WaitPass
  <1>2. expired' \in [Chk -> BOOLEAN]  BY DEF WaitPass
  <1>3. ready \cup {} \subseteq tasks /\ ready \cap {} = {}  OBVIOUS
  <1> HIDE DEF ready
  <1>4. QED  BY <1>1, <1>2, <1>3, PassKeeps DEF InSession

LEMMA WaitRaisesKeeps ==
    ASSUME IInv, WaitRaises
    PROVE  IInv'
  <1>1. PICK r \in tasks : Record({c \in tasks : IsReady(c) /\ Before(c, r)}, {})
    BY DEF WaitRaises
  <1> DEFINE S == {c \in tasks : IsReady(c) /\ Before(c, r)}
  <1>2. /\ pc = "wait" /\ pc' = "aborting" /\ expired' \in [Chk -> BOOLEAN]
        /\ UNCHANGED <<disk, res, plan, all_proc_args, batch, rounds, sim, orphans>>
    BY DEF WaitRaises, IInv, TypeOK
  <1>3. S \cup {} \subseteq tasks /\ S \cap {} = {} /\ Record(S, {})  BY <1>1
  <1> HIDE DEF S
  <1>4. QED  BY <1>2, <1>3, PassKeeps DEF InSession

LEMMA StragglerPassKeeps ==
    ASSUME IInv, StragglerPass
    PROVE  IInv'
  <1> DEFINE ready == {c \in tasks : IsReady(c)}
             late == {c \in tasks : ~IsReady(c) /\ expired[c]}
  <1>1. /\ Record(ready, late) /\ pc = "straggle" /\ pc' \in {"finished", "straggle"}
        /\ UNCHANGED <<disk, res, plan, all_proc_args, batch, rounds, sim, orphans>>
        /\ pc' = "finished" => late = tasks
    BY DEF StragglerPass, ReadyToTerminate
  <1>2. expired' \in [Chk -> BOOLEAN]  BY DEF StragglerPass
  <1>3. ready \cup late \subseteq tasks /\ ready \cap late = {}  OBVIOUS
  <1> HIDE DEF ready, late
  <1>4. pc' = "finished" => tasks' = {}  BY <1>1 DEF Record
  <1>5. QED  BY <1>1, <1>2, <1>3, <1>4, PassKeeps DEF InSession

LEMMA LaunchKeeps ==
    ASSUME IInv, Launch
    PROVE  IInv'
  <1> DEFINE m == num_checkpoints - successful_counter
             chosen == SelectEvenlySpaced(all_proc_args, m)
  <1>1. /\ pc = "outer" /\ pc' = "wait" /\ rounds' = rounds + 1
        /\ all_proc_args' = all_proc_args \ chosen /\ tasks' = tasks \cup chosen
        /\ batch' = [c \in Chk |-> IF c \in chosen THEN rounds + 1 ELSE batch[c]]
        /\ expired' = [c \in Chk |-> expired[c] /\ c \notin chosen]
        /\ sim' = [c \in Chk |-> IF c \in chosen THEN "queued" ELSE sim[c]]
        /\ UNCHANGED <<dirs, pmem, saved, torn, res, session, force, num_checkpoints, status,
                       successful_counter, failed_counter, orphans>>
    BY DEF Launch, disk, plan, book
  <1>2. /\ m \in Nat \ {0} /\ all_proc_args \in SUBSET Chk
        /\ all_proc_args \in SUBSET Nat /\ IsFiniteSet(all_proc_args)
    BY Countable, ChkAssumption DEF Launch, WantsMore, IInv, TypeOK
  <1> HIDE DEF m
  <1>3. chosen \subseteq all_proc_args /\ Cardinality(chosen) <= m /\ Cardinality(chosen) \in Nat
    <2>1. Cardinality(all_proc_args) \in Nat  BY <1>2, Countable
    <2>2. CASE m > Cardinality(all_proc_args)
      BY <1>2, <2>1, <2>2, SelectionSize
    <2>3. CASE m <= Cardinality(all_proc_args)
      BY <1>2, <2>1, <2>3, SelectionSize
    <2>4. QED  BY <1>2, <2>1, <2>2, <2>3
  <1> HIDE DEF chosen
  <1>4. /\ chosen \subseteq Chk /\ \A c \in chosen : status[c] = "not run"
        /\ \A c \in tasks : c \in Chk /\ c \notin chosen
    BY <1>1, <1>2, <1>3, Zenon DEF IInv, TypeOK, Accounts, NoneLostNoneTwice, With, InSession
  <1>5. TypeOK'
    <2>1. batch' \in [Chk -> Nat] /\ rounds' \in Nat
      BY <1>1 DEF IInv, TypeOK
    <2>2. expired' \in [Chk -> BOOLEAN]  BY <1>1
    <2>3. sim' \in [Chk -> {"none", "queued", "running", "ready", "raised"}]
      BY <1>1 DEF IInv, TypeOK
    <2>4. QED  BY <1>1, <1>4, <2>1, <2>2, <2>3, Zenon DEF IInv, TypeOK, InSession
  <1>6. NoneLostNoneTwice'
    BY <1>1, <1>3, Zenon DEF IInv, Accounts, NoneLostNoneTwice, With, InSession
  <1>7. CountersExact'
    <2>1. {c \in With("failed (timeout)") : batch[c] > 0}'
            = {c \in With("failed (timeout)") : batch[c] > 0}
      BY <1>1, <1>4, Zenon DEF With
    <2>2. With("successful")' = With("successful") /\ With("failed")' = With("failed")
      BY <1>1 DEF With
    <2>3. QED  BY <1>1, <2>1, <2>2, Zenon DEF IInv, Accounts, CountersExact, InSession
  <1>8. Batches'
    <2>1. \A c \in Chk : batch'[c] = IF c \in chosen THEN rounds + 1 ELSE batch[c]
      BY <1>1
    <2>2. rounds \in Nat /\ \A c \in Chk : batch[c] \in Nat /\ batch[c] <= rounds
      BY DEF IInv, TypeOK, Accounts, Batches
    <2>3. \A c \in Chk : c \in tasks => batch[c] >= 1  BY DEF IInv, Accounts, Batches
    <2>4. rounds' = rounds + 1 /\ tasks' = tasks \cup chosen  BY <1>1
    <2>5. QED  BY <2>1, <2>2, <2>3, <2>4 DEF Batches
  <1>9. Enough'
    <2> DEFINE succ == With("successful")
    <2>1. Current' \subseteq succ \cup chosen
      <3> SUFFICES ASSUME NEW c \in Chk, c \in Current', c \notin chosen PROVE c \in succ
        BY DEF Current
      <3>1. batch'[c] = batch[c] /\ batch[c] <= rounds /\ batch[c] \in Nat /\ rounds \in Nat
        BY <1>1 DEF IInv, TypeOK, Accounts, Batches
      <3>2. rounds' = rounds + 1 /\ status' = status  BY <1>1
      <3>3. batch'[c] # rounds'
        <4>1. ASSUME NEW x \in Nat, NEW y \in Nat, x <= y PROVE x # y + 1
          BY ONLY <4>1
        <4>2. QED  BY ONLY <3>1, <3>2, <4>1, Zenon
      <3>4. QED  BY ONLY c \in Current', <3>2, <3>3 DEF Current, With
    <2>2. succ \subseteq Chk /\ succ \cap chosen = {} /\ succ \cup chosen \subseteq Chk
      BY <1>4, Zenon DEF With
    <2>3. Cardinality(succ \cup chosen) = successful_counter + Cardinality(chosen)
      BY <1>1, <1>4, <2>2, Disjoint, Zenon DEF IInv, Accounts, CountersExact, InSession
    <2>4. /\ Cardinality(Current') <= Cardinality(succ \cup chosen)
          /\ Cardinality(Current') \in Nat
      BY <2>1, <2>2, Countable, FS_Subset
    <2> HIDE DEF succ
    <2>5. Cardinality(Current') <= num_checkpoints
      BY <1>3, <2>3, <2>4 DEF m, IInv, TypeOK
    <2>6. QED  BY <1>1, <2>5 DEF Enough
  <1>10. StragglersLast' /\ FinishedMeansDone'
    BY <1>1 DEF StragglersLast, FinishedMeansDone
  <1>11. Quiet' /\ Kept'
    BY <1>1, <1>4, Zenon DEF IInv, Quiet, Kept, InSession, Settled
  <1>12. QED
    BY <1>5, <1>6, <1>7, <1>8, <1>9, <1>10, <1>11 DEF IInv, Accounts

LEMMA ConstructKeeps ==
    ASSUME IInv, NEW f \in ForceArgs, NEW n \in NumArgs, Construct(f, n)
    PROVE  IInv'
  <1> DEFINE old == Loaded(f)
             chkpts == {c \in dirs : old[c] \notin Settled}
             runs == chkpts \cap pmem
             succ == Cardinality({c \in Chk : old[c] = "successful"})
             avail == Cardinality(runs) + succ
  <1>1. /\ pc = "idle" /\ ~torn /\ session < MaxSessions /\ session' = session + 1 /\ force' = f
        /\ status' = [c \in Chk |-> IF c \notin chkpts THEN old[c]
                                    ELSE IF c \in pmem THEN "not run" ELSE "invalid"]
        /\ successful_counter' = succ
        /\ failed_counter' = Cardinality({c \in Chk : old[c] = "failed"})
        /\ all_proc_args' = runs /\ num_checkpoints' = Target(n, avail)
        /\ pc' \in {"aborting", "outer"}
        /\ tasks' = {} /\ batch' = [c \in Chk |-> 0] /\ rounds' = 0
        /\ expired' = [c \in Chk |-> FALSE]
        /\ UNCHANGED <<dirs, pmem, saved, torn, res, sim, orphans>>
    BY Zenon DEF Construct, disk
  <1>0. /\ \A c \in Chk : batch'[c] = 0
        /\ rounds' = 0 /\ tasks' = {} /\ pc' \in {"aborting", "outer"}
    BY <1>1, Zenon
  <1>2. old \in [Chk -> Status] /\ (~f => old = saved)
    BY Zenon DEF IInv, TypeOK, Loaded, Status
  <1>3. chkpts \subseteq Chk /\ pmem \subseteq dirs /\ dirs \subseteq Chk /\ f \in BOOLEAN
    BY ForceArgsAssumption DEF IInv, TypeOK
  <1> HIDE DEF old
  <1>4. succ \in Nat /\ avail \in Nat /\ Cardinality({c \in Chk : old[c] = "failed"}) \in Nat
    BY <1>3, Countable
  <1> HIDE DEF succ, avail
  <1>5. TypeOK'
    <2>1. status' \in [Chk -> Status]  BY <1>1, <1>2, Zenon DEF Status, Settled
    <2>2. num_checkpoints' \in Nat  BY <1>1, <1>4, NumArgsAssumption, Zenon DEF Target
    <2>3. batch' \in [Chk -> Nat] /\ expired' \in [Chk -> BOOLEAN]  BY <1>1, Zenon
    <2>4. session' \in 0 .. MaxSessions
      <3>1. session \in 0 .. MaxSessions  BY DEF IInv, TypeOK
      <3>2. session' = session + 1 /\ session < MaxSessions  BY <1>1, Zenon
      <3>3. QED  BY <3>1, <3>2, MaxSessionsAssumption
    <2>5. QED  BY <1>1, <1>3, <1>4, <2>1, <2>2, <2>3, <2>4, Zenon DEF IInv, TypeOK, InSession
  <1>6. NoneLostNoneTwice'
    <2>1. With("not run")' \cap dirs = runs
      BY <1>1, <1>3, Zenon DEF With, Settled
    <2>2. QED  BY <1>1, <2>1, Zenon DEF NoneLostNoneTwice
  <1>7. CountersExact'
    <2>1. /\ With("successful")' = {c \in Chk : old[c] = "successful"}
          /\ With("failed")' = {c \in Chk : old[c] = "failed"}
      BY <1>1, Zenon DEF With, Settled
    <2>2. {c \in With("failed (timeout)") : batch[c] > 0}' = {}
      <3>1. \A c \in Chk : ~(batch'[c] > 0)  BY <1>0
      <3>2. QED  BY <3>1, Zenon DEF With
    <2>3. Cardinality({}) = 0  BY FS_EmptySet
    <2>4. /\ successful_counter' = Cardinality(With("successful")')
          /\ failed_counter' = Cardinality(With("failed")')
      BY <1>1, <2>1, Zenon DEF succ
    <2>5. failed_counter' \in Nat  BY <1>5 DEF TypeOK
    <2>6. failed_counter' = Cardinality(With("failed")') + 0  BY <2>4, <2>5
    <2>7. failed_counter' = Cardinality(With("failed")')
                            + Cardinality({c \in With("failed (timeout)") : batch[c] > 0}')
      BY <2>2, <2>3, <2>6, Zenon
    <2>8. QED  BY <2>4, <2>7, Zenon DEF CountersExact
  <1>8. Batches' /\ Enough' /\ StragglersLast' /\ FinishedMeansDone'
    <2>1. Batches'  BY <1>0 DEF Batches
    <2>2. Enough'
      <3>1. ~(rounds' > 0)  BY <1>0
      <3>2. QED  BY <3>1 DEF Enough
    <2>3. StragglersLast' /\ FinishedMeansDone'
      BY <1>0, Zenon DEF StragglersLast, FinishedMeansDone
    <2>4. QED  BY <2>1, <2>2, <2>3
  <1>9. Quiet' /\ Kept'
    BY <1>1, <1>2, Zenon DEF IInv, Quiet, Kept, InSession
  <1>10. QED  BY <1>5, <1>6, <1>7, <1>8, <1>9 DEF IInv, Accounts

LEMMA InitIInv == Init => IInv
  <1> SUFFICES ASSUME Init PROVE IInv  OBVIOUS
  <1>1. TypeOK
    <2>1. pc \in InSession \cup {"idle"}  BY DEF Init
    <2>2. saved \in [Chk -> Status] /\ status \in [Chk -> Status]  BY DEF Init, Status
    <2>3. batch \in [Chk -> Nat] /\ res \in [Chk -> 0 .. MaxSessions] /\ session \in 0 .. MaxSessions
      BY MaxSessionsAssumption DEF Init
    <2>4. /\ expired \in [Chk -> BOOLEAN]
          /\ sim \in [Chk -> {"none", "queued", "running", "ready", "raised"}]
      BY DEF Init
    <2>5. QED  BY <2>1, <2>2, <2>3, <2>4, Zenon DEF Init, TypeOK
  <1>2. Accounts
    BY DEF Init, InSession, Accounts, NoneLostNoneTwice, CountersExact, Batches, Enough,
           StragglersLast, FinishedMeansDone
  <1>3. Quiet /\ Kept  BY DEF Init, InSession, Quiet, Kept
  <1>4. QED  BY <1>1, <1>2, <1>3 DEF IInv

LEMMA NextKeeps ==
    ASSUME IInv, [Next]_vars
    PROVE  IInv'
  <1>1. CASE UNCHANGED vars
    <2>1. TypeOK'  BY <1>1 DEF vars, disk, plan, book, task, IInv, TypeOK
    <2>2. Accounts'
      BY <1>1, SameAccounts DEF vars, disk, plan, book, task, IInv
    <2>3. Quiet' /\ Kept'  BY <1>1 DEF vars, disk, plan, book, IInv, Quiet, Kept
    <2>4. QED  BY <2>1, <2>2, <2>3 DEF IInv
  <1>2. CASE \E f \in ForceArgs, n \in NumArgs : Construct(f, n)
    BY <1>2, ConstructKeeps
  <1>3. CASE Master \/ Killed
    BY <1>3, LaunchKeeps, LeaveOuterKeeps, WaitPassKeeps, WaitRaisesKeeps, StragglerPassKeeps,
       EndKeeps DEF Master
  <1>4. CASE ConstructOnTorn \/ (\E c \in Chk : ChangeDirs(c))
    BY <1>4, BetweenKeeps
  <1>5. CASE \E c \in Chk : StartSim(c) \/ EndSim(c) \/ Expire(c) \/ OrphanEnds(c)
    BY <1>5, WorldKeeps
  <1>6. QED  BY <1>1, <1>2, <1>3, <1>4, <1>5 DEF Next

(* IInv is inductive.                                                      *)
THEOREM IInvInvariant == Spec => []IInv
  BY InitIInv, NextKeeps, PTL DEF Spec

(* Every variable stays in its domain.                                     *)
THEOREM TypeCorrect == Spec => []TypeOK
  BY IInvInvariant, PTL DEF IInv

(* In a session of any size every checkpoint that has not been run is      *)
(* either waiting to be selected or has one task.                          *)
THEOREM NothingLost == Spec => []NoneLostNoneTwice
  BY IInvInvariant, PTL DEF IInv, Accounts

(* successful_counter and failed_counter are what they claim to be,        *)
(* although four loops change them.                                        *)
THEOREM CountersRight == Spec => []CountersExact
  BY IInvInvariant, PTL DEF IInv, Accounts

(* start() returns only with enough results or everything tried.           *)
THEOREM DoneWhenFinished == Spec => []FinishedMeansDone
  BY IInvInvariant, PTL DEF IInv, Accounts

(* A round never starts more than is missing: Current bounds the sum.      *)
THEOREM NotTooMany == Spec => []NeverMoreThanNeeded
  <1>1. IInv => NeverMoreThanNeeded
    <2> SUFFICES ASSUME IInv, pc \in InSession, rounds > 0
                 PROVE  successful_counter + Cardinality({c \in tasks : batch[c] = rounds})
                          <= num_checkpoints + Cardinality({c \in With("successful") :
                                                             batch[c] \in 1 .. (rounds - 1)})
      BY DEF NeverMoreThanNeeded
    <2> DEFINE now == {c \in tasks : batch[c] = rounds}
               late == {c \in With("successful") : batch[c] \in 1 .. (rounds - 1)}
               early == {c \in With("successful") : batch[c] \notin 1 .. (rounds - 1)}
    <2>1. tasks \subseteq Chk /\ \A c \in tasks : status[c] = "not run"
      BY Zenon DEF IInv, TypeOK, Accounts, NoneLostNoneTwice, With
    <2>2. /\ now \subseteq Chk /\ late \subseteq Chk /\ early \subseteq Chk
          /\ now \cap early = {} /\ late \cap early = {}
      BY <2>1, Zenon DEF With
    <2>3. Current = now \cup early  BY <2>1, Zenon DEF Current, With
    <2>4. With("successful") = late \cup early  OBVIOUS
    <2> HIDE DEF now, late, early
    <2>5. Cardinality(Current) = Cardinality(now) + Cardinality(early)
      BY <2>2, <2>3, Disjoint
    <2>6. successful_counter = Cardinality(late) + Cardinality(early)
      BY <2>2, <2>4, Disjoint, Zenon DEF IInv, Accounts, CountersExact
    <2>7. /\ Cardinality(now) \in Nat /\ Cardinality(late) \in Nat
          /\ Cardinality(early) \in Nat /\ num_checkpoints \in Nat
      BY <2>2, Countable DEF IInv, TypeOK
    <2>8. Cardinality(Current) <= num_checkpoints  BY DEF IInv, Accounts, Enough
    <2>9. successful_counter + Cardinality(now) <= num_checkpoints + Cardinality(late)
      BY <2>5, <2>6, <2>7, <2>8
    <2>10. QED  BY <2>9 DEF now, late
  <1>2. QED  BY <1>1, IInvInvariant, PTL

(* What is missing when another round is about to be launched.             *)
LEMMA AboutToLaunch ==
    ASSUME IInv, WantsMore
    PROVE  /\ Missing \in Nat \ {0} /\ Left \in Nat
           /\ all_proc_args \in SUBSET Nat /\ IsFiniteSet(all_proc_args)
  BY Countable, ChkAssumption DEF WantsMore, Missing, Left, IInv, TypeOK

(* select_evenly_spaced returns as many as it is asked for, or all there   *)
(* are, whatever the two numbers.                                          *)
THEOREM SelectionExact == Spec => []ExactSelection
  <1>1. ASSUME NEW n \in Nat, NEW m \in 1 .. n
        PROVE  SelectsExactly(m, n)
    <2>1. IsFiniteSet(0 .. n - 1) /\ Cardinality(0 .. n - 1) = n /\ 0 .. n - 1 \in SUBSET Nat
      <3>1. 0 \in Int /\ n - 1 \in Int  OBVIOUS
      <3>2. QED  BY <3>1, FS_Interval
    <2>2. m \in Nat \ {0} /\ m <= n  OBVIOUS
    <2>3. QED  BY <2>1, <2>2, SelectionSize DEF SelectsExactly
  <1>2. AllExact
    BY <1>1, MaxLenAssumption DEF AllExact, Requests
  <1>3. ASSUME IInv, WantsMore
        PROVE  Cardinality(SelectEvenlySpaced(all_proc_args, Missing)) = Target(Missing, Left)
    <2>1. CASE Missing < Left
      BY <1>3, <2>1, AboutToLaunch, SelectionSize DEF Target, Left
    <2>2. CASE Missing = Left
      BY <1>3, <2>2, AboutToLaunch, SelectionSize DEF Target, Left
    <2>3. CASE Missing > Left
      BY <1>3, <2>3, AboutToLaunch, SelectionSize DEF Target, Left
    <2>4. QED  BY <1>3, <2>1, <2>2, <2>3, AboutToLaunch
  <1>4. IInv => ExactSelection  BY <1>2, <1>3 DEF ExactSelection
  <1>5. QED  BY <1>4, IInvInvariant, PTL

(* Its selection is even, whatever the two numbers.                        *)
THEOREM SelectionEven == Spec => []EvenSelection
  <1>1. AllEven
    BY EvenlySpaced, MaxLenAssumption DEF AllEven, Requests
  <1>2. ASSUME IInv, WantsMore, Missing <= Left
        PROVE  SelectsEvenly(Missing, Left)
    BY <1>2, AboutToLaunch, EvenlySpaced
  <1>3. IInv => EvenSelection  BY <1>1, <1>2 DEF EvenSelection
  <1>4. QED  BY <1>3, IInvInvariant, PTL

(* What a summary calls settled is left alone by every later session that  *)
(* is not told to start from scratch.                                      *)
THEOREM SettledForGood == Spec => SettledStays
  <1>1. ASSUME IInv, Next, NEW c \in Chk
        PROVE  /\ saved[c] \in Settled /\ ~force /\ ~torn => saved'[c] = saved[c]
               /\ saved[c] \in Settled /\ ~force /\ pc \in InSession
                     => sim'[c] = sim[c] \/ sim'[c] = "none"
    <2>1. CASE \E f \in ForceArgs, n \in NumArgs : Construct(f, n)
      BY <2>1, Zenon DEF Construct, disk
    <2>2. CASE Launch
      <3>1. saved' = saved  BY <2>2 DEF Launch, disk
      <3>2. ASSUME saved[c] \in Settled, ~force, pc \in InSession PROVE sim'[c] = sim[c]
        <4>1. c \notin all_proc_args
          BY <1>1, <3>2, Zenon DEF IInv, Kept, Accounts, NoneLostNoneTwice, With, Settled
        <4>2. QED  BY <2>2, <4>1 DEF Launch, SelectEvenlySpaced
      <3>3. QED  BY <3>1, <3>2
    <2>3. CASE LeaveOuter \/ WaitPass \/ WaitRaises \/ StragglerPass
      BY <2>3, Zenon DEF LeaveOuter, WaitPass, WaitRaises, StragglerPass, disk
    <2>4. CASE Destroy
      BY <1>1, <2>4 DEF Destroy, KillPool, IInv, Kept, InSession
    <2>5. CASE Killed
      BY <2>5 DEF Killed, KillPool
    <2>6. CASE ConstructOnTorn \/ (\E d \in Chk : ChangeDirs(d))
      BY <2>6 DEF ConstructOnTorn, ChangeDirs
    <2>7. CASE \E d \in Chk : StartSim(d) \/ EndSim(d) \/ Expire(d) \/ OrphanEnds(d)
      <3>1. saved' = saved  BY <2>7 DEF StartSim, EndSim, Expire, OrphanEnds, disk
      <3>2. sim[c] = "none" => sim'[c] = "none"
        BY <1>1, <2>7 DEF StartSim, EndSim, Expire, OrphanEnds, IInv, TypeOK
      <3>3. QED  BY <1>1, <3>1, <3>2 DEF IInv, Kept
    <2>8. QED
      BY <1>1, <2>1, <2>2, <2>3, <2>4, <2>5, <2>6, <2>7 DEF Next, Master
  <1>2. IInv /\ [Next]_vars => [LeavesSettled]_vars
    BY <1>1 DEF LeavesSettled
  <1>3. QED  BY <1>2, IInvInvariant, PTL DEF Spec, SettledStays
-----------------------------------------------------------------------------
(* The sessions as a campaign, which counts as they do.                    *)
LEMMA SameCardinality ==
    ASSUME NEW S
    PROVE  Promise!Cardinality(S) = Cardinality(S)
  BY Zenon DEF Cardinality, Promise!Cardinality

(* What a verdict keeps of a status.                                       *)
LEMMA VerdictKeeps ==
    ASSUME NEW s \in [Chk -> Status]
    PROVE  /\ Verdict(s) \in [Chk -> Settled \cup {"open"}]
           /\ \A c \in Chk : Verdict(s)[c] = IF s[c] \in Settled THEN s[c] ELSE "open"
           /\ Promise!Successes(Verdict(s)) = Cardinality({c \in Chk : s[c] = "successful"})
  <1>1. \A c \in Chk : Verdict(s)[c] = IF s[c] \in Settled THEN s[c] ELSE "open"
    BY DEF Verdict
  <1>2. Verdict(s) \in [Chk -> Settled \cup {"open"}]  BY Zenon DEF Verdict
  <1>3. \A c \in Chk : Verdict(s)[c] = "successful" <=> s[c] = "successful"
    BY <1>1, Zenon DEF Settled
  <1>4. {c \in Chk : Verdict(s)[c] = "successful"} = {c \in Chk : s[c] = "successful"}
    BY <1>3, Zenon
  <1>5. QED  BY <1>1, <1>2, <1>4, SameCardinality, Zenon DEF Promise!Successes

(* The verdicts of a summary with nothing in it.                           *)
LEMMA NoVerdicts == Verdict([c \in Chk |-> "absent"]) = Promise!Nothing
  <1>1. "absent" \notin Settled  BY DEF Settled
  <1>2. QED  BY <1>1, Zenon DEF Verdict, Promise!Nothing, Promise!Open

(* Where the session is, as its campaign sees it.                          *)
LEMMA Phases ==
    /\ pc \in {"outer", "wait", "straggle"} => Phase = "live"
    /\ pc = "finished" => Phase = "done"
    /\ pc \in {"idle", "aborting"} => Phase = pc
  BY DEF Phase

LEMMA PhasesNext ==
    /\ pc' \in {"outer", "wait", "straggle"} => Phase' = "live"
    /\ pc' = "finished" => Phase' = "done"
    /\ pc' \in {"idle", "aborting"} => Phase' = pc'
  BY DEF Phase

LEMMA InitMaps == Init => Promise!Init
  <1> SUFFICES ASSUME Init PROVE Promise!Init  OBVIOUS
  <1>1. Verdict(saved) = Promise!Nothing /\ Verdict(status) = Promise!Nothing
    BY NoVerdicts, Zenon DEF Init
  <1>2. Phase = "idle"  BY Phases DEF Init
  <1>3. QED  BY <1>1, <1>2 DEF Init, Promise!Init, Promise!Idle

LEMMA ForgetIsIdle ==
    ASSUME Forget
    PROVE  Promise!Idle'
  <1>1. Verdict(status') = Promise!Nothing
    BY NoVerdicts, Zenon DEF Forget
  <1>2. Phase' = "idle"  BY PhasesNext DEF Forget
  <1>3. Verdict(status)' = Promise!Nothing'
    BY <1>1 DEF Verdict, Promise!Nothing
  <1>4. QED  BY <1>2, <1>3 DEF Forget, Promise!Idle

(* __del__ publishes; a session that dies leaves the table alone.          *)
LEMMA EndMaps ==
    ASSUME TypeOK, Destroy \/ Killed
    PROVE  Promise!Next
  <1>1. Promise!Idle'  BY ForgetIsIdle DEF Destroy, Killed
  <1>2. CASE Destroy
    <2>1. Phase \in {"done", "aborting"}  BY <1>2, Phases DEF Destroy
    <2>2. Verdict(saved)' = Verdict(status) /\ torn' = torn
      BY <1>2, Zenon DEF Destroy, Verdict
    <2>3. QED  BY <1>1, <2>1, <2>2 DEF Promise!Next, Promise!Publish
  <1>3. CASE Killed
    <2>1. Phase # "idle" /\ (torn' => Phase \in {"done", "aborting"})
      BY <1>3, Phases DEF Killed, TypeOK, InSession
    <2>2. Verdict(saved)' = Verdict(saved) /\ torn' \in BOOLEAN
      BY <1>3, Zenon DEF Killed, Verdict
    <2>3. QED  BY <1>1, <2>1, <2>2 DEF Promise!Next, Promise!Die
  <1>4. QED  BY <1>2, <1>3

(* A new summary is written over a torn one.                               *)
LEMMA TornMaps ==
    ASSUME ConstructOnTorn
    PROVE  Promise!Next
  <1>1. Verdict(saved') = Promise!Nothing
    BY NoVerdicts, Zenon DEF ConstructOnTorn
  <1>2. Verdict(saved)' = Promise!Nothing  BY <1>1 DEF Verdict
  <1>3. /\ Phase = "idle" /\ Phase' = Phase
        /\ Verdict(status)' = Verdict(status)
        /\ UNCHANGED <<num_checkpoints, all_proc_args, tasks>>
    BY Zenon DEF ConstructOnTorn, Phase, Verdict, plan, book, task
  <1>4. QED  BY <1>2, <1>3 DEF ConstructOnTorn, Promise!Next, Promise!StartOver

(* What the campaign does not see.                                         *)
LEMMA Unseen ==
    ASSUME UNCHANGED <<saved, torn, pc, num_checkpoints, status>>,
           (all_proc_args \cup tasks)' = all_proc_args \cup tasks
    PROVE  UNCHANGED Promise!vars
  BY DEF Promise!vars, Verdict, Phase

LEMMA WorldMaps ==
    ASSUME NEW c \in Chk,
           StartSim(c) \/ EndSim(c) \/ Expire(c) \/ OrphanEnds(c) \/ ChangeDirs(c)
    PROVE  UNCHANGED Promise!vars
  <1>1. UNCHANGED <<saved, torn, pc, num_checkpoints, status, all_proc_args, tasks>>
    BY DEF StartSim, EndSim, Expire, OrphanEnds, ChangeDirs, disk, plan, book, task
  <1>2. QED  BY <1>1, Unseen

(* A launch moves what it selects from one half of owed to the other.      *)
LEMMA LaunchMaps ==
    ASSUME IInv, Launch
    PROVE  UNCHANGED Promise!vars
  <1> DEFINE chosen == SelectEvenlySpaced(all_proc_args, num_checkpoints - successful_counter)
  <1>1. chosen \subseteq all_proc_args  BY DEF SelectEvenlySpaced
  <1>2. /\ all_proc_args' = all_proc_args \ chosen /\ tasks' = tasks \cup chosen
        /\ UNCHANGED <<saved, torn, num_checkpoints, status>>
        /\ pc = "outer" /\ pc' = "wait"
    BY Zenon DEF Launch, disk, plan, book
  <1> HIDE DEF chosen
  <1>3. (all_proc_args \cup tasks)' = all_proc_args \cup tasks
    BY <1>1, <1>2, Zenon
  <1>4. Phase' = Phase  BY <1>2, Phases, PhasesNext
  <1>5. QED  BY <1>2, <1>3, <1>4, Zenon DEF Promise!vars, Verdict

(* A pass of either loop gives a verdict to the tasks found ready (S) and   *)
(* to those given up (T), and to no other checkpoint.                      *)
LEMMA PassMaps ==
    ASSUME IInv, pc \in {"wait", "straggle"}, pc' \in InSession,
           NEW S, NEW T, S \cup T \subseteq tasks, S \cap T = {}, Record(S, T),
           UNCHANGED <<disk, plan, all_proc_args>>,
           pc' = "finished" => pc = "straggle" /\ tasks' = {}
    PROVE  Promise!Next
  <1>1. Phase = "live" /\ Phase' \in {"live", "done", "aborting"}
    BY Phases, PhasesNext DEF InSession
  <1>2. /\ tasks' = tasks \ (S \cup T) /\ all_proc_args' = all_proc_args
        /\ all_proc_args \cap tasks = {} /\ all_proc_args \cup tasks \subseteq Chk
        /\ \A c \in tasks : status[c] = "not run"
    BY Zenon DEF Record, IInv, TypeOK, Accounts, NoneLostNoneTwice, With, InSession
  <1>3. \A c \in Chk : status'[c] = IF c \in T THEN "failed (timeout)"
                                    ELSE IF c \in S THEN IF res[c] # 0 THEN "successful" ELSE "failed"
                                    ELSE status[c]
    BY Zenon DEF Record, NewStatus
  <1>4. status \in [Chk -> Status] /\ status' \in [Chk -> Status]
    <2>1. status \in [Chk -> Status]  BY DEF IInv, TypeOK
    <2>2. status' \in [Chk -> Status]
      BY <1>3, <2>1, Zenon DEF Status, Settled, Record, NewStatus
    <2>3. QED  BY <2>1, <2>2
  <1> DEFINE owed == all_proc_args \cup tasks
             rest == all_proc_args \cup (tasks \ (S \cup T))
  <1>5. owed' = rest /\ rest \subseteq owed /\ owed \ rest = S \cup T
    BY <1>2, Zenon
  <1>6. ASSUME NEW c \in Chk
        PROVE  IF c \in owed \ owed'
               THEN Verdict(status)[c] = "open" /\ Verdict(status)'[c] \in Settled
               ELSE Verdict(status)'[c] = Verdict(status)[c]
    <2>1. /\ Verdict(status)[c] = IF status[c] \in Settled THEN status[c] ELSE "open"
          /\ Verdict(status)'[c] = IF status'[c] \in Settled THEN status'[c] ELSE "open"
      BY Zenon DEF Verdict
    <2>2. CASE c \in S \cup T
      <3>1. status[c] = "not run" /\ status'[c] \in {"failed (timeout)", "successful", "failed"}
        BY <1>2, <1>3, <2>2, Zenon
      <3>2. QED  BY <1>5, <2>1, <2>2, <3>1, Zenon DEF Settled
    <2>3. CASE c \notin S \cup T
      <3>1. status'[c] = status[c]  BY <1>3, <2>3, Zenon
      <3>2. QED  BY <1>5, <2>1, <2>3, <3>1, Zenon
    <2>4. QED  BY <2>2, <2>3
  <1>7. Verdict(status)' \in [Chk -> Settled \cup {"open"}]
    BY Zenon DEF Verdict
  <1>8. Phase' = "done" => owed' = {}
    <2>1. Phase' = "done" => pc' = "finished"  BY PhasesNext DEF InSession
    <2>2. pc' = "finished" => all_proc_args = {} /\ tasks' = {}
      BY DEF IInv, Accounts, StragglersLast
    <2>3. QED  BY <1>2, <2>1, <2>2, Zenon
  <1>9. Verdict(saved)' = Verdict(saved) /\ UNCHANGED <<torn, num_checkpoints>>
    BY Zenon DEF Verdict, disk, plan
  <1>10. owed' \subseteq owed  BY <1>5, Zenon
  <1>11. Promise!Judge
    BY <1>1, <1>6, <1>7, <1>8, <1>9, <1>10, Zenon DEF Promise!Judge, Promise!Open
  <1>12. QED  BY <1>11 DEF Promise!Next

LEMMA PassesMap ==
    ASSUME IInv, WaitPass \/ WaitRaises \/ StragglerPass
    PROVE  Promise!Next
  <1>1. CASE WaitPass
    <2> DEFINE ready == {c \in tasks : IsReady(c)}
    <2>1. /\ Record(ready, {}) /\ pc = "wait" /\ pc' \in {"outer", "wait"}
          /\ UNCHANGED <<disk, plan, all_proc_args>>
      BY <1>1 DEF WaitPass
    <2>2. ready \cup {} \subseteq tasks /\ ready \cap {} = {}  OBVIOUS
    <2> HIDE DEF ready
    <2>3. QED  BY <2>1, <2>2, PassMaps DEF InSession
  <1>2. CASE WaitRaises
    <2>1. PICK r \in tasks : Record({c \in tasks : IsReady(c) /\ Before(c, r)}, {})
      BY <1>2 DEF WaitRaises
    <2> DEFINE S == {c \in tasks : IsReady(c) /\ Before(c, r)}
    <2>2. pc = "wait" /\ pc' = "aborting" /\ UNCHANGED <<disk, plan, all_proc_args>>
      BY <1>2 DEF WaitRaises
    <2>3. S \cup {} \subseteq tasks /\ S \cap {} = {} /\ Record(S, {})  BY <2>1
    <2> HIDE DEF S
    <2>4. QED  BY <2>2, <2>3, PassMaps DEF InSession
  <1>3. CASE StragglerPass
    <2> DEFINE ready == {c \in tasks : IsReady(c)}
               late == {c \in tasks : ~IsReady(c) /\ expired[c]}
    <2>1. /\ Record(ready, late) /\ pc = "straggle" /\ pc' \in {"finished", "straggle"}
          /\ UNCHANGED <<disk, plan, all_proc_args>>
          /\ pc' = "finished" => late = tasks
      BY <1>3 DEF StragglerPass, ReadyToTerminate
    <2>2. ready \cup late \subseteq tasks /\ ready \cap late = {}  OBVIOUS
    <2> HIDE DEF ready, late
    <2>3. pc' = "finished" => tasks' = {}  BY <2>1 DEF Record
    <2>4. QED  BY <2>1, <2>2, <2>3, PassMaps DEF InSession
  <1>4. QED  BY <1>1, <1>2, <1>3

(* The outer loop is left for good only with enough successes.             *)
LEMMA LeaveOuterMaps ==
    ASSUME IInv, LeaveOuter
    PROVE  Promise!Next
  <1>1. /\ pc = "outer" /\ pc' \in {"finished", "straggle"}
        /\ pc' = "finished" => successful_counter >= num_checkpoints
        /\ UNCHANGED <<saved, torn, num_checkpoints, status, all_proc_args, tasks>>
    BY DEF LeaveOuter, disk, plan, book, task
  <1>2. Phase = "live" /\ Phase' \in {"live", "done"} /\ (Phase' = "done" => pc' = "finished")
    BY <1>1, Phases, PhasesNext
  <1>3. /\ Verdict(status)' = Verdict(status) /\ Verdict(saved)' = Verdict(saved)
        /\ Verdict(status) \in [Chk -> Settled \cup {"open"}]
    BY <1>1, Zenon DEF Verdict
  <1>4. Promise!Successes(Verdict(status)) = successful_counter
    <2>1. status \in [Chk -> Status]  BY DEF IInv, TypeOK
    <2>2. successful_counter = Cardinality({c \in Chk : status[c] = "successful"})
      BY <1>1, Zenon DEF IInv, Accounts, CountersExact, InSession, With
    <2>3. QED  BY <2>1, <2>2, VerdictKeeps, Zenon
  <1>5. Phase' = "done" => Promise!Successes(Verdict(status)') >= num_checkpoints
    BY <1>1, <1>2, <1>3, <1>4, Zenon
  <1>6. (all_proc_args \cup tasks)' = all_proc_args \cup tasks  BY <1>1
  <1>7. Promise!Judge
    BY <1>1, <1>2, <1>3, <1>5, <1>6, Zenon DEF Promise!Judge, Promise!Open
  <1>8. QED  BY <1>7 DEF Promise!Next

(* A new session rejects what has no pmem and owes a verdict to the rest;  *)
(* what it asks for can be had.                                            *)
LEMMA ConstructMaps ==
    ASSUME IInv, NEW f \in ForceArgs, NEW n \in NumArgs, Construct(f, n)
    PROVE  Promise!Next
  <1> DEFINE old == Loaded(f)
             chkpts == {c \in dirs : old[c] \notin Settled}
             runs == chkpts \cap pmem
             succ == Cardinality({c \in Chk : old[c] = "successful"})
             known == Verdict(old)
  <1>1. /\ pc = "idle" /\ ~torn
        /\ status' = [c \in Chk |-> IF c \notin chkpts THEN old[c]
                                    ELSE IF c \in pmem THEN "not run" ELSE "invalid"]
        /\ all_proc_args' = runs /\ tasks' = {}
        /\ num_checkpoints' = Target(n, Cardinality(runs) + succ)
        /\ pc' = IF runs = {} THEN "aborting" ELSE "outer"
        /\ UNCHANGED <<saved, torn>>
    BY Zenon DEF Construct, disk
  <1>2. old \in [Chk -> Status] /\ known \in {Verdict(saved), Promise!Nothing}
    <2>1. CASE f
      <3>1. old = [c \in Chk |-> "absent"]  BY <2>1 DEF Loaded
      <3>2. known = Promise!Nothing  BY <3>1, NoVerdicts, Zenon
      <3>3. QED  BY <3>1, <3>2, Zenon DEF Status
    <2>2. CASE ~f
      <3>1. old = saved  BY <2>2 DEF Loaded
      <3>2. QED  BY <3>1, Zenon DEF IInv, TypeOK
    <2>3. QED  BY <2>1, <2>2
  <1>3. chkpts \subseteq Chk  BY DEF IInv, TypeOK
  <1> HIDE DEF old
  <1>4. \A c \in Chk : known[c] = IF old[c] \in Settled THEN old[c] ELSE "open"
    BY <1>2, VerdictKeeps, Zenon
  <1>5. (all_proc_args \cup tasks)' = runs  BY <1>1, Zenon
  <1>6. runs \subseteq {c \in Chk : known[c] = "open"}
    BY <1>3, <1>4, Zenon
  <1>7. ASSUME NEW c \in Chk
        PROVE  \/ Verdict(status)'[c] = known[c]
               \/ known[c] = "open" /\ c \notin runs /\ Verdict(status)'[c] = "invalid"
    <2>0. Verdict(status)'[c] = IF status'[c] \in Settled THEN status'[c] ELSE "open"
      BY Zenon DEF Verdict
    <2>1. status'[c] = IF c \notin chkpts THEN old[c]
                       ELSE IF c \in pmem THEN "not run" ELSE "invalid"
      BY <1>1, Zenon
    <2>2. CASE c \notin chkpts
      <3>1. Verdict(status)'[c] = known[c]  BY <1>4, <2>0, <2>1, <2>2, Zenon
      <3>2. QED  BY <3>1
    <2>3. CASE c \in chkpts
      <3>1. known[c] = "open"  BY <1>4, <2>3, Zenon
      <3>2. CASE c \in pmem
        <4>1. status'[c] = "not run"  BY <2>1, <2>3, <3>2, Zenon
        <4>2. Verdict(status)'[c] = "open"  BY <2>0, <4>1, Zenon DEF Settled
        <4>3. QED  BY <3>1, <4>2
      <3>3. CASE c \notin pmem
        <4>1. status'[c] = "invalid"  BY <2>1, <2>3, <3>3, Zenon
        <4>2. Verdict(status)'[c] = "invalid"  BY <2>0, <4>1 DEF Settled
        <4>3. QED  BY <3>1, <3>3, <4>2, Zenon
      <3>4. QED  BY <3>2, <3>3
    <2>4. QED  BY <2>2, <2>3
  <1>8. Verdict(status)' \in [Chk -> Settled \cup {"open"}]
    BY Zenon DEF Verdict
  <1>9. num_checkpoints' \in 0 .. (Promise!Successes(known) + Promise!Cardinality(runs))
    <2>1. succ \in Nat /\ Cardinality(runs) \in Nat  BY <1>3, Countable
    <2>2. n \in Nat  BY NumArgsAssumption
    <2>3. Promise!Successes(known) = succ  BY <1>2, VerdictKeeps, Zenon
    <2>4. Promise!Cardinality(runs) = Cardinality(runs)  BY SameCardinality, Zenon
    <2>5. num_checkpoints' = Target(n, Cardinality(runs) + succ)  BY <1>1, Zenon
    <2> HIDE DEF succ, runs
    <2>6. ASSUME NEW a \in Nat, NEW b \in Nat
          PROVE  Target(n, a + b) \in 0 .. (b + a)
      BY <2>2 DEF Target
    <2>7. QED  BY <2>1, <2>3, <2>4, <2>5, <2>6, Zenon
  <1>10. Phase = "idle" /\ Phase' = IF runs = {} THEN "aborting" ELSE "live"
    <2>1. CASE runs = {}  BY <1>1, <2>1, Phases, PhasesNext, Zenon
    <2>2. CASE runs # {}  BY <1>1, <2>2, Phases, PhasesNext, Zenon
    <2>3. QED  BY <2>1, <2>2
  <1>11. Verdict(saved)' = Verdict(saved)  BY <1>1, Zenon DEF Verdict
  <1> HIDE DEF runs, known, succ, chkpts
  <1>12. Promise!Begin(known)
    BY <1>1, <1>5, <1>6, <1>7, <1>8, <1>9, <1>10, <1>11, Zenon DEF Promise!Begin, Promise!Open
  <1>13. QED  BY <1>2, <1>12, Zenon DEF Promise!Next

(* However the sessions of a directory interleave with the pool, the clock  *)
(* and crashes, their summaries tell the story Campaign tells: a session     *)
(* gives each checkpoint one verdict and never takes it back, stops on its  *)
(* own with enough or with none owed, and only __del__ publishes.          *)
THEOREM SessionsAreCampaign == Spec => IsCampaign
  <1>1. ASSUME IInv, [Next]_vars
        PROVE  [Promise!Next]_(Promise!vars)
    <2>1. CASE UNCHANGED vars
      <3>1. UNCHANGED <<saved, torn, pc, num_checkpoints, status, all_proc_args, tasks>>
        BY <2>1 DEF vars, disk, plan, book, task
      <3>2. QED  BY <3>1, Unseen
    <2>2. CASE \E f \in ForceArgs, n \in NumArgs : Construct(f, n)
      BY <1>1, <2>2, ConstructMaps
    <2>3. CASE ConstructOnTorn  BY <2>3, TornMaps
    <2>4. CASE Launch  BY <1>1, <2>4, LaunchMaps
    <2>5. CASE LeaveOuter  BY <1>1, <2>5, LeaveOuterMaps
    <2>6. CASE WaitPass \/ WaitRaises \/ StragglerPass  BY <1>1, <2>6, PassesMap
    <2>7. CASE Destroy \/ Killed  BY <1>1, <2>7, EndMaps DEF IInv
    <2>8. CASE \E c \in Chk : StartSim(c) \/ EndSim(c) \/ Expire(c) \/ OrphanEnds(c) \/ ChangeDirs(c)
      BY <2>8, WorldMaps
    <2>9. QED
      BY <1>1, <2>1, <2>2, <2>3, <2>4, <2>5, <2>6, <2>7, <2>8, Zenon DEF Next, Master
  <1>2. QED
    BY <1>1, InitMaps, IInvInvariant, PTL DEF Spec, IsCampaign, Promise!Spec
=============================================================================
