------------------------- MODULE MemoryLayoutProofs -------------------------
(***************************************************************************)
(* Proofs about MemoryLayout, for every layout the kernel can report.      *)
(***************************************************************************)
EXTENDS MemoryLayout, FiniteSetTheorems, TLAPS

V(i)    == regions[i].vaddr
S(i)    == regions[i].size
File(i) == regions[i].file

(* The physical intervals of the first n regions follow one another.       *)
Consecutive(n) ==
    /\ n > 0 => paddrs[1] = 0
    /\ \A i, j \in 1 .. n : i < j => paddrs[i] + S(i) <= paddrs[j]
    /\ \A i, j \in 1 .. n : j = i + 1 => paddrs[j] = paddrs[i] + S(i)

(* _get_memory_regions: next_paddr is the end of what has been placed.     *)
Placed ==
    /\ pc = "assign" => /\ Consecutive(k - 1)
                        /\ k = 1 => next_paddr = 0
                        /\ k > 1 => next_paddr = paddrs[k - 1] + S(k - 1)
    /\ pc # "assign" => /\ Consecutive(Len(regions))
                        /\ next_paddr = paddrs[Len(regions)] + S(Len(regions))

(* The page table of the first n regions.                                  *)
Table(n) ==
    /\ \A v \in DOMAIN ptable : \E i \in 1 .. n : v \in PagesOf(regions[i])
    /\ \A i \in 1 .. n : \A v \in PagesOf(regions[i]) :
        v \in DOMAIN ptable /\ ptable[v] = paddrs[i] + (v - V(i))

Converting == {"truncate", "files", "segments"}

Expanded ==
    /\ ~Simulating => IsFiniteSet(DOMAIN ptable)
    /\ pc = "assign" => DOMAIN ptable = {}
    /\ pc = "expand" => Table(k - 1) /\ Cardinality(DOMAIN ptable) = paddrs[k]
    /\ pc \in {"size", "dump"} \cup Converting =>
        Table(Len(regions)) /\ Cardinality(DOMAIN ptable) = next_paddr

Sized ==
    pc \in {"dump"} \cup Converting \cup {"simulate", "fatal"} => next_paddr <= mem_size

(* What is behind page v of region i, whatever the page table.             *)
At(i, v) == pmem[paddrs[i] + (v - V(i))]

FileOrZero(i, v) == IF v - V(i) < File(i) THEN <<"file", v>> ELSE Zero

Loaded ==
    /\ pc \in Converting => \E s \in dumped : regions[s].name = "stack"
    /\ pc \in {"files", "segments", "simulate", "fatal"} =>
        DOMAIN pmem = 0 .. (mem_size - 1)
    /\ pc \in {"files", "segments"} /\ grown = 0 =>
        \A q \in DOMAIN pmem : q >= next_paddr => pmem[q] = Zero
    /\ pc \in {"size", "dump", "truncate"} => k = 1
    /\ pc \notin {"files", "segments"} => left = {}
    /\ pc = "files" => left = dumped
    /\ pc = "files" /\ grown = 0 =>
        \A i \in Indices \ dumped : \A v \in PagesOf(regions[i]) :
            At(i, v) = IF i < k THEN FileOrZero(i, v) ELSE Zero
    /\ pc = "segments" /\ grown = 0 =>
        /\ \A i \in Indices \ dumped : \A v \in PagesOf(regions[i]) : At(i, v) = FileOrZero(i, v)
        /\ \A i \in dumped \ left : \A v \in PagesOf(regions[i]) : At(i, v) = <<"core", v>>

(* gem5's allocator stays ahead of the page table and hands out zeros.     *)
Allocated ==
    /\ pc = "simulate" => pagePtr <= mem_size
    /\ ~Simulating => ~mmio
    /\ Simulating => NoAlias
    /\ Simulating /\ ~mmio => \A v \in DOMAIN ptable : ptable[v] < pagePtr /\ ptable[v] < mem_size
    /\ Simulating /\ ~mmio /\ grown = 0 => \A q \in DOMAIN pmem : q >= pagePtr => pmem[q] = Zero

IInv ==
    TypeOK /\ Placed /\ Expanded /\ Sized /\ Loaded /\ Allocated

-----------------------------------------------------------------------------
(* What the provers need of WellFormed.                                    *)
Shape ==
    /\ Len(regions) \in Nat /\ Len(regions) > 1
    /\ \A i \in Indices : /\ V(i) \in Nat /\ S(i) \in Nat /\ S(i) > 0
                          /\ File(i) \in Nat /\ File(i) <= S(i)
    /\ V(1) = 0 /\ S(1) = 1 /\ File(1) = 0
    /\ \A i, j \in Indices : i < j => V(i) + S(i) <= V(j)

(* Regions have positive sizes and are disjoint and ascending.             *)
LEMMA ShapeFacts == ASSUME WellFormed(regions) PROVE Shape
<1>1. \A i \in Indices : regions[i] \in Region
    BY DEF WellFormed, Indices
<1>2. QED
    BY <1>1, SMTT(30) DEF WellFormed, Shape, Region, NullRegion, V, S, File, Indices

(* The next state keeps the regions.                                       *)
LEMMA RegionsStay == ASSUME [Next]_vars PROVE regions' = regions
BY Zenon DEF Next, vars, layout, AssignPaddr, ExpandRegion, CalculateMemorySize, DumpCore, Truncate,
       LoadFile, LoadSegment, Restore, Store, AllocateMem, Unmap, Remap

(* Types are preserved.                                                    *)
LEMMA TypeStep == ASSUME IInv, [Next]_vars PROVE TypeOK'
<1> USE DEF IInv
<1>0. Shape /\ regions' = regions
    BY ShapeFacts, RegionsStay DEF TypeOK
<1>r. WellFormed(regions') /\ Indices' = Indices
    BY <1>0 DEF TypeOK, Indices
<1> HIDE DEF IInv
<1>t. TypeOK /\ Placed /\ Expanded /\ Sized /\ Loaded
    BY DEF IInv
<1>a. ASSUME NEW next, Advance(next) PROVE k' \in Indices'
    BY <1>a, <1>0, <1>r, <1>t DEF Advance, TypeOK, Shape, Indices
<1>1. CASE AssignPaddr
    <2>1. paddrs' \in [Indices -> Nat]
        BY ONLY <1>1, <1>t DEF AssignPaddr, TypeOK
    <2>2. next_paddr' \in Nat
        <3>1. next_paddr \in Nat /\ k \in Indices
            BY ONLY <1>t DEF TypeOK
        <3>2. S(k) \in Nat
            BY ONLY <3>1, <1>0 DEF Shape
        <3>3. QED
            BY ONLY <3>1, <3>2, <1>1 DEF AssignPaddr, S
    <2>3. QED
        BY ONLY <2>1, <2>2, <1>1, <1>r, <1>t, <1>a DEF AssignPaddr, TypeOK, Advance
<1>2. CASE ExpandRegion
    <2>0. PagesOf(regions[k]) \subseteq Nat /\ k \in Indices /\ paddrs[k] \in Nat /\ regions[k].vaddr \in Nat
        BY <1>0, <1>t DEF TypeOK, Shape, V, S, PagesOf
    <2>a. \A v \in PagesOf(regions[k]) : PageAddr(paddrs[k], v - regions[k].vaddr) \in Nat
        BY <2>0 DEF PagesOf, PageAddr
    <2>1. DOMAIN ptable' \subseteq Nat /\ ptable' \in [DOMAIN ptable' -> Nat]
        BY ONLY <2>0, <2>a, <1>2, <1>t DEF ExpandRegion, TypeOK
    <2>2. QED
        BY <2>1, <1>2, <1>r, <1>t, <1>a DEF ExpandRegion, TypeOK, Advance
<1>3. CASE CalculateMemorySize
    BY <1>3, <1>r, <1>t, SMTT(30) DEF CalculateMemorySize, TypeOK
<1>4. CASE DumpCore
    BY <1>4, <1>r, <1>t, GrowthAssumption DEF DumpCore, TypeOK, Loaded
<1>5. CASE Truncate
    BY <1>5, <1>r, <1>t DEF Truncate, TypeOK, Content, Zero
<1>6. CASE LoadFile
    <2>1. DOMAIN pmem' = DOMAIN pmem /\ pmem' \in [DOMAIN pmem -> Content]
      <3> DEFINE r == regions[k]
                 new(q) == <<"file", r.vaddr + (q - paddrs[k])>>
      <3>1. CASE pmem' = pmem
        BY <3>1, <1>t DEF TypeOK
      <3>2. CASE Write(paddrs[k], r.file, "file", r.vaddr)
        <4>1. \A q \in DOMAIN pmem : paddrs[k] <= q => new(q) \in Content
            BY <1>0, <1>t DEF TypeOK, Shape, V, Content
        <4>2. QED
            BY ONLY <3>2, <4>1, <1>t DEF Write, TypeOK
      <3>3. QED
        BY ONLY <3>1, <3>2, <1>6 DEF LoadFile
    <2>2. QED
        BY ONLY <2>1, <1>6, <1>r, <1>t, <1>a DEF LoadFile, TypeOK, Advance
<1>7. CASE LoadSegment
    <2>1. DOMAIN pmem' = DOMAIN pmem /\ pmem' \in [DOMAIN pmem -> Content]
      <3>1. CASE pmem' = pmem
        BY <3>1, <1>t DEF TypeOK
      <3>2. ASSUME NEW i \in left, NEW j \in Indices, regions[j].vaddr = SegStart(i),
                   Write(paddrs[j], SegEnd(i) - SegStart(i), "core", SegStart(i))
            PROVE  DOMAIN pmem' = DOMAIN pmem /\ pmem' \in [DOMAIN pmem -> Content]
        <4> DEFINE new(q) == <<"core", SegStart(i) + (q - paddrs[j])>>
        <4>0. SegStart(i) \in Nat /\ paddrs[j] \in Nat /\ DOMAIN pmem \subseteq Nat
            BY <3>2, <1>0, <1>t DEF TypeOK, Shape, V
        <4>1. \A q \in DOMAIN pmem : paddrs[j] <= q => new(q) \in Content
            BY ONLY <4>0 DEF Content
        <4>2. pmem' = [q \in DOMAIN pmem |->
                        IF paddrs[j] <= q /\ q < paddrs[j] + (SegEnd(i) - SegStart(i))
                        THEN new(q) ELSE pmem[q]]
            BY <3>2 DEF Write
        <4> HIDE DEF new
        <4>3. QED
            BY ONLY <4>2, <4>1, <1>t DEF TypeOK
      <3>3. QED
        BY ONLY <3>1, <3>2, <1>7 DEF LoadSegment
    <2>2. QED
        BY ONLY <2>1, <1>7, <1>r, <1>t DEF LoadSegment, TypeOK
<1>8. CASE Restore
    BY <1>8, <1>r, <1>t, FS_CardinalityType DEF Restore, TypeOK, Expanded, Simulating
<1>9. CASE \E v \in VPages : Store(v)
    <2>1. DOMAIN pmem' = DOMAIN pmem /\ pmem' \in [DOMAIN pmem -> Content]
      <3>1. Stored \in Content
        BY DEF Stored, Content
      <3>2. QED
        BY ONLY <3>1, <1>9, <1>t, Zenon DEF Store, TypeOK
    <2>2. QED
        BY ONLY <2>1, <1>9, <1>r, <1>t DEF Store, TypeOK, layout
<1>10. CASE \E v \in VPages : AllocateMem(v)
    <2>1. mmio' \in BOOLEAN
        BY ONLY <1>10 DEF AllocateMem
    <2>2. pagePtr' \in Nat /\ NewPage \in Nat
        BY ONLY <1>10, <1>t, M5OpAssumption DEF AllocateMem, TypeOK, NewPage
    <2>3. DOMAIN ptable' \subseteq Nat /\ ptable' \in [DOMAIN ptable' -> Nat]
        BY ONLY <1>10, <2>2, <1>t, VPagesAssumption DEF AllocateMem, TypeOK
    <2>4. pc' \in {"simulate", "fatal"} /\ UNCHANGED <<layout, pmem>>
        BY ONLY <1>10 DEF AllocateMem
    <2>5. QED
        BY ONLY <2>1, <2>2, <2>3, <2>4, <1>r, <1>t DEF TypeOK, layout
<1>11. CASE \E v \in VPages : Unmap(v)
    BY <1>11, <1>r, <1>t DEF Unmap, TypeOK, layout
<1>12. CASE \E v, w \in VPages : Remap(v, w)
    BY <1>12, <1>r, <1>t, VPagesAssumption DEF Remap, TypeOK, layout
<1>13. CASE UNCHANGED vars
    BY <1>13, <1>r, <1>t DEF vars, TypeOK
<1>14. QED
    BY <1>1, <1>2, <1>3, <1>4, <1>5, <1>6, <1>7, <1>8, <1>9, <1>10, <1>11, <1>12, <1>13 DEF Next

(* _get_memory_regions places the regions one after the other.             *)
LEMMA PlacedStep == ASSUME IInv, [Next]_vars PROVE Placed'
<1>0. Shape /\ regions' = regions
    BY ShapeFacts, RegionsStay DEF IInv, TypeOK
<1>t. TypeOK /\ Placed
    BY DEF IInv
<1>1. CASE AssignPaddr
    <2>1. /\ k \in 1 .. Len(regions) /\ Len(regions) \in Nat /\ Len(regions) > 1
          /\ paddrs \in [1 .. Len(regions) -> Nat] /\ next_paddr \in Nat
          /\ \A i \in 1 .. Len(regions) : S(i) \in Nat /\ S(i)' = S(i)
        BY <1>0, <1>t DEF TypeOK, Shape, Indices, S
    <2>2. /\ paddrs' = [paddrs EXCEPT ![k] = next_paddr]
          /\ next_paddr' = next_paddr + S(k)
          /\ Consecutive(k - 1)
          /\ k = 1 => next_paddr = 0
          /\ k > 1 => next_paddr = paddrs[k - 1] + S(k - 1)
        BY <1>1, <1>t DEF AssignPaddr, Placed, S
    <2>3. /\ paddrs'[1] = 0
          /\ \A i, j \in 1 .. k : i < j => paddrs'[i] + S(i) <= paddrs'[j]
          /\ \A i, j \in 1 .. k : j = i + 1 => paddrs'[j] = paddrs'[i] + S(i)
      <3>1. CASE k = 1
        BY ONLY <3>1, <2>1, <2>2
      <3>2. CASE k > 1
        <4>1. \A i \in 1 .. k - 1 : paddrs'[i] = paddrs[i] /\ paddrs[i] + S(i) <= next_paddr
          <5> SUFFICES ASSUME NEW i \in 1 .. k - 1
                       PROVE  paddrs'[i] = paddrs[i] /\ paddrs[i] + S(i) <= next_paddr
              OBVIOUS
          <5>0. k - 1 \in 1 .. k - 1 /\ k - 1 \in 1 .. Len(regions) /\ i \in 1 .. Len(regions)
              BY ONLY <3>2, <2>1
          <5>1. CASE i = k - 1
              BY ONLY <5>0, <5>1, <3>2, <2>1, <2>2
          <5>2. CASE i < k - 1
              <6>1. paddrs[i] + S(i) <= paddrs[k - 1]
                  BY ONLY <5>0, <5>2, <2>2, <2>1 DEF Consecutive
              <6>2. next_paddr = paddrs[k - 1] + S(k - 1)
                  BY ONLY <3>2, <2>2
              <6>3. S(k - 1) \in Nat /\ S(i) \in Nat /\ paddrs[k - 1] \in Nat /\ paddrs[i] \in Nat
                  BY ONLY <5>0, <2>1
              <6>4. paddrs'[i] = paddrs[i]
                  BY ONLY <5>0, <5>2, <2>1, <2>2
              <6>5. QED
                  BY ONLY <6>1, <6>2, <6>3, <6>4
          <5>3. QED
              BY ONLY <5>1, <5>2, <2>1
        <4>2. paddrs'[k] = next_paddr
            BY ONLY <2>1, <2>2
        <4>3. QED
            BY ONLY <3>2, <4>1, <4>2, <2>1, <2>2, SMTT(30) DEF Consecutive
      <3>3. QED
        BY ONLY <3>1, <3>2, <2>1
    <2>4. next_paddr' = paddrs'[k] + S(k)
        BY ONLY <2>1, <2>2
    <2>5. QED
      <3>1. CASE k = Len(regions)
        BY ONLY <3>1, <2>1, <2>3, <2>4, <1>0, <1>1, ZenonT(30) DEF AssignPaddr, Advance, Placed,
           Consecutive
      <3>2. CASE k # Len(regions)
        <4>1. pc' = "assign" /\ k' = k + 1 /\ k' - 1 = k /\ k' > 1
            BY ONLY <3>2, <1>1, <2>1 DEF AssignPaddr, Advance
        <4>2. Consecutive(k - 1)'
            BY ONLY <4>1, <2>3, <2>1, <1>0 DEF Consecutive, S
        <4>3. QED
            BY ONLY <4>1, <4>2, <2>4, <2>1, <1>0 DEF Placed, S
      <3>3. QED
        BY <3>1, <3>2
<1>2. CASE ~AssignPaddr
    <2>1. UNCHANGED <<next_paddr, paddrs>>
        BY <1>2, Zenon DEF Next, vars, layout, ExpandRegion, CalculateMemorySize, DumpCore,
            Truncate, LoadFile, LoadSegment, Restore, Store, AllocateMem, Unmap, Remap
    <2>2. (pc' = "assign") = (pc = "assign") /\ (pc = "assign" => k' = k)
        BY <1>2, Zenon DEF Next, vars, layout, ExpandRegion, CalculateMemorySize, DumpCore,
            Truncate, LoadFile, LoadSegment, Restore, Store, AllocateMem, Unmap, Remap, Advance
    <2>3. QED
        BY <2>1, <2>2, <1>0, <1>t DEF Placed, Consecutive, S
<1>3. QED
    BY <1>1, <1>2

(* A page belongs to one region.                                           *)
LEMMA OneRegion ==
    ASSUME Shape, NEW i \in Indices, NEW j \in Indices,
           NEW v, v \in PagesOf(regions[i]), v \in PagesOf(regions[j])
    PROVE  i = j
<1>1. i \in Int /\ j \in Int /\ V(i) \in Nat /\ V(j) \in Nat /\ S(i) \in Nat /\ S(j) \in Nat
    BY DEF Shape, Indices
<1>2. V(i) <= v /\ v < V(i) + S(i) /\ V(j) <= v /\ v < V(j) + S(j) /\ v \in Int
    BY <1>1 DEF PagesOf, V, S
<1>3. (i < j => V(i) + S(i) <= V(j)) /\ (j < i => V(j) + S(j) <= V(i))
    BY DEF Shape
<1>4. QED
    BY ONLY <1>1, <1>2, <1>3

(* Only AssignPaddr, ExpandRegion and the simulation change the layout and  *)
(* the page table; the other actions only move on.                         *)
LEMMA TableStays ==
    ASSUME [Next]_vars, ~AssignPaddr, ~ExpandRegion, ~Simulating
    PROVE  /\ UNCHANGED <<regions, ptable, paddrs, next_paddr>>
           /\ pc \in {"assign", "expand"} => pc' = pc /\ k' = k
           /\ pc' \in {"assign", "expand"} => pc' = pc
BY Zenon DEF Next, vars, layout, Simulating, CalculateMemorySize, DumpCore, Truncate, LoadFile,
       LoadSegment, Restore, Store, AllocateMem, Unmap, Remap, Advance

(* Expanding a region adds its pages, as many as it has.                   *)
LEMMA ExpandOne ==
    ASSUME IInv, ExpandRegion
    PROVE  /\ \A v \in DOMAIN ptable' : \E i \in 1 .. k : v \in PagesOf(regions[i])
           /\ \A i \in 1 .. k : \A v \in PagesOf(regions[i]) :
                v \in DOMAIN ptable' /\ ptable'[v] = paddrs[i] + (v - V(i))
           /\ IsFiniteSet(DOMAIN ptable')
           /\ Cardinality(DOMAIN ptable') = paddrs[k] + S(k)
<1>0. Shape
    BY ShapeFacts DEF IInv, TypeOK
<1> DEFINE P == PagesOf(regions[k])
<1>1. /\ k \in 1 .. Len(regions) /\ Len(regions) \in Nat /\ paddrs \in [1 .. Len(regions) -> Nat]
      /\ pc = "expand" /\ Consecutive(Len(regions))
      /\ Table(k - 1) /\ Cardinality(DOMAIN ptable) = paddrs[k] /\ IsFiniteSet(DOMAIN ptable)
    BY <1>0 DEF IInv, TypeOK, Placed, Expanded, Simulating, ExpandRegion, Indices, Shape
<1>2. ptable' = [v \in DOMAIN ptable \cup P |->
                    IF v \in P THEN PageAddr(paddrs[k], v - V(k)) ELSE ptable[v]]
    BY DEF ExpandRegion, V
<1>3. \A v \in P : PageAddr(paddrs[k], v - V(k)) = paddrs[k] + (v - V(k))
  <2>1. CASE k = 1
    <3>1. V(1) = 0 /\ S(1) = 1 /\ paddrs[1] = 0
        BY <1>0, <1>1 DEF Shape, Consecutive
    <3>2. QED
        BY <2>1, <3>1 DEF PagesOf, PageAddr, V, S
  <2>2. CASE k > 1
    <3>1. paddrs[1] + S(1) <= paddrs[k] /\ S(1) = 1 /\ paddrs[1] = 0
        BY <1>0, <1>1, <2>2 DEF Shape, Consecutive
    <3>2. paddrs[k] # 0
        BY <3>1
    <3>3. QED
        BY <3>2 DEF PageAddr
  <2>3. QED
    BY <1>1, <2>1, <2>2
<1>4. DOMAIN ptable \cap P = {}
  <2> SUFFICES ASSUME NEW v \in DOMAIN ptable, v \in P PROVE FALSE
    OBVIOUS
  <2>1. PICK i \in 1 .. k - 1 : v \in PagesOf(regions[i])
    BY <1>1 DEF Table
  <2>2. i \in Indices /\ k \in Indices /\ i # k
    BY <1>1 DEF Indices
  <2>3. QED
    BY <2>1, <2>2, <1>0, OneRegion
<1>5. \A i \in 1 .. k - 1 : \A v \in PagesOf(regions[i]) : v \in DOMAIN ptable /\ v \notin P
    BY <1>1, <1>4 DEF Table
<1>6. \A v \in DOMAIN ptable' : \E i \in 1 .. k : v \in PagesOf(regions[i])
    BY <1>1, <1>2 DEF Table
<1>7. \A i \in 1 .. k : \A v \in PagesOf(regions[i]) :
        v \in DOMAIN ptable' /\ ptable'[v] = paddrs[i] + (v - V(i))
    BY <1>1, <1>2, <1>3, <1>5 DEF Table
<1>8. IsFiniteSet(P) /\ Cardinality(P) = S(k)
    <2>1. V(k) \in Nat /\ S(k) \in Nat /\ S(k) > 0
        BY <1>0, <1>1 DEF Shape, Indices
    <2>2. P = V(k) .. (V(k) + S(k) - 1)
        BY DEF PagesOf, V, S
    <2>3. QED
        BY <2>1, <2>2, FS_Interval
<1>9. IsFiniteSet(DOMAIN ptable') /\ Cardinality(DOMAIN ptable') = paddrs[k] + S(k)
    <2>1. DOMAIN ptable' = DOMAIN ptable \cup P
        BY <1>2
    <2>2. Cardinality(DOMAIN ptable \cap P) = 0
        BY <1>4, FS_EmptySet
    <2>3. paddrs[k] \in Nat /\ S(k) \in Nat
        BY <1>0, <1>1 DEF Shape, Indices
    <2>4. QED
      <3> HIDE DEF P
      <3>1. /\ IsFiniteSet(DOMAIN ptable \cup P)
            /\ Cardinality(DOMAIN ptable \cup P) =
                Cardinality(DOMAIN ptable) + Cardinality(P) - Cardinality(DOMAIN ptable \cap P)
        BY ONLY <1>8, <1>1, FS_Union
      <3>2. QED
        BY ONLY <3>1, <2>1, <2>2, <2>3, <1>8, <1>1
<1>10. QED
    BY <1>6, <1>7, <1>9

(* _create_mappings(expand=True) builds the page table of the regions.     *)
LEMMA ExpandedStep == ASSUME IInv, [Next]_vars PROVE Expanded'
<1>0. Shape /\ regions' = regions
    BY ShapeFacts, RegionsStay DEF IInv, TypeOK
<1>k. k \in 1 .. Len(regions) /\ Len(regions) \in Nat /\ Len(regions) > 1
    BY <1>0 DEF IInv, TypeOK, Shape, Indices
<1>1. CASE AssignPaddr
    <2>1. DOMAIN ptable' = {} /\ pc' \in {"assign", "expand"} /\ (pc' = "expand" => k' = 1)
        BY <1>1 DEF IInv, AssignPaddr, Expanded, Advance
    <2>2. pc' = "expand" => paddrs'[1] = 0
        BY <1>0, <1>k, PlacedStep DEF Placed, Consecutive
    <2>3. IsFiniteSet(DOMAIN ptable') /\ Cardinality(DOMAIN ptable') = 0
        BY <2>1, FS_EmptySet
    <2>4. pc' = "expand" => Table(k - 1)'
        BY <2>1 DEF Table
    <2>5. QED
        BY <2>1, <2>2, <2>3, <2>4 DEF Expanded, Converting
<1>2. CASE ExpandRegion
    <2>1. UNCHANGED <<paddrs, next_paddr>> /\ pc = "expand"
        BY <1>2 DEF ExpandRegion
    <2>2. Consecutive(Len(regions)) /\ next_paddr = paddrs[Len(regions)] + S(Len(regions))
        BY <2>1 DEF IInv, Placed
    <2>3. CASE k = Len(regions)
        <3>1. pc' = "size"
            BY <1>2, <2>3 DEF ExpandRegion, Advance
        <3>2. Table(Len(regions))'
            BY <1>2, <1>0, <2>1, <2>3, ExpandOne DEF Table, V
        <3>3. QED
            BY <1>2, <2>1, <2>2, <2>3, <3>1, <3>2, ExpandOne DEF Expanded, Converting
    <2>4. CASE k # Len(regions)
        <3>1. pc' = "expand" /\ k' = k + 1 /\ k' - 1 = k
            BY <1>2, <1>k, <2>1, <2>4 DEF ExpandRegion, Advance
        <3>2. Table(k - 1)'
            BY <1>2, <1>0, <2>1, <3>1, ExpandOne DEF Table, V
        <3>3. paddrs'[k'] = paddrs[k] + S(k)
            BY <1>k, <2>1, <2>2, <2>4, <3>1 DEF Consecutive
        <3>4. QED
            BY <1>2, <3>1, <3>2, <3>3, ExpandOne DEF Expanded, Converting
    <2>5. QED
        BY <2>3, <2>4
<1>3. CASE Simulating
    BY <1>3, Zenon DEF IInv, Next, vars, Simulating, Expanded, Converting, AssignPaddr,
        ExpandRegion, CalculateMemorySize, DumpCore, Truncate, LoadFile, LoadSegment, Restore,
        Store,
        AllocateMem, Unmap, Remap
<1>4. CASE ~AssignPaddr /\ ~ExpandRegion /\ ~Simulating
    <2>1. /\ UNCHANGED <<regions, ptable, paddrs, next_paddr>>
          /\ pc \in {"assign", "expand"} => pc' = pc /\ k' = k
          /\ pc' \in {"assign", "expand"} => pc' = pc
        BY <1>4, TableStays
    <2>2. pc \in {"assign", "expand", "size", "dump"} \cup Converting
        BY <1>4 DEF IInv, TypeOK, Simulating, Converting
    <2>3. (pc' = "expand" => Table(k - 1)' /\ Cardinality(DOMAIN ptable') = paddrs'[k'])
        BY <2>1 DEF IInv, Expanded, Table, V
    <2>4. QED
        BY <2>1, <2>2, <2>3, <1>4 DEF IInv, Expanded, Table, V
<1>5. QED
    BY <1>1, <1>2, <1>3, <1>4

(* Physical slots: page v of region i lies in the interval of region i and  *)
(* in no other, below next_paddr.                                          *)
LEMMA Slots ==
    ASSUME IInv, pc # "assign", NEW i \in Indices, NEW v \in PagesOf(regions[i])
    PROVE  LET q == paddrs[i] + (v - V(i))
           IN  /\ q \in Nat /\ v \in Nat /\ V(i) <= v /\ v < V(i) + S(i)
               /\ paddrs[i] <= q /\ q < paddrs[i] + S(i) /\ q < next_paddr
               /\ \A j \in Indices : paddrs[j] <= q /\ q < paddrs[j] + S(j) => j = i
<1> DEFINE q == paddrs[i] + (v - V(i))
<1>0. Shape
    BY ShapeFacts DEF IInv, TypeOK
<1>1. /\ Len(regions) \in Nat /\ i \in Int /\ i <= Len(regions) /\ Len(regions) \in Indices
      /\ V(i) \in Nat /\ S(i) \in Nat /\ S(i) > 0 /\ paddrs[i] \in Nat
      /\ \A j \in Indices : j \in Int /\ S(j) \in Nat /\ paddrs[j] \in Nat
    BY <1>0 DEF IInv, TypeOK, Shape, Indices
<1>2. v \in Nat /\ V(i) <= v /\ v < V(i) + S(i)
    BY <1>1 DEF PagesOf, V, S
<1>3. Consecutive(Len(regions)) /\ next_paddr = paddrs[Len(regions)] + S(Len(regions))
    BY DEF IInv, Placed
<1>4. q \in Nat /\ paddrs[i] <= q /\ q < paddrs[i] + S(i)
    BY <1>1, <1>2
<1>5. q < next_paddr
  <2>1. CASE i = Len(regions)
    BY <1>3, <1>4, <2>1
  <2>2. CASE i < Len(regions)
    <3>1. paddrs[i] + S(i) <= paddrs[Len(regions)]
        BY <1>1, <1>3, <2>2 DEF Consecutive, Indices
    <3>2. QED
        BY <1>1, <1>3, <1>4, <3>1
  <2>3. QED
    BY <1>1, <2>1, <2>2
<1>6. ASSUME NEW j \in Indices, paddrs[j] <= q, q < paddrs[j] + S(j) PROVE j = i
  <2>1. (i < j => paddrs[i] + S(i) <= paddrs[j]) /\ (j < i => paddrs[j] + S(j) <= paddrs[i])
    BY <1>3 DEF Consecutive, Indices
  <2>2. i \in Int /\ j \in Int /\ paddrs[j] \in Nat /\ S(j) \in Nat
    BY <1>1
  <2> HIDE DEF q
  <2>3. QED
    BY ONLY <1>6, <2>1, <2>2, <1>4, <1>1
<1>7. QED
    BY <1>2, <1>4, <1>5, <1>6

(* Every region ends at or before next_paddr.                              *)
LEMMA PlacedEnd ==
    ASSUME IInv, pc # "assign", NEW i \in Indices PROVE paddrs[i] + S(i) <= next_paddr
<1>1. Shape /\ paddrs \in [Indices -> Nat]
    BY ShapeFacts DEF IInv, TypeOK
<1>2. V(i) \in Nat /\ S(i) \in Nat /\ S(i) > 0 /\ paddrs[i] \in Nat
    BY <1>1 DEF Shape
<1>p. V(i) + S(i) - 1 \in V(i) .. (V(i) + S(i) - 1)
    BY ONLY <1>2
<1>r. V(i) + S(i) - 1 \in PagesOf(regions[i])
    BY ONLY <1>p DEF PagesOf, V, S
<1>3. paddrs[i] + ((V(i) + S(i) - 1) - V(i)) < next_paddr
    BY <1>r, Slots
<1>4. next_paddr \in Nat
    BY DEF IInv, TypeOK
<1>5. QED
    BY ONLY <1>2, <1>3, <1>4

(* The table of the regions is injective and lies below next_paddr.        *)
LEMMA TableInjective ==
    ASSUME IInv, NEW n \in 0 .. Len(regions), Table(n), pc # "assign"
    PROVE  NoAlias /\ \A v \in DOMAIN ptable : ptable[v] < next_paddr
<1>1. ASSUME NEW v \in DOMAIN ptable
      PROVE  \E i \in Indices : v \in PagesOf(regions[i]) /\ ptable[v] = paddrs[i] + (v - V(i))
    BY <1>1 DEF Table, Indices, IInv, TypeOK, WellFormed
<1>2. ASSUME NEW v \in DOMAIN ptable PROVE ptable[v] < next_paddr
    BY <1>1, Slots
<1>3. ASSUME NEW u \in DOMAIN ptable, NEW v \in DOMAIN ptable, ptable[u] = ptable[v]
      PROVE  u = v
    <2>1. PICK i \in Indices : u \in PagesOf(regions[i]) /\ ptable[u] = paddrs[i] + (u - V(i))
        BY <1>1
    <2>2. PICK j \in Indices : v \in PagesOf(regions[j]) /\ ptable[v] = paddrs[j] + (v - V(j))
        BY <1>1
    <2>3. i = j
        <3>1. \A m \in Indices : paddrs[m] <= ptable[u] /\ ptable[u] < paddrs[m] + S(m) => m = i
            BY <2>1, Slots
        <3>2. paddrs[j] <= ptable[v] /\ ptable[v] < paddrs[j] + S(j)
            BY <2>2, Slots
        <3>3. QED
            BY ONLY <3>1, <3>2, <1>3, <2>2
    <2>4. u \in Nat /\ v \in Nat /\ V(i) \in Nat /\ paddrs[i] \in Nat
        <3>1. Shape /\ paddrs \in [Indices -> Nat]
            BY ShapeFacts DEF IInv, TypeOK
        <3>2. u \in Nat
            BY <2>1, Slots
        <3>3. v \in Nat
            BY <2>2, Slots
        <3>4. QED
            BY <3>1, <3>2, <3>3 DEF Shape
    <2>5. QED
        <3>1. paddrs[i] + (u - V(i)) = paddrs[i] + (v - V(i))
            BY <1>3, <2>1, <2>2, <2>3, Zenon
        <3>2. QED
            BY ONLY <3>1, <2>4
<1>4. QED
    BY <1>2, <1>3 DEF NoAlias

(* _calculate_memory_size leaves room for every region.                    *)
LEMMA SizedStep == ASSUME IInv, [Next]_vars PROVE Sized'
<1>1. CASE CalculateMemorySize
    <2> DEFINE n == Len(regions)
               u == V(n) + S(n) - 1
    <2>1. Shape /\ pc = "size" /\ Table(n)
        BY <1>1, ShapeFacts DEF CalculateMemorySize, IInv, TypeOK, Expanded
    <2>2. n \in Indices /\ V(n) \in Nat /\ S(n) \in Nat /\ S(n) > 0 /\ paddrs[n] \in Nat
        BY <2>1 DEF Shape, Indices, IInv, TypeOK
    <2>3. u \in PagesOf(regions[n])
        BY <2>2 DEF PagesOf, V, S
    <2>4. u \in DOMAIN ptable /\ ptable[u] = paddrs[n] + (u - V(n))
        BY <2>1, <2>2, <2>3, Zenon DEF Table, Indices
    <2>5. next_paddr = ptable[u] + 1
        BY <2>1, <2>2, <2>4 DEF IInv, Placed
    <2>6. PICK v \in DOMAIN ptable : ptable[u] <= ptable[v] /\ mem_size' = 2 * (ptable[v] + 1)
        BY <1>1, <2>4 DEF CalculateMemorySize
    <2>7. ptable[u] \in Nat /\ ptable[v] \in Nat
        BY <2>4 DEF IInv, TypeOK
    <2>8. next_paddr' = next_paddr
        BY <1>1 DEF CalculateMemorySize
    <2>9. QED
        BY ONLY <2>5, <2>6, <2>7, <2>8 DEF Sized
<1>2. CASE ~CalculateMemorySize
    BY <1>2, Zenon DEF IInv, Sized, Converting, Next, vars, layout, AssignPaddr, ExpandRegion,
        DumpCore, Truncate, LoadFile, LoadSegment, Restore, Store, AllocateMem, Unmap, Remap,
        Advance
<1>3. QED
    BY <1>1, <1>2

(* create_pmem_file puts every region where the layout says.               *)
LEMMA LoadedStep == ASSUME IInv, [Next]_vars PROVE Loaded'
<1>0. Shape /\ regions' = regions /\ Indices' = Indices
    BY ShapeFacts, RegionsStay DEF IInv, TypeOK, Indices
<1>k. k \in 1 .. Len(regions) /\ k \in Indices /\ Len(regions) \in Nat /\ Indices = 1 .. Len(regions)
    BY <1>0 DEF IInv, TypeOK, Shape, Indices
<1>t. TypeOK /\ Loaded
    BY DEF IInv
<1>1. CASE Truncate
    <2>1. /\ pc = "truncate" /\ pc' = "files" /\ k' = 1 /\ left' = dumped
          /\ UNCHANGED <<paddrs, next_paddr, mem_size, dumped, grown>>
          /\ pmem' = [q \in 0 .. (mem_size - 1) |-> Zero]
        BY <1>1, <1>t DEF Truncate, Loaded
    <2>2. next_paddr <= mem_size /\ next_paddr \in Nat /\ mem_size \in Nat
        BY <2>1 DEF IInv, Sized, Converting, TypeOK
    <2>3. ASSUME NEW i \in Indices, NEW v \in PagesOf(regions[i])
          PROVE  pmem'[paddrs[i] + (v - V(i))] = Zero
        <3>1. paddrs[i] + (v - V(i)) \in 0 .. (mem_size - 1)
            BY <2>1, <2>2, Slots
        <3>2. QED
            BY <3>1, <2>1
    <2>4. \E s \in dumped : regions[s].name = "stack"
        BY <2>1, <1>t DEF Loaded, Converting
    <2>5. \A i \in Indices : ~(i < 1)
        BY <1>k
    <2>6. QED
        BY <2>1, <2>3, <2>4, <2>5, <1>0, Zenon DEF Loaded, At, V, Converting
<1>2. CASE LoadFile
    <2>0. Advance("segments")
        BY <1>2 DEF LoadFile
    <2>1. /\ pc = "files" /\ pc' \in {"files", "segments"} /\ left = dumped
          /\ UNCHANGED <<paddrs, next_paddr, mem_size, dumped, grown, left>>
          /\ DOMAIN pmem = 0 .. (mem_size - 1) /\ pc \in Converting
          /\ \E s \in dumped : regions[s].name = "stack"
        BY <1>2, <1>t DEF LoadFile, Loaded, Advance, Converting
    <2> DEFINE r == regions[k]
               new(q) == <<"file", r.vaddr + (q - paddrs[k])>>
               hit(q) == paddrs[k] <= q /\ q < paddrs[k] + r.file
    <2>2. \/ pmem' = pmem
          \/ pmem' = [q \in DOMAIN pmem |-> IF hit(q) THEN new(q) ELSE pmem[q]]
        BY <1>2 DEF LoadFile, Write
    <2>3. DOMAIN pmem' = DOMAIN pmem
        BY <2>2
    <2>4. /\ File(k) \in Nat /\ File(k) <= S(k) /\ S(k) \in Nat /\ V(k) \in Nat /\ paddrs[k] \in Nat
          /\ next_paddr \in Nat /\ next_paddr <= mem_size /\ mem_size \in Nat
        BY <1>0, <1>k, <1>t, <2>1 DEF Shape, TypeOK, IInv, Sized
    <2>5. \A q \in DOMAIN pmem : ~hit(q) => pmem'[q] = pmem[q]
        BY <2>2
    <2>6. ASSUME NEW i \in Indices, NEW v \in PagesOf(regions[i]), i # k
          PROVE  pmem'[paddrs[i] + (v - V(i))] = pmem[paddrs[i] + (v - V(i))]
        <3> DEFINE q == paddrs[i] + (v - V(i))
        <3>1. /\ q \in Nat /\ q < next_paddr
              /\ paddrs[k] <= q /\ q < paddrs[k] + S(k) => k = i
            BY <2>1, <1>k, Slots
        <3> HIDE DEF q
        <3>2. q \in DOMAIN pmem
            BY <3>1, <2>1, <2>4
        <3>3. ~hit(q)
            BY <2>6, <3>1, <2>4 DEF File
        <3>4. QED
            BY <3>2, <3>3, <2>5 DEF q
    <2>7. ASSUME NEW q \in DOMAIN pmem, q >= next_paddr PROVE pmem'[q] = pmem[q]
        <3>1. paddrs[k] + S(k) <= next_paddr
            BY <2>1, <1>k, PlacedEnd
        <3>2. ~hit(q)
            BY <2>7, <3>1, <2>4, <2>1 DEF File
        <3>3. QED
            BY <3>2, <2>5
    <2>8. ASSUME grown = 0, k \notin dumped, NEW v \in PagesOf(regions[k])
          PROVE  pmem'[paddrs[k] + (v - V(k))] = FileOrZero(k, v)
        <3> DEFINE q == paddrs[k] + (v - V(k))
        <3>1. /\ q \in Nat /\ q < next_paddr /\ v \in Nat /\ V(k) <= v
            BY <2>1, <1>k, <2>8, Slots
        <3>2. q \in DOMAIN pmem
            BY <3>1, <2>1, <2>4
        <3>3. pmem[q] = Zero
            BY <2>1, <2>8, <1>k, <1>t DEF Loaded, At
        <3>4. hit(q) <=> v - V(k) < File(k)
            BY <3>1, <2>4 DEF File
        <3>5. new(q) = <<"file", v>>
            BY <3>1, <2>4 DEF V
        <3>6. CASE v - V(k) < File(k)
            <4>1. V(k) # 0
                <5>1. k # 1
                    BY <3>6, <3>1, <2>4, <1>0 DEF Shape
                <5>2. 1 \in Indices /\ 1 < k
                    BY <5>1, <1>k
                <5>3. V(1) + S(1) <= V(k) /\ V(1) = 0 /\ S(1) = 1
                    BY <5>2, <1>0, <1>k DEF Shape
                <5>4. QED
                    BY <5>3, <2>4
            <4>2. PICK s \in dumped : regions[s].name = "stack"
                BY <2>1
            <4>3. s \in Indices /\ s # k /\ V(s) \in Nat /\ S(s) \in Nat /\ s \in Int
                BY <4>2, <2>8, <1>0, <1>t, <1>k DEF TypeOK, Shape
            <4>4. ~(V(s) <= V(k) /\ V(k) < V(s) + S(s))
                BY <4>3, <2>4, <1>0, <1>k DEF Shape
            <4>5. SegStart(s) = V(s) /\ SegEnd(s) = V(s) + S(s)
                BY <2>8, <4>3 DEF SegStart, SegEnd, V, S
            <4>6. pmem' = [p \in DOMAIN pmem |-> IF hit(p) THEN new(p) ELSE pmem[p]]
                BY <1>2, <4>1, <4>2, <4>4, <4>5 DEF LoadFile, Write, V
            <4>7. QED
                BY <4>6, <3>2, <3>4, <3>5, <3>6 DEF FileOrZero
        <3>7. CASE ~(v - V(k) < File(k))
            BY <3>7, <3>2, <3>3, <3>4, <2>5 DEF FileOrZero
        <3>8. QED
            BY <3>6, <3>7
    <2>9. ASSUME grown = 0, NEW i \in Indices \ dumped, NEW v \in PagesOf(regions[i])
          PROVE  pmem'[paddrs[i] + (v - V(i))] = IF i <= k THEN FileOrZero(i, v) ELSE Zero
        <3>1. CASE i = k
            BY <3>1, <2>8, <2>9, <1>k
        <3>2. CASE i # k
            <4>1. i \in Int /\ k \in Int
                BY <1>k
            <4>2. pmem[paddrs[i] + (v - V(i))] = IF i < k THEN FileOrZero(i, v) ELSE Zero
                BY <2>1, <2>9, <1>t DEF Loaded, At
            <4>3. (i <= k) <=> (i < k)
                BY <3>2, <4>1
            <4>4. QED
                BY <2>6, <3>2, <4>2, <4>3
        <3>3. QED
            BY <3>1, <3>2
    <2>10. grown' = 0 => \A q \in DOMAIN pmem' : q >= next_paddr' => pmem'[q] = Zero
        BY <2>1, <2>3, <2>7, <1>t DEF Loaded
    <2>11. CASE k = Len(regions)
        <3>1. pc' = "segments" /\ \A i \in Indices : i <= k
            BY <2>11, <2>0, <1>k DEF Advance
        <3>2. grown' = 0 => \A i \in (Indices \ dumped)' : \A v \in PagesOf(regions[i])' :
                                At(i, v)' = FileOrZero(i, v)'
            BY <3>1, <2>1, <2>9, <1>0, Zenon DEF At, V, File, FileOrZero
        <3>3. QED
            BY ONLY <3>1, <3>2, <2>1, <2>3, <2>10, <1>0 DEF Loaded, Converting
    <2>12. CASE k # Len(regions)
        <3>1. pc' = "files" /\ \A i \in Indices : (i < k') <=> (i <= k)
            BY <2>12, <2>0, <2>1, <1>k DEF Advance
        <3>2. grown' = 0 => \A i \in (Indices \ dumped)' : \A v \in PagesOf(regions[i])' :
                                At(i, v)' = IF i < k' THEN FileOrZero(i, v)' ELSE Zero
            BY <3>1, <2>1, <2>9, <1>0, Zenon DEF At, V, File, FileOrZero
        <3>3. QED
            BY ONLY <3>1, <3>2, <2>1, <2>3, <2>10, <1>0 DEF Loaded, Converting
    <2>13. QED
        BY <2>11, <2>12
<1>3. CASE LoadSegment
    <2>1. /\ pc = "segments" /\ pc' = "segments"
          /\ UNCHANGED <<paddrs, next_paddr, mem_size, dumped, grown>>
          /\ DOMAIN pmem = 0 .. (mem_size - 1) /\ pc \in Converting
          /\ \E s \in dumped : regions[s].name = "stack"
        BY <1>3, <1>t DEF LoadSegment, Loaded, Converting
    <2>2. DOMAIN pmem' = DOMAIN pmem
        BY <1>3 DEF LoadSegment, Write
    <2>3. CASE grown # 0
        BY <2>1, <2>2, <2>3, <1>0 DEF Loaded, Converting
    <2>4. CASE grown = 0
        <3>1. \A i \in dumped : i \in Indices /\ SegStart(i) = V(i) /\ SegEnd(i) = V(i) + S(i)
            BY <2>4, <1>0, <1>k, <1>t DEF TypeOK, Shape, SegStart, SegEnd, V, S
        <3>2. PICK i \in left :
                /\ left' = left \ {i}
                /\ \/ \E j \in Indices :
                        /\ V(j) = SegStart(i)
                        /\ pmem' = [q \in DOMAIN pmem |->
                             IF paddrs[j] <= q /\ q < paddrs[j] + (SegEnd(i) - SegStart(i))
                             THEN <<"core", SegStart(i) + (q - paddrs[j])>> ELSE pmem[q]]
                   \/ \A j \in Indices : V(j) # SegStart(i)
            BY <1>3 DEF LoadSegment, V, Write
        <3>3. /\ i \in dumped /\ i \in Indices /\ SegStart(i) = V(i) /\ SegEnd(i) = V(i) + S(i)
              /\ V(i) \in Nat /\ S(i) \in Nat /\ paddrs[i] \in Nat /\ i \in Int
            BY <3>1, <3>2, <1>0, <1>k, <1>t DEF TypeOK, Shape
        <3>4. \A j \in Indices : V(j) = V(i) => j = i
          <4> SUFFICES ASSUME NEW j \in Indices, V(j) = V(i) PROVE j = i
            OBVIOUS
          <4>1. V(i) \in PagesOf(regions[i]) /\ V(i) \in PagesOf(regions[j])
            <5>1. V(j) \in Nat /\ S(j) \in Nat /\ S(j) > 0 /\ S(i) > 0
                BY <3>3, <1>0 DEF Shape
            <5>2. QED
                BY <5>1, <3>3 DEF PagesOf, V, S
          <4>2. QED
            BY <4>1, <3>3, <1>0, OneRegion, Zenon
        <3>5. pmem' = [q \in DOMAIN pmem |->
                        IF paddrs[i] <= q /\ q < paddrs[i] + (SegEnd(i) - SegStart(i))
                        THEN <<"core", SegStart(i) + (q - paddrs[i])>> ELSE pmem[q]]
            BY ONLY <3>2, <3>3, <3>4
        <3> DEFINE hit(q) == paddrs[i] <= q /\ q < paddrs[i] + S(i)
                   new(q) == <<"core", V(i) + (q - paddrs[i])>>
        <3>6. (V(i) + S(i)) - V(i) = S(i)
            BY <3>3
        <3>7. pmem' = [q \in DOMAIN pmem |-> IF hit(q) THEN new(q) ELSE pmem[q]]
            BY <3>3, <3>5, <3>6
        <3>8. ASSUME NEW m \in Indices, NEW v \in PagesOf(regions[m])
              PROVE  At(m, v)' = IF m = i THEN <<"core", v>> ELSE At(m, v)
            <4> DEFINE q == paddrs[m] + (v - V(m))
            <4>1. /\ q \in Nat /\ q < next_paddr /\ v \in Nat /\ V(m) <= v
                  /\ paddrs[m] <= q /\ q < paddrs[m] + S(m)
                  /\ paddrs[i] <= q /\ q < paddrs[i] + S(i) => i = m
                BY <2>1, <3>3, Slots
            <4>2. next_paddr \in Nat /\ next_paddr <= mem_size /\ mem_size \in Nat
                BY <2>1, <1>t DEF TypeOK, IInv, Sized
            <4>3. q \in DOMAIN pmem
                BY <4>1, <4>2, <2>1
            <4>4. hit(q) <=> m = i
                BY <4>1
            <4>5. m = i => new(q) = <<"core", v>>
                BY <4>1, <3>3
            <4>6. At(m, v)' = pmem'[q] /\ At(m, v) = pmem[q]
                BY <2>1, <1>0 DEF At, V
            <4> HIDE DEF q, hit, new
            <4>7. QED
                BY <4>3, <4>4, <4>5, <4>6, <3>7
        <3>9. ASSUME NEW q \in DOMAIN pmem, q >= next_paddr PROVE pmem'[q] = pmem[q]
            <4>1. paddrs[i] + S(i) <= next_paddr
                BY <2>1, <3>3, PlacedEnd
            <4>2. next_paddr \in Nat /\ q \in Nat
                BY <2>1, <1>t DEF TypeOK
            <4>3. ~hit(q)
                BY ONLY <3>9, <4>1, <4>2, <3>3
            <4> HIDE DEF hit, new
            <4>4. QED
                BY <4>3, <3>7
        <3>10. \A m \in Indices \ dumped : \A v \in PagesOf(regions[m]) :
                At(m, v)' = FileOrZero(m, v)
            BY <3>3, <3>8, <2>1, <2>4, <1>t DEF Loaded
        <3>11. \A m \in dumped \ left' : \A v \in PagesOf(regions[m]) : At(m, v)' = <<"core", v>>
          <4> SUFFICES ASSUME NEW m \in dumped \ left', NEW v \in PagesOf(regions[m])
                       PROVE  At(m, v)' = <<"core", v>>
            OBVIOUS
          <4>1. m \in Indices
            BY <3>1
          <4>2. m # i => m \in dumped \ left
            BY <3>2
          <4>3. m # i => At(m, v) = <<"core", v>>
            BY <4>2, <2>1, <2>4, <1>t DEF Loaded
          <4>4. QED
            BY ONLY <4>1, <4>3, <3>8, v \in PagesOf(regions[m])
        <3>12. \A q \in DOMAIN pmem' : q >= next_paddr' => pmem'[q] = Zero
            BY <3>9, <2>1, <2>2, <2>4, <1>t DEF Loaded
        <3>13. \A m, v : FileOrZero(m, v)' = FileOrZero(m, v)
            BY <1>0 DEF FileOrZero, V, File
        <3>14. QED
            BY ONLY <3>10, <3>11, <3>12, <3>13, <2>1, <2>2, <1>0 DEF Loaded, Converting
    <2>5. QED
        BY <2>3, <2>4
<1>4. CASE DumpCore
    BY <1>4, <1>0, <1>t DEF DumpCore, Loaded, Converting
<1>5. CASE Simulating
    <2>1. pc' \in {"simulate", "fatal"} /\ mem_size' = mem_size /\ left' = left
        BY <1>5, Zenon DEF Simulating, Next, vars, layout, AssignPaddr, ExpandRegion,
            CalculateMemorySize, DumpCore, Truncate, LoadFile, LoadSegment, Restore, Store,
            AllocateMem, Unmap, Remap
    <2>2. DOMAIN pmem' = DOMAIN pmem
        BY <1>5, <1>t, Zenon DEF TypeOK, Simulating, Next, vars, layout, AssignPaddr,
            ExpandRegion, CalculateMemorySize, DumpCore, Truncate, LoadFile, LoadSegment, Restore,
            Store, AllocateMem, Unmap, Remap
    <2>3. QED
        BY <2>1, <2>2, <1>5, <1>t DEF Loaded, Converting, Simulating
<1>6. CASE AssignPaddr \/ ExpandRegion \/ CalculateMemorySize
    BY <1>6, <1>t DEF Loaded, Converting, AssignPaddr, ExpandRegion, CalculateMemorySize, Advance
<1>7. CASE Restore
    BY <1>7, <1>t DEF Loaded, Converting, Restore
<1>8. CASE UNCHANGED vars
    BY <1>8, <1>t, ZenonT(30) DEF Loaded, vars, At, FileOrZero, V, File, PagesOf, Indices
<1>9. QED
    BY <1>1, <1>2, <1>3, <1>4, <1>5, <1>6, <1>7, <1>8, Zenon
       DEF Next, Simulating, Store, AllocateMem, Unmap, Remap

(* gem5's allocator never hands out a page that is in use.                 *)
LEMMA AllocatedStep == ASSUME IInv, [Next]_vars PROVE Allocated'
<1>t. TypeOK /\ Allocated
    BY DEF IInv
<1>d. Simulating => DOMAIN pmem = 0 .. (mem_size - 1)
    BY DEF IInv, Loaded, Simulating
<1>1. CASE Restore
    <2>1. /\ pc = "segments" /\ pc' = "simulate" /\ pagePtr' = Cardinality(DOMAIN ptable)
          /\ UNCHANGED <<ptable, pmem, mem_size, grown, mmio>>
        BY <1>1 DEF Restore
    <2>2. /\ Table(Len(regions)) /\ pagePtr' = next_paddr /\ next_paddr <= mem_size
          /\ next_paddr \in Nat /\ mem_size \in Nat /\ Len(regions) \in 0 .. Len(regions)
        BY <2>1, ShapeFacts DEF IInv, Expanded, Sized, Converting, TypeOK, Shape
    <2>3. NoAlias /\ \A v \in DOMAIN ptable : ptable[v] < next_paddr
        BY <2>1, <2>2, TableInjective
    <2>4. \A v \in DOMAIN ptable : ptable[v] \in Nat
        BY <1>t DEF TypeOK
    <2>5. \A v \in DOMAIN ptable : ptable[v] < mem_size
        BY <2>2, <2>3, <2>4
    <2>6. grown = 0 => \A q \in DOMAIN pmem : q >= next_paddr => pmem[q] = Zero
        BY <2>1 DEF IInv, Loaded
    <2>7. QED
        BY <2>1, <2>2, <2>3, <2>5, <2>6 DEF Allocated, Simulating, NoAlias
<1>2. CASE \E v \in VPages : Store(v)
    <2>1. PICK v \in DOMAIN ptable : pmem' = [pmem EXCEPT ![ptable[v]] = Stored]
        BY <1>2, Zenon DEF Store
    <2>2. /\ pc = "simulate" /\ pc' = pc /\ UNCHANGED <<ptable, pagePtr, mem_size, grown, mmio>>
        BY <1>2 DEF Store, layout
    <2>3. (~mmio => ptable[v] < pagePtr) /\ ptable[v] \in Nat /\ pagePtr \in Nat /\ DOMAIN pmem \subseteq Nat
        BY <2>1, <2>2, <1>t DEF Allocated, Simulating, TypeOK
    <2>4. ~mmio => \A q \in DOMAIN pmem' : q >= pagePtr => q \in DOMAIN pmem /\ pmem'[q] = pmem[q]
        BY <2>1, <2>3
    <2>5. QED
        BY <2>2, <2>4, <1>t DEF Allocated, Simulating, NoAlias
<1>3. CASE \E v \in VPages : AllocateMem(v)
    <2>0. /\ pc = "simulate" /\ Simulating /\ Simulating'
          /\ UNCHANGED <<pmem, mem_size, grown>> /\ pagePtr \in Nat /\ mem_size \in Nat
          /\ NoAlias /\ DOMAIN pmem \subseteq Nat
        BY <1>3, <1>t DEF AllocateMem, layout, TypeOK, Allocated, Simulating
    <2>1. pc' = "simulate" => pagePtr' <= mem_size'
        <3>1. pc' = "simulate" => ~(pagePtr' > mem_size)
            BY <1>3 DEF AllocateMem
        <3>2. pagePtr' \in Nat
            BY <1>3, <2>0, M5OpAssumption DEF AllocateMem
        <3>3. QED
            BY <2>0, <3>1, <3>2
    <2>2. CASE mmio'
        BY <2>0, <2>1, <2>2 DEF Allocated, NoAlias
    <2>3. CASE ~mmio'
        <3>1. ~mmio /\ NewPage = pagePtr /\ pagePtr' = pagePtr + 1
            BY <1>3, <2>3, Zenon DEF AllocateMem, NewPage
        <3>2. \A u \in DOMAIN ptable : ptable[u] \in Nat /\ ptable[u] < pagePtr /\ ptable[u] < mem_size
            BY <2>0, <3>1, <1>t DEF TypeOK, Allocated
        <3>3. CASE pagePtr + 1 > mem_size
            <4>1. ptable' = ptable
                BY <1>3, <3>1, <3>3 DEF AllocateMem
            <4>2. QED
                BY <4>1, <2>0, <2>1, <3>1, <3>2, <1>t DEF Allocated, Simulating, NoAlias
        <3>4. CASE ~(pagePtr + 1 > mem_size)
            <4>1. PICK v \in VPages : ptable' = [u \in DOMAIN ptable \cup {v} |->
                                                   IF u = v THEN pagePtr ELSE ptable[u]]
                BY <1>3, <3>1, <3>4 DEF AllocateMem
            <4>2. \A u \in DOMAIN ptable' : ptable'[u] < pagePtr' /\ ptable'[u] < mem_size
                BY <2>0, <3>1, <3>2, <3>4, <4>1
            <4>3. NoAlias'
                BY <2>0, <3>1, <3>2, <4>1 DEF NoAlias
            <4>4. QED
                BY <2>0, <2>1, <3>1, <4>2, <4>3, <1>t DEF Allocated, Simulating
        <3>5. QED
            BY <3>3, <3>4
    <2>4. QED
        BY <2>2, <2>3
<1>4. CASE \E v \in VPages : Unmap(v)
    BY <1>4, <1>t DEF Unmap, layout, Allocated, Simulating, NoAlias
<1>5. CASE \E v, w \in VPages : Remap(v, w)
    BY <1>5, <1>t DEF Remap, layout, Allocated, Simulating, NoAlias
<1>6. CASE UNCHANGED vars
    BY <1>6, <1>t DEF vars, Allocated, Simulating, NoAlias
<1>7. CASE AssignPaddr \/ ExpandRegion \/ CalculateMemorySize \/ DumpCore \/ Truncate
           \/ LoadFile \/ LoadSegment
    <2>1. ~Simulating /\ ~Simulating' /\ mmio' = mmio
        BY <1>7 DEF Simulating, AssignPaddr, ExpandRegion, CalculateMemorySize, DumpCore, Truncate,
            LoadFile, LoadSegment, Advance
    <2>2. QED
        BY <2>1, <1>t DEF Allocated, Simulating
<1>8. QED
    BY <1>1, <1>2, <1>3, <1>4, <1>5, <1>6, <1>7 DEF Next

(* The inductive invariant of the layout: consecutive physical intervals,   *)
(* the page table made from them, the image loaded so far and gem5's        *)
(* allocator.                                                              *)
THEOREM IInvInvariant == Spec => []IInv
<1>1. Init => IInv
    <2> SUFFICES ASSUME Init PROVE IInv
        OBVIOUS
    <2>1. Shape /\ WellFormed(regions)
        BY LayoutsAssumption, ShapeFacts DEF Init
    <2>2. DOMAIN ptable = {} /\ DOMAIN pmem = {}
        BY DEF Init
    <2>3. TypeOK
        <3>1. mmio \in BOOLEAN
            BY Zenon DEF Init
        <3>2. QED
            BY <2>1, <2>2, <3>1 DEF Init, TypeOK, Shape, Indices
    <2>4. Expanded
        BY <2>2, FS_EmptySet DEF Init, Expanded, Converting, Simulating
    <2>5. Placed /\ Sized /\ Loaded /\ Allocated
        <3>1. /\ pc = "assign" /\ k = 1 /\ next_paddr = 0 /\ dumped = {} /\ left = {}
              /\ mmio = FALSE
            BY Zenon DEF Init
        <3>2. Placed
            BY <3>1 DEF Placed, Consecutive
        <3>3. Sized
            BY <3>1 DEF Sized, Converting
        <3>4. Loaded
            BY <3>1 DEF Loaded, Converting
        <3>5. Allocated
            BY <3>1 DEF Allocated, Simulating
        <3>6. QED
            BY <3>2, <3>3, <3>4, <3>5
    <2>6. QED
        BY <2>3, <2>4, <2>5 DEF IInv
<1>2. IInv /\ [Next]_vars => IInv'
    BY TypeStep, PlacedStep, ExpandedStep, SizedStep, LoadedStep, AllocatedStep DEF IInv
<1>3. QED
    BY <1>1, <1>2, PTL DEF Spec

(* Type correctness of the layout model.                                   *)
THEOREM TypeCorrect == Spec => []TypeOK
<1>1. IInv => TypeOK
    BY DEF IInv
<1>2. QED
    BY <1>1, IInvInvariant, PTL

(* No two virtual pages share a physical page, for every address space the  *)
(* kernel can report and every sequence of gem5's allocations.             *)
THEOREM PagesNeverAlias == Spec => []NoAlias
<1>1. IInv => NoAlias
    <2> SUFFICES ASSUME IInv PROVE NoAlias
        OBVIOUS
    <2>0. Len(regions) \in Nat /\ k \in 1 .. Len(regions)
        BY ShapeFacts DEF IInv, TypeOK, Shape, Indices
    <2>1. CASE pc = "assign"
        BY <2>1 DEF IInv, Expanded, NoAlias
    <2>2. CASE pc = "expand"
        <3>1. Table(k - 1) /\ k - 1 \in 0 .. Len(regions)
            BY <2>0, <2>2 DEF IInv, Expanded
        <3>2. QED
            BY <2>2, <3>1, TableInjective
    <2>3. CASE pc \in {"size", "dump"} \cup Converting
        <3>1. Table(Len(regions)) /\ Len(regions) \in 0 .. Len(regions) /\ pc # "assign"
            BY <2>0, <2>3 DEF IInv, Expanded, Converting
        <3>2. QED
            BY <3>1, TableInjective
    <2>4. CASE Simulating
        BY <2>4 DEF IInv, Allocated
    <2>5. QED
        BY <2>1, <2>2, <2>3, <2>4 DEF IInv, TypeOK, Converting, Simulating
<1>2. QED
    BY <1>1, IInvInvariant, PTL

(* The simulation never leaves the memory _calculate_memory_size reserved.  *)
THEOREM SimulationInMemory == Spec => []InMemory
<1>1. IInv => InMemory
    BY DEF IInv, Allocated, InMemory, Loaded, Simulating, TypeOK
<1>2. QED
    BY <1>1, IInvInvariant, PTL

-----------------------------------------------------------------------------
(* Once the image is complete the page table leads to what was captured.    *)
LEMMA Faithful == ASSUME IInv, Converted, grown = 0 PROVE Visible = Original
<1>0. /\ Shape /\ Table(Len(regions)) /\ pc = "segments" /\ left = {} /\ dumped \subseteq Indices
      /\ Indices = 1 .. Len(regions)
    BY ShapeFacts DEF IInv, TypeOK, Expanded, Converting, Converted, Indices, Shape
<1>1. DOMAIN ptable = UNION {PagesOf(regions[i]) : i \in Indices}
    BY <1>0, Zenon DEF Table
<1>2. ASSUME NEW v \in DOMAIN ptable PROVE pmem[ptable[v]] = Promised(v)
    <2>1. PICK i \in Indices : v \in PagesOf(regions[i]) /\ ptable[v] = paddrs[i] + (v - V(i))
        BY <1>0 DEF Table
    <2>2. \A j \in Indices : v \in PagesOf(regions[j]) => j = i
        BY <1>0, <2>1, OneRegion, Zenon
    <2>3. CASE i \in dumped
        <3>1. pmem[ptable[v]] = <<"core", v>>
            BY <1>0, <2>1, <2>3, Zenon DEF IInv, Loaded, At
        <3>2. QED
            BY <3>1, <2>1, <2>3 DEF Promised
    <2>4. CASE i \notin dumped
        <3>1. pmem[ptable[v]] = FileOrZero(i, v)
            BY <1>0, <2>1, <2>4 DEF IInv, Loaded, At
        <3>2. ~ \E j \in dumped : v \in PagesOf(regions[j])
            BY <1>0, <2>2, <2>4
        <3>3. ASSUME NEW j \in Indices
              PROVE  v - regions[j].vaddr \in 0 .. (regions[j].file - 1) <=> j = i /\ v - V(i) < File(i)
            <4>1. /\ V(j) \in Nat /\ S(j) \in Nat /\ File(j) \in Nat /\ File(j) <= S(j)
                  /\ v \in Nat /\ V(i) <= v
                BY <1>0, <2>1, Slots DEF Shape
            <4>2. v - V(j) \in 0 .. (File(j) - 1) => v \in PagesOf(regions[j])
                BY <4>1 DEF PagesOf, V, S
            <4>3. v - V(j) \in 0 .. (File(j) - 1) => j = i
                BY <4>2, <2>2
            <4>4. j = i => (v - V(j) \in 0 .. (File(j) - 1) <=> v - V(j) < File(j))
                BY <4>1
            <4>5. QED
                BY <4>3, <4>4 DEF V, File
        <3>4. (\E j \in Indices : v - regions[j].vaddr \in 0 .. (regions[j].file - 1))
                <=> v - V(i) < File(i)
            BY <3>3
        <3>5. QED
            BY <3>1, <3>2, <3>4 DEF Promised, FileOrZero
    <2>5. QED
        BY <2>3, <2>4
<1>3. QED
    BY <1>1, <1>2 DEF Visible, Original

(* Page table and image, made by different programs, agree on every page.   *)
THEOREM ImageIsFaithful == Spec => []ImageFaithful
<1>1. IInv => ImageFaithful
    BY Faithful DEF ImageFaithful
<1>2. QED
    BY <1>1, IInvInvariant, PTL

(* What a step of the simulator shows the process.                         *)
LEMMA StepImplements ==
    ASSUME IInv, Sound, Sound', [Next]_vars
    PROVE  [Abstract!Kept]_(Abstract!vars)
<1>s. Sound' = Sound /\ grown = 0 /\ ~mmio /\ ~mmio'
    BY DEF Sound
<1>t. TypeOK /\ Allocated /\ (Simulating => View = Visible) /\ (~Simulating => View = << >>)
    BY DEF IInv, View
<1>0. Simulating /\ ~Restore => Original' = Original
    BY Zenon DEF Next, vars, layout, Simulating, AssignPaddr, ExpandRegion, CalculateMemorySize,
        DumpCore, Truncate, LoadFile, LoadSegment, Store, AllocateMem, Unmap, Remap, Original,
        Promised, Indices
<1>1. CASE AssignPaddr \/ ExpandRegion \/ CalculateMemorySize \/ DumpCore \/ Truncate
           \/ LoadFile \/ LoadSegment
    <2>1. ~Simulating /\ ~Simulating'
        BY <1>1 DEF Simulating, AssignPaddr, ExpandRegion, CalculateMemorySize, DumpCore, Truncate,
            LoadFile, LoadSegment, Advance
    <2>2. Simulating' = FALSE
        BY <2>1 DEF Simulating
    <2>3. QED
        BY <2>1, <2>2 DEF Abstract!Kept, Abstract!Capture
<1>2. CASE Restore
    <2>1. /\ Converted /\ ~Simulating /\ Simulating' = TRUE
          /\ UNCHANGED <<regions, dumped, ptable, pmem>>
        BY <1>2 DEF Restore, Converted, Simulating
    <2>2. Original' = Original
        BY <2>1 DEF Original, Promised, Indices
    <2>3. View' = Visible
        BY <2>1 DEF View, Visible
    <2>4. View' = Original
        BY <1>s, <2>1, <2>3, Faithful
    <2>5. QED
        BY <2>1, <2>2, <2>4 DEF Abstract!Kept, Abstract!Restore
<1>3. ASSUME NEW v \in VPages, Store(v) PROVE Abstract!Kept
    <2>1. /\ Simulating /\ Simulating' = TRUE /\ ~Restore /\ v \in DOMAIN ptable /\ ptable' = ptable
          /\ pmem' = [pmem EXCEPT ![ptable[v]] = Stored]
        BY <1>3 DEF Store, Simulating, Restore
    <2>2. NoAlias /\ \A u \in DOMAIN ptable : ptable[u] \in DOMAIN pmem
        <3>1. NoAlias /\ \A u \in DOMAIN ptable : ptable[u] < mem_size
            BY <2>1, <1>s, <1>t DEF Allocated
        <3>2. mem_size \in Nat /\ \A u \in DOMAIN ptable : ptable[u] \in Nat
            BY <1>t DEF TypeOK
        <3>3. DOMAIN pmem = 0 .. (mem_size - 1)
            BY <2>1 DEF IInv, Loaded, Simulating
        <3>4. QED
            BY ONLY <3>1, <3>2, <3>3
    <2>3. \A u \in DOMAIN ptable : pmem'[ptable[u]] = IF u = v THEN Stored ELSE pmem[ptable[u]]
        <3>1. \A u \in DOMAIN ptable : ptable[u] = ptable[v] => u = v
            BY <2>1, <2>2, <1>s DEF NoAlias
        <3>2. pmem \in [DOMAIN pmem -> Content]
            BY <1>t DEF TypeOK
        <3>3. QED
            BY ONLY <3>1, <3>2, <2>1, <2>2
    <2>4. View' = [u \in DOMAIN ptable |-> IF u = v THEN Stored ELSE pmem[ptable[u]]]
        BY <2>1, <2>3 DEF View, Visible
    <2>5. Abstract!Store(v)
        BY <2>1, <2>4, <1>t, Zenon DEF Abstract!Store, Visible
    <2>6. QED
        BY <1>0, <2>1, <2>5 DEF Abstract!Kept, Abstract!Continue
<1>4. ASSUME NEW v \in VPages, AllocateMem(v) PROVE [Abstract!Kept]_(Abstract!vars)
    <2>1. /\ Simulating /\ Simulating' = TRUE /\ Simulating = TRUE /\ ~Restore /\ pc = "simulate"
          /\ pmem' = pmem /\ NewPage = pagePtr /\ pagePtr' = pagePtr + 1
        BY <1>s, <1>4, Zenon DEF AllocateMem, Simulating, Restore, NewPage
    <2>2. CASE pagePtr + 1 > mem_size
        <3>1. ptable' = ptable
            BY <1>4, <2>1, <2>2 DEF AllocateMem
        <3>2. View' = View
            BY <2>1, <3>1 DEF View, Visible
        <3>3. QED
            BY <1>s, <1>0, <2>1, <3>2 DEF Abstract!vars
    <2>3. CASE ~(pagePtr + 1 > mem_size)
        <3>1. ptable' = [u \in DOMAIN ptable \cup {v} |-> IF u = v THEN pagePtr ELSE ptable[u]]
            BY <1>4, <2>1, <2>3 DEF AllocateMem
        <3>2. pagePtr \in DOMAIN pmem
          <4>1. DOMAIN pmem = 0 .. (mem_size - 1)
            BY <2>1 DEF IInv, Loaded
          <4>2. pagePtr \in Nat /\ mem_size \in Nat
            BY <1>t DEF TypeOK
          <4>3. QED
            BY ONLY <4>1, <4>2, <2>3
        <3>3. pmem[pagePtr] = Zero
            BY <2>1, <3>2, <1>s, <1>t DEF Allocated, TypeOK
        <3>4. View' = [u \in DOMAIN ptable \cup {v} |-> IF u = v THEN Zero ELSE pmem[ptable[u]]]
            BY <2>1, <3>1, <3>3 DEF View, Visible
        <3>5. Abstract!Map(v)
            BY <2>1, <3>4, <1>t DEF Abstract!Map, Visible
        <3>6. QED
            BY <1>0, <2>1, <3>5 DEF Abstract!Kept, Abstract!Continue
    <2>4. QED
        BY <2>2, <2>3
<1>5. ASSUME NEW v \in VPages, Unmap(v) PROVE Abstract!Kept
    <2>1. /\ Simulating /\ Simulating' = TRUE /\ ~Restore /\ v \in DOMAIN ptable /\ pmem' = pmem
          /\ ptable' = [u \in DOMAIN ptable \ {v} |-> ptable[u]]
        BY <1>5 DEF Unmap, Simulating, Restore
    <2>2. View' = [u \in DOMAIN ptable \ {v} |-> pmem[ptable[u]]]
        BY <2>1 DEF View, Visible
    <2>3. Abstract!Unmap(v)
        BY <2>1, <2>2, <1>t DEF Abstract!Unmap, Visible
    <2>4. QED
        BY <1>0, <2>1, <2>3 DEF Abstract!Kept, Abstract!Continue
<1>6. ASSUME NEW v \in VPages, NEW w \in VPages, Remap(v, w) PROVE Abstract!Kept
    <2>1. /\ Simulating /\ Simulating' = TRUE /\ ~Restore /\ v \in DOMAIN ptable /\ pmem' = pmem
          /\ w \notin DOMAIN ptable
          /\ ptable' = [u \in (DOMAIN ptable \cup {w}) \ {v} |-> IF u = w THEN ptable[v] ELSE ptable[u]]
        BY <1>6 DEF Remap, Simulating, Restore
    <2>2. View' = [u \in (DOMAIN ptable \cup {w}) \ {v} |->
                    IF u = w THEN pmem[ptable[v]] ELSE pmem[ptable[u]]]
        BY <2>1 DEF View, Visible
    <2>3. Abstract!Remap(v, w)
        BY <2>1, <2>2, <1>t DEF Abstract!Remap, Visible
    <2>4. QED
        BY <1>0, <2>1, <2>3 DEF Abstract!Kept, Abstract!Continue
<1>7. CASE UNCHANGED vars
    <2>1. Original' = Original /\ Simulating' = Simulating /\ View' = View
        BY <1>7 DEF vars, Original, Promised, Indices, Simulating, View, Visible
    <2>2. QED
        BY <1>s, <2>1 DEF Abstract!vars
<1>8. QED
    BY <1>1, <1>2, <1>3, <1>4, <1>5, <1>6, <1>7 DEF Next

(* The stack grows, if it does, when the core is dumped.                   *)
GrownLate == pc \in {"assign", "expand", "size", "dump"} => grown = 0

(* Until the core is dumped the mappings describe the address space.       *)
LEMMA GrownLateInvariant == Spec => []GrownLate
<1>1. Init => GrownLate
    BY DEF Init, GrownLate
<1>2. GrownLate /\ [Next]_vars => GrownLate'
    BY Zenon DEF GrownLate, Next, vars, layout, Advance, AssignPaddr, ExpandRegion,
        CalculateMemorySize, DumpCore, Truncate, LoadFile, LoadSegment, Restore, Store,
        AllocateMem, Unmap, Remap
<1>3. QED
    BY <1>1, <1>2, PTL DEF Spec

(* A checkpoint that has become unsound stays so.                          *)
LEMMA UnsoundStays == ASSUME GrownLate, TypeOK, [Next]_vars, Sound' PROVE Sound
BY Zenon DEF GrownLate, TypeOK, Sound, Next, vars, layout, Advance, AssignPaddr, ExpandRegion,
       CalculateMemorySize, DumpCore, Truncate, LoadFile, LoadSegment, Restore, Store,
       AllocateMem, Unmap, Remap

(* A checkpoint whose stack did not grow between reading the mappings and   *)
(* dumping the core is restored as the captured address space, and goes on  *)
(* as one until gem5 reaches the m5ops region.                             *)
THEOREM RestoredAsCaptured == Spec => IsAddressSpace
<1>1. Init => Abstract!Init
    BY DEF Init, Abstract!Init, Simulating, Sound
<1>2. ASSUME IInv, GrownLate, [Next]_vars PROVE [Abstract!Next]_(Abstract!vars)
    <2>1. CASE ~Sound'
        BY <2>1 DEF Abstract!Next
    <2>2. CASE Sound'
        <3>1. Sound
            BY <1>2, <2>2, UnsoundStays DEF IInv
        <3>2. [Abstract!Kept]_(Abstract!vars)
            BY <1>2, <2>2, <3>1, StepImplements
        <3>3. QED
            BY <3>1, <3>2 DEF Abstract!Next
    <2>3. QED
        BY <2>1, <2>2
<1>3. QED
    BY <1>1, <1>2, IInvInvariant, GrownLateInvariant, PTL DEF Spec, IsAddressSpace, Abstract!Spec
=============================================================================
