---------------------------- MODULE MemoryLayout ----------------------------
(***************************************************************************)
(* The memory of one checkpoint, from the inferior to the simulator: the   *)
(* engine gives every mapped region a physical address and expands the     *)
(* regions into a page table (GDBEngine), the converter lays the core dump  *)
(* out in the pmem file (CheckpointConvert), gem5 restores both and goes on *)
(* allocating.  Addresses and sizes are in pages.  The contents of a page   *)
(* are a tag and the page they belong to.                                  *)
(***************************************************************************)
EXTENDS Integers, Sequences, FiniteSets

CONSTANTS
    Layouts,    \* what _get_virtual_addresses may return: sequences of regions
    Growth,     \* by how much the stack may grow while get_brk.c is injected
    VPages,     \* virtual pages the simulated process may map
    M5OpFirst, M5OpLast     \* physical pages gem5 reserves for its m5ops

Region == [vaddr : Nat, size : Nat \ {0}, name : {"null", "stack", "other"},
           file : Nat]  \* pages read from the file of that name; 0 if it is none

NullRegion == [vaddr |-> 0, size |-> 1, name |-> "null", file |-> 0]

(* /proc/pid/maps lists disjoint regions in ascending order; the engine     *)
(* puts a null page in front and asserts that there is one stack.          *)
WellFormed(L) ==
    /\ L \in Seq(Region) /\ Len(L) > 1 /\ L[1] = NullRegion
    /\ \A i, j \in 1 .. Len(L) : i < j => L[i].vaddr + L[i].size <= L[j].vaddr
    /\ \A i \in 1 .. Len(L) : L[i].file <= L[i].size
    /\ \E s \in 2 .. Len(L) :
        /\ L[s].file = 0
        /\ \A i \in 1 .. Len(L) : L[i].name = "stack" <=> i = s

ASSUME LayoutsAssumption == \A L \in Layouts : WellFormed(L)
ASSUME GrowthAssumption == Growth \subseteq Nat
ASSUME VPagesAssumption == VPages \subseteq Nat
ASSUME M5OpAssumption == M5OpFirst \in Nat /\ M5OpLast \in Nat

Content == {"zero", "core", "file", "sim"} \X Nat
Zero    == <<"zero", 0>>
Stored  == <<"sim", 0>>

VARIABLES
    pc, k,                  \* phase, and the region a loop is at
    regions,                \* vaddrs, sizes and names of the regions
    next_paddr, paddrs,     \* _get_memory_regions
    ptable,                 \* expanded mappings, then gem5's page table
    mem_size,               \* _calculate_memory_size
    dumped, grown, left,    \* the core: regions dumped, growth of the stack;
                            \* segments not yet loaded
    pmem,                   \* the pmem file, then gem5's physical memory
    pagePtr,                \* first physical page gem5 has not given out
    mmio                    \* gem5 has warned "Reached m5ops MMIO region"

vars == <<pc, k, regions, next_paddr, paddrs, ptable, mem_size,
          dumped, grown, left, pmem, pagePtr, mmio>>

Indices  == 1 .. Len(regions)
PagesOf(r) == r.vaddr .. (r.vaddr + r.size - 1)

Init ==
    /\ pc = "assign" /\ k = 1
    /\ regions \in Layouts
    /\ next_paddr = 0 /\ paddrs = [i \in Indices |-> 0]
    /\ ptable = << >> /\ mem_size = 0
    /\ dumped = {} /\ grown = 0 /\ left = {}
    /\ pmem = << >> /\ pagePtr = 0 /\ mmio = FALSE

(* One round of a loop over the regions.                                   *)
Advance(next) ==
    /\ pc' = IF k = Len(regions) THEN next ELSE pc
    /\ k' = IF k = Len(regions) THEN 1 ELSE k + 1

-----------------------------------------------------------------------------
(* GDBEngine: layout and page table.                                       *)

(* Mutant: every region takes one page.                                    *)
AssignPaddrByCount ==
    /\ pc = "assign"
    /\ paddrs' = [paddrs EXCEPT ![k] = next_paddr]
    /\ next_paddr' = next_paddr + 1
    /\ Advance("expand")
    /\ UNCHANGED <<regions, ptable, mem_size, dumped, grown, left, pmem, pagePtr, mmio>>

AssignPaddr ==
    /\ pc = "assign"
    /\ paddrs' = [paddrs EXCEPT ![k] = next_paddr]
    /\ next_paddr' = next_paddr + regions[k].size
    /\ Advance("expand")
    /\ UNCHANGED <<regions, ptable, mem_size, dumped, grown, left, pmem, pagePtr, mmio>>

(* paddr = p + off if p != 0 else 0                                        *)
PageAddr(p, off) == IF p # 0 THEN p + off ELSE 0

ExpandRegion ==
    /\ pc = "expand"
    /\ LET r == regions[k]
       IN  ptable' = [v \in DOMAIN ptable \cup PagesOf(r) |->
                        IF v \in PagesOf(r) THEN PageAddr(paddrs[k], v - r.vaddr)
                        ELSE ptable[v]]
    /\ Advance("size")
    /\ UNCHANGED <<regions, next_paddr, paddrs, mem_size, dumped, grown, left, pmem, pagePtr, mmio>>

CalculateMemorySize ==
    /\ pc = "size"
    /\ \E v \in DOMAIN ptable :
        /\ \A u \in DOMAIN ptable : ptable[u] <= ptable[v]
        /\ mem_size' = 2 * (ptable[v] + 1)
    /\ pc' = "dump"
    /\ UNCHANGED <<k, regions, next_paddr, paddrs, ptable, dumped, grown, left, pmem, pagePtr, mmio>>

(* get_brk.c runs inside the inferior, on its stack, before gcore dumps the *)
(* readable regions; the stack may have grown towards the region below it.  *)
DumpCore ==
    /\ pc = "dump"
    /\ dumped' \in SUBSET (2 .. Len(regions))
    /\ grown' \in Growth
    /\ \E s \in dumped' :
        /\ regions[s].name = "stack"
        /\ regions[s - 1].vaddr + regions[s - 1].size <= regions[s].vaddr - grown'
    /\ pc' = "truncate"
    /\ UNCHANGED <<k, regions, next_paddr, paddrs, ptable, mem_size, left, pmem, pagePtr, mmio>>

-----------------------------------------------------------------------------
(* CheckpointConvert: create_pmem_file.                                    *)

SegStart(i) == regions[i].vaddr - (IF regions[i].name = "stack" THEN grown ELSE 0)
SegEnd(i)   == regions[i].vaddr + regions[i].size       \* exclusive

(* seek(p), write(n pages of what is at v in the dump or in a file).       *)
Write(p, n, tag, v) ==
    pmem' = [q \in DOMAIN pmem |-> IF p <= q /\ q < p + n THEN <<tag, v + (q - p)>> ELSE pmem[q]]

(* truncate(mem_size): the whole file is zeros.                            *)
Truncate ==
    /\ pc = "truncate"
    /\ pmem' = [q \in 0 .. (mem_size - 1) |-> Zero]
    /\ left' = dumped
    /\ pc' = "files"
    /\ UNCHANGED <<k, regions, next_paddr, paddrs, ptable, mem_size, dumped, grown, pagePtr, mmio>>

(* The file of region k is written unless every segment of the core covers  *)
(* the region's first page; the null page is skipped.                      *)
LoadFile ==
    /\ pc = "files"
    /\ LET r == regions[k]
           uncovered == \E i \in dumped : ~(SegStart(i) <= r.vaddr /\ r.vaddr < SegEnd(i))
       IN  IF r.vaddr # 0 /\ uncovered
           THEN Write(paddrs[k], r.file, "file", r.vaddr)
           ELSE pmem' = pmem
    /\ Advance("segments")
    /\ UNCHANGED <<regions, next_paddr, paddrs, ptable, mem_size, dumped, grown, left, pagePtr, mmio>>

(* Mutant: a segment is loaded only where no file was.                     *)
LoadSegmentUnlessFile ==
    /\ pc = "segments"
    /\ \E i \in left :
        /\ \A m \in left : i <= m
        /\ left' = left \ {i}
        /\ \/ \E j \in Indices :
                /\ regions[j].vaddr = SegStart(i) /\ regions[j].file = 0
                /\ Write(paddrs[j], SegEnd(i) - SegStart(i), "core", SegStart(i))
           \/ /\ \A j \in Indices : regions[j].vaddr # SegStart(i) \/ regions[j].file # 0
              /\ pmem' = pmem
    /\ UNCHANGED <<pc, k, regions, next_paddr, paddrs, ptable, mem_size, dumped, grown, pagePtr, mmio>>

(* A segment is loaded where the mapping with its start address lies, and   *)
(* skipped when no mapping starts there.                                   *)
LoadSegment ==
    /\ pc = "segments"
    /\ \E i \in left :
        /\ \A m \in left : i <= m
        /\ left' = left \ {i}
        /\ \/ \E j \in Indices :
                /\ regions[j].vaddr = SegStart(i)
                /\ Write(paddrs[j], SegEnd(i) - SegStart(i), "core", SegStart(i))
           \/ /\ \A j \in Indices : regions[j].vaddr # SegStart(i)
              /\ pmem' = pmem
    /\ UNCHANGED <<pc, k, regions, next_paddr, paddrs, ptable, mem_size, dumped, grown, pagePtr, mmio>>

-----------------------------------------------------------------------------
(* gem5: restore, then the system calls of the simulated process.          *)

(* Mutant: pagePtr counts the regions instead of the pages.                *)
RestoreByRegions ==
    /\ pc = "segments" /\ left = {}
    /\ pagePtr' = Len(regions)
    /\ pc' = "simulate"
    /\ UNCHANGED <<k, regions, next_paddr, paddrs, ptable, mem_size, dumped, grown, left, pmem, mmio>>

(* The page table and the memory are taken over as they are; pagePtr is the *)
(* number of mappings, as the template of m5.cpt says.                     *)
Restore ==
    /\ pc = "segments" /\ left = {}
    /\ pagePtr' = Cardinality(DOMAIN ptable)
    /\ pc' = "simulate"
    /\ UNCHANGED <<k, regions, next_paddr, paddrs, ptable, mem_size, dumped, grown, left, pmem, mmio>>

layout == <<k, regions, next_paddr, paddrs, mem_size, dumped, grown, left>>

Store(v) ==
    /\ pc = "simulate" /\ v \in DOMAIN ptable
    /\ pmem' = [pmem EXCEPT ![ptable[v]] = Stored]
    /\ UNCHANGED <<pc, layout, ptable, pagePtr, mmio>>

(* Mutant: the size of the memory is not looked at.                        *)
AllocateMemUnbounded(v) ==
    /\ pc = "simulate" /\ pagePtr <= mem_size
    /\ pagePtr' = pagePtr + 1
    /\ ptable' = [u \in DOMAIN ptable \cup {v} |-> IF u = v THEN pagePtr ELSE ptable[u]]
    /\ UNCHANGED <<pc, layout, pmem, mmio>>

(* allocPhysPages: the next page, except that the allocation which would    *)
(* end in the m5ops region gets its last page, as the following one will.   *)
ReachesM5Ops == pagePtr + 1 \in M5OpFirst .. M5OpLast
NewPage      == IF ReachesM5Ops THEN M5OpLast ELSE pagePtr

(* allocateMem: a physical page for v, which may replace an old one         *)
(* (Clobber); gem5 ends when there is none left.                           *)
AllocateMem(v) ==
    /\ pc = "simulate"
    /\ pagePtr' = IF ReachesM5Ops THEN M5OpLast ELSE pagePtr + 1
    /\ mmio' = (mmio \/ ReachesM5Ops)
    /\ IF pagePtr' > mem_size
       THEN pc' = "fatal" /\ ptable' = ptable
       ELSE /\ pc' = pc
            /\ ptable' = [u \in DOMAIN ptable \cup {v} |-> IF u = v THEN NewPage ELSE ptable[u]]
    /\ UNCHANGED <<layout, pmem>>

Unmap(v) ==
    /\ pc = "simulate" /\ v \in DOMAIN ptable
    /\ ptable' = [u \in DOMAIN ptable \ {v} |-> ptable[u]]
    /\ UNCHANGED <<pc, layout, pmem, pagePtr, mmio>>

Remap(v, w) ==
    /\ pc = "simulate" /\ v \in DOMAIN ptable /\ w \notin DOMAIN ptable
    /\ ptable' = [u \in (DOMAIN ptable \cup {w}) \ {v} |->
                    IF u = w THEN ptable[v] ELSE ptable[u]]
    /\ UNCHANGED <<pc, layout, pmem, pagePtr, mmio>>

Next ==
    \/ AssignPaddr \/ ExpandRegion \/ CalculateMemorySize \/ DumpCore
    \/ Truncate \/ LoadFile \/ LoadSegment \/ Restore
    \/ \E v \in VPages : Store(v) \/ AllocateMem(v) \/ Unmap(v)
                         \/ \E w \in VPages : Remap(v, w)

Spec == Init /\ [][Next]_vars

-----------------------------------------------------------------------------
Simulating == pc \in {"simulate", "fatal"}

(* Every variable stays in its domain.                                     *)
TypeOK ==
    /\ pc \in {"assign", "expand", "size", "dump", "truncate", "files", "segments",
               "simulate", "fatal"}
    /\ WellFormed(regions) /\ k \in Indices
    /\ next_paddr \in Nat /\ paddrs \in [Indices -> Nat] /\ mem_size \in Nat
    /\ DOMAIN ptable \subseteq Nat /\ ptable \in [DOMAIN ptable -> Nat]
    /\ dumped \subseteq 2 .. Len(regions) /\ grown \in Nat /\ left \subseteq dumped
    /\ DOMAIN pmem \subseteq Nat /\ pmem \in [DOMAIN pmem -> Content]
    /\ pagePtr \in Nat /\ mmio \in BOOLEAN

(* Two virtual pages never share a physical page: neither in the page table *)
(* _create_mappings expands nor after any sequence of gem5's allocations,   *)
(* which start from pagePtr = number of mappings, until gem5 warns that it  *)
(* has reached the m5ops region.                                           *)
NoAlias ==
    ~mmio => \A u, v \in DOMAIN ptable : ptable[u] = ptable[v] => u = v

(* Every page the simulation can reach is inside the pmem image, whose size *)
(* _calculate_memory_size chose, and below gem5's allocation pointer.      *)
InMemory ==
    Simulating /\ ~mmio => \A v \in DOMAIN ptable : ptable[v] \in DOMAIN pmem /\ ptable[v] < pagePtr

(* What the checkpoint promises page v to hold: the dump of it where there  *)
(* is one, else the file mapped there, else zeros.                         *)
Promised(v) ==
    IF \E i \in dumped : v \in PagesOf(regions[i]) THEN <<"core", v>>
    ELSE IF \E i \in Indices : v - regions[i].vaddr \in 0 .. (regions[i].file - 1)
         THEN <<"file", v>> ELSE Zero

Original == [v \in UNION {PagesOf(regions[i]) : i \in Indices} |-> Promised(v)]

Converted == pc = "segments" /\ left = {}
Visible   == [v \in DOMAIN ptable |-> pmem[ptable[v]]]

(* When create_pmem_file is through, the page table of m5.cpt finds behind  *)
(* every virtual page what was captured of it, although table and image are *)
(* made by different programs; provided the address space was still the     *)
(* one the mappings describe when it was dumped.                           *)
ImageFaithful ==
    (Converted /\ grown = 0) => Visible = Original

(* "Load everything else": every dumped region is in the image.  If the     *)
(* stack grew between mappings and dump, its segment is dropped.           *)
EverythingLoaded ==
    Converted => \A i \in dumped : \A v \in PagesOf(regions[i]) : pmem[ptable[v]] = <<"core", v>>

-----------------------------------------------------------------------------
View == IF Simulating THEN Visible ELSE << >>

(* The stack did not grow between mappings and dump, and gem5's allocator   *)
(* has not reached the m5ops region, where it hands one page out again.     *)
Sound == grown = 0 /\ ~mmio

Abstract == INSTANCE AddressSpace
    WITH sound <- Sound, original <- Original, live <- Simulating, view <- View

(* A sound checkpoint is restored as the captured address space and goes on *)
(* as one: layout, image and gem5's allocator together are invisible to the *)
(* process.                                                                *)
IsAddressSpace == Abstract!Spec
=============================================================================
