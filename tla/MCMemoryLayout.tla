--------------------------- MODULE MCMemoryLayout ---------------------------
EXTENDS MemoryLayout

CONSTANTS
    MaxPage,    \* highest virtual page
    MaxSize     \* pages of a region

RegionsAbove == [vaddr : 1 .. MaxPage, size : 1 .. MaxSize, name : {"stack", "other"},
                 file : 0 .. MaxSize]

End(L) == L[Len(L)].vaddr + L[Len(L)].size

(* The sequences of S with one more region.                                *)
Longer(S) ==
    {Append(x[1], x[2]) : x \in {y \in S \X RegionsAbove :
        /\ End(y[1]) <= y[2].vaddr
        /\ y[2].file <= y[2].size
        /\ y[2].vaddr + y[2].size <= MaxPage + 1
        /\ y[2].name = "stack" => y[2].file = 0}}

One   == Longer({<<NullRegion>>})
Two   == Longer(One)
Three == Longer(Two)

UpToThreeRegions == {L \in One \cup Two \cup Three : WellFormed(L)}

SomePages == {2, 3}    \* mapped or not, depending on the layout
UpToOne   == {0, 1}
=============================================================================
