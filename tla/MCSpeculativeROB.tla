------------------------- MODULE MCSpeculativeROB -------------------------
(* Instances of SpeculativeROB for TLC.                                    *)
EXTENDS SpeculativeROB

(* Each flag is on in one of them and off in the other.                    *)
Several ==
    {{"Clear_MaySquash_AtExec", "LimitWakeDependandsToWBWidth",
      "MarkUnsafeIf_LoadtInstruction", "Runahead_ifMoreThanNBranches"},
     {"Allow_NonLoads_AfterBranch", "SquashInSingleCycle",
      "Runahead_ifBranchLoadIsStalling", "Runahead_SquashInSingleCycle"}}
=============================================================================
