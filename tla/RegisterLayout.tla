---------------------------- MODULE RegisterLayout ----------------------------
(***************************************************************************)
(* The registers of a checkpoint.  RegisterValues (CheckpointTemplate) turns *)
(* gdb's registers into three strings of numbers without names; gem5 reads  *)
(* them into arrays indexed by its own enumerations.  A register survives   *)
(* only if the position the one gives it is the index the other expects.    *)
(* A register is a pair <<name, number>>, its value is represented by the   *)
(* register it belongs to.                                                 *)
(***************************************************************************)
EXTENDS Naturals, Sequences, Functions

CONSTANT Files      \* the register files that are restored

ASSUME FilesAssumption == Files \subseteq {"int", "float", "misc"}

VARIABLES stage, file, i, regs  \* file being read, next index, gem5's registers

regVars == <<stage, file, i, regs>>

Bank(name, n) == [k \in 1 .. n |-> <<name, k - 1>>]
Named(names) == [k \in 1 .. Len(names) |-> <<names[k], 0>>]
ZeroReg == <<"zero", 0>>

-----------------------------------------------------------------------------
(* CheckpointTemplate: the registers in the order they are written.        *)

(* Mutant: the zeros cover the micro-op registers only.                    *)
IntOrderShort ==
    Named(<<"rax", "rcx", "rdx", "rbx", "rsp", "rbp", "rsi", "rdi", "r8", "r9", "r10", "r11",
            "r12", "r13", "r14", "r15">>) \o Bank("none", 16)

IntOrder ==
    Named(<<"rax", "rcx", "rdx", "rbx", "rsp", "rbp", "rsi", "rdi", "r8", "r9", "r10", "r11",
            "r12", "r13", "r14", "r15">>) \o Bank("none", 22)

FloatOrder ==
    Bank("none", 8) \o Bank("fpr", 8)
    \o [k \in 1 .. 32 |-> <<IF k % 2 = 1 THEN "xmm_high" ELSE "xmm_low", (k - 1) \div 2>>]
    \o Bank("microfp", 8)

Suffixed(suffix) ==
    [k \in 1 .. 13 |-> <<suffix, <<"es", "cs", "ss", "ds", "fs", "gs", "hs", "tsl", "tsg", "ls",
                                   "ms", "tr", "idtr">>[k]>>]

(* Mutant: the effective bases come before the bases.                      *)
SegmentOrderSwapped ==
    Suffixed("sel") \o Suffixed("eff_base") \o Suffixed("base") \o Suffixed("limit")
    \o Suffixed("attr")

SegmentOrder ==
    Suffixed("sel") \o Suffixed("base") \o Suffixed("eff_base") \o Suffixed("limit")
    \o Suffixed("attr")

MiscOrder ==
    Bank("cr", 16) \o Bank("dr", 8)
    \o Named(<<"rflags", "m5", "tsc", "mtrrcap", "sysenter_cs", "sysenter_esp", "sysenter_eip",
               "mcg_cap", "mcg_status", "mcg_ctl", "debug_ctl_msr", "lbfi", "lbti", "lefi",
               "leti">>)
    \o Bank("mtrr_phys_base", 8) \o Bank("mtrr_phys_mask", 8) \o Bank("mtrr_fix", 11)
    \o Named(<<"pat", "def_type">>)
    \o Bank("mc_ctl", 8) \o Bank("mc_status", 8) \o Bank("mc_addr", 8) \o Bank("mc_misc", 8)
    \o Named(<<"efer", "star", "lstar", "cstar", "sf_mask", "kernel_gs_base", "tsc_aux">>)
    \o Bank("perf_evt_sel", 4) \o Bank("perf_evt_ctr", 4)
    \o Named(<<"syscfg", "iorr_base0", "iorr_base1", "iorr_mask0", "iorr_mask1", "top_mem",
               "top_mem2", "vm_cr", "ignne", "smm_ctl", "vm_hsave_pa">>)
    \o SegmentOrder
    \o Named(<<"x87_top", "mxcsr", "fcw", "fsw", "ftw", "ftag", "fiseg", "fioff", "foseg",
               "fooff", "fop", "apic_base", "pci_config_address">>)

(* The keys of regvals: what "info all-registers" shows in a form the       *)
(* pattern accepts, and the defaults.                                      *)
Captured ==
    Range(Named(<<"rax", "rcx", "rdx", "rbx", "rsp", "rbp", "rsi", "rdi", "r8", "r9", "r10",
                  "r11", "r12", "r13", "r14", "r15", "rflags", "mxcsr", "ftag", "fiseg",
                  "fioff", "foseg", "fooff", "fop", "m5", "efer">>))
    \cup {<<"cr", 0>>, <<"dr", 6>>, <<"dr", 7>>, <<"base", "fs">>, <<"eff_base", "fs">>}
    \cup {<<"sel", s>> : s \in {"es", "cs", "ss", "ds", "fs", "gs"}}
    \cup Range(Suffixed("attr"))
    \cup Range(Bank("xmm_low", 16)) \cup Range(Bank("xmm_high", 16))

(* xmm<i>_high is set from the first element of v2_int64, the low half.    *)
Half(r) ==
    CASE r[1] = "xmm_high" -> <<"xmm_low", r[2]>>
      [] r[1] = "xmm_low"  -> <<"xmm_high", r[2]>>
      [] OTHER             -> r

(* Every other register is written as 0.                                   *)
GetItem(r) == IF r \in Captured THEN Half(r) ELSE ZeroReg

Order(f) == CASE f = "int" -> IntOrder [] f = "float" -> FloatOrder [] f = "misc" -> MiscOrder
RegString(f) == [k \in 1 .. Len(Order(f)) |-> GetItem(Order(f)[k])]

-----------------------------------------------------------------------------
(* gem5: the enumerations IntRegIndex, FloatRegIndex and MiscRegIndex.      *)
NumCRegs == 16
NumDRegs == 8
NumMMXRegs == 8
NumXMMRegs == 16
NumMicroFpRegs == 8
NumMicroIntRegs == 16
NumImplicitIntRegs == 6
NUM_SEGMENTREGS == 13

IntRegIndex ==
    <<"rax", "rcx", "rdx", "rbx", "rsp", "rbp", "rsi", "rdi", "r8", "r9", "r10", "r11", "r12",
      "r13", "r14", "r15">>
SegmentRegIndex ==
    <<"es", "cs", "ss", "ds", "fs", "gs", "hs", "tsl", "tsg", "ls", "ms", "tr", "idtr">>
At(seq, name) == (CHOOSE k \in 1 .. Len(seq) : seq[k] = name) - 1

(* The x87 registers are the MMX registers: xmm0 comes next.               *)
FLOATREG_XMM_BASE == NumMMXRegs

RFLAGS == NumCRegs + NumDRegs
EFER == RFLAGS + 15 + 2 * 8 + 11 + 2 + 4 * 8
SEG_SEL_BASE == EFER + 7 + 2 * 4 + 11
X87_TOP == SEG_SEL_BASE + 5 * NUM_SEGMENTREGS
X87 == <<"x87_top", "mxcsr", "fcw", "fsw", "ftw", "ftag", "fiseg", "fioff", "foseg", "fooff",
         "fop", "apic_base", "pci_config_address">>

NumRegs(f) ==
    CASE f = "int"   -> Len(IntRegIndex) + NumMicroIntRegs + NumImplicitIntRegs
      [] f = "float" -> NumMMXRegs + 2 * NumXMMRegs + NumMicroFpRegs + 8
      [] f = "misc"  -> X87_TOP + Len(X87)

(* Where gem5 keeps the registers that the engine captures.                *)
Index(f) ==
    CASE f = "int"   -> [r \in {<<n, 0>> : n \in Range(IntRegIndex)} |-> At(IntRegIndex, r[1])]
      [] f = "float" -> [r \in {"xmm_low", "xmm_high"} \X (0 .. NumXMMRegs - 1) |->
                           FLOATREG_XMM_BASE + 2 * r[2] + (IF r[1] = "xmm_high" THEN 1 ELSE 0)]
      [] f = "misc"  -> [r \in Captured \cap Range(MiscOrder) |->
             CASE r[1] = "cr"       -> r[2]
               [] r[1] = "dr"       -> NumCRegs + r[2]
               [] r[1] = "rflags"   -> RFLAGS
               [] r[1] = "m5"       -> RFLAGS + 1
               [] r[1] = "efer"     -> EFER
               [] r[1] = "sel"      -> SEG_SEL_BASE + At(SegmentRegIndex, r[2])
               [] r[1] = "base"     -> SEG_SEL_BASE + NUM_SEGMENTREGS + At(SegmentRegIndex, r[2])
               [] r[1] = "eff_base" -> SEG_SEL_BASE + 2 * NUM_SEGMENTREGS + At(SegmentRegIndex, r[2])
               [] r[1] = "attr"     -> SEG_SEL_BASE + 4 * NUM_SEGMENTREGS + At(SegmentRegIndex, r[2])
               [] OTHER             -> X87_TOP + At(X87, r[1])]

-----------------------------------------------------------------------------
RegInit ==
    /\ file \in Files /\ stage = "param" /\ i = 0
    /\ regs = [k \in 0 .. NumRegs(file) - 1 |-> ZeroReg]

(* The string must have as many numbers as the array.                      *)
ArrayParamIn ==
    /\ stage = "param"
    /\ stage' = IF Len(RegString(file)) = NumRegs(file) THEN "set" ELSE "fatal"
    /\ UNCHANGED <<file, i, regs>>

SetReg ==
    /\ stage = "set" /\ i < NumRegs(file)
    /\ regs' = [regs EXCEPT ![i] = RegString(file)[i + 1]] /\ i' = i + 1
    /\ UNCHANGED <<stage, file>>

RegNext == ArrayParamIn \/ SetReg

RegSpec == RegInit /\ [][RegNext]_regVars

(* A checkpoint is "gem5-compatible": every register that was captured is   *)
(* restored into the register of that name (violated by the float file).    *)
Restored == \A r \in DOMAIN Index(file) : Index(file)[r] < i => regs[Index(file)[r]] = r

(* gem5 accepts the length of every string.                                *)
Accepted == stage # "fatal"
=============================================================================
