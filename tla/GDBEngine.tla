----------------------------- MODULE GDBEngine -----------------------------
(***************************************************************************)
(* Checkpoint production: one engine inside gdb creates checkpoint         *)
(* directories 0_check.cpt, 1_check.cpt, ... under one root, and hands each *)
(* core dump to background processes (gzip, converter) that run            *)
(* concurrently with it.  The same root may be used by several runs.       *)
(*                                                                         *)
(* A file's content is abstracted to the run that wrote it: None when the  *)
(* file is absent, Partial when it has been opened for writing and not     *)
(* completed.  A pmem file holds two such stamps, <<core, mappings>>: the   *)
(* memory contents it was built from and the layout they were put in.      *)
(***************************************************************************)
EXTENDS Integers

CONSTANTS
    MaxChk,     \* model bound: the inferior has exited after MaxChk checkpoints
    MaxRuns,    \* model bound: number of runs of the engine on one root
    MaxIter,    \* max_iter of run_time and run_inst; negative means unlimited
    Options     \* option pairs a run may be given

ASSUME MaxChkAssumption == MaxChk \in Nat
ASSUME MaxRunsAssumption == MaxRuns \in Nat
ASSUME MaxIterAssumption == MaxIter \in Int
ASSUME OptionsAssumption ==
    Options \subseteq [compress : BOOLEAN, convert : BOOLEAN] /\ Options # {}

Chks    == 0 .. (MaxChk - 1)    \* checkpoint directories
Root    == -1                   \* the key chk_out_dir itself
NoProc  == -1
None    == 0
Partial == -1
Runs    == 1 .. MaxRuns
Content == Runs \cup {None}

VARIABLES
    run, opts,          \* which run this is, and its options
    pc, chk_num,        \* where the engine is, and self.chk_num
    compress_processes, \* keys of self.compress_processes (one gzip per key)
    convert_processes,  \* self.convert_processes: key -> checkpoint converted
    gzip, conv,         \* state of the background processes of each checkpoint
    input,              \* what a converter has read: <<core, mappings>>
    cpt, core, gz, mappings, pmem   \* the files of each checkpoint directory

dicts      == <<compress_processes, convert_processes>>
engine     == <<run, opts, pc, chk_num, dicts>>
background == <<gzip, conv, input>>
files      == <<cpt, core, gz, mappings, pmem>>
vars       == <<engine, background, files>>

ConvertFinished == {"done", "failed", "assert_failed"}
Resting  == {"idle", "returned", "crashed"}
InTry    == {"running", "poll", "check", "template", "gcore", "mapopen", "mapdump"}

Init ==
    /\ run = 0 /\ opts \in Options /\ pc = "idle" /\ chk_num = 0
    /\ compress_processes = {}
    /\ convert_processes = [k \in Chks \cup {Root} |-> NoProc]
    /\ gzip = [n \in Chks |-> "none"] /\ conv = [n \in Chks |-> "none"]
    /\ input = [n \in Chks |-> <<None, None>>]
    /\ cpt = [n \in Chks |-> None] /\ core = [n \in Chks |-> None]
    /\ gz = [n \in Chks |-> None] /\ mappings = [n \in Chks |-> None]
    /\ pmem = [n \in Chks |-> <<None, None>>]

-----------------------------------------------------------------------------
(* The engine.                                                             *)

GzipAlive(n)    == gzip[n] = "running"
ConvertAlive(n) == conv[n] \notin {"none"} \cup ConvertFinished

(* A new engine on the same root, once the background processes of the     *)
(* previous run are over: chk_num restarts at 0, the directories stay.     *)
StartRun ==
    /\ pc \in Resting /\ run < MaxRuns
    /\ \A n \in Chks : ~GzipAlive(n) /\ ~ConvertAlive(n)
    /\ run' = run + 1 /\ opts' \in Options
    /\ pc' = "loop" /\ chk_num' = 0
    /\ compress_processes' = {}
    /\ convert_processes' = [k \in Chks \cup {Root} |-> NoProc]
    /\ gzip' = [n \in Chks |-> "none"] /\ conv' = [n \in Chks |-> "none"]
    /\ input' = [n \in Chks |-> <<None, None>>]
    /\ UNCHANGED files

Goto(l) == pc' = l /\ UNCHANGED <<run, opts>>
Jump(l) == Goto(l) /\ UNCHANGED <<chk_num, dicts, background, files>>

(* The head of the loops of run_time, run_inst and (never ending by        *)
(* itself: MaxIter < 0) run_interact.                                      *)
LoopTest ==
    /\ pc = "loop"
    /\ Jump(IF MaxIter < 0 \/ chk_num < MaxIter THEN "running" ELSE "waitgzip")

(* gdb hands control back: the inferior was interrupted, has stepped, or    *)
(* the user typed "checkpoint".                                            *)
InferiorStops ==
    /\ pc = "running" /\ chk_num < MaxChk
    /\ Jump("poll")

(* gdb.error (the inferior has exited, a command failed) or Ctrl-C anywhere *)
(* in the body of the loop: the exception handler leaves the loop.          *)
LeaveLoop ==
    /\ pc \in InTry
    /\ Jump("waitgzip")

(* An exception the loops do not catch, or the death of gdb.               *)
Crash ==
    /\ pc \notin Resting
    /\ Jump("crashed")

(* _create_convert_process for every checkpoint of done.                   *)
StartConverters(done) ==
    conv' = [n \in Chks |-> IF n \in done /\ opts.convert THEN "started" ELSE conv[n]]

(* convert_processes without the converters that are over.                 *)
StillConverting ==
    [k \in Chks \cup {Root} |->
        IF convert_processes[k] # NoProc /\ ConvertAlive(convert_processes[k])
        THEN convert_processes[k] ELSE NoProc]

(* Mutant: a gzip that is over is not taken out of compress_processes.     *)
PollKeepsDone ==
    /\ pc = "poll"
    /\ LET done == {n \in compress_processes : ~GzipAlive(n)}
       IN  /\ StartConverters(done)
           /\ \/ /\ done = {} \/ ~opts.convert
                 /\ convert_processes' = StillConverting
              \/ \E last \in done :
                 /\ opts.convert /\ \A n \in done : n <= last
                 /\ convert_processes' = [StillConverting EXCEPT ![Root] = last]
    /\ Goto("check")
    /\ UNCHANGED <<chk_num, compress_processes, gzip, input, files>>

(* _poll_background_processes(wait=False).  A converter that follows a gzip *)
(* is entered under the PARENT of its checkpoint directory, so of those     *)
(* started in one loop only the last is remembered.                        *)
Poll ==
    /\ pc = "poll"
    /\ LET done == {n \in compress_processes : ~GzipAlive(n)}
       IN  /\ StartConverters(done)
           /\ compress_processes' = compress_processes \ done
           /\ \/ /\ done = {} \/ ~opts.convert
                 /\ convert_processes' = StillConverting
              \/ \E last \in done :
                 /\ opts.convert /\ \A n \in done : n <= last
                 /\ convert_processes' = [StillConverting EXCEPT ![Root] = last]
    /\ Goto("check")
    /\ UNCHANGED <<chk_num, gzip, input, files>>

(* _can_create_valid_checkpoint: no checkpoint while the program counter is *)
(* in [vvar] or [vsyscall]; where it is depends on the inferior.            *)
CanCreateValidCheckpoint ==
    /\ pc = "check"
    /\ \E l \in {"template", "loop"} : Jump(l)

(* _create_gem5_checkpoint up to fill_checkpoint_template: m5.cpt is        *)
(* written, over an older one if the directory exists.                     *)
FillTemplate ==
    /\ pc = "template"
    /\ cpt' = [cpt EXCEPT ![chk_num] = run]
    /\ Goto("gcore")
    /\ UNCHANGED <<chk_num, dicts, background, core, gz, mappings, pmem>>

(* Mutant: "elif" read as "if", both background processes start at once.   *)
DumpCoreStartsBoth ==
    /\ pc = "gcore"
    /\ core' = [core EXCEPT ![chk_num] = run]
    /\ gzip' = [gzip EXCEPT ![chk_num] = IF opts.compress THEN "running" ELSE @]
    /\ compress_processes' =
        compress_processes \cup (IF opts.compress THEN {chk_num} ELSE {})
    /\ conv' = [conv EXCEPT ![chk_num] = IF opts.convert THEN "started" ELSE @]
    /\ convert_processes' =
        [convert_processes EXCEPT ![chk_num] = IF opts.convert THEN chk_num ELSE @]
    /\ Goto("mapopen")
    /\ UNCHANGED <<chk_num, input, cpt, gz, mappings, pmem>>

(* _dump_core_to_file: the dump, and the background process it starts.     *)
DumpCoreToFile ==
    /\ pc = "gcore"
    /\ core' = [core EXCEPT ![chk_num] = run]
    /\ IF opts.compress
       THEN /\ gzip' = [gzip EXCEPT ![chk_num] = "running"]
            /\ compress_processes' = compress_processes \cup {chk_num}
            /\ UNCHANGED <<conv, convert_processes>>
       ELSE /\ UNCHANGED <<gzip, compress_processes>>
            /\ IF opts.convert
               THEN /\ conv' = [conv EXCEPT ![chk_num] = "started"]
                    /\ convert_processes' = [convert_processes EXCEPT ![chk_num] = chk_num]
               ELSE UNCHANGED <<conv, convert_processes>>
    /\ Goto("mapopen")
    /\ UNCHANGED <<chk_num, input, cpt, gz, mappings, pmem>>

(* Mutant: the failure of gcore goes unnoticed.                            *)
GcoreFailsSilently ==
    /\ pc = "gcore"
    /\ core' = [core EXCEPT ![chk_num] = None]
    /\ Goto("mapopen")
    /\ UNCHANGED <<chk_num, dicts, background, cpt, gz, mappings, pmem>>

(* A gcore that fails after it has opened its output removes the file.     *)
GcoreFails ==
    /\ pc = "gcore"
    /\ core' = [core EXCEPT ![chk_num] = None]
    /\ Goto("waitgzip")
    /\ UNCHANGED <<chk_num, dicts, background, cpt, gz, mappings, pmem>>

(* _dump_mappings_to_file: open('w') truncates, json.dump fills; then      *)
(* chk_num += 1.                                                           *)
OpenMappings ==
    /\ pc = "mapopen"
    /\ mappings' = [mappings EXCEPT ![chk_num] = Partial]
    /\ Goto("mapdump")
    /\ UNCHANGED <<chk_num, dicts, background, cpt, core, gz, pmem>>

DumpMappings ==
    /\ pc = "mapdump"
    /\ mappings' = [mappings EXCEPT ![chk_num] = run]
    /\ chk_num' = chk_num + 1
    /\ Goto("loop")
    /\ UNCHANGED <<dicts, background, cpt, core, gz, pmem>>

(* Mutant: the final wait joins the gzips and starts no converter.         *)
WaitGzipOnly ==
    /\ pc = "waitgzip"
    /\ \E n \in compress_processes :
        ~GzipAlive(n) /\ compress_processes' = compress_processes \ {n}
    /\ UNCHANGED <<run, opts, pc, chk_num, convert_processes, background, files>>

(* _poll_background_processes(wait=True): the gzips in the order of their   *)
(* creation, each replaced by a converter, then the converters.            *)
WaitGzip ==
    /\ pc = "waitgzip"
    /\ \E n \in compress_processes :
        /\ \A m \in compress_processes : n <= m
        /\ ~GzipAlive(n)
        /\ compress_processes' = compress_processes \ {n}
        /\ StartConverters({n})
        /\ convert_processes' =
            [convert_processes EXCEPT ![Root] = IF opts.convert THEN n ELSE @]
    /\ UNCHANGED <<run, opts, pc, chk_num, gzip, input, files>>

GzipsJoined ==
    /\ pc = "waitgzip" /\ compress_processes = {}
    /\ Jump("waitconvert")

(* Mutants: the final wait does not join; it never forgets what it joined. *)
WaitConvertNoJoin ==
    /\ pc = "waitconvert"
    /\ \E k \in Chks \cup {Root} :
        /\ convert_processes[k] # NoProc
        /\ convert_processes' = [convert_processes EXCEPT ![k] = NoProc]
    /\ UNCHANGED <<run, opts, pc, chk_num, compress_processes, background, files>>

WaitConvertNoPop ==
    /\ pc = "waitconvert"
    /\ \E k \in Chks \cup {Root} :
        convert_processes[k] # NoProc /\ ~ConvertAlive(convert_processes[k])
    /\ UNCHANGED vars

WaitConvert ==
    /\ pc = "waitconvert"
    /\ \E k \in Chks \cup {Root} :
        /\ convert_processes[k] # NoProc /\ ~ConvertAlive(convert_processes[k])
        /\ convert_processes' = [convert_processes EXCEPT ![k] = NoProc]
    /\ UNCHANGED <<run, opts, pc, chk_num, compress_processes, background, files>>

Return ==
    /\ pc = "waitconvert" /\ \A k \in Chks \cup {Root} : convert_processes[k] = NoProc
    /\ Jump("returned")

-----------------------------------------------------------------------------
(* The background processes of checkpoint n.                               *)

(* gzip -f replaces gdb.core by gdb.core.gz; when it fails it removes its  *)
(* output and keeps its input.                                             *)
Gzip(n) ==
    /\ GzipAlive(n)
    /\ gzip' = [gzip EXCEPT ![n] = "done"]
    /\ \/ /\ gz' = [gz EXCEPT ![n] = core[n]]
          /\ core' = [core EXCEPT ![n] = None]
       \/ /\ gz' = [gz EXCEPT ![n] = None]
          /\ core' = core
    /\ UNCHANGED <<engine, conv, input, cpt, mappings, pmem>>

(* The ELF file get_core_file_handle opens.                                *)
CoreHandle(n) == IF core[n] # None THEN core[n] ELSE gz[n]

(* Mutant: a compressed core is not accepted.                              *)
IsValidUncompressed(n) == mappings[n] # None /\ core[n] # None

(* GDBCheckpointConverter.__init__: assert is_valid_checkpoint() ...       *)
IsValidCheckpoint(n) == mappings[n] # None /\ CoreHandle(n) # None

AssertValid(n) ==
    /\ conv[n] = "started"
    /\ conv' = [conv EXCEPT ![n] = IF IsValidCheckpoint(n) THEN "valid"
                                   ELSE "assert_failed"]
    /\ UNCHANGED <<engine, gzip, input, files>>

(* ... then get_mappings(): json.load raises on a file being written.      *)
GetMappings(n) ==
    /\ conv[n] = "valid"
    /\ \/ /\ mappings[n] = Partial
          /\ conv' = [conv EXCEPT ![n] = "failed"]
          /\ input' = input
       \/ /\ mappings[n] # Partial
          /\ conv' = [conv EXCEPT ![n] = "loaded"]
          /\ input' = [input EXCEPT ![n] = <<None, mappings[n]>>]
    /\ UNCHANGED <<engine, gzip, files>>

(* create_pmem_file: the output is truncated and the core opened, then the *)
(* image is written.                                                       *)
OpenPmem(n) ==
    /\ conv[n] = "loaded"
    /\ pmem' = [pmem EXCEPT ![n] = <<Partial, Partial>>]
    /\ input' = [input EXCEPT ![n] = <<CoreHandle(n), input[n][2]>>]
    /\ conv' = [conv EXCEPT ![n] = "writing"]
    /\ UNCHANGED <<engine, gzip, cpt, core, gz, mappings>>

WritePmem(n) ==
    /\ conv[n] = "writing"
    /\ pmem' = [pmem EXCEPT ![n] = input[n]]
    /\ conv' = [conv EXCEPT ![n] = "done"]
    /\ UNCHANGED <<engine, gzip, input, cpt, core, gz, mappings>>

(* A converter stops half-way: an assertion on a segment, a full disk, the  *)
(* Ctrl-C that also reaches the children of gdb.                           *)
ConvertDies(n) ==
    /\ ConvertAlive(n)
    /\ conv' = [conv EXCEPT ![n] = "failed"]
    /\ UNCHANGED <<engine, gzip, input, files>>

-----------------------------------------------------------------------------
Engine ==
    \/ LoopTest \/ InferiorStops \/ Poll \/ CanCreateValidCheckpoint
    \/ FillTemplate \/ DumpCoreToFile \/ OpenMappings \/ DumpMappings
    \/ WaitGzip \/ GzipsJoined \/ WaitConvert \/ Return

Background(n) ==
    \/ Gzip(n) \/ AssertValid(n) \/ GetMappings(n)
    \/ OpenPmem(n) \/ WritePmem(n) \/ ConvertDies(n)

Next ==
    \/ StartRun \/ Engine \/ LeaveLoop \/ GcoreFails \/ Crash
    \/ \E n \in Chks : Background(n)

Spec == Init /\ [][Next]_vars

(* The operating system runs every live background process, and the engine *)
(* is never suspended: the inferior either stops or has exited.            *)
Fairness ==
    /\ WF_vars(Engine \/ LeaveLoop)
    /\ \A n \in Chks : WF_vars(Background(n))

FairSpec == Spec /\ Fairness

-----------------------------------------------------------------------------
(* Every variable stays in its domain.                                     *)
TypeOK ==
    /\ run \in 0 .. MaxRuns /\ opts \in Options
    /\ pc \in Resting \cup InTry \cup {"loop", "waitgzip", "waitconvert"}
    /\ chk_num \in 0 .. MaxChk
    /\ compress_processes \subseteq Chks
    /\ convert_processes \in [Chks \cup {Root} -> Chks \cup {NoProc}]
    /\ gzip \in [Chks -> {"none", "running", "done"}]
    /\ conv \in [Chks -> {"none", "started", "valid", "loaded", "writing"}
                         \cup ConvertFinished]
    /\ input \in [Chks -> Content \X Content]
    /\ cpt \in [Chks -> Content] /\ core \in [Chks -> Content]
    /\ gz \in [Chks -> Content] /\ mappings \in [Chks -> Content \cup {Partial}]
    /\ pmem \in [Chks -> (Content \X Content) \cup {<<Partial, Partial>>}]

(* A checkpoint the engine has counted is whole: its m5.cpt, its layout and *)
(* the dump a converter would open all come from the current run, whatever *)
(* gzip is doing to the dump and whatever an earlier run left behind.      *)
CreatedWhole ==
    \A n \in Chks : n < chk_num =>
        cpt[n] = run /\ mappings[n] = run /\ CoreHandle(n) = run

(* gzip and the converter of one checkpoint never run at the same time, so  *)
(* a converter does not lose its input while it reads it.                  *)
NeverCompressedWhileConverted ==
    \A n \in Chks : ~(GzipAlive(n) /\ ConvertAlive(n))

(* With --compress the converter of a counted checkpoint starts after      *)
(* gzip was polled, hence after mappings.json was written: its assertion    *)
(* never fails, and its image combines this run's dump and layout.         *)
CompressOrdersConversion ==
    opts.compress => \A n \in Chks : n < chk_num =>
        /\ conv[n] # "assert_failed"
        /\ conv[n] = "done" => pmem[n] = <<run, run>>

(* When run_time, run_inst or run_interact returns, every gzip is over, and *)
(* so is every converter unless gzips were followed by converters: what the *)
(* simulator, to which any image is complete, then finds half-written of a  *)
(* counted checkpoint was left by a converter that died.                   *)
JoinedAtReturn ==
    pc = "returned" =>
        /\ \A n \in Chks : ~GzipAlive(n)
        /\ opts.compress \/ \A n \in Chks :
            /\ ~ConvertAlive(n)
            /\ opts.convert /\ n < chk_num /\ pmem[n] = <<Partial, Partial>> =>
                conv[n] \in {"failed", "assert_failed"}

(* A checkpoint is converted at most once in a run: when its converter is   *)
(* over, or has failed, no other is started and nothing touches the image    *)
(* until the next run, whichever of poll, wait and gdb's own steps follow.  *)
ConvertedOnce ==
    [][run' = run => \A n \in Chks :
        conv[n] \in ConvertFinished => conv'[n] = conv[n] /\ pmem'[n] = pmem[n]]_vars

(* A core handed to gzip is converted in the end when conversion was asked  *)
(* for, even if its checkpoint was abandoned half-way: the converter runs   *)
(* and finishes unless gdb itself dies.                                    *)
GzippedIsConverted ==
    \A n \in Chks :
        (n \in compress_processes /\ opts.convert)
            ~> (conv[n] \in ConvertFinished \/ pc = "crashed")

(* The final wait ends: no set of background processes keeps it for ever.  *)
FinalWaitEnds == (pc = "waitgzip") ~> (pc \in {"returned", "crashed"})

-----------------------------------------------------------------------------
(* What the sources say of the engine, and the code does not ensure.       *)

(* The assertion of GDBCheckpointConverter.__init__ holds.                 *)
ConverterAssertion == \A n \in Chks : conv[n] # "assert_failed"

(* The image made from a counted checkpoint is made from that checkpoint:  *)
(* a directory that already exists is overwritten.  Without --compress it   *)
(* can be made with the mappings of an earlier run.                        *)
ImageOfThisRun ==
    \A n \in Chks : n < chk_num /\ conv[n] = "done" => pmem[n] = <<run, run>>

(* wait=True stalls until all processes are complete.  With --compress all  *)
(* converters have one key, and only the last is joined.                   *)
AllJoinedAtReturn ==
    pc = "returned" => \A n \in Chks : ~GzipAlive(n) /\ ~ConvertAlive(n)
=============================================================================
