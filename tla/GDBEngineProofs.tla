-------------------------- MODULE GDBEngineProofs --------------------------
(***************************************************************************)
(* Proofs about GDBEngine, for every number of checkpoints and runs, every  *)
(* max_iter and every set of options.                                      *)
(***************************************************************************)
EXTENDS GDBEngine, TLAPS

AfterLoop == {"waitgzip", "waitconvert", "returned", "crashed"}

(* How far the checkpoint under construction has come.                     *)
Progress ==
    /\ run = 0 => pc = "idle" /\ chk_num = 0
    /\ pc \in InTry \ {"running"} => chk_num \in Chks
    /\ pc \in {"gcore", "mapopen", "mapdump"} => cpt[chk_num] = run
    /\ pc \in {"mapopen", "mapdump"} => CoreHandle(chk_num) = run

(* The checkpoints a background process may exist for.                     *)
Launched(n) ==
    \/ n < chk_num
    \/ n = chk_num /\ pc \in {"mapopen", "mapdump"} \cup AfterLoop

(* What is known of the background processes and of their bookkeeping.     *)
Processes ==
    \A n \in Chks :
        /\ gzip[n] # "none" \/ conv[n] # "none" => Launched(n)
        /\ n \in compress_processes => gzip[n] # "none"
        /\ GzipAlive(n) => n \in compress_processes /\ core[n] = run /\ conv[n] = "none"

Joining ==
    /\ pc \in {"waitconvert", "returned"} => compress_processes = {}
    /\ pc = "returned" => \A k \in Chks \cup {Root} : convert_processes[k] = NoProc
    /\ ~opts.compress =>
        /\ compress_processes = {}
        /\ \A n \in Chks : ConvertAlive(n) => convert_processes[n] = n

(* With --compress no converter exists for the checkpoint being created,   *)
(* so each one works on a counted checkpoint.                              *)
Converting ==
    opts.compress => \A n \in Chks :
        /\ conv[n] # "none" => n < chk_num \/ pc \in AfterLoop
        /\ n < chk_num =>
            /\ conv[n] # "assert_failed"
            /\ conv[n] \in {"loaded", "writing"} => input[n][2] = run
            /\ conv[n] = "writing" => input[n][1] = run
            /\ conv[n] = "done" => pmem[n] = <<run, run>>

IInv == Progress /\ CreatedWhole /\ Processes /\ Joining /\ Converting

USE MaxChkAssumption, MaxRunsAssumption, MaxIterAssumption, OptionsAssumption

(* Every variable of the engine, of its background processes and of the    *)
(* checkpoint directories stays in its domain: the type of Spec is          *)
(* inductive together with chk_num staying below the last directory while   *)
(* a checkpoint is being created.                                          *)
LEMMA TypeStep ==
    ASSUME TypeOK, Progress, [Next]_vars
    PROVE  TypeOK'
  <1> USE DEF TypeOK, Chks, Root, NoProc, None, Partial, Runs, Content,
              Resting, InTry, ConvertFinished, engine, dicts, background, files
  <1>1. CASE StartRun  BY <1>1 DEF StartRun
  <1>2. CASE LoopTest  BY <1>2 DEF LoopTest, Jump, Goto
  <1>3. CASE InferiorStops  BY <1>3 DEF InferiorStops, Jump, Goto
  <1>4. CASE Poll
    <2>1. StillConverting \in [Chks \cup {Root} -> Chks \cup {NoProc}]
      BY DEF StillConverting
    <2>2. convert_processes' \in [Chks \cup {Root} -> Chks \cup {NoProc}]
      BY <1>4, <2>1 DEF Poll
    <2>3. conv' \in [Chks -> {"none", "started", "valid", "loaded", "writing"}
                              \cup ConvertFinished]
      BY <1>4 DEF Poll, StartConverters
    <2>4. QED  BY <1>4, <2>2, <2>3, Zenon DEF Poll, Goto
  <1>5. CASE CanCreateValidCheckpoint
    BY <1>5 DEF CanCreateValidCheckpoint, Jump, Goto
  <1>6. CASE FillTemplate  BY <1>6, SMTT(30) DEF FillTemplate, Goto, Progress
  <1>7. CASE DumpCoreToFile
    <2>1. chk_num \in Chks  BY <1>7 DEF DumpCoreToFile, Progress
    <2>2. core' \in [Chks -> Content]  BY <1>7, <2>1 DEF DumpCoreToFile
    <2>3. compress_processes' \subseteq Chks
      <3>1. \/ compress_processes' = compress_processes \cup {chk_num}
            \/ compress_processes' = compress_processes
        BY <1>7 DEF DumpCoreToFile
      <3>2. compress_processes \subseteq Chks  OBVIOUS
      <3> HIDE DEF Chks, TypeOK
      <3>3. QED  BY ONLY <2>1, <3>1, <3>2
    <2>4. gzip' \in [Chks -> {"none", "running", "done"}]
      BY <1>7, <2>1 DEF DumpCoreToFile
    <2>5. conv' \in [Chks -> {"none", "started", "valid", "loaded", "writing"}
                              \cup ConvertFinished]
      BY <1>7, <2>1 DEF DumpCoreToFile
    <2>6. convert_processes' \in [Chks \cup {Root} -> Chks \cup {NoProc}]
      BY <1>7, <2>1 DEF DumpCoreToFile
    <2>7. QED  BY <1>7, <2>2, <2>3, <2>4, <2>5, <2>6 DEF DumpCoreToFile, Goto
  <1>8. CASE OpenMappings  BY <1>8, Zenon DEF OpenMappings, Goto
  <1>9. CASE DumpMappings  BY <1>9, SMTT(30) DEF DumpMappings, Goto, Progress
  <1>10. CASE WaitGzip  BY <1>10, SMTT(30) DEF WaitGzip, StartConverters
  <1>11. CASE GzipsJoined  BY <1>11 DEF GzipsJoined, Jump, Goto
  <1>12. CASE WaitConvert  BY <1>12 DEF WaitConvert
  <1>13. CASE Return  BY <1>13 DEF Return, Jump, Goto
  <1>14. CASE LeaveLoop  BY <1>14 DEF LeaveLoop, Jump, Goto
  <1>15. CASE GcoreFails  BY <1>15, Zenon DEF GcoreFails, Goto
  <1>16. CASE Crash  BY <1>16 DEF Crash, Jump, Goto
  <1>17. ASSUME NEW n \in Chks, Background(n)
         PROVE  TypeOK'
    <2>1. CASE Gzip(n)  BY <1>17, <2>1, ZenonT(30) DEF Gzip
    <2>2. CASE AssertValid(n)  BY <1>17, <2>2 DEF AssertValid
    <2>3. CASE GetMappings(n)
      <3>1. input' \in [Chks -> Content \X Content]
        <4>1. CASE mappings[n] = Partial  BY <2>3, <4>1 DEF GetMappings
        <4>2. CASE mappings[n] # Partial
          <5>1. <<None, mappings[n]>> \in Content \X Content  BY <1>17, <4>2
          <5>2. input' = [input EXCEPT ![n] = <<None, mappings[n]>>]
            BY <2>3, <4>2 DEF GetMappings
          <5> HIDE DEF Content, Chks
          <5>3. QED  BY <5>1, <5>2
        <4>3. QED  BY <4>1, <4>2
      <3>2. conv' \in [Chks -> {"none", "started", "valid", "loaded", "writing"}
                                \cup ConvertFinished]
        BY <1>17, <2>3, Zenon DEF GetMappings
      <3>3. QED  BY <1>17, <2>3, <3>1, <3>2 DEF GetMappings
    <2>4. CASE OpenPmem(n)
      <3>1. CoreHandle(n) \in Content  BY <1>17 DEF CoreHandle
      <3>2. input[n][2] \in Content  BY <1>17
      <3>3. input' \in [Chks -> Content \X Content]
        BY <1>17, <2>4, <3>1, <3>2 DEF OpenPmem
      <3>4. pmem' \in [Chks -> (Content \X Content) \cup {<<Partial, Partial>>}]
        BY <1>17, <2>4 DEF OpenPmem
      <3>5. QED  BY <1>17, <2>4, <3>3, <3>4 DEF OpenPmem
    <2>5. CASE WritePmem(n)  BY <1>17, <2>5 DEF WritePmem
    <2>6. CASE ConvertDies(n)  BY <1>17, <2>6 DEF ConvertDies
    <2>7. QED  BY <1>17, <2>1, <2>2, <2>3, <2>4, <2>5, <2>6, Zenon DEF Background
  <1>18. CASE UNCHANGED vars  BY <1>18 DEF vars
  <1>19. QED
    BY <1>1, <1>2, <1>3, <1>4, <1>5, <1>6, <1>7, <1>8, <1>9, <1>10, <1>11,
       <1>12, <1>13, <1>14, <1>15, <1>16, <1>17, <1>18, Zenon DEF Next, Engine

(* The checkpoint under construction keeps what has been made of it: no    *)
(* background process touches its m5.cpt, and gzip keeps its dump readable. *)
LEMMA ProgressStep ==
    ASSUME TypeOK, IInv, [Next]_vars
    PROVE  Progress'
  <1> USE DEF TypeOK, Chks, Root, NoProc, None, Partial, Runs, Content,
              Resting, InTry, ConvertFinished, AfterLoop,
              engine, dicts, background, files, GzipAlive, ConvertAlive,
              IInv, Progress, CoreHandle, Processes, Launched
  <1>1. CASE StartRun  BY <1>1 DEF StartRun
  <1>2. CASE LoopTest  BY <1>2 DEF LoopTest, Jump, Goto
  <1>3. CASE InferiorStops  BY <1>3 DEF InferiorStops, Jump, Goto
  <1>4. CASE Poll  BY <1>4 DEF Poll, Goto, StartConverters, StillConverting
  <1>5. CASE CanCreateValidCheckpoint  BY <1>5 DEF CanCreateValidCheckpoint, Jump, Goto
  <1>6. CASE FillTemplate  BY <1>6 DEF FillTemplate, Goto
  <1>7. CASE DumpCoreToFile  BY <1>7 DEF DumpCoreToFile, Goto
  <1>8. CASE OpenMappings  BY <1>8 DEF OpenMappings, Goto
  <1>9. CASE DumpMappings  BY <1>9 DEF DumpMappings, Goto
  <1>10. CASE WaitGzip  BY <1>10 DEF WaitGzip, StartConverters
  <1>11. CASE GzipsJoined  BY <1>11 DEF GzipsJoined, Jump, Goto
  <1>12. CASE WaitConvert  BY <1>12 DEF WaitConvert
  <1>13. CASE Return  BY <1>13 DEF Return, Jump, Goto
  <1>14. CASE LeaveLoop  BY <1>14 DEF LeaveLoop, Jump, Goto
  <1>15. CASE GcoreFails  BY <1>15 DEF GcoreFails, Goto
  <1>16. CASE Crash  BY <1>16 DEF Crash, Jump, Goto
  <1>17. ASSUME NEW m \in Chks, Background(m)
         PROVE  Progress'
    <2>1. CASE Gzip(m)  BY <1>17, <2>1 DEF Gzip
    <2>2. CASE AssertValid(m)  BY <1>17, <2>2 DEF AssertValid
    <2>3. CASE GetMappings(m)  BY <1>17, <2>3 DEF GetMappings
    <2>4. CASE OpenPmem(m)  BY <1>17, <2>4 DEF OpenPmem
    <2>5. CASE WritePmem(m)  BY <1>17, <2>5 DEF WritePmem
    <2>6. CASE ConvertDies(m)  BY <1>17, <2>6 DEF ConvertDies
    <2>7. QED  BY <1>17, <2>1, <2>2, <2>3, <2>4, <2>5, <2>6 DEF Background
  <1>18. CASE UNCHANGED vars  BY <1>18 DEF vars
  <1>19. QED
    BY <1>1, <1>2, <1>3, <1>4, <1>5, <1>6, <1>7, <1>8, <1>9, <1>10, <1>11,
       <1>12, <1>13, <1>14, <1>15, <1>16, <1>17, <1>18 DEF Next, Engine

(* Counted checkpoints stay whole (GDBEngine._create_gem5_checkpoint only    *)
(* counts a finished one, gzip keeps the dump readable).                   *)
LEMMA WholeStep ==
    ASSUME TypeOK, IInv, [Next]_vars
    PROVE  CreatedWhole'
  <1> USE DEF TypeOK, Chks, Root, NoProc, None, Partial, Runs, Content,
              Resting, InTry, ConvertFinished, AfterLoop,
              engine, dicts, background, files, GzipAlive, ConvertAlive,
              IInv, CreatedWhole, Progress, CoreHandle, Processes, Launched
  <1>1. CASE StartRun  BY <1>1 DEF StartRun
  <1>2. CASE LoopTest  BY <1>2 DEF LoopTest, Jump, Goto
  <1>3. CASE InferiorStops  BY <1>3 DEF InferiorStops, Jump, Goto
  <1>4. CASE Poll  BY <1>4 DEF Poll, Goto, StartConverters, StillConverting
  <1>5. CASE CanCreateValidCheckpoint  BY <1>5 DEF CanCreateValidCheckpoint, Jump, Goto
  <1>6. CASE FillTemplate  BY <1>6 DEF FillTemplate, Goto
  <1>7. CASE DumpCoreToFile  BY <1>7 DEF DumpCoreToFile, Goto
  <1>8. CASE OpenMappings  BY <1>8 DEF OpenMappings, Goto
  <1>9. CASE DumpMappings  BY <1>9 DEF DumpMappings, Goto
  <1>10. CASE WaitGzip  BY <1>10 DEF WaitGzip, StartConverters
  <1>11. CASE GzipsJoined  BY <1>11 DEF GzipsJoined, Jump, Goto
  <1>12. CASE WaitConvert  BY <1>12 DEF WaitConvert
  <1>13. CASE Return  BY <1>13 DEF Return, Jump, Goto
  <1>14. CASE LeaveLoop  BY <1>14 DEF LeaveLoop, Jump, Goto
  <1>15. CASE GcoreFails  BY <1>15 DEF GcoreFails, Goto
  <1>16. CASE Crash  BY <1>16 DEF Crash, Jump, Goto
  <1>17. ASSUME NEW m \in Chks, Background(m)
         PROVE  CreatedWhole'
    <2>1. CASE Gzip(m)  BY <1>17, <2>1 DEF Gzip
    <2>2. CASE AssertValid(m)  BY <1>17, <2>2 DEF AssertValid
    <2>3. CASE GetMappings(m)  BY <1>17, <2>3 DEF GetMappings
    <2>4. CASE OpenPmem(m)  BY <1>17, <2>4 DEF OpenPmem
    <2>5. CASE WritePmem(m)  BY <1>17, <2>5 DEF WritePmem
    <2>6. CASE ConvertDies(m)  BY <1>17, <2>6 DEF ConvertDies
    <2>7. QED  BY <1>17, <2>1, <2>2, <2>3, <2>4, <2>5, <2>6 DEF Background
  <1>18. CASE UNCHANGED vars  BY <1>18 DEF vars
  <1>19. QED
    BY <1>1, <1>2, <1>3, <1>4, <1>5, <1>6, <1>7, <1>8, <1>9, <1>10, <1>11,
       <1>12, <1>13, <1>14, <1>15, <1>16, <1>17, <1>18 DEF Next, Engine

(* Background processes exist only for launched checkpoints, and gzip is    *)
(* over before the converter of the same checkpoint starts.                *)
LEMMA ProcessesStep ==
    ASSUME TypeOK, IInv, [Next]_vars
    PROVE  Processes'
  <1> USE DEF TypeOK, Chks, Root, NoProc, None, Partial, Runs, Content,
              Resting, InTry, ConvertFinished, AfterLoop,
              engine, dicts, background, files, GzipAlive, ConvertAlive,
              IInv, Processes, Launched, Progress
  <1>1. CASE StartRun  BY <1>1 DEF StartRun
  <1>2. CASE LoopTest  BY <1>2 DEF LoopTest, Jump, Goto
  <1>3. CASE InferiorStops  BY <1>3 DEF InferiorStops, Jump, Goto
  <1>4. CASE Poll  BY <1>4 DEF Poll, Goto, StartConverters, StillConverting
  <1>5. CASE CanCreateValidCheckpoint  BY <1>5 DEF CanCreateValidCheckpoint, Jump, Goto
  <1>6. CASE FillTemplate  BY <1>6 DEF FillTemplate, Goto
  <1>7. CASE DumpCoreToFile  BY <1>7 DEF DumpCoreToFile, Goto
  <1>8. CASE OpenMappings  BY <1>8 DEF OpenMappings, Goto
  <1>9. CASE DumpMappings  BY <1>9 DEF DumpMappings, Goto
  <1>10. CASE WaitGzip  BY <1>10 DEF WaitGzip, StartConverters
  <1>11. CASE GzipsJoined  BY <1>11 DEF GzipsJoined, Jump, Goto
  <1>12. CASE WaitConvert  BY <1>12 DEF WaitConvert
  <1>13. CASE Return  BY <1>13 DEF Return, Jump, Goto
  <1>14. CASE LeaveLoop  BY <1>14 DEF LeaveLoop, Jump, Goto
  <1>15. CASE GcoreFails  BY <1>15 DEF GcoreFails, Goto
  <1>16. CASE Crash  BY <1>16 DEF Crash, Jump, Goto
  <1>17. ASSUME NEW m \in Chks, Background(m)
         PROVE  Processes'
    <2>1. CASE Gzip(m)  BY <1>17, <2>1 DEF Gzip
    <2>2. CASE AssertValid(m)  BY <1>17, <2>2 DEF AssertValid
    <2>3. CASE GetMappings(m)  BY <1>17, <2>3 DEF GetMappings
    <2>4. CASE OpenPmem(m)  BY <1>17, <2>4 DEF OpenPmem
    <2>5. CASE WritePmem(m)  BY <1>17, <2>5 DEF WritePmem
    <2>6. CASE ConvertDies(m)  BY <1>17, <2>6 DEF ConvertDies
    <2>7. QED  BY <1>17, <2>1, <2>2, <2>3, <2>4, <2>5, <2>6 DEF Background
  <1>18. CASE UNCHANGED vars  BY <1>18 DEF vars
  <1>19. QED
    BY <1>1, <1>2, <1>3, <1>4, <1>5, <1>6, <1>7, <1>8, <1>9, <1>10, <1>11,
       <1>12, <1>13, <1>14, <1>15, <1>16, <1>17, <1>18 DEF Next, Engine

(* The dictionaries of _poll_background_processes know the processes they   *)
(* have to know at each point of the final wait.                           *)
LEMMA JoiningStep ==
    ASSUME TypeOK, IInv, [Next]_vars
    PROVE  Joining'
  <1> USE DEF TypeOK, Chks, Root, NoProc, None, Partial, Runs, Content,
              Resting, InTry, ConvertFinished, AfterLoop,
              engine, dicts, background, files, GzipAlive, ConvertAlive,
              IInv, Joining, Progress, Processes, Launched
  <1>1. CASE StartRun  BY <1>1 DEF StartRun
  <1>2. CASE LoopTest  BY <1>2 DEF LoopTest, Jump, Goto
  <1>3. CASE InferiorStops  BY <1>3 DEF InferiorStops, Jump, Goto
  <1>4. CASE Poll  BY <1>4, Zenon DEF Poll, Goto, StartConverters, StillConverting
  <1>5. CASE CanCreateValidCheckpoint  BY <1>5 DEF CanCreateValidCheckpoint, Jump, Goto
  <1>6. CASE FillTemplate  BY <1>6 DEF FillTemplate, Goto
  <1>7. CASE DumpCoreToFile
    <2>1. pc' = "mapopen" /\ opts' = opts  BY <1>7 DEF DumpCoreToFile, Goto
    <2>2. CASE opts.compress  BY <2>1, <2>2
    <2>3. CASE ~opts.compress
      <3>1. compress_processes' = {}  BY <1>7, <2>3, Zenon DEF DumpCoreToFile
      <3>2. ASSUME NEW n \in Chks, ConvertAlive(n)'
            PROVE  convert_processes'[n] = n
        <4>1. CASE opts.convert
          <5>1. /\ conv' = [conv EXCEPT ![chk_num] = "started"]
                /\ convert_processes' = [convert_processes EXCEPT ![chk_num] = chk_num]
            BY <1>7, <2>3, <4>1, Zenon DEF DumpCoreToFile
          <5>2. CASE n = chk_num  BY ONLY <5>1, <5>2, TypeOK DEF TypeOK
          <5>3. CASE n # chk_num
            <6>1. ConvertAlive(n) /\ convert_processes'[n] = convert_processes[n]
              BY ONLY <5>1, <5>3, <3>2, TypeOK, n \in Chks DEF TypeOK, ConvertAlive
            <6>2. convert_processes[n] = n  BY <1>7, <2>3, <6>1 DEF DumpCoreToFile
            <6>3. QED  BY ONLY <6>1, <6>2
          <5>4. QED  BY ONLY <5>2, <5>3
        <4>2. CASE ~opts.convert  BY <1>7, <2>3, <3>2, <4>2 DEF DumpCoreToFile
        <4>3. QED  BY <4>1, <4>2
      <3>3. QED  BY <2>1, <2>3, <3>1, <3>2
    <2>4. QED  BY <2>2, <2>3
  <1>8. CASE OpenMappings  BY <1>8 DEF OpenMappings, Goto
  <1>9. CASE DumpMappings  BY <1>9 DEF DumpMappings, Goto
  <1>10. CASE WaitGzip  BY <1>10 DEF WaitGzip, StartConverters
  <1>11. CASE GzipsJoined  BY <1>11 DEF GzipsJoined, Jump, Goto
  <1>12. CASE WaitConvert  BY <1>12 DEF WaitConvert
  <1>13. CASE Return  BY <1>13 DEF Return, Jump, Goto
  <1>14. CASE LeaveLoop  BY <1>14 DEF LeaveLoop, Jump, Goto
  <1>15. CASE GcoreFails  BY <1>15 DEF GcoreFails, Goto
  <1>16. CASE Crash  BY <1>16 DEF Crash, Jump, Goto
  <1>17. ASSUME NEW m \in Chks, Background(m)
         PROVE  Joining'
    <2>1. CASE Gzip(m)  BY <1>17, <2>1 DEF Gzip
    <2>2. CASE AssertValid(m)  BY <1>17, <2>2 DEF AssertValid
    <2>3. CASE GetMappings(m)  BY <1>17, <2>3, Zenon DEF GetMappings
    <2>4. CASE OpenPmem(m)  BY <1>17, <2>4 DEF OpenPmem
    <2>5. CASE WritePmem(m)  BY <1>17, <2>5 DEF WritePmem
    <2>6. CASE ConvertDies(m)  BY <1>17, <2>6 DEF ConvertDies
    <2>7. QED  BY <1>17, <2>1, <2>2, <2>3, <2>4, <2>5, <2>6 DEF Background
  <1>18. CASE UNCHANGED vars  BY <1>18 DEF vars
  <1>19. QED
    BY <1>1, <1>2, <1>3, <1>4, <1>5, <1>6, <1>7, <1>8, <1>9, <1>10, <1>11,
       <1>12, <1>13, <1>14, <1>15, <1>16, <1>17, <1>18 DEF Next, Engine

(* The final wait changes the state of a converter only by starting it.    *)
LEMMA WaitGzipStarts ==
    ASSUME WaitGzip, NEW n \in Chks
    PROVE  conv'[n] = conv[n] \/ conv'[n] = "started"
  <1>1. PICK m : StartConverters({m})  BY Zenon DEF WaitGzip
  <1>2. QED  BY <1>1, Zenon DEF StartConverters

(* With --compress a converter works on a counted checkpoint's files.       *)
LEMMA ConvertingStep ==
    ASSUME TypeOK, IInv, [Next]_vars
    PROVE  Converting'
  <1> USE DEF TypeOK, Chks, Root, NoProc, None, Partial, Runs, Content,
              Resting, InTry, ConvertFinished, AfterLoop,
              engine, dicts, background, files, GzipAlive, ConvertAlive,
              IInv, Converting, Progress, Processes, Launched, CreatedWhole, CoreHandle,
              IsValidCheckpoint
  <1>1. CASE StartRun  BY <1>1 DEF StartRun
  <1>2. CASE LoopTest  BY <1>2 DEF LoopTest, Jump, Goto
  <1>3. CASE InferiorStops  BY <1>3 DEF InferiorStops, Jump, Goto
  <1>4. CASE Poll  BY <1>4 DEF Poll, Goto, StartConverters, StillConverting
  <1>5. CASE CanCreateValidCheckpoint  BY <1>5 DEF CanCreateValidCheckpoint, Jump, Goto
  <1>6. CASE FillTemplate  BY <1>6 DEF FillTemplate, Goto
  <1>7. CASE DumpCoreToFile  BY <1>7 DEF DumpCoreToFile, Goto
  <1>8. CASE OpenMappings  BY <1>8 DEF OpenMappings, Goto
  <1>9. CASE DumpMappings  BY <1>9 DEF DumpMappings, Goto
  <1>10. CASE WaitGzip
    <2>1. pc = "waitgzip" /\ UNCHANGED <<run, opts, pc, chk_num, input, pmem>>
      BY <1>10, Zenon DEF WaitGzip
    <2>2. \A n \in Chks : conv'[n] = conv[n] \/ conv'[n] = "started"
      BY <1>10, WaitGzipStarts, Zenon
    <2> HIDE DEF TypeOK, Progress, Processes, Launched, CreatedWhole
    <2>3. QED  BY <2>1, <2>2
  <1>11. CASE GzipsJoined  BY <1>11 DEF GzipsJoined, Jump, Goto
  <1>12. CASE WaitConvert  BY <1>12 DEF WaitConvert
  <1>13. CASE Return  BY <1>13 DEF Return, Jump, Goto
  <1>14. CASE LeaveLoop  BY <1>14 DEF LeaveLoop, Jump, Goto
  <1>15. CASE GcoreFails  BY <1>15 DEF GcoreFails, Goto
  <1>16. CASE Crash  BY <1>16 DEF Crash, Jump, Goto
  <1>17. ASSUME NEW m \in Chks, Background(m)
         PROVE  Converting'
    <2>1. CASE Gzip(m)  BY <1>17, <2>1 DEF Gzip
    <2>2. CASE AssertValid(m)  BY <1>17, <2>2 DEF AssertValid
    <2>3. CASE GetMappings(m)
      <3>1. m < chk_num => mappings[m] = run  BY <1>17
      <3>2. /\ conv[m] = "valid"
            /\ conv'[m] = "failed" \/ (conv'[m] = "loaded" /\ input'[m][2] = mappings[m])
        BY <1>17, <2>3 DEF GetMappings
      <3>3. \A n \in Chks \ {m} : input'[n] = input[n] /\ conv'[n] = conv[n]
        BY <1>17, <2>3 DEF GetMappings
      <3>4. UNCHANGED <<engine, pmem>>  BY <2>3 DEF GetMappings
      <3> HIDE DEF CoreHandle, TypeOK, Progress, Processes, Launched, CreatedWhole
      <3>5. QED  BY <1>17, <3>1, <3>2, <3>3, <3>4
    <2>4. CASE OpenPmem(m)
      <3>1. m < chk_num => CoreHandle(m) = run  BY <1>17
      <3>2. input'[m] = <<CoreHandle(m), input[m][2]>>
        BY <1>17, <2>4 DEF OpenPmem
      <3>3. \A n \in Chks \ {m} : input'[n] = input[n] /\ conv'[n] = conv[n]
                                   /\ pmem'[n] = pmem[n]
        BY <1>17, <2>4 DEF OpenPmem
      <3>4. conv[m] = "loaded" /\ conv'[m] = "writing"
        BY <1>17, <2>4 DEF OpenPmem
      <3>5. UNCHANGED engine  BY <2>4 DEF OpenPmem
      <3> HIDE DEF CoreHandle, TypeOK, Progress, Processes, Launched, CreatedWhole
      <3>6. QED  BY <1>17, <3>1, <3>2, <3>3, <3>4, <3>5
    <2>5. CASE WritePmem(m)
      <3>1. input[m] = <<input[m][1], input[m][2]>>  BY <1>17
      <3>2. pmem'[m] = input[m] /\ conv[m] = "writing" /\ conv'[m] = "done"
        BY <1>17, <2>5 DEF WritePmem
      <3>3. \A n \in Chks \ {m} : conv'[n] = conv[n] /\ pmem'[n] = pmem[n]
        BY <1>17, <2>5 DEF WritePmem
      <3>4. UNCHANGED <<engine, input>>  BY <2>5 DEF WritePmem
      <3> HIDE DEF CoreHandle, TypeOK, Progress, Processes, Launched, CreatedWhole
      <3>5. QED  BY <1>17, <3>1, <3>2, <3>3, <3>4
    <2>6. CASE ConvertDies(m)  BY <1>17, <2>6 DEF ConvertDies
    <2>7. QED  BY <1>17, <2>1, <2>2, <2>3, <2>4, <2>5, <2>6 DEF Background
  <1>18. CASE UNCHANGED vars  BY <1>18 DEF vars
  <1>19. QED
    BY <1>1, <1>2, <1>3, <1>4, <1>5, <1>6, <1>7, <1>8, <1>9, <1>10, <1>11,
       <1>12, <1>13, <1>14, <1>15, <1>16, <1>17, <1>18 DEF Next, Engine

(* The inductive invariant of the engine: types, how far the checkpoint     *)
(* under construction has come, and the bookkeeping of the background       *)
(* processes hold in every reachable state.                                *)
THEOREM IInvInvariant == Spec => [](TypeOK /\ IInv)
  <1>1. Init => TypeOK /\ IInv
    BY DEF Init, TypeOK, IInv, Progress, CreatedWhole, Processes, Joining,
           Converting, Chks, Root, NoProc, None, Partial, Runs, Content, Resting,
           InTry, AfterLoop, GzipAlive, ConvertAlive
  <1>2. TypeOK /\ IInv /\ [Next]_vars => (TypeOK /\ IInv)'
    <2> SUFFICES ASSUME TypeOK, IInv, [Next]_vars
                 PROVE  (TypeOK /\ IInv)'
      OBVIOUS
    <2>1. TypeOK'  BY TypeStep DEF IInv
    <2>2. IInv'
      BY ProgressStep, WholeStep, ProcessesStep, JoiningStep, ConvertingStep DEF IInv
    <2>3. QED  BY <2>1, <2>2
  <1>3. QED  BY <1>1, <1>2, PTL DEF Spec

(* Every variable of the engine, of its background processes and of the     *)
(* checkpoint directories stays in its domain.                             *)
THEOREM TypeCorrect == Spec => []TypeOK
  BY IInvInvariant, PTL

(* A checkpoint counted by _create_gem5_checkpoint is whole and of the       *)
(* current run, whatever failed before it and whatever gzip is doing.       *)
THEOREM CountedCheckpointsWhole == Spec => []CreatedWhole
  <1>1. TypeOK /\ IInv => CreatedWhole  BY DEF IInv
  <1>2. QED  BY <1>1, IInvInvariant, PTL

(* gzip and the converter of one checkpoint never run together              *)
(* (_dump_core_to_file starts one of them, the poll replaces one by the      *)
(* other).                                                                 *)
THEOREM CompressionExcludesConversion == Spec => []NeverCompressedWhileConverted
  <1>1. TypeOK /\ IInv => NeverCompressedWhileConverted
    BY DEF IInv, Processes, NeverCompressedWhileConverted, ConvertAlive
  <1>2. QED  BY <1>1, IInvInvariant, PTL

(* With --compress the converter's assertion holds for every counted         *)
(* checkpoint and its image is this run's.                                 *)
THEOREM CompressedImagesFaithful == Spec => []CompressOrdersConversion
  <1>1. TypeOK /\ IInv => CompressOrdersConversion
    BY DEF IInv, Converting, CompressOrdersConversion
  <1>2. QED  BY <1>1, IInvInvariant, PTL

(* Without --compress every dumped core has had a converter, and a converter *)
(* that is through leaves a whole image.                                   *)
Imaged ==
    \A n \in Chks :
        /\ conv[n] = "done" => pmem[n] \in Content \X Content
        /\ opts.convert /\ ~opts.compress
              /\ (n < chk_num \/ (n = chk_num /\ pc \in {"mapopen", "mapdump"}))
           => conv[n] # "none"

(* Imaged holds throughout.                                                *)
LEMMA ImagedInvariant == Spec => []Imaged
  <1>1. Init => Imaged  BY DEF Init, Imaged, Chks
  <1>2. ASSUME TypeOK, Progress, Imaged, [Next]_vars PROVE Imaged'
    <2> USE <1>2 DEF Imaged, TypeOK, Chks, dicts, background, files, Goto, Jump
    <2>1. CASE StartRun  BY <2>1 DEF StartRun
    <2>2. CASE LoopTest \/ InferiorStops \/ CanCreateValidCheckpoint \/ GzipsJoined
                \/ Return \/ LeaveLoop \/ Crash
      BY <2>2 DEF LoopTest, InferiorStops, CanCreateValidCheckpoint, GzipsJoined, Return,
                  LeaveLoop, Crash
    <2>3. CASE Poll  BY <2>3 DEF Poll, StartConverters
    <2>4. CASE FillTemplate \/ OpenMappings \/ GcoreFails \/ WaitConvert
      BY <2>4 DEF FillTemplate, OpenMappings, GcoreFails, WaitConvert
    <2>5. CASE DumpCoreToFile
      <3>1. chk_num \in Chks  BY <2>5 DEF DumpCoreToFile, Progress, InTry
      <3>2. /\ pc = "gcore" /\ pc' = "mapopen" /\ UNCHANGED <<opts, chk_num, pmem>>
            /\ conv' = [conv EXCEPT ![chk_num] = "started"] \/ conv' = conv
            /\ opts.convert /\ ~opts.compress => conv' = [conv EXCEPT ![chk_num] = "started"]
        BY <2>5, Zenon DEF DumpCoreToFile
      <3>3. QED  BY <3>1, <3>2
    <2>6. CASE DumpMappings  BY <2>6 DEF DumpMappings
    <2>7. CASE WaitGzip
      <3>1. UNCHANGED <<opts, pc, chk_num, pmem>>  BY <2>7, Zenon DEF WaitGzip
      <3>2. \A n \in Chks : conv'[n] = conv[n] \/ conv'[n] = "started"
        BY <2>7, WaitGzipStarts, Zenon
      <3>3. QED  BY <3>1, <3>2
    <2>8. ASSUME NEW n \in Chks, Background(n) PROVE Imaged'
      <3>1. CASE Gzip(n)  BY <3>1 DEF Gzip, engine
      <3>2. CASE AssertValid(n)  BY <3>2 DEF AssertValid, engine
      <3>3. CASE GetMappings(n)  BY <3>3 DEF GetMappings, engine
      <3>4. CASE OpenPmem(n)  BY <3>4 DEF OpenPmem, engine
      <3>5. CASE WritePmem(n)  BY <3>5 DEF WritePmem, engine
      <3>6. CASE ConvertDies(n)
        BY <3>6 DEF ConvertDies, ConvertAlive, ConvertFinished, engine
      <3>7. QED  BY ONLY <2>8, <3>1, <3>2, <3>3, <3>4, <3>5, <3>6 DEF Background
    <2>9. CASE UNCHANGED vars  BY <2>9 DEF vars, engine
    <2>10. QED
      BY <1>2, <2>1, <2>2, <2>3, <2>4, <2>5, <2>6, <2>7, <2>8, <2>9 DEF Next, Engine
  <1>3. QED  BY <1>1, <1>2, IInvInvariant, TypeCorrect, PTL DEF Spec, IInv

(* When a run method returns after _poll_background_processes(True), every    *)
(* gzip, and without --compress every converter, is over, and half an image  *)
(* of a counted checkpoint means that its converter died.                  *)
THEOREM ReturnJoins == Spec => []JoinedAtReturn
  <1>1. TypeOK /\ IInv /\ Imaged => JoinedAtReturn
    <2> SUFFICES ASSUME TypeOK, IInv, Imaged, pc = "returned"
                 PROVE  /\ \A n \in Chks : ~GzipAlive(n)
                        /\ opts.compress \/ \A n \in Chks :
                            /\ ~ConvertAlive(n)
                            /\ opts.convert /\ n < chk_num /\ pmem[n] = <<Partial, Partial>>
                                => conv[n] \in {"failed", "assert_failed"}
      BY DEF JoinedAtReturn
    <2>1. \A n \in Chks : ~GzipAlive(n)  BY DEF IInv, Joining, Processes
    <2>2. \A n \in Chks : convert_processes[n] = NoProc /\ n # NoProc
      BY MaxChkAssumption DEF IInv, Joining, Chks, NoProc
    <2>3. opts.compress \/ \A n \in Chks : ~ConvertAlive(n)
      BY <2>2 DEF IInv, Joining
    <2>4. <<Partial, Partial>> \notin Content \X Content
      BY MaxRunsAssumption DEF Partial, Content, Runs, None
    <2>5. ASSUME ~opts.compress, NEW n \in Chks, opts.convert, n < chk_num,
                 pmem[n] = <<Partial, Partial>>
          PROVE  conv[n] \in {"failed", "assert_failed"}
      <3>1. conv[n] # "done"  BY <2>4, <2>5 DEF Imaged
      <3>2. conv[n] # "none"  BY <2>5 DEF Imaged
      <3>3. conv[n] \in ConvertFinished  BY <2>3, <2>5, <3>2 DEF ConvertAlive
      <3>4. QED  BY <3>1, <3>3 DEF ConvertFinished
    <2>6. QED  BY <2>1, <2>3, <2>5
  <1>2. QED  BY <1>1, IInvInvariant, TypeCorrect, ImagedInvariant, PTL

(* A dump that is with gzip has not been converted yet.                    *)
Unconverted == \A n \in compress_processes : conv[n] = "none"

(* Where a converter comes from: the dump of a checkpoint without           *)
(* --compress, and a gzip that is over.                                    *)
LEMMA ConverterStarts ==
    ASSUME TypeOK, IInv, Unconverted, [Next]_vars, run' = run, NEW n \in Chks
    PROVE  /\ conv[n] \in ConvertFinished => conv'[n] = conv[n] /\ pmem'[n] = pmem[n]
           /\ n \in compress_processes' => conv'[n] = "none"
  <1> DEFINE Goal == /\ conv[n] \in ConvertFinished => conv'[n] = conv[n] /\ pmem'[n] = pmem[n]
                     /\ n \in compress_processes' => conv'[n] = "none"
  <1> USE DEF Unconverted, ConvertFinished
  <1>0. /\ run \in 0 .. MaxRuns
        /\ conv \in [Chks -> {"none", "started", "valid", "loaded", "writing"}
                             \cup ConvertFinished]
        /\ pmem \in [Chks -> (Content \X Content) \cup {<<Partial, Partial>>}]
        /\ n \in compress_processes => conv[n] = "none"
    BY Zenon DEF TypeOK
  <1>1. CASE StartRun
    <2>1. run' = run + 1  BY <1>1 DEF StartRun
    <2>2. QED  BY <1>0, <2>1, MaxRunsAssumption
  <1>2. CASE LoopTest \/ InferiorStops \/ CanCreateValidCheckpoint \/ GzipsJoined
             \/ Return \/ LeaveLoop \/ Crash
    <2>1. UNCHANGED <<compress_processes, conv, pmem>>
      BY <1>2, Zenon DEF LoopTest, InferiorStops, CanCreateValidCheckpoint, GzipsJoined, Return,
                  LeaveLoop, Crash, Jump, dicts, background, files
    <2>2. QED  BY <1>0, <2>1, Zenon
  <1>3. CASE FillTemplate \/ OpenMappings \/ DumpMappings \/ GcoreFails \/ WaitConvert
    <2>1. UNCHANGED <<compress_processes, conv, pmem>>
      BY <1>3, Zenon DEF FillTemplate, OpenMappings, DumpMappings, GcoreFails, WaitConvert,
                  dicts, background, files
    <2>2. QED  BY <1>0, <2>1, Zenon
  <1>4. CASE Poll \/ WaitGzip
    <2>1. PICK done \in SUBSET compress_processes :
            /\ compress_processes' = compress_processes \ done
            /\ StartConverters(done)
      BY <1>4, Zenon DEF Poll, WaitGzip
    <2>2. conv'[n] = IF n \in done /\ opts.convert THEN "started" ELSE conv[n]
      BY <2>1, Zenon DEF StartConverters
    <2>3. pmem' = pmem  BY <1>4, Zenon DEF Poll, WaitGzip, files
    <2>4. n \in done => conv[n] = "none"  BY <1>0, <2>1, Zenon
    <2>5. QED  BY <1>0, <2>1, <2>2, <2>3, <2>4
  <1>5. CASE DumpCoreToFile
    <2>1. chk_num \in Chks  BY <1>5 DEF DumpCoreToFile, IInv, Progress, InTry
    <2>2. conv[chk_num] = "none" /\ gzip[chk_num] = "none"
      <3>1. ~Launched(chk_num)
        BY <1>5, <2>1, MaxChkAssumption DEF DumpCoreToFile, Launched, AfterLoop, Chks
      <3>2. QED  BY <2>1, <3>1, Zenon DEF IInv, Processes
    <2>3. chk_num \notin compress_processes
      BY <2>1, <2>2, Zenon DEF IInv, Processes
    <2>4. pmem' = pmem  BY <1>5, Zenon DEF DumpCoreToFile
    <2>5. \/ conv' = conv /\ compress_processes' \subseteq compress_processes \cup {chk_num}
          \/ /\ conv' = [conv EXCEPT ![chk_num] = "started"]
             /\ compress_processes' = compress_processes
      BY <1>5, Zenon DEF DumpCoreToFile
    <2>6. QED  BY ONLY <1>0, <2>1, <2>2, <2>3, <2>4, <2>5, n \in Chks DEF ConvertFinished
  <1>6. ASSUME NEW m \in Chks, Background(m)
        PROVE  Goal
    <2>1. compress_processes' = compress_processes
      BY <1>6, Zenon DEF Background, Gzip, AssertValid, GetMappings, OpenPmem, WritePmem,
              ConvertDies, engine, dicts
    <2>2. CASE Gzip(m)
      BY <1>0, <2>1, <2>2, Zenon DEF Gzip
    <2>3. CASE ~Gzip(m)
      <3>1. conv[m] \notin {"none"} \cup ConvertFinished
        BY <1>6, <2>3 DEF Background, AssertValid, GetMappings, OpenPmem, WritePmem,
                ConvertDies, ConvertAlive
      <3>2. n # m => conv'[n] = conv[n] /\ pmem'[n] = pmem[n]
        BY <1>0, <1>6, <2>3 DEF Background, AssertValid, GetMappings, OpenPmem, WritePmem,
                ConvertDies, files
      <3>3. QED  BY <1>0, <2>1, <3>1, <3>2
    <2>4. QED  BY <2>2, <2>3
  <1>7. CASE UNCHANGED vars
    <2>1. UNCHANGED <<compress_processes, conv, pmem>>
      BY <1>7, Zenon DEF vars, engine, dicts, background, files
    <2>2. QED  BY <1>0, <2>1, Zenon
  <1>8. QED
    BY <1>1, <1>2, <1>3, <1>4, <1>5, <1>6, <1>7, Zenon DEF Next, Engine

(* Unconverted holds throughout.                                           *)
LEMMA UnconvertedInvariant == Spec => []Unconverted
  <1>1. Init => Unconverted  BY DEF Init, Unconverted
  <1>2. ASSUME TypeOK, IInv, Unconverted, [Next]_vars PROVE Unconverted'
    <2>1. CASE run' = run
      <3>1. compress_processes' \subseteq Chks
        BY <1>2, TypeStep, Zenon DEF IInv, TypeOK
      <3>2. QED  BY <1>2, <2>1, <3>1, ConverterStarts, Zenon DEF Unconverted
    <2>2. CASE run' # run
      <3>1. compress_processes' = {}
        BY <1>2, <2>2, Zenon DEF Next, Engine, Background, vars, engine, StartRun, LoopTest,
             InferiorStops, Poll,
             CanCreateValidCheckpoint, FillTemplate, DumpCoreToFile, OpenMappings, DumpMappings,
             WaitGzip, GzipsJoined, WaitConvert, Return, LeaveLoop, GcoreFails, Crash, Jump, Goto,
             Gzip, AssertValid, GetMappings, OpenPmem, WritePmem, ConvertDies
      <3>2. QED  BY <3>1 DEF Unconverted
    <2>3. QED  BY <2>1, <2>2
  <1>3. QED  BY <1>1, <1>2, IInvInvariant, PTL DEF Spec

(* _poll_background_processes starts one converter per dump, however often  *)
(* it is called and in whatever order the processes end: what a converter   *)
(* has finished stays until the next run.                                  *)
THEOREM OneConversion == Spec => ConvertedOnce
  <1>1. TypeOK /\ IInv /\ Unconverted /\ [Next]_vars =>
          [run' = run => \A n \in Chks :
             conv[n] \in ConvertFinished => conv'[n] = conv[n] /\ pmem'[n] = pmem[n]]_vars
    BY ConverterStarts, Zenon
  <1>2. QED  BY <1>1, IInvInvariant, UnconvertedInvariant, PTL DEF Spec, ConvertedOnce

(* What a converter works on, in any run: a dump of this run, and a layout  *)
(* of this run or of an earlier one.                                       *)
MaterialOf(n) ==
    /\ mappings[n] <= run
    /\ gzip[n] # "none" \/ conv[n] # "none" => CoreHandle(n) = run
    /\ conv[n] = "valid" => mappings[n] # None
    /\ conv[n] \in {"loaded", "writing"} => input[n][2] \in 1 .. run
    /\ conv[n] = "writing" => input[n][1] = run
    /\ conv[n] = "done" => pmem[n][1] = run /\ pmem[n][2] \in 1 .. run
Material == \A n \in Chks : MaterialOf(n)

(* A finished image holds this run's memory contents, and a layout that is  *)
(* this run's or an earlier run's: an image that is not of this run, as     *)
(* the engine makes without --compress, is wrong in its layout only.        *)
DumpOfThisRun ==
    \A n \in Chks : conv[n] = "done" => pmem[n][1] = run /\ pmem[n][2] \in 1 .. run

(* The files and processes of another checkpoint do not matter.            *)
LEMMA SameMaterial ==
    ASSUME NEW n, MaterialOf(n), run' = run, gzip'[n] = gzip[n], conv'[n] = conv[n],
           input'[n] = input[n], core'[n] = core[n], gz'[n] = gz[n],
           mappings'[n] = mappings[n], pmem'[n] = pmem[n]
    PROVE  MaterialOf(n)'
  <1>1. CoreHandle(n)' = CoreHandle(n)  BY Zenon DEF CoreHandle
  <1>2. QED  BY <1>1, Zenon DEF MaterialOf

(* No gcore works on a checkpoint that has a background process.           *)
LEMMA FreshDump ==
    ASSUME TypeOK, IInv, pc = "gcore"
    PROVE  chk_num \in Chks /\ gzip[chk_num] = "none" /\ conv[chk_num] = "none" /\ run # 0
  <1>1. chk_num \in Chks /\ run # 0  BY DEF IInv, Progress, InTry
  <1>2. ~Launched(chk_num)  BY <1>1 DEF Launched, AfterLoop, Chks
  <1>3. QED  BY <1>1, <1>2, Zenon DEF IInv, Processes

(* What the engine's steps do to the material of checkpoint n ...          *)
LEMMA EngineMaterial ==
    ASSUME TypeOK, IInv, NEW n \in Chks, MaterialOf(n),
           StartRun \/ Engine \/ LeaveLoop \/ GcoreFails \/ Crash
    PROVE  MaterialOf(n)'
  <1>0. /\ run \in Nat /\ mappings[n] \in Int /\ mappings[n] <= run
        /\ conv[n] \in {"none", "started", "valid", "loaded", "writing"} \cup ConvertFinished
    BY DEF TypeOK, MaterialOf, Content, Runs, Partial, None
  <1>1. CASE StartRun
    <2>1. run' = run + 1 /\ mappings' = mappings /\ gzip'[n] = "none" /\ conv'[n] = "none"
      BY <1>1, Zenon DEF StartRun, files
    <2>2. mappings'[n] <= run'  BY <1>0, <2>1
    <2>3. QED  BY <2>1, <2>2, Zenon DEF MaterialOf
  <1>2. CASE \/ LoopTest \/ InferiorStops \/ CanCreateValidCheckpoint \/ GzipsJoined
             \/ Return \/ LeaveLoop \/ Crash \/ FillTemplate \/ WaitConvert
    <2>1. UNCHANGED <<run, gzip, conv, input, core, gz, mappings, pmem>>
      BY <1>2, Zenon DEF LoopTest, InferiorStops, CanCreateValidCheckpoint, GzipsJoined,
         Return, LeaveLoop, Crash, FillTemplate, WaitConvert, Jump, Goto, background, files
    <2>2. QED  BY <2>1, SameMaterial, Zenon
  <1>3. CASE Poll \/ WaitGzip
    <2>1. PICK done \in SUBSET compress_processes : StartConverters(done)
      BY <1>3, Zenon DEF Poll, WaitGzip
    <2>2. UNCHANGED <<run, gzip, input, core, gz, mappings, pmem>>
      BY <1>3, Zenon DEF Poll, WaitGzip, Goto, files
    <2>3. conv'[n] = conv[n] \/ (conv'[n] = "started" /\ gzip[n] # "none")
      BY <2>1, Zenon DEF StartConverters, IInv, Processes
    <2>4. CASE conv'[n] = conv[n]  BY <2>2, <2>4, SameMaterial, Zenon
    <2>5. CASE conv'[n] = "started" /\ gzip[n] # "none"
      BY <2>2, <2>5, Zenon DEF MaterialOf, CoreHandle
    <2>6. QED  BY <2>3, <2>4, <2>5, Zenon
  <1>4. CASE DumpCoreToFile \/ GcoreFails
    <2>1. /\ UNCHANGED <<run, input, gz, mappings, pmem>>
          /\ chk_num \in Chks /\ gzip[chk_num] = "none" /\ conv[chk_num] = "none" /\ run # 0
      BY <1>4, FreshDump, Zenon DEF DumpCoreToFile, GcoreFails, Goto, background
    <2>2. CASE n # chk_num
      <3>1. core'[n] = core[n] /\ gzip'[n] = gzip[n] /\ conv'[n] = conv[n]
        BY <1>4, <2>2 DEF DumpCoreToFile, GcoreFails, background, TypeOK
      <3>2. QED  BY <2>1, <3>1, SameMaterial, Zenon
    <2>3. CASE n = chk_num
      <3>1. /\ conv'[n] \in {"none", "started"}
            /\ core'[n] = run \/ (gzip'[n] = "none" /\ conv'[n] = "none")
        BY <1>4, <2>1, <2>3 DEF DumpCoreToFile, GcoreFails, background, TypeOK
      <3>2. core'[n] = run => CoreHandle(n)' = run  BY <2>1 DEF CoreHandle, None
      <3>3. QED  BY <2>1, <3>1, <3>2, Zenon DEF MaterialOf
    <2>4. QED  BY <2>2, <2>3
  <1>5. CASE OpenMappings \/ DumpMappings
    <2>1. UNCHANGED <<run, gzip, conv, input, core, gz, pmem>>
      BY <1>5, Zenon DEF OpenMappings, DumpMappings, Goto, background
    <2>2. mappings'[n] \in {mappings[n], -1, run}
      BY <1>5 DEF OpenMappings, DumpMappings, TypeOK, Partial
    <2>3. run # 0  BY <1>5 DEF IInv, Progress, OpenMappings, DumpMappings
    <2>4. mappings'[n] <= run /\ (mappings[n] # None => mappings'[n] # None)
      BY <1>0, <2>2, <2>3 DEF None
    <2>5. CoreHandle(n)' = CoreHandle(n)  BY <2>1 DEF CoreHandle
    <2>6. QED  BY <2>1, <2>4, <2>5, Zenon DEF MaterialOf
  <1>6. QED  BY <1>1, <1>2, <1>3, <1>4, <1>5, Zenon DEF Engine

(* ... and what the background processes of checkpoint m do to it.         *)
LEMMA BackgroundMaterial ==
    ASSUME TypeOK, IInv, NEW n \in Chks, MaterialOf(n), NEW m \in Chks, Background(m)
    PROVE  MaterialOf(n)'
  <1>0. run' = run /\ run \in Nat
    <2>1. run' = run
      BY Zenon DEF Background, Gzip, AssertValid, GetMappings, OpenPmem, WritePmem,
                   ConvertDies, engine
    <2>2. QED  BY <2>1 DEF TypeOK
  <1>1. CASE n # m
    <2>1. /\ gzip'[n] = gzip[n] /\ conv'[n] = conv[n] /\ input'[n] = input[n]
          /\ core'[n] = core[n] /\ gz'[n] = gz[n] /\ mappings'[n] = mappings[n]
          /\ pmem'[n] = pmem[n]
      BY <1>1 DEF Background, Gzip, AssertValid, GetMappings, OpenPmem, WritePmem, ConvertDies,
                  files, TypeOK
    <2>2. QED  BY <1>0, <2>1, SameMaterial, Zenon
  <1>2. CASE n = m
    <2>1. CASE Gzip(n)
      <3>1. UNCHANGED <<conv, input, mappings, pmem>>  BY <2>1 DEF Gzip
      <3>2. gzip[n] # "none" /\ core[n] = run /\ run # 0
        BY <2>1 DEF Gzip, GzipAlive, IInv, Processes, Progress, Launched, AfterLoop, Chks
      <3>3. core'[n] = run \/ (core'[n] = None /\ gz'[n] = run)
        BY <2>1, <3>2 DEF Gzip, TypeOK
      <3>4. CoreHandle(n)' = run  BY <3>2, <3>3 DEF CoreHandle, None
      <3>5. QED  BY <1>0, <3>1, <3>2, <3>4, Zenon DEF MaterialOf
    <2>2. CASE AssertValid(n)
      <3>1. UNCHANGED <<gzip, input, core, gz, mappings, pmem>>
        BY <2>2, Zenon DEF AssertValid, files
      <3>2. /\ conv[n] = "started"
            /\ (conv'[n] = "valid" /\ mappings[n] # None) \/ conv'[n] = "assert_failed"
        BY <2>2 DEF AssertValid, IsValidCheckpoint, TypeOK
      <3>3. CoreHandle(n)' = CoreHandle(n)  BY <3>1 DEF CoreHandle
      <3>4. QED  BY <1>0, <3>1, <3>2, <3>3, Zenon DEF MaterialOf
    <2>3. CASE GetMappings(n)
      <3>1. UNCHANGED <<gzip, core, gz, mappings, pmem>>  BY <2>3, Zenon DEF GetMappings, files
      <3>2. /\ conv[n] = "valid"
            /\ \/ conv'[n] = "failed"
               \/ conv'[n] = "loaded" /\ mappings[n] # Partial /\ input'[n][2] = mappings[n]
        BY <2>3 DEF GetMappings, TypeOK
      <3>3. mappings[n] # Partial => mappings[n] \in 1 .. run
        <4>1. mappings[n] \in Content \cup {Partial}  BY Zenon DEF TypeOK
        <4>2. mappings[n] # None /\ mappings[n] <= run  BY <3>2 DEF MaterialOf
        <4>3. QED  BY <1>0, <4>1, <4>2 DEF Content, Runs, None
      <3>4. CoreHandle(n)' = CoreHandle(n)  BY <3>1 DEF CoreHandle
      <3>5. QED  BY <1>0, <3>1, <3>2, <3>3, <3>4, Zenon DEF MaterialOf
    <2>4. CASE OpenPmem(n)
      <3>1. UNCHANGED <<gzip, core, gz, mappings>>  BY <2>4 DEF OpenPmem
      <3>2. /\ conv[n] = "loaded" /\ conv'[n] = "writing"
            /\ input'[n][1] = CoreHandle(n) /\ input'[n][2] = input[n][2]
        BY <2>4 DEF OpenPmem, TypeOK
      <3>3. CoreHandle(n)' = CoreHandle(n)  BY <3>1 DEF CoreHandle
      <3>4. QED  BY <1>0, <3>1, <3>2, <3>3, Zenon DEF MaterialOf
    <2>5. CASE WritePmem(n)
      <3>1. UNCHANGED <<gzip, input, core, gz, mappings>>  BY <2>5 DEF WritePmem
      <3>2. conv[n] = "writing" /\ conv'[n] = "done" /\ pmem'[n] = input[n]
        BY <2>5 DEF WritePmem, TypeOK
      <3>3. CoreHandle(n)' = CoreHandle(n)  BY <3>1 DEF CoreHandle
      <3>4. QED  BY <1>0, <3>1, <3>2, <3>3, Zenon DEF MaterialOf
    <2>6. CASE ConvertDies(n)
      <3>1. UNCHANGED <<gzip, input, core, gz, mappings, pmem>>
        BY <2>6, Zenon DEF ConvertDies, files
      <3>2. conv[n] # "none" /\ conv'[n] = "failed"
        BY <2>6 DEF ConvertDies, ConvertAlive, TypeOK
      <3>3. CoreHandle(n)' = CoreHandle(n)  BY <3>1 DEF CoreHandle
      <3>4. QED  BY <1>0, <3>1, <3>2, <3>3, Zenon DEF MaterialOf
    <2>7. QED  BY <1>2, <2>1, <2>2, <2>3, <2>4, <2>5, <2>6, Zenon DEF Background
  <1>3. QED  BY <1>1, <1>2

(* Material holds throughout.                                              *)
LEMMA MaterialInvariant == Spec => []Material
  <1>1. Init => Material
    BY DEF Init, Material, MaterialOf, Chks, None
  <1>2. ASSUME TypeOK, IInv, Material, [Next]_vars PROVE Material'
    <2> SUFFICES ASSUME NEW n \in Chks PROVE MaterialOf(n)'
      BY Zenon DEF Material, Chks
    <2>1. MaterialOf(n)  BY <1>2 DEF Material
    <2>2. CASE UNCHANGED vars
      <3>1. UNCHANGED <<run, gzip, conv, input, core, gz, mappings, pmem>>
        BY <2>2, Zenon DEF vars, engine, background, files
      <3>2. QED  BY <2>1, <3>1, SameMaterial, Zenon
    <2>3. CASE StartRun \/ Engine \/ LeaveLoop \/ GcoreFails \/ Crash
      BY <1>2, <2>1, <2>3, EngineMaterial, Zenon
    <2>4. CASE \E m \in Chks : Background(m)
      BY <1>2, <2>1, <2>4, BackgroundMaterial, Zenon
    <2>5. QED  BY <1>2, <2>2, <2>3, <2>4, Zenon DEF Next
  <1>3. QED  BY <1>1, <1>2, IInvInvariant, PTL DEF Spec

(* create_pmem_file never reads a dump of an earlier run, whichever options  *)
(* are given and although the directory of an earlier run is reused: what    *)
(* can be an earlier run's is mappings.json.                               *)
THEOREM DumpIsThisRuns == Spec => []DumpOfThisRun
  <1>1. Material => DumpOfThisRun  BY Zenon DEF Material, MaterialOf, DumpOfThisRun
  <1>2. QED  BY <1>1, MaterialInvariant, PTL

(* Whatever a poll joins was started: a key of either dictionary stands for *)
(* a process that runs or is over.                                         *)
Awaited ==
    /\ \A n \in compress_processes : gzip[n] # "none"
    /\ \A k \in Chks \cup {Root} :
          convert_processes[k] # NoProc => conv[convert_processes[k]] # "none"

(* A converter that was started is never taken for one that was not.       *)
LEMMA StartedStays ==
    ASSUME TypeOK, IInv, Unconverted, [Next]_vars, ~StartRun, NEW n \in Chks, conv[n] # "none"
    PROVE  conv'[n] # "none"
  <1> USE DEF ConvertFinished
  <1>1. CASE Poll \/ WaitGzip
    <2>1. PICK done : StartConverters(done)  BY <1>1, Zenon DEF Poll, WaitGzip
    <2>2. QED  BY <2>1, Zenon DEF StartConverters
  <1>2. CASE DumpCoreToFile
    <2>1. conv' = conv \/ conv' = [conv EXCEPT ![chk_num] = "started"]
      BY <1>2, Zenon DEF DumpCoreToFile
    <2>2. QED  BY <2>1 DEF TypeOK
  <1>3. ASSUME NEW m \in Chks, Background(m) PROVE conv'[n] # "none"
    BY <1>3 DEF Background, Gzip, AssertValid, GetMappings, OpenPmem, WritePmem, ConvertDies, TypeOK
  <1>4. CASE \/ LoopTest \/ InferiorStops \/ CanCreateValidCheckpoint \/ GzipsJoined
             \/ Return \/ LeaveLoop \/ Crash \/ FillTemplate \/ OpenMappings \/ DumpMappings
             \/ GcoreFails \/ WaitConvert \/ UNCHANGED vars
    BY <1>4, Zenon DEF LoopTest, InferiorStops, CanCreateValidCheckpoint, GzipsJoined, Return,
       LeaveLoop, Crash, FillTemplate, OpenMappings, DumpMappings, GcoreFails, WaitConvert, Jump,
       background, vars
  <1>5. QED  BY <1>1, <1>2, <1>3, <1>4, Zenon DEF Next, Engine

(* The final wait of run_time, run_inst and run_interact waits for nothing   *)
(* that was never started, whatever was abandoned half-way: this is the part *)
(* of FinalWaitEnds that does not depend on how processes are scheduled.    *)
THEOREM NothingAwaitedInVain == Spec => []Awaited
  <1>1. Init => Awaited  BY DEF Init, Awaited
  <1>2. ASSUME TypeOK, IInv, Unconverted, Awaited, [Next]_vars PROVE Awaited'
    <2>0. /\ TypeOK' /\ Processes'
          /\ convert_processes \in [Chks \cup {Root} -> Chks \cup {NoProc}]
      BY <1>2, TypeStep, ProcessesStep DEF IInv, TypeOK
    <2>1. \A n \in compress_processes' : gzip'[n] # "none"
      BY <2>0, Zenon DEF Processes, TypeOK
    <2>2. ASSUME NEW k \in Chks \cup {Root}, convert_processes'[k] # NoProc
          PROVE  conv'[convert_processes'[k]] # "none"
      <3>1. CASE StartRun  BY <2>2, <3>1, Zenon DEF StartRun
      <3>2. CASE ~StartRun /\ convert_processes'[k] = convert_processes[k]
        <4>1. convert_processes[k] \in Chks  BY <2>0, <2>2, <3>2, Zenon
        <4>2. conv[convert_processes[k]] # "none"  BY <1>2, <2>2, <3>2, Zenon DEF Awaited
        <4>3. QED  BY <1>2, <3>2, <4>1, <4>2, StartedStays, Zenon
      <3>3. CASE ~StartRun /\ convert_processes'[k] # convert_processes[k]
        <4>1. PICK n \in Chks : convert_processes'[k] = n /\ conv'[n] = "started"
          <5>1. CASE Poll
            <6>1. StillConverting[k] \in {convert_processes[k], NoProc}
              BY Zenon DEF StillConverting
            <6>2. PICK last \in compress_processes :
                    /\ convert_processes' = [StillConverting EXCEPT ![Root] = last]
                    /\ conv' = [n \in Chks |-> IF n \in {d \in compress_processes : ~GzipAlive(d)}
                                                     /\ opts.convert THEN "started" ELSE conv[n]]
                    /\ opts.convert /\ ~GzipAlive(last)
              BY <2>2, <3>3, <5>1, <6>1 DEF Poll, StartConverters
            <6>3. last \in Chks /\ conv'[last] = "started"  BY <1>2, <6>2, Zenon DEF TypeOK
            <6>4. convert_processes'[k] = last
              BY <2>2, <3>3, <6>1, <6>2 DEF StillConverting
            <6>5. QED  BY <6>3, <6>4
          <5>2. CASE WaitGzip
            <6>1. PICK n \in compress_processes :
                    /\ StartConverters({n})
                    /\ convert_processes' =
                        [convert_processes EXCEPT ![Root] = IF opts.convert THEN n ELSE @]
              BY <5>2, Zenon DEF WaitGzip
            <6>2. n \in Chks  BY <1>2, Zenon DEF TypeOK
            <6>3. convert_processes'[k] = n /\ opts.convert  BY <2>0, <3>3, <6>1
            <6>4. conv'[n] = "started"  BY <6>1, <6>2, <6>3, Zenon DEF StartConverters
            <6>5. QED  BY <6>2, <6>3, <6>4, Zenon
          <5>3. CASE DumpCoreToFile
            <6>1. chk_num \in Chks
              BY <1>2, <5>3, FreshDump DEF DumpCoreToFile
            <6>2. /\ conv' = [conv EXCEPT ![chk_num] = "started"]
                  /\ convert_processes' = [convert_processes EXCEPT ![chk_num] = chk_num]
              BY <3>3, <5>3, Zenon DEF DumpCoreToFile
            <6>3. QED  BY <1>2, <2>0, <3>3, <6>1, <6>2 DEF TypeOK
          <5>4. CASE WaitConvert
            BY <2>0, <2>2, <3>3, <5>4 DEF WaitConvert
          <5>5. CASE ~(Poll \/ WaitGzip \/ DumpCoreToFile \/ WaitConvert)
            BY <1>2, <3>3, <5>5, Zenon DEF Next, Engine, Background, LoopTest, InferiorStops,
               CanCreateValidCheckpoint, GzipsJoined, Return, LeaveLoop, Crash, FillTemplate,
               OpenMappings, DumpMappings, GcoreFails, Jump, dicts, vars, engine, Gzip,
               AssertValid, GetMappings, OpenPmem, WritePmem, ConvertDies
          <5>6. QED  BY <5>1, <5>2, <5>3, <5>4, <5>5
        <4>2. QED  BY <4>1
      <3>4. QED  BY <3>1, <3>2, <3>3
    <2>3. QED  BY <2>1, <2>2 DEF Awaited, Chks, Root
  <1>3. QED  BY <1>1, <1>2, IInvInvariant, UnconvertedInvariant, PTL DEF Spec
=============================================================================
