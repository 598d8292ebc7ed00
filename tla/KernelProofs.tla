---------------------------- MODULE KernelProofs ----------------------------
(***************************************************************************)
(* Proofs about Kernel and Shell, for every value of the constants: the    *)
(* kernel is the process management of Process, its other two parts are    *)
(* the driver of Keyboard and the tables of Files, and the programs of the *)
(* image leave nothing behind on it.                                       *)
(***************************************************************************)
EXTENDS Shell, ProcessProofs

-----------------------------------------------------------------------------
(* The kernel is Process.                                                  *)

\* What a step of the kernel does to processes is a step of process.c.
LEMMA KernelStepIsStep ==
  ASSUME [KernelNext]_kernelVars
  PROVE  [Next]_procVars
<1>1. CASE KernelStep
  <2>1. CASE Tick
    BY <2>1 DEF Tick, Next
  <2>2. CASE \E ch \in Char : KeyIrq(ch)
    BY <2>2 DEF KeyIrq, Next
  <2>3. CASE \E n \in 1 .. MaxSleep : KSleep(n)
    BY <2>3 DEF KSleep, Next
  <2>4. CASE KReadKey \/ KReadKeySleeps
    BY <2>4 DEF KReadKey, KReadKeySleeps, Next
  <2>5. CASE KExit
    BY <2>5 DEF KExit, Next
  <2>6. CASE \E f \in File : KOpen(f) \/ KExec(f)
    BY <2>6 DEF KOpen, KExec, KExit, Next
  <2>7. CASE \E fd \in Tables!Fd : KClose(fd)
    BY <2>7 DEF KClose
  <2>8. CASE \E fd \in Tables!Fd, n \in 0 .. MaxRead : KRead(fd, n)
    BY <2>8 DEF KRead
  <2>9. CASE KFork
    BY <2>9 DEF KFork, Next
  <2>10. CASE \E n \in 1 .. MaxPid : KWait(n)
    BY <2>10 DEF KWait, Next
  <2>11. CASE KContinue
    BY <2>11 DEF KContinue, KSleepLoop, KReadKeyWoken, KWaitLoop, Next
  <2> QED BY <1>1, <2>1, <2>2, <2>3, <2>4, <2>5, <2>6, <2>7, <2>8, <2>9, <2>10, <2>11
     DEF KernelStep
<1>2. CASE KHang \/ UNCHANGED kernelVars
  BY <1>2 DEF KHang, kernelVars
<1> QED BY <1>1, <1>2 DEF KernelNext

\* What is done to keys and files leaves the processes to process.c: the
\* composed kernel implements Process, and so has all its properties.
THEOREM KernelIsProcess == KernelSpec => Spec
<1>1. (\E f \in File : KernelInit(f)) => Init
  BY DEF KernelInit
<1> QED BY <1>1, KernelStepIsStep, PTL DEF KernelSpec, Spec

\* Hence the kernel has what is proved of Process.
LEMMA KernelInvariant == KernelSpec => []IInv
BY KernelIsProcess, Invariant, PTL

\* A step of the kernel keeps the inductive invariant of Process.
LEMMA KernelStepInv ==
  ASSUME IInv, [KernelNext]_kernelVars
  PROVE  IInv'
BY KernelStepIsStep, NextInv

-----------------------------------------------------------------------------
(* What the steps of Process do to the slots and to the wait list.         *)

\* Which slots are free and which killed shows in the pids and the kill list.
LifeIn(pids, killed) ==
  [p \in Proc |-> IF pids[p] = 0 THEN "free" ELSE IF p \in ToSet(killed) THEN "killed" ELSE "live"]

LEMMA LifeOfState == IInv => life = LifeIn(pid, kill_list)
<1> SUFFICES ASSUME IInv, NEW p \in Proc
             PROVE  life[p] = LifeIn(pid, kill_list)[p]
  BY DEF life, LifeIn
<1>1. state[p] # "UNUSED" <=> pid[p] > 0
  BY DEF IInv, PidsIdentify
<1>2. pid[p] \in Nat
  BY SlotFacts DEF IInv, TypeOK
<1>3. state[p] = "KILLED" <=> p \in ToSet(kill_list)
  BY DEF IInv, ListsMatchStates
<1> QED BY <1>1, <1>2, <1>3 DEF life, LifeIn

LEMMA LifeOfNextState == IInv' => life' = LifeIn(pid', kill_list')
<1> SUFFICES ASSUME IInv', NEW p \in Proc
             PROVE  life'[p] = LifeIn(pid', kill_list')[p]
  BY DEF life, LifeIn
<1>1. state'[p] # "UNUSED" <=> pid'[p] > 0
  BY DEF IInv, PidsIdentify
<1>2. pid'[p] \in Nat
  BY SlotFacts DEF IInv, TypeOK
<1>3. state'[p] = "KILLED" <=> p \in ToSet(kill_list')
  BY DEF IInv, ListsMatchStates
<1> QED BY <1>1, <1>2, <1>3 DEF life, LifeIn

\* Only exit(), fork() and wait() change which slots are in use.
LEMMA LifeKept ==
  ASSUME IInv, IInv', UNCHANGED <<pid, kill_list>>
  PROVE  UNCHANGED life
BY LifeOfState, LifeOfNextState

LEMMA CallerLives ==
  ASSUME IInv, NEW c, call[current_process] = c, c = "user" => current_process # Idle
  PROVE  current_process \in Proc /\ life[current_process] = "live"
BY CallerRuns DEF life

LEMMA ExitKills ==
  ASSUME IInv, IInv', Exit
  PROVE  life' = [life EXCEPT ![current_process] = "killed"]
<1> DEFINE cur == current_process
<1>1. pid' = pid /\ kill_list' = Append(kill_list, cur)
  BY DEF Exit
<1>2. cur \in Proc /\ state[cur] = "RUNNING"
  BY CallerRuns DEF Exit, InUser, IrqOpen
<1>3. kill_list \in Seq(Proc) /\ pid[cur] # 0
  BY <1>2, SlotFacts DEF IInv, TypeOK, PidsIdentify
<1>4. ToSet(kill_list') = ToSet(kill_list) \cup {cur}
  BY <1>1, <1>2, <1>3, AppendItems
<1>5. life = LifeIn(pid, kill_list) /\ life' = LifeIn(pid, kill_list')
  BY <1>1, LifeOfState, LifeOfNextState
<1> QED BY <1>2, <1>3, <1>4, <1>5 DEF LifeIn

LEMMA ForkTakesFree ==
  ASSUME IInv, IInv', Fork, Unused # {}
  PROVE  LET child == Min(Unused)
         IN  /\ child \in Proc /\ life[child] = "free"
             /\ life' = [life EXCEPT ![child] = "live"]
<1> DEFINE child == Min(Unused)
<1>1. child \in Unused
  BY SlotFacts, MinOfNats DEF Unused
<1> HIDE DEF child
<1>2. child \in Proc /\ state[child] = "UNUSED"
  BY <1>1, SlotFacts DEF Unused, IInv, OneRunning
<1>3. pid' = [pid EXCEPT ![child] = pid_num] /\ kill_list' = kill_list
  BY DEF Fork, child
<1>4. child \notin ToSet(kill_list) /\ pid_num # 0
  <2>1. child \notin ToSet(kill_list)
    BY <1>2 DEF IInv, ListsMatchStates
  <2>2. pid[child] \in Nat /\ pid_num \in Nat /\ pid[child] < pid_num
    BY <1>2, SlotFacts DEF IInv, TypeOK, PidsIdentify
  <2> QED BY <2>1, <2>2
<1>5. life = LifeIn(pid, kill_list) /\ life' = LifeIn(pid', kill_list)
  BY <1>3, LifeOfState, LifeOfNextState
<1>6. pid \in [Slot -> Nat]
  BY DEF IInv, TypeOK
<1>7. life' = [life EXCEPT ![child] = "live"]
  BY <1>2, <1>3, <1>4, <1>5, <1>6, SlotFacts DEF LifeIn
<1>8. life[child] = "free"
  BY <1>2 DEF life
<1> QED BY <1>2, <1>7, <1>8 DEF child

LEMMA ReapFrees ==
  ASSUME IInv, IInv', NEW k \in DOMAIN kill_list, Reap(k)
  PROVE  /\ kill_list[k] \in Proc /\ life[kill_list[k]] = "killed"
         /\ life' = [life EXCEPT ![kill_list[k]] = "free"]
<1> DEFINE r == kill_list[k]
<1>1. kill_list \in Seq(Proc) /\ OnceEach(kill_list) /\ r \in ToSet(kill_list)
  BY DEF IInv, TypeOK, ListsMatchStates, ToSet
<1>2. r \in Proc /\ state[r] = "KILLED"
  BY <1>1 DEF IInv, ListsMatchStates
<1>3. kill_list' = Unlink(kill_list, k) /\ pid' = [pid EXCEPT ![r] = 0]
  BY <1>2 DEF Reap
<1>4. ToSet(kill_list') = ToSet(kill_list) \ {r}
  BY <1>1, <1>3, UnlinkItems
<1>5. life = LifeIn(pid, kill_list) /\ life' = LifeIn(pid', kill_list')
  BY LifeOfState, LifeOfNextState
<1>6. pid \in [Slot -> Nat]
  BY DEF IInv, TypeOK
<1>7. life' = [life EXCEPT ![r] = "free"]
  BY <1>2, <1>3, <1>4, <1>5, <1>6, SlotFacts DEF LifeIn
<1>8. life[r] = "killed"
  BY <1>2 DEF life
<1> QED BY <1>2, <1>7, <1>8

-----------------------------------------------------------------------------
(* The kernel's files are Files.                                           *)

LEMMA KernelStepIsFiles ==
  ASSUME IInv, [KernelNext]_kernelVars
  PROVE  [Tables!Next]_(Tables!fileVars)
<1> DEFINE cur == current_process
<1>1. IInv'
  BY KernelStepInv
<1>2. ASSUME UNCHANGED tableVars, UNCHANGED <<pid, kill_list>>
      PROVE  UNCHANGED Tables!fileVars
  BY <1>1, <1>2, LifeKept DEF tableVars, Tables!fileVars
<1>3. ASSUME InUser, fs_panic = "none"
      PROVE  cur \in Proc /\ Tables!Running(cur)
  BY <1>3, CallerLives DEF InUser, IrqOpen, Tables!Running
<1>4. ASSUME UNCHANGED procVars PROVE UNCHANGED life
  BY <1>4 DEF procVars, life
<1>5. ASSUME Exit, fs_panic = "none", UNCHANGED tableVars PROVE Tables!Next
  <2>1. cur \in Proc /\ Tables!Running(cur)
    BY <1>3, <1>5 DEF Exit
  <2>2. Tables!exit(cur)
    BY <1>1, <1>5, <2>1, ExitKills DEF Tables!exit, tableVars
  <2> QED BY <2>1, <2>2 DEF Tables!Next
<1>6. CASE KernelStep /\ fs_panic = "none"
  <2>1. CASE Tick
    BY <1>2, <2>1 DEF Tick, TimerIrq
  <2>2. CASE \E ch \in Char : KeyIrq(ch)
    BY <1>2, <2>2 DEF KeyIrq, UartIrq
  <2>3. CASE \E n \in 1 .. MaxSleep : KSleep(n)
    BY <1>2, <2>3 DEF KSleep, SysSleep
  <2>4. CASE KReadKey
    BY <1>2, <2>4 DEF KReadKey, procVars
  <2>5. CASE KReadKeySleeps
    BY <1>2, <2>5 DEF KReadKeySleeps, SysKeyboardRead
  <2>6. CASE KExit
    BY <1>5, <1>6, <2>6 DEF KExit
  <2>7. CASE \E f \in File : KOpen(f)
    <3>1. PICK f \in File : KOpen(f)
      BY <2>7
    <3>2. cur \in Proc /\ Tables!open_file(cur, f)
      BY <1>3, <1>4, <1>6, <3>1 DEF KOpen, Tables!open_file
    <3> QED BY <3>2 DEF Tables!Next
  <2>8. CASE \E f \in File : KExec(f)
    <3>1. PICK f \in File : KExec(f)
      BY <2>8
    <3>2. CASE CanExec
      <4>1. cur \in Proc /\ Tables!exec(cur, f)
        BY <1>3, <1>4, <1>6, <3>1, <3>2 DEF KExec, CanExec, Tables!exec
      <4> QED BY <4>1 DEF Tables!Next
    <3>3. CASE ~ CanExec
      BY <1>5, <1>6, <3>1, <3>3 DEF KExec, KExit
    <3> QED BY <3>2, <3>3
  <2>9. CASE \E fd \in Tables!Fd : KClose(fd)
    <3>1. PICK fd \in Tables!Fd : KClose(fd)
      BY <2>9
    <3>2. cur \in Proc /\ Tables!close_file(cur, fd)
      BY <1>3, <1>4, <1>6, <3>1 DEF KClose, Tables!close_file
    <3> QED BY <3>2 DEF Tables!Next
  <2>10. CASE \E fd \in Tables!Fd, n \in 0 .. MaxRead : KRead(fd, n)
    <3>1. PICK fd \in Tables!Fd, n \in 0 .. MaxRead : KRead(fd, n)
      BY <2>10
    <3>2. cur \in Proc /\ Tables!read_file(cur, fd, n)
      BY <1>3, <1>4, <1>6, <3>1 DEF KRead, Tables!read_file
    <3> QED BY <3>2 DEF Tables!Next
  <2>11. CASE KFork
    <3>1. CASE Unused = {}
      BY <1>2, <2>11, <3>1 DEF KFork, Fork
    <3>2. CASE Unused # {}
      <4> DEFINE child == Min(Unused)
      <4>1. Fork /\ Tables!CopyFiles(cur, child)
        BY <2>11, <3>2 DEF KFork
      <4>2. child \in Proc /\ life[child] = "free" /\ life' = [life EXCEPT ![child] = "live"]
        BY <1>1, <3>2, <4>1, ForkTakesFree
      <4>3. cur \in Proc /\ Tables!Running(cur)
        BY <1>3, <1>6, <4>1 DEF Fork
      <4> HIDE DEF child
      <4>4. Tables!fork(cur, child)
        BY <4>1, <4>2, <4>3 DEF Tables!fork
      <4> QED BY <4>2, <4>3, <4>4 DEF Tables!Next
    <3> QED BY <3>1, <3>2
  <2>12. ASSUME NEW n, cur \in Proc, Tables!Running(cur), WaitRound(n), WaitFiles(n)
         PROVE  Tables!Next \/ UNCHANGED Tables!fileVars
    <3> DEFINE found == Matches(kill_list, wait, n)
               k == Min(found)
    <3>1. CASE found = {}
      BY <1>2, <2>12, <3>1 DEF WaitRound, WaitFiles
    <3>2. CASE found # {}
      <4>1. k \in DOMAIN kill_list
        <5>1. kill_list \in Seq(Proc)
          BY DEF IInv, TypeOK
        <5>2. found \subseteq DOMAIN kill_list /\ DOMAIN kill_list \subseteq Nat
          BY <5>1 DEF Matches
        <5> QED BY <3>2, <5>2, MinOfNats
      <4>2. Reap(k) /\ Tables!ClearFiles(kill_list[k])
        BY <2>12, <3>2 DEF WaitRound, WaitFiles
      <4> HIDE DEF k
      <4>3. /\ kill_list[k] \in Proc /\ life[kill_list[k]] = "killed"
            /\ life' = [life EXCEPT ![kill_list[k]] = "free"]
        BY <1>1, <4>1, <4>2, ReapFrees
      <4>4. Tables!wait(kill_list[k])
        BY <1>6, <2>12, <4>2, <4>3 DEF Tables!wait
      <4> QED BY <4>3, <4>4 DEF Tables!Next
    <3> QED BY <3>1, <3>2
  <2>13. CASE \E n \in 1 .. MaxPid : KWait(n)
    BY <1>3, <1>6, <2>12, <2>13 DEF KWait, SysWait
  <2>14. CASE KContinue
    <3>1. CASE KSleepLoop
      BY <1>2, <3>1 DEF KSleepLoop, SysSleepLoop
    <3>2. CASE KReadKeyWoken
      BY <1>2, <3>2 DEF KReadKeyWoken, KeyboardReadReturns, tableVars
    <3>3. CASE KWaitLoop
      <4>1. cur \in Proc /\ Tables!Running(cur)
        BY <1>6, <3>3, CallerLives DEF KWaitLoop, WaitLoop, Continues, Tables!Running
      <4> QED BY <2>12, <3>3, <4>1 DEF KWaitLoop, WaitLoop
    <3> QED BY <2>14, <3>1, <3>2, <3>3 DEF KContinue
  <2> QED BY <1>6, <2>1, <2>2, <2>3, <2>4, <2>5, <2>6, <2>7, <2>8, <2>9, <2>10, <2>11,
             <2>13, <2>14 DEF KernelStep
<1>7. CASE KHang \/ UNCHANGED kernelVars
  BY <1>2, <1>7 DEF KHang, kernelVars, procVars
<1> QED BY <1>6, <1>7 DEF KernelNext

\* fork(), exec(), exit() and wait() of process.c, on the process table and
\* its lists, do to the tables of fs.c what Files says of them, whatever ticks
\* and keys come between: the steps of the kernel are steps of Files.
THEOREM KernelIsFiles == KernelSpec => IsFiles
BY KernelInvariant, KernelStepIsFiles, PTL DEF KernelSpec, IsFiles

\* Hence the kernel has what is proved of Files, which starts one step
\* earlier: init_process() has run when user processes begin.
FilesFacts == INSTANCE FilesProofs WITH panic <- fs_panic

LEMMA KernelInitFiles ==
  ASSUME Tables!FilesAssumption, NEW f \in File, KernelInit(f)
  PROVE  FilesFacts!FilesInv
<1>1. /\ file = [p \in Proc |-> Tables!NoFiles]
      /\ desc = [d \in Tables!Desc |-> IF d = 0 THEN Tables!Loaded(f) ELSE Tables!FreeDesc]
      /\ fcb_count = [g \in File |-> 0] /\ fs_panic = "none"
  BY DEF KernelInit
<1>2. life \in [Proc -> {"free", "live", "killed"}]
  BY DEF life
<1>3. Tables!Loaded(f) \in FilesFacts!Entry /\ Tables!FreeDesc \in FilesFacts!Entry
  BY DEF Tables!FilesAssumption, Tables!Loaded, Tables!Released, Tables!Opened,
         Tables!FreeDesc, FilesFacts!Entry
<1>4. \A p \in Proc, fd \in Tables!Fd : file[p][fd] = NULL
  BY <1>1 DEF Tables!NoFiles
<1>5. FilesFacts!TypeOK
  BY <1>1, <1>2, <1>3
     DEF FilesFacts!TypeOK, FilesFacts!Entry, Tables!NoFiles, FilesFacts!Desc,
         Tables!Desc, FilesFacts!Fd, Tables!Fd
<1> QED BY <1>4, <1>5
   DEF FilesFacts!FilesInv, FilesFacts!NoDanglingDesc, FilesFacts!HeldIsCounted,
       FilesFacts!SharesUnderOneNumber, FilesFacts!Desc, Tables!Desc, FilesFacts!Fd,
       Tables!Fd

\* Both instances have the same definitions.
LEMMA SameSteps == [Tables!Next]_(Tables!fileVars) => [FilesFacts!Next]_(FilesFacts!fileVars)
<1>1. Tables!Fd = FilesFacts!Fd /\ Tables!Desc = FilesFacts!Desc
  BY DEF Tables!Fd, FilesFacts!Fd, Tables!Desc, FilesFacts!Desc
<1>2. ASSUME NEW p PROVE Tables!Running(p) <=> FilesFacts!Running(p)
  BY DEF Tables!Running, FilesFacts!Running
<1>3. /\ Tables!FreeDescs = FilesFacts!FreeDescs
      /\ \A p : Tables!FreeFds(p) = FilesFacts!FreeFds(p)
  BY <1>1 DEF Tables!FreeDescs, FilesFacts!FreeDescs, Tables!FreeFds, FilesFacts!FreeFds
<1>4. ASSUME NEW p PROVE Tables!CanOpen(p) <=> FilesFacts!CanOpen(p)
  BY <1>3 DEF Tables!CanOpen, FilesFacts!CanOpen
<1>5. ASSUME NEW p, NEW f PROVE Tables!open_file(p, f) <=> FilesFacts!open_file(p, f)
  BY <1>2, <1>3, <1>4
     DEF Tables!Min, FilesFacts!Min, Tables!open_file, FilesFacts!open_file,
         Tables!Open, FilesFacts!Open, Tables!Opened, FilesFacts!Opened
<1>6. ASSUME NEW p, NEW fd PROVE Tables!close_file(p, fd) <=> FilesFacts!close_file(p, fd)
  BY <1>2
     DEF Tables!close_file, FilesFacts!close_file, Tables!Close, FilesFacts!Close,
         Tables!Released, FilesFacts!Released
<1>7. ASSUME NEW p, NEW fd, NEW n PROVE Tables!read_file(p, fd, n) <=> FilesFacts!read_file(p, fd, n)
  BY <1>2
     DEF Tables!read_file, FilesFacts!read_file, Tables!Read, FilesFacts!Read,
         Tables!Clusters, FilesFacts!Clusters, Tables!Walked, FilesFacts!Walked,
         Tables!InFile, FilesFacts!InFile
<1>8. ASSUME NEW f PROVE Tables!Load(f) <=> FilesFacts!Load(f)
  BY <1>3
     DEF Tables!Min, FilesFacts!Min, Tables!Load, FilesFacts!Load, Tables!Loaded,
         FilesFacts!Loaded, Tables!Released, FilesFacts!Released, Tables!Opened,
         FilesFacts!Opened
<1>9. ASSUME NEW p, NEW f PROVE Tables!init_process(p, f) <=> FilesFacts!init_process(p, f)
  BY <1>8 DEF Tables!init_process, FilesFacts!init_process
<1>10. ASSUME NEW p PROVE Tables!exit(p) <=> FilesFacts!exit(p)
  BY <1>2 DEF Tables!exit, FilesFacts!exit
<1>11. ASSUME NEW p, NEW f PROVE Tables!exec(p, f) <=> FilesFacts!exec(p, f)
  BY <1>2, <1>4, <1>8, <1>10 DEF Tables!exec, FilesFacts!exec
<1>12. ASSUME NEW p, NEW q PROVE Tables!fork(p, q) <=> FilesFacts!fork(p, q)
  <2>1. /\ \A r, e : Tables!Uses(r, e) = FilesFacts!Uses(r, e)
        /\ \A r, g : Tables!UsesOfFile(r, g) = FilesFacts!UsesOfFile(r, g)
    BY <1>1
       DEF Tables!Cardinality, FilesFacts!Cardinality, Tables!Uses, FilesFacts!Uses,
           Tables!UsesOfFile, FilesFacts!UsesOfFile
  <2>2. Tables!CopyFiles(p, q) <=> FilesFacts!CopyFiles(p, q)
    BY <1>1, <2>1 DEF Tables!CopyFiles, FilesFacts!CopyFiles
  <2> QED BY <1>2, <2>2 DEF Tables!fork, FilesFacts!fork
<1>13. ASSUME NEW q PROVE Tables!wait(q) <=> FilesFacts!wait(q)
  BY <1>1, <1>2
     DEF Tables!wait, FilesFacts!wait, Tables!ClearFiles, FilesFacts!ClearFiles,
         Tables!NoFiles, FilesFacts!NoFiles
<1>14. Tables!Stopped <=> FilesFacts!Stopped
  BY <1>2 DEF Tables!Stopped, FilesFacts!Stopped, Tables!fileVars, FilesFacts!fileVars
<1> QED BY <1>1, <1>5, <1>6, <1>7, <1>9, <1>10, <1>11, <1>12, <1>13, <1>14
        DEF Tables!Next, FilesFacts!Next, Tables!fileVars, FilesFacts!fileVars

LEMMA KernelFilesInvariant ==
  ASSUME Tables!FilesAssumption
  PROVE  KernelSpec => []FilesFacts!FilesInv
<1>1. (\E f \in File : KernelInit(f)) => FilesFacts!FilesInv
  BY KernelInitFiles
<1>2. ASSUME FilesFacts!FilesInv, [Tables!Next]_(Tables!fileVars)
      PROVE  FilesFacts!FilesInv'
  BY <1>2, SameSteps, FilesFacts!NextInv
<1> QED BY <1>1, <1>2, KernelIsFiles, PTL DEF KernelSpec, IsFiles

\* In the kernel as a whole a descriptor of a process leads to a file, and
\* free slots of the process table hold none.
THEOREM KernelDescriptorsLeadToFiles ==
  ASSUME Tables!FilesAssumption
  PROVE  KernelSpec => []Tables!NoDanglingDesc
<1>1. FilesFacts!FilesInv => Tables!NoDanglingDesc
  BY DEF FilesFacts!FilesInv, FilesFacts!NoDanglingDesc, Tables!NoDanglingDesc,
         FilesFacts!Fd, Tables!Fd
<1> QED BY <1>1, KernelFilesInvariant, PTL

\* ... and while a process holds it, through the ticks, sleeps, exits and forks
\* of all others, the file is the same and the position does not go back.
THEOREM KernelHeldDescriptorsAreStable ==
  ASSUME Tables!FilesAssumption
  PROVE  KernelSpec => Tables!HeldDescIsStable
<1>1. FilesFacts!FilesInv /\ [Tables!Next]_(Tables!fileVars)
        => [ \A p \in Proc, fd \in Tables!Fd :
               LET d == file[p][fd]
               IN  d # NULL /\ file'[p][fd] = d
                     => desc'[d].fcb = desc[d].fcb
                        /\ desc'[d].position >= desc[d].position ]_(Tables!fileVars)
  BY SameSteps, FilesFacts!StepHeldStable
     DEF FilesFacts!Kept, FilesFacts!Stable, FilesFacts!Fd, Tables!Fd
<1> QED BY <1>1, KernelFilesInvariant, KernelIsFiles, PTL
        DEF IsFiles, Tables!HeldDescIsStable

\* ... and it shares a position only with those it comes by fork() from, or
\* that come from it or from the same parent: slots that wait() frees and
\* fork() takes again bring none along.
THEOREM KernelPositionsSharedByFork ==
  ASSUME Tables!FilesAssumption
  PROVE  KernelSpec => Tables!SharesOnlyByFork
<1>1. FilesFacts!FilesInv /\ [Tables!Next]_(Tables!fileVars)
        => [ \A p, q \in Proc, fd, gd \in Tables!Fd :
               Tables!Share(p, fd, q, gd)' /\ ~ Tables!Share(p, fd, q, gd)
                 => /\ fd = gd /\ p # q
                    /\ \E child \in {p, q}, parent \in Proc :
                         /\ Tables!Inherits(child, parent)
                         /\ \A other \in {p, q} \ {child} :
                              file[other][fd] = file[parent][fd] ]_(Tables!fileVars)
  BY SameSteps, FilesFacts!StepShares
     DEF FilesFacts!Share, Tables!Share, FilesFacts!Inherits, Tables!Inherits,
         FilesFacts!Fd, Tables!Fd
<1> QED BY <1>1, KernelFilesInvariant, KernelIsFiles, PTL
        DEF IsFiles, Tables!SharesOnlyByFork

-----------------------------------------------------------------------------
(* The kernel's keyboard is Keyboard.                                      *)

\* A step that no reader of the keyboard takes part in.
LEMMA PcKept ==
  ASSUME \A p \in Proc :
           /\ call'[p] = "read_key_buffer" <=> call[p] = "read_key_buffer"
           /\ call[p] = "read_key_buffer" => (state'[p] = "SLEEP" <=> state[p] = "SLEEP")
  PROVE  UNCHANGED pc
<1> SUFFICES ASSUME NEW p \in Proc PROVE pc'[p] = pc[p]
  BY DEF pc
<1>1. CASE call[p] # "read_key_buffer"
  BY <1>1 DEF pc
<1>2. CASE call[p] = "read_key_buffer" /\ state[p] = "SLEEP"
  BY <1>2 DEF pc
<1>3. CASE call[p] = "read_key_buffer" /\ state[p] # "SLEEP"
  BY <1>3 DEF pc
<1> QED BY <1>1, <1>2, <1>3

\* Of all the codes processes are woken by, a reader sleeps on its own.
LEMMA WakeUpReaders ==
  ASSUME IInv, NEW p \in Proc, call[p] = "read_key_buffer"
  PROVE  /\ WakeUpStates(ForKey)[p] # "SLEEP"
         /\ \A w \in {ForTick, ForExit} : WakeUpStates(w)[p] = "SLEEP" <=> state[p] = "SLEEP"
<1>1. TypeOK /\ ListsMatchStates /\ p \in Slot
  BY SlotFacts DEF IInv
<1>2. state[p] = "SLEEP" => wait[p] = ForKey
  BY DEF IInv, SleepersAreInCalls, CodeOf
<1>3. /\ ForKey \in Int /\ ForTick \in Int /\ ForExit \in Int
      /\ ForKey # ForTick /\ ForKey # ForExit
  BY DEF ForKey, ForTick, ForExit
<1>4. \A w \in {ForTick, ForKey, ForExit} : WakeUpStates(w)[p] =
        IF state[p] = "SLEEP" /\ p \in Proc /\ wait[p] = w THEN "READY" ELSE state[p]
  BY <1>1, <1>3, WakeUpMoves
<1> QED BY <1>2, <1>3, <1>4

LEMMA TickKeepsReaders == ASSUME IInv, TimerIrq PROVE UNCHANGED pc
<1> DEFINE st == WakeUpStates(ForTick)
<1>1. call' = call /\ Yield(st, WakeUpReady(ForTick))
  BY DEF TimerIrq
<1>2. /\ ListsOK(st, WakeUpReady(ForTick), WakeUpWait(ForTick), kill_list)
      /\ \A p \in Slot : st[p] =
           IF state[p] = "SLEEP" /\ p \in Proc /\ wait[p] = ForTick THEN "READY" ELSE state[p]
  <2>1. ForTick \in Int /\ TypeOK /\ ListsMatchStates
    BY DEF ForTick, IInv
  <2> QED BY <2>1, WakeUpMoves
<1>3. ASSUME NEW p \in Proc, call[p] = "read_key_buffer"
      PROVE  st[p] = "SLEEP" <=> state[p] = "SLEEP"
  BY <1>3, WakeUpReaders
<1> HIDE DEF st
<1>4. {p \in Slot : st[p] = "RUNNING"} = {current_process}
  BY <1>2 DEF IInv, OneRunning
<1>5. current_process = Idle <=> pid[current_process] = 0
  BY SlotFacts DEF IInv, OneRunning, PidsIdentify, TypeOK
<1>6. \A p \in Slot : state'[p] = st[p] \/ {st[p], state'[p]} \subseteq {"RUNNING", "READY"}
                      \/ (p = Idle /\ state'[p] \in {"RUNNING", "READY"})
  BY <1>1, <1>2, <1>4, <1>5, YieldSwitches
<1>7. \A p \in Proc : state'[p] = "SLEEP" <=> st[p] = "SLEEP"
  BY <1>6, SlotFacts
<1> QED BY <1>1, <1>3, <1>7, PcKept

LEMMA SleepKeepsOthers ==
  ASSUME IInv, current_process \in Proc, state[current_process] = "RUNNING",
         NEW w \in Int, Sleep(w)
  PROVE  /\ state'[current_process] = "SLEEP"
         /\ \A p \in Proc \ {current_process} : state'[p] = "SLEEP" <=> state[p] = "SLEEP"
<1>1. state \in [Slot -> ProcState]
  BY DEF IInv, TypeOK
<1>2. /\ current_process' \in Slot \ {current_process}
      /\ current_process' = Idle \/ state[current_process'] = "READY"
      /\ state' = [state EXCEPT ![current_process] = "SLEEP", ![current_process'] = "RUNNING"]
  BY SleepSwitches DEF IInv
<1> QED BY <1>1, <1>2, SlotFacts

\* The current process sleeps in a call that is not read_key_buffer().
LEMMA SleepKeepsReaders ==
  ASSUME IInv, current_process \in Proc, call[current_process] # "read_key_buffer",
         state[current_process] = "RUNNING",
         NEW w \in Int, Sleep(w), NEW c \in Call \ {"read_key_buffer"},
         call' = [call EXCEPT ![current_process] = c]
  PROVE  UNCHANGED pc
<1>1. \A p \in Proc : call'[p] = IF p = current_process THEN c ELSE call[p]
  BY SlotFacts DEF IInv, TypeOK
<1> QED BY <1>1, SleepKeepsOthers, PcKept

LEMMA ExitKeepsReaders == ASSUME IInv, Exit PROVE UNCHANGED pc
<1> DEFINE cur == current_process
           st == WakeUpStates(ForExit)
           st1 == [st EXCEPT ![cur] = "KILLED"]
<1>1. /\ kill_list' = Append(kill_list, cur)
      /\ Schedule(st1, WakeUpReady(ForExit))
      /\ call' = [call EXCEPT ![cur] = "exit"]
      /\ call[cur] = "user"
  BY DEF Exit, InUser, IrqOpen
<1>2. cur \in Proc /\ cur \in Slot /\ state[cur] = "RUNNING"
  BY CallerRuns, SlotFacts DEF Exit, InUser, IrqOpen
<1>3. /\ ListsOK(st, WakeUpReady(ForExit), WakeUpWait(ForExit), kill_list)
      /\ \A p \in Slot : st[p] =
           IF state[p] = "SLEEP" /\ p \in Proc /\ wait[p] = ForExit THEN "READY" ELSE state[p]
  <2>1. ForExit \in Int /\ TypeOK /\ ListsMatchStates
    BY DEF ForExit, IInv
  <2> QED BY <2>1, WakeUpMoves
<1>4. ASSUME NEW p \in Proc, call[p] = "read_key_buffer"
      PROVE  st[p] = "SLEEP" <=> state[p] = "SLEEP"
  BY <1>4, WakeUpReaders
<1> HIDE DEF st
<1>5. ListsOK(st1, WakeUpReady(ForExit), WakeUpWait(ForExit), kill_list')
  <2>1. st[cur] = "RUNNING"
    BY <1>2, <1>3
  <2> QED BY <1>1, <1>2, <1>3, <2>1, AppendRunning
<1>6. \A p \in Slot : st1[p] = IF p = cur THEN "KILLED" ELSE st[p]
  BY <1>2, <1>3 DEF ListsOK
<1>7. \A p \in Slot : st1[p] # "RUNNING"
  BY <1>3, <1>6 DEF IInv, OneRunning
<1> HIDE DEF st1
<1>8. /\ current_process' \in Slot
      /\ current_process' = Idle \/ st1[current_process'] = "READY"
      /\ state' = [st1 EXCEPT ![current_process'] = "RUNNING"]
  BY <1>1, <1>5, <1>7, ScheduleRuns
<1>9. \A p \in Slot : state'[p] = IF p = current_process' THEN "RUNNING" ELSE st1[p]
  BY <1>5, <1>8 DEF ListsOK
<1>10. \A p \in Proc \ {cur} : state'[p] = "SLEEP" <=> st[p] = "SLEEP"
  BY <1>6, <1>8, <1>9, SlotFacts
<1>11. \A p \in Proc : call'[p] = IF p = cur THEN "exit" ELSE call[p]
  BY <1>1, SlotFacts DEF IInv, TypeOK
<1> QED BY <1>1, <1>4, <1>10, <1>11, PcKept

\* A round of wait() by a process that is not a reader frees one that is not.
LEMMA WaitKeepsReaders ==
  ASSUME IInv, current_process \in Proc, call[current_process] \in {"user", "wait"},
         state[current_process] = "RUNNING", NEW target, WaitRound(target)
  PROVE  UNCHANGED pc
<1> DEFINE found == Matches(kill_list, wait, target)
           k == Min(found)
<1>1. CASE found = {}
  <2>1. Sleep(ForExit) /\ call' = [call EXCEPT ![current_process] = "wait"]
    BY <1>1 DEF WaitRound
  <2>2. ForExit \in Int /\ "wait" \in Call \ {"read_key_buffer"}
    BY DEF ForExit, Call
  <2> QED BY <2>1, <2>2, SleepKeepsReaders
<1>2. CASE found # {}
  <2>1. Reap(k)
    BY <1>2 DEF WaitRound
  <2>2. kill_list \in Seq(Proc)
    BY DEF IInv, TypeOK
  <2>3. found \subseteq DOMAIN kill_list /\ DOMAIN kill_list \subseteq Nat
    BY <2>2 DEF Matches
  <2>4. k \in DOMAIN kill_list
    BY <1>2, <2>3, MinOfNats
  <2> HIDE DEF k
  <2> DEFINE r == kill_list[k]
  <2>5. r \in Proc /\ r \in Slot /\ state[r] = "KILLED" /\ call[r] = "exit"
    <3>1. r \in Proc /\ r \in ToSet(kill_list)
      BY <2>2, <2>4 DEF ToSet
    <3>2. state[r] = "KILLED"
      BY <3>1 DEF IInv, ListsMatchStates
    <3> QED BY <3>1, <3>2, SlotFacts DEF IInv, SleepersAreInCalls
  <2> HIDE DEF r
  <2>6. /\ state' = [state EXCEPT ![r] = "UNUSED"]
        /\ call' = [call EXCEPT ![r] = "user", ![current_process] = "user"]
    BY <2>1, <2>5 DEF Reap, r
  <2>7. state \in [Slot -> ProcState] /\ call \in [Slot -> Call]
    BY DEF IInv, TypeOK
  <2>8. \A p \in Proc : /\ state'[p] = IF p = r THEN "UNUSED" ELSE state[p]
                        /\ call'[p] = IF p = r \/ p = current_process THEN "user" ELSE call[p]
    BY <2>5, <2>6, <2>7, SlotFacts
  <2> QED BY <2>5, <2>8, PcKept
<1> QED BY <1>1, <1>2

LEMMA KernelStepIsKeyboard ==
  ASSUME IInv, [KernelNext]_kernelVars
  PROVE  [Driver!Next]_(Driver!keyVars)
<1> DEFINE cur == current_process
<1>1. ASSUME UNCHANGED ringVars, UNCHANGED pc PROVE UNCHANGED Driver!keyVars
  BY <1>1 DEF ringVars, Driver!keyVars
<1>2. ASSUME UNCHANGED procVars PROVE UNCHANGED pc
  BY <1>2 DEF procVars, pc
<1>3. ASSUME Exit, UNCHANGED ringVars PROVE UNCHANGED Driver!keyVars
  BY <1>1, <1>3, ExitKeepsReaders
<1>4. state \in [Slot -> ProcState] /\ call \in [Slot -> Call]
  BY DEF IInv, TypeOK
<1>5. ASSUME NEW c, call[cur] = c, c = "user" => cur # Idle
      PROVE  cur \in Proc /\ state[cur] = "RUNNING"
  BY <1>5, CallerRuns
<1>6. CASE KernelStep
  <2>1. CASE Tick
    BY <1>1, <2>1, TickKeepsReaders DEF Tick
  <2>2. CASE \E ch \in Char : KeyIrq(ch)
    <3>1. PICK ch \in Char : KeyIrq(ch)
      BY <2>2
    <3>2. state' = WakeUpStates(ForKey) /\ call' = call
      BY <3>1 DEF KeyIrq, UartIrq
    <3>3. \A p \in Proc : pc'[p] = IF pc[p] = "asleep" THEN "woken" ELSE pc[p]
      <4> SUFFICES ASSUME NEW p \in Proc
                   PROVE  pc'[p] = IF pc[p] = "asleep" THEN "woken" ELSE pc[p]
        OBVIOUS
      <4>1. CASE call[p] # "read_key_buffer"
        BY <3>2, <4>1 DEF pc
      <4>2. CASE call[p] = "read_key_buffer"
        <5>1. state'[p] # "SLEEP"
          BY <3>2, <4>2, WakeUpReaders
        <5>2. pc'[p] = "woken"
          BY <3>2, <4>2, <5>1 DEF pc
        <5>3. pc[p] \in {"asleep", "woken"}
          BY <4>2 DEF pc
        <5> QED BY <5>2, <5>3
      <4> QED BY <4>1, <4>2
    <3>4. pc' = [p \in Proc |-> IF pc[p] = "asleep" THEN "woken" ELSE pc[p]]
      BY <3>3 DEF pc
    <3>5. Driver!keyboard_handler(ch)
      BY <3>1, <3>4 DEF KeyIrq, Driver!keyboard_handler
    <3> QED BY <3>5 DEF Driver!Next
  <2>3. CASE \E n \in 1 .. MaxSleep : KSleep(n)
    <3>1. PICK n \in 1 .. MaxSleep : KSleep(n)
      BY <2>3
    <3>2. call[cur] = "user" /\ cur # Idle
      BY <3>1 DEF KSleep, SysSleep, InUser, IrqOpen
    <3>3. ForTick \in Int /\ "sys_sleep" \in Call \ {"read_key_buffer"}
      BY DEF ForTick, Call
    <3>4. UNCHANGED pc
      BY <1>5, <3>1, <3>2, <3>3, SleepKeepsReaders DEF KSleep, SysSleep
    <3> QED BY <1>1, <3>1, <3>4 DEF KSleep
  <2>4. CASE KReadKey
    <3>1. cur \in Proc /\ call[cur] = "user"
      BY <1>5, <2>4 DEF KReadKey, InUser, IrqOpen
    <3>2. Driver!ReadKey(cur)
      BY <1>2, <2>4, <3>1 DEF KReadKey, Driver!ReadKey, pc
    <3> QED BY <3>1, <3>2 DEF Driver!Next
  <2>5. CASE KReadKeySleeps
    <3>1. cur \in Proc /\ call[cur] = "user" /\ state[cur] = "RUNNING"
      BY <1>5, <2>5 DEF KReadKeySleeps, SysKeyboardRead, InUser, IrqOpen
    <3>2. ForKey \in Int /\ Sleep(ForKey) /\ call' = [call EXCEPT ![cur] = "read_key_buffer"]
      BY <2>5 DEF KReadKeySleeps, SysKeyboardRead, ForKey
    <3>3. /\ state'[cur] = "SLEEP"
          /\ \A p \in Proc \ {cur} : state'[p] = "SLEEP" <=> state[p] = "SLEEP"
      BY <3>1, <3>2, SleepKeepsOthers
    <3>4. \A p \in Proc : call'[p] = IF p = cur THEN "read_key_buffer" ELSE call[p]
      BY <1>4, <3>2, SlotFacts
    <3>5. pc'[cur] = "asleep" /\ pc[cur] = "user"
      BY <3>1, <3>3, <3>4 DEF pc
    <3>6. ASSUME NEW p \in Proc \ {cur} PROVE pc'[p] = pc[p]
      <4>1. CASE call[p] # "read_key_buffer"
        BY <3>4, <4>1 DEF pc
      <4>2. CASE call[p] = "read_key_buffer" /\ state[p] = "SLEEP"
        BY <3>3, <3>4, <4>2 DEF pc
      <4>3. CASE call[p] = "read_key_buffer" /\ state[p] # "SLEEP"
        BY <3>3, <3>4, <4>3 DEF pc
      <4> QED BY <4>1, <4>2, <4>3
    <3>7. pc' = [pc EXCEPT ![cur] = "asleep"]
      BY <3>1, <3>5, <3>6 DEF pc
    <3>8. Driver!ReadKey(cur)
      BY <2>5, <3>5, <3>7 DEF KReadKeySleeps, Driver!ReadKey
    <3> QED BY <3>1, <3>8 DEF Driver!Next
  <2>6. CASE KExit
    BY <1>3, <2>6 DEF KExit
  <2>7. CASE \E f \in File : KOpen(f) \/ KExec(f)
    <3>1. PICK f \in File : KOpen(f) \/ KExec(f)
      BY <2>7
    <3>2. CASE UNCHANGED <<procVars, ringVars>>
      BY <1>1, <1>2, <3>2
    <3>3. CASE KExit
      BY <1>3, <3>3 DEF KExit
    <3> QED BY <3>1, <3>2, <3>3 DEF KOpen, KExec
  <2>8. CASE \E fd \in Tables!Fd : KClose(fd)
    BY <1>1, <1>2, <2>8 DEF KClose
  <2>9. CASE \E fd \in Tables!Fd, n \in 0 .. MaxRead : KRead(fd, n)
    BY <1>1, <1>2, <2>9 DEF KRead
  <2>10. CASE KFork
    <3>1. call' = call /\ UNCHANGED ringVars
      BY <2>10 DEF KFork, Fork
    <3>2. \A p \in Proc : state'[p] = "SLEEP" <=> state[p] = "SLEEP"
      <4>1. CASE Unused = {}
        BY <2>10, <4>1 DEF KFork, Fork
      <4>2. CASE Unused # {}
        <5> DEFINE child == Min(Unused)
        <5>1. child \in Unused
          BY <4>2, SlotFacts, MinOfNats DEF Unused
        <5>2. state' = [state EXCEPT ![child] = "READY"]
          BY <2>10, <4>2 DEF KFork, Fork
        <5> HIDE DEF child
        <5> QED BY <1>4, <5>1, <5>2, SlotFacts DEF Unused
      <4> QED BY <4>1, <4>2
    <3> QED BY <1>1, <3>1, <3>2, PcKept
  <2>11. CASE \E n \in 1 .. MaxPid : KWait(n)
    <3>1. PICK n \in 1 .. MaxPid : KWait(n)
      BY <2>11
    <3>2. call[cur] = "user" /\ cur # Idle /\ WaitRound(n)
      BY <3>1 DEF KWait, SysWait, InUser, IrqOpen
    <3>3. UNCHANGED pc
      BY <1>5, <3>2, WaitKeepsReaders
    <3> QED BY <1>1, <3>1, <3>3 DEF KWait
  <2>12. CASE KContinue
    <3>1. CASE KSleepLoop
      <4>1. /\ cur \in Proc /\ state[cur] = "RUNNING" /\ call[cur] = "sys_sleep"
            /\ UNCHANGED ringVars
        BY <1>5, <3>1 DEF KSleepLoop, SysSleepLoop, Continues
      <4>2. CASE arg[cur] > 0
        <5>1. Sleep(ForTick) /\ call' = [call EXCEPT ![cur] = "sys_sleep"]
          BY <1>4, <3>1, <4>1, <4>2, SlotFacts DEF KSleepLoop, SysSleepLoop
        <5>2. ForTick \in Int /\ "sys_sleep" \in Call \ {"read_key_buffer"}
          BY DEF ForTick, Call
        <5>3. UNCHANGED pc
          BY <4>1, <5>1, <5>2, SleepKeepsReaders
        <5> QED BY <1>1, <4>1, <5>3
      <4>3. CASE ~ (arg[cur] > 0)
        <5>1. call' = [call EXCEPT ![cur] = "user"] /\ state' = state
          BY <3>1, <4>3 DEF KSleepLoop, SysSleepLoop, Return
        <5>2. UNCHANGED pc
          BY <1>4, <4>1, <5>1, SlotFacts, PcKept
        <5> QED BY <1>1, <4>1, <5>2
      <4> QED BY <4>2, <4>3
    <3>2. CASE KReadKeyWoken
      <4>1. /\ cur \in Proc /\ state[cur] = "RUNNING" /\ call[cur] = "read_key_buffer"
        BY <1>5, <3>2 DEF KReadKeyWoken, KeyboardReadReturns, Continues
      <4>2. call' = [call EXCEPT ![cur] = "user"] /\ state' = state
        BY <3>2 DEF KReadKeyWoken, KeyboardReadReturns, Return
      <4>3. \A p \in Proc : call'[p] = IF p = cur THEN "user" ELSE call[p]
        BY <1>4, <4>2, SlotFacts
      <4>4. pc[cur] = "woken" /\ pc' = [pc EXCEPT ![cur] = "user"]
        <5>1. pc[cur] = "woken" /\ pc'[cur] = "user"
          BY <4>1, <4>3 DEF pc
        <5>2. \A p \in Proc \ {cur} : pc'[p] = pc[p]
          BY <4>2, <4>3 DEF pc
        <5> QED BY <4>1, <5>1, <5>2 DEF pc
      <4>5. Driver!ReadKeyWoken(cur)
        BY <3>2, <4>4 DEF KReadKeyWoken, Driver!ReadKeyWoken
      <4> QED BY <4>1, <4>5 DEF Driver!Next
    <3>3. CASE KWaitLoop
      <4>1. /\ cur \in Proc /\ state[cur] = "RUNNING" /\ call[cur] = "wait"
            /\ WaitRound(arg[cur]) /\ UNCHANGED ringVars
        BY <1>5, <3>3 DEF KWaitLoop, WaitLoop, Continues
      <4>2. UNCHANGED pc
        BY <4>1, WaitKeepsReaders
      <4> QED BY <1>1, <4>1, <4>2
    <3> QED BY <2>12, <3>1, <3>2, <3>3 DEF KContinue
  <2> QED BY <1>6, <2>1, <2>2, <2>3, <2>4, <2>5, <2>6, <2>7, <2>8, <2>9, <2>10, <2>11,
             <2>12 DEF KernelStep
<1>7. CASE KHang \/ UNCHANGED kernelVars
  BY <1>1, <1>2, <1>7 DEF KHang, kernelVars
<1> QED BY <1>6, <1>7 DEF KernelNext

\* sleep(-2), wake_up(-2) and the scheduler give read_key_buffer() what
\* Keyboard takes for granted, with every other sleeper, exit and reuse of a
\* slot beside it: the composed kernel implements the driver.
THEOREM KernelIsKeyboard == KernelSpec => IsKeyboard
<1>1. (\E f \in File : KernelInit(f)) => Driver!Init
  <2> SUFFICES ASSUME NEW f \in File, KernelInit(f) PROVE Driver!Init
    OBVIOUS
  <2>1. pc = [p \in Proc |-> "user"]
    BY SlotFacts DEF KernelInit, Init, pc
  <2> QED BY <2>1 DEF KernelInit, Driver!Init
<1> QED BY <1>1, KernelInvariant, KernelStepIsKeyboard, PTL
        DEF KernelSpec, IsKeyboard, Driver!Spec

-----------------------------------------------------------------------------
(* The counts of open files in the kernel.                                 *)

\* init_process() opens INIT once and closes it, so its entry is counted.
LEMMA KernelInitCounts ==
  ASSUME Tables!FilesAssumption, NEW f \in File, KernelInit(f)
  PROVE  FilesFacts!CountsInv
<1>1. /\ file = [p \in Proc |-> Tables!NoFiles]
      /\ fcb_count = [g \in File |-> 0] /\ fs_panic = "none"
      /\ desc = [d \in Tables!Desc |-> IF d = 0 THEN Tables!Loaded(f) ELSE Tables!FreeDesc]
  BY DEF KernelInit
<1>2. \A p \in Proc, fd \in FilesFacts!Fd : file[p][fd] = NULL
  BY <1>1 DEF Tables!NoFiles, Tables!Fd, FilesFacts!Fd
<1>3. \A g \in File : FilesFacts!HoldersOfFile(g) = {}
  BY <1>2 DEF FilesFacts!HoldersOfFile
<1>4. \A d \in FilesFacts!Desc : FilesFacts!Holders(d) = {} /\ desc[d].count \in Nat
  <2>1. FilesFacts!FilesInv
    BY KernelInitFiles
  <2>2. \A d \in FilesFacts!Desc : d # NULL /\ desc[d].count \in Nat
    BY <2>1 DEF FilesFacts!FilesInv, FilesFacts!TypeOK, FilesFacts!Desc, Tables!FilesAssumption
  <2> QED BY <1>2, <2>2 DEF FilesFacts!Holders
<1>5. FilesFacts!Cardinality({}) = 0
  BY FS_EmptySet DEF FilesFacts!Cardinality
<1>6. \A g \in File : fcb_count[g] >= FilesFacts!Cardinality(FilesFacts!HoldersOfFile(g))
  <2> TAKE g \in File
  <2>1. FilesFacts!Cardinality(FilesFacts!HoldersOfFile(g)) = 0 /\ fcb_count[g] = 0
    BY <1>1, <1>3, <1>5
  <2> QED BY <2>1
<1>7. \A d \in FilesFacts!Desc : desc[d].count >= FilesFacts!Cardinality(FilesFacts!Holders(d))
  <2> TAKE d \in FilesFacts!Desc
  <2>1. FilesFacts!Cardinality(FilesFacts!Holders(d)) = 0 /\ desc[d].count \in Nat
    BY <1>4, <1>5
  <2> QED BY <2>1
<1>8. FilesFacts!CountsCoverHolders
  BY <1>1, <1>6, <1>7 DEF FilesFacts!CountsCoverHolders
<1> QED BY <1>8, KernelInitFiles DEF FilesFacts!CountsInv

\* The counts of fs.c go on covering their holders, as in Files.
LEMMA KernelStepCounts ==
  ASSUME Tables!FilesAssumption, IInv, FilesFacts!CountsInv, [KernelNext]_kernelVars
  PROVE  FilesFacts!CountsInv'
<1>1. [FilesFacts!Next]_(FilesFacts!fileVars)
  BY KernelStepIsFiles, SameSteps
<1>2. IsFiniteSet(Proc)
  <2>1. 0 \in Int /\ NUM_PROC - 1 \in Int
    BY ProcessAssumption
  <2>2. IsFiniteSet(0 .. NUM_PROC - 1)
    BY <2>1, FS_Interval
  <2> QED BY <2>2, FS_Subset DEF Proc, Slot
<1>3. FilesFacts!IsFiniteSet(Proc)
  BY <1>2 DEF IsFiniteSet, FilesFacts!IsFiniteSet
<1>4. FilesFacts!FilesAssumption
  BY DEF Tables!FilesAssumption, FilesFacts!FilesAssumption
<1> QED BY <1>1, <1>3, <1>4, FilesFacts!NextCounts

\* close_file() of one process never gives up an FCB that another still has a
\* descriptor of, however the descriptors came to be shared, and put_fcb()'s
\* ASSERT never fails in the kernel.
THEOREM KernelCountsAreSound ==
  ASSUME Tables!FilesAssumption
  PROVE  KernelSpec => []Tables!CountsCoverHolders
<1>1. (\E f \in File : KernelInit(f)) => FilesFacts!CountsInv
  BY KernelInitCounts
<1>2. IInv /\ FilesFacts!CountsInv /\ [KernelNext]_kernelVars => FilesFacts!CountsInv'
  BY KernelStepCounts
<1>3. FilesFacts!CountsInv => Tables!CountsCoverHolders
  BY DEF FilesFacts!CountsInv, FilesFacts!CountsCoverHolders, Tables!CountsCoverHolders,
         FilesFacts!Holders, Tables!Holders, FilesFacts!HoldersOfFile, Tables!HoldersOfFile,
         FilesFacts!Desc, Tables!Desc, FilesFacts!Fd, Tables!Fd,
         FilesFacts!Cardinality, Tables!Cardinality
<1> QED BY <1>1, <1>2, <1>3, KernelInvariant, PTL DEF KernelSpec

-----------------------------------------------------------------------------
(* The programs on the kernel.                                             *)

\* INIT has slot 1, the shell it starts slot 2, and each command slot 3: what
\* is in use is a beginning of these, as INIT waits for the shell and the
\* shell for the command.
InUse == {p \in Proc : pid[p] # 0}

ShellAlone == at[2] \in {"init execs", "read", "open", "close", "fork", "exited"} /\ InUse = {1, 2}

ShellAndCommand ==
  /\ at[2] = "wait" /\ result[2] = pid[3]
  /\ at[3] \in {"exec", "exitu", "exited"} /\ InUse = {1, 2, 3}

Stage ==
  \/ at[1] \in {"init", "exitu", "exited"} /\ InUse = {1}
  \/ at[1] = "init waits" /\ result[1] = pid[2] /\ (ShellAlone \/ ShellAndCommand)

\* A line that read_cmd() goes on with has room for one key more.
Room(l) == \E S : l \in Seq(S) /\ Len(l) <= Limit + 1

\* A process at the place a of its program, with the descriptor or pid r and
\* the line l, in the kernel's call c with argument g; gone if it has exited.
Sane(a, r, l, c, g, gone) ==
  /\ a = "exited" <=> gone
  /\ r \in Nat /\ Room(l)
  /\ c = "wait" => a \in {"init waits", "wait"} /\ g = r
  /\ c = "read_key_buffer" => a = "read"
  /\ a = "close" => r \in Tables!Fd
  /\ a \in {"close", "fork", "exec"} => l \in DOMAIN Command

Gone(p) == pid[p] = 0 \/ p \in ToSet(kill_list)

EachSane ==
  /\ DOMAIN at = Proc /\ DOMAIN line = Proc /\ DOMAIN result = Proc
  /\ \A p \in Proc : Sane(at[p], result[p], line[p], call[p], arg[p], Gone(p))
  /\ pid_num <= MaxPid + 1
  /\ panic = "none"

Programs == EachSane /\ Stage

\* The inductive invariant of the programs and the kernel under them.
ShellInv == IInv /\ FilesFacts!CountsInv /\ Programs /\ fs_panic = "none"

\* The slots of INIT, the shell and a command.
LEMMA ShellSlots ==
  /\ 1 \in Proc /\ 2 \in Proc /\ 3 \in Proc /\ 1 # 2 /\ 2 # 3
  /\ Proc \subseteq Nat /\ \A p \in Proc : p # 0
BY ProcessAssumption, ShellAssumption DEF Proc, Slot, Idle

\* fork() of INIT gives the shell slot 2, fork() of the shell a command slot 3.
LEMMA FreeSlot ==
  ASSUME IInv, NEW kid \in Proc, \A p \in Proc : p \in InUse <=> p < kid
  PROVE  /\ Unused # {} /\ Min(Unused) = kid
         /\ pid[kid] = 0 /\ kid \notin ToSet(kill_list)
<1>1. Unused = Proc \ InUse
  <2>1. \A p \in Proc : state[p] # "UNUSED" <=> pid[p] > 0
    BY DEF IInv, PidsIdentify
  <2>2. state[Idle] # "UNUSED" /\ \A p \in Proc : pid[p] \in Nat
    BY SlotFacts DEF IInv, OneRunning, TypeOK
  <2>3. \A p \in Slot : state[p] = "UNUSED" <=> p \in Proc /\ pid[p] = 0
    BY <2>1, <2>2, SlotFacts
  <2> QED BY <2>3, SlotFacts DEF Unused, InUse
<1>2. kid \in Nat /\ kid \notin InUse
  BY ShellSlots
<1>3. \A p \in Unused : p \in Nat /\ kid <= p
  <2> TAKE p \in Unused
  <2>1. p \in Nat /\ ~ (p < kid)
    BY <1>1, ShellSlots
  <2> QED BY <1>2, <2>1
<1>4. Unused \in SUBSET Nat /\ kid \in Unused
  BY <1>1, <1>2, <1>3
<1>5. Min(Unused) \in Unused /\ \A y \in Unused : Min(Unused) <= y
  BY <1>4, MinOfNats
<1>6. Min(Unused) = kid
  <2> DEFINE m == Min(Unused)
  <2>1. m \in Nat /\ kid <= m /\ m <= kid
    BY <1>3, <1>4, <1>5
  <2> HIDE DEF m
  <2>2. m = kid
    BY <1>2, <2>1
  <2> QED BY <2>2 DEF m
<1>7. pid[kid] = 0 /\ kid \notin ToSet(kill_list)
  <2>1. state[kid] = "UNUSED"
    BY <1>4 DEF Unused
  <2>2. kid \notin ToSet(kill_list)
    BY <1>2, <2>1 DEF IInv, ListsMatchStates
  <2> QED BY <1>2, <2>2 DEF InUse
<1> QED BY <1>2, <1>4, <1>6, <1>7

\* The process that makes a step of its program.
LEMMA Caller ==
  ASSUME IInv, Programs, NEW point, At(point)
  PROVE  /\ me \in InUse /\ me \in Proc /\ ~ Gone(me)
         /\ at[me] = point /\ point # "exited"
<1>1. me \in Proc /\ state[me] = "RUNNING" /\ me \notin ToSet(kill_list)
  BY CallerRuns DEF At, me
<1>2. pid[me] # 0
  BY <1>1, SlotFacts DEF IInv, PidsIdentify, TypeOK
<1>3. ~ Gone(me) /\ at[me] = point
  BY <1>1, <1>2 DEF Gone, At
<1> QED BY <1>1, <1>2, <1>3 DEF InUse, Programs, EachSane, Sane

\* Which it is shows in its place in the program.
LEMMA CallerIs ==
  ASSUME IInv, Programs, NEW point, At(point)
  PROVE  /\ point \in {"init", "init waits"} => me = 1
         /\ point \in {"init execs", "read", "open", "close", "fork"} =>
              me = 2 /\ at[1] = "init waits" /\ result[1] = pid[2] /\ InUse = {1, 2}
         /\ point = "wait" => me = 2 /\ at[1] = "init waits" /\ result[1] = pid[2] /\ ShellAndCommand
         /\ point = "exec" => me = 3 /\ at[1] = "init waits" /\ result[1] = pid[2] /\ ShellAndCommand
         /\ point = "exitu" =>
              \/ me = 1 /\ InUse = {1}
              \/ me = 3 /\ at[1] = "init waits" /\ result[1] = pid[2] /\ ShellAndCommand
BY Caller DEF Programs, EachSane, Stage, ShellAlone, ShellAndCommand

\* The pids that are handed out and waited for are in the bound.
LEMMA PidInBound ==
  ASSUME IInv, Programs, NEW p \in InUse
  PROVE  pid[p] \in 1 .. MaxPid
<1>1. p \in Slot /\ pid[p] \in Nat /\ pid[p] # 0 /\ pid[p] < pid_num /\ pid_num \in Nat
  BY SlotFacts DEF InUse, IInv, TypeOK, PidsIdentify
<1>2. pid_num <= MaxPid + 1 /\ MaxPid \in Nat
  BY ProcessAssumption DEF Programs, EachSane
<1> QED BY <1>1, <1>2

\* Whom a process that waits waits for.
LEMMA WaitsForChild ==
  ASSUME IInv, Programs, At("init waits") \/ At("wait")
  PROVE  /\ me \in Proc /\ result[me] \in 1 .. MaxPid
         /\ \/ me = 1 /\ result[1] = pid[2] /\ 2 \in InUse
            \/ me = 2 /\ result[2] = pid[3] /\ 3 \in InUse
<1>1. CASE At("init waits")
  <2>1. me = 1 /\ at[1] = "init waits" /\ me \in Proc
    BY <1>1, Caller, CallerIs
  <2>2. result[1] = pid[2] /\ 2 \in InUse
    BY <2>1 DEF Programs, EachSane, Stage, ShellAlone, ShellAndCommand
  <2> QED BY <2>1, <2>2, PidInBound
<1>2. CASE At("wait")
  <2>1. me = 2 /\ ShellAndCommand /\ me \in Proc
    BY <1>2, Caller, CallerIs
  <2>2. result[2] = pid[3] /\ 3 \in InUse
    BY <2>1 DEF ShellAndCommand
  <2> QED BY <2>1, <2>2, PidInBound
<1> QED BY <1>1, <1>2

\* waitu() in a program is a round of the kernel's wait() for that child.
LEMMA WaitStepIs ==
  ASSUME IInv, Programs, At("init waits") \/ At("wait"), WaitStep
  PROVE  /\ (\E n \in 1 .. MaxPid : KWait(n)) \/ KContinue
         /\ WaitRound(result[me]) /\ WaitFiles(result[me])
         /\ call[me] \in {"user", "wait"} /\ UNCHANGED ringVars
<1>1. me \in Proc /\ result[me] \in 1 .. MaxPid /\ me = current_process
  BY WaitsForChild DEF me
<1>2. CASE KWait(result[me])
  BY <1>1, <1>2 DEF KWait, SysWait, InUser, IrqOpen
<1>3. CASE KWaitLoop
  <2>1. call[me] = "wait" /\ WaitRound(arg[me]) /\ WaitFiles(arg[me]) /\ UNCHANGED ringVars
    BY <1>1, <1>3 DEF KWaitLoop, WaitLoop, Continues
  <2>2. arg[me] = result[me]
    BY <1>1, <2>1 DEF Programs, EachSane, Sane
  <2> QED BY <1>3, <2>1, <2>2 DEF KContinue
<1> QED BY <1>2, <1>3 DEF WaitStep

\* What programs do to the kernel are steps of it, or none.
LEMMA UserStepIsKernelStep ==
  ASSUME ShellInv, UserStep
  PROVE  [KernelNext]_kernelVars
<1>1. fs_panic = "none" /\ IInv /\ Programs
  BY DEF ShellInv
<1>2. SUFFICES KernelStep \/ UNCHANGED kernelVars
  BY <1>1 DEF KernelNext
<1>3. CASE InitForks \/ ShellForks
  BY <1>3 DEF InitForks, ShellForks, ForkAt, KernelStep
<1>4. CASE InitExecs
  <2>1. KExec(ConsoleBin) /\ ConsoleBin \in File
    BY <1>4, ShellAssumption DEF InitExecs, ExecAt
  <2> QED BY <2>1 DEF KernelStep
<1>5. CASE InitWaits \/ ShellWaits
  <2>1. (At("init waits") \/ At("wait")) /\ WaitStep
    BY <1>5 DEF InitWaits, ShellWaits
  <2> QED BY <1>1, <2>1, WaitStepIs DEF KernelStep
<1>6. CASE ShellReads
  BY <1>6 DEF ShellReads, KernelStep, KContinue
<1>7. CASE ShellOpens
  <2>1. CASE line[me] \in DOMAIN Command /\ CanExec
    <3>1. KOpen(Command[line[me]]) /\ Command[line[me]] \in File
      BY <1>7, <2>1, ShellAssumption DEF ShellOpens
    <3> QED BY <3>1 DEF KernelStep
  <2>2. CASE ~ (line[me] \in DOMAIN Command /\ CanExec)
    BY <1>7, <2>2 DEF ShellOpens
  <2> QED BY <2>1, <2>2
<1>8. CASE ShellCloses
  <2>1. At("close") /\ KClose(result[me])
    BY <1>8 DEF ShellCloses
  <2>2. result[me] \in Tables!Fd
    BY <1>1, <2>1, Caller DEF Programs, EachSane, Sane
  <2> QED BY <2>1, <2>2 DEF KernelStep
<1>9. CASE ShellExecs
  <2>1. At("exec") /\ KExec(Command[line[me]])
    BY <1>9 DEF ShellExecs, ExecAt
  <2>2. line[me] \in DOMAIN Command
    BY <1>1, <2>1, Caller DEF Programs, EachSane, Sane
  <2>3. Command[line[me]] \in File
    BY <2>2, ShellAssumption
  <2> QED BY <2>1, <2>3 DEF KernelStep
<1>10. CASE Exits
  BY <1>10 DEF Exits, KernelStep
<1> QED BY <1>3, <1>4, <1>5, <1>6, <1>7, <1>8, <1>9, <1>10 DEF UserStep

\* The programs take only steps the kernel allows.
LEMMA ShellStepIsKernelStep ==
  ASSUME ShellInv, [ShellNext]_shellVars
  PROVE  [KernelNext]_kernelVars
<1>1. CASE ShellTick
  BY <1>1 DEF ShellTick, Going, KernelNext, KernelStep
<1>2. CASE \E ch \in Char : ShellKey(ch)
  BY <1>2 DEF ShellKey, Going, KernelNext, KernelStep
<1>3. CASE UserStep
  BY <1>3, UserStepIsKernelStep
<1>4. CASE UNCHANGED shellVars
  BY <1>4 DEF shellVars
<1> QED BY <1>1, <1>2, <1>3, <1>4 DEF ShellNext

\* A round of wait() for a process in use: it is freed if it was killed, and
\* no other is.
LEMMA WaitFor ==
  ASSUME IInv, me \in Proc, NEW q \in InUse, WaitRound(pid[q])
  PROVE  /\ UNCHANGED <<pid_num, panic>>
         /\ q \in ToSet(kill_list) =>
              /\ pid' = [pid EXCEPT ![q] = 0] /\ ToSet(kill_list') = ToSet(kill_list) \ {q}
              /\ call' = [call EXCEPT ![q] = "user", ![me] = "user"]
              /\ arg' = [arg EXCEPT ![q] = 0, ![me] = 0]
         /\ q \notin ToSet(kill_list) =>
              /\ UNCHANGED <<pid, kill_list>>
              /\ call' = [call EXCEPT ![me] = "wait"] /\ arg' = [arg EXCEPT ![me] = pid[q]]
<1> DEFINE found == Matches(kill_list, wait, pid[q])
           k == Min(found)
<1>1. me = current_process
  BY DEF me
<1>2. /\ kill_list \in Seq(Proc) /\ OnceEach(kill_list)
      /\ \A r \in ToSet(kill_list) : r \in Proc /\ state[r] = "KILLED" /\ wait[r] = pid[r]
  BY DEF IInv, TypeOK, ListsMatchStates, PidsIdentify
<1>3. q \in Proc /\ q \in Slot /\ state[q] # "UNUSED"
  <2>1. q \in Proc /\ q \in Slot /\ pid[q] \in Nat /\ pid[q] # 0
    BY SlotFacts DEF InUse, IInv, TypeOK
  <2>2. pid[q] > 0
    BY <2>1
  <2> QED BY <2>1, <2>2 DEF IInv, PidsIdentify
<1>4. \A i \in found : i \in DOMAIN kill_list /\ kill_list[i] = q
  <2> TAKE i \in found
  <2>1. i \in DOMAIN kill_list /\ wait[kill_list[i]] = pid[q]
    BY DEF Matches
  <2>2. kill_list[i] \in ToSet(kill_list)
    BY <2>1 DEF ToSet
  <2>3. kill_list[i] \in Slot /\ state[kill_list[i]] # "UNUSED" /\ pid[kill_list[i]] = pid[q]
    BY <1>2, <2>1, <2>2, SlotFacts
  <2> QED BY <1>3, <2>1, <2>3 DEF IInv, PidsIdentify
<1>5. CASE q \in ToSet(kill_list)
  <2>1. found # {}
    BY <1>2, <1>5 DEF ToSet, Matches
  <2>2. Reap(k)
    BY <2>1 DEF WaitRound
  <2>3. k \in found
    <3>1. found \in SUBSET Nat
      BY <1>2 DEF Matches
    <3> HIDE DEF found
    <3> QED BY <2>1, <3>1, MinOfNats
  <2>4. k \in DOMAIN kill_list /\ kill_list[k] = q /\ state[q] = "KILLED"
    BY <1>2, <1>4, <1>5, <2>3
  <2> HIDE DEF k
  <2>5. /\ pid' = [pid EXCEPT ![q] = 0] /\ kill_list' = Unlink(kill_list, k)
        /\ call' = [call EXCEPT ![q] = "user", ![me] = "user"]
        /\ arg' = [arg EXCEPT ![q] = 0, ![me] = 0]
        /\ UNCHANGED <<pid_num, panic>>
    BY <1>1, <2>2, <2>4 DEF Reap
  <2>6. ToSet(kill_list') = ToSet(kill_list) \ {q}
    BY <1>2, <2>4, <2>5, UnlinkItems
  <2> QED BY <1>5, <2>5, <2>6
<1>6. CASE q \notin ToSet(kill_list)
  <2>1. found = {}
    BY <1>4, <1>6 DEF ToSet
  <2> QED BY <1>1, <1>6, <2>1 DEF WaitRound
<1> QED BY <1>5, <1>6

\* Steps that leave the programs and the slots alone.
LEMMA InterruptKeeps ==
  ASSUME IInv, Programs, UNCHANGED <<at, line, result, pid, kill_list, call, pid_num, panic>>,
         \A p \in Proc : call[p] = "wait" => arg'[p] = arg[p]
  PROVE  Programs'
<1>1. \A p \in Proc : Sane(at[p], result[p], line[p], call[p], arg[p], Gone(p))'
  <2> TAKE p \in Proc
  <2>1. Sane(at[p], result[p], line[p], call[p], arg[p], Gone(p))
    BY DEF Programs, EachSane
  <2>2. Gone(p)' = Gone(p)
    BY DEF Gone
  <2>3. call'[p] = "wait" => arg'[p] = arg[p]
    OBVIOUS
  <2> QED BY <2>1, <2>2, <2>3 DEF Sane
<1>2. Stage'
  BY DEF Programs, EachSane, Stage, ShellAlone, ShellAndCommand, InUse
<1> QED BY <1>1, <1>2 DEF Programs, EachSane

\* A tick moves no program.
LEMMA TickKeeps == ASSUME IInv, Programs, ShellTick PROVE Programs'
<1>1. /\ UNCHANGED <<at, line, result, pid, kill_list, call, pid_num, panic>>
      /\ arg' = [p \in Slot |-> IF call[p] = "sys_sleep" /\ arg[p] > 0 THEN arg[p] - 1 ELSE arg[p]]
  BY DEF ShellTick, Tick, TimerIrq, TickDown, Quiet
<1> QED BY <1>1, SlotFacts, InterruptKeeps

\* Nor does a key, whoever it wakes.
LEMMA KeyKeeps == ASSUME IInv, Programs, NEW ch \in Char, ShellKey(ch) PROVE Programs'
BY InterruptKeeps DEF ShellKey, KeyIrq, UartIrq, Quiet

\* The two forks of the programs: who forks, into which slot, and where the
\* two processes go on.
Forks(n, kid, point, parent, child) ==
  \/ /\ n = 1 /\ kid = 2 /\ InUse = {1}
     /\ point = "init" /\ parent = "init waits" /\ child = "init execs"
  \/ /\ n = 2 /\ kid = 3 /\ InUse = {1, 2}
     /\ point = "fork" /\ parent = "wait" /\ child = "exec"

\* A fork: one slot more in use, whose process goes on from the same line.
Forked(n, kid, parent, child) ==
  /\ at'[n] = parent /\ at'[kid] = child /\ result'[n] = pid'[kid]
  /\ \A p \in Proc \ {n, kid} : at'[p] = at[p]
  /\ \A p \in Proc \ {n} : result'[p] = result[p]
  /\ \A p \in Proc \ {kid} : pid'[p] = pid[p]
  /\ InUse' = InUse \cup {kid}

LEMMA ForkKeeps ==
  ASSUME IInv, Programs, NEW n \in Nat, NEW kid \in Nat, me = n, NEW point, NEW parent, NEW child,
         ForkAt(point, parent, child), Forks(n, kid, point, parent, child)
  PROVE  EachSane' /\ Forked(n, kid, parent, child)
<1>1. At(point) /\ KFork /\ Fork /\ call[me] = "user" /\ pid_num <= MaxPid
  BY DEF ForkAt, KFork, Fork, InUser, IrqOpen, me
<1>2. /\ Unused # {} /\ Min(Unused) = kid /\ kid \in Proc
      /\ pid[kid] = 0 /\ kid \notin ToSet(kill_list)
  <2>1. CASE n = 1 /\ kid = 2 /\ InUse = {1}
    <3>1. kid \in Proc /\ \A p \in Proc : p \in InUse <=> p < kid
      BY <2>1, ShellSlots
    <3> QED BY <3>1, FreeSlot
  <2>2. CASE n = 2 /\ kid = 3 /\ InUse = {1, 2}
    <3>1. kid \in Proc /\ \A p \in Proc : p \in InUse <=> p < kid
      BY <2>2, ShellSlots
    <3> QED BY <3>1, FreeSlot
  <2> QED BY <2>1, <2>2, Zenon DEF Forks
<1>3. n \in Proc /\ n # kid /\ n = me /\ at[n] = point /\ ~ Gone(n)
  <2>1. (n = 1 /\ kid = 2) \/ (n = 2 /\ kid = 3)
    BY Zenon DEF Forks
  <2>2. n # kid
    BY <2>1
  <2> QED BY <1>1, <2>2, Caller
<1>4. /\ pid' = [pid EXCEPT ![kid] = pid_num] /\ pid_num' = pid_num + 1
      /\ UNCHANGED <<kill_list, call, arg, panic>>
      /\ at' = [at EXCEPT ![n] = parent, ![kid] = child]
      /\ line' = [line EXCEPT ![kid] = line[n]]
      /\ result' = [result EXCEPT ![n] = pid_num]
  BY <1>1, <1>2, <1>3 DEF Fork, ForkAt
<1>5. pid_num \in Nat /\ pid_num # 0 /\ pid \in [Slot -> Nat] /\ pid_num' <= MaxPid + 1
  <2>1. pid_num \in Nat /\ pid \in [Slot -> Nat] /\ kid \in Slot /\ pid[kid] < pid_num
    BY <1>2, SlotFacts DEF IInv, TypeOK, PidsIdentify
  <2> QED BY <1>1, <1>2, <1>4, <2>1, ProcessAssumption
<1>6. \A p \in Proc : Sane(at[p], result[p], line[p], call[p], arg[p], Gone(p))'
  <2> TAKE p \in Proc
  <2>1. Sane(at[p], result[p], line[p], call[p], arg[p], Gone(p))
    BY DEF Programs, EachSane
  <2>2. Sane(at[n], result[n], line[n], call[n], arg[n], Gone(n))
    BY <1>3 DEF Programs, EachSane
  <2>3. DOMAIN at = Proc /\ DOMAIN line = Proc /\ DOMAIN result = Proc /\ p \in Slot
    BY SlotFacts DEF Programs, EachSane
  <2>4. CASE p = n
    <3>1. Gone(p)' = FALSE
      BY <1>3, <1>4, <1>5, <2>3, <2>4 DEF Gone
    <3>2. at'[p] = parent /\ result'[p] = pid_num /\ line'[p] = line[n] /\ call'[p] = "user"
      BY <1>1, <1>3, <1>4, <2>3, <2>4
    <3> QED BY <1>3, <1>5, <2>2, <3>1, <3>2 DEF Sane, Forks
  <2>5. CASE p = kid
    <3>1. Gone(p)' = FALSE /\ Gone(p) = TRUE
      BY <1>2, <1>4, <1>5, <2>3, <2>5 DEF Gone
    <3>2. at[p] = "exited"
      BY <2>1, <3>1 DEF Sane
    <3>3. call[p] # "wait" /\ call[p] # "read_key_buffer"
      BY <2>1, <3>2 DEF Sane
    <3>4. at'[p] = child /\ result'[p] = result[p] /\ line'[p] = line[n] /\ call'[p] = call[p]
      BY <1>3, <1>4, <2>3, <2>5
    <3>5. child = "exec" => line[n] \in DOMAIN Command
      BY <1>3, <2>2 DEF Sane, Forks
    <3> QED BY <2>1, <2>2, <3>1, <3>3, <3>4, <3>5 DEF Sane, Forks
  <2>6. CASE p # n /\ p # kid
    <3>1. Gone(p)' = Gone(p)
      BY <1>4, <1>5, <2>3, <2>6 DEF Gone
    <3>2. at'[p] = at[p] /\ result'[p] = result[p] /\ line'[p] = line[p]
          /\ call'[p] = call[p] /\ arg'[p] = arg[p]
      BY <1>4, <2>3, <2>6
    <3> QED BY <2>1, <3>1, <3>2 DEF Sane
  <2> QED BY <2>4, <2>5, <2>6
<1>7. DOMAIN at' = Proc /\ DOMAIN line' = Proc /\ DOMAIN result' = Proc /\ panic' = "none"
  BY <1>4 DEF Programs, EachSane
<1>8. EachSane'
  BY <1>5, <1>6, <1>7 DEF EachSane
<1>9. DOMAIN at = Proc /\ DOMAIN result = Proc /\ kid \in Slot /\ Proc \subseteq Slot
  BY <1>2, SlotFacts DEF Programs, EachSane
<1>10. /\ at'[n] = parent /\ at'[kid] = child /\ result'[n] = pid'[kid]
       /\ \A p \in Proc \ {n, kid} : at'[p] = at[p]
  BY <1>2, <1>3, <1>4, <1>5, <1>9
<1>11. /\ \A p \in Proc \ {n} : result'[p] = result[p]
       /\ \A p \in Proc \ {kid} : pid'[p] = pid[p]
  BY <1>4, <1>5, <1>9
<1>12. InUse' = InUse \cup {kid}
  <2>1. pid'[kid] # 0
    BY <1>4, <1>5, <1>9
  <2> QED BY <1>2, <1>11, <2>1 DEF InUse
<1> QED BY <1>8, <1>10, <1>11, <1>12 DEF Forked

\* What a step of one process does to its place, its result and its line.
Moves(m, a, r, l) ==
  /\ at'[m] = a /\ result'[m] = r /\ line'[m] = l
  /\ \A p \in Proc \ {m} : at'[p] = at[p] /\ result'[p] = result[p] /\ line'[p] = line[p]
  /\ DOMAIN at' = Proc /\ DOMAIN line' = Proc /\ DOMAIN result' = Proc

\* The updates of the shell's variables, as what they make of one process.
LEMMA MovesTo ==
  ASSUME EachSane, NEW m \in Proc, NEW a, NEW r, NEW l,
         at' = [at EXCEPT ![m] = a] \/ (at' = at /\ a = at[m]),
         result' = [result EXCEPT ![m] = r] \/ (result' = result /\ r = result[m]),
         line' = [line EXCEPT ![m] = l] \/ (line' = line /\ l = line[m])
  PROVE  Moves(m, a, r, l)
<1>1. DOMAIN at = Proc /\ DOMAIN line = Proc /\ DOMAIN result = Proc
  BY DEF EachSane
<1>2. at'[m] = a /\ DOMAIN at' = Proc /\ \A p \in Proc \ {m} : at'[p] = at[p]
  BY <1>1
<1>3. result'[m] = r /\ DOMAIN result' = Proc /\ \A p \in Proc \ {m} : result'[p] = result[p]
  BY <1>1
<1>4. line'[m] = l /\ DOMAIN line' = Proc /\ \A p \in Proc \ {m} : line'[p] = line[p]
  BY <1>1
<1> QED BY <1>2, <1>3, <1>4 DEF Moves

\* What it leaves of the other processes' calls.
Leaves(m) ==
  /\ \A p \in Proc \ {m} :
       Gone(p)' = Gone(p) /\ (call'[p] = "user" \/ (call'[p] = call[p] /\ arg'[p] = arg[p]))
  /\ UNCHANGED <<pid_num, panic>>

\* A step of process m has to be looked at only where it leads m.
LEMMA OwnStep ==
  ASSUME EachSane, NEW m \in Proc, NEW a, NEW r, NEW l, Moves(m, a, r, l), Leaves(m),
         Sane(a, r, l, call'[m], arg'[m], Gone(m)')
  PROVE  EachSane'
<1>1. /\ at'[m] = a /\ result'[m] = r /\ line'[m] = l
      /\ \A p \in Proc \ {m} : at'[p] = at[p] /\ result'[p] = result[p] /\ line'[p] = line[p]
      /\ DOMAIN at' = Proc /\ DOMAIN line' = Proc /\ DOMAIN result' = Proc
  BY DEF Moves
<1>2. ASSUME NEW p \in Proc
      PROVE  Sane(at[p], result[p], line[p], call[p], arg[p], Gone(p))'
  <2>1. CASE p = m
    BY <1>1, <2>1
  <2>2. CASE p # m
    <3>1. Sane(at[p], result[p], line[p], call[p], arg[p], Gone(p))
      BY DEF EachSane
    <3>2. Gone(p)' = Gone(p) /\ (call'[p] = "user" \/ (call'[p] = call[p] /\ arg'[p] = arg[p]))
      BY <2>2 DEF Leaves
    <3> QED BY <1>1, <2>2, <3>1, <3>2 DEF Sane
  <2> QED BY <2>1, <2>2
<1>3. pid_num' <= MaxPid + 1 /\ panic' = "none"
  BY DEF EachSane, Leaves
<1> QED BY <1>1, <1>2, <1>3 DEF EachSane

\* A step that leaves the kernel's processes alone, too.
LEMMA PlainStep ==
  ASSUME Programs, NEW m \in Proc, ~ Gone(m), NEW a, NEW r, NEW l, Moves(m, a, r, l),
         Sane(a, r, l, "user", 0, FALSE), call'[m] = "user",
         \A p \in Proc \ {m} : call'[p] = call[p] /\ arg'[p] = arg[p],
         UNCHANGED <<pid, kill_list, pid_num, panic>>
  PROVE  EachSane' /\ InUse' = InUse
<1>1. \A p \in Proc : Gone(p)' = Gone(p)
  BY DEF Gone
<1>2. Sane(a, r, l, call'[m], arg'[m], Gone(m)')
  BY <1>1 DEF Sane
<1>3. EachSane /\ InUse' = InUse /\ Leaves(m)
  BY <1>1 DEF Programs, InUse, Leaves
<1> QED BY <1>2, <1>3, OwnStep

\* INIT starts the shell in slot 2.
LEMMA InitForksKeeps == ASSUME IInv, Programs, InitForks PROVE Programs'
<1>1. At("init") /\ ForkAt("init", "init waits", "init execs")
  BY DEF InitForks, ForkAt
<1>2. me = 1 /\ at[1] = "init"
  BY <1>1, Caller, CallerIs
<1>3. Forks(1, 2, "init", "init waits", "init execs")
  BY <1>2 DEF Programs, Stage, Forks
<1>4. EachSane' /\ Forked(1, 2, "init waits", "init execs")
  BY <1>1, <1>2, <1>3, ForkKeeps
<1>5. /\ InUse' = {1, 2}
      /\ at'[1] = "init waits" /\ at'[2] = "init execs" /\ result'[1] = pid'[2]
  BY <1>3, <1>4 DEF Forks, Forked
<1> QED BY <1>4, <1>5 DEF Programs, Stage, ShellAlone

\* The shell starts a command in slot 3.
LEMMA ShellForksKeeps == ASSUME IInv, Programs, ShellForks PROVE Programs'
<1>1. At("fork") /\ ForkAt("fork", "wait", "exec")
  BY DEF ShellForks, ForkAt
<1>2. me = 2 /\ at[1] = "init waits" /\ result[1] = pid[2] /\ InUse = {1, 2}
  BY <1>1, CallerIs
<1>3. Forks(2, 3, "fork", "wait", "exec")
  BY <1>2 DEF Forks
<1>4. EachSane' /\ Forked(2, 3, "wait", "exec")
  BY <1>1, <1>2, <1>3, ForkKeeps
<1>5. /\ at'[1] = "init waits" /\ result'[1] = pid'[2] /\ InUse' = {1, 2, 3}
      /\ at'[2] = "wait" /\ at'[3] = "exec" /\ result'[2] = pid'[3]
  <2>1. 1 \in Proc \ {2, 3} /\ 1 \in Proc \ {2} /\ 2 \in Proc \ {3}
    BY ShellSlots
  <2> QED BY <1>2, <1>4, <2>1 DEF Forked
<1> QED BY <1>4, <1>5 DEF Programs, Stage, ShellAndCommand

\* A process that exits joins those on the kill list.
LEMMA JoinsList ==
  ASSUME NEW l \in Seq(Proc), NEW m \in Proc, NEW k, k = Append(l, m)
  PROVE  ToSet(k) = ToSet(l) \cup {m}
BY AppendItems

\* A process that exits stays in its slot until its parent frees it.
LEMMA ExitKeeps ==
  ASSUME IInv, Programs, NEW point \in {"init execs", "exec", "exitu"}, At(point), KExit,
         NEW m \in Proc, me = m, NEW r \in Nat, NEW l, Room(l), Moves(m, "exited", r, l)
  PROVE  Programs'
<1>1. m \in Slot /\ ~ Gone(m) /\ m = current_process
  BY Caller, SlotFacts DEF me
<1>2. /\ kill_list' = Append(kill_list, m) /\ call' = [call EXCEPT ![m] = "exit"]
      /\ UNCHANGED <<pid, pid_num, arg, panic>>
  BY <1>1 DEF KExit, Exit
<1>3. point = "init execs" => m = 2 /\ at[1] = "init waits" /\ result[1] = pid[2] /\ InUse = {1, 2}
  BY CallerIs
<1>4. point = "exec" => m = 3 /\ at[1] = "init waits" /\ result[1] = pid[2] /\ ShellAndCommand
  BY CallerIs
<1>5. point = "exitu" =>
        \/ m = 1 /\ InUse = {1}
        \/ m = 3 /\ at[1] = "init waits" /\ result[1] = pid[2] /\ ShellAndCommand
  BY CallerIs
<1>6. call \in [Slot -> Call] /\ kill_list \in Seq(Proc)
  BY DEF IInv, TypeOK
<1>7. ToSet(kill_list') = ToSet(kill_list) \cup {m}
  BY <1>2, <1>6, JoinsList
<1>8. Gone(m)' = TRUE /\ \A p \in Proc \ {m} : Gone(p)' = Gone(p)
  BY <1>2, <1>7 DEF Gone
<1>9. Sane("exited", r, l, call'[m], arg'[m], Gone(m)')
  BY <1>1, <1>2, <1>6, <1>8 DEF Sane
<1>10. Leaves(m)
  <2>1. \A p \in Proc \ {m} : call'[p] = call[p] /\ arg'[p] = arg[p]
    BY <1>2, <1>6, SlotFacts
  <2> QED BY <1>2, <1>8, <2>1 DEF Leaves
<1>11. /\ EachSane' /\ at'[m] = "exited"
       /\ \A p \in Proc \ {m} : at'[p] = at[p] /\ result'[p] = result[p]
  <2>1. EachSane
    BY DEF Programs
  <2> QED BY <1>9, <1>10, <2>1, OwnStep DEF Moves
<1>12. InUse' = InUse
  BY <1>2 DEF InUse
<1>13. Stage'
  BY <1>2, <1>3, <1>4, <1>5, <1>11, <1>12, ShellSlots
     DEF Stage, ShellAlone, ShellAndCommand
<1> QED BY <1>11, <1>13 DEF Programs

\* An empty line has room.
LEMMA NoLine == Room(<<>>)
<1>1. <<>> \in Seq({}) /\ Len(<<>>) = 0
  OBVIOUS
<1>2. 0 <= Limit + 1
  BY ShellAssumption
<1> QED BY <1>1, <1>2 DEF Room

\* The process that makes a step is in its slot's place.
LEMMA MyPlace ==
  ASSUME IInv, Programs, NEW point, At(point)
  PROVE  /\ me \in Proc /\ me = current_process /\ ~ Gone(me) /\ at[me] = point
         /\ Sane(point, result[me], line[me], call[me], arg[me], FALSE)
<1>1. me \in Proc /\ ~ Gone(me) /\ at[me] = point
  BY Caller
<1>2. Sane(at[me], result[me], line[me], call[me], arg[me], Gone(me))
  BY <1>1 DEF Programs, EachSane
<1>3. Gone(me) = FALSE
  BY <1>1 DEF Gone
<1>4. me = current_process
  BY DEF me
<1> QED BY <1>1, <1>2, <1>3, <1>4

\* Which program a process goes on in.
Execs(point, program) ==
  \/ point = "init execs" /\ program = "read"
  \/ point = "exec" /\ program = "exitu"

\* exec() of INIT's child and of the shell's.
LEMMA ExecKeeps ==
  ASSUME IInv, Programs, NEW m \in Proc, me = m, NEW point, NEW f, NEW program,
         At(point), ExecAt(point, f, program), Execs(point, program)
  PROVE  Programs'
<1>1. ~ Gone(m) /\ m = current_process /\ m \in Slot
  BY MyPlace, SlotFacts
<1>2. KExec(f) /\ Moves(m, IF CanExec THEN program ELSE "exited", 0, <<>>)
  <2>1. /\ KExec(f) /\ at' = [at EXCEPT ![m] = IF CanExec THEN program ELSE "exited"]
        /\ line' = [line EXCEPT ![m] = <<>>] /\ result' = [result EXCEPT ![m] = 0]
    BY DEF ExecAt, Goto
  <2> QED BY <2>1, MovesTo DEF Programs
<1>3. CASE CanExec
  <2>1. /\ UNCHANGED procVars /\ Moves(m, program, 0, <<>>) /\ call[m] = "user"
    BY <1>1, <1>2, <1>3 DEF KExec, InUser, IrqOpen
  <2>2. /\ UNCHANGED <<pid, kill_list, pid_num, panic, call, arg>> /\ call'[m] = "user"
    BY <2>1 DEF procVars
  <2>3. Sane(program, 0, <<>>, "user", 0, FALSE)
    BY NoLine DEF Sane, Execs
  <2>4. EachSane' /\ InUse' = InUse
    BY <1>1, <2>1, <2>2, <2>3, PlainStep
  <2>5. /\ at'[m] = program
        /\ \A p \in Proc \ {m} : at'[p] = at[p] /\ result'[p] = result[p]
    BY <2>1 DEF Moves
  <2>6. CASE point = "init execs" /\ program = "read"
    <3>1. m = 2 /\ at[1] = "init waits" /\ result[1] = pid[2] /\ InUse = {1, 2}
      BY <2>6, CallerIs
    <3>2. 1 \in Proc \ {m}
      <4>1. m = 2
        BY <3>1
      <4> QED BY <4>1, ShellSlots
    <3>3. /\ at'[1] = "init waits" /\ result'[1] = pid'[2] /\ InUse' = {1, 2}
          /\ at'[2] = "read"
      BY <2>2, <2>4, <2>5, <2>6, <3>1, <3>2
    <3> QED BY <2>4, <3>3 DEF Programs, Stage, ShellAlone
  <2>7. CASE point = "exec" /\ program = "exitu"
    <3>1. m = 3 /\ at[1] = "init waits" /\ result[1] = pid[2] /\ ShellAndCommand
      BY <2>7, CallerIs
    <3>2. 1 \in Proc \ {m} /\ 2 \in Proc \ {m}
      <4>1. m = 3
        BY <3>1
      <4> QED BY <4>1, ShellSlots
    <3>3. /\ at'[1] = "init waits" /\ result'[1] = pid'[2] /\ InUse' = {1, 2, 3}
          /\ at'[2] = "wait" /\ result'[2] = pid'[3] /\ at'[3] = "exitu"
      BY <2>2, <2>4, <2>5, <2>7, <3>1, <3>2 DEF ShellAndCommand
    <3> QED BY <2>4, <3>3 DEF Programs, Stage, ShellAndCommand
  <2> QED BY <2>6, <2>7 DEF Execs
<1>4. CASE ~ CanExec
  <2>1. KExit /\ Moves(m, "exited", 0, <<>>)
    BY <1>2, <1>4 DEF KExec
  <2>2. point \in {"init execs", "exec", "exitu"} /\ 0 \in Nat
    BY DEF Execs
  <2> QED BY <2>1, <2>2, NoLine, ExitKeeps
<1> QED BY <1>3, <1>4

\* The shell starts, or the file of the shell is not found and it exits.
LEMMA InitExecsKeeps == ASSUME IInv, Programs, InitExecs PROVE Programs'
<1>1. At("init execs") /\ ExecAt("init execs", ConsoleBin, "read")
  BY DEF InitExecs
<1>2. Execs("init execs", "read") /\ me \in Proc
  BY <1>1, MyPlace DEF Execs
<1> QED BY <1>1, <1>2, ExecKeeps

\* A command starts, or its file is not found and it exits.
LEMMA ShellExecsKeeps == ASSUME IInv, Programs, ShellExecs PROVE Programs'
<1>1. At("exec") /\ ExecAt("exec", Command[line[me]], "exitu")
  BY DEF ShellExecs
<1>2. Execs("exec", "exitu") /\ me \in Proc
  BY <1>1, MyPlace DEF Execs
<1> QED BY <1>1, <1>2, ExecKeeps

\* INIT, or a command that has printed, exits.
LEMMA ExitsKeeps == ASSUME IInv, Programs, Exits PROVE Programs'
<1>1. /\ At("exitu") /\ KExit
      /\ at' = [at EXCEPT ![me] = "exited"] /\ line' = line /\ result' = result
  BY DEF Exits, Goto
<1>2. /\ me \in Proc /\ result[me] \in Nat /\ Room(line[me])
  BY <1>1, MyPlace DEF Sane
<1>3. PICK m \in Proc : me = m
  BY <1>2
<1>4. Moves(m, "exited", result[m], line[m])
  BY <1>1, <1>3, MovesTo DEF Programs
<1> QED BY <1>1, <1>2, <1>3, <1>4, ExitKeeps

\* What a round of wait() in a program comes to: the child had exited and its
\* slot is free, or the process sleeps in the call.
Freed(m, q) ==
  /\ at[q] = "exited" /\ call'[m] = "user" /\ arg'[m] = 0
  /\ InUse' = InUse \ {q} /\ \A p \in Proc \ {q} : pid'[p] = pid[p]

StillWaits(m, q) ==
  /\ call'[m] = "wait" /\ arg'[m] = pid[q]
  /\ InUse' = InUse /\ pid' = pid

LEMMA WaitDoes ==
  ASSUME IInv, Programs, NEW m \in Proc, me = m, ~ Gone(m), NEW q \in InUse, WaitRound(pid[q])
  PROVE  Leaves(m) /\ Gone(m)' = FALSE /\ (Freed(m, q) \/ StillWaits(m, q))
<1>1. q \in Proc /\ q \in Slot /\ m \in Slot /\ Proc \subseteq Slot
  BY SlotFacts DEF InUse
<1>2. pid[m] # 0 /\ m \notin ToSet(kill_list)
  BY DEF Gone
<1>3. pid \in [Slot -> Nat] /\ call \in [Slot -> Call] /\ arg \in [Slot -> Nat]
  BY DEF IInv, TypeOK
<1>4. UNCHANGED <<pid_num, panic>>
  BY WaitFor
<1>5. CASE q \in ToSet(kill_list)
  <2>1. /\ pid' = [pid EXCEPT ![q] = 0] /\ ToSet(kill_list') = ToSet(kill_list) \ {q}
        /\ call' = [call EXCEPT ![q] = "user", ![m] = "user"]
        /\ arg' = [arg EXCEPT ![q] = 0, ![m] = 0]
    BY <1>5, WaitFor
  <2>2. q # m
    BY <1>2, <1>5
  <2>3. /\ pid'[q] = 0 /\ call'[q] = "user" /\ call'[m] = "user" /\ arg'[m] = 0
        /\ \A p \in Proc \ {q} : pid'[p] = pid[p]
        /\ \A p \in Proc \ {q, m} : call'[p] = call[p] /\ arg'[p] = arg[p]
    BY <1>1, <1>3, <2>1, <2>2
  <2>4. \A p \in Proc \ {q} : Gone(p)' = Gone(p)
    BY <2>1, <2>3 DEF Gone
  <2>5. Gone(q) = TRUE /\ Gone(q)' = TRUE /\ Gone(m)' = FALSE
    BY <1>2, <1>5, <2>1, <2>2, <2>3 DEF Gone
  <2>6. at[q] = "exited"
    BY <1>1, <2>5 DEF Programs, EachSane, Sane
  <2>7. Leaves(m)
    <3>1. ASSUME NEW p \in Proc \ {m}
          PROVE  Gone(p)' = Gone(p) /\ (call'[p] = "user" \/ (call'[p] = call[p] /\ arg'[p] = arg[p]))
      BY <2>3, <2>4, <2>5
    <3> QED BY <1>4, <3>1 DEF Leaves
  <2>8. InUse' = InUse \ {q}
    BY <2>3 DEF InUse
  <2> QED BY <2>3, <2>5, <2>6, <2>7, <2>8 DEF Freed
<1>6. CASE q \notin ToSet(kill_list)
  <2>1. /\ UNCHANGED <<pid, kill_list>>
        /\ call' = [call EXCEPT ![m] = "wait"] /\ arg' = [arg EXCEPT ![m] = pid[q]]
    BY <1>6, WaitFor
  <2>2. /\ call'[m] = "wait" /\ arg'[m] = pid[q]
        /\ \A p \in Proc \ {m} : call'[p] = call[p] /\ arg'[p] = arg[p]
    BY <1>1, <1>3, <2>1
  <2>3. Gone(m)' = FALSE /\ (\A p \in Proc : Gone(p)' = Gone(p)) /\ InUse' = InUse
    BY <1>2, <2>1 DEF Gone, InUse
  <2> QED BY <1>4, <2>1, <2>2, <2>3 DEF Leaves, StillWaits
<1> QED BY <1>5, <1>6

\* A process that sleeps in wait() is where it was.
LEMMA WaitGoesOn ==
  ASSUME IInv, Programs, NEW m \in Proc, me = m, NEW point \in {"init waits", "wait"}, At(point),
         NEW q \in InUse, result[m] = pid[q], Leaves(m), Gone(m)' = FALSE,
         StillWaits(m, q), UNCHANGED <<at, line, result>>
  PROVE  Programs'
<1>1. Sane(point, result[m], line[m], call[m], arg[m], FALSE) /\ at[m] = point /\ EachSane
  BY MyPlace DEF Programs
<1>2. Moves(m, at[m], result[m], line[m])
  BY <1>1, MovesTo
<1>3. Sane(at[m], result[m], line[m], call'[m], arg'[m], Gone(m)')
  BY <1>1 DEF Sane, StillWaits
<1>4. EachSane'
  BY <1>1, <1>2, <1>3, OwnStep
<1>5. Stage'
  BY DEF StillWaits, Programs, Stage, ShellAlone, ShellAndCommand
<1> QED BY <1>4, <1>5 DEF Programs

\* INIT waits for the shell, finds it killed and exits, or sleeps on.
LEMMA InitWaitsKeeps == ASSUME IInv, Programs, InitWaits PROVE Programs'
<1>1. /\ At("init waits") /\ WaitStep /\ UNCHANGED <<line, result>>
      /\ IF call'[me] = "user" THEN at' = [at EXCEPT ![me] = "exitu"] ELSE UNCHANGED at
  BY DEF InitWaits, Returned, Goto
<1>2. /\ me = 1 /\ 1 \in Proc /\ 2 \in Proc /\ ~ Gone(1)
      /\ Sane("init waits", result[1], line[1], call[1], arg[1], FALSE)
  BY <1>1, CallerIs, MyPlace, ShellSlots
<1>3. at[1] = "init waits" /\ result[1] = pid[2] /\ 2 \in InUse
      /\ (ShellAlone \/ ShellAndCommand)
  <2>1. at[1] = "init waits"
    BY <1>1, <1>2, MyPlace
  <2>2. result[1] = pid[2] /\ (ShellAlone \/ ShellAndCommand)
    BY <2>1 DEF Programs, Stage
  <2> QED BY <2>1, <2>2 DEF ShellAlone, ShellAndCommand
<1>4. WaitRound(pid[2])
  BY <1>1, <1>2, <1>3, WaitStepIs
<1>5. Leaves(1) /\ Gone(1)' = FALSE /\ (Freed(1, 2) \/ StillWaits(1, 2))
  BY <1>2, <1>3, <1>4, WaitDoes
<1>6. CASE Freed(1, 2)
  <2>1. at' = [at EXCEPT ![1] = "exitu"]
    BY <1>1, <1>2, <1>6 DEF Freed
  <2>2. Moves(1, "exitu", result[1], line[1])
    BY <1>1, <1>2, <2>1, MovesTo DEF Programs
  <2>3. Sane("exitu", result[1], line[1], call'[1], arg'[1], Gone(1)')
    BY <1>2, <1>5, <1>6 DEF Sane, Freed
  <2>4. EachSane'
    BY <1>2, <1>5, <2>2, <2>3, OwnStep DEF Programs
  <2>5. InUse = {1, 2}
    BY <1>3, <1>6 DEF Freed, ShellAlone, ShellAndCommand
  <2>6. InUse' = {1} /\ at'[1] = "exitu"
    BY <1>6, <2>2, <2>5 DEF Freed, Moves
  <2> QED BY <2>4, <2>6 DEF Programs, Stage
<1>7. CASE StillWaits(1, 2)
  <2>1. UNCHANGED at
    BY <1>1, <1>2, <1>7 DEF StillWaits
  <2>2. "init waits" \in {"init waits", "wait"}
    OBVIOUS
  <2> QED BY <1>1, <1>2, <1>3, <1>5, <1>7, <2>1, <2>2, WaitGoesOn
<1> QED BY <1>5, <1>6, <1>7

\* The shell goes on, alone, with its parent waiting.
LEMMA ShellGoesOn ==
  ASSUME EachSane', NEW a \in {"read", "open", "close", "fork"}, NEW r, NEW l, Moves(2, a, r, l),
         at[1] = "init waits", result[1] = pid[2], pid'[2] = pid[2], InUse' = {1, 2}
  PROVE  Programs'
<1>1. 1 \in Proc /\ 1 # 2
  BY ShellSlots
<1>2. at'[2] = a /\ at'[1] = "init waits" /\ result'[1] = pid'[2]
  BY <1>1 DEF Moves
<1>3. ShellAlone'
  BY <1>2 DEF ShellAlone
<1> QED BY <1>2, <1>3 DEF Programs, Stage

\* The shell waits for a command, frees its slot and prompts, or sleeps on.
LEMMA ShellWaitsKeeps == ASSUME IInv, Programs, ShellWaits PROVE Programs'
<1>1. At("wait") /\ WaitStep /\ IF call'[me] = "user" THEN Prompt ELSE Quiet
  BY DEF ShellWaits, Returned
<1>2. /\ me = 2 /\ 2 \in Proc /\ 3 \in Proc /\ ~ Gone(2)
      /\ at[1] = "init waits" /\ result[1] = pid[2] /\ ShellAndCommand
  BY <1>1, CallerIs, MyPlace, ShellSlots
<1>3. result[2] = pid[3] /\ 3 \in InUse /\ InUse = {1, 2, 3}
  BY <1>2 DEF ShellAndCommand
<1>4. WaitRound(pid[3])
  BY <1>1, <1>2, <1>3, WaitStepIs
<1>5. Leaves(2) /\ Gone(2)' = FALSE /\ (Freed(2, 3) \/ StillWaits(2, 3))
  BY <1>2, <1>3, <1>4, WaitDoes
<1>6. CASE Freed(2, 3)
  <2>1. Prompt
    BY <1>1, <1>2, <1>6 DEF Freed
  <2>2. Moves(2, "read", 0, <<>>)
    BY <1>2, <2>1, MovesTo DEF Programs, Prompt, Goto
  <2>3. Sane("read", 0, <<>>, call'[2], arg'[2], Gone(2)')
    BY <1>5, <1>6, NoLine DEF Sane, Freed
  <2>4. EachSane'
    BY <1>2, <1>5, <2>2, <2>3, OwnStep DEF Programs
  <2>5. InUse' = {1, 2} /\ pid'[2] = pid[2]
    <3>1. 2 \in Proc /\ 2 # 3
      <4>1. 2 \in Proc
        BY <1>2
      <4> QED BY <4>1
    <3> QED BY <1>3, <1>6, <3>1 DEF Freed
  <2>6. "read" \in {"read", "open", "close", "fork"}
    OBVIOUS
  <2> QED BY <1>2, <2>2, <2>4, <2>5, <2>6, ShellGoesOn
<1>7. CASE StillWaits(2, 3)
  <2>1. Quiet
    BY <1>1, <1>2, <1>7 DEF StillWaits
  <2>2. UNCHANGED <<at, line, result>> /\ "wait" \in {"init waits", "wait"}
    BY <2>1 DEF Quiet
  <2> QED BY <1>1, <1>2, <1>3, <1>5, <1>7, <2>2, WaitGoesOn
<1> QED BY <1>5, <1>6, <1>7

\* read_cmd() edits only a line that is not too long yet.
LEMMA EditedRoom ==
  ASSUME NEW ch, NEW l, Room(l), Len(l) <= Limit
  PROVE  Room(Edited(ch, l))
<1>1. PICK S : l \in Seq(S)
  BY DEF Room
<1>2. Len(l) \in Nat /\ Limit \in Nat
  BY <1>1, LenProperties, ShellAssumption
<1>3. CASE Edited(ch, l) = l
  BY <1>3
<1>4. CASE Edited(ch, l) = SubSeq(l, 1, Len(l) - 1) /\ l # <<>>
  <2> DEFINE n == Len(l) - 1
  <2>1. Len(l) > 0
    BY <1>1, <1>4, EmptySeq
  <2>2. n \in Nat /\ n <= Len(l)
    BY <1>2, <2>1
  <2>3. SubSeq(l, 1, n) \in Seq(S) /\ Len(SubSeq(l, 1, n)) = n
    <3> HIDE DEF n
    <3>1. \A i \in 1 .. n : l[i] \in S
      BY <1>1, <2>2, LenProperties
    <3>2. 1 \in Int /\ n \in Int
      BY <2>2
    <3>3. SubSeq(l, 1, n) \in Seq(S) /\ Len(SubSeq(l, 1, n)) = IF 1 <= n THEN n - 1 + 1 ELSE 0
      BY <3>1, <3>2, SubSeqProperties
    <3> QED BY <2>2, <3>3
  <2>4. n <= Limit + 1
    BY <1>2, <2>2
  <2> QED BY <1>4, <2>3, <2>4 DEF Room
<1>5. CASE Edited(ch, l) = Append(l, ch)
  <2>1. l \in Seq(S \cup {ch}) /\ ch \in S \cup {ch}
    BY <1>1
  <2>2. Append(l, ch) \in Seq(S \cup {ch}) /\ Len(Append(l, ch)) = Len(l) + 1
    BY <2>1, AppendProperties
  <2>3. Len(l) + 1 <= Limit + 1
    BY <1>2
  <2> QED BY <1>5, <2>2, <2>3 DEF Room
<1> QED BY <1>3, <1>4, <1>5 DEF Edited

\* What a key does to the shell's line and place.
LEMMA TypedMoves ==
  ASSUME EachSane, NEW m \in Proc, me = m, at[m] = "read", Room(line[m]), NEW ch, Typed(ch)
  PROVE  \E a \in {"read", "open"} : \E l : Room(l) /\ Moves(m, a, result[m], l)
<1>1. CASE EndsLine(ch, line[m])
  <2> DEFINE a == IF line[m] = <<>> THEN "read" ELSE "open"
  <2>1. at' = [at EXCEPT ![m] = a] /\ line' = line /\ result' = result
    BY <1>1 DEF Typed, Goto
  <2>2. Moves(m, a, result[m], line[m])
    BY <2>1, MovesTo
  <2>3. a \in {"read", "open"}
    OBVIOUS
  <2> QED BY <2>2, <2>3
<1>2. CASE ~ EndsLine(ch, line[m])
  <2> DEFINE l == Edited(ch, line[m])
  <2>1. at' = at /\ line' = [line EXCEPT ![m] = l] /\ result' = result
    BY <1>2 DEF Typed
  <2>2. Len(line[m]) <= Limit
    <3>1. Len(line[m]) \in Nat /\ Limit \in Nat
      BY LenProperties, ShellAssumption DEF Room
    <3>2. ~ (Len(line[m]) > Limit)
      BY <1>2 DEF EndsLine
    <3> QED BY <3>1, <3>2
  <2>3. Room(l)
    BY <2>2, EditedRoom
  <2> HIDE DEF l
  <2>4. Moves(m, "read", result[m], l)
    BY <2>1, MovesTo
  <2> QED BY <2>3, <2>4
<1> QED BY <1>1, <1>2

\* read_cmd() takes a key, or sleeps for one.
LEMMA ShellReadsKeeps == ASSUME IInv, Programs, ShellReads PROVE Programs'
<1>1. /\ At("read") /\ me = 2 /\ 2 \in Proc /\ ~ Gone(2) /\ at[2] = "read" /\ me = current_process
      /\ Sane("read", result[2], line[2], call[2], arg[2], FALSE)
      /\ at[1] = "init waits" /\ result[1] = pid[2] /\ InUse = {1, 2}
  <2>1. At("read")
    BY DEF ShellReads
  <2>2. me = 2
    BY <2>1, CallerIs
  <2> QED BY <2>1, <2>2, CallerIs, MyPlace
<1>2. /\ 2 \in Slot /\ Proc \subseteq Slot /\ call \in [Slot -> Call] /\ arg \in [Slot -> Nat]
  BY <1>1, SlotFacts DEF IInv, TypeOK
<1>3. result[2] \in Nat /\ Room(line[2])
  BY <1>1 DEF Sane
<1>4. EachSane
  BY DEF Programs
<1>5. CASE (KReadKey \/ KReadKeyWoken) /\ Typed(last')
  <2>1. PICK a \in {"read", "open"} : \E l : Room(l) /\ Moves(2, a, result[2], l)
    BY <1>1, <1>3, <1>4, <1>5, TypedMoves
  <2>2. /\ UNCHANGED <<pid, kill_list, pid_num, panic>> /\ call'[2] = "user"
        /\ \A p \in Proc \ {2} : call'[p] = call[p] /\ arg'[p] = arg[p]
    <3>1. CASE KReadKey
      BY <1>1, <3>1 DEF KReadKey, InUser, IrqOpen, procVars
    <3>2. CASE KReadKeyWoken
      <4>1. /\ UNCHANGED <<pid, kill_list, pid_num, panic>>
            /\ call' = [call EXCEPT ![2] = "user"] /\ arg' = [arg EXCEPT ![2] = 0]
        BY <1>1, <3>2 DEF KReadKeyWoken, KeyboardReadReturns, Return
      <4> QED BY <1>2, <4>1
    <3> QED BY <1>5, <3>1, <3>2
  <2>3. PICK l : Room(l) /\ Moves(2, a, result[2], l)
    BY <2>1
  <2>4. Sane(a, result[2], l, "user", 0, FALSE)
    BY <1>3, <2>1, <2>3 DEF Sane
  <2>5. EachSane' /\ InUse' = InUse
    BY <1>1, <2>2, <2>3, <2>4, PlainStep
  <2>6. pid'[2] = pid[2] /\ a \in {"read", "open", "close", "fork"}
    BY <2>2
  <2> QED BY <1>1, <2>3, <2>5, <2>6, ShellGoesOn
<1>6. CASE KReadKeySleeps /\ Quiet
  <2>1. UNCHANGED <<at, line, result>>
    BY <1>6 DEF Quiet
  <2>2. /\ UNCHANGED <<pid, pid_num, kill_list, arg, panic>>
        /\ call' = [call EXCEPT ![2] = "read_key_buffer"]
    BY <1>1, <1>6 DEF KReadKeySleeps, SysKeyboardRead
  <2>3. Moves(2, "read", result[2], line[2])
    BY <1>1, <1>4, <2>1, MovesTo
  <2>4. (\A p \in Proc : Gone(p)' = Gone(p)) /\ Gone(2)' = FALSE
    BY <1>1, <2>2 DEF Gone
  <2>5. Leaves(2) /\ call'[2] = "read_key_buffer"
    BY <1>2, <2>2, <2>4 DEF Leaves
  <2>6. Sane("read", result[2], line[2], call'[2], arg'[2], Gone(2)')
    BY <1>3, <2>4, <2>5 DEF Sane
  <2>7. EachSane'
    BY <1>1, <1>4, <2>3, <2>5, <2>6, OwnStep
  <2>8. InUse' = {1, 2} /\ pid'[2] = pid[2] /\ "read" \in {"read", "open", "close", "fork"}
    BY <1>1, <2>2 DEF InUse
  <2> QED BY <1>1, <2>3, <2>7, <2>8, ShellGoesOn
<1> QED BY <1>5, <1>6 DEF ShellReads

\* A step of the shell that leaves the processes of the kernel alone.
LEMMA ShellPlainStep ==
  ASSUME IInv, Programs, NEW point \in {"open", "close"}, At(point), InUser, UNCHANGED procVars,
         NEW a \in {"read", "close", "fork"}, NEW r, NEW l, Moves(2, a, r, l),
         Sane(a, r, l, "user", 0, FALSE)
  PROVE  Programs'
<1>1. /\ me = 2 /\ 2 \in Proc /\ ~ Gone(2) /\ me = current_process
      /\ at[1] = "init waits" /\ result[1] = pid[2] /\ InUse = {1, 2}
  <2>1. /\ me = 2 /\ at[1] = "init waits" /\ result[1] = pid[2] /\ InUse = {1, 2}
    BY CallerIs
  <2> QED BY <2>1, MyPlace
<1>2. /\ UNCHANGED <<pid, kill_list, pid_num, panic, call, arg>> /\ call'[2] = "user"
  BY <1>1 DEF procVars, InUser, IrqOpen
<1>3. EachSane' /\ InUse' = InUse
  BY <1>1, <1>2, PlainStep
<1>4. pid'[2] = pid[2] /\ a \in {"read", "open", "close", "fork"}
  BY <1>2
<1> QED BY <1>1, <1>3, <1>4, ShellGoesOn

LEMMA ShellOpensKeeps ==
  ASSUME Tables!FilesAssumption, IInv, Programs, ShellOpens
  PROVE  Programs'
<1>1. At("open") /\ me = 2 /\ 2 \in Proc /\ me = current_process /\ EachSane /\ InUser
  <2>1. At("open") /\ InUser
    BY DEF ShellOpens
  <2> QED BY <2>1, CallerIs, MyPlace DEF Programs
<1>2. CASE line[me] \in DOMAIN Command /\ CanExec
  <2> DEFINE r == Min(Tables!FreeFds(me))
  <2>1. /\ at' = [at EXCEPT ![2] = "close"] /\ result' = [result EXCEPT ![2] = r] /\ line' = line
        /\ UNCHANGED procVars
    BY <1>1, <1>2 DEF ShellOpens, KOpen, Goto
  <2>2. r \in Tables!Fd /\ r \in Nat
    <3>1. Tables!FreeFds(me) # {} /\ Tables!FreeFds(me) \subseteq Tables!Fd
      BY <1>1, <1>2 DEF CanExec, Tables!CanOpen, Tables!FreeFds
    <3>2. Tables!Fd \subseteq Nat
      BY DEF Tables!Fd, Tables!FilesAssumption
    <3> QED BY <3>1, <3>2, MinOfNats
  <2> HIDE DEF r
  <2>3. Moves(2, "close", r, line[2])
    BY <1>1, <2>1, MovesTo
  <2>4. Sane("open", result[2], line[2], call[2], arg[2], FALSE)
    BY <1>1, MyPlace
  <2>5. Sane("close", r, line[2], "user", 0, FALSE)
    BY <1>1, <1>2, <2>2, <2>4 DEF Sane
  <2>6. "open" \in {"open", "close"} /\ "close" \in {"read", "close", "fork"}
    OBVIOUS
  <2> QED BY <1>1, <2>1, <2>3, <2>5, <2>6, ShellPlainStep
<1>3. CASE ~ (line[me] \in DOMAIN Command /\ CanExec)
  <2>1. Prompt /\ UNCHANGED procVars
    BY <1>3 DEF ShellOpens, kernelVars
  <2>2. Moves(2, "read", 0, <<>>)
    BY <1>1, <2>1, MovesTo DEF Prompt, Goto
  <2>3. Sane("read", 0, <<>>, "user", 0, FALSE)
    BY NoLine DEF Sane
  <2>4. "open" \in {"open", "close"} /\ "read" \in {"read", "close", "fork"}
    OBVIOUS
  <2> QED BY <1>1, <2>1, <2>2, <2>3, <2>4, ShellPlainStep
<1> QED BY <1>2, <1>3

\* The shell closes the file it found and starts it.
LEMMA ShellClosesKeeps == ASSUME IInv, Programs, ShellCloses PROVE Programs'
<1>1. /\ At("close") /\ InUser /\ UNCHANGED procVars
      /\ at' = [at EXCEPT ![me] = "fork"] /\ line' = line /\ result' = result
  BY DEF ShellCloses, KClose, Goto
<1>2. /\ me = 2 /\ 2 \in Proc /\ EachSane
      /\ Sane("close", result[2], line[2], call[2], arg[2], FALSE)
  BY <1>1, CallerIs, MyPlace DEF Programs
<1>3. Moves(2, "fork", result[2], line[2])
  BY <1>1, <1>2, MovesTo
<1>4. Sane("fork", result[2], line[2], "user", 0, FALSE)
  BY <1>2 DEF Sane
<1>5. "close" \in {"open", "close"} /\ "fork" \in {"read", "close", "fork"}
  OBVIOUS
<1> QED BY <1>1, <1>3, <1>4, <1>5, ShellPlainStep

\* fs.c under the programs: an ASSERT of read_raw_data() is never at stake, and
\* put_fcb()'s holds as long as the counts are sound.
LEMMA ShellFiles ==
  ASSUME ShellInv, [ShellNext]_shellVars
  PROVE  fs_panic' \in {"none", "put_fcb"}
<1>1. fs_panic = "none"
  BY DEF ShellInv
<1>2. SUFFICES UNCHANGED fs_panic \/ fs_panic' = "put_fcb"
  BY <1>1
<1>3. CASE ShellTick \/ \E ch \in Char : ShellKey(ch)
  BY <1>3 DEF ShellTick, Tick, ShellKey, KeyIrq, tableVars
<1>4. CASE InitForks \/ ShellForks
  BY <1>4 DEF InitForks, ShellForks, ForkAt, KFork, tableVars, Tables!CopyFiles
<1>5. CASE InitExecs \/ ShellExecs
  BY <1>5 DEF InitExecs, ShellExecs, ExecAt, KExec, KExit, tableVars, Tables!Load
<1>6. CASE InitWaits \/ ShellWaits
  <2>1. PICK n : WaitFiles(n)
    BY <1>6 DEF InitWaits, ShellWaits, WaitStep, KWait, KWaitLoop
  <2> QED BY <2>1 DEF WaitFiles, tableVars, Tables!ClearFiles
<1>7. CASE ShellReads
  BY <1>7 DEF ShellReads, KReadKey, KReadKeySleeps, KReadKeyWoken, tableVars
<1>8. CASE ShellOpens
  BY <1>8 DEF ShellOpens, KOpen, Tables!Open, kernelVars, tableVars
<1>9. CASE ShellCloses
  BY <1>9 DEF ShellCloses, KClose, Tables!Close
<1>10. CASE Exits
  BY <1>10 DEF Exits, KExit, tableVars
<1>11. CASE UNCHANGED shellVars
  BY <1>11 DEF shellVars, kernelVars, tableVars
<1> QED BY <1>3, <1>4, <1>5, <1>6, <1>7, <1>8, <1>9, <1>10, <1>11 DEF ShellNext, UserStep

\* The kernel starts with INIT alone.
LEMMA ShellInitInv ==
  ASSUME Tables!FilesAssumption, ShellInit
  PROVE  ShellInv
<1>1. KernelInit(InitBin) /\ InitBin \in File /\ Init
  BY ShellAssumption DEF ShellInit, KernelInit
<1>2. IInv /\ FilesFacts!CountsInv /\ fs_panic = "none"
  BY <1>1, InitInv, KernelInitCounts DEF KernelInit
<1>3. /\ pid = [p \in Slot |-> IF p = 1 THEN 1 ELSE 0] /\ kill_list = <<>> /\ pid_num = 2
      /\ call = [p \in Slot |-> "user"] /\ arg = [p \in Slot |-> 0] /\ panic = "none"
  BY <1>1 DEF Init
<1>4. /\ at = [p \in Proc |-> IF p = 1 THEN "init" ELSE "exited"]
      /\ line = [p \in Proc |-> <<>>] /\ result = [p \in Proc |-> 0]
  BY DEF ShellInit
<1>5. ASSUME NEW p \in Proc
      PROVE  Sane(at[p], result[p], line[p], call[p], arg[p], Gone(p))
  <2>1. ToSet(kill_list) = {} /\ p \in Slot
    BY <1>3, SlotFacts DEF ToSet
  <2>2. Gone(p) <=> p # 1
    BY <1>3, <2>1 DEF Gone
  <2>3. call[p] = "user" /\ result[p] = 0 /\ line[p] = <<>>
    BY <1>3, <1>4, <2>1
  <2>4. at[p] = IF p = 1 THEN "init" ELSE "exited"
    BY <1>4
  <2> QED BY <2>2, <2>3, <2>4, NoLine DEF Sane
<1>6. EachSane
  <2>1. pid_num <= MaxPid + 1
    BY <1>3, ProcessAssumption
  <2> QED BY <1>3, <1>4, <1>5, <2>1 DEF EachSane
<1>7. Stage
  <2>1. InUse = {1} /\ at[1] = "init"
    BY <1>3, <1>4, SlotFacts, ShellSlots DEF InUse
  <2> QED BY <2>1 DEF Stage
<1> QED BY <1>2, <1>6, <1>7 DEF ShellInv, Programs

\* One lemma above for each kind of step.
LEMMA ShellStepInv ==
  ASSUME Tables!FilesAssumption, ShellInv, [ShellNext]_shellVars
  PROVE  ShellInv'
<1>1. IInv /\ FilesFacts!CountsInv /\ Programs
  BY DEF ShellInv
<1>2. [KernelNext]_kernelVars
  BY ShellStepIsKernelStep
<1>3. IInv' /\ FilesFacts!CountsInv'
  BY <1>1, <1>2, KernelStepInv, KernelStepCounts
<1>4. fs_panic' = "none"
  BY <1>3, ShellFiles DEF FilesFacts!CountsInv, FilesFacts!CountsCoverHolders
<1>5. Programs'
  <2>1. CASE ShellTick
    BY <1>1, <2>1, TickKeeps
  <2>2. CASE \E ch \in Char : ShellKey(ch)
    BY <1>1, <2>2, KeyKeeps
  <2>3. CASE UserStep
    <3>1. CASE InitForks \/ ShellForks
      BY <1>1, <3>1, InitForksKeeps, ShellForksKeeps
    <3>2. CASE InitExecs \/ ShellExecs
      BY <1>1, <3>2, InitExecsKeeps, ShellExecsKeeps
    <3>3. CASE InitWaits \/ ShellWaits
      BY <1>1, <3>3, InitWaitsKeeps, ShellWaitsKeeps
    <3>4. CASE ShellReads
      BY <1>1, <3>4, ShellReadsKeeps
    <3>5. CASE ShellOpens
      BY <1>1, <3>5, ShellOpensKeeps
    <3>6. CASE ShellCloses
      BY <1>1, <3>6, ShellClosesKeeps
    <3>7. CASE Exits
      BY <1>1, <3>7, ExitsKeeps
    <3> QED BY <2>3, <3>1, <3>2, <3>3, <3>4, <3>5, <3>6, <3>7 DEF UserStep
  <2>4. CASE UNCHANGED shellVars
    <3>1. UNCHANGED <<at, line, result, pid, kill_list, call, pid_num, panic, arg>>
      BY <2>4 DEF shellVars, kernelVars, procVars
    <3> QED BY <1>1, <3>1, InterruptKeeps
  <2> QED BY <2>1, <2>2, <2>3, <2>4 DEF ShellNext
<1> QED BY <1>3, <1>4, <1>5 DEF ShellInv

\* The programs of the image run on the kernel as it is specified.
THEOREM ShellInvariant ==
  ASSUME Tables!FilesAssumption
  PROVE  ShellSpec => []ShellInv
BY ShellInitInv, ShellStepInv, PTL DEF ShellSpec

\* At the prompt the idle process, INIT and the shell are all that is left of
\* what fork(), exec(), exit() and wait() did for the lines before, and no
\* ASSERT of process.c or fs.c has failed, however long the session.
THEOREM SlotsAlwaysSuffice ==
  ASSUME Tables!FilesAssumption
  PROVE  ShellSpec => []SlotsSuffice
<1>1. ShellInv => SlotsSuffice
  <2> SUFFICES ASSUME ShellInv PROVE SlotsSuffice
    OBVIOUS
  <2>1. IInv /\ EachSane /\ Stage /\ panic = "none" /\ fs_panic = "none"
    BY DEF ShellInv, Programs, EachSane
  <2>2. ASSUME NEW p \in Proc, at[p] = "read"
        PROVE  Cardinality(Slot \ Unused) = 3
    <3>1. p \in InUse
      BY <2>1, <2>2 DEF EachSane, Sane, Gone, InUse
    <3>2. InUse = {1, 2}
      BY <2>1, <2>2, <3>1 DEF Stage, ShellAlone, ShellAndCommand
    <3>3. ASSUME NEW q \in Slot
          PROVE  q \notin Unused <=> q = 0 \/ q \in {1, 2}
      <4>1. CASE q = Idle
        BY <2>1, <4>1 DEF IInv, OneRunning, Unused, Idle
      <4>2. CASE q \in Proc
        <5>1. state[q] # "UNUSED" <=> pid[q] > 0
          BY <2>1, <4>2 DEF IInv, PidsIdentify
        <5>2. pid[q] \in Nat
          BY <2>1 DEF IInv, TypeOK
        <5>3. q # 0 /\ (q \in InUse <=> pid[q] # 0)
          BY <4>2, ShellSlots DEF InUse
        <5> QED BY <3>2, <5>1, <5>2, <5>3 DEF Unused
      <4> QED BY <4>1, <4>2, SlotFacts
    <3>4. Slot \ Unused = 0 .. 2
      <4>1. {0, 1, 2} \subseteq Slot
        BY ShellSlots, SlotFacts DEF Idle
      <4>2. Slot \ Unused = {0, 1, 2}
        BY <3>3, <4>1
      <4>3. 0 .. 2 = {0, 1, 2}
        OBVIOUS
      <4> QED BY <4>2, <4>3
    <3>5. 0 \in Int /\ 2 \in Int
      OBVIOUS
    <3>6. Cardinality(0 .. 2) = 3
      <4>1. Cardinality(0 .. 2) = IF 0 > 2 THEN 0 ELSE 2 - 0 + 1
        BY <3>5, FS_Interval
      <4> QED BY <4>1
    <3> QED BY <3>4, <3>6
  <2> QED BY <2>1, <2>2 DEF SlotsSuffice
<1> QED BY <1>1, ShellInvariant, PTL

\* read_cmd() never writes behind main()'s buffer, whatever is typed.
THEOREM LinesFit ==
  ASSUME Tables!FilesAssumption
  PROVE  ShellSpec => []LineFits
<1>1. ShellInv => LineFits
  <2> SUFFICES ASSUME ShellInv, NEW p \in Proc PROVE Len(line[p]) < BufferSize
    BY DEF LineFits
  <2>1. Room(line[p])
    BY DEF ShellInv, Programs, EachSane, Sane
  <2>2. Len(line[p]) \in Nat /\ Len(line[p]) <= Limit + 1
    BY <2>1, LenProperties DEF Room
  <2> QED BY <2>2, ShellAssumption
<1> QED BY <1>1, ShellInvariant, PTL

-----------------------------------------------------------------------------
(* The shell is the one process that reads keys.                           *)

\* Hence the driver is that of KeyboardProofs with one reader, slot 2.
Ring == INSTANCE KeyboardProofs
          WITH Reader <- {2}, pc <- [r \in {2} |-> pc[r]], local <- [r \in {2} |-> local[r]]

OnlyShellReads == \A p \in Proc : pc[p] # "user" => p = 2

\* Slot 1 is INIT and slot 3 a command, and neither reads keys.
LEMMA ReaderIsShell == ShellInv => OnlyShellReads
<1> SUFFICES ASSUME ShellInv, NEW p \in Proc, pc[p] # "user" PROVE p = 2
  BY DEF OnlyShellReads
<1>1. call[p] = "read_key_buffer"
  BY DEF pc
<1>2. EachSane /\ Stage
  BY DEF ShellInv, Programs
<1>3. at[p] = "read" /\ p \in InUse
  BY <1>1, <1>2 DEF EachSane, Sane, Gone, InUse
<1> QED BY <1>2, <1>3 DEF Stage, ShellAlone, ShellAndCommand

\* A key is taken by the shell alone, from read_key_buffer() or its start.
LEMMA ShellTakes ==
  ASSUME ShellInv, [ShellNext]_shellVars, front' # front
  PROVE  2 \in Proc /\ (pc[2] = "user" \/ pc'[2] # pc[2])
<1>1. IInv /\ Programs /\ 2 \in Proc /\ 2 \in Slot
  BY ShellSlots, SlotFacts DEF ShellInv
<1>2. ~ (ShellTick \/ \E ch \in Char : ShellKey(ch))
  BY DEF ShellTick, Tick, ShellKey, KeyIrq, ringVars
<1>3. ~ (InitForks \/ ShellForks \/ InitExecs \/ ShellExecs \/ Exits)
  BY DEF InitForks, ShellForks, ForkAt, KFork, InitExecs, ShellExecs, ExecAt, KExec, KExit, Exits,
         ringVars
<1>4. ~ (InitWaits \/ ShellWaits)
  BY DEF InitWaits, ShellWaits, WaitStep, KWait, KWaitLoop, ringVars
<1>5. ~ (ShellOpens \/ ShellCloses)
  BY DEF ShellOpens, ShellCloses, KOpen, KClose, kernelVars, ringVars
<1>6. ~ UNCHANGED shellVars
  BY DEF shellVars, kernelVars, ringVars
<1>7. ShellReads
  BY <1>2, <1>3, <1>4, <1>5, <1>6 DEF ShellNext, UserStep
<1>8. me = 2 /\ me = current_process /\ call \in [Slot -> Call]
  <2>1. At("read")
    BY <1>7 DEF ShellReads
  <2> QED BY <1>1, <2>1, CallerIs DEF me, IInv, TypeOK
<1>9. CASE KReadKey
  BY <1>1, <1>8, <1>9 DEF KReadKey, InUser, IrqOpen, pc
<1>10. CASE KReadKeyWoken
  <2>1. call[2] = "read_key_buffer" /\ call'[2] = "user"
    BY <1>1, <1>8, <1>10 DEF KReadKeyWoken, KeyboardReadReturns, Continues, Return
  <2> QED BY <1>1, <2>1 DEF pc
<1>11. CASE KReadKeySleeps
  BY <1>11 DEF KReadKeySleeps
<1> QED BY <1>7, <1>9, <1>10, <1>11 DEF ShellReads

\* The inductive invariant of the ring under the shell.
KeyInv == Ring!RingInv /\ DOMAIN local = Proc

\* So each step is one of a driver with one reader.
LEMMA ShellStepIsRing ==
  ASSUME Driver!KeyboardAssumption, KeyInv, ShellInv, OnlyShellReads, OnlyShellReads', [ShellNext]_shellVars
  PROVE  [Ring!Next]_(Ring!keyVars) /\ DOMAIN local' = Proc
<1>1. [Driver!Next]_(Driver!keyVars) /\ 2 \in Proc /\ DOMAIN local = Proc
  BY ShellStepIsKernelStep, KernelStepIsKeyboard, ShellSlots DEF ShellInv, KeyInv
<1>2. CASE \E ch \in Char : Driver!keyboard_handler(ch)
  <2>1. PICK ch \in Char : Driver!keyboard_handler(ch)
    BY <1>2
  <2>2. pc'[2] = IF pc[2] = "asleep" THEN "woken" ELSE pc[2]
    BY <1>1, <2>1 DEF Driver!keyboard_handler
  <2>3. UNCHANGED <<front, local, last>> /\ Driver!write_key_buffer(ch)
    BY <2>1 DEF Driver!keyboard_handler
  <2>4. Ring!keyboard_handler(ch)
    BY <2>2, <2>3 DEF Ring!keyboard_handler, Driver!write_key_buffer, Ring!write_key_buffer
  <2> QED BY <1>1, <2>3, <2>4 DEF Ring!Next
<1>3. CASE \E r \in Proc : Driver!ReadKey(r)
  <2>1. PICK r \in Proc : Driver!ReadKey(r)
    BY <1>3
  <2>2. CASE front = end
    <3>1. /\ pc[r] = "user" /\ pc' = [pc EXCEPT ![r] = "asleep"]
          /\ local' = [local EXCEPT ![r] = front] /\ UNCHANGED <<buffer, front, end, last>>
      BY <2>1, <2>2 DEF Driver!ReadKey
    <3>2. pc'[r] = "asleep"
      BY <3>1 DEF pc
    <3>3. r = 2
      BY <3>2 DEF OnlyShellReads
    <3>4. /\ pc[2] = "user" /\ pc'[2] = "asleep" /\ local'[2] = front /\ DOMAIN local' = Proc
      BY <1>1, <3>1, <3>2, <3>3
    <3>5. Ring!ReadKey(2)
      BY <2>2, <3>1, <3>4 DEF Ring!ReadKey
    <3> QED BY <3>4, <3>5 DEF Ring!Next
  <2>3. CASE front # end
    <3>1. UNCHANGED <<pc, local>> /\ Driver!TakeKey(front)
      BY <2>1, <2>3 DEF Driver!ReadKey
    <3>2. CASE front' = front
      <4>1. Ring!KeyboardAssumption /\ front \in Ring!Index
        BY DEF Driver!KeyboardAssumption, Ring!KeyboardAssumption, KeyInv, Ring!RingInv, Ring!TypeOK
      <4>2. (front + 1) % Size = Ring!Next1(front)
        BY <4>1, Ring!Advance
      <4>3. Ring!Next1(front) = front
        BY <3>1, <3>2, <4>2 DEF Driver!TakeKey
      <4> QED BY <4>1, <4>3 DEF Ring!Next1, Ring!Index, Ring!KeyboardAssumption
    <3>3. CASE front' # front
      <4>1. pc[2] = "user"
        BY <3>1, <3>3, ShellTakes
      <4>2. Ring!TakeKey(front)
        BY <3>1 DEF Driver!TakeKey, Ring!TakeKey
      <4>3. Ring!ReadKey(2)
        BY <2>3, <3>1, <4>1, <4>2 DEF Ring!ReadKey
      <4> QED BY <1>1, <3>1, <4>3 DEF Ring!Next
    <3> QED BY <3>2, <3>3
  <2> QED BY <2>2, <2>3
<1>4. CASE \E r \in Proc : Driver!ReadKeyWoken(r)
  <2>1. PICK r \in Proc : Driver!ReadKeyWoken(r)
    BY <1>4
  <2>2. /\ pc[r] = "woken" /\ Driver!TakeKey(local[r])
        /\ pc' = [pc EXCEPT ![r] = "user"] /\ local' = [local EXCEPT ![r] = 0]
    BY <2>1 DEF Driver!ReadKeyWoken
  <2>3. r = 2
    BY <2>2 DEF OnlyShellReads
  <2>4. pc'[r] = "user"
    BY <2>2 DEF pc
  <2>5. /\ pc[2] = "woken" /\ pc'[2] = "user" /\ local'[2] = 0 /\ DOMAIN local' = Proc
    BY <1>1, <2>2, <2>3, <2>4
  <2>6. Ring!TakeKey(local[2])
    BY <2>2, <2>3 DEF Driver!TakeKey, Ring!TakeKey
  <2>7. Ring!ReadKeyWoken(2)
    BY <2>5, <2>6 DEF Ring!ReadKeyWoken
  <2> QED BY <2>5, <2>7 DEF Ring!Next
<1>5. CASE UNCHANGED Driver!keyVars
  BY <1>1, <1>5 DEF Driver!keyVars, Ring!keyVars
<1> QED BY <1>1, <1>2, <1>3, <1>4, <1>5 DEF Driver!Next

\* The driver starts with an empty ring.
LEMMA ShellInitKeys ==
  ASSUME Driver!KeyboardAssumption, ShellInit
  PROVE  KeyInv /\ Driver!Abstract!Init
<1>1. Init /\ KernelInit(InitBin) /\ 2 \in Proc /\ 2 \in Slot
  BY ShellSlots, SlotFacts DEF ShellInit, KernelInit
<1>2. /\ buffer = [i \in Driver!Index |-> Nul] /\ front = 0 /\ end = 0
      /\ local = [p \in Proc |-> 0] /\ last = Nul
  BY <1>1 DEF KernelInit
<1>3. pc[2] = "user" /\ local[2] = 0 /\ DOMAIN local = Proc
  BY <1>1, <1>2 DEF Init, pc
<1>4. Ring!Init
  BY <1>2, <1>3 DEF Ring!Init, Driver!Index, Ring!Index
<1>5. Ring!KeyboardAssumption
  BY DEF Driver!KeyboardAssumption, Ring!KeyboardAssumption
<1>6. Ring!RingInv /\ Ring!Abstract!Init
  BY <1>4, <1>5, Ring!InitInv, Ring!InitRefines
<1>7. Driver!Abstract!Init
  BY <1>6 DEF Ring!Abstract!Init, Driver!Abstract!Init, Ring!Keys, Driver!Keys, Ring!Count, Driver!Count
<1> QED BY <1>3, <1>6, <1>7 DEF KeyInv

\* What is proved of one reader is carried over.
LEMMA ShellStepKeys ==
  ASSUME Driver!KeyboardAssumption, KeyInv, ShellInv, OnlyShellReads, OnlyShellReads',
         [ShellNext]_shellVars
  PROVE  KeyInv' /\ [Driver!Abstract!Next]_<<Driver!Keys, last>>
<1>1. Ring!RingInv /\ [Ring!Next]_(Ring!keyVars) /\ DOMAIN local' = Proc
  BY ShellStepIsRing DEF KeyInv
<1>2. Ring!KeyboardAssumption /\ Ring!OneReader
  BY DEF Driver!KeyboardAssumption, Ring!KeyboardAssumption, Ring!OneReader
<1>3. Ring!RingInv' /\ [Ring!Abstract!Next]_<<Ring!Keys, last>>
  BY <1>1, <1>2, Ring!NextInv, Ring!NextRefines
<1>4. Driver!Keys = Ring!Keys /\ Driver!Keys' = Ring!Keys'
  BY DEF Driver!Keys, Ring!Keys, Driver!Count, Ring!Count
<1>5. [Driver!Abstract!Next]_<<Driver!Keys, last>>
  BY <1>3, <1>4
     DEF Driver!Abstract!Next, Ring!Abstract!Next, Driver!Abstract!Press, Ring!Abstract!Press,
         Driver!Abstract!Read, Ring!Abstract!Read
<1> QED BY <1>1, <1>3, <1>5 DEF KeyInv

\* Whatever is typed, and whenever: the shell reads the keys of read_cmd() in
\* the order they were typed, each once, with only those missing that came
\* while the buffer was full.  No command it starts takes one away.
THEOREM ShellKeysAreQueued ==
  ASSUME Tables!FilesAssumption, Driver!KeyboardAssumption
  PROVE  ShellSpec => KeysAreQueued
<1>1. ShellSpec => []ShellInv
  BY ShellInvariant
<1>2. ShellInit => KeyInv /\ Driver!Abstract!Init
  BY ShellInitKeys
<1>3. KeyInv /\ ShellInv /\ OnlyShellReads /\ OnlyShellReads' /\ [ShellNext]_shellVars
        => KeyInv' /\ [Driver!Abstract!Next]_<<Driver!Keys, last>>
  BY ShellStepKeys
<1> QED BY <1>1, <1>2, <1>3, ReaderIsShell, PTL
        DEF ShellSpec, KeysAreQueued, Driver!IsKeyQueue, Driver!Abstract!Spec
=============================================================================
