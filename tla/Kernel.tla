------------------------------- MODULE Kernel -------------------------------
(***************************************************************************)
(* The kernel's processes with their keyboard driver and their open files: *)
(* the state of Process, Keyboard and Files in one, and each entry to the  *)
(* kernel with all it does to the three.  What Keyboard and Files leave    *)
(* open, namely who runs when and which slot a process has, is here what   *)
(* process.c makes of it: a reader is woken when wake_up(-2) puts it on    *)
(* the ready list, and lives until its slot's state says otherwise.        *)
(*                                                                         *)
(* Operators whose names start with Wrong: see Process.                    *)
(***************************************************************************)
EXTENDS Process

CONSTANTS
  Char, Nul, Size,                            \* of Keyboard
  NumFd, NumDesc, File, FileSize,             \* of Files
  ClusterSize, MaxRead, MaxCount, NULL

VARIABLES
  buffer, front, end, local, last,            \* of Keyboard
  file, desc, fcb_count, fs_panic             \* of Files

ringVars   == <<buffer, front, end, local, last>>
tableVars  == <<file, desc, fcb_count, fs_panic>>
kernelVars == <<procVars, ringVars, tableVars>>

\* Where each process stands in read_key_buffer(), and the life of its slot.
pc == [p \in Proc |->
         IF call[p] # "read_key_buffer" THEN "user"
         ELSE IF state[p] = "SLEEP" THEN "asleep" ELSE "woken"]

life == [p \in Proc |->
           CASE state[p] = "UNUSED" -> "free"
             [] state[p] = "KILLED" -> "killed"
             [] OTHER               -> "live"]

Driver == INSTANCE Keyboard WITH Reader <- Proc
Tables == INSTANCE Files WITH panic <- fs_panic

\* kernel_main() has come to its end: setup_uvm() has loaded INIT.BIN.
KernelInit(init) ==
  /\ Init
  /\ buffer = [i \in Driver!Index |-> Nul] /\ front = 0 /\ end = 0
  /\ local = [p \in Proc |-> 0] /\ last = Nul
  /\ file = [p \in Proc |-> Tables!NoFiles]
  /\ desc = [d \in Tables!Desc |-> IF d = 0 THEN Tables!Loaded(init) ELSE Tables!FreeDesc]
  /\ fcb_count = [f \in File |-> 0]
  /\ fs_panic = "none"

-----------------------------------------------------------------------------
(* Interrupts.                                                             *)

Tick == TimerIrq /\ UNCHANGED <<ringVars, tableVars>>

\* keyboard_handler(): the key is written, then its readers are woken.
KeyIrq(ch) ==
  /\ UartIrq
  /\ Driver!write_key_buffer(ch)
  /\ UNCHANGED <<front, local, last, tableVars>>

-----------------------------------------------------------------------------
(* System calls of the current process.                                    *)

KSleep(n)  == SysSleep(n) /\ UNCHANGED <<ringVars, tableVars>>
KSleepLoop == SysSleepLoop /\ UNCHANGED <<ringVars, tableVars>>

\* sys_keyboard_read(): at once, or asleep and then woken.
KReadKey ==
  /\ InUser /\ front # end
  /\ Driver!TakeKey(front)
  /\ UNCHANGED <<procVars, local, tableVars>>

KReadKeySleeps ==
  /\ front = end
  /\ SysKeyboardRead
  /\ local' = [local EXCEPT ![current_process] = front]
  /\ UNCHANGED <<buffer, front, end, last, tableVars>>

KReadKeyWoken ==
  /\ KeyboardReadReturns
  /\ Driver!TakeKey(local[current_process])
  /\ local' = [local EXCEPT ![current_process] = 0]
  /\ UNCHANGED tableVars

KOpen(f)     == InUser /\ Tables!Open(current_process, f) /\ UNCHANGED <<procVars, ringVars>>
KClose(fd)   == InUser /\ Tables!Close(current_process, fd) /\ UNCHANGED <<procVars, ringVars>>
KRead(fd, n) == InUser /\ Tables!Read(current_process, fd, n) /\ UNCHANGED <<procVars, ringVars>>

KExit == Exit /\ UNCHANGED <<ringVars, tableVars>>

\* exec(): the current process goes on in the new program, or exits.
CanExec == Tables!CanOpen(current_process)

KExec(f) ==
  /\ InUser
  /\ IF CanExec THEN Tables!Load(f) /\ UNCHANGED <<procVars, ringVars>> ELSE KExit

KFork ==
  /\ Fork
  /\ IF Unused = {} THEN UNCHANGED tableVars
     ELSE Tables!CopyFiles(current_process, Min(Unused))
  /\ UNCHANGED ringVars

\* A round of wait(n): the descriptors of the process it frees go with it.
WrongWaitFiles(n) == UNCHANGED tableVars

WaitFiles(n) ==
  LET found == Matches(kill_list, wait, n)
  IN  IF found = {} THEN UNCHANGED tableVars ELSE Tables!ClearFiles(kill_list[Min(found)])

KWait(n)  == SysWait(n) /\ WaitFiles(n) /\ UNCHANGED ringVars
KWaitLoop == WaitLoop /\ WaitFiles(arg[current_process]) /\ UNCHANGED ringVars

KContinue == KSleepLoop \/ KReadKeyWoken \/ KWaitLoop

\* The answer to a failed ASSERT, and to a fault of the kernel's own.
KHang == (panic # "none" \/ fs_panic # "none") /\ UNCHANGED kernelVars

KernelStep ==
  \/ Tick
  \/ \E ch \in Char : KeyIrq(ch)
  \/ \E n \in 1 .. MaxSleep : KSleep(n)
  \/ KReadKey \/ KReadKeySleeps
  \/ \E f \in File : KOpen(f) \/ KExec(f)
  \/ \E fd \in Tables!Fd : KClose(fd)
  \/ \E fd \in Tables!Fd, n \in 0 .. MaxRead : KRead(fd, n)
  \/ KExit
  \/ KFork
  \/ \E n \in 1 .. MaxPid : KWait(n)
  \/ KContinue

KernelNext == (fs_panic = "none" /\ KernelStep) \/ KHang

KernelSpec == (\E f \in File : KernelInit(f)) /\ [][KernelNext]_kernelVars

-----------------------------------------------------------------------------
(* Properties.                                                             *)

\* keyboard.c with sleep(), wake_up() and the scheduler is the driver that
\* Keyboard describes: a reader is woken by a key and by nothing else, and
\* goes on only from there, through ticks, exits and slots used again.
IsKeyboard == Driver!Spec

\* fs.c with fork(), exec(), exit() and wait() is the system of Files, from
\* the end of init_process() on: descriptors come to a slot with the process
\* that takes it and leave with the one that gives it up.
IsFiles == [][Tables!Next]_(Tables!fileVars)
=============================================================================
