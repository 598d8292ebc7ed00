-------------------------------- MODULE Shell --------------------------------
(***************************************************************************)
(* The programs of the disk image on the kernel: INIT.BIN, which starts    *)
(* the shell, CONSOLE.BIN, the shell, and the commands it starts, which    *)
(* like ls and test print and exit.  Each process runs its program, one    *)
(* system call a step, and can be interrupted between any two of them.     *)
(* Calls that only print or look (sys_write, sys_getpid and the two on the *)
(* directory) change nothing in the kernel and are left out.               *)
(*                                                                         *)
(* A line is what was typed; Command gives the file that the capitalised   *)
(* line names, if there is one, and names no shell.                        *)
(*                                                                         *)
(* Operators whose names start with Wrong: see Process.                    *)
(***************************************************************************)
EXTENDS Kernel

CONSTANTS
  Enter, Backspace,   \* keys, of Char
  Limit,              \* read_cmd() takes no more once a line is longer
  BufferSize,         \* main()'s buffer
  InitBin, ConsoleBin,
  Command             \* a function from lines to files

\* The idle process, INIT, the shell and a command have a slot each; a line
\* that read_cmd() takes no more of has room for the zero that ends it.
ASSUME ShellAssumption ==
  /\ NUM_PROC >= 4
  /\ Limit \in Nat /\ BufferSize \in Nat /\ Limit + 1 < BufferSize
  /\ {InitBin, ConsoleBin} \subseteq File
  /\ \A l \in DOMAIN Command : Command[l] \in File

VARIABLES
  at,      \* each process's place in its program: the call it makes next
  line,    \* its line buffer, up to buffer_size
  result   \* the descriptor or the pid its program holds

shellVars == <<kernelVars, at, line, result>>

ShellInit ==
  /\ KernelInit(InitBin)
  /\ at = [p \in Proc |-> IF p = 1 THEN "init" ELSE "exited"]
  /\ line = [p \in Proc |-> <<>>]
  /\ result = [p \in Proc |-> 0]

me == current_process

At(point) == current_process # Idle /\ at[me] = point
Goto(point) == at' = [at EXCEPT ![me] = point]

Quiet == UNCHANGED <<at, line, result>>

-----------------------------------------------------------------------------
\* pid = fork(): the child goes on from the same place, with a copy of the line.
ForkAt(point, parent, child) ==
  /\ At(point)
  /\ KFork
  /\ IF Unused = {}
     THEN Quiet
     ELSE LET kid == Min(Unused)
          IN  /\ at' = [at EXCEPT ![me] = parent, ![kid] = child]
              /\ line' = [line EXCEPT ![kid] = line[me]]
              /\ result' = [result EXCEPT ![me] = pid_num]

\* exec(), which comes back only by way of exit().
ExecAt(point, f, program) ==
  /\ KExec(f)
  /\ Goto(IF CanExec THEN program ELSE "exited")
  /\ line' = [line EXCEPT ![me] = <<>>]
  /\ result' = [result EXCEPT ![me] = 0]

\* waitu(pid), from the call and from each wake-up; it has returned when the
\* process is in user code again.
WaitStep == KWait(result[me]) \/ KWaitLoop
Returned == call'[me] = "user"

\* main() of INIT.BIN, which returns, and so exits, if the shell ends.
InitForks == ForkAt("init", "init waits", "init execs")
InitExecs == At("init execs") /\ ExecAt("init execs", ConsoleBin, "read")
InitWaits ==
  /\ At("init waits")
  /\ WaitStep
  /\ IF Returned THEN Goto("exitu") ELSE UNCHANGED at
  /\ UNCHANGED <<line, result>>

-----------------------------------------------------------------------------
(* The shell.                                                              *)

WrongEndsLine(ch, l) == ch = Enter

\* read_cmd(): what a key does to the line and to the place in the program.
EndsLine(ch, l) == ch = Enter \/ Len(l) > Limit

Edited(ch, l) ==
  IF ch = Backspace
  THEN IF l = <<>> THEN l ELSE SubSeq(l, 1, Len(l) - 1)
  ELSE Append(l, ch)

Typed(ch) ==
  /\ IF EndsLine(ch, line[me])
     THEN Goto(IF line[me] = <<>> THEN "read" ELSE "open") /\ UNCHANGED line
     ELSE line' = [line EXCEPT ![me] = Edited(ch, @)] /\ UNCHANGED at
  /\ UNCHANGED result

\* ch[0] = keyboard_read()
ShellReads ==
  /\ At("read")
  /\ \/ (KReadKey \/ KReadKeyWoken) /\ Typed(last')
     \/ KReadKeySleeps /\ Quiet

\* The prompt again, with an empty line.
Prompt ==
  /\ Goto("read")
  /\ line' = [line EXCEPT ![me] = <<>>]
  /\ result' = [result EXCEPT ![me] = 0]

\* fd = open_file(buffer), and "No Such file" if that is -1.
ShellOpens ==
  /\ At("open")
  /\ InUser
  /\ IF line[me] \in DOMAIN Command /\ CanExec
     THEN /\ KOpen(Command[line[me]])
          /\ Goto("close")
          /\ result' = [result EXCEPT ![me] = Min(Tables!FreeFds(me))]
          /\ UNCHANGED line
     ELSE Prompt /\ UNCHANGED kernelVars

ShellCloses ==
  /\ At("close")
  /\ KClose(result[me])
  /\ Goto("fork")
  /\ UNCHANGED <<line, result>>

ShellForks == ForkAt("fork", "wait", "exec")

WrongShellWaits == At("wait") /\ InUser /\ Prompt /\ UNCHANGED kernelVars

ShellWaits ==
  /\ At("wait")
  /\ WaitStep
  /\ IF Returned THEN Prompt ELSE Quiet

ShellExecs == At("exec") /\ ExecAt("exec", Command[line[me]], "exitu")

-----------------------------------------------------------------------------
\* startup.s: when main() returns, exitu().
Exits ==
  /\ At("exitu")
  /\ KExit
  /\ Goto("exited")
  /\ UNCHANGED <<line, result>>

Going == fs_panic = "none"

ShellTick    == Going /\ Tick /\ Quiet
ShellKey(ch) == Going /\ KeyIrq(ch) /\ Quiet

UserStep ==
  /\ Going
  /\ \/ InitForks \/ InitExecs \/ InitWaits
     \/ ShellReads \/ ShellOpens \/ ShellCloses
     \/ ShellForks \/ ShellExecs \/ ShellWaits
     \/ Exits

ShellNext == ShellTick \/ (\E ch \in Char : ShellKey(ch)) \/ UserStep

\* Ticks that are due are taken.  The core goes on with what it runs, and
\* from one tick to the next a process gets through many instructions.
ShellFairness ==
  /\ SF_shellVars(ShellTick)
  /\ \A p \in Proc : SF_shellVars(current_process = p /\ UserStep)

ShellSpec == ShellInit /\ [][ShellNext]_shellVars /\ ShellFairness

-----------------------------------------------------------------------------
(* Properties.                                                             *)

\* At the prompt nothing is left of the commands before: the idle process,
\* INIT and the shell have the only slots in use, and a command gets one more.
\* So no line that names a command, or nothing, fills the table under fork().
SlotsSuffice ==
  /\ \A p \in Proc : at[p] = "read" => Cardinality(Slot \ Unused) = 3
  /\ panic = "none" /\ fs_panic = "none"

\* One process reads keys, so what reaches it is the queue of what was typed,
\* whatever is typed before its prompt is back.
KeysAreQueued == Driver!IsKeyQueue

\* However a line is typed, over-long or with backspaces, it fits the buffer
\* with the zero that ends it.
LineFits == \A p \in Proc : Len(line[p]) < BufferSize

\* A shell asleep in read_key_buffer() returns once keyboard_handler() has
\* written a key: wake_up(-2) puts it on the ready list, where a tick takes the
\* core for it from whatever runs meanwhile.
SleeperGetsKey ==
  \A p \in Proc : pc[p] # "user" /\ front # end ~> pc[p] = "user"

\* A line that was entered is answered by a new prompt, whether it names a
\* file, whether the file can be opened and whether the command can be run.
PromptReturns ==
  \A p \in Proc : at[p] \in {"open", "close", "fork", "wait"} ~> at[p] = "read"
=============================================================================
