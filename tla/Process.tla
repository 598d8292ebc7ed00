------------------------------ MODULE Process ------------------------------
(***************************************************************************)
(* Process management of the kernel: process.c, the blocking system calls  *)
(* of syscall.c and the interrupts that reach the scheduler.               *)
(*                                                                         *)
(* The kernel runs on one core and takes an exception with interrupts      *)
(* masked, so what it does between an entry from user code (or from the    *)
(* idle loop) and the next switch of stacks is one action.  A system call  *)
(* that blocks is several: the action in which the process calls sleep(),  *)
(* and one each time the process is switched back to and goes on from      *)
(* there.  call[p] says where p's kernel stack stands: "user" when it is   *)
(* empty (or holds only the frame of an interrupt), otherwise the function *)
(* that called sleep() or, for "exit", schedule().                         *)
(*                                                                         *)
(* An operator whose name starts with Wrong is the definition after it     *)
(* with one mistake in it.  No action uses it; PROJECT.json names the      *)
(* property that tells the two apart.                                      *)
(***************************************************************************)
EXTENDS ListOps

CONSTANTS
  NUM_PROC,   \* slots in process_table, the idle process included
  MaxPid,     \* bound: the largest pid that fork hands out
  MaxSleep    \* bound: the longest sleep a process asks for, in ticks

ASSUME ProcessAssumption ==
  /\ NUM_PROC \in Nat /\ NUM_PROC >= 2
  /\ MaxPid \in Nat /\ MaxPid >= 1
  /\ MaxSleep \in Nat

Slot == 0 .. NUM_PROC - 1
Idle == 0                   \* process_table[0], never on a list
Proc == Slot \ {Idle}

\* The codes a process sleeps on (its wait field while it is on wait_list).
ForTick == -1
ForKey  == -2
WrongForExit == ForKey
ForExit == -3

ProcState == {"UNUSED", "RUNNING", "READY", "SLEEP", "KILLED"}
Call      == {"user", "sys_sleep", "read_key_buffer", "wait", "exit"}

VARIABLES
  state,            \* Process.state
  pid,              \* Process.pid
  wait,             \* Process.wait: the code slept on, or a killed process's pid
  pid_num,          \* the next pid
  current_process,
  ready_list,
  wait_list,
  kill_list,
  call,             \* where each process's kernel stack stands
  arg,              \* the pid waited for, or the ticks left of a sleep
  panic             \* the function in which the kernel stopped, or "none"

procVars == <<state, pid, wait, pid_num, current_process, ready_list,
              wait_list, kill_list, call, arg, panic>>

-----------------------------------------------------------------------------
\* init_process(): the idle process runs and INIT.BIN, pid 1, is ready.
Init ==
  /\ state = [p \in Slot |-> CASE p = Idle -> "RUNNING"
                               [] p = 1    -> "READY"
                               [] OTHER    -> "UNUSED"]
  /\ pid = [p \in Slot |-> IF p = 1 THEN 1 ELSE 0]
  /\ wait = [p \in Slot |-> 0]
  /\ pid_num = 2
  /\ current_process = Idle
  /\ ready_list = <<1>>
  /\ wait_list = <<>>
  /\ kill_list = <<>>
  /\ call = [p \in Slot |-> "user"]
  /\ arg = [p \in Slot |-> 0]
  /\ panic = "none"

-----------------------------------------------------------------------------
(* The functions of process.c, as the parts the actions are made of.       *)

\* schedule(), called with the process states st and the ready list rl.
Schedule(st, rl) ==
  LET next == IF rl = <<>> THEN Idle ELSE Head(rl)
  IN  /\ current_process' = next
      /\ state' = [st EXCEPT ![next] = "RUNNING"]
      /\ ready_list' = IF rl = <<>> THEN rl ELSE Tail(rl)

WrongYieldIdleQueued(st, rl) ==
  IF rl = <<>>
  THEN state' = st /\ ready_list' = rl /\ UNCHANGED current_process
  ELSE Schedule([st EXCEPT ![current_process] = "READY"], Append(rl, current_process))

WrongYieldKeepsState(st, rl) ==
  IF rl = <<>>
  THEN state' = st /\ ready_list' = rl /\ UNCHANGED current_process
  ELSE Schedule(st, IF pid[current_process] # 0 THEN Append(rl, current_process) ELSE rl)

\* yield(), likewise: the idle process is not put on the ready list.
Yield(st, rl) ==
  IF rl = <<>>
  THEN /\ state' = st
       /\ ready_list' = rl
       /\ UNCHANGED current_process
  ELSE Schedule([st EXCEPT ![current_process] = "READY"],
                IF pid[current_process] # 0 THEN Append(rl, current_process) ELSE rl)

WrongSleepKeepsCode(w) ==
  /\ UNCHANGED wait
  /\ wait_list' = Append(wait_list, current_process)
  /\ Schedule([state EXCEPT ![current_process] = "SLEEP"], ready_list)

\* sleep(w) by the current process.
Sleep(w) ==
  /\ wait' = [wait EXCEPT ![current_process] = w]
  /\ wait_list' = Append(wait_list, current_process)
  /\ Schedule([state EXCEPT ![current_process] = "SLEEP"], ready_list)

\* wake_up(w) moves every process that sleeps on w, in order, to the end of
\* the ready list: the wait list, the ready list and the states it leaves.
Sleepers(w)     == Matches(wait_list, wait, w)
WakeUpWait(w)   == Sublist(wait_list, DOMAIN wait_list \ Sleepers(w))

WrongWakeUpInFront(w) == Sublist(wait_list, Sleepers(w)) \o ready_list

WakeUpReady(w)  == ready_list \o Sublist(wait_list, Sleepers(w))
WakeUpStates(w) ==
  [p \in Slot |-> IF \E i \in Sleepers(w) : wait_list[i] = p THEN "READY" ELSE state[p]]

\* find_unused_process(): the first unused slot, of the unused ones.
Unused == {p \in Slot : state[p] = "UNUSED"}

-----------------------------------------------------------------------------
(* Interrupts.  They are masked inside the kernel and open in user code    *)
(* and in the idle loop.                                                   *)

IrqOpen == panic = "none" /\ call[current_process] = "user"

\* ticks++ seen from the sleepers: sys_sleep compares ticks - old_ticks, so
\* the model keeps what is left of each sleep instead of the tick counter.
TickDown ==
  arg' = [p \in Slot |-> IF call[p] = "sys_sleep" /\ arg[p] > 0 THEN arg[p] - 1 ELSE arg[p]]

WrongTimerNoYield ==
  /\ IrqOpen
  /\ TickDown
  /\ wait_list' = WakeUpWait(ForTick)
  /\ ready_list' = WakeUpReady(ForTick)
  /\ state' = WakeUpStates(ForTick)
  /\ UNCHANGED <<pid, wait, pid_num, current_process, kill_list, call, panic>>

WrongTimerNoWakeUp ==
  /\ IrqOpen
  /\ TickDown
  /\ Yield(state, ready_list)
  /\ UNCHANGED <<pid, wait, pid_num, wait_list, kill_list, call, panic>>

\* A timer interrupt: timer_interrupt_handler(), then yield().
TimerIrq ==
  /\ IrqOpen
  /\ TickDown
  /\ wait_list' = WakeUpWait(ForTick)
  /\ Yield(WakeUpStates(ForTick), WakeUpReady(ForTick))
  /\ UNCHANGED <<pid, wait, pid_num, kill_list, call, panic>>

WrongUartIrqNoWakeUp == IrqOpen /\ UNCHANGED procVars

\* A UART interrupt: the part of keyboard_handler() that concerns processes.
UartIrq ==
  /\ IrqOpen
  /\ wait_list' = WakeUpWait(ForKey)
  /\ ready_list' = WakeUpReady(ForKey)
  /\ state' = WakeUpStates(ForKey)
  /\ UNCHANGED <<pid, wait, pid_num, current_process, kill_list, call, arg, panic>>

-----------------------------------------------------------------------------
(* System calls.                                                           *)

\* A user process is running its own code and may enter the kernel.
InUser == IrqOpen /\ current_process # Idle

\* The running process continues in the kernel after it was switched back to.
Continues(c) == panic = "none" /\ call[current_process] = c

Return ==
  /\ call' = [call EXCEPT ![current_process] = "user"]
  /\ arg' = [arg EXCEPT ![current_process] = 0]

\* The loop of sys_sleep(n); n = 0 returns at once and changes nothing.
SysSleep(n) ==
  /\ InUser
  /\ n > 0
  /\ Sleep(ForTick)
  /\ call' = [call EXCEPT ![current_process] = "sys_sleep"]
  /\ arg' = [arg EXCEPT ![current_process] = n]
  /\ UNCHANGED <<pid, pid_num, kill_list, panic>>

SysSleepLoop ==
  /\ Continues("sys_sleep")
  /\ IF arg[current_process] > 0
     THEN Sleep(ForTick) /\ UNCHANGED <<call, arg>>
     ELSE Return /\ UNCHANGED <<state, wait, current_process, ready_list, wait_list>>
  /\ UNCHANGED <<pid, pid_num, kill_list, panic>>

\* read_key_buffer() when the buffer is empty: it sleeps once, whatever it
\* finds afterwards.
SysKeyboardRead ==
  /\ InUser
  /\ Sleep(ForKey)
  /\ call' = [call EXCEPT ![current_process] = "read_key_buffer"]
  /\ UNCHANGED <<pid, pid_num, kill_list, arg, panic>>

KeyboardReadReturns ==
  /\ Continues("read_key_buffer")
  /\ Return
  /\ UNCHANGED <<state, pid, wait, pid_num, current_process, ready_list, wait_list,
                 kill_list, panic>>

WrongExitNoWakeUp ==
  /\ InUser
  /\ wait' = [wait EXCEPT ![current_process] = pid[current_process]]
  /\ kill_list' = Append(kill_list, current_process)
  /\ Schedule([state EXCEPT ![current_process] = "KILLED"], ready_list)
  /\ call' = [call EXCEPT ![current_process] = "exit"]
  /\ UNCHANGED <<pid, pid_num, wait_list, arg, panic>>

WrongExitKeepsState ==
  /\ InUser
  /\ wait' = [wait EXCEPT ![current_process] = pid[current_process]]
  /\ kill_list' = Append(kill_list, current_process)
  /\ wait_list' = WakeUpWait(ForExit)
  /\ Schedule(WakeUpStates(ForExit), WakeUpReady(ForExit))
  /\ call' = [call EXCEPT ![current_process] = "exit"]
  /\ UNCHANGED <<pid, pid_num, arg, panic>>

\* exit(), called by the process, by exec() when it fails, or by
\* exception_handler() for a fault in user code.
Exit ==
  /\ InUser
  /\ wait' = [wait EXCEPT ![current_process] = pid[current_process]]
  /\ kill_list' = Append(kill_list, current_process)
  /\ wait_list' = WakeUpWait(ForExit)
  /\ Schedule([WakeUpStates(ForExit) EXCEPT ![current_process] = "KILLED"],
              WakeUpReady(ForExit))
  /\ call' = [call EXCEPT ![current_process] = "exit"]
  /\ UNCHANGED <<pid, pid_num, arg, panic>>

WrongReapKeepsProcess(k) ==
  /\ kill_list' = Unlink(kill_list, k)
  /\ Return
  /\ UNCHANGED <<state, pid, wait, pid_num, current_process, ready_list, wait_list, panic>>

\* One round of the loop in wait(target): free the first killed process
\* found, which must be in state KILLED, or sleep until the next exit.
Reap(k) ==
  IF state[kill_list[k]] = "KILLED"
  THEN /\ kill_list' = Unlink(kill_list, k)
       /\ state' = [state EXCEPT ![kill_list[k]] = "UNUSED"]
       /\ pid' = [pid EXCEPT ![kill_list[k]] = 0]
       /\ wait' = [wait EXCEPT ![kill_list[k]] = 0]
       /\ call' = [call EXCEPT ![kill_list[k]] = "user", ![current_process] = "user"]
       /\ arg' = [arg EXCEPT ![kill_list[k]] = 0, ![current_process] = 0]
       /\ UNCHANGED <<pid_num, current_process, ready_list, wait_list, panic>>
  ELSE /\ panic' = "wait"
       /\ UNCHANGED <<state, pid, wait, pid_num, current_process, ready_list, wait_list,
                      kill_list, call, arg>>

WaitRound(target) ==
  LET found == Matches(kill_list, wait, target)
  IN  IF found # {}
      THEN Reap(Min(found))
      ELSE /\ Sleep(ForExit)
           /\ call' = [call EXCEPT ![current_process] = "wait"]
           /\ arg' = [arg EXCEPT ![current_process] = target]
           /\ UNCHANGED <<pid, pid_num, kill_list, panic>>

SysWait(target) == InUser /\ WaitRound(target)

WrongWaitSleepsOnce ==
  /\ Continues("wait")
  /\ IF Matches(kill_list, wait, arg[current_process]) # {}
     THEN WaitRound(arg[current_process])
     ELSE /\ Return
          /\ UNCHANGED <<state, pid, wait, pid_num, current_process, ready_list,
                         wait_list, kill_list, panic>>

WaitLoop == Continues("wait") /\ WaitRound(arg[current_process])

WrongForkSamePid ==
  /\ InUser
  /\ Unused # {}
  /\ LET child == Min(Unused)
     IN  /\ state' = [state EXCEPT ![child] = "READY"]
         /\ pid' = [pid EXCEPT ![child] = pid_num]
         /\ ready_list' = Append(ready_list, child)
  /\ UNCHANGED <<wait, pid_num, current_process, wait_list, kill_list, call, arg, panic>>

\* fork(): the child takes the first unused slot and the next pid.  With no
\* slot left alloc_new_process() writes through the NULL it was given.
Fork ==
  /\ InUser
  /\ pid_num <= MaxPid
  /\ IF Unused = {}
     THEN /\ panic' = "alloc_new_process"
          /\ UNCHANGED <<state, pid, pid_num, ready_list>>
     ELSE LET child == Min(Unused)
          IN  /\ state' = [state EXCEPT ![child] = "READY"]
              /\ pid' = [pid EXCEPT ![child] = pid_num]
              /\ pid_num' = pid_num + 1
              /\ ready_list' = Append(ready_list, child)
              /\ UNCHANGED panic
  /\ UNCHANGED <<wait, current_process, wait_list, kill_list, call, arg>>

\* The kernel's answer to its own fault, and to a failed ASSERT: while (1) { }.
Hang == panic # "none" /\ UNCHANGED procVars

Continue == SysSleepLoop \/ KeyboardReadReturns \/ WaitLoop

Next ==
  \/ TimerIrq
  \/ UartIrq
  \/ \E n \in 1 .. MaxSleep : SysSleep(n)
  \/ SysSleepLoop
  \/ SysKeyboardRead
  \/ KeyboardReadReturns
  \/ Exit
  \/ \E target \in 1 .. MaxPid : SysWait(target)
  \/ WaitLoop
  \/ Fork
  \/ Hang

Spec == Init /\ [][Next]_procVars

(***************************************************************************)
(* Fairness.  The core goes on executing kernel code, so a process that    *)
(* was switched back to inside a system call continues.  The timer line    *)
(* stays raised until its handler has run, so a tick that is due is taken  *)
(* as soon as interrupts are open: strong fairness.  Nothing is assumed of *)
(* the keyboard, nor of user code, which may run for ever.                 *)
(***************************************************************************)
FairSpec == Spec /\ WF_procVars(Continue) /\ SF_procVars(TimerIrq)

-----------------------------------------------------------------------------
(* Properties.                                                             *)

TypeOK ==
  /\ state \in [Slot -> ProcState]
  /\ pid \in [Slot -> Nat]
  /\ wait \in [Slot -> Int]
  /\ pid_num \in Nat
  /\ current_process \in Slot
  /\ ready_list \in Seq(Proc)
  /\ wait_list \in Seq(Proc)
  /\ kill_list \in Seq(Proc)
  /\ call \in [Slot -> Call]
  /\ arg \in [Slot -> Nat]
  /\ panic \in {"none", "alloc_new_process", "wait"}

\* The lists partition the processes by state: a process is on the ready,
\* wait or kill list exactly when its state says so, and once.  The lists
\* share the next field of struct Process, so a process on two lists, or
\* twice on one, would corrupt both.
ListsMatchStates ==
  /\ ToSet(ready_list) = {p \in Proc : state[p] = "READY"}
  /\ ToSet(wait_list)  = {p \in Proc : state[p] = "SLEEP"}
  /\ ToSet(kill_list)  = {p \in Proc : state[p] = "KILLED"}
  /\ OnceEach(ready_list) /\ OnceEach(wait_list) /\ OnceEach(kill_list)

\* One process holds the core, the one current_process points to: every
\* switch of stacks takes the core from its predecessor.  The idle process
\* never blocks in a call, so that schedule() can always fall back to it.
OneRunning ==
  /\ {p \in Slot : state[p] = "RUNNING"} = {current_process}
  /\ state[Idle] \in {"RUNNING", "READY"} /\ call[Idle] = "user" /\ pid[Idle] = 0

\* A process asleep in a system call sleeps on the code that call is woken
\* by; one that runs user code, or was switched to, sleeps on nothing.
CodeOf(c) == CASE c = "sys_sleep"       -> ForTick
               [] c = "read_key_buffer" -> ForKey
               [] c = "wait"            -> ForExit
               [] OTHER                 -> 0

SleepersAreInCalls ==
  \A p \in Proc :
    /\ state[p] = "SLEEP" => wait[p] = CodeOf(call[p]) /\ wait[p] # 0
    /\ state[p] = "KILLED" <=> call[p] = "exit"

\* No wake-up is lost between wait()'s look at the kill list and its sleep:
\* a process asleep in wait(n) has no killed process n to free.
NoLostExit ==
  \A p \in ToSet(wait_list), k \in ToSet(kill_list) :
    call[p] = "wait" => pid[k] # arg[p]

\* Process ids identify processes: no two slots in use share one, and the
\* wait field that the kill list is searched by is a killed process's pid.
\* The pids of a process table never repeat, so wait(n) frees process n and
\* no other.
PidsIdentify ==
  /\ \A p, q \in Slot : state[p] # "UNUSED" /\ state[q] # "UNUSED" /\ pid[p] = pid[q] => p = q
  /\ \A p \in Slot : pid[p] < pid_num
  /\ \A p \in Proc : state[p] # "UNUSED" <=> pid[p] > 0
  /\ \A k \in ToSet(kill_list) : wait[k] = pid[k]

\* The assertion of wait(): what it takes from the kill list is KILLED.
ReapsOnlyKilled == panic # "wait"

\* Round robin: a step takes at most the head off the ready list, and only
\* to run it; whatever it adds goes behind all that stay.
KeepsOrder ==
  \/ IsPrefix(ready_list, ready_list')
  \/ /\ ready_list # <<>>
     /\ current_process' = Head(ready_list)
     /\ IsPrefix(Tail(ready_list), ready_list')

RoundRobin == [][KeepsOrder]_procVars

\* wait(n) returns only when process n has been freed, so a shell that waits
\* for its child never goes on beside it.
ReturnsFromWait ==
  \A p \in Proc :
    call[p] = "wait" /\ call'[p] = "user" => \A q \in Slot : pid'[q] # arg[p]

WaitOutlivesChild == [][ReturnsFromWait]_procVars

\* What fork() expects of alloc_new_process(): with the table full it hands
\* back NULL, which fork() answers with -1 or a failed assertion of its own.
ForkSurvivesFullTable == panic # "alloc_new_process"

\* Under FairSpec, while the kernel has not stopped: a ready process runs,
\* a sleep of n ticks ends, and a killed process that somebody waits for is
\* freed.
ReadyRuns ==
  \A p \in Proc : state[p] = "READY" ~> state[p] = "RUNNING" \/ panic # "none"

SleepEnds ==
  \A p \in Proc : call[p] = "sys_sleep" ~> call[p] # "sys_sleep" \/ panic # "none"

AwaitedIsFreed ==
  \A p, k \in Proc :
    call[p] = "wait" /\ state[k] = "KILLED" /\ pid[k] = arg[p]
      ~> state[k] = "UNUSED" \/ panic # "none"
=============================================================================
