--------------------------- MODULE ProcessProofs ---------------------------
(***************************************************************************)
(* Proofs about Process, for every size of the process table and every     *)
(* bound on pids and sleeps.                                               *)
(***************************************************************************)
EXTENDS Process, ListOpsProofs

\* The inductive invariant.
IInv ==
  /\ TypeOK
  /\ ListsMatchStates
  /\ OneRunning
  /\ SleepersAreInCalls
  /\ PidsIdentify
  /\ NoLostExit
  /\ ReapsOnlyKilled

-----------------------------------------------------------------------------
(* Slots and lists.                                                        *)

\* The idle process is the one slot that is on no list.
LEMMA SlotFacts ==
  /\ Slot \subseteq Nat
  /\ Idle \in Slot /\ Idle \notin Proc
  /\ Proc \subseteq Slot
  /\ \A p \in Slot : p # Idle => p \in Proc
  /\ 1 \in Proc
BY ProcessAssumption DEF Slot, Idle, Proc

\* Lists rl, wl and kl that partition the processes by the states st.
ListsOK(st, rl, wl, kl) ==
  /\ st \in [Slot -> ProcState]
  /\ rl \in Seq(Proc) /\ wl \in Seq(Proc) /\ kl \in Seq(Proc)
  /\ OnceEach(rl) /\ OnceEach(wl) /\ OnceEach(kl)
  /\ ToSet(rl) = {p \in Proc : st[p] = "READY"}
  /\ ToSet(wl) = {p \in Proc : st[p] = "SLEEP"}
  /\ ToSet(kl) = {p \in Proc : st[p] = "KILLED"}

\* A process that runs is on none of them and can be appended to each.
LEMMA AppendRunning ==
  ASSUME NEW st, NEW rl, NEW wl, NEW kl, ListsOK(st, rl, wl, kl),
         NEW p \in Proc, st[p] \in {"RUNNING", "UNUSED"}
  PROVE  /\ ListsOK([st EXCEPT ![p] = "READY"], Append(rl, p), wl, kl)
         /\ ListsOK([st EXCEPT ![p] = "SLEEP"], rl, Append(wl, p), kl)
         /\ ListsOK([st EXCEPT ![p] = "KILLED"], rl, wl, Append(kl, p))
<1>1. p \notin ToSet(rl) /\ p \notin ToSet(wl) /\ p \notin ToSet(kl)
  BY DEF ListsOK
<1>2. \A l \in {rl, wl, kl} :
        Append(l, p) \in Seq(Proc) /\ OnceEach(Append(l, p)) /\ ToSet(Append(l, p)) = ToSet(l) \cup {p}
  BY <1>1, AppendItems DEF ListsOK
<1>3. /\ st \in [Slot -> ProcState] /\ p \in Slot
      /\ {"READY", "SLEEP", "KILLED"} \subseteq ProcState
  BY SlotFacts DEF ListsOK, ProcState
<1>4. ListsOK([st EXCEPT ![p] = "READY"], Append(rl, p), wl, kl)
  BY <1>2, <1>3, SlotFacts DEF ListsOK
<1>5. ListsOK([st EXCEPT ![p] = "SLEEP"], rl, Append(wl, p), kl)
  BY <1>2, <1>3, SlotFacts DEF ListsOK
<1>6. ListsOK([st EXCEPT ![p] = "KILLED"], rl, wl, Append(kl, p))
  BY <1>2, <1>3, SlotFacts DEF ListsOK
<1> QED BY <1>4, <1>5, <1>6

\* schedule() from states in which nobody runs: it takes the head off the
\* ready list, or falls back to the idle process, and that one runs.
LEMMA ScheduleRuns ==
  ASSUME NEW st, NEW rl, NEW wl, NEW kl, ListsOK(st, rl, wl, kl),
         \A p \in Slot : st[p] # "RUNNING",
         Schedule(st, rl)
  PROVE  /\ current_process' \in Slot
         /\ current_process' = Idle \/ st[current_process'] = "READY"
         /\ state' = [st EXCEPT ![current_process'] = "RUNNING"]
         /\ {p \in Slot : state'[p] = "RUNNING"} = {current_process'}
         /\ ListsOK(state', ready_list', wl, kl)
<1>1. st \in [Slot -> ProcState] /\ "RUNNING" \in ProcState
  BY DEF ListsOK, ProcState
<1>2. CASE rl = <<>>
  <2>1. current_process' = Idle /\ state' = [st EXCEPT ![Idle] = "RUNNING"] /\ ready_list' = rl
    BY <1>2 DEF Schedule
  <2>2. ListsOK(state', ready_list', wl, kl)
    BY <1>1, <2>1, SlotFacts DEF ListsOK
  <2> QED BY <1>1, <2>1, <2>2, SlotFacts
<1>3. CASE rl # <<>>
  <2> DEFINE h == Head(rl)
  <2>1. current_process' = h /\ state' = [st EXCEPT ![h] = "RUNNING"] /\ ready_list' = Tail(rl)
    BY <1>3 DEF Schedule
  <2>2. /\ h \in ToSet(rl) /\ Tail(rl) \in Seq(Proc) /\ OnceEach(Tail(rl))
        /\ ToSet(Tail(rl)) = ToSet(rl) \ {h}
    BY <1>3, TailItems DEF ListsOK
  <2> HIDE DEF h
  <2>3. h \in Proc /\ h \in Slot /\ st[h] = "READY"
    BY <2>2, SlotFacts DEF ListsOK
  <2>4. ListsOK(state', ready_list', wl, kl)
    BY <1>1, <2>1, <2>2, <2>3, SlotFacts DEF ListsOK
  <2> QED BY <1>1, <2>1, <2>3, <2>4, SlotFacts
<1> QED BY <1>2, <1>3

\* The lists of a state that satisfies the invariant.
LEMMA ListsOfState ==
  TypeOK => (ListsMatchStates <=> ListsOK(state, ready_list, wait_list, kill_list))
BY DEF TypeOK, ListsMatchStates, ListsOK

\* wake_up(w) moves the processes that sleep on w, and these only, from the
\* wait list to the ready list.
LEMMA WakeUpMoves ==
  ASSUME TypeOK, ListsMatchStates, NEW w \in Int
  PROVE  /\ ListsOK(WakeUpStates(w), WakeUpReady(w), WakeUpWait(w), kill_list)
         /\ \A p \in Slot : WakeUpStates(w)[p] =
              IF state[p] = "SLEEP" /\ p \in Proc /\ wait[p] = w THEN "READY" ELSE state[p]
         /\ ToSet(WakeUpWait(w)) = {p \in ToSet(wait_list) : wait[p] # w}
         /\ IsPrefix(ready_list, WakeUpReady(w))
<1> DEFINE I == Sleepers(w)
           woken == Sublist(wait_list, I)
           left == Sublist(wait_list, DOMAIN wait_list \ I)
<1>1. wait_list \in Seq(Proc) /\ ready_list \in Seq(Proc) /\ OnceEach(wait_list)
      /\ OnceEach(ready_list)
  BY DEF TypeOK, ListsMatchStates
<1>2. I \in SUBSET DOMAIN wait_list /\ I = {i \in DOMAIN wait_list : wait[wait_list[i]] = w}
  BY DEF Sleepers, Matches
<1>3. /\ woken \in Seq(Proc) /\ OnceEach(woken)
      /\ ToSet(woken) = {wait_list[i] : i \in I}
  BY <1>1, <1>2, SublistProperties
<1>4. /\ left \in Seq(Proc) /\ OnceEach(left)
      /\ ToSet(left) = ToSet(wait_list) \ ToSet(woken)
  <2>1. DOMAIN wait_list \ I \in SUBSET DOMAIN wait_list
    OBVIOUS
  <2> QED BY <1>1, <1>2, <2>1, SublistProperties, SplitItems
<1>5. ToSet(woken) = {p \in ToSet(wait_list) : wait[p] = w}
  BY <1>2, <1>3 DEF ToSet
<1>6. ToSet(wait_list) = {p \in Proc : state[p] = "SLEEP"}
  BY DEF ListsMatchStates
<1>7. \A p \in Slot : WakeUpStates(w)[p] =
        IF state[p] = "SLEEP" /\ p \in Proc /\ wait[p] = w THEN "READY" ELSE state[p]
  <2> TAKE p \in Slot
  <2>1. (\E i \in I : wait_list[i] = p) <=> p \in ToSet(woken)
    BY <1>3
  <2>2. WakeUpStates(w)[p] = IF p \in ToSet(woken) THEN "READY" ELSE state[p]
    BY <2>1 DEF WakeUpStates
  <2> QED BY <2>2, <1>5, <1>6
<1>8. ToSet(ready_list) \cap ToSet(woken) = {}
  BY <1>5, <1>6 DEF ListsMatchStates
<1>9. /\ WakeUpReady(w) \in Seq(Proc) /\ OnceEach(WakeUpReady(w))
      /\ ToSet(WakeUpReady(w)) = ToSet(ready_list) \cup ToSet(woken)
      /\ IsPrefix(ready_list, WakeUpReady(w))
  BY <1>1, <1>3, <1>8, ConcatItems DEF WakeUpReady
<1>10. WakeUpWait(w) = left
  BY DEF WakeUpWait
<1>11. WakeUpStates(w) \in [Slot -> ProcState]
  BY <1>7 DEF WakeUpStates, TypeOK, ProcState
<1> HIDE DEF I, woken, left
<1>12. ListsOK(WakeUpStates(w), WakeUpReady(w), WakeUpWait(w), kill_list)
  <2>1. ToSet(WakeUpReady(w)) = {p \in Proc : WakeUpStates(w)[p] = "READY"}
    BY <1>5, <1>6, <1>7, <1>9, SlotFacts DEF ListsMatchStates
  <2>2. ToSet(left) = {p \in Proc : WakeUpStates(w)[p] = "SLEEP"}
    BY <1>4, <1>5, <1>6, <1>7, SlotFacts
  <2>3. ToSet(kill_list) = {p \in Proc : WakeUpStates(w)[p] = "KILLED"}
    BY <1>7, SlotFacts DEF ListsMatchStates
  <2> QED BY <1>4, <1>9, <1>10, <1>11, <2>1, <2>2, <2>3 DEF ListsOK, TypeOK, ListsMatchStates
<1> QED BY <1>4, <1>5, <1>7, <1>9, <1>10, <1>12

\* sleep(w) by a process: it goes to the wait list and another one runs.
LEMMA SleepSwitches ==
  ASSUME TypeOK, ListsMatchStates, OneRunning, current_process \in Proc,
         NEW w \in Int, Sleep(w)
  PROVE  /\ current_process' \in Slot \ {current_process}
         /\ current_process' = Idle \/ state[current_process'] = "READY"
         /\ state' = [state EXCEPT ![current_process] = "SLEEP", ![current_process'] = "RUNNING"]
         /\ {p \in Slot : state'[p] = "RUNNING"} = {current_process'}
         /\ ListsOK(state', ready_list', wait_list', kill_list)
         /\ wait' = [wait EXCEPT ![current_process] = w]
         /\ ToSet(wait_list') = ToSet(wait_list) \cup {current_process}
<1> DEFINE st == [state EXCEPT ![current_process] = "SLEEP"]
<1>1. /\ wait_list' = Append(wait_list, current_process)
      /\ wait' = [wait EXCEPT ![current_process] = w]
      /\ Schedule(st, ready_list)
  BY DEF Sleep
<1>2. state[current_process] = "RUNNING" /\ state \in [Slot -> ProcState]
  BY SlotFacts DEF OneRunning, TypeOK
<1>3. ListsOK(st, ready_list, wait_list', kill_list)
  BY <1>1, <1>2, ListsOfState, AppendRunning
<1>4. \A p \in Slot : st[p] # "RUNNING"
  BY <1>2 DEF OneRunning
<1> HIDE DEF st
<1>5. /\ current_process' \in Slot
      /\ current_process' = Idle \/ st[current_process'] = "READY"
      /\ state' = [st EXCEPT ![current_process'] = "RUNNING"]
      /\ {p \in Slot : state'[p] = "RUNNING"} = {current_process'}
      /\ ListsOK(state', ready_list', wait_list', kill_list)
  BY <1>1, <1>3, <1>4, ScheduleRuns
<1>6. ToSet(wait_list') = ToSet(wait_list) \cup {current_process}
  BY <1>1, AppendItems DEF TypeOK
<1> QED BY <1>1, <1>2, <1>5, <1>6, SlotFacts DEF st

\* yield() from states st in which only the current process runs: it goes
\* behind the ready processes, or keeps the core when there are none.
LEMMA YieldSwitches ==
  ASSUME NEW st, NEW rl, NEW wl, NEW kl, ListsOK(st, rl, wl, kl),
         {p \in Slot : st[p] = "RUNNING"} = {current_process},
         current_process = Idle <=> pid[current_process] = 0,
         Yield(st, rl)
  PROVE  /\ current_process' \in Slot
         /\ ListsOK(state', ready_list', wl, kl)
         /\ {p \in Slot : state'[p] = "RUNNING"} = {current_process'}
         /\ \A p \in Slot : state'[p] = st[p] \/ {st[p], state'[p]} \subseteq {"RUNNING", "READY"}
                            \/ (p = Idle /\ state'[p] \in {"RUNNING", "READY"})
<1>1. current_process \in Slot /\ st[current_process] = "RUNNING" /\ st \in [Slot -> ProcState]
  BY DEF ListsOK
<1>2. CASE rl = <<>>
  BY <1>1, <1>2 DEF Yield
<1>3. CASE rl # <<>>
  <2> DEFINE st1 == [st EXCEPT ![current_process] = "READY"]
             rl1 == IF pid[current_process] # 0 THEN Append(rl, current_process) ELSE rl
  <2>1. Schedule(st1, rl1)
    BY <1>3 DEF Yield
  <2>2. ListsOK(st1, rl1, wl, kl)
    <3>1. CASE current_process = Idle
      BY <3>1, <1>1, SlotFacts DEF ListsOK, ProcState
    <3>2. CASE current_process # Idle
      BY <3>2, <1>1, SlotFacts, AppendRunning
    <3> QED BY <3>1, <3>2
  <2>3. \A p \in Slot : st1[p] # "RUNNING"
    BY <1>1
  <2>4. /\ current_process' \in Slot
        /\ current_process' = Idle \/ st1[current_process'] = "READY"
        /\ state' = [st1 EXCEPT ![current_process'] = "RUNNING"]
        /\ {p \in Slot : state'[p] = "RUNNING"} = {current_process'}
        /\ ListsOK(state', ready_list', wl, kl)
    <3> HIDE DEF st1, rl1
    <3> QED BY <2>1, <2>2, <2>3, ScheduleRuns
  <2>5. \A p \in Slot : state'[p] = st[p] \/ {st[p], state'[p]} \subseteq {"RUNNING", "READY"}
                            \/ (p = Idle /\ state'[p] \in {"RUNNING", "READY"})
    BY <1>1, <2>4
  <2> QED BY <2>4, <2>5
<1> QED BY <1>2, <1>3

-----------------------------------------------------------------------------
(* The initial state and each action.                                      *)

\* The invariant holds after init_process().
LEMMA InitInv == Init => IInv
<1> SUFFICES ASSUME Init PROVE IInv
  OBVIOUS
<1>1. ProcessAssumption /\ SlotFacts
  BY ProcessAssumption, SlotFacts
<1>2. TypeOK
  BY SlotFacts DEF Init, TypeOK, ProcState, Call
<1>3. ListsMatchStates
  <2>1. ToSet(ready_list) = {1} /\ ToSet(wait_list) = {} /\ ToSet(kill_list) = {}
    BY DEF Init, ToSet
  <2>2. OnceEach(ready_list) /\ OnceEach(wait_list) /\ OnceEach(kill_list)
    BY DEF Init, OnceEach
  <2>3. \A p \in Proc : state[p] = IF p = 1 THEN "READY" ELSE "UNUSED"
    BY SlotFacts DEF Init
  <2> QED BY <2>1, <2>2, <2>3, SlotFacts DEF ListsMatchStates
<1>4. OneRunning
  BY SlotFacts DEF Init, OneRunning
<1>5. SleepersAreInCalls
  BY SlotFacts DEF Init, SleepersAreInCalls
<1>6. PidsIdentify
  <2>1. ToSet(kill_list) = {}
    BY DEF Init, ToSet
  <2>2. \A p \in Slot : /\ pid[p] = IF p = 1 THEN 1 ELSE 0
                        /\ state[p] # "UNUSED" => p \in {0, 1}
    BY DEF Init, Idle
  <2> QED BY <2>1, <2>2, SlotFacts DEF Init, PidsIdentify, Idle
<1>7. NoLostExit
  BY DEF Init, NoLostExit, ToSet
<1>8. ReapsOnlyKilled
  BY DEF Init, ReapsOnlyKilled
<1> QED BY <1>2, <1>3, <1>4, <1>5, <1>6, <1>7, <1>8 DEF IInv

\* A tick wakes the sleepers on ticks and takes the core from the current process.
LEMMA TimerIrqInv == ASSUME IInv, TimerIrq PROVE IInv'
<1> USE DEF IInv
<1> DEFINE st == WakeUpStates(ForTick)
<1>1. /\ wait_list' = WakeUpWait(ForTick)
      /\ Yield(st, WakeUpReady(ForTick))
      /\ TickDown
      /\ UNCHANGED <<pid, wait, pid_num, kill_list, call, panic>>
  BY DEF TimerIrq
<1>2. /\ ListsOK(st, WakeUpReady(ForTick), wait_list', kill_list)
      /\ \A p \in Slot : st[p] =
           IF state[p] = "SLEEP" /\ p \in Proc /\ wait[p] = ForTick THEN "READY" ELSE state[p]
      /\ ToSet(wait_list') \subseteq ToSet(wait_list)
  <2>1. ForTick \in Int
    BY DEF ForTick
  <2> QED BY <1>1, <2>1, WakeUpMoves
<1> HIDE DEF st
<1>3. {p \in Slot : st[p] = "RUNNING"} = {current_process}
  BY <1>2 DEF OneRunning
<1>4. current_process = Idle <=> pid[current_process] = 0
  BY SlotFacts DEF OneRunning, PidsIdentify, TypeOK
<1>5. /\ current_process' \in Slot
      /\ ListsOK(state', ready_list', wait_list', kill_list)
      /\ {p \in Slot : state'[p] = "RUNNING"} = {current_process'}
      /\ \A p \in Slot : state'[p] = st[p] \/ {st[p], state'[p]} \subseteq {"RUNNING", "READY"}
                         \/ (p = Idle /\ state'[p] \in {"RUNNING", "READY"})
  BY <1>1, <1>2, <1>3, <1>4, YieldSwitches
<1>6. /\ \A p \in Proc : state'[p] = "SLEEP" => state[p] = "SLEEP"
      /\ \A p \in Slot : state'[p] = "KILLED" <=> state[p] = "KILLED"
      /\ \A p \in Slot : state'[p] = "UNUSED" <=> state[p] = "UNUSED"
      /\ state'[Idle] \in {"RUNNING", "READY"}
  BY <1>2, <1>5, SlotFacts DEF OneRunning
<1>7. TypeOK'
  <2>1. arg' \in [Slot -> Nat]
    BY <1>1 DEF TickDown, TypeOK
  <2> QED BY <1>1, <1>5, <2>1 DEF TypeOK, ListsOK
<1>8. ListsMatchStates'
  BY <1>1, <1>5 DEF ListsOK, ListsMatchStates
<1>9. OneRunning'
  BY <1>1, <1>5, <1>6 DEF OneRunning
<1>10. SleepersAreInCalls'
  BY <1>1, <1>6, SlotFacts DEF SleepersAreInCalls
<1>11. PidsIdentify'
  BY <1>1, <1>6, SlotFacts DEF PidsIdentify
<1>12. NoLostExit'
  <2>1. \A p \in Slot : call[p] = "wait" => arg'[p] = arg[p]
    BY <1>1 DEF TickDown
  <2>2. ToSet(wait_list) \subseteq Slot
    BY SlotFacts DEF ListsMatchStates
  <2> QED BY <1>1, <1>2, <2>1, <2>2 DEF NoLostExit
<1>13. ReapsOnlyKilled'
  BY <1>1 DEF ReapsOnlyKilled
<1> QED BY <1>7, <1>8, <1>9, <1>10, <1>11, <1>12, <1>13

\* A key press wakes the readers of the keyboard and takes the core from nobody.
LEMMA UartIrqInv == ASSUME IInv, UartIrq PROVE IInv'
<1> USE DEF IInv
<1>1. /\ wait_list' = WakeUpWait(ForKey) /\ ready_list' = WakeUpReady(ForKey)
      /\ state' = WakeUpStates(ForKey)
      /\ UNCHANGED <<pid, wait, pid_num, current_process, kill_list, call, arg, panic>>
  BY DEF UartIrq
<1>2. /\ ListsOK(state', ready_list', wait_list', kill_list)
      /\ \A p \in Slot : state'[p] =
           IF state[p] = "SLEEP" /\ p \in Proc /\ wait[p] = ForKey THEN "READY" ELSE state[p]
      /\ ToSet(wait_list') \subseteq ToSet(wait_list)
  <2>1. ForKey \in Int
    BY DEF ForKey
  <2> QED BY <1>1, <2>1, WakeUpMoves
<1>3. TypeOK'
  BY <1>1, <1>2 DEF TypeOK, ListsOK
<1>4. ListsMatchStates'
  BY <1>1, <1>2 DEF ListsOK, ListsMatchStates
<1>5. OneRunning'
  BY <1>1, <1>2, SlotFacts DEF OneRunning
<1>6. SleepersAreInCalls'
  BY <1>1, <1>2, SlotFacts DEF SleepersAreInCalls
<1>7. PidsIdentify'
  BY <1>1, <1>2, SlotFacts DEF PidsIdentify
<1>8. NoLostExit'
  BY <1>1, <1>2 DEF NoLostExit
<1>9. ReapsOnlyKilled'
  BY <1>1 DEF ReapsOnlyKilled
<1> QED BY <1>3, <1>4, <1>5, <1>6, <1>7, <1>8, <1>9

\* Who executes a system call: a process other than the idle one, which
\* holds the core and is on no list.
LEMMA CallerRuns ==
  ASSUME IInv, NEW c, call[current_process] = c, c = "user" => current_process # Idle
  PROVE  /\ current_process \in Proc
         /\ state[current_process] = "RUNNING"
         /\ current_process \notin ToSet(wait_list)
         /\ current_process \notin ToSet(kill_list)
<1>1. current_process \in Slot /\ state[current_process] = "RUNNING"
  BY DEF IInv, TypeOK, OneRunning
<1>2. current_process \in Proc
  BY <1>1, SlotFacts DEF IInv, OneRunning
<1> QED BY <1>1, <1>2 DEF IInv, ListsMatchStates

\* A process that enters (or stays in) the call c with a in arg and sleeps on
\* the code of that call.  In wait(a) it has to have looked: no process a is
\* on the kill list.
LEMMA SleepInv ==
  ASSUME IInv, current_process \in Proc,
         NEW c \in {"sys_sleep", "read_key_buffer", "wait"}, NEW a \in Nat,
         c = "wait" => \A k \in ToSet(kill_list) : pid[k] # a,
         Sleep(CodeOf(c)),
         call' = [call EXCEPT ![current_process] = c],
         arg' = [arg EXCEPT ![current_process] = a],
         UNCHANGED <<pid, pid_num, kill_list, panic>>
  PROVE  IInv'
<1> USE DEF IInv
<1>1. CodeOf(c) \in Int /\ CodeOf(c) # 0
  BY DEF CodeOf, ForTick, ForKey, ForExit
<1>2. /\ current_process' \in Slot \ {current_process}
      /\ current_process' = Idle \/ state[current_process'] = "READY"
      /\ state' = [state EXCEPT ![current_process] = "SLEEP", ![current_process'] = "RUNNING"]
      /\ {p \in Slot : state'[p] = "RUNNING"} = {current_process'}
      /\ ListsOK(state', ready_list', wait_list', kill_list)
      /\ wait' = [wait EXCEPT ![current_process] = CodeOf(c)]
      /\ ToSet(wait_list') = ToSet(wait_list) \cup {current_process}
  BY <1>1, SleepSwitches
<1>3. state[current_process] = "RUNNING" /\ state \in [Slot -> ProcState]
      /\ call[current_process] # "exit"
  BY SlotFacts DEF OneRunning, TypeOK, SleepersAreInCalls
<1>4. \A p \in Slot : state'[p] = IF p = current_process THEN "SLEEP"
                                  ELSE IF p = current_process' THEN "RUNNING" ELSE state[p]
  BY <1>2, <1>3, SlotFacts
<1>5. \A p \in Slot : /\ call'[p] = IF p = current_process THEN c ELSE call[p]
                      /\ arg'[p] = IF p = current_process THEN a ELSE arg[p]
                      /\ wait'[p] = IF p = current_process THEN CodeOf(c) ELSE wait[p]
  BY <1>2 DEF TypeOK
<1>6. state[current_process'] \in {"READY", "RUNNING"}
  BY <1>2 DEF OneRunning
<1>7. TypeOK'
  <2>1. c \in Call
    BY DEF Call
  <2>2. wait' \in [Slot -> Int]
    BY <1>1, <1>2 DEF TypeOK
  <2>3. call' \in [Slot -> Call] /\ arg' \in [Slot -> Nat]
    BY <2>1 DEF TypeOK
  <2> QED BY <1>2, <2>2, <2>3 DEF TypeOK, ListsOK
<1>8. ListsMatchStates'
  BY <1>2 DEF ListsOK, ListsMatchStates
<1>9. OneRunning'
  <2>1. state'[Idle] \in {"RUNNING", "READY"}
    BY <1>4, SlotFacts DEF OneRunning
  <2>2. call'[Idle] = "user" /\ pid'[Idle] = 0
    BY <1>5, SlotFacts DEF OneRunning
  <2> QED BY <1>2, <2>1, <2>2 DEF OneRunning
<1>10. SleepersAreInCalls'
  <2> SUFFICES ASSUME NEW p \in Proc
               PROVE  /\ state'[p] = "SLEEP" => wait'[p] = CodeOf(call'[p]) /\ wait'[p] # 0
                      /\ state'[p] = "KILLED" <=> call'[p] = "exit"
    BY DEF SleepersAreInCalls, CodeOf
  <2>1. p \in Slot
    BY SlotFacts
  <2>2. CASE p = current_process
    BY <1>1, <1>4, <1>5, <2>1, <2>2
  <2>3. CASE p # current_process
    <3>1. wait'[p] = wait[p] /\ call'[p] = call[p]
      BY <1>5, <2>1, <2>3
    <3>2. CASE p = current_process'
      BY <1>4, <1>6, <2>1, <2>3, <3>1, <3>2 DEF SleepersAreInCalls
    <3>3. CASE p # current_process'
      BY <1>4, <2>1, <2>3, <3>1, <3>3 DEF SleepersAreInCalls
    <3> QED BY <3>2, <3>3
  <2> QED BY <2>2, <2>3
<1>11. PidsIdentify'
  <2>1. \A p \in Slot : state'[p] = "UNUSED" <=> state[p] = "UNUSED"
    BY <1>3, <1>4, <1>6
  <2>2. \A k \in ToSet(kill_list) : k \in Slot /\ k # current_process
    BY <1>3, SlotFacts DEF ListsMatchStates
  <2> QED BY <1>5, <2>1, <2>2, SlotFacts DEF PidsIdentify
<1>12. NoLostExit'
  <2>1. \A p \in ToSet(wait_list) : p \in Slot /\ p # current_process
    BY <1>3, SlotFacts DEF ListsMatchStates
  <2>2. current_process \in Slot
    BY SlotFacts
  <2> QED BY <1>2, <1>5, <2>1, <2>2 DEF NoLostExit
<1>13. ReapsOnlyKilled'
  BY DEF ReapsOnlyKilled
<1> QED BY <1>7, <1>8, <1>9, <1>10, <1>11, <1>12, <1>13

\* A process that returns to user code.
LEMMA ReturnInv ==
  ASSUME IInv, current_process \in Proc, Return,
         UNCHANGED <<state, pid, wait, pid_num, current_process, ready_list, wait_list,
                     kill_list, panic>>
  PROVE  IInv'
<1> USE DEF IInv
<1>1. /\ state[current_process] = "RUNNING" /\ current_process \in Slot
      /\ current_process \notin ToSet(wait_list)
  BY SlotFacts DEF OneRunning, ListsMatchStates
<1>2. \A p \in Slot : /\ call'[p] = IF p = current_process THEN "user" ELSE call[p]
                      /\ p # current_process => arg'[p] = arg[p]
  BY DEF Return, TypeOK
<1>3. TypeOK'
  <2>1. call' \in [Slot -> Call] /\ arg' \in [Slot -> Nat]
    BY DEF Return, TypeOK, Call
  <2> QED BY <2>1 DEF TypeOK
<1>4. ListsMatchStates'
  BY DEF ListsMatchStates
<1>5. OneRunning'
  BY <1>2, SlotFacts DEF OneRunning
<1>6. SleepersAreInCalls'
  BY <1>1, <1>2, SlotFacts DEF SleepersAreInCalls, CodeOf
<1>7. PidsIdentify'
  BY DEF PidsIdentify
<1>8. NoLostExit'
  <2>1. ToSet(wait_list) \subseteq Slot
    BY SlotFacts DEF ListsMatchStates
  <2> QED BY <1>1, <1>2, <2>1 DEF NoLostExit
<1>9. ReapsOnlyKilled'
  BY DEF ReapsOnlyKilled
<1> QED BY <1>3, <1>4, <1>5, <1>6, <1>7, <1>8, <1>9

\* sleep(): the process goes to sleep for the ticks it has left, or returns.
LEMMA SysSleepInv == ASSUME IInv, NEW n \in 1 .. MaxSleep, SysSleep(n) PROVE IInv'
<1>1. current_process \in Proc
  BY CallerRuns DEF SysSleep, InUser, IrqOpen
<1>2. n \in Nat /\ CodeOf("sys_sleep") = ForTick
  BY ProcessAssumption DEF CodeOf
<1> QED BY <1>1, <1>2, SleepInv DEF SysSleep

LEMMA SysSleepLoopInv == ASSUME IInv, SysSleepLoop PROVE IInv'
<1>1. current_process \in Proc /\ call[current_process] = "sys_sleep"
  BY CallerRuns DEF SysSleepLoop, Continues
<1>2. CASE arg[current_process] > 0
  <2>1. /\ arg[current_process] \in Nat /\ CodeOf("sys_sleep") = ForTick
        /\ call = [call EXCEPT ![current_process] = "sys_sleep"]
        /\ arg = [arg EXCEPT ![current_process] = arg[current_process]]
    BY <1>1, SlotFacts DEF IInv, TypeOK, CodeOf
  <2>2. Sleep(CodeOf("sys_sleep")) /\ UNCHANGED <<call, arg, pid, pid_num, kill_list, panic>>
    BY <1>2, <2>1 DEF SysSleepLoop
  <2> QED BY <1>1, <2>1, <2>2, SleepInv
<1>3. CASE ~ (arg[current_process] > 0)
  BY <1>1, <1>3, ReturnInv DEF SysSleepLoop
<1> QED BY <1>2, <1>3

\* keyboard_read() on an empty buffer, and its return.
LEMMA SysKeyboardReadInv == ASSUME IInv, SysKeyboardRead PROVE IInv'
<1>1. current_process \in Proc
  BY CallerRuns DEF SysKeyboardRead, InUser, IrqOpen
<1>2. /\ arg[current_process] \in Nat /\ CodeOf("read_key_buffer") = ForKey
      /\ arg = [arg EXCEPT ![current_process] = arg[current_process]]
  BY <1>1, SlotFacts DEF IInv, TypeOK, CodeOf
<1> QED BY <1>1, <1>2, SleepInv DEF SysKeyboardRead

LEMMA KeyboardReadReturnsInv == ASSUME IInv, KeyboardReadReturns PROVE IInv'
<1>1. current_process \in Proc
  BY CallerRuns DEF KeyboardReadReturns, Continues
<1> QED BY <1>1, ReturnInv DEF KeyboardReadReturns

\* exit(): every process that waits for one is woken and goes on to look at
\* the kill list, so none sleeps through this addition to it.
LEMMA ExitInv == ASSUME IInv, Exit PROVE IInv'
<1> USE DEF IInv
<1> DEFINE cur == current_process
           st == WakeUpStates(ForExit)
           st1 == [st EXCEPT ![cur] = "KILLED"]
<1>1. /\ wait' = [wait EXCEPT ![cur] = pid[cur]]
      /\ kill_list' = Append(kill_list, cur)
      /\ wait_list' = WakeUpWait(ForExit)
      /\ Schedule(st1, WakeUpReady(ForExit))
      /\ call' = [call EXCEPT ![cur] = "exit"]
      /\ UNCHANGED <<pid, pid_num, arg, panic>>
  BY DEF Exit
<1>2. /\ cur \in Proc /\ cur \in Slot /\ state[cur] = "RUNNING"
      /\ cur \notin ToSet(wait_list) /\ cur \notin ToSet(kill_list)
  BY CallerRuns, SlotFacts DEF Exit, InUser, IrqOpen
<1>3. /\ ListsOK(st, WakeUpReady(ForExit), wait_list', kill_list)
      /\ \A p \in Slot : st[p] =
           IF state[p] = "SLEEP" /\ p \in Proc /\ wait[p] = ForExit THEN "READY" ELSE state[p]
      /\ ToSet(wait_list') = {p \in ToSet(wait_list) : wait[p] # ForExit}
  <2>1. ForExit \in Int
    BY DEF ForExit
  <2> QED BY <1>1, <2>1, WakeUpMoves
<1> HIDE DEF st
<1>4. /\ ListsOK(st1, WakeUpReady(ForExit), wait_list', kill_list')
      /\ ToSet(kill_list') = ToSet(kill_list) \cup {cur}
  <2>1. st[cur] = "RUNNING"
    BY <1>2, <1>3
  <2>2. ListsOK(st1, WakeUpReady(ForExit), wait_list', kill_list')
    BY <1>1, <1>2, <1>3, <2>1, AppendRunning
  <2>3. ToSet(kill_list') = ToSet(kill_list) \cup {cur}
    BY <1>1, <1>2, AppendItems DEF TypeOK
  <2> QED BY <2>2, <2>3
<1>5. \A p \in Slot : st1[p] = IF p = cur THEN "KILLED" ELSE st[p]
  BY <1>2, <1>3 DEF ListsOK
<1>6. \A p \in Slot : st1[p] # "RUNNING"
  BY <1>3, <1>5 DEF OneRunning
<1> HIDE DEF st1
<1>7. /\ current_process' \in Slot
      /\ current_process' = Idle \/ st1[current_process'] = "READY"
      /\ state' = [st1 EXCEPT ![current_process'] = "RUNNING"]
      /\ {p \in Slot : state'[p] = "RUNNING"} = {current_process'}
      /\ ListsOK(state', ready_list', wait_list', kill_list')
  BY <1>1, <1>4, <1>6, ScheduleRuns
<1>8. \A p \in Slot : state'[p] = IF p = current_process' THEN "RUNNING" ELSE st1[p]
  BY <1>4, <1>7 DEF ListsOK
<1>9. current_process' # cur /\ st1[current_process'] \in {"READY", "RUNNING"}
  BY <1>2, <1>3, <1>5, <1>6, <1>7, SlotFacts DEF OneRunning
<1>10. \A p \in Slot : /\ call'[p] = IF p = cur THEN "exit" ELSE call[p]
                       /\ wait'[p] = IF p = cur THEN pid[p] ELSE wait[p]
  BY <1>1 DEF TypeOK
<1>11. /\ \A p \in Slot : state'[p] = "SLEEP" => p # cur /\ state[p] = "SLEEP"
       /\ \A p \in Slot : state'[p] = "KILLED" <=> p = cur \/ state[p] = "KILLED"
       /\ \A p \in Slot : state'[p] = "UNUSED" <=> state[p] = "UNUSED"
  <2> SUFFICES ASSUME NEW p \in Slot
               PROVE  /\ state'[p] = "SLEEP" => p # cur /\ state[p] = "SLEEP"
                      /\ state'[p] = "KILLED" <=> p = cur \/ state[p] = "KILLED"
                      /\ state'[p] = "UNUSED" <=> state[p] = "UNUSED"
    OBVIOUS
  <2>1. CASE p = cur
    BY <1>2, <1>5, <1>8, <1>9, <2>1
  <2>2. CASE p # cur
    BY <1>3, <1>5, <1>8, <1>9, <2>2
  <2> QED BY <2>1, <2>2
<1>12. TypeOK'
  <2>1. call' \in [Slot -> Call] /\ wait' \in [Slot -> Int]
    <3>1. pid[cur] \in Int /\ "exit" \in Call
      BY <1>2 DEF TypeOK, Call
    <3> QED BY <1>1, <3>1 DEF TypeOK
  <2> QED BY <1>1, <1>7, <2>1 DEF TypeOK, ListsOK
<1>13. ListsMatchStates'
  BY <1>7 DEF ListsOK, ListsMatchStates
<1>14. OneRunning'
  <2>1. state'[Idle] \in {"RUNNING", "READY"}
    BY <1>2, <1>3, <1>5, <1>8, SlotFacts DEF OneRunning
  <2>2. call'[Idle] = "user" /\ pid'[Idle] = 0
    BY <1>1, <1>2, <1>10, SlotFacts DEF OneRunning
  <2> QED BY <1>7, <2>1, <2>2 DEF OneRunning
<1>15. SleepersAreInCalls'
  <2> SUFFICES ASSUME NEW p \in Proc
               PROVE  /\ state'[p] = "SLEEP" => wait'[p] = CodeOf(call'[p]) /\ wait'[p] # 0
                      /\ state'[p] = "KILLED" <=> call'[p] = "exit"
    BY DEF SleepersAreInCalls, CodeOf
  <2> QED BY <1>10, <1>11, SlotFacts DEF SleepersAreInCalls
<1>16. PidsIdentify'
  <2>1. /\ \A p \in Slot : state[p] # "UNUSED" <=> state'[p] # "UNUSED"
        /\ pid' = pid /\ pid_num' = pid_num
    BY <1>1, <1>11
  <2>2. \A k \in ToSet(kill_list') : wait'[k] = pid'[k]
    <3>1. ToSet(kill_list) \subseteq Slot
      BY SlotFacts DEF ListsMatchStates
    <3> QED BY <1>2, <1>4, <1>10, <2>1, <3>1 DEF PidsIdentify
  <2> QED BY <2>1, <2>2, SlotFacts DEF PidsIdentify
<1>17. NoLostExit'
  <2>1. ASSUME NEW p \in ToSet(wait_list') PROVE call'[p] # "wait"
    <3>1. /\ p \in ToSet(wait_list) /\ wait[p] # ForExit /\ p \in Proc /\ p \in Slot
          /\ state[p] = "SLEEP" /\ p # cur
      BY <1>2, <1>3, SlotFacts DEF ListsMatchStates
    <3>2. wait[p] = CodeOf(call[p]) /\ call'[p] = call[p]
      BY <1>10, <3>1 DEF SleepersAreInCalls
    <3>3. CodeOf("wait") = ForExit
      BY DEF CodeOf
    <3> QED BY <3>1, <3>2, <3>3
  <2> QED BY <2>1 DEF NoLostExit
<1>18. ReapsOnlyKilled'
  BY <1>1 DEF ReapsOnlyKilled
<1> QED BY <1>12, <1>13, <1>14, <1>15, <1>16, <1>17, <1>18

\* remove_list() takes one item off a list that has it once.
LEMMA UnlinkItems ==
  ASSUME NEW S, NEW s \in Seq(S), OnceEach(s), NEW k \in DOMAIN s
  PROVE  /\ Unlink(s, k) \in Seq(S)
         /\ OnceEach(Unlink(s, k))
         /\ ToSet(Unlink(s, k)) = ToSet(s) \ {s[k]}
<1>1. {k} \in SUBSET DOMAIN s /\ DOMAIN s \ {k} \in SUBSET DOMAIN s
  OBVIOUS
<1>2. ToSet(Sublist(s, {k})) = {s[k]}
  BY <1>1, SublistProperties
<1> QED BY <1>1, <1>2, SublistProperties, SplitItems DEF Unlink

\* wait() finds a killed process: its slot is freed, and the waiter returns.
LEMMA ReapInv ==
  ASSUME IInv, current_process \in Proc, call[current_process] \in {"user", "wait"},
         NEW k \in DOMAIN kill_list, Reap(k)
  PROVE  IInv'
<1> USE DEF IInv
<1> DEFINE r == kill_list[k]
<1>1. kill_list \in Seq(Proc) /\ OnceEach(kill_list) /\ r \in ToSet(kill_list)
  BY DEF TypeOK, ListsMatchStates, ToSet
<1>2. /\ r \in Proc /\ r \in Slot /\ state[r] = "KILLED"
      /\ current_process \in Slot /\ state[current_process] = "RUNNING" /\ r # current_process
      /\ current_process \notin ToSet(wait_list) /\ r \notin ToSet(wait_list)
  BY <1>1, SlotFacts DEF ListsMatchStates, OneRunning
<1>3. /\ kill_list' = Unlink(kill_list, k)
      /\ state' = [state EXCEPT ![r] = "UNUSED"]
      /\ pid' = [pid EXCEPT ![r] = 0]
      /\ wait' = [wait EXCEPT ![r] = 0]
      /\ call' = [call EXCEPT ![r] = "user", ![current_process] = "user"]
      /\ arg' = [arg EXCEPT ![r] = 0, ![current_process] = 0]
      /\ UNCHANGED <<pid_num, current_process, ready_list, wait_list, panic>>
  BY <1>2 DEF Reap
<1>4. /\ kill_list' \in Seq(Proc) /\ OnceEach(kill_list')
      /\ ToSet(kill_list') = ToSet(kill_list) \ {r}
  BY <1>1, <1>3, UnlinkItems
<1> HIDE DEF r
<1>5. \A p \in Slot : /\ state'[p] = IF p = r THEN "UNUSED" ELSE state[p]
                      /\ pid'[p] = IF p = r THEN 0 ELSE pid[p]
                      /\ wait'[p] = IF p = r THEN 0 ELSE wait[p]
                      /\ call'[p] = IF p = r \/ p = current_process THEN "user" ELSE call[p]
                      /\ p # r /\ p # current_process => arg'[p] = arg[p]
  BY <1>2, <1>3 DEF TypeOK
<1>6. TypeOK'
  <2>1. state' \in [Slot -> ProcState] /\ pid' \in [Slot -> Nat] /\ wait' \in [Slot -> Int]
    BY <1>2, <1>3 DEF TypeOK, ProcState
  <2>2. call' \in [Slot -> Call] /\ arg' \in [Slot -> Nat]
    BY <1>2, <1>3 DEF TypeOK, Call
  <2> QED BY <1>3, <1>4, <2>1, <2>2 DEF TypeOK
<1>7. ListsMatchStates'
  BY <1>2, <1>3, <1>4, <1>5, SlotFacts DEF ListsMatchStates
<1>8. OneRunning'
  <2>1. {p \in Slot : state'[p] = "RUNNING"} = {current_process'}
    BY <1>2, <1>3, <1>5 DEF OneRunning
  <2>2. state'[Idle] \in {"RUNNING", "READY"} /\ call'[Idle] = "user" /\ pid'[Idle] = 0
    BY <1>2, <1>5, SlotFacts DEF OneRunning
  <2> QED BY <2>1, <2>2 DEF OneRunning
<1>9. SleepersAreInCalls'
  <2> SUFFICES ASSUME NEW p \in Proc
               PROVE  /\ state'[p] = "SLEEP" => wait'[p] = CodeOf(call'[p]) /\ wait'[p] # 0
                      /\ state'[p] = "KILLED" <=> call'[p] = "exit"
    BY DEF SleepersAreInCalls, CodeOf
  <2> QED BY <1>2, <1>5, SlotFacts DEF SleepersAreInCalls
<1>10. PidsIdentify'
  <2>1. ToSet(kill_list) \subseteq Slot
    BY SlotFacts DEF ListsMatchStates
  <2>2. pid_num' = pid_num /\ 0 < pid_num
    <3>1. pid_num > pid[Idle] /\ pid[Idle] = 0
      BY SlotFacts DEF PidsIdentify, OneRunning
    <3> QED BY <1>3, <3>1 DEF TypeOK
  <2>3. \A p, q \in Slot : state'[p] # "UNUSED" /\ state'[q] # "UNUSED" /\ pid'[p] = pid'[q]
                             => p = q
    BY <1>5 DEF PidsIdentify
  <2>4. \A p \in Slot : pid'[p] < pid_num'
    BY <1>5, <2>2 DEF PidsIdentify
  <2>5. \A p \in Proc : state'[p] # "UNUSED" <=> pid'[p] > 0
    BY <1>5, SlotFacts DEF PidsIdentify
  <2>6. \A p \in ToSet(kill_list') : wait'[p] = pid'[p]
    BY <1>4, <1>5, <2>1 DEF PidsIdentify
  <2> QED BY <2>3, <2>4, <2>5, <2>6 DEF PidsIdentify
<1>11. NoLostExit'
  <2>1. ToSet(wait_list) \subseteq Slot /\ ToSet(kill_list) \subseteq Slot
    BY SlotFacts DEF ListsMatchStates
  <2>2. ASSUME NEW p \in ToSet(wait_list'), NEW q \in ToSet(kill_list'), call'[p] = "wait"
        PROVE  pid'[q] # arg'[p]
    <3>1. /\ p \in ToSet(wait_list) /\ p \in Slot /\ p # r /\ p # current_process
          /\ q \in ToSet(kill_list) /\ q \in Slot /\ q # r
      BY <1>2, <1>3, <1>4, <2>1
    <3>2. call'[p] = call[p] /\ arg'[p] = arg[p] /\ pid'[q] = pid[q]
      BY <1>5, <3>1
    <3> QED BY <2>2, <3>1, <3>2 DEF NoLostExit
  <2> QED BY <2>2 DEF NoLostExit
<1>12. ReapsOnlyKilled'
  BY <1>3 DEF ReapsOnlyKilled
<1> QED BY <1>6, <1>7, <1>8, <1>9, <1>10, <1>11, <1>12

\* A round of wait(): it frees a process, or has found none and sleeps.
LEMMA WaitRoundInv ==
  ASSUME IInv, current_process \in Proc, call[current_process] \in {"user", "wait"},
         NEW target \in Nat, WaitRound(target)
  PROVE  IInv'
<1> DEFINE found == Matches(kill_list, wait, target)
<1>1. kill_list \in Seq(Proc) /\ DOMAIN kill_list \subseteq Nat
  BY DEF IInv, TypeOK
<1>2. found = {i \in DOMAIN kill_list : wait[kill_list[i]] = target}
  BY DEF Matches
<1>3. CASE found # {}
  <2>1. Min(found) \in DOMAIN kill_list
    BY <1>1, <1>2, <1>3, MinOfNats
  <2>2. Reap(Min(found))
    BY <1>3 DEF WaitRound
  <2> QED BY <2>1, <2>2, ReapInv
<1>4. CASE found = {}
  <2>1. \A k \in ToSet(kill_list) : pid[k] # target
    BY <1>2, <1>4 DEF IInv, PidsIdentify, ToSet
  <2>2. CodeOf("wait") = ForExit
    BY DEF CodeOf
  <2>3. /\ Sleep(CodeOf("wait"))
        /\ call' = [call EXCEPT ![current_process] = "wait"]
        /\ arg' = [arg EXCEPT ![current_process] = target]
        /\ UNCHANGED <<pid, pid_num, kill_list, panic>>
    BY <1>4, <2>2 DEF WaitRound
  <2> QED BY <2>1, <2>3, SleepInv
<1> QED BY <1>3, <1>4

LEMMA SysWaitInv == ASSUME IInv, NEW target \in 1 .. MaxPid, SysWait(target) PROVE IInv'
<1>1. current_process \in Proc /\ call[current_process] = "user" /\ target \in Nat
  BY CallerRuns, ProcessAssumption DEF SysWait, InUser, IrqOpen
<1> QED BY <1>1, WaitRoundInv DEF SysWait

LEMMA WaitLoopInv == ASSUME IInv, WaitLoop PROVE IInv'
<1>1. current_process \in Proc /\ call[current_process] = "wait"
  BY CallerRuns DEF WaitLoop, Continues
<1>2. arg[current_process] \in Nat
  BY <1>1, SlotFacts DEF IInv, TypeOK
<1> QED BY <1>1, <1>2, WaitRoundInv DEF WaitLoop

\* fork(): an unused slot is on no list, and the pid it is given is new.
LEMMA ForkInv == ASSUME IInv, Fork PROVE IInv'
<1> USE DEF IInv
<1>1. UNCHANGED <<wait, current_process, wait_list, kill_list, call, arg>>
  BY DEF Fork
<1>2. CASE Unused = {}
  <2>1. UNCHANGED <<state, pid, pid_num, ready_list>> /\ panic' = "alloc_new_process"
    BY <1>2 DEF Fork
  <2>2. TypeOK' /\ OneRunning' /\ SleepersAreInCalls'
    BY <1>1, <2>1 DEF TypeOK, OneRunning, SleepersAreInCalls, CodeOf
  <2>3. ListsMatchStates' /\ PidsIdentify' /\ NoLostExit' /\ ReapsOnlyKilled'
    BY <1>1, <2>1 DEF ListsMatchStates, PidsIdentify, NoLostExit, ReapsOnlyKilled
  <2> QED BY <2>2, <2>3
<1>3. CASE Unused # {}
  <2> DEFINE child == Min(Unused)
  <2>1. /\ state' = [state EXCEPT ![child] = "READY"]
        /\ pid' = [pid EXCEPT ![child] = pid_num]
        /\ pid_num' = pid_num + 1
        /\ ready_list' = Append(ready_list, child)
        /\ UNCHANGED panic
    BY <1>3 DEF Fork
  <2>2. child \in Unused
    BY <1>3, SlotFacts, MinOfNats DEF Unused
  <2> HIDE DEF child
  <2>3. child \in Slot /\ child \in Proc /\ state[child] = "UNUSED" /\ child # current_process
    BY <2>2, SlotFacts DEF Unused, OneRunning
  <2>4. ListsOK(state', ready_list', wait_list', kill_list')
    BY <1>1, <2>1, <2>3, ListsOfState, AppendRunning
  <2>5. \A p \in Slot : /\ state'[p] = IF p = child THEN "READY" ELSE state[p]
                        /\ pid'[p] = IF p = child THEN pid_num ELSE pid[p]
    BY <2>1 DEF TypeOK
  <2>6. child \notin ToSet(kill_list) /\ child \notin ToSet(wait_list)
    BY <2>3 DEF ListsMatchStates
  <2>7. TypeOK'
    <3>1. pid_num \in Nat /\ pid \in [Slot -> Nat]
      BY DEF TypeOK
    <3>2. pid' = [pid EXCEPT ![child] = pid_num] /\ pid_num' = pid_num + 1
      BY <2>1
    <3>3. pid' \in [Slot -> Nat] /\ pid_num' \in Nat
      BY <2>3, <3>1, <3>2
    <3> QED BY <1>1, <2>1, <2>4, <3>3 DEF TypeOK, ListsOK
  <2>8. ListsMatchStates'
    BY <2>4 DEF ListsOK, ListsMatchStates
  <2>9. OneRunning'
    BY <1>1, <2>3, <2>5, SlotFacts DEF OneRunning
  <2>10. SleepersAreInCalls'
    <3> SUFFICES ASSUME NEW p \in Proc
                 PROVE  /\ state'[p] = "SLEEP" => wait'[p] = CodeOf(call'[p]) /\ wait'[p] # 0
                        /\ state'[p] = "KILLED" <=> call'[p] = "exit"
      BY DEF SleepersAreInCalls, CodeOf
    <3> QED BY <1>1, <2>3, <2>5, SlotFacts DEF SleepersAreInCalls
  <2>11. PidsIdentify'
    <3>1. \A p \in Slot : pid[p] \in Nat /\ pid[p] < pid_num
      BY DEF PidsIdentify, TypeOK
    <3>2. pid_num \in Nat /\ pid_num > 0
      BY <3>1, <2>3 DEF TypeOK
    <3>3. \A p \in Slot : pid'[p] < pid_num'
      BY <2>1, <2>5, <3>1, <3>2
    <3>4. \A p, q \in Slot : state'[p] # "UNUSED" /\ state'[q] # "UNUSED" /\ pid'[p] = pid'[q]
                               => p = q
      BY <2>5, <3>1, <3>2 DEF PidsIdentify
    <3>5. \A p \in Proc : state'[p] # "UNUSED" <=> pid'[p] > 0
      BY <2>5, <3>2, SlotFacts DEF PidsIdentify
    <3>6. \A k \in ToSet(kill_list') : wait'[k] = pid'[k]
      <4>1. ToSet(kill_list) \subseteq Slot
        BY SlotFacts DEF ListsMatchStates
      <4> QED BY <1>1, <2>5, <2>6, <4>1 DEF PidsIdentify
    <3> QED BY <3>3, <3>4, <3>5, <3>6 DEF PidsIdentify
  <2>12. NoLostExit'
    <3>1. ToSet(kill_list) \subseteq Slot
      BY SlotFacts DEF ListsMatchStates
    <3> QED BY <1>1, <2>5, <2>6, <3>1 DEF NoLostExit
  <2>13. ReapsOnlyKilled'
    BY <2>1 DEF ReapsOnlyKilled
  <2> QED BY <2>7, <2>8, <2>9, <2>10, <2>11, <2>12, <2>13
<1> QED BY <1>2, <1>3

-----------------------------------------------------------------------------
(* Every step, and the theorems.                                           *)

\* Every step of the kernel keeps the invariant.
LEMMA NextInv == ASSUME IInv, [Next]_procVars PROVE IInv'
<1>1. CASE UNCHANGED procVars
  <2>1. TypeOK' /\ OneRunning' /\ SleepersAreInCalls'
    BY <1>1 DEF IInv, procVars, TypeOK, OneRunning, SleepersAreInCalls, CodeOf
  <2>2. ListsMatchStates' /\ PidsIdentify' /\ NoLostExit' /\ ReapsOnlyKilled'
    BY <1>1 DEF IInv, procVars, ListsMatchStates, PidsIdentify, NoLostExit, ReapsOnlyKilled
  <2> QED BY <2>1, <2>2 DEF IInv
<1>2. CASE TimerIrq
  BY <1>2, TimerIrqInv
<1>3. CASE UartIrq
  BY <1>3, UartIrqInv
<1>4. CASE \E n \in 1 .. MaxSleep : SysSleep(n)
  BY <1>4, SysSleepInv
<1>5. CASE SysSleepLoop
  BY <1>5, SysSleepLoopInv
<1>6. CASE SysKeyboardRead
  BY <1>6, SysKeyboardReadInv
<1>7. CASE KeyboardReadReturns
  BY <1>7, KeyboardReadReturnsInv
<1>8. CASE Exit
  BY <1>8, ExitInv
<1>9. CASE \E target \in 1 .. MaxPid : SysWait(target)
  BY <1>9, SysWaitInv
<1>10. CASE WaitLoop
  BY <1>10, WaitLoopInv
<1>11. CASE Fork
  BY <1>11, ForkInv
<1>12. CASE Hang
  BY <1>1, <1>12 DEF Hang
<1> QED BY <1>1, <1>2, <1>3, <1>4, <1>5, <1>6, <1>7, <1>8, <1>9, <1>10, <1>11, <1>12 DEF Next

\* The invariant holds in every state of the kernel.
THEOREM Invariant == Spec => []IInv
BY InitInv, NextInv, PTL DEF Spec

\* What the process table, the lists and the call stacks hold.
THEOREM TypeCorrect == Spec => []TypeOK
<1>1. IInv => TypeOK
  BY DEF IInv
<1> QED BY <1>1, Invariant, PTL

\* append_list_tail, remove_list_head and remove_list are called so that a
\* process is on the list of its state, once, and on no other.
THEOREM ListsAreConsistent == Spec => []ListsMatchStates
<1>1. IInv => ListsMatchStates
  BY DEF IInv
<1> QED BY <1>1, Invariant, PTL

\* schedule() and yield() leave one process RUNNING, the current one.
THEOREM OneProcessRuns == Spec => []OneRunning
<1>1. IInv => OneRunning
  BY DEF IInv
<1> QED BY <1>1, Invariant, PTL

\* A sleeping process sleeps on the code of the call it is in, which is what
\* the wake_up() of the timer, of the keyboard and of exit() look for.
THEOREM SleepersCanBeWoken == Spec => []SleepersAreInCalls
<1>1. IInv => SleepersAreInCalls
  BY DEF IInv
<1> QED BY <1>1, Invariant, PTL

\* wait() never sleeps through the exit it waits for.
THEOREM NoExitIsLost == Spec => []NoLostExit
<1>1. IInv => NoLostExit
  BY DEF IInv
<1> QED BY <1>1, Invariant, PTL

\* A pid names one process, and wait() searches the kill list by pids.
THEOREM PidsAreUnique == Spec => []PidsIdentify
<1>1. IInv => PidsIdentify
  BY DEF IInv
<1> QED BY <1>1, Invariant, PTL

\* The assertion in wait() never fails.
THEOREM WaitAssertHolds == Spec => []ReapsOnlyKilled
<1>1. IInv => ReapsOnlyKilled
  BY DEF IInv
<1> QED BY <1>1, Invariant, PTL

-----------------------------------------------------------------------------
(* What a step may never do.                                               *)

\* schedule() takes the head off a ready list that has only grown at its end.
LEMMA ScheduleKeepsOrder ==
  ASSUME TypeOK, NEW st, NEW rl \in Seq(Proc), IsPrefix(ready_list, rl), Schedule(st, rl)
  PROVE  KeepsOrder
<1>1. ready_list \in Seq(Proc)
  BY DEF TypeOK
<1>2. CASE rl = <<>>
  BY <1>2 DEF Schedule, KeepsOrder
<1>3. CASE rl # <<>>
  <2>1. current_process' = Head(rl) /\ ready_list' = Tail(rl) /\ ready_list' \in Seq(Proc)
    BY <1>3 DEF Schedule
  <2>2. CASE ready_list = <<>>
    <3>1. Len(ready_list) = 0 /\ Len(ready_list') \in Nat
      BY <1>1, <2>1, <2>2, EmptySeq, LenProperties
    <3>2. /\ Len(ready_list) <= Len(ready_list')
          /\ \A i \in 1 .. Len(ready_list) : ready_list'[i] = ready_list[i]
      BY <3>1
    <3>3. IsPrefix(ready_list, ready_list')
      BY <1>1, <2>1, <3>2, PrefixItems
    <3> QED BY <3>3 DEF KeepsOrder
  <2>3. CASE ready_list # <<>>
    BY <1>1, <2>1, <2>3, PrefixTail DEF KeepsOrder
  <2> QED BY <2>2, <2>3
<1> QED BY <1>2, <1>3

\* Every step keeps the order of the ready list.
LEMMA NextKeepsOrder == ASSUME IInv, [Next]_procVars PROVE [KeepsOrder]_procVars
<1>1. ready_list \in Seq(Proc) /\ current_process \in Slot /\ TypeOK
  BY DEF IInv, TypeOK
<1>2. ASSUME UNCHANGED ready_list PROVE KeepsOrder
  <2>1. IsPrefix(ready_list, ready_list)
    BY <1>1, PrefixItems
  <2> QED BY <1>2, <2>1 DEF KeepsOrder
<1>3. ASSUME NEW w, Sleep(w) PROVE KeepsOrder
  <2>1. IsPrefix(ready_list, ready_list)
    BY <1>1, PrefixItems
  <2> QED BY <1>1, <1>3, <2>1, ScheduleKeepsOrder DEF Sleep
<1>4. ASSUME NEW w \in Int
      PROVE  WakeUpReady(w) \in Seq(Proc) /\ IsPrefix(ready_list, WakeUpReady(w))
  BY WakeUpMoves DEF IInv, ListsOK
<1>5. CASE TimerIrq
  <2> DEFINE rl == WakeUpReady(ForTick)
  <2>1. rl \in Seq(Proc) /\ IsPrefix(ready_list, rl) /\ Yield(WakeUpStates(ForTick), rl)
    BY <1>4, <1>5 DEF TimerIrq, ForTick
  <2> HIDE DEF rl
  <2>2. CASE rl = <<>>
    BY <2>1, <2>2 DEF Yield, KeepsOrder
  <2>3. CASE rl # <<>>
    <3> DEFINE rl1 == IF pid[current_process] # 0 THEN Append(rl, current_process) ELSE rl
    <3>1. rl1 \in Seq(Proc) /\ IsPrefix(ready_list, rl1)
      <4>1. CASE pid[current_process] # 0
        <5>1. current_process \in Proc
          BY <1>1, <4>1, SlotFacts DEF IInv, OneRunning
        <5> QED BY <1>1, <2>1, <4>1, <5>1, AppendItems, PrefixOfPrefix
      <4>2. CASE pid[current_process] = 0
        BY <2>1, <4>2
      <4> QED BY <4>1, <4>2
    <3>2. Schedule([WakeUpStates(ForTick) EXCEPT ![current_process] = "READY"], rl1)
      BY <2>1, <2>3 DEF Yield
    <3> HIDE DEF rl1
    <3> QED BY <1>1, <3>1, <3>2, ScheduleKeepsOrder
  <2> QED BY <2>2, <2>3
<1>6. CASE UartIrq
  BY <1>4, <1>6 DEF UartIrq, KeepsOrder, ForKey
<1>7. CASE \E n \in 1 .. MaxSleep : SysSleep(n)
  BY <1>3, <1>7 DEF SysSleep
<1>8. CASE SysSleepLoop
  BY <1>2, <1>3, <1>8 DEF SysSleepLoop
<1>9. CASE SysKeyboardRead
  BY <1>3, <1>9 DEF SysKeyboardRead
<1>10. CASE KeyboardReadReturns
  BY <1>2, <1>10 DEF KeyboardReadReturns
<1>11. CASE Exit
  <2>1. /\ WakeUpReady(ForExit) \in Seq(Proc) /\ IsPrefix(ready_list, WakeUpReady(ForExit))
        /\ Schedule([WakeUpStates(ForExit) EXCEPT ![current_process] = "KILLED"],
                    WakeUpReady(ForExit))
    BY <1>4, <1>11 DEF Exit, ForExit
  <2> QED BY <1>1, <2>1, ScheduleKeepsOrder
<1>12. ASSUME NEW target, WaitRound(target) PROVE KeepsOrder
  BY <1>2, <1>3, <1>12 DEF WaitRound, Reap
<1>13. CASE \E target \in 1 .. MaxPid : SysWait(target)
  BY <1>12, <1>13 DEF SysWait
<1>14. CASE WaitLoop
  BY <1>12, <1>14 DEF WaitLoop
<1>15. CASE Fork
  <2>1. CASE Unused = {}
    BY <1>2, <1>15, <2>1 DEF Fork
  <2>2. CASE Unused # {}
    <3>1. ready_list' = Append(ready_list, Min(Unused))
      BY <1>15, <2>2 DEF Fork
    <3>2. Min(Unused) \in Proc
      <4>1. Min(Unused) \in Unused
        BY <2>2, SlotFacts, MinOfNats DEF Unused
      <4> QED BY <4>1, SlotFacts DEF Unused, IInv, OneRunning
    <3> QED BY <1>1, <3>1, <3>2, AppendItems DEF KeepsOrder
  <2> QED BY <2>1, <2>2
<1>16. CASE Hang
  BY <1>2, <1>16 DEF Hang, procVars
<1> QED BY <1>5, <1>6, <1>7, <1>8, <1>9, <1>10, <1>11, <1>13, <1>14, <1>15, <1>16 DEF Next

\* Scheduling is round robin: append_list_tail and remove_list_head are all
\* that the ready list sees.
THEOREM ReadyListIsFair == Spec => RoundRobin
BY Invariant, NextKeepsOrder, PTL DEF Spec, RoundRobin

\* A step in which wait() returns to user code is one that freed the process
\* it waited for; the pid it had is nobody's afterwards.
LEMMA NextReturnsFromWait == ASSUME IInv, [Next]_procVars PROVE [ReturnsFromWait]_procVars
<1>1. ASSUME \A p \in Proc : call[p] = "wait" => call'[p] # "user" PROVE ReturnsFromWait
  BY <1>1 DEF ReturnsFromWait
<1>2. ASSUME UNCHANGED call PROVE ReturnsFromWait
  BY <1>1, <1>2
<1>3. ASSUME NEW c \in Call, c # "user", call' = [call EXCEPT ![current_process] = c]
      PROVE  ReturnsFromWait
  <2>1. \A p \in Slot : call'[p] = IF p = current_process THEN c ELSE call[p]
    BY <1>3 DEF IInv, TypeOK
  <2> QED BY <1>1, <1>3, <2>1, SlotFacts
<1>4. ASSUME call[current_process] # "wait", Return PROVE ReturnsFromWait
  <2>1. \A p \in Slot : call'[p] = IF p = current_process THEN "user" ELSE call[p]
    BY <1>4 DEF IInv, TypeOK, Return
  <2> QED BY <1>1, <1>4, <2>1, SlotFacts
<1>5. CASE TimerIrq \/ UartIrq \/ Fork \/ Hang
  BY <1>2, <1>5 DEF TimerIrq, UartIrq, Fork, Hang, procVars
<1>6. CASE (\E n \in 1 .. MaxSleep : SysSleep(n)) \/ SysKeyboardRead \/ Exit
  BY <1>3, <1>6 DEF SysSleep, SysKeyboardRead, Exit, Call
<1>7. CASE SysSleepLoop
  BY <1>2, <1>4, <1>7 DEF SysSleepLoop, Continues
<1>8. CASE KeyboardReadReturns
  BY <1>4, <1>8 DEF KeyboardReadReturns, Continues
<1>9. ASSUME NEW target \in Nat, WaitRound(target), current_process \in Proc,
             call[current_process] = "wait" => target = arg[current_process]
      PROVE  ReturnsFromWait
  <2> DEFINE found == Matches(kill_list, wait, target)
             r == kill_list[Min(found)]
  <2>1. CASE found = {}
    BY <1>3, <1>9, <2>1 DEF WaitRound, Call
  <2>2. CASE found # {}
    <3>1. found \in SUBSET Nat /\ found \subseteq DOMAIN kill_list
          /\ \A i \in found : wait[kill_list[i]] = target
      BY DEF Matches, IInv, TypeOK
    <3>2. Min(found) \in found
      BY <2>2, <3>1, MinOfNats
    <3>3. r \in ToSet(kill_list) /\ wait[r] = target
      BY <3>1, <3>2 DEF ToSet
    <3>4. Reap(Min(found))
      BY <1>9, <2>2 DEF WaitRound
    <3> HIDE DEF found
    <3>5. r \in Proc /\ r \in Slot /\ state[r] = "KILLED" /\ pid[r] = target
      BY <3>3, SlotFacts DEF IInv, ListsMatchStates, PidsIdentify
    <3>6. /\ pid' = [pid EXCEPT ![r] = 0]
          /\ call' = [call EXCEPT ![r] = "user", ![current_process] = "user"]
      BY <3>4, <3>5 DEF Reap
    <3> HIDE DEF r
    <3>7. \A p \in Slot : /\ pid'[p] = IF p = r THEN 0 ELSE pid[p]
                          /\ call'[p] = IF p = r \/ p = current_process THEN "user" ELSE call[p]
      BY <3>5, <3>6 DEF IInv, TypeOK
    <3>8. call[r] = "exit"
      BY <3>5 DEF IInv, SleepersAreInCalls
    <3>9. \A q \in Slot : pid'[q] # target
      <4>1. pid[r] > 0
        BY <3>5 DEF IInv, PidsIdentify
      <4>2. \A q \in Slot : q # r => pid[q] # pid[r]
        <5> SUFFICES ASSUME NEW q \in Slot, q # r, pid[q] = pid[r] PROVE FALSE
          OBVIOUS
        <5>1. q \in Proc
          BY <4>1, SlotFacts DEF IInv, OneRunning
        <5>2. state[q] # "UNUSED"
          BY <4>1, <5>1 DEF IInv, PidsIdentify
        <5> QED BY <3>5, <5>2 DEF IInv, PidsIdentify
      <4> QED BY <3>5, <3>7, <4>1, <4>2
    <3>10. ASSUME NEW p \in Proc, call[p] = "wait", call'[p] = "user" PROVE arg[p] = target
      <4>1. p = current_process
        BY <3>7, <3>8, <3>10, SlotFacts
      <4> QED BY <1>9, <3>10, <4>1
    <3> QED BY <3>9, <3>10 DEF ReturnsFromWait
  <2> QED BY <2>1, <2>2
<1>10. CASE \E target \in 1 .. MaxPid : SysWait(target)
  <2>1. PICK target \in 1 .. MaxPid : SysWait(target)
    BY <1>10
  <2>2. /\ target \in Nat /\ WaitRound(target) /\ call[current_process] = "user"
        /\ current_process \in Proc
    BY <2>1, CallerRuns, ProcessAssumption DEF SysWait, InUser, IrqOpen
  <2> QED BY <1>9, <2>2
<1>11. CASE WaitLoop
  <2>1. WaitRound(arg[current_process]) /\ current_process \in Proc
    BY <1>11, CallerRuns DEF WaitLoop, Continues
  <2>2. arg[current_process] \in Nat
    BY <2>1, SlotFacts DEF IInv, TypeOK
  <2> QED BY <1>9, <2>1, <2>2
<1> QED BY <1>5, <1>6, <1>7, <1>8, <1>10, <1>11 DEF Next

\* wait(n) returns only after process n is gone.
THEOREM WaitReturnsLast == Spec => WaitOutlivesChild
BY Invariant, NextReturnsFromWait, PTL DEF Spec, WaitOutlivesChild
=============================================================================
