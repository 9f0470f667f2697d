--------------------------- MODULE KProcessProofs ---------------------------
(***************************************************************************)
(* Theorems about KProcess, for every table size, scheduling interval and  *)
(* set of sleep durations: type correctness, exactly one RUNNING process,  *)
(* the owed EOI and no lost sleeper.                                       *)
(***************************************************************************)
EXTENDS KProcess, TLAPS

(***************************************************************************)
(* The inductive invariant.  ExactlyOneRunning is not inductive: a process *)
(* that sleeps or exits leaves the processor only because the scheduler    *)
(* finds init READY, and init is READY because it never makes a syscall.   *)
(* NoLostSleeper needs in addition that ring 3 code only runs after a tick.*)
(***************************************************************************)
BootInv == cpu = "boot" => /\ current_process = NoProc
                           /\ state[0] = "READY"
                           /\ \A p \in Pid \ {0} : state[p] = "UNUSED"
                           /\ ~inService
RunInv  == cpu # "boot" => /\ current_process \in Pid
                           /\ \A p \in Pid : state[p] = "RUNNING" <=> p = current_process
                           /\ current_process # 0 => state[0] = "READY" /\ ticked
WaitInv == saved[0] # "wait" /\ (cpu = "wait" => current_process # 0)
IndInv  == TypeOK /\ BootInv /\ RunInv /\ WaitInv /\ EoiOwed /\ NoLostSleeper

\* What a call of process_scheduler establishes for the next state.
SchedDone ==
  /\ state' \in [Pid -> States]
  /\ due' \in [Pid -> Nat \cup {NoWake}]
  /\ saved' \in [Pid -> Saved]
  /\ current_process' \in Pid
  /\ cpu' \in Saved
  /\ \A p \in Pid : state'[p] = "RUNNING" <=> p = current_process'
  /\ current_process' # 0 => state'[0] = "READY"
  /\ WaitInv'
  /\ NoLostSleeper'

(***************************************************************************)
(* process_scheduler called by a process that is RUNNING, or that has just *)
(* put itself to sleep or exited and is not init, leaves exactly the       *)
(* current process RUNNING and init READY unless it is the current one.    *)
(***************************************************************************)
LEMMA SchedulerSwitches ==
  ASSUME TypeOK, RunInv, WaitInv, cpu # "boot",
         NEW st \in [Pid -> States], NEW d \in [Pid -> Nat \cup {NoWake}],
         NEW from \in Saved,
         \A p \in Pid : p # current_process => st[p] = state[p],
         st[current_process] \in {"RUNNING", "BLOCKED", "ZOMBIE"},
         st[current_process] # "RUNNING" => current_process # 0,
         from = "wait" => current_process # 0,
         \A p \in Pid : st[p] = "BLOCKED" => d[p] # NoWake,
         process_scheduler(st, d, from)
  PROVE  SchedDone
<1> DEFINE awake == [p \in Pid |-> IF p \in Expired(st, d) THEN "READY" ELSE st[p]]
           me == current_process
<1>1. /\ 0 \in Pid /\ me \in Pid
      /\ \A p \in Pid : state[p] = "RUNNING" <=> p = me
      /\ me # 0 => state[0] = "READY"
  BY SizeAssumption DEF Pid, RunInv
<1>2. /\ awake \in [Pid -> States]
      /\ \A p \in Pid : awake[p] = "RUNNING" <=> p = me /\ st[me] = "RUNNING"
      /\ me # 0 => awake[0] = "READY"
      /\ \A p \in Pid : awake[p] = "BLOCKED" => st[p] = "BLOCKED" /\ p \notin Expired(st, d)
      /\ me = 0 => awake[me] = "RUNNING"
  BY <1>1 DEF Expired, States
<1>3. /\ due' = [p \in Pid |-> IF p \in Expired(st, d) THEN NoWake ELSE d[p]]
      /\ \/ /\ StaysHere(awake)
            /\ state' = awake
            /\ cpu' = from
            /\ UNCHANGED <<current_process, saved>>
         \/ \E n \in Pid \ {me} : IsNext(awake, n) /\ SwitchTo(awake, n, from)
  BY DEF process_scheduler
<1>4. due' \in [Pid -> Nat \cup {NoWake}]
  BY <1>3
<1>5. \A p \in Pid : awake[p] = "BLOCKED" => due'[p] # NoWake
  BY <1>2, <1>3
<1> HIDE DEF awake
<1>6. CASE /\ StaysHere(awake)
           /\ state' = awake
           /\ cpu' = from
           /\ UNCHANGED <<current_process, saved>>
  <2>1. me = 0
    <3>1. SUFFICES ASSUME me # 0 PROVE FALSE
      OBVIOUS
    <3>2. IsNext(awake, me) /\ awake[0] = "READY"
      BY <1>1, <1>2, <1>6, <3>1 DEF StaysHere
    <3>3. Distance(me) <= Distance(0)
      BY <1>1, <3>2 DEF IsNext
    <3> QED
      BY <1>1, <3>1, <3>3, SizeAssumption DEF Distance, Pid, NoProc
  <2> QED
    BY <1>1, <1>2, <1>4, <1>5, <1>6, <2>1 DEF SchedDone, WaitInv, NoLostSleeper, TypeOK
<1>7. CASE \E n \in Pid \ {me} : IsNext(awake, n) /\ SwitchTo(awake, n, from)
  <2>1. PICK n \in Pid \ {me} : IsNext(awake, n) /\ SwitchTo(awake, n, from)
    BY <1>7
  <2>2. /\ awake[n] = "READY"
        /\ state' = [p \in Pid |-> CASE p = n -> "RUNNING"
                               [] p = me /\ awake[p] = "RUNNING" -> "READY"
                               [] OTHER -> awake[p]]
        /\ current_process' = n
        /\ saved' = [p \in Pid |-> IF p = me THEN from ELSE saved[p]]
        /\ cpu' = saved[n]
    BY <2>1 DEF IsNext, SwitchTo
  <2>3. /\ state' \in [Pid -> States]
        /\ \A p \in Pid : state'[p] = "RUNNING" <=> p = n
        /\ \A p \in Pid : state'[p] = "BLOCKED" => awake[p] = "BLOCKED"
    BY <1>1, <1>2, <2>2 DEF States
  <2>4. n # 0 => state'[0] = "READY"
    BY <1>1, <1>2, <2>2
  <2>5. saved' \in [Pid -> Saved] /\ cpu' \in Saved
    BY <1>1, <2>1, <2>2 DEF TypeOK
  <2>6. WaitInv'
    BY <1>1, <2>1, <2>2 DEF WaitInv, TypeOK
  <2> QED
    BY <1>4, <1>5, <2>2, <2>3, <2>4, <2>5, <2>6 DEF SchedDone, NoLostSleeper
<1> QED
  BY <1>3, <1>6, <1>7

(***************************************************************************)
(* process_scheduler never loses the EOI: a preempted READY process either *)
(* stays READY or gets the processor; so does the caller when it is itself *)
(* in the timer interrupt and still RUNNING.                               *)
(***************************************************************************)
LEMMA SchedulerKeepsEoi ==
  ASSUME TypeOK, current_process \in Pid,
         NEW st \in [Pid -> States], NEW d, NEW from \in Saved,
         \A p \in Pid : p # current_process => st[p] = state[p],
         process_scheduler(st, d, from),
         \/ from = "irq" /\ st[current_process] = "RUNNING"
         \/ \E p \in Pid \ {current_process} : state[p] = "READY" /\ saved[p] = "irq"
  PROVE  \/ cpu' = "irq"
         \/ \E p \in Pid \ {current_process'} : state'[p] = "READY" /\ saved'[p] = "irq"
<1> DEFINE awake == [p \in Pid |-> IF p \in Expired(st, d) THEN "READY" ELSE st[p]]
           me == current_process
<1>1. /\ \A p \in Pid : st[p] = "READY" => awake[p] = "READY"
      /\ st[me] = "RUNNING" => awake[me] = "RUNNING"
  BY DEF Expired
<1>2. \/ /\ state' = awake
         /\ cpu' = from
         /\ UNCHANGED <<current_process, saved>>
      \/ \E n \in Pid \ {me} : SwitchTo(awake, n, from)
  BY DEF process_scheduler
<1> HIDE DEF awake
<1>3. CASE /\ state' = awake
           /\ cpu' = from
           /\ UNCHANGED <<current_process, saved>>
  BY <1>1, <1>3
<1>4. CASE \E n \in Pid \ {me} : SwitchTo(awake, n, from)
  <2>1. PICK n \in Pid \ {me} : SwitchTo(awake, n, from)
    BY <1>4
  <2>2. /\ state' = [p \in Pid |-> CASE p = n -> "RUNNING"
                               [] p = me /\ awake[p] = "RUNNING" -> "READY"
                               [] OTHER -> awake[p]]
        /\ current_process' = n
        /\ saved' = [p \in Pid |-> IF p = me THEN from ELSE saved[p]]
        /\ cpu' = saved[n]
    BY <2>1 DEF SwitchTo
  <2>3. CASE from = "irq" /\ st[me] = "RUNNING"
    BY <1>1, <2>1, <2>2, <2>3
  <2>4. CASE \E p \in Pid \ {me} : state[p] = "READY" /\ saved[p] = "irq"
    <3>1. PICK p \in Pid \ {me} : state[p] = "READY" /\ saved[p] = "irq"
      BY <2>4
    <3>2. CASE p = n
      BY <2>2, <3>1, <3>2
    <3>3. CASE p # n
      BY <1>1, <2>2, <3>1, <3>3
    <3> QED
      BY <3>2, <3>3
  <2> QED
    BY <2>3, <2>4
<1> QED
  BY <1>2, <1>3, <1>4

-----------------------------------------------------------------------------
(***************************************************************************)
(* The state kernel_main leaves satisfies the invariant.                   *)
(***************************************************************************)
LEMMA InitInd == Init => IndInv
<1> SUFFICES ASSUME Init PROVE IndInv
  OBVIOUS
<1>1. 0 \in Pid
  BY SizeAssumption DEF Pid
<1>2. state \in [Pid -> States] /\ saved \in [Pid -> Saved] /\ cpu \in Places
  BY DEF Init, States, Saved, Places
<1>3. ppid \in [Pid -> Pid \cup {NoProc}] /\ due \in [Pid -> Nat \cup {NoWake}]
  BY <1>1 DEF Init
<1>4. phase \in 0 .. scheduler_interval - 1
  BY IntervalAssumption DEF Init
<1>5. TypeOK
  BY <1>2, <1>3, <1>4 DEF Init, TypeOK
<1> QED
  BY <1>1, <1>5 DEF Init, IndInv, BootInv, RunInv, WaitInv, EoiOwed, NoLostSleeper

(***************************************************************************)
(* A step that calls the scheduler from a ring 3 process or from the timer *)
(* preserves the invariant, given what the rest of the step does.          *)
(***************************************************************************)
LEMMA SchedulerInd ==
  ASSUME IndInv, cpu # "boot",
         NEW st \in [Pid -> States], NEW d \in [Pid -> Nat \cup {NoWake}],
         NEW from \in Saved,
         \A p \in Pid : p # current_process => st[p] = state[p],
         st[current_process] \in {"RUNNING", "BLOCKED", "ZOMBIE"},
         st[current_process] # "RUNNING" => current_process # 0,
         from = "wait" => current_process # 0,
         \A p \in Pid : st[p] = "BLOCKED" => d[p] # NoWake,
         process_scheduler(st, d, from),
         ppid' = ppid, phase' \in 0 .. scheduler_interval - 1,
         ticked' \in BOOLEAN, inService' \in BOOLEAN,
         current_process # 0 => ticked', current_process = 0 => ticked',
         inService' => \/ from = "irq" /\ st[current_process] = "RUNNING"
                       \/ inService /\ cpu # "irq"
  PROVE  IndInv'
<1>1. current_process \in Pid
  BY DEF IndInv, RunInv
<1>2. SchedDone
  BY SchedulerSwitches DEF IndInv
<1>3. TypeOK'
  BY <1>2 DEF SchedDone, IndInv, TypeOK, Places
<1>4. cpu' # "boot"
  BY <1>2 DEF SchedDone, Saved
<1>5. BootInv' /\ RunInv'
  BY <1>1, <1>2, <1>4 DEF SchedDone, BootInv, RunInv
<1>6. EoiOwed'
  <2>1. SUFFICES ASSUME inService'
                 PROVE  \/ cpu' = "irq"
                        \/ \E p \in Pid \ {current_process'} :
                             state'[p] = "READY" /\ saved'[p] = "irq"
    BY DEF EoiOwed
  <2>2. \/ from = "irq" /\ st[current_process] = "RUNNING"
        \/ \E p \in Pid \ {current_process} : state[p] = "READY" /\ saved[p] = "irq"
    BY <2>1 DEF IndInv, EoiOwed
  <2> QED
    BY <1>1, <2>2, SchedulerKeepsEoi DEF IndInv
<1> QED
  BY <1>2, <1>3, <1>5, <1>6 DEF SchedDone, IndInv

(***************************************************************************)
(* Every step of the kernel preserves the invariant.                       *)
(***************************************************************************)
LEMMA NextInd == IndInv /\ [Next]_vars => IndInv'
<1> SUFFICES ASSUME IndInv, [Next]_vars PROVE IndInv'
  OBVIOUS
<1> USE SizeAssumption
<1>0. 0 \in Pid
  BY DEF Pid
<1>1. CASE boot_schedule
  <2> DEFINE awake == [p \in Pid |-> IF p \in Expired(state, due) THEN "READY" ELSE state[p]]
  <2>1. /\ current_process = NoProc /\ NoProc \notin Pid
        /\ state[0] = "READY" /\ \A p \in Pid \ {0} : state[p] = "UNUSED"
        /\ ~inService
    BY <1>1 DEF boot_schedule, IndInv, BootInv, NoProc, Pid
  <2>2. /\ awake = state
        /\ due' = due
    BY <1>1, <2>1 DEF boot_schedule, process_scheduler, Expired, IndInv, TypeOK
  <2>3. PICK n \in Pid : IsNext(state, n) /\ SwitchTo(state, n, "sys")
    BY <1>0, <1>1, <2>1, <2>2 DEF boot_schedule, process_scheduler, StaysHere
  <2>4. n = 0
    BY <2>1, <2>3 DEF IsNext
  <2>5. /\ state' = [p \in Pid |-> IF p = 0 THEN "RUNNING" ELSE state[p]]
        /\ current_process' = 0
        /\ saved' = saved
        /\ cpu' = saved[0]
    BY <2>1, <2>3, <2>4 DEF SwitchTo, IndInv, TypeOK
  <2>6. /\ UNCHANGED <<ppid, inService, phase, ticked>>
        /\ cpu' \in Saved
    BY <1>0, <1>1, <2>5 DEF boot_schedule, IndInv, TypeOK
  <2>7. TypeOK'
    BY <1>0, <2>2, <2>5, <2>6 DEF IndInv, TypeOK, States, Places
  <2> QED
    BY <1>0, <2>1, <2>2, <2>5, <2>6, <2>7
    DEF IndInv, BootInv, RunInv, WaitInv, EoiOwed, NoLostSleeper, Saved
<1>2. CASE timer_handler
  <2>1. /\ cpu = "user" /\ ~inService /\ ticked' = TRUE /\ ppid' = ppid
        /\ phase' = (phase + 1) % scheduler_interval
    BY <1>2 DEF timer_handler
  <2>2. phase' \in 0 .. scheduler_interval - 1
    BY <2>1, IntervalAssumption DEF IndInv, TypeOK
  <2>3. /\ Elapse(due) \in [Pid -> Nat \cup {NoWake}]
        /\ \A p \in Pid : due[p] # NoWake => Elapse(due)[p] # NoWake
    BY DEF Elapse, IndInv, TypeOK, NoWake
  <2>4. CASE /\ phase' # 0
             /\ due' = Elapse(due)
             /\ UNCHANGED <<state, saved, current_process, cpu, inService>>
    BY <2>1, <2>2, <2>3, <2>4
    DEF IndInv, TypeOK, BootInv, RunInv, WaitInv, EoiOwed, NoLostSleeper
  <2>5. CASE /\ phase' = 0
             /\ process_scheduler(state, Elapse(due), "irq")
             /\ inService' = TRUE
    <3>1. /\ state \in [Pid -> States] /\ state[current_process] = "RUNNING"
          /\ \A p \in Pid : state[p] = "BLOCKED" => Elapse(due)[p] # NoWake
      BY <2>1, <2>3 DEF IndInv, TypeOK, RunInv, NoLostSleeper
    <3> QED
      BY <2>1, <2>2, <2>3, <2>5, <3>1, SchedulerInd DEF Saved
  <2> QED
    BY <1>2, <2>4, <2>5 DEF timer_handler
<1>3. CASE isr_return
  BY <1>3 DEF isr_return, IndInv, TypeOK, BootInv, RunInv, WaitInv, EoiOwed, NoLostSleeper, Places
<1>4. CASE kernel_return
  BY <1>4 DEF kernel_return, IndInv, TypeOK, BootInv, RunInv, WaitInv, EoiOwed, NoLostSleeper, Places
<1>5. CASE process_create
  <2>1. PICK p \in Pid : /\ state[p] = "UNUSED"
                         /\ state' = [state EXCEPT ![p] = "READY"]
                         /\ ppid' = [ppid EXCEPT ![p] = Me]
                         /\ due' = [due EXCEPT ![p] = NoWake]
                         /\ saved' = [saved EXCEPT ![p] = "fresh"]
    BY <1>5 DEF process_create, FreeSlot
  <2>2. /\ cpu = "user" /\ current_process = 0
        /\ UNCHANGED <<current_process, cpu, inService, phase, ticked>>
    BY <1>5 DEF process_create, Me
  <2> QED
    BY <1>0, <2>1, <2>2
    DEF Me, IndInv, TypeOK, BootInv, RunInv, WaitInv, EoiOwed, NoLostSleeper, States, Saved
<1>6. CASE \E p \in Pid : process_wake(p)
  BY <1>6 DEF process_wake, Me, IndInv, TypeOK, BootInv, RunInv, WaitInv, EoiOwed, NoLostSleeper, States
<1>7. CASE process_fork
  <2>1. PICK p \in Pid : /\ state[p] = "UNUSED"
                         /\ state' = [state EXCEPT ![p] = "READY"]
                         /\ ppid' = [ppid EXCEPT ![p] = Me]
                         /\ due' = [due EXCEPT ![p] = due[Me]]
                         /\ saved' = [saved EXCEPT ![p] = saved[Me]]
    BY <1>7 DEF process_fork, FreeSlot
  <2>2. /\ cpu = "user" /\ current_process # 0
        /\ UNCHANGED <<current_process, cpu, inService, phase, ticked>>
    BY <1>7 DEF process_fork, UserRuns, Me
  <2>3. current_process \in Pid /\ state[0] = "READY"
    BY <2>2 DEF IndInv, RunInv
  <2>4. TypeOK'
    BY <2>1, <2>2, <2>3 DEF Me, IndInv, TypeOK, States, Saved
  <2> QED
    BY <1>0, <2>1, <2>2, <2>3, <2>4
    DEF Me, IndInv, TypeOK, BootInv, RunInv, WaitInv, EoiOwed, NoLostSleeper
<1>8. CASE process_exit
  <2> DEFINE st == [state EXCEPT ![current_process] = "ZOMBIE"]
  <2>1. /\ cpu = "user" /\ current_process # 0 /\ process_scheduler(st, due, "sys")
        /\ UNCHANGED <<ppid, inService, phase, ticked>>
    BY <1>8 DEF process_exit, UserRuns, Me
  <2>2. current_process \in Pid /\ ticked
    BY <2>1 DEF IndInv, RunInv
  <2>3. /\ st \in [Pid -> States] /\ st[current_process] = "ZOMBIE"
        /\ \A p \in Pid : p # current_process => st[p] = state[p]
        /\ \A p \in Pid : st[p] = "BLOCKED" => due[p] # NoWake
    BY <2>2 DEF IndInv, TypeOK, States, NoLostSleeper
  <2>4. due \in [Pid -> Nat \cup {NoWake}] /\ phase \in 0 .. scheduler_interval - 1
        /\ inService \in BOOLEAN
    BY DEF IndInv, TypeOK
  <2> HIDE DEF st
  <2> QED
    BY <2>1, <2>2, <2>3, <2>4, SchedulerInd DEF Saved
<1>9. CASE \E ms \in Sleeps : process_sleep(ms)
  <2>1. PICK ms \in Sleeps : process_sleep(ms)
    BY <1>9
  <2> DEFINE st == [state EXCEPT ![current_process] = "BLOCKED"]
             d  == [due EXCEPT ![current_process] = IF ~ticked /\ ms = 0 THEN NoWake ELSE ms]
  <2>2. /\ cpu = "user" /\ current_process # 0 /\ process_scheduler(st, d, "sys")
        /\ UNCHANGED <<ppid, inService, phase, ticked>>
    BY <2>1 DEF process_sleep, UserRuns, Me
  <2>3. current_process \in Pid /\ ticked
    BY <2>2 DEF IndInv, RunInv
  <2>4. /\ st \in [Pid -> States] /\ st[current_process] = "BLOCKED"
        /\ \A p \in Pid : p # current_process => st[p] = state[p]
        /\ d \in [Pid -> Nat \cup {NoWake}]
        /\ \A p \in Pid : st[p] = "BLOCKED" => d[p] # NoWake
    BY <2>3, SleepsAssumption DEF IndInv, TypeOK, States, NoLostSleeper, NoWake
  <2>5. phase \in 0 .. scheduler_interval - 1 /\ inService \in BOOLEAN
    BY DEF IndInv, TypeOK
  <2> HIDE DEF st, d
  <2> QED
    BY <2>2, <2>3, <2>4, <2>5, SchedulerInd DEF Saved
<1>10. CASE process_yield
  <2>1. /\ cpu = "user" /\ current_process # 0 /\ process_scheduler(state, due, "sys")
        /\ UNCHANGED <<ppid, inService, phase, ticked>>
    BY <1>10 DEF process_yield, UserRuns, Me
  <2>2. /\ ticked /\ state[current_process] = "RUNNING"
        /\ state \in [Pid -> States] /\ due \in [Pid -> Nat \cup {NoWake}]
        /\ phase \in 0 .. scheduler_interval - 1 /\ inService \in BOOLEAN
        /\ \A p \in Pid : state[p] = "BLOCKED" => due[p] # NoWake
    BY <2>1 DEF IndInv, RunInv, TypeOK, NoLostSleeper
  <2> QED
    BY <2>1, <2>2, SchedulerInd DEF Saved
<1>11. CASE sys_wait
  <2>1. /\ cpu \in {"user", "wait"} /\ current_process # 0
        /\ UNCHANGED <<ppid, inService, phase, ticked>>
    BY <1>11 DEF sys_wait, UserRuns, Me, IndInv, WaitInv
  <2>2. /\ current_process \in Pid /\ ticked /\ state[current_process] = "RUNNING"
        /\ state[0] = "READY"
        /\ state \in [Pid -> States] /\ due \in [Pid -> Nat \cup {NoWake}]
        /\ phase \in 0 .. scheduler_interval - 1 /\ inService \in BOOLEAN
        /\ \A p \in Pid : state[p] = "BLOCKED" => due[p] # NoWake
    BY <2>1 DEF IndInv, RunInv, TypeOK, NoLostSleeper
  <2>3. CASE \E z \in Pid : /\ state[z] = "ZOMBIE"
                            /\ state' = [state EXCEPT ![z] = "UNUSED"]
                            /\ cpu' = "user"
                            /\ UNCHANGED <<due, saved, current_process>>
    BY <2>1, <2>2, <2>3
    DEF IndInv, TypeOK, BootInv, RunInv, WaitInv, EoiOwed, NoLostSleeper, States, Places
  <2>4. CASE cpu' = "user" /\ UNCHANGED <<state, due, saved, current_process>>
    BY <2>1, <2>2, <2>4
    DEF IndInv, TypeOK, BootInv, RunInv, WaitInv, EoiOwed, NoLostSleeper, Places
  <2>5. CASE process_scheduler(state, due, "wait")
    BY <2>1, <2>2, <2>5, SchedulerInd DEF Saved
  <2> QED
    BY <1>11, <2>3, <2>4, <2>5 DEF sys_wait
<1>12. CASE UNCHANGED vars
  BY <1>12 DEF vars, IndInv, TypeOK, BootInv, RunInv, WaitInv, EoiOwed, NoLostSleeper
<1> QED
  BY <1>1, <1>2, <1>3, <1>4, <1>5, <1>6, <1>7, <1>8, <1>9, <1>10, <1>11, <1>12 DEF Next

-----------------------------------------------------------------------------
(***************************************************************************)
(* The invariant holds in every reachable state of the process table.      *)
(***************************************************************************)
THEOREM IndInvHolds == Spec => []IndInv
<1>1. Init => IndInv
  BY InitInd
<1>2. IndInv /\ [Next]_vars => IndInv'
  BY NextInd
<1> QED
  BY <1>1, <1>2, PTL DEF Spec

(***************************************************************************)
(* The process table, the scheduler's variables and the clock keep their   *)
(* types, for every table size.                                            *)
(***************************************************************************)
THEOREM TypeCorrect == Spec => []TypeOK
<1>1. IndInv => TypeOK
  BY DEF IndInv
<1> QED
  BY <1>1, IndInvHolds, PTL

(***************************************************************************)
(* After the first schedule exactly one process is RUNNING, the current    *)
(* one: no early return of process_scheduler leaves a sleeper or a zombie  *)
(* on the processor.                                                       *)
(***************************************************************************)
THEOREM OneRunning == Spec => []ExactlyOneRunning
<1>1. IndInv => ExactlyOneRunning
  BY DEF IndInv, RunInv, ExactlyOneRunning
<1> QED
  BY <1>1, IndInvHolds, PTL

(***************************************************************************)
(* An interrupt in service is always owed its EOI by a process that can    *)
(* still run: isr_handler's late irq_send_eoi is never lost.               *)
(***************************************************************************)
THEOREM EoiNeverLost == Spec => []EoiOwed
<1>1. IndInv => EoiOwed
  BY DEF IndInv
<1> QED
  BY <1>1, IndInvHolds, PTL

(***************************************************************************)
(* Every process that process_sleep blocks has a wake time the scheduler   *)
(* will accept.                                                            *)
(***************************************************************************)
THEOREM SleepersHaveWakeTime == Spec => []NoLostSleeper
<1>1. IndInv => NoLostSleeper
  BY DEF IndInv
<1> QED
  BY <1>1, IndInvHolds, PTL
=============================================================================
