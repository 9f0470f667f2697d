------------------------------ MODULE KProcess ------------------------------
(***************************************************************************)
(* The process table of the kernel: kernel/process.c (create, fork, exit,  *)
(* sleep, the round-robin scheduler), the process syscalls of              *)
(* kernel/syscall.c, the timer interrupt of kernel/timer.c and its         *)
(* dispatch and end-of-interrupt in kernel/idt.c.                          *)
(*                                                                         *)
(* Interrupts.  SYSCALL clears IF (SFMASK), an interrupt gate clears IF,   *)
(* and both restore it when they return, so a timer tick is taken only     *)
(* while the CPU runs outside the kernel (cpu = "user"; for init, which    *)
(* runs the shell in ring 0, "user" is the shell itself) and while the PIC *)
(* has no timer interrupt in service.  isr_handler sends the EOI after     *)
(* timer_handler returns, that is after any context switch the handler     *)
(* made: the EOI is owed by the process that was preempted.                *)
(*                                                                         *)
(* Control.  saved[p] is the place at which context_switch left p (what    *)
(* saved_rsp points at) and cpu the place the processor is at.  A new      *)
(* process enters user mode through process_trampoline, as the comment of  *)
(* process_create has it ("fresh"); a fork child has a copy of its         *)
(* parent's saved_rsp, so it resumes where the parent was left last, not   *)
(* where it forked.  Module KContext models the stack words themselves;    *)
(* that parent and child then write to one kernel stack is left out.       *)
(*                                                                         *)
(* Time.  wake_time is kept relative to timer_ticks: due[p] = NoWake       *)
(* stands for wake_time = 0 and due[p] = k for wake_time - ticks, cut off  *)
(* at 0 once it has passed, so the clock itself needs no bound.            *)
(***************************************************************************)
EXTENDS Integers

CONSTANTS MAX_PROCESSES,       \* slots of the process table
          scheduler_interval,  \* ticks between two calls of the scheduler
          Sleeps               \* the durations given to sys_sleep

ASSUME SizeAssumption == MAX_PROCESSES \in Nat /\ MAX_PROCESSES > 1
ASSUME IntervalAssumption == scheduler_interval \in Nat \ {0}
ASSUME SleepsAssumption == Sleeps \subseteq Nat

Pid    == 0 .. MAX_PROCESSES - 1
NoProc == -1
NoWake == -1
States == {"UNUSED", "READY", "RUNNING", "BLOCKED", "ZOMBIE"}
Saved  == {"fresh", "irq", "sys", "wait"}
Places == Saved \cup {"user", "boot"}

VARIABLES state,            \* processes[p].state
          ppid,             \* processes[p].ppid
          due,              \* processes[p].wake_time, relative to timer_ticks
          saved,            \* the control point processes[p].saved_rsp holds
          current_process,
          cpu,              \* the control point of the processor
          inService,        \* IRQ 0 is in service in the PIC: no EOI sent yet
          phase,            \* timer_ticks % scheduler_interval
          ticked            \* timer_ticks > 0

vars == <<state, ppid, due, saved, current_process, cpu, inService, phase, ticked>>

TypeOK ==
  /\ state \in [Pid -> States]
  /\ ppid \in [Pid -> Pid \cup {NoProc}]
  /\ due \in [Pid -> Nat \cup {NoWake}]
  /\ saved \in [Pid -> Saved]
  /\ current_process \in Pid \cup {NoProc}
  /\ cpu \in Places
  /\ inService \in BOOLEAN
  /\ phase \in 0 .. scheduler_interval - 1
  /\ ticked \in BOOLEAN

(***************************************************************************)
(* kernel_main: process_init, then process_create(init_main, RING0) while  *)
(* current_process is still -1 and interrupts are off.                     *)
(***************************************************************************)
Init ==
  /\ state = [p \in Pid |-> IF p = 0 THEN "READY" ELSE "UNUSED"]
  /\ ppid = [p \in Pid |-> IF p = 0 THEN NoProc ELSE 0]
  /\ due = [p \in Pid |-> NoWake]
  /\ saved = [p \in Pid |-> "fresh"]
  /\ current_process = NoProc
  /\ cpu = "boot"
  /\ inService = FALSE
  /\ phase = 0
  /\ ticked = FALSE

-----------------------------------------------------------------------------
(***************************************************************************)
(* process_scheduler                                                       *)
(***************************************************************************)
\* The first loop: BLOCKED processes whose wake_time is set and has passed.
Expired(st, d) == {p \in Pid : st[p] = "BLOCKED" /\ d[p] = 0}

\* How far p is from the slot after current_process, where the search starts.
Distance(p) == LET start == IF current_process = NoProc THEN 0 ELSE current_process
               IN  IF p > start THEN p - start - 1 ELSE p - start - 1 + MAX_PROCESSES

\* Mutant: the search starts at the current slot instead of the one after it.
IsNext_lowest(st, n) == /\ st[n] = "READY"
                        /\ \A m \in Pid : st[m] = "READY" => n <= m

\* The second loop: n is the first READY slot of the round.
IsNext(st, n) == /\ st[n] = "READY"
                 /\ \A m \in Pid : st[m] = "READY" => Distance(n) <= Distance(m)

\* Mutant: the state of the previous process is not put back to READY.
SwitchTo_keeps_running(st, n, from) ==
  /\ state' = [st EXCEPT ![n] = "RUNNING"]
  /\ current_process' = n
  /\ saved' = [p \in Pid |-> IF p = current_process THEN from ELSE saved[p]]
  /\ cpu' = saved[n]

\* Switch the processor from the caller, which is left at the point "from".
SwitchTo(st, n, from) ==
  /\ state' = [p \in Pid |-> CASE p = n -> "RUNNING"
                               [] p = current_process /\ st[p] = "RUNNING" -> "READY"
                               [] OTHER -> st[p]]
  /\ current_process' = n
  /\ saved' = [p \in Pid |-> IF p = current_process THEN from ELSE saved[p]]
  /\ cpu' = saved[n]

\* next < 0 or next == current_process: the function returns to its caller.
StaysHere(st) == (\E p \in Pid : st[p] = "READY")
                   => current_process \in Pid /\ IsNext(st, current_process)

\* The whole function, called with the tables st and d and from the point "from".
process_scheduler(st, d, from) ==
  LET awake == [p \in Pid |-> IF p \in Expired(st, d) THEN "READY" ELSE st[p]]
  IN /\ due' = [p \in Pid |-> IF p \in Expired(st, d) THEN NoWake ELSE d[p]]
     /\ \/ /\ StaysHere(awake)
           /\ state' = awake
           /\ cpu' = from
           /\ UNCHANGED <<current_process, saved>>
        \/ \E n \in Pid \ {current_process} :
              IsNext(awake, n) /\ SwitchTo(awake, n, from)

\* kernel_main: sti and the first call of the scheduler.
boot_schedule ==
  /\ cpu = "boot"
  /\ process_scheduler(state, due, "sys")
  /\ UNCHANGED <<ppid, inService, phase, ticked>>

-----------------------------------------------------------------------------
(***************************************************************************)
(* The timer interrupt and the returns from the kernel                     *)
(***************************************************************************)
\* Mutant: the remaining time runs on below zero, past "not set".
Elapse_unchecked(d) == [p \in Pid |-> d[p] - 1]

\* timer_ticks++, seen from the relative wake times.
Elapse(d) == [p \in Pid |-> IF d[p] > 0 THEN d[p] - 1 ELSE d[p]]

\* timer_handler: on a tick that is not a scheduling one the EOI follows at once.
timer_handler ==
  /\ cpu = "user" /\ ~inService
  /\ ticked' = TRUE
  /\ phase' = (phase + 1) % scheduler_interval
  /\ \/ /\ phase' # 0
        /\ due' = Elapse(due)
        /\ UNCHANGED <<state, saved, current_process, cpu, inService>>
     \/ /\ phase' = 0
        /\ process_scheduler(state, Elapse(due), "irq")
        /\ inService' = TRUE
  /\ UNCHANGED ppid

\* Mutant: the handler returns without irq_send_eoi.
isr_return_no_eoi ==
  /\ cpu = "irq"
  /\ cpu' = "user"
  /\ UNCHANGED <<state, ppid, due, saved, current_process, inService, phase, ticked>>

\* isr_handler after timer_handler: irq_send_eoi(0), then iretq sets IF again.
isr_return ==
  /\ cpu = "irq"
  /\ inService' = FALSE
  /\ cpu' = "user"
  /\ UNCHANGED <<state, ppid, due, saved, current_process, phase, ticked>>

\* A fresh process leaves the trampoline; a syscall that yielded returns.
kernel_return ==
  /\ cpu \in {"fresh", "sys"}
  /\ cpu' = "user"
  /\ UNCHANGED <<state, ppid, due, saved, current_process, inService, phase, ticked>>

-----------------------------------------------------------------------------
(***************************************************************************)
(* The operations of the running process                                   *)
(***************************************************************************)
Me == current_process
\* init runs the shell in ring 0 and makes no syscall; the others are ring 3.
UserRuns == cpu = "user" /\ Me # 0
FreeSlot(p) == state[p] = "UNUSED" /\ \A q \in Pid : state[q] = "UNUSED" => p <= q

\* Ring 0 code creates a ring 3 process (interrupts off, as in kernel_main).
process_create ==
  /\ cpu = "user" /\ Me = 0
  /\ \E p \in Pid :
       /\ FreeSlot(p)
       /\ state' = [state EXCEPT ![p] = "READY"]
       /\ ppid' = [ppid EXCEPT ![p] = Me]
       /\ due' = [due EXCEPT ![p] = NoWake]
       /\ saved' = [saved EXCEPT ![p] = "fresh"]
  /\ UNCHANGED <<current_process, cpu, inService, phase, ticked>>

\* Ring 0 code wakes a sleeper early; wake_time keeps its old value.
process_wake(p) ==
  /\ cpu = "user" /\ Me = 0
  /\ state[p] = "BLOCKED"
  /\ state' = [state EXCEPT ![p] = "READY"]
  /\ UNCHANGED <<ppid, due, saved, current_process, cpu, inService, phase, ticked>>

\* sys_fork, process_fork: the child's table entry is a copy of the parent's, with
\* its wake_time and its saved_rsp.
process_fork ==
  /\ UserRuns
  /\ \E p \in Pid :
       /\ FreeSlot(p)
       /\ state' = [state EXCEPT ![p] = "READY"]
       /\ ppid' = [ppid EXCEPT ![p] = Me]
       /\ due' = [due EXCEPT ![p] = due[Me]]
       /\ saved' = [saved EXCEPT ![p] = saved[Me]]
  /\ UNCHANGED <<current_process, cpu, inService, phase, ticked>>

\* sys_exit, process_exit: ZOMBIE, then the scheduler takes the processor.
process_exit ==
  /\ UserRuns
  /\ process_scheduler([state EXCEPT ![Me] = "ZOMBIE"], due, "sys")
  /\ UNCHANGED <<ppid, inService, phase, ticked>>

\* sys_sleep, process_sleep: wake_time = timer_ticks + ms.
process_sleep(ms) ==
  /\ UserRuns
  /\ process_scheduler([state EXCEPT ![Me] = "BLOCKED"],
                       [due EXCEPT ![Me] = IF ~ticked /\ ms = 0 THEN NoWake ELSE ms], "sys")
  /\ UNCHANGED <<ppid, inService, phase, ticked>>

\* sys_yield, process_yield.
process_yield ==
  /\ UserRuns
  /\ process_scheduler(state, due, "sys")
  /\ UNCHANGED <<ppid, inService, phase, ticked>>

\* sys_wait, entered from user mode or resumed after its process_yield.  One
\* turn of its loop: reap the first zombie child, or fail, or yield and retry.
sys_wait ==
  LET zombies  == {p \in Pid : ppid[p] = Me /\ state[p] = "ZOMBIE"}
      children == {p \in Pid : ppid[p] = Me /\ state[p] \notin {"UNUSED", "ZOMBIE"}}
  IN /\ UserRuns \/ cpu = "wait"
     /\ \/ \E z \in zombies :
             /\ \A y \in zombies : z <= y
             /\ state' = [state EXCEPT ![z] = "UNUSED"]
             /\ cpu' = "user"
             /\ UNCHANGED <<due, saved, current_process>>
        \/ /\ zombies = {} /\ children = {}
           /\ cpu' = "user"
           /\ UNCHANGED <<state, due, saved, current_process>>
        \/ /\ zombies = {} /\ children # {}
           /\ process_scheduler(state, due, "wait")
     /\ UNCHANGED <<ppid, inService, phase, ticked>>

Next ==
  \/ boot_schedule
  \/ timer_handler
  \/ isr_return
  \/ kernel_return
  \/ process_create
  \/ \E p \in Pid : process_wake(p)
  \/ process_fork
  \/ process_exit
  \/ \E ms \in Sleeps : process_sleep(ms)
  \/ process_yield
  \/ sys_wait

Spec == Init /\ [][Next]_vars

(***************************************************************************)
(* Fairness.  The PIT keeps ticking and the processor keeps executing      *)
(* kernel code: the interrupt and the kernel's own steps are weakly fair.  *)
(* Cooperative adds that a ring 3 process gives up the processor sooner or *)
(* later (an assumption on the programs, which the code does not enforce). *)
(***************************************************************************)
Giveup == process_exit \/ process_yield \/ \E ms \in Sleeps : process_sleep(ms)
KernelFairness == /\ WF_vars(boot_schedule) /\ WF_vars(timer_handler)
                  /\ WF_vars(isr_return) /\ WF_vars(kernel_return)
                  /\ WF_vars(cpu = "wait" /\ sys_wait)
PreemptiveSpec  == Spec /\ KernelFairness
CooperativeSpec == PreemptiveSpec /\ WF_vars(Giveup)

-----------------------------------------------------------------------------
(***************************************************************************)
(* Once the scheduler has been entered, exactly one process is RUNNING and *)
(* it is current_process: process_scheduler's early returns never leave a  *)
(* sleeper or a zombie on the processor, because init is always READY when *)
(* another process runs.                                                   *)
(***************************************************************************)
ExactlyOneRunning ==
  cpu # "boot" => \A p \in Pid : state[p] = "RUNNING" <=> p = current_process

(***************************************************************************)
(* While a timer interrupt is in service, the process that owes the PIC    *)
(* its EOI is the running one or a READY one that was preempted: the EOI   *)
(* that isr_handler sends after the context switch is late, never lost.    *)
(***************************************************************************)
EoiOwed ==
  inService => \/ cpu = "irq"
               \/ \E p \in Pid \ {current_process} :
                     state[p] = "READY" /\ saved[p] = "irq"

(***************************************************************************)
(* A sleeping process has a wake time that the scheduler's test            *)
(* wake_time > 0 accepts: process_sleep(0) at tick 0 would sleep forever,  *)
(* and no ring 3 process runs before the first tick.                       *)
(***************************************************************************)
NoLostSleeper == \A p \in Pid : state[p] = "BLOCKED" => due[p] # NoWake

(***************************************************************************)
(* Round robin with cooperative processes: every process that is ready or  *)
(* asleep runs again.                                                      *)
(***************************************************************************)
EveryoneRuns ==
  \A p \in Pid : (state[p] \in {"READY", "BLOCKED"}) ~> (current_process = p)

(***************************************************************************)
(* README.md: "Round-robin, timer preemption".  Whatever ring 3 processes  *)
(* do, init (the shell) gets the processor again and again.                *)
(***************************************************************************)
InitKeepsRunning == []<>(current_process = 0)
=============================================================================
