------------------------------ MODULE KContext ------------------------------
(***************************************************************************)
(* Kernel stacks and context_switch, word by word (kernel/isr.asm,         *)
(* kernel/process.c): the frame process_create builds for a process that   *)
(* has never run, the frame context_switch leaves, and the registers and   *)
(* the return address that are popped from either.                         *)
(*                                                                         *)
(* stack[p] lists the words of p's kernel stack, the last one on top;      *)
(* saved_rsp[p] is the number of words below the saved stack pointer.      *)
(* rip is where the processor continues, regs the callee-saved registers.  *)
(* A word of zeros is "0".  A fork copies process_t and with it the        *)
(* parent's saved_rsp, so the child runs on the parent's stack (home[q] =  *)
(* home[p]).                                                               *)
(***************************************************************************)
EXTENDS Integers, Sequences

CONSTANTS Procs, NoProc, Values   \* register contents

Registers == <<"rbp", "rbx", "r12", "r13", "r14", "r15">>    \* in push order
Reg == {Registers[i] : i \in 1 .. 6}

VARIABLES stack, saved_rsp, home, created, current_process, regs, rip

vars == <<stack, saved_rsp, home, created, current_process, regs, rip>>

Init ==
  /\ stack = [p \in Procs |-> <<>>]
  /\ saved_rsp = [p \in Procs |-> 0]
  /\ home = [p \in Procs |-> p]
  /\ created = {}
  /\ current_process = NoProc
  /\ regs = [r \in Reg |-> "0"]
  /\ rip = "kernel_main"

\* process_create: six zeros are pushed, then the trampoline.
process_create(p) ==
  /\ p \notin created
  /\ created' = created \cup {p}
  /\ stack' = [stack EXCEPT ![p] = <<"0", "0", "0", "0", "0", "0", "process_trampoline">>]
  /\ saved_rsp' = [saved_rsp EXCEPT ![p] = 7]
  /\ home' = [home EXCEPT ![p] = p]
  /\ UNCHANGED <<current_process, regs, rip>>

\* process_fork of the running process
process_fork(q) ==
  /\ current_process # NoProc /\ q \notin created
  /\ created' = created \cup {q}
  /\ saved_rsp' = [saved_rsp EXCEPT ![q] = saved_rsp[current_process]]
  /\ home' = [home EXCEPT ![q] = home[current_process]]
  /\ UNCHANGED <<stack, current_process, regs, rip>>

\* The code of the running process changes the callee-saved registers.
work ==
  /\ current_process # NoProc /\ rip \in {"process_trampoline", "scheduler"}
  /\ \E r \in Reg, x \in Values : regs' = [regs EXCEPT ![r] = x]
  /\ UNCHANGED <<stack, saved_rsp, home, created, current_process, rip>>

\* What context_switch pushes on top of the return address of its call.
Frame == <<"scheduler">> \o [i \in 1 .. 6 |-> regs[Registers[i]]]

\* The stack of the running process after the pushes.  The first schedule has
\* no process to save.
Pushed == IF current_process = NoProc THEN stack
          ELSE [stack EXCEPT ![home[current_process]] = @ \o Frame]

\* process_scheduler's switch to q: r15, r14, r13, r12, rbx and rbp are popped,
\* then ret pops the address.
switch_to(q) ==
  LET s   == Pushed[home[q]]
      top == saved_rsp[q]
  IN /\ q \in created /\ q # current_process
     /\ rip # "0" /\ top >= 7 /\ top <= Len(s)
     /\ regs' = [r \in Reg |-> s[top - 6 + CHOOSE i \in 1 .. 6 : Registers[i] = r]]
     /\ rip' = s[top - 6]
     /\ stack' = [Pushed EXCEPT ![home[q]] = SubSeq(s, 1, top - 7)]
     /\ saved_rsp' = IF current_process = NoProc THEN saved_rsp
                     ELSE [saved_rsp EXCEPT ![current_process] = Len(Pushed[home[current_process]])]
     /\ current_process' = q
     /\ UNCHANGED <<home, created>>

Next == \/ \E p \in Procs : process_create(p) \/ process_fork(p) \/ switch_to(p)
        \/ work

Spec == Init /\ [][Next]_vars

(***************************************************************************)
(* process.c:336: "The return address must be process_trampoline so a      *)
(* fresh process enters user mode (or ring0 entry) on first schedule."     *)
(* Whenever a process runs, it continues in the trampoline or in the       *)
(* scheduler call it left.                                                 *)
(***************************************************************************)
FreshEntersTrampoline ==
  current_process # NoProc => rip \in {"process_trampoline", "scheduler"}
=============================================================================
