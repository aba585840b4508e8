----------------------------- MODULE Exceptions -----------------------------
(***************************************************************************)
(* How the processor enters and leaves the kernel: swihandler.S,           *)
(* irq_wrapper in int_asm.S and launch_task in ctx_switch_asm.S, with the  *)
(* context switches that happen inside.  An action is the instructions     *)
(* from one place where an interrupt can be taken to the next.             *)
(*                                                                         *)
(* A register holds the name of the task whose value is in it, or LOST for *)
(* a value that is no task's.  regs stands for r0-r12, ubank for the       *)
(* user-mode sp and lr, lr for lr_svc, which holds the return address of   *)
(* the system call.  The status registers are the mode they hold; an       *)
(* interrupted or calling program always had interrupts enabled.           *)
(*                                                                         *)
(* Programs do not get past the first wrong return: a task that runs in    *)
(* supervisor mode makes no further call here.  The model starts when      *)
(* task_create leaves main's stack for the first task; creating the tasks  *)
(* a second time is not in it.                                             *)
(***************************************************************************)
EXTENDS Integers, Sequences, SequencesExt

CONSTANTS
  Tasks,    \* the tasks of a task set
  TickAt    \* the places where ticks occur

\* user          in the task's code
\* launching     in launch_task, in user mode already
\* saved         in swihandler, interrupts enabled again (line 25)
\* bank_stored   user's sp and lr are stored below sp (line 33)
\* body          in C_SWI_handler
\* returned      back from it (line 36)
\* bank_loaded   user's sp and lr are loaded again (line 39)
\* bank_popped   and taken from the stack (line 40)
\* psr_restored  spsr is written (line 43)
\* popped        the user's registers are back, movs is next (line 47)
Places == {"user", "launching", "saved", "bank_stored", "body", "returned", "bank_loaded",
           "bank_popped", "psr_restored", "popped"}

\* The places where a tick does harm.
Windows == {"bank_stored", "psr_restored", "popped"}

ASSUME ExceptionsAssumption ==
  /\ Tasks \subseteq Nat \ {0}
  /\ TickAt \subseteq Places

LOST == 0
Modes == {"usr", "svc"}

VARIABLES
  cur,        \* the running task
  pc,         \* where it is; "resumed" when it has just been switched to
  irq,        \* interrupts are enabled
  mode,       \* the mode in cpsr
  spsr,       \* the mode in spsr_svc
  lr,         \* lr_svc
  regs,       \* r0-r12
  ubank,      \* sp and lr of user mode
  below,      \* for each task, the two words under its kernel sp
  stack,      \* for each task, the frames on its kernel stack
  suspended   \* for each task, the code that switched away from it

registers == <<lr, regs, ubank>>
vars == <<cur, pc, irq, mode, spsr, registers, below, stack, suspended>>

SwiFrame(r, l, m) == [regs |-> r, lr |-> l, psr |-> m]
BankFrame(b) == [ubank |-> b]
IrqFrame == [regs |-> regs, lr |-> lr, psr |-> mode, pc |-> pc, ubank |-> ubank]

\* task_create has laid out the contexts and dispatch_nosave has loaded one.
Init ==
  /\ cur \in Tasks
  /\ pc = "resumed"
  /\ irq = FALSE
  /\ mode = "svc"
  /\ spsr \in Modes
  /\ lr = LOST
  /\ regs = LOST
  /\ ubank = LOST
  /\ below = [t \in Tasks |-> LOST]
  /\ stack = [t \in Tasks |-> <<>>]
  /\ suspended = [t \in Tasks |-> "launch"]

Push(frame) == stack' = [stack EXCEPT ![cur] = Append(@, frame)]
Top == Last(stack[cur])
Pop == stack' = [stack EXCEPT ![cur] = Front(@)]

-----------------------------------------------------------------------------
(* swihandler.S *)

\* Mutant of swihandler: the caller's status is not saved (lines 19-20).
SwiWithoutPsr ==
  /\ pc = "user" /\ mode = "usr"
  /\ spsr' = mode
  /\ mode' = "svc"
  /\ lr' = cur
  /\ Push(SwiFrame(regs, lr', "none"))
  /\ regs' = LOST
  /\ pc' = "saved"
  /\ UNCHANGED <<cur, irq, ubank, below, suspended>>

\* The exception itself, and lines 10-25 with interrupts off.
swihandler ==
  /\ pc = "user" /\ mode = "usr"
  /\ spsr' = mode
  /\ mode' = "svc"
  /\ lr' = cur
  /\ Push(SwiFrame(regs, lr', spsr'))
  /\ regs' = LOST
  /\ pc' = "saved"
  /\ UNCHANGED <<cur, irq, ubank, below, suspended>>

\* Line 33, an stm without write-back.
store_bank ==
  /\ pc = "saved"
  /\ below' = [below EXCEPT ![cur] = ubank]
  /\ pc' = "bank_stored"
  /\ UNCHANGED <<cur, irq, mode, spsr, registers, stack, suspended>>

\* Lines 34-36: sp is lowered over the two words, and bl overwrites lr.
enter_body ==
  /\ pc = "bank_stored"
  /\ Push(BankFrame(below[cur]))
  /\ lr' = LOST
  /\ pc' = "body"
  /\ UNCHANGED <<cur, irq, mode, spsr, regs, ubank, below, suspended>>

\* C_SWI_handler returns; the early returns of task_create do not enable
\* interrupts again (proc.c:43-53,84).
body_return ==
  /\ pc = "body"
  /\ irq' \in BOOLEAN
  /\ pc' = "returned"
  /\ UNCHANGED <<cur, mode, spsr, registers, below, stack, suspended>>

\* Mutant of load_bank: the user's sp and lr are not loaded.
LoadNothing ==
  /\ pc = "returned"
  /\ pc' = "bank_loaded"
  /\ UNCHANGED <<cur, irq, mode, spsr, registers, below, stack, suspended>>

load_bank ==
  /\ pc = "returned"
  /\ ubank' = Top.ubank
  /\ pc' = "bank_loaded"
  /\ UNCHANGED <<cur, irq, mode, spsr, lr, regs, below, stack, suspended>>

pop_bank ==
  /\ pc = "bank_loaded"
  /\ Pop
  /\ pc' = "bank_popped"
  /\ UNCHANGED <<cur, irq, mode, spsr, registers, below, suspended>>

\* Mutant of restore_psr: spsr is left as it is.
RestoreNoPsr ==
  /\ pc = "bank_popped"
  /\ pc' = "psr_restored"
  /\ UNCHANGED <<cur, irq, mode, spsr, registers, below, stack, suspended>>

restore_psr ==
  /\ pc = "bank_popped"
  /\ spsr' = Top.psr
  /\ pc' = "psr_restored"
  /\ UNCHANGED <<cur, irq, mode, registers, below, stack, suspended>>

pop_registers ==
  /\ pc = "psr_restored"
  /\ regs' = Top.regs
  /\ lr' = Top.lr
  /\ Pop
  /\ pc' = "popped"
  /\ UNCHANGED <<cur, irq, mode, spsr, ubank, below, suspended>>

\* movs pc, lr
swi_return ==
  /\ pc = "popped"
  /\ mode' = spsr
  /\ irq' = TRUE
  /\ pc' = "user"
  /\ UNCHANGED <<cur, spsr, registers, below, stack, suspended>>

-----------------------------------------------------------------------------
(* ctx_switch_full and ctx_switch_asm.S *)

\* The registers are the switching code's now; the user bank is not switched.
SwitchTo(t, code) ==
  /\ cur' = t
  /\ suspended' = [suspended EXCEPT ![cur] = code]
  /\ pc' = "resumed"
  /\ irq' = FALSE
  /\ mode' = "svc"
  /\ regs' = LOST
  /\ lr' = LOST
  /\ UNCHANGED ubank

\* dispatch_sleep, or dispatch_save in mutex_unlock.
body_switch(t) ==
  /\ pc = "body"
  /\ SwitchTo(t, "body")
  /\ UNCHANGED <<spsr, below, stack>>

\* enable_interrupts at the end of the system call.
body_resume ==
  /\ pc = "resumed"
  /\ suspended[cur] = "body"
  /\ pc' = "body"
  /\ irq' = TRUE
  /\ UNCHANGED <<cur, mode, spsr, registers, below, stack, suspended>>

\* Up to the msr: the task's first registers, but not yet its sp.
launch_task ==
  /\ pc = "resumed"
  /\ suspended[cur] = "launch"
  /\ regs' = cur
  /\ mode' = "usr"
  /\ irq' = TRUE
  /\ pc' = "launching"
  /\ UNCHANGED <<cur, spsr, lr, ubank, below, stack, suspended>>

\* Lines 39-42: the user sp comes from r6.
launched ==
  /\ pc = "launching"
  /\ ubank' = regs
  /\ pc' = "user"
  /\ UNCHANGED <<cur, irq, mode, spsr, lr, regs, below, stack, suspended>>

-----------------------------------------------------------------------------
(* irq_wrapper in int_asm.S, which runs with interrupts off to its end *)

\* On entry spsr_svc is overwritten (line 39) and the frame written at sp, over
\* what is below it.
Interrupted ==
  /\ irq
  /\ pc \in TickAt
  /\ spsr' = mode
  /\ below' = [below EXCEPT ![cur] = LOST]

\* C_IRQ_handler dispatches nobody, and every register comes back.
irq_wrapper ==
  /\ Interrupted
  /\ UNCHANGED <<cur, pc, irq, mode, registers, stack, suspended>>

\* Mutant of irq_switch: the frame does not hold the user bank (line 53).
SwitchWithoutBank(t) ==
  /\ Interrupted
  /\ Push([IrqFrame EXCEPT !.ubank = LOST])
  /\ SwitchTo(t, "irq")

irq_switch(t) ==
  /\ Interrupted
  /\ Push(IrqFrame)
  /\ SwitchTo(t, "irq")

\* Mutant of irq_resume: the frame stays on the stack.
ResumeWithoutPop ==
  /\ pc = "resumed"
  /\ suspended[cur] = "irq"
  /\ ubank' = Top.ubank
  /\ spsr' = Top.psr
  /\ regs' = Top.regs
  /\ lr' = Top.lr
  /\ mode' = Top.psr
  /\ irq' = TRUE
  /\ pc' = Top.pc
  /\ UNCHANGED <<cur, below, stack, suspended>>

\* Lines 67-70.
irq_resume ==
  /\ pc = "resumed"
  /\ suspended[cur] = "irq"
  /\ ubank' = Top.ubank
  /\ spsr' = Top.psr
  /\ regs' = Top.regs
  /\ lr' = Top.lr
  /\ mode' = Top.psr
  /\ irq' = TRUE
  /\ pc' = Top.pc
  /\ Pop
  /\ UNCHANGED <<cur, below, suspended>>

-----------------------------------------------------------------------------
Swi ==
  \/ swihandler
  \/ store_bank
  \/ enter_body
  \/ body_return
  \/ load_bank
  \/ pop_bank
  \/ restore_psr
  \/ pop_registers
  \/ swi_return

Next ==
  \/ Swi
  \/ \E t \in Tasks \ {cur} : body_switch(t)
  \/ body_resume
  \/ launch_task
  \/ launched
  \/ irq_wrapper
  \/ \E t \in Tasks \ {cur} : irq_switch(t)
  \/ irq_resume

Spec == Init /\ [][Next]_vars

-----------------------------------------------------------------------------
(* Properties *)

TypeOK ==
  /\ cur \in Tasks
  /\ pc \in Places \cup {"resumed"}
  /\ irq \in BOOLEAN
  /\ mode \in Modes /\ spsr \in Modes
  /\ lr \in Tasks \cup {LOST} /\ regs \in Tasks \cup {LOST} /\ ubank \in Tasks \cup {LOST}
  /\ below \in [Tasks -> Tasks \cup {LOST}]
  /\ DOMAIN stack = Tasks
  /\ suspended \in [Tasks -> {"launch", "body", "irq"}]

\* A task's code runs in user mode: every way out of the kernel, whatever was
\* switched or interrupted on the way, restores the caller's status
\* (int_asm.S:34-38, ctx_switch_asm.S:28 "Upon completion, we should be in user mode.").
RunsInUserMode == pc \in {"user", "launching"} => mode = "usr"

\* A task finds its own registers, stack pointer and return address when it
\* runs on (swihandler.S:32,38 "Storing user's sp and lr", "restoring user's sp
\* and lr"), although one user bank and one spsr_svc serve all tasks.
FindsOwnRegisters ==
  /\ pc = "user" => regs = cur /\ ubank = cur
  /\ pc = "popped" => lr = cur

\* A kernel stack is empty whenever its task runs its own code, and holds at
\* most the frames of one system call and one interrupt: nothing nests deeper
\* (int_asm.S:22 "No nesting").
StacksBounded ==
  /\ pc \in {"user", "launching"} => stack[cur] = <<>>
  /\ \A t \in Tasks : Len(stack[t]) <= 3

\* The inductive invariant behind the three properties above, if no tick falls in
\* the windows: what the registers and the kernel stack hold is known from the
\* place alone.
StackAt(t, place) ==
  CASE place \in {"saved", "bank_stored", "bank_popped", "psr_restored"} ->
         <<SwiFrame(t, t, "usr")>>
    [] place \in {"body", "returned", "bank_loaded"} ->
         <<SwiFrame(t, t, "usr"), BankFrame(t)>>
    [] OTHER -> <<>>

ModeAt(place) == IF place \in {"user", "launching"} THEN "usr" ELSE "svc"

RegistersAt(t, place, r, l, b) ==
  /\ place \in {"user", "launching", "popped"} => r = t
  /\ place = "popped" => l = t
  /\ place \notin {"launching", "body", "returned"} => b = t

RunningInPlace ==
  /\ mode = ModeAt(pc)
  /\ pc # "resumed" =>
       /\ stack[cur] = StackAt(cur, pc)
       /\ RegistersAt(cur, pc, regs, lr, ubank)
       /\ pc = "bank_stored" => below[cur] = cur
       /\ pc \in {"psr_restored", "popped"} => spsr = "usr"

InterruptedInPlace(t) ==
  \E place \in Places \ Windows, r, l, b \in Tasks \cup {LOST} :
    /\ stack[t] = Append(StackAt(t, place),
                        [regs |-> r, lr |-> l, psr |-> ModeAt(place), pc |-> place, ubank |-> b])
    /\ RegistersAt(t, place, r, l, b)

SuspendedInPlace ==
  \A t \in Tasks : (t = cur => pc = "resumed") =>
    /\ suspended[t] = "launch" => stack[t] = <<>>
    /\ suspended[t] = "body" => stack[t] = StackAt(t, "body")
    /\ suspended[t] = "irq" => InterruptedInPlace(t)

\* The running task and every suspended task are in place.
ContextsInPlace == RunningInPlace /\ SuspendedInPlace
=============================================================================
