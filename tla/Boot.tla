-------------------------------- MODULE Boot --------------------------------
(***************************************************************************)
(* How the kernels of labs 2, 3 and 4 take the machine over from U-Boot    *)
(* and how labs 2 and 3 give it back: the handlers that the exception      *)
(* vectors lead to are overwritten, the timer and the interrupt controller *)
(* are set, the user program is entered with its arguments, and exit puts  *)
(* back what was saved.                                                    *)
(*                                                                         *)
(* Memory is a function of word addresses.  A word is a tuple: an LDR of   *)
(* the pc with the direction and size of its offset, another instruction,  *)
(* an address, or code of U-Boot.                                          *)
(***************************************************************************)
EXTENDS Integers, Sequences, SequencesExt

CONSTANTS
  Argcs,   \* numbers of arguments
  Offset,  \* in an LDR vector, in words
  Inst,    \* the address in the word that a vector's LDR loads, by its direction
  Words    \* addresses in memory

SWI_VECTOR == 2   \* 0x08 and 0x18, in words
IRQ_VECTOR == 6
PC_OFFSET == 2
Vectors == {SWI_VECTOR, IRQ_VECTOR}
Soft(v, up) == v + PC_OFFSET + (IF up THEN Offset ELSE -Offset)

\* Each LDR that a vector may be has words of its own: the one it loads, and the
\* first two of the handler whose address that is.
Own(v, up) == {Soft(v, up), Inst[v][up], Inst[v][up] + 1}
ASSUME BootAssumption ==
  /\ Argcs \subseteq Nat /\ Offset \in Nat /\ Words \subseteq Int
  /\ Inst \in [Vectors -> [BOOLEAN -> Nat \ {0}]]
  /\ Vectors \subseteq Words
  /\ \A v \in Vectors, up \in BOOLEAN :
       /\ Own(v, up) \subseteq Words \ Vectors
       /\ Soft(v, up) \notin {Inst[v][up], Inst[v][up] + 1}
       /\ \A w \in Vectors, down \in BOOLEAN :
            v # w \/ up # down => Own(v, up) \cap Own(w, down) = {}

UBootRegs == <<"r4", "r5", "r6", "r7", "r8", "r9", "r10", "r11", "r12", "lr">>

VARIABLES
  lab,       \* the kernel loaded: 2, 3 or 4
  at,        \* how far it has come
  mem,       \* the words of memory below
  cpsr,      \* the mode and whether interrupts are on
  stack,     \* the supervisor stack, from where U-Boot's ends
  intc,      \* the timer's and the interrupt controller's registers
  bss,       \* the kernel's variables
  irq_sp,    \* the interrupt mode has a stack
  ustack,    \* the user stack, its top first
  argc,      \* what U-Boot passes
  result,    \* what it got back
  swi_r8,    \* r8 in C_SWI_handler, by which U-Boot's functions are found
  handled    \* who handled the last timer interrupt

boot == <<lab, argc>>
vars == <<boot, at, mem, cpsr, stack, intc, bss, irq_sp, ustack, result, swi_r8, handled>>

NEW_INSTRUCTION1 == <<"ldr", FALSE, 1>>  \* ldr pc, [pc, #-4]: the next word
Ldr(up) == <<"ldr", up, Offset>>
UBootMem(swi, irq) ==
  [a \in Words |->
    CASE a = SWI_VECTOR -> swi
      [] a = IRQ_VECTOR -> irq
      [] a = Soft(SWI_VECTOR, TRUE) -> <<"addr", Inst[SWI_VECTOR][TRUE]>>
      [] a = Soft(IRQ_VECTOR, TRUE) -> <<"addr", Inst[IRQ_VECTOR][TRUE]>>
      [] a = Soft(SWI_VECTOR, FALSE) -> <<"addr", Inst[SWI_VECTOR][FALSE]>>
      [] a = Soft(IRQ_VECTOR, FALSE) -> <<"addr", Inst[IRQ_VECTOR][FALSE]>>
      [] OTHER -> <<"uboot", a>>]

\* What the processor does with a vector: through the address, and through the
\* two words of a handler that is overwritten.
Leads(m, v) ==
  IF m[v][1] # "ldr" THEN <<"uboot", v>>
  ELSE LET inst == m[Soft(v, m[v][2])][2]
       IN  IF m[inst] = NEW_INSTRUCTION1 THEN m[inst + 1] ELSE m[inst]

Zero == [CPSR |-> <<"zero", TRUE>>, OSMR0 |-> 0, OIER |-> {}, ICLR |-> {}, ICMR |-> {},
         address |-> [v \in Vectors |-> 0], instructions |-> [v \in Vectors |-> <<>>],
         stack_pointer |-> 0, global_data |-> "zero"]

\* U-Boot runs with interrupts off and does not use the timer's.
Init ==
  /\ lab \in {2, 3, 4} /\ argc \in Argcs
  /\ at = "uboot"
  /\ \E swi, irq \in {Ldr(TRUE), Ldr(FALSE), <<"b">>} : mem = UBootMem(swi, irq)
  /\ cpsr = <<"svc", FALSE>>
  /\ stack = <<>> /\ ustack = <<>>
  /\ intc \in [OSMR0 : {7}, OIER : {{}, {"E1"}}, ICLR : SUBSET {"timer"}, ICMR : SUBSET {"uart"}]
  /\ bss = Zero
  /\ irq_sp = FALSE
  /\ result = <<"none">> /\ swi_r8 = "none" /\ handled = "none"

Goes(here, there) == at = here /\ at' = there

\* Mutant of start: lr is pushed as an eleventh word.
PushLr ==
  /\ Goes("uboot", "started") /\ result = <<"none">> /\ lab \in {3, 4}
  /\ stack' = <<"lr">> \o UBootRegs
  /\ bss' = [bss EXCEPT !.CPSR = cpsr]
  /\ UNCHANGED <<boot, mem, cpsr, intc, irq_sp, ustack, result, swi_r8, handled>>

\* start.S: lr takes the place of r4, where kmain looks for its fifth argument.
Pushed == [UBootRegs EXCEPT ![1] = "lr"]
start ==
  /\ Goes("uboot", "started") /\ result = <<"none">> /\ lab \in {3, 4}
  /\ stack' = Pushed
  /\ bss' = [bss EXCEPT !.CPSR = cpsr]
  /\ UNCHANGED <<boot, mem, cpsr, intc, irq_sp, ustack, result, swi_r8, handled>>

lab2_start ==
  /\ Goes("uboot", "prepared") /\ result = <<"none">> /\ lab = 2
  /\ bss' = [bss EXCEPT !.stack_pointer = Len(stack)]
  /\ UNCHANGED <<boot, mem, cpsr, stack, intc, irq_sp, ustack, result, swi_r8, handled>>

app_startup == Zero

\* Mutant of kmain: the variables are set before they are zeroed.
StartupLate ==
  /\ Goes("started", "prepared")
  /\ bss' = app_startup
  /\ UNCHANGED <<boot, mem, cpsr, stack, intc, irq_sp, ustack, result, swi_r8, handled>>

kmain ==
  /\ Goes("started", "prepared")
  /\ bss' = [app_startup EXCEPT !.global_data = "gd", !.stack_pointer = Len(stack)]
  /\ UNCHANGED <<boot, mem, cpsr, stack, intc, irq_sp, ustack, result, swi_r8, handled>>

\* Mutant of error_check: the mask keeps the bit that gives the direction.
MaskKeepsUp(i) == IF i[1] = "ldr" THEN <<i[1], i[2]>> ELSE i

\* MASK_CHECK_LDR drops the direction and the offset of an LDR.
error_check(i) == IF i[1] = "ldr" THEN <<"ldr", FALSE>> ELSE i
POSITIVE_OFFSET == <<"ldr", FALSE>>
NEGATIVE_OFFSET == <<"ldr", TRUE>>

Handler(v) == CASE v = SWI_VECTOR -> "swihandler" [] lab = 4 -> "irq_wrapper" [] OTHER -> "irqhandler"

\* Mutant of Overwrite: the two words are saved after they are overwritten.
SavesLate(v, soft) ==
  LET inst == mem[soft][2]
  IN  /\ mem' = [mem EXCEPT ![inst] = NEW_INSTRUCTION1, ![inst + 1] = <<"kernel", Handler(v)>>]
      /\ bss' = [bss EXCEPT !.address[v] = inst, !.instructions[v] = <<mem'[inst], mem'[inst + 1]>>]

\* The first two words of the handler that the vector is found to lead to.
Overwrite(v, soft) ==
  LET inst == mem[soft][2]
  IN  /\ bss' = [bss EXCEPT !.address[v] = inst, !.instructions[v] = <<mem[inst], mem[inst + 1]>>]
      /\ mem' = [mem EXCEPT ![inst] = NEW_INSTRUCTION1, ![inst + 1] = <<"kernel", Handler(v)>>]

\* hijacking, and kmain's answer to what it returns: only 0xbadc0de stops it.
hijacking(v) ==
  LET check == error_check(mem[v])
  IN  IF check = NEGATIVE_OFFSET
      THEN IF Offset > v + v THEN Overwrite(v, Soft(v, FALSE)) ELSE UNCHANGED <<mem, bss>>
      ELSE IF check = POSITIVE_OFFSET THEN Overwrite(v, Soft(v, TRUE))
      ELSE UNCHANGED <<mem, bss>>
Accepted(v) == error_check(mem[v]) \in {POSITIVE_OFFSET, NEGATIVE_OFFSET}

hijack_swi ==
  /\ Goes("prepared", IF lab = 2 THEN "set" ELSE "swi_hijacked")
  /\ Accepted(SWI_VECTOR)
  /\ hijacking(SWI_VECTOR)
  /\ UNCHANGED <<boot, cpsr, stack, intc, irq_sp, ustack, result, swi_r8, handled>>

hijack_irq ==
  /\ Goes("swi_hijacked", IF lab = 3 THEN "irq_hijacked" ELSE "stack_set")
  /\ Accepted(IRQ_VECTOR)
  /\ hijacking(IRQ_VECTOR)
  /\ UNCHANGED <<boot, cpsr, stack, intc, irq_sp, ustack, result, swi_r8, handled>>

\* kmain goes back to U-Boot; the ten words that start pushed stay.
refuse ==
  /\ \/ Goes("prepared", "uboot") /\ ~Accepted(SWI_VECTOR)
     \/ Goes("swi_hijacked", "uboot") /\ ~Accepted(IRQ_VECTOR)
  /\ result' = <<"0xbadc0de">>
  /\ UNCHANGED <<boot, mem, cpsr, stack, intc, bss, irq_sp, ustack, swi_r8, handled>>

\* Mutant of irq_stack_setup: interrupts are let in before the stack is set.
EnableOnly ==
  /\ Goes("irq_hijacked", "stack_set")
  /\ cpsr' = <<"svc", TRUE>>
  /\ UNCHANGED <<boot, mem, stack, intc, bss, irq_sp, ustack, result, swi_r8, handled>>

irq_stack_setup ==
  /\ Goes("irq_hijacked", "stack_set")
  /\ irq_sp' = TRUE
  /\ cpsr' = <<"svc", TRUE>>
  /\ UNCHANGED <<boot, mem, stack, intc, bss, ustack, result, swi_r8, handled>>

\* ICLR and ICMR are saved in the variables named for each other.
set_timer ==
  /\ Goes("stack_set", "set")
  /\ bss' = [bss EXCEPT !.OSMR0 = intc.OSMR0, !.OIER = intc.OIER,
                        !.ICMR = intc.ICLR, !.ICLR = intc.ICMR]
  /\ intc' = [OSMR0 |-> 32500, OIER |-> intc.OIER \cup {"E0"},
              ICLR |-> intc.ICLR \ {"timer"}, ICMR |-> intc.ICMR \cup {"timer"}]
  /\ UNCHANGED <<boot, mem, cpsr, stack, irq_sp, ustack, result, swi_r8, handled>>

argv(i) == IF i < argc THEN <<"arg", i>> ELSE <<"NULL">>

\* Mutant of CopyArgs: the loop ends one word early.
CopyButFirst == [i \in 1 .. argc |-> argv(i)]

\* The loop pushes argv[argc] down to argv[0].
CopyArgs == [i \in 1 .. argc + 1 |-> argv(i - 1)]

\* Interrupts are on in the user program, but for lab 2.
lab2_mode == <<"usr", FALSE>>
lab3_mode == <<"usr", TRUE>>

\* Of the number in r0 the loop tests what is left of it after a word: one word if it
\* is negative.
Pushes(r0) == IF r0 = 0 THEN 0 ELSE IF r0 < 0 THEN 1 ELSE r0 + 1
Passed == <<argc>> \o IF argc = 0 THEN <<>> ELSE CopyArgs

\* Lab 2 calls user_mode_setup() with no arguments (kernel.c:56): r0 and r1 may still be
\* main's, or hold whatever the compiler left there, and any words be copied.
LeftInRegisters(r0) == <<r0>> \o [i \in 1 .. Pushes(r0) |-> <<"unknown">>]

user_mode_setup ==
  /\ Goes("set", "user")
  /\ stack' = stack \o <<"frame", "lr", "gd">>
  /\ \/ ustack' = Passed
     \/ lab = 2 /\ \E r0 \in Argcs \cup {-1} : ustack' = LeftInRegisters(r0)
  /\ cpsr' = IF lab = 2 THEN lab2_mode ELSE lab3_mode
  /\ UNCHANGED <<boot, mem, intc, bss, irq_sp, result, swi_r8, handled>>

\* C_SWI_handler: the calls that end the program.  Lab 2 has fewer calls, and a
\* call that is none ends it too, but for lab 4, which has no exit.
lab2_ends(call) == call \notin {"read", "write"}
lab3_ends(call) == call \notin {"read", "write", "time", "sleep"}
Ends(call) == IF lab = 2 THEN lab2_ends(call) ELSE lab = 3 /\ lab3_ends(call)

\* r8 comes from a variable, or in lab 2 from above the registers just pushed.
lab2_r8 == Last(stack)
lab3_r8 == bss.global_data

\* A system call, if the vector leads to the kernel: what read, write, time and
\* sleep do is in the modules Console and Timer.
swihandler(call) ==
  /\ Goes("user", IF Ends(call) THEN "exit_handler" ELSE "user")
  /\ Leads(mem, SWI_VECTOR) = <<"kernel", "swihandler">>
  /\ swi_r8' = IF lab = 2 THEN lab2_r8 ELSE lab3_r8
  /\ cpsr' = IF ~Ends(call) THEN cpsr ELSE IF lab = 2 THEN <<"svc", FALSE>> ELSE <<"svc", TRUE>>
  /\ UNCHANGED <<boot, mem, stack, intc, bss, irq_sp, ustack, result, handled>>

\* What crt0.S hands to main.
crt0 == [argc |-> Head(ustack), argv |-> Tail(ustack)]

\* A match of the timer, wherever interrupts are on.
timer_interrupt ==
  /\ cpsr[2] /\ "E0" \in intc.OIER /\ "timer" \in intc.ICMR \ intc.ICLR
  /\ handled' = IF lab = 3 /\ ~irq_sp THEN "no stack" ELSE Leads(mem, IRQ_VECTOR)[1]
  /\ UNCHANGED <<boot, at, mem, cpsr, stack, intc, bss, irq_sp, ustack, result, swi_r8>>

\* Mutant of restore_timer: the enable register is left as it is.
RestoreWithoutOier ==
  /\ Goes("exit_handler", "timer_restored") /\ lab = 3
  /\ intc' = [intc EXCEPT !.OSMR0 = bss.OSMR0, !.ICLR = bss.ICLR, !.ICMR = bss.ICMR]
  /\ UNCHANGED <<boot, mem, cpsr, stack, bss, irq_sp, ustack, result, swi_r8, handled>>

restore_timer ==
  /\ Goes("exit_handler", "timer_restored") /\ lab = 3
  /\ intc' = [OSMR0 |-> bss.OSMR0, OIER |-> bss.OIER, ICLR |-> bss.ICLR, ICMR |-> bss.ICMR]
  /\ UNCHANGED <<boot, mem, cpsr, stack, bss, irq_sp, ustack, result, swi_r8, handled>>

\* Mutant of restore_handler: the first word goes into both places.
RestoreFirstTwice(v, here, there) ==
  /\ Goes(here, there)
  /\ mem' = [mem EXCEPT ![bss.address[v]] = bss.instructions[v][1],
                        ![bss.address[v] + 1] = bss.instructions[v][1]]
  /\ UNCHANGED <<boot, cpsr, stack, intc, bss, irq_sp, ustack, result, swi_r8, handled>>

restore_handler(v, here, there) ==
  /\ Goes(here, there)
  /\ mem' = [mem EXCEPT ![bss.address[v]] = bss.instructions[v][1],
                        ![bss.address[v] + 1] = bss.instructions[v][2]]
  /\ UNCHANGED <<boot, cpsr, stack, intc, bss, irq_sp, ustack, result, swi_r8, handled>>

\* msr cpsr, then sp, and ten registers popped from it.
exit_handler ==
  /\ Goes("irq_restored", "uboot")
  /\ cpsr' = bss.CPSR
  /\ result' = <<"registers">> \o SubSeq(stack, bss.stack_pointer - 9, bss.stack_pointer)
  /\ stack' = SubSeq(stack, 1, bss.stack_pointer - 10)
  /\ UNCHANGED <<boot, mem, intc, bss, irq_sp, ustack, swi_r8, handled>>

\* The two words are stored over the variable that holds the handler's address,
\* and the one after it.
lab2_exit_handler ==
  /\ Goes("exit_handler", "uboot") /\ lab = 2
  /\ bss' = [bss EXCEPT !.address[SWI_VECTOR] = bss.instructions[SWI_VECTOR]]
  /\ result' = <<"status">>
  /\ stack' = SubSeq(stack, 1, bss.stack_pointer)
  /\ UNCHANGED <<boot, mem, cpsr, intc, irq_sp, ustack, swi_r8, handled>>

Next ==
  \/ start \/ lab2_start \/ kmain
  \/ hijack_swi \/ hijack_irq \/ refuse
  \/ irq_stack_setup \/ set_timer \/ user_mode_setup
  \/ \E call \in {"read", "write", "time", "sleep", "exit", "other"} : swihandler(call)
  \/ timer_interrupt
  \/ restore_timer
  \/ restore_handler(SWI_VECTOR, "timer_restored", "swi_restored")
  \/ restore_handler(IRQ_VECTOR, "swi_restored", "irq_restored")
  \/ exit_handler \/ lab2_exit_handler

Spec == Init /\ [][Next]_vars
-----------------------------------------------------------------------------
(* Properties *)

Steps == {"uboot", "started", "prepared", "swi_hijacked", "irq_hijacked", "stack_set", "set",
          "user", "exit_handler", "timer_restored", "swi_restored", "irq_restored"}
Exited == at = "uboot" /\ result[1] \in {"status", "registers"}

TypeOK ==
  /\ lab \in {2, 3, 4} /\ at \in Steps /\ argc \in Argcs
  /\ cpsr[1] \in {"svc", "usr", "zero"} /\ cpsr[2] \in BOOLEAN
  /\ DOMAIN mem = Words
  /\ Len(stack) \in {0, 3, 10, 13} /\ bss.stack_pointer \in {0, 10}
  /\ ~(lab = 2 /\ Exited) => \A v \in Vectors : bss.address[v] \in Words \cup {0}
  /\ intc.OIER \subseteq {"E0", "E1"} /\ intc.ICLR \cup intc.ICMR \subseteq {"timer", "uart"}

BootMem == UBootMem(mem[SWI_VECTOR], mem[IRQ_VECTOR])

\* The user program is entered only with every vector in the kernel's hands.
\* hijacking names the two directions of an LDR the wrong way round and its mask
\* (helper_functions.c:131) then makes both the same, so that an LDR upwards is
\* followed, one downwards is taken for upwards, and the return of 0, which
\* kmain would take for success, is never reached.
VectorsInHand ==
  at = "user" =>
    \A v \in Vectors \ (IF lab = 2 THEN {IRQ_VECTOR} ELSE {}) :
      mem[v] # Ldr(FALSE) => Leads(mem, v) = <<"kernel", Handler(v)>>

\* No interrupt of the timer meets a handler of U-Boot or a mode without a
\* stack, while the kernel comes up, runs, or lets the timer and the vectors go
\* again with interrupts on.
InterruptsReachKernel == mem[IRQ_VECTOR] # Ldr(FALSE) => handled \in {"none", "kernel"}

\* What the kernel saved is always enough to undo what it wrote, also where the
\* second vector is refused after the first was overwritten.
Recoverable ==
  ~(lab = 2 /\ Exited) =>
    [a \in Words |->
       LET vs == {v \in Vectors : bss.address[v] \in {a, a - 1} \ {0}}
       IN  IF vs = {} THEN mem[a]
           ELSE LET v == CHOOSE w \in vs : TRUE
                IN  bss.instructions[v][a - bss.address[v] + 1]] = BootMem

\* After exit from lab 3 U-Boot has its handlers, its stack, the match and the
\* enable register and its registers again, save r4, where start.S put lr; ICLR
\* and ICMR have changed places (main.c:92-93,111-114).
ExitRestores ==
  (Exited /\ lab = 3) =>
    /\ mem = BootMem /\ stack = <<>>
    /\ Tail(result) = Pushed
    /\ intc.OSMR0 = 7 /\ "E0" \notin intc.OIER
    /\ "uart" \notin intc.ICMR /\ "timer" \notin intc.ICLR

\* crt0.S finds argc on top of the stack and argv above it, with its last word, in labs
\* 3 and 4; in lab 2 it may find anything.
ArgumentsPassed ==
  at = "user" /\ lab # 2 =>
    /\ crt0.argc = argc
    /\ argc > 0 => crt0.argv = [i \in 1 .. argc + 1 |-> argv(i - 1)]

\* Wherever the kernel runs for the user, r8 is U-Boot's, as its functions need.
GlobalDataFound == swi_r8 \in {"none", "gd"}

\* start.S:28 "Saving current CPSR to restore at the end": the mode U-Boot ran
\* in comes back.
CpsrRestored == (Exited /\ lab = 3) => cpsr = <<"svc", FALSE>>

\* What the user program and the functions called for it find: U-Boot's arguments, but
\* in lab 2, and its r8 (user_mode_setup.S, crt0.S, swihandler.S).
HandedOver == ArgumentsPassed /\ GlobalDataFound

\* Nothing that a kernel takes from U-Boot is lost before it is given back, and exit
\* of lab 3 gives it back.
GivenBack == Recoverable /\ ExitRestores
=============================================================================
