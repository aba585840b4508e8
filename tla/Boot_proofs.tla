---------------------------- MODULE Boot_proofs ----------------------------
(***************************************************************************)
(* For every memory in which U-Boot's words are apart, every offset in its *)
(* vectors and any arguments: while a kernel runs the vectors and the      *)
(* timer are in its hands, and what it took can be given back, by exit of  *)
(* lab 3 where it is called.                                               *)
(***************************************************************************)
EXTENDS Boot, SequenceTheorems, TLAPS

-----------------------------------------------------------------------------
(* The inductive invariant *)

Came(word) == at = "uboot" /\ result[1] = word
Frame == <<"frame", "lr", "gd">>
Entered == at \in {"user", "exit_handler", "timer_restored", "swi_restored", "irq_restored"}
Prepared == at \notin {"uboot", "started"} \/ (at = "uboot" /\ result # <<"none">>)

\* Where each kernel can be, and what U-Boot gets back.
Lab3Only == {"irq_hijacked", "timer_restored", "swi_restored", "irq_restored"}
PlaceInPlace ==
  /\ lab \in {2, 3, 4} /\ argc \in Argcs /\ at \in Steps
  /\ lab = 2 => at \in {"uboot", "prepared", "set", "user", "exit_handler"}
  /\ at \in Lab3Only => lab = 3
  /\ at = "exit_handler" => lab # 4
  /\ \/ result = <<"none">>
     \/ at = "uboot" /\ \/ result = <<"0xbadc0de">>
                        \/ lab = 2 /\ result = <<"status">>
                        \/ lab = 3 /\ result = <<"registers">> \o Pushed

\* Interrupts are off until there is a stack for them.
ModeInPlace ==
  /\ Came("registers") => cpsr = <<"zero", TRUE>>
  /\ at = "user" => cpsr = IF lab = 2 THEN lab2_mode ELSE lab3_mode
  /\ at \in {"stack_set", "set", "exit_handler", "timer_restored", "swi_restored", "irq_restored"} =>
       /\ lab = 3 => cpsr = <<"svc", TRUE>>
       /\ lab # 3 => cpsr = <<"svc", FALSE>>
  /\ at \in {"uboot", "started", "prepared", "swi_hijacked", "irq_hijacked"} =>
       cpsr = <<"svc", FALSE>> \/ Came("registers")
  /\ lab = 3 /\ at \notin {"uboot", "started", "prepared", "swi_hijacked", "irq_hijacked"} => irq_sp = TRUE

\* The stacks, and what the kernel knows of them.
StackInPlace ==
  /\ stack = IF lab = 2 THEN (IF Entered THEN Frame ELSE <<>>)
             ELSE IF Came("none") \/ Came("registers") THEN <<>>
             ELSE IF Entered THEN Pushed \o Frame ELSE Pushed
  /\ at = "user" /\ lab # 2 => ustack = Passed
  /\ swi_r8 \in {"none", "gd"}

\* The variables of the kernel that are not about memory.
VariablesInPlace ==
  /\ DOMAIN bss = {"CPSR", "OSMR0", "OIER", "ICLR", "ICMR", "address", "instructions",
                   "stack_pointer", "global_data"}
  /\ bss.CPSR = IF at = "started" THEN <<"svc", FALSE>> ELSE <<"zero", TRUE>>
  /\ bss.stack_pointer = IF lab # 2 /\ Prepared THEN 10 ELSE 0
  /\ bss.global_data = IF lab # 2 /\ Prepared THEN "gd" ELSE "zero"

\* The timer's match is let in only while a kernel that has a clock is there, and what
\* U-Boot had in the registers is kept, ICLR and ICMR in the place of each other.
Running == lab # 2 /\ at \in {"set", "user", "exit_handler"}
Restored == lab # 2 /\ ~Running /\ (Entered \/ Came("registers"))
RegistersInPlace ==
  /\ DOMAIN intc = {"OSMR0", "OIER", "ICLR", "ICMR"}
  /\ Running \/ Restored => /\ bss.OSMR0 = 7 /\ bss.OIER \subseteq {"E1"}
                            /\ bss.ICMR \subseteq {"timer"} /\ bss.ICLR \subseteq {"uart"}
  /\ Running => intc.OIER \subseteq {"E0", "E1"} /\ intc.ICLR \cup intc.ICMR \subseteq {"timer", "uart"}
  /\ ~Running => intc.OSMR0 = 7 /\ intc.OIER \subseteq {"E1"}
  /\ Restored => intc.ICLR \subseteq {"uart"} /\ intc.ICMR \subseteq {"timer"}
  /\ ~Running /\ ~Restored => intc.ICLR \subseteq {"timer"} /\ intc.ICMR \subseteq {"uart"}

\* The handlers that are overwritten, and those whose words are kept.
Held ==
  (IF \/ at \in {"swi_hijacked", "irq_hijacked", "stack_set", "set", "user", "exit_handler", "timer_restored"}
      \/ Came("status") \/ (Came("0xbadc0de") /\ mem[SWI_VECTOR] # <<"b">>)
   THEN {SWI_VECTOR} ELSE {}) \cup
  (IF lab # 2 /\ at \in {"irq_hijacked", "stack_set", "set", "user", "exit_handler", "timer_restored", "swi_restored"}
   THEN {IRQ_VECTOR} ELSE {})
Kept == IF at \in {"swi_restored", "irq_restored"} \/ Came("registers") THEN Vectors ELSE Held

HeldInPlace(v) ==
  /\ mem[v] # <<"b">>
  /\ mem[Inst[v][TRUE]] = NEW_INSTRUCTION1 /\ mem[Inst[v][TRUE] + 1] = <<"kernel", Handler(v)>>
KeptInPlace(v) ==
  /\ bss.address[v] = Inst[v][TRUE]
  /\ bss.instructions[v] = <<<<"uboot", Inst[v][TRUE]>>, <<"uboot", Inst[v][TRUE] + 1>>>>

\* Memory is U-Boot's but for the handlers that are held.
MemoryInPlace ==
  /\ mem = [a \in Words |-> mem[a]]
  /\ \A v \in Vectors : mem[v] \in {Ldr(TRUE), Ldr(FALSE), <<"b">>}
  /\ \A a \in Words : (\A v \in Held : a \notin {Inst[v][TRUE], Inst[v][TRUE] + 1}) => mem[a] = BootMem[a]
  /\ \A v \in Held : HeldInPlace(v)
  /\ DOMAIN bss.address = Vectors /\ DOMAIN bss.instructions = Vectors
  /\ \A v \in Vectors : IF v \in Kept THEN ~Came("status") => KeptInPlace(v) ELSE bss.address[v] = 0

BootInv ==
  /\ PlaceInPlace /\ ModeInPlace /\ StackInPlace
  /\ VariablesInPlace /\ RegistersInPlace /\ MemoryInPlace
  /\ handled \in {"none", "kernel"} \/ mem[IRQ_VECTOR] = Ldr(FALSE)

-----------------------------------------------------------------------------
(* Stacks *)

StackWords == {"r4", "r5", "r6", "r7", "r8", "r9", "r10", "r11", "r12", "lr", "frame", "gd"}

LEMMA TenWords == Pushed \in Seq(StackWords) /\ Len(Pushed) = 10
<1>1. Pushed = <<"lr", "r5", "r6", "r7", "r8", "r9", "r10", "r11", "r12", "lr">>
  BY DEF Pushed, UBootRegs
<1> QED
  BY <1>1 DEF StackWords

LEMMA Behind ==
  ASSUME NEW S, NEW s \in Seq(S), NEW word
  PROVE  Head(<<word>> \o s) = word /\ Tail(<<word>> \o s) = s
  OBVIOUS

LEMMA ThirteenWords ==
  /\ Len(Pushed \o Frame) = 13
  /\ SubSeq(Pushed \o Frame, 1, 10) = Pushed
  /\ SubSeq(Pushed \o Frame, 1, 0) = <<>>
<1>1. Frame \in Seq(StackWords) /\ Len(Frame) = 3
  BY DEF Frame, StackWords
<1> DEFINE whole == Pushed \o Frame
           front == SubSeq(whole, 1, 10)
<1>2. /\ whole \in Seq(StackWords) /\ Len(whole) = Len(Pushed) + Len(Frame)
      /\ \A i \in 1 .. Len(Pushed) + Len(Frame) :
           whole[i] = IF i <= Len(Pushed) THEN Pushed[i] ELSE Frame[i - Len(Pushed)]
  BY <1>1, TenWords, ConcatProperties
<1>3. Len(whole) = 13 /\ \A i \in 1 .. 10 : whole[i] = Pushed[i]
  BY <1>1, <1>2, TenWords
<1> HIDE DEF whole
<1>4. \A i \in 1 .. 10 : whole[i] \in StackWords
  <2>1. \A i \in 1 .. Len(whole) : whole[i] \in StackWords
    BY <1>2, ElementOfSeq
  <2> QED
    BY <1>3, <2>1
<1>5. /\ front \in Seq(StackWords) /\ Len(front) = 10
      /\ \A i \in 1 .. 10 : front[i] = whole[i]
  BY <1>4, SubSeqProperties
<1> HIDE DEF front
<1>6. front = Pushed
  BY <1>3, <1>5, TenWords, SeqEqual
<1>7. SubSeq(whole, 1, 0) = <<>>
  BY SubSeqEmpty
<1> QED
  BY <1>3, <1>6, <1>7 DEF whole, front

-----------------------------------------------------------------------------
(* The start *)

\* The words with a part in what follows.
LEMMA Apart ==
  ASSUME NEW v \in Vectors
  PROVE  /\ Inst[v][TRUE] \in Nat \ {0} /\ {v, Inst[v][TRUE], Inst[v][TRUE] + 1} \subseteq Words \ {0}
         /\ {Inst[v][TRUE], Inst[v][TRUE] + 1} \cap Vectors = {}
         /\ \A w \in Vectors, up \in BOOLEAN :
              /\ Soft(w, up) \in Words \ Vectors
              /\ Soft(w, up) \notin {Inst[v][TRUE], Inst[v][TRUE] + 1}
         /\ \A w \in Vectors \ {v} :
              {Inst[v][TRUE], Inst[v][TRUE] + 1} \cap {Inst[w][TRUE], Inst[w][TRUE] + 1} = {}
<1>1. Inst[v][TRUE] \in Nat \ {0} /\ v \in Words \ {0} /\ Inst[v][TRUE] + 1 # 0
  <2>1. Inst[v] \in [BOOLEAN -> Nat \ {0}]
    BY BootAssumption
  <2>2. Inst[v][TRUE] \in Nat \ {0}
    BY <2>1
  <2>3. v # 0 /\ \A n \in Nat : n + 1 # 0
    BY DEF Vectors, SWI_VECTOR, IRQ_VECTOR
  <2> QED
    <3>1. v \in Words
      BY BootAssumption
    <3> QED
      BY <2>2, <2>3, <3>1
<1>2. {Inst[v][TRUE], Inst[v][TRUE] + 1} \subseteq Words \ Vectors
  BY BootAssumption DEF Own
<1>3. ASSUME NEW w \in Vectors, NEW up \in BOOLEAN
      PROVE  /\ Soft(w, up) \in Words \ Vectors
             /\ Soft(w, up) \notin {Inst[v][TRUE], Inst[v][TRUE] + 1}
  <2>1. Own(w, up) \subseteq Words \ Vectors /\ Soft(w, up) \notin {Inst[w][up], Inst[w][up] + 1}
    BY BootAssumption
  <2>2. w # v \/ up # TRUE => Own(w, up) \cap Own(v, TRUE) = {}
    BY BootAssumption
  <2> QED
    BY <2>1, <2>2 DEF Own
<1>4. ASSUME NEW w \in Vectors \ {v} PROVE Own(v, TRUE) \cap Own(w, TRUE) = {}
  BY BootAssumption
<1> QED
  BY <1>1, <1>2, <1>3, <1>4 DEF Own

LEMMA SoftApart ==
  ASSUME NEW v \in Vectors, NEW up \in BOOLEAN, NEW w \in Vectors, NEW down \in BOOLEAN,
         v # w \/ up # down
  PROVE  Soft(v, up) # Soft(w, down)
  BY BootAssumption DEF Own

LaidOut(m) ==
  /\ m = [a \in Words |-> m[a]]
  /\ \A v \in Vectors :
       /\ m[Soft(v, TRUE)] = <<"addr", Inst[v][TRUE]>>
       /\ m[Inst[v][TRUE]] = <<"uboot", Inst[v][TRUE]>>
       /\ m[Inst[v][TRUE] + 1] = <<"uboot", Inst[v][TRUE] + 1>>

LEMMA UBootWords ==
  ASSUME NEW swi, NEW irq
  PROVE  /\ LaidOut(UBootMem(swi, irq))
         /\ UBootMem(swi, irq)[SWI_VECTOR] = swi /\ UBootMem(swi, irq)[IRQ_VECTOR] = irq
<1>1. SWI_VECTOR \in Vectors /\ IRQ_VECTOR \in Vectors /\ SWI_VECTOR # IRQ_VECTOR
      /\ \A v \in Vectors : v \in {SWI_VECTOR, IRQ_VECTOR}
  BY DEF Vectors, SWI_VECTOR, IRQ_VECTOR
<1>2. ASSUME NEW v \in Vectors PROVE UBootMem(swi, irq)[Soft(v, TRUE)] = <<"addr", Inst[v][TRUE]>>
  <2>1. Soft(v, TRUE) \in Words \ Vectors
    BY Apart
  <2>2. \A w \in Vectors : /\ Soft(v, TRUE) = Soft(w, TRUE) => w = v
                           /\ Soft(v, TRUE) # Soft(w, FALSE)
    BY SoftApart
  <2> QED
    BY <1>1, <2>1, <2>2 DEF UBootMem
<1>3. ASSUME NEW v \in Vectors, NEW a \in {Inst[v][TRUE], Inst[v][TRUE] + 1}
      PROVE  UBootMem(swi, irq)[a] = <<"uboot", a>>
  BY <1>1, Apart DEF UBootMem
<1>4. UBootMem(swi, irq)[SWI_VECTOR] = swi /\ UBootMem(swi, irq)[IRQ_VECTOR] = irq
  BY <1>1, Apart DEF UBootMem
<1>5. UBootMem(swi, irq) = [a \in Words |-> UBootMem(swi, irq)[a]]
  BY DEF UBootMem
<1> QED
  BY <1>2, <1>3, <1>4, <1>5 DEF LaidOut

\* BootMem is U-Boot's memory with the vectors that are there.
LEMMA BootWords ==
  LaidOut(BootMem) /\ \A v \in Vectors : BootMem[v] = mem[v]
<1>1. \A v \in Vectors : v \in {SWI_VECTOR, IRQ_VECTOR}
  BY DEF Vectors
<1> QED
  BY <1>1, UBootWords DEF BootMem

LEMMA StartsInPlace == ASSUME Init PROVE BootInv
<1>1. at = "uboot" /\ result = <<"none">> /\ Held = {} /\ Kept = {}
  BY DEF Init, Held, Kept, Came
<1>2. PlaceInPlace
  BY <1>1 DEF Init, PlaceInPlace, Steps, Lab3Only
<1>3. ModeInPlace
  BY <1>1 DEF Init, ModeInPlace, Came
<1>4. StackInPlace
  BY <1>1 DEF Init, StackInPlace, Came, Entered
<1>5. VariablesInPlace
  <2>1. ~Prepared /\ at # "started"
    BY <1>1 DEF Prepared
  <2> QED
    BY <2>1 DEF VariablesInPlace, Init, Zero
<1>7. RegistersInPlace
  <2>1. ~Running /\ ~Restored
    BY <1>1 DEF Running, Restored, Entered, Came
  <2> QED
    BY <2>1 DEF RegistersInPlace, Init
<1>6. MemoryInPlace
  <2>1. PICK swi \in {Ldr(TRUE), Ldr(FALSE), <<"b">>}, irq \in {Ldr(TRUE), Ldr(FALSE), <<"b">>} :
           mem = UBootMem(swi, irq)
    BY DEF Init
  <2>2. mem[SWI_VECTOR] = swi /\ mem[IRQ_VECTOR] = irq /\ mem = BootMem
    <3>1. mem[SWI_VECTOR] = swi /\ mem[IRQ_VECTOR] = irq
      BY <2>1, UBootWords
    <3> QED
      BY <2>1, <3>1 DEF BootMem
  <2>3. mem = [a \in Words |-> mem[a]]
    BY <2>2, BootWords DEF LaidOut
  <2> QED
    BY <1>1, <2>2, <2>3 DEF Init, MemoryInPlace, Zero, Vectors, Came
<1> QED
  BY <1>2, <1>3, <1>4, <1>5, <1>6, <1>7 DEF BootInv, Init
\* A vector is accepted unless it is no LDR.
LEMMA AcceptedLdr ==
  ASSUME BootInv, NEW v \in Vectors
  PROVE  Accepted(v) <=> mem[v] # <<"b">>
<1>1. mem[v] \in {Ldr(TRUE), Ldr(FALSE), <<"b">>}
  BY DEF BootInv, MemoryInPlace
<1>2. Ldr(TRUE)[1] = "ldr" /\ Ldr(FALSE)[1] = "ldr" /\ <<"b">>[1] = "b"
  BY DEF Ldr
<1>3. <<"b">> \notin {POSITIVE_OFFSET, NEGATIVE_OFFSET}
  BY DEF POSITIVE_OFFSET, NEGATIVE_OFFSET
<1>4. CASE mem[v] = <<"b">>
  BY <1>2, <1>3, <1>4 DEF Accepted, error_check
<1>5. CASE mem[v] \in {Ldr(TRUE), Ldr(FALSE)}
  BY <1>2, <1>5 DEF Accepted, error_check, POSITIVE_OFFSET
<1> QED
  BY <1>1, <1>4, <1>5

\* What an action that leaves memory and what is kept of it alone has to show.
LEMMA MemoryLeft ==
  ASSUME BootInv, UNCHANGED <<lab, mem>>, Held' = Held, Kept' = Kept,
         Came("status")' <=> Came("status"),
         bss'.address = bss.address, bss'.instructions = bss.instructions
  PROVE  MemoryInPlace'
<1>1. BootMem' = BootMem
  BY DEF BootMem
<1>2. \A v \in Vectors : /\ HeldInPlace(v)' <=> HeldInPlace(v)
                        /\ KeptInPlace(v)' <=> KeptInPlace(v)
  BY DEF HeldInPlace, KeptInPlace, Handler
<1>3. Held \subseteq Vectors
  BY DEF Held, Vectors
<1>4. MemoryInPlace /\ mem' = mem
  BY DEF BootInv
<1>5. /\ mem' = [a \in Words |-> mem'[a]]
      /\ \A v \in Vectors : mem'[v] \in {Ldr(TRUE), Ldr(FALSE), <<"b">>}
  BY <1>4 DEF MemoryInPlace
<1>6. \A a \in Words : (\A v \in Held' : a \notin {Inst[v][TRUE], Inst[v][TRUE] + 1}) => mem'[a] = BootMem'[a]
  BY <1>1, <1>4 DEF MemoryInPlace
<1>7. ASSUME NEW v \in Held' PROVE HeldInPlace(v)'
  <2>1. v \in Held /\ v \in Vectors
    BY <1>3
  <2>2. HeldInPlace(v)
    BY <1>4, <2>1 DEF MemoryInPlace
  <2> QED
    BY <1>4, <2>1, <2>2 DEF HeldInPlace, Handler
<1>8. DOMAIN bss'.address = Vectors /\ DOMAIN bss'.instructions = Vectors
  BY <1>4 DEF MemoryInPlace
<1>9. \A v \in Vectors : IF v \in Kept' THEN ~Came("status")' => KeptInPlace(v)' ELSE bss'.address[v] = 0
  BY <1>2, <1>4 DEF MemoryInPlace
<1> QED
  BY <1>5, <1>6, <1>7, <1>8, <1>9 DEF MemoryInPlace

LEMMA StartKeeps == ASSUME BootInv, start PROVE BootInv'
<1> USE DEF BootInv, start, Goes, boot
<1>1. PlaceInPlace'
  BY DEF PlaceInPlace, Steps, Lab3Only
<1>2. ModeInPlace'
  BY DEF PlaceInPlace, ModeInPlace, Came
<1>3. StackInPlace'
  BY DEF PlaceInPlace, StackInPlace, Came, Entered
<1>4. VariablesInPlace'
  BY DEF PlaceInPlace, ModeInPlace, VariablesInPlace, Prepared, Came
<1>5. RegistersInPlace'
  BY DEF PlaceInPlace, RegistersInPlace, VariablesInPlace, Running, Restored, Entered, Came
<1>6. MemoryInPlace'
  <2>1. Held' = Held /\ Kept' = Kept /\ (Came("status")' <=> Came("status"))
    BY DEF PlaceInPlace, Held, Kept, Came
  <2>2. bss'.address = bss.address /\ bss'.instructions = bss.instructions
    BY DEF VariablesInPlace
  <2> QED
    BY <2>1, <2>2, MemoryLeft
<1> QED
  BY <1>1, <1>2, <1>3, <1>4, <1>5, <1>6

LEMMA Lab2StartKeeps == ASSUME BootInv, lab2_start PROVE BootInv'
<1> USE DEF BootInv, lab2_start, Goes, boot
<1>1. PlaceInPlace'
  BY DEF PlaceInPlace, Steps, Lab3Only
<1>2. ModeInPlace'
  BY DEF PlaceInPlace, ModeInPlace, Came
<1>3. StackInPlace'
  BY DEF PlaceInPlace, StackInPlace, Came, Entered
<1>4. VariablesInPlace'
  <2>1. Len(stack) = 0
    BY DEF StackInPlace, PlaceInPlace, Entered
  <2> QED
    BY <2>1 DEF PlaceInPlace, VariablesInPlace, Prepared
<1>5. RegistersInPlace'
  BY DEF PlaceInPlace, RegistersInPlace, VariablesInPlace, Running, Restored, Entered, Came
<1>6. MemoryInPlace'
  <2>1. Held' = Held /\ Kept' = Kept /\ (Came("status")' <=> Came("status"))
    BY DEF PlaceInPlace, Held, Kept, Came
  <2>2. bss'.address = bss.address /\ bss'.instructions = bss.instructions
    BY DEF VariablesInPlace
  <2> QED
    BY <2>1, <2>2, MemoryLeft
<1> QED
  BY <1>1, <1>2, <1>3, <1>4, <1>5, <1>6

LEMMA KmainKeeps == ASSUME BootInv, kmain PROVE BootInv'
<1> USE DEF BootInv, kmain, Goes, boot
<1>1. PlaceInPlace'
  BY DEF PlaceInPlace, Steps, Lab3Only
<1>2. ModeInPlace'
  BY DEF PlaceInPlace, ModeInPlace, Came
<1>3. StackInPlace'
  BY DEF PlaceInPlace, StackInPlace, Came, Entered
<1>4. VariablesInPlace'
  <2>1. Len(stack) = 10 /\ lab # 2
    BY TenWords DEF StackInPlace, PlaceInPlace, Entered, Came
  <2>2. bss' = [Zero EXCEPT !.global_data = "gd", !.stack_pointer = 10]
    BY <2>1 DEF app_startup
  <2> QED
    BY <2>1, <2>2 DEF VariablesInPlace, Prepared, Zero
<1>5. RegistersInPlace'
  BY DEF PlaceInPlace, RegistersInPlace, VariablesInPlace, Running, Restored, Entered, Came
<1>6. MemoryInPlace'
  <2>1. Held = {} /\ Held' = {} /\ Kept' = {}
    BY DEF Held, Kept, Came
  <2>2. /\ bss'.address = [v \in Vectors |-> 0] /\ bss'.instructions = [v \in Vectors |-> <<>>]
    BY DEF app_startup, Zero
  <2>3. mem' = mem /\ BootMem' = BootMem
    BY DEF BootMem
  <2> HIDE DEF BootInv, kmain, Goes, boot
  <2>4. /\ mem' = [a \in Words |-> mem'[a]]
        /\ \A v \in Vectors : mem'[v] \in {Ldr(TRUE), Ldr(FALSE), <<"b">>}
    BY <2>3 DEF BootInv, MemoryInPlace
  <2>5. \A a \in Words : (\A v \in Held' : a \notin {Inst[v][TRUE], Inst[v][TRUE] + 1}) => mem'[a] = BootMem'[a]
    BY <2>1, <2>3 DEF BootInv, MemoryInPlace
  <2>6. /\ DOMAIN bss'.address = Vectors /\ DOMAIN bss'.instructions = Vectors
        /\ \A v \in Vectors : v \notin Kept' /\ bss'.address[v] = 0
    BY <2>1, <2>2
  <2> QED
    BY <2>1, <2>4, <2>5, <2>6 DEF MemoryInPlace
<1> QED
  BY <1>1, <1>2, <1>3, <1>4, <1>5, <1>6

LEMMA RefuseKeeps == ASSUME BootInv, refuse PROVE BootInv'
<1> USE DEF BootInv, refuse, Goes, boot
<1>1. PlaceInPlace'
  BY DEF PlaceInPlace, Steps, Lab3Only
<1>2. ModeInPlace'
  BY DEF PlaceInPlace, ModeInPlace, Came
<1>3. StackInPlace'
  BY DEF PlaceInPlace, StackInPlace, Came, Entered
<1>4. VariablesInPlace'
  BY DEF PlaceInPlace, VariablesInPlace, Prepared
<1>5. RegistersInPlace'
  BY DEF PlaceInPlace, RegistersInPlace, VariablesInPlace, Running, Restored, Entered, Came
<1>6. MemoryInPlace'
  <2>1. Held' = Held /\ Kept' = Kept /\ (Came("status")' <=> Came("status"))
    <3>1. CASE at = "prepared"
      <4>1. mem[SWI_VECTOR] = <<"b">>
        BY <3>1, AcceptedLdr DEF Vectors
      <4> QED
        BY <3>1, <4>1 DEF PlaceInPlace, Held, Kept, Came
    <3>2. CASE at = "swi_hijacked"
      <4>1. SWI_VECTOR \in Held /\ Held = {SWI_VECTOR}
        BY <3>2 DEF Held
      <4>2. mem[SWI_VECTOR] # <<"b">>
        BY <4>1 DEF MemoryInPlace, HeldInPlace
      <4> QED
        BY <3>2, <4>1, <4>2 DEF PlaceInPlace, Held, Kept, Came
    <3> QED
      BY <3>1, <3>2
  <2>2. bss'.address = bss.address /\ bss'.instructions = bss.instructions
    BY DEF VariablesInPlace
  <2> QED
    BY <2>1, <2>2, MemoryLeft
<1> QED
  BY <1>1, <1>2, <1>3, <1>4, <1>5, <1>6

LEMMA StackSetupKeeps == ASSUME BootInv, irq_stack_setup PROVE BootInv'
<1> USE DEF BootInv, irq_stack_setup, Goes, boot
<1>1. PlaceInPlace'
  BY DEF PlaceInPlace, Steps, Lab3Only
<1>2. ModeInPlace'
  BY DEF PlaceInPlace, ModeInPlace, Came, Lab3Only
<1>3. StackInPlace'
  BY DEF PlaceInPlace, StackInPlace, Came, Entered
<1>4. VariablesInPlace'
  BY DEF PlaceInPlace, VariablesInPlace, Prepared
<1>5. RegistersInPlace'
  BY DEF PlaceInPlace, RegistersInPlace, VariablesInPlace, Running, Restored, Entered, Came
<1>6. MemoryInPlace'
  <2>1. Held' = Held /\ Kept' = Kept /\ (Came("status")' <=> Came("status"))
    BY DEF PlaceInPlace, Held, Kept, Came
  <2>2. bss'.address = bss.address /\ bss'.instructions = bss.instructions
    BY DEF VariablesInPlace
  <2> QED
    BY <2>1, <2>2, MemoryLeft
<1> QED
  BY <1>1, <1>2, <1>3, <1>4, <1>5, <1>6

LEMMA SetTimerKeeps == ASSUME BootInv, set_timer PROVE BootInv'
<1>1. /\ at = "stack_set" /\ at' = "set" /\ lab # 2
      /\ UNCHANGED <<lab, argc, mem, cpsr, stack, irq_sp, ustack, result, swi_r8, handled>>
  BY DEF BootInv, PlaceInPlace, set_timer, Goes, boot
<1>2. /\ DOMAIN bss' = DOMAIN bss
      /\ bss'.CPSR = bss.CPSR /\ bss'.stack_pointer = bss.stack_pointer
      /\ bss'.global_data = bss.global_data
      /\ bss'.address = bss.address /\ bss'.instructions = bss.instructions
  <2>1. bss' = [bss EXCEPT !.OSMR0 = intc.OSMR0, !.OIER = intc.OIER,
                           !.ICMR = intc.ICLR, !.ICLR = intc.ICMR]
    BY DEF set_timer
  <2> QED
    BY <2>1 DEF BootInv, VariablesInPlace
<1>3. PlaceInPlace'
  BY <1>1 DEF BootInv, PlaceInPlace, Steps, Lab3Only
<1>4. ModeInPlace'
  BY <1>1 DEF BootInv, ModeInPlace, Came
<1>5. StackInPlace'
  BY <1>1 DEF BootInv, StackInPlace, Came, Entered
<1>6. VariablesInPlace'
  BY <1>1, <1>2 DEF BootInv, VariablesInPlace, Prepared
<1>7. RegistersInPlace'
  BY <1>1 DEF BootInv, RegistersInPlace, VariablesInPlace, set_timer, Running, Restored, Entered, Came
<1>8. MemoryInPlace'
  <2>1. Held' = Held /\ Kept' = Kept /\ (Came("status")' <=> Came("status"))
    BY <1>1 DEF Held, Kept, Came
  <2>2. bss'.address = bss.address /\ bss'.instructions = bss.instructions
    BY <1>2 DEF BootInv, VariablesInPlace
  <2> QED
    BY <1>1, <2>1, <2>2, MemoryLeft
<1> QED
  BY <1>1, <1>3, <1>4, <1>5, <1>6, <1>7, <1>8 DEF BootInv

LEMMA UserSetupKeeps == ASSUME BootInv, user_mode_setup PROVE BootInv'
<1>1. /\ at = "set" /\ at' = "user" /\ result = <<"none">>
      /\ UNCHANGED <<lab, argc, mem, intc, bss, irq_sp, result, swi_r8, handled>>
  BY DEF BootInv, PlaceInPlace, user_mode_setup, Goes, boot
<1>2. PlaceInPlace'
  BY <1>1 DEF BootInv, PlaceInPlace, Steps, Lab3Only
<1>3. ModeInPlace'
  BY <1>1 DEF BootInv, ModeInPlace, user_mode_setup, Came
<1>4. StackInPlace'
  <2>1. stack = IF lab = 2 THEN <<>> ELSE Pushed
    BY <1>1 DEF BootInv, StackInPlace, Came, Entered
  <2>2. <<>> \o Frame = Frame
    BY DEF Frame
  <2>3. stack' = IF lab = 2 THEN Frame ELSE Pushed \o Frame
    BY <2>1, <2>2 DEF user_mode_setup, Frame
  <2>4. lab # 2 => ustack' = Passed'
    BY <1>1 DEF user_mode_setup, Passed, CopyArgs, argv
  <2> QED
    BY <1>1, <2>3, <2>4 DEF BootInv, StackInPlace, Came, Entered
<1>5. VariablesInPlace'
  BY <1>1 DEF BootInv, VariablesInPlace, Prepared
<1>6. RegistersInPlace'
  BY <1>1 DEF BootInv, RegistersInPlace, Running, Restored, Entered, Came
<1>7. MemoryInPlace'
  <2>1. Held' = Held /\ Kept' = Kept /\ (Came("status")' <=> Came("status"))
    BY <1>1 DEF Held, Kept, Came
  <2> QED
    BY <1>1, <2>1, MemoryLeft
<1> QED
  BY <1>1, <1>2, <1>3, <1>4, <1>5, <1>6, <1>7 DEF BootInv

\* The vector of the interrupt, where it is a handler of the kernel.
LEMMA HeldLeads ==
  ASSUME BootInv, NEW v \in Held, mem[v] # Ldr(FALSE)
  PROVE  Leads(mem, v) = <<"kernel", Handler(v)>>
<1>1. v \in Vectors
  BY DEF Held, Vectors
<1>2. mem[v] = Ldr(TRUE)
  BY <1>1 DEF BootInv, MemoryInPlace, HeldInPlace
<1>3. mem[Soft(v, TRUE)] = <<"addr", Inst[v][TRUE]>>
  <2>1. mem[Soft(v, TRUE)] = BootMem[Soft(v, TRUE)]
    <3>1. Soft(v, TRUE) \in Words /\ \A w \in Vectors : Soft(v, TRUE) \notin {Inst[w][TRUE], Inst[w][TRUE] + 1}
      BY <1>1, Apart
    <3>2. Held \subseteq Vectors
      BY DEF Held, Vectors
    <3> QED
      BY <3>1, <3>2 DEF BootInv, MemoryInPlace
  <2> QED
    BY <1>1, <2>1, BootWords DEF LaidOut
<1>4. mem[v][1] = "ldr" /\ mem[v][2] = TRUE
  BY <1>2 DEF Ldr
<1>5. /\ mem[Inst[v][TRUE]] = NEW_INSTRUCTION1
      /\ mem[Inst[v][TRUE] + 1] = <<"kernel", Handler(v)>>
  BY DEF BootInv, MemoryInPlace, HeldInPlace
<1>6. mem[Soft(v, mem[v][2])][2] = Inst[v][TRUE]
  <2>1. Soft(v, mem[v][2]) = Soft(v, TRUE)
    BY <1>4, Zenon
  <2>2. mem[Soft(v, mem[v][2])] = <<"addr", Inst[v][TRUE]>>
    BY <1>3, <2>1, Zenon
  <2>3. <<"addr", Inst[v][TRUE]>>[2] = Inst[v][TRUE]
    OBVIOUS
  <2> QED
    BY <2>2, <2>3, Zenon
<1> QED
  BY <1>4, <1>5, <1>6 DEF Leads

LEMMA InterruptKeeps == ASSUME BootInv, timer_interrupt PROVE BootInv'
<1>1. UNCHANGED <<lab, argc, at, mem, cpsr, stack, intc, bss, irq_sp, ustack, result, swi_r8>>
  BY DEF timer_interrupt, boot
<1>2. PlaceInPlace' /\ ModeInPlace' /\ StackInPlace' /\ VariablesInPlace' /\ RegistersInPlace'
  <2>1. PlaceInPlace'
    BY <1>1 DEF BootInv, PlaceInPlace
  <2>2. ModeInPlace'
    BY <1>1 DEF BootInv, ModeInPlace, Came
  <2>3. StackInPlace'
    BY <1>1 DEF BootInv, StackInPlace, Came, Entered, Passed, CopyArgs, argv
  <2>4. VariablesInPlace'
    BY <1>1 DEF BootInv, VariablesInPlace, Prepared
  <2>5. RegistersInPlace'
    BY <1>1 DEF BootInv, RegistersInPlace, Running, Restored, Entered, Came
  <2> QED
    BY <2>1, <2>2, <2>3, <2>4, <2>5
<1>3. MemoryInPlace'
  <2>1. Held' = Held /\ Kept' = Kept /\ (Came("status")' <=> Came("status"))
    BY <1>1 DEF Held, Kept, Came
  <2> QED
    BY <1>1, <2>1, MemoryLeft
<1>4. ASSUME mem[IRQ_VECTOR] # Ldr(FALSE) PROVE handled' = "kernel"
  <2>1. Running
    BY DEF BootInv, RegistersInPlace, timer_interrupt
  <2>2. IRQ_VECTOR \in Held
    BY <2>1 DEF Running, Held
  <2>3. Leads(mem, IRQ_VECTOR)[1] = "kernel"
    <3>1. Leads(mem, IRQ_VECTOR) = <<"kernel", Handler(IRQ_VECTOR)>>
      BY <1>4, <2>2, HeldLeads
    <3> QED
      BY <3>1
  <2>4. lab = 3 => irq_sp = TRUE
    BY <2>1 DEF BootInv, ModeInPlace, Running
  <2> QED
    BY <2>3, <2>4 DEF timer_interrupt
<1> QED
  BY <1>1, <1>2, <1>3, <1>4 DEF BootInv

LEMMA RestoreTimerKeeps == ASSUME BootInv, restore_timer PROVE BootInv'
<1> USE DEF BootInv, restore_timer, Goes, boot
<1>1. PlaceInPlace'
  BY DEF PlaceInPlace, Steps, Lab3Only
<1>2. ModeInPlace'
  BY DEF PlaceInPlace, ModeInPlace, Came
<1>3. StackInPlace'
  BY DEF PlaceInPlace, StackInPlace, Came, Entered
<1>4. VariablesInPlace'
  BY DEF PlaceInPlace, VariablesInPlace, Prepared
<1>5. RegistersInPlace'
  BY DEF PlaceInPlace, RegistersInPlace, VariablesInPlace, Running, Restored, Entered, Came
<1>6. MemoryInPlace'
  <2>1. Held' = Held /\ Kept' = Kept /\ (Came("status")' <=> Came("status"))
    BY DEF PlaceInPlace, Held, Kept, Came
  <2>2. bss'.address = bss.address /\ bss'.instructions = bss.instructions
    BY DEF VariablesInPlace
  <2> QED
    BY <2>1, <2>2, MemoryLeft
<1> QED
  BY <1>1, <1>2, <1>3, <1>4, <1>5, <1>6

LEMMA ExitKeeps == ASSUME BootInv, exit_handler PROVE BootInv'
<1>1. /\ at = "irq_restored" /\ at' = "uboot" /\ lab = 3 /\ result = <<"none">>
      /\ UNCHANGED <<lab, argc, mem, intc, bss, irq_sp, ustack, swi_r8, handled>>
  BY DEF BootInv, PlaceInPlace, exit_handler, Goes, boot, Lab3Only
<1>2. stack = Pushed \o Frame /\ bss.stack_pointer = 10 /\ bss.CPSR = <<"zero", TRUE>>
  BY <1>1 DEF BootInv, StackInPlace, VariablesInPlace, Entered, Prepared, Came
<1>3. /\ result' = <<"registers">> \o Pushed /\ stack' = <<>>
      /\ cpsr' = <<"zero", TRUE>>
  <2>1. bss.stack_pointer - 9 = 1 /\ bss.stack_pointer - 10 = 0
    BY <1>2
  <2> QED
    BY <1>2, <2>1, ThirteenWords DEF exit_handler
<1>4. Came("registers")'
  <2>1. (<<"registers">> \o Pushed)[1] = "registers"
    BY TenWords
  <2> QED
    BY <1>1, <1>3, <2>1 DEF Came
<1>5. PlaceInPlace'
  BY <1>1, <1>3 DEF BootInv, PlaceInPlace, Steps, Lab3Only
<1>6. ModeInPlace'
  BY <1>1, <1>3, <1>4 DEF BootInv, ModeInPlace
<1>7. StackInPlace'
  BY <1>1, <1>3, <1>4 DEF BootInv, StackInPlace
<1>8. VariablesInPlace'
  <2>1. Prepared' <=> Prepared
    BY <1>1, <1>4 DEF Prepared, Came
  <2> QED
    BY <1>1, <2>1 DEF BootInv, VariablesInPlace
<1>9. RegistersInPlace'
  BY <1>1, <1>4 DEF BootInv, RegistersInPlace, Running, Restored, Entered
<1>10. MemoryInPlace'
  <2>1. Held' = Held /\ Kept' = Kept /\ (Came("status")' <=> Came("status"))
    BY <1>1, <1>4 DEF Held, Kept, Came
  <2> QED
    BY <1>1, <2>1, MemoryLeft
<1> QED
  BY <1>1, <1>5, <1>6, <1>7, <1>8, <1>9, <1>10 DEF BootInv

LEMMA Lab2ExitKeeps == ASSUME BootInv, lab2_exit_handler PROVE BootInv'
<1>1. /\ at = "exit_handler" /\ at' = "uboot" /\ lab = 2 /\ result' = <<"status">>
      /\ UNCHANGED <<lab, argc, mem, cpsr, intc, irq_sp, ustack, swi_r8, handled>>
  BY DEF lab2_exit_handler, Goes, boot
<1>2. Came("status")' /\ ~Came("registers")' /\ ~Came("none")' /\ ~Came("0xbadc0de")'
  BY <1>1 DEF Came
<1>3. /\ DOMAIN bss' = DOMAIN bss
      /\ bss'.CPSR = bss.CPSR /\ bss'.stack_pointer = bss.stack_pointer
      /\ bss'.global_data = bss.global_data
      /\ DOMAIN bss'.address = DOMAIN bss.address
      /\ \A v \in Vectors \ {SWI_VECTOR} : bss'.address[v] = bss.address[v]
      /\ bss'.instructions = bss.instructions
  BY DEF lab2_exit_handler, BootInv, VariablesInPlace, MemoryInPlace
<1>4. PlaceInPlace'
  BY <1>1 DEF BootInv, PlaceInPlace, Steps, Lab3Only
<1>5. ModeInPlace'
  <2>1. cpsr = <<"svc", FALSE>>
    <3>1. lab # 3
      BY <1>1
    <3>2. lab # 3 => cpsr = <<"svc", FALSE>>
      BY <1>1 DEF BootInv, ModeInPlace
    <3> QED
      BY <3>1, <3>2
  <2> QED
    BY <1>1, <1>2, <2>1 DEF ModeInPlace
<1>6. StackInPlace'
  <2>1. bss.stack_pointer = 0 /\ stack = Frame
    BY <1>1 DEF BootInv, VariablesInPlace, StackInPlace, Entered
  <2>2. stack' = <<>>
    BY <2>1, SubSeqEmpty DEF lab2_exit_handler
  <2> QED
    BY <1>1, <2>2 DEF BootInv, StackInPlace, Entered
<1>7. VariablesInPlace'
  BY <1>1, <1>3 DEF BootInv, VariablesInPlace
<1>8. RegistersInPlace'
  BY <1>1 DEF BootInv, RegistersInPlace, Running, Restored
<1>9. MemoryInPlace'
  <2>1. Held = {SWI_VECTOR} /\ Held' = {SWI_VECTOR} /\ Kept = Held /\ Kept' = Held'
    BY <1>1, <1>2 DEF Held, Kept, Came
  <2>2. BootMem' = BootMem /\ (HeldInPlace(SWI_VECTOR)' <=> HeldInPlace(SWI_VECTOR))
    BY <1>1 DEF BootMem, HeldInPlace, Handler
  <2> QED
    BY <1>1, <1>2, <1>3, <2>1, <2>2 DEF BootInv, MemoryInPlace
<1> QED
  BY <1>1, <1>4, <1>5, <1>6, <1>7, <1>8, <1>9 DEF BootInv

LEMMA SwiKeeps == ASSUME BootInv, NEW call, swihandler(call) PROVE BootInv'
<1>1. /\ at = "user" /\ at' \in {"user", "exit_handler"} /\ result = <<"none">>
      /\ at' = "exit_handler" => Ends(call)
      /\ UNCHANGED <<lab, argc, mem, stack, intc, bss, irq_sp, ustack, result, handled>>
  BY DEF BootInv, PlaceInPlace, swihandler, Goes, boot
<1>2. at' = "exit_handler" => lab \in {2, 3}
  BY <1>1 DEF Ends
<1>3. PlaceInPlace'
  BY <1>1, <1>2 DEF BootInv, PlaceInPlace, Steps, Lab3Only
<1>4. ModeInPlace'
  <2>1. ~Came("registers")'
    BY <1>1 DEF Came
  <2>2. CASE Ends(call)
    <3>1. /\ at' = "exit_handler"
          /\ lab = 2 => cpsr' = <<"svc", FALSE>>
          /\ lab # 2 => cpsr' = <<"svc", TRUE>>
      BY <2>2 DEF swihandler, Goes
    <3>2. lab = 3 => irq_sp = TRUE
      BY <1>1 DEF BootInv, ModeInPlace
    <3> QED
      <4>1. lab' = lab /\ irq_sp' = irq_sp
        BY <1>1
      <4>2. CASE lab = 2
        <5>1. lab' # 3 /\ cpsr' = <<"svc", FALSE>>
          <6>1. lab' # 3
            BY <4>1, <4>2
          <6> QED
            BY <3>1, <4>2, <6>1, Zenon
        <5> QED
          BY <2>1, <3>1, <5>1 DEF ModeInPlace
      <4>3. CASE lab = 3
        <5>1. lab' = 3 /\ cpsr' = <<"svc", TRUE>> /\ irq_sp' = TRUE
          <6>1. lab # 2
            BY <4>3
          <6> QED
            BY <3>1, <3>2, <4>1, <4>3, <6>1, Zenon
        <5> QED
          BY <2>1, <3>1, <5>1 DEF ModeInPlace
      <4> QED
        BY <1>2, <3>1, <4>2, <4>3
  <2>3. CASE ~Ends(call)
    <3>1. at' = "user" /\ cpsr' = cpsr
      BY <2>3 DEF swihandler, Goes
    <3> QED
      BY <1>1, <2>1, <3>1 DEF BootInv, ModeInPlace
  <2> QED
    BY <2>2, <2>3
<1>5. StackInPlace'
  <2>1. swi_r8' = "gd"
    <3>1. CASE lab = 2
      <4>1. stack = Frame
        BY <1>1, <3>1 DEF BootInv, StackInPlace, Entered
      <4>2. Last(stack) = "gd"
        BY <4>1 DEF Last, Frame
      <4> QED
        BY <3>1, <4>2 DEF swihandler, lab2_r8
    <3>2. CASE lab # 2
      BY <1>1, <3>2 DEF BootInv, VariablesInPlace, Prepared, swihandler, lab3_r8
    <3> QED
      BY <3>1, <3>2
  <2> QED
    BY <1>1, <2>1 DEF BootInv, StackInPlace, Entered, Came, Passed, CopyArgs, argv
<1>6. VariablesInPlace'
  BY <1>1 DEF BootInv, VariablesInPlace, Prepared
<1>7. RegistersInPlace'
  BY <1>1 DEF BootInv, RegistersInPlace, Running, Restored, Entered, Came
<1>8. MemoryInPlace'
  <2>1. Held' = Held /\ Kept' = Kept /\ (Came("status")' <=> Came("status"))
    BY <1>1 DEF Held, Kept, Came
  <2> QED
    BY <1>1, <2>1, MemoryLeft
<1> QED
  BY <1>1, <1>3, <1>4, <1>5, <1>6, <1>7, <1>8 DEF BootInv

\* What hijacking does with a vector that it accepts.
LEMMA Hijacked ==
  ASSUME BootInv, NEW v \in Vectors, Accepted(v), v \notin Held, hijacking(v)
  PROVE  /\ mem[v] # <<"b">>
         /\ mem' = [mem EXCEPT ![Inst[v][TRUE]] = NEW_INSTRUCTION1,
                                ![Inst[v][TRUE] + 1] = <<"kernel", Handler(v)>>]
         /\ bss' = [bss EXCEPT !.address[v] = Inst[v][TRUE],
                                !.instructions[v] = <<<<"uboot", Inst[v][TRUE]>>,
                                                      <<"uboot", Inst[v][TRUE] + 1>>>>]
<1>1. mem[v] # <<"b">> /\ mem[v] \in {Ldr(TRUE), Ldr(FALSE)}
  BY AcceptedLdr DEF BootInv, MemoryInPlace
<1>2. error_check(mem[v]) = POSITIVE_OFFSET /\ error_check(mem[v]) # NEGATIVE_OFFSET
  <2>1. mem[v][1] = "ldr"
    <3>1. Ldr(TRUE)[1] = "ldr" /\ Ldr(FALSE)[1] = "ldr"
      BY DEF Ldr
    <3> QED
      BY <1>1, <3>1, Zenon
  <2>2. error_check(mem[v]) = POSITIVE_OFFSET
    BY <2>1 DEF error_check, POSITIVE_OFFSET
  <2>3. POSITIVE_OFFSET[2] = FALSE /\ NEGATIVE_OFFSET[2] = TRUE
    BY DEF POSITIVE_OFFSET, NEGATIVE_OFFSET
  <2> QED
    BY <2>2, <2>3, Zenon
<1>3. Overwrite(v, Soft(v, TRUE))
  BY <1>2 DEF hijacking
<1>4. Held \subseteq Vectors
  BY DEF Held, Vectors
<1>5. \A a \in {Soft(v, TRUE), Inst[v][TRUE], Inst[v][TRUE] + 1} : a \in Words /\ mem[a] = BootMem[a]
  <2>1. ASSUME NEW w \in Held, NEW a \in {Soft(v, TRUE), Inst[v][TRUE], Inst[v][TRUE] + 1}
        PROVE  a \in Words /\ a \notin {Inst[w][TRUE], Inst[w][TRUE] + 1}
    BY <1>4, Apart
  <2>2. \A a \in {Soft(v, TRUE), Inst[v][TRUE], Inst[v][TRUE] + 1} : a \in Words
    BY Apart
  <2> QED
    BY <2>1, <2>2 DEF BootInv, MemoryInPlace
<1>6. /\ mem[Soft(v, TRUE)] = <<"addr", Inst[v][TRUE]>>
      /\ mem[Inst[v][TRUE]] = <<"uboot", Inst[v][TRUE]>>
      /\ mem[Inst[v][TRUE] + 1] = <<"uboot", Inst[v][TRUE] + 1>>
  BY <1>5, BootWords DEF LaidOut
<1>7. mem[Soft(v, TRUE)][2] = Inst[v][TRUE]
  BY <1>6
<1> QED
  BY <1>1, <1>3, <1>6, <1>7 DEF Overwrite

\* Memory, when one more handler is held.
LEMMA MemoryTaken ==
  ASSUME BootInv, NEW v \in Vectors, Accepted(v), v \notin Held, hijacking(v), UNCHANGED lab,
         Kept = Held, Held' = Held \cup {v}, Kept' = Held', ~Came("status"), ~Came("status")'
  PROVE  MemoryInPlace' /\ \A w \in Vectors : mem'[w] = mem[w]
<1> DEFINE inst == Inst[v][TRUE]
<1>1. Held \subseteq Vectors
  BY DEF Held, Vectors
<1>2. inst \in Words /\ inst + 1 \in Words /\ inst # inst + 1 /\ {inst, inst + 1} \cap Vectors = {}
  <2>1. inst \in Nat
    BY Apart
  <2>2. inst # inst + 1
    <3> HIDE DEF inst
    <3> QED
      BY <2>1
  <2> QED
    BY <2>2, Apart
<1>3. \A w \in Held : {inst, inst + 1} \cap {Inst[w][TRUE], Inst[w][TRUE] + 1} = {}
  BY <1>1, Apart
<1>4. mem = [a \in Words |-> mem[a]]
  BY DEF BootInv, MemoryInPlace
<1>5. /\ mem' = [a \in Words |-> mem'[a]]
      /\ mem'[inst] = NEW_INSTRUCTION1 /\ mem'[inst + 1] = <<"kernel", Handler(v)>>
      /\ \A a \in Words \ {inst, inst + 1} : mem'[a] = mem[a]
  BY <1>2, <1>4, Hijacked
<1>6. \A w \in Vectors : mem'[w] = mem[w]
  BY <1>2, <1>5, BootAssumption
<1>7. BootMem' = BootMem
  BY <1>6 DEF BootMem, Vectors
<1>8. /\ DOMAIN bss'.address = Vectors /\ DOMAIN bss'.instructions = Vectors
      /\ \A w \in Vectors \ {v} : /\ bss'.address[w] = bss.address[w]
                               /\ bss'.instructions[w] = bss.instructions[w]
      /\ bss'.address[v] = inst
      /\ bss'.instructions[v] = <<<<"uboot", inst>>, <<"uboot", inst + 1>>>>
  <2>1. bss' = [bss EXCEPT !.address[v] = inst,
                           !.instructions[v] = <<<<"uboot", inst>>, <<"uboot", inst + 1>>>>]
    BY Hijacked
  <2>2. {"address", "instructions"} \subseteq DOMAIN bss
    BY DEF BootInv, VariablesInPlace
  <2>3. /\ bss'.address = [bss.address EXCEPT ![v] = inst]
        /\ bss'.instructions = [bss.instructions EXCEPT ![v] = <<<<"uboot", inst>>, <<"uboot", inst + 1>>>>]
    BY <2>1, <2>2
  <2>4. DOMAIN bss.address = Vectors /\ DOMAIN bss.instructions = Vectors
    BY DEF BootInv, MemoryInPlace
  <2> QED
    BY <2>3, <2>4
<1>9. ASSUME NEW w \in Held' PROVE HeldInPlace(w)'
  <2>1. CASE w = v
    BY <1>2, <1>5, <1>6, <2>1, Hijacked DEF HeldInPlace, Handler
  <2>2. CASE w \in Held
    <3>1. w \in Vectors /\ HeldInPlace(w) /\ w # v
      BY <1>1, <2>2 DEF BootInv, MemoryInPlace
    <3>2. {Inst[w][TRUE], Inst[w][TRUE] + 1} \subseteq Words \ {inst, inst + 1}
      BY <1>3, <2>2, <3>1, Apart
    <3> QED
      BY <1>5, <1>6, <3>1, <3>2 DEF HeldInPlace, Handler
  <2> QED
    BY <2>1, <2>2
<1>10. ASSUME NEW w \in Vectors
       PROVE  IF w \in Kept' THEN ~Came("status")' => KeptInPlace(w)' ELSE bss'.address[w] = 0
  <2>1. CASE w = v
    BY <1>8, <2>1 DEF KeptInPlace
  <2>2. CASE w # v
    BY <1>8, <2>2 DEF KeptInPlace, BootInv, MemoryInPlace
  <2> QED
    BY <2>1, <2>2
<1>11. ASSUME NEW a \in Words, \A w \in Held' : a \notin {Inst[w][TRUE], Inst[w][TRUE] + 1}
       PROVE  mem'[a] = BootMem'[a]
  <2>1. a \notin {inst, inst + 1}
    BY <1>11
  <2>2. mem[a] = BootMem[a]
    BY <1>11 DEF BootInv, MemoryInPlace
  <2> QED
    BY <1>5, <1>7, <2>1, <2>2
<1> QED
  <2>1. \A w \in Vectors : mem'[w] \in {Ldr(TRUE), Ldr(FALSE), <<"b">>}
    BY <1>6 DEF BootInv, MemoryInPlace
  <2> QED
    BY <1>5, <1>6, <1>8, <1>9, <1>10, <1>11, <2>1 DEF MemoryInPlace

LEMMA HijackSwiKeeps == ASSUME BootInv, hijack_swi PROVE BootInv'
<1>1. /\ at = "prepared" /\ at' = IF lab = 2 THEN "set" ELSE "swi_hijacked"
      /\ Accepted(SWI_VECTOR) /\ hijacking(SWI_VECTOR) /\ SWI_VECTOR \in Vectors /\ result = <<"none">>
      /\ UNCHANGED <<lab, argc, cpsr, stack, intc, irq_sp, ustack, result, swi_r8, handled>>
  BY DEF BootInv, PlaceInPlace, hijack_swi, Goes, boot, Vectors
<1>2. /\ Held = {} /\ Kept = Held
      /\ ~Came("status") /\ ~Came("status")'
      /\ Held' = Held \cup {SWI_VECTOR} /\ Kept' = Held'
  BY <1>1 DEF Held, Kept, Came
<1>3. SWI_VECTOR \notin Held
  BY <1>2 DEF SWI_VECTOR, IRQ_VECTOR
<1>4. MemoryInPlace' /\ \A w \in Vectors : mem'[w] = mem[w]
  BY <1>1, <1>2, <1>3, MemoryTaken
<1>5. /\ DOMAIN bss' = DOMAIN bss
      /\ bss'.CPSR = bss.CPSR /\ bss'.stack_pointer = bss.stack_pointer
      /\ bss'.global_data = bss.global_data
  <2>1. bss' = [bss EXCEPT !.address[SWI_VECTOR] = Inst[SWI_VECTOR][TRUE],
                           !.instructions[SWI_VECTOR] = <<<<"uboot", Inst[SWI_VECTOR][TRUE]>>,
                                                          <<"uboot", Inst[SWI_VECTOR][TRUE] + 1>>>>]
    BY <1>1, <1>3, Hijacked
  <2> QED
    BY <2>1 DEF BootInv, VariablesInPlace
<1>7. PlaceInPlace'
  BY <1>1 DEF BootInv, PlaceInPlace, Steps, Lab3Only
<1>8. ModeInPlace'
  <2>1. cpsr = <<"svc", FALSE>> /\ ~Came("registers") /\ ~Came("registers")'
    BY <1>1 DEF BootInv, ModeInPlace, Came
  <2>2. CASE lab = 2
    BY <1>1, <2>1, <2>2 DEF ModeInPlace
  <2>3. CASE lab # 2
    BY <1>1, <2>1, <2>3 DEF ModeInPlace
  <2> QED
    BY <2>2, <2>3
<1>9. StackInPlace'
  BY <1>1 DEF BootInv, StackInPlace, Came, Entered
<1>10. VariablesInPlace'
  BY <1>1, <1>5 DEF BootInv, VariablesInPlace, Prepared
<1>11. RegistersInPlace'
  BY <1>1 DEF BootInv, RegistersInPlace, Running, Restored, Entered, Came
<1> QED
  BY <1>1, <1>4, <1>7, <1>8, <1>9, <1>10, <1>11 DEF BootInv, Vectors

LEMMA HijackIrqKeeps == ASSUME BootInv, hijack_irq PROVE BootInv'
<1>1. /\ at = "swi_hijacked" /\ at' = IF lab = 3 THEN "irq_hijacked" ELSE "stack_set"
      /\ Accepted(IRQ_VECTOR) /\ hijacking(IRQ_VECTOR) /\ IRQ_VECTOR \in Vectors /\ result = <<"none">> /\ lab # 2
      /\ UNCHANGED <<lab, argc, cpsr, stack, intc, irq_sp, ustack, result, swi_r8, handled>>
  BY DEF BootInv, PlaceInPlace, hijack_irq, Goes, boot, Vectors
<1>2. /\ Held = {SWI_VECTOR} /\ Kept = Held
      /\ ~Came("status") /\ ~Came("status")'
      /\ Held' = Held \cup {IRQ_VECTOR} /\ Kept' = Held'
  BY <1>1 DEF Held, Kept, Came
<1>3. IRQ_VECTOR \notin Held
  BY <1>2 DEF SWI_VECTOR, IRQ_VECTOR
<1>4. MemoryInPlace' /\ \A w \in Vectors : mem'[w] = mem[w]
  BY <1>1, <1>2, <1>3, MemoryTaken
<1>5. /\ DOMAIN bss' = DOMAIN bss
      /\ bss'.CPSR = bss.CPSR /\ bss'.stack_pointer = bss.stack_pointer
      /\ bss'.global_data = bss.global_data
  <2>1. bss' = [bss EXCEPT !.address[IRQ_VECTOR] = Inst[IRQ_VECTOR][TRUE],
                           !.instructions[IRQ_VECTOR] = <<<<"uboot", Inst[IRQ_VECTOR][TRUE]>>,
                                                          <<"uboot", Inst[IRQ_VECTOR][TRUE] + 1>>>>]
    BY <1>1, <1>3, Hijacked
  <2> QED
    BY <2>1 DEF BootInv, VariablesInPlace
<1>7. PlaceInPlace'
  BY <1>1 DEF BootInv, PlaceInPlace, Steps, Lab3Only
<1>8. ModeInPlace'
  BY <1>1 DEF BootInv, ModeInPlace, Came
<1>9. StackInPlace'
  BY <1>1 DEF BootInv, StackInPlace, Came, Entered
<1>10. VariablesInPlace'
  BY <1>1, <1>5 DEF BootInv, VariablesInPlace, Prepared
<1>11. RegistersInPlace'
  BY <1>1 DEF BootInv, RegistersInPlace, Running, Restored, Entered, Came
<1> QED
  BY <1>1, <1>4, <1>7, <1>8, <1>9, <1>10, <1>11 DEF BootInv, Vectors

\* Memory, when a handler is given back.
LEMMA MemoryGiven ==
  ASSUME BootInv, NEW v \in Held, v \in Kept, Held' = Held \ {v}, Kept' = Kept, Kept = Vectors,
         mem' = [mem EXCEPT ![bss.address[v]] = bss.instructions[v][1],
                            ![bss.address[v] + 1] = bss.instructions[v][2]],
         UNCHANGED <<lab, bss>>, ~Came("status"), ~Came("status")'
  PROVE  MemoryInPlace' /\ \A w \in Vectors : mem'[w] = mem[w]
<1> DEFINE inst == Inst[v][TRUE]
<1>1. Held \subseteq Vectors /\ v \in Vectors
  BY DEF Held, Vectors
<1>2. inst \in Words /\ inst + 1 \in Words /\ {inst, inst + 1} \cap Vectors = {} /\ inst \in Nat
  BY <1>1, Apart
<1>3. bss.address[v] = inst /\ bss.instructions[v] = <<<<"uboot", inst>>, <<"uboot", inst + 1>>>>
  BY <1>1 DEF BootInv, MemoryInPlace, KeptInPlace
<1>4. BootMem[inst] = <<"uboot", inst>> /\ BootMem[inst + 1] = <<"uboot", inst + 1>>
  BY <1>1, BootWords DEF LaidOut
<1>5. mem = [a \in Words |-> mem[a]]
  BY DEF BootInv, MemoryInPlace
<1> HIDE DEF inst
<1>6. /\ mem' = [a \in Words |-> mem'[a]]
      /\ mem'[inst] = BootMem[inst] /\ mem'[inst + 1] = BootMem[inst + 1]
      /\ \A a \in Words \ {inst, inst + 1} : mem'[a] = mem[a]
  <2>1. mem' = [mem EXCEPT ![inst] = <<"uboot", inst>>, ![inst + 1] = <<"uboot", inst + 1>>]
    BY <1>3
  <2> QED
    BY <1>2, <1>4, <1>5, <2>1
<1>7. \A w \in Vectors : mem'[w] = mem[w]
  BY <1>2, <1>6, BootAssumption
<1>8. BootMem' = BootMem
  BY <1>7 DEF BootMem, Vectors
<1>9. ASSUME NEW w \in Held' PROVE HeldInPlace(w)'
  <2>1. w \in Vectors /\ HeldInPlace(w) /\ w # v
    BY <1>1 DEF BootInv, MemoryInPlace
  <2>2. {Inst[w][TRUE], Inst[w][TRUE] + 1} \subseteq Words \ {inst, inst + 1}
    BY <1>1, <2>1, Apart DEF inst
  <2> QED
    BY <1>6, <1>7, <2>1, <2>2 DEF HeldInPlace, Handler
<1>10. ASSUME NEW a \in Words, \A w \in Held' : a \notin {Inst[w][TRUE], Inst[w][TRUE] + 1}
       PROVE  mem'[a] = BootMem'[a]
  <2>1. CASE a \in {inst, inst + 1}
    BY <1>6, <1>8, <2>1
  <2>2. CASE a \notin {inst, inst + 1}
    <3>1. \A w \in Held : a \notin {Inst[w][TRUE], Inst[w][TRUE] + 1}
      BY <1>10, <2>2 DEF inst
    <3>2. mem[a] = BootMem[a]
      BY <3>1 DEF BootInv, MemoryInPlace
    <3> QED
      BY <1>6, <1>8, <2>2, <3>2
  <2> QED
    BY <2>1, <2>2
<1>11. /\ DOMAIN bss'.address = Vectors /\ DOMAIN bss'.instructions = Vectors
       /\ \A w \in Vectors : IF w \in Kept' THEN ~Came("status")' => KeptInPlace(w)' ELSE bss'.address[w] = 0
  BY DEF BootInv, MemoryInPlace, KeptInPlace
<1>12. \A w \in Vectors : mem'[w] \in {Ldr(TRUE), Ldr(FALSE), <<"b">>}
  BY <1>7 DEF BootInv, MemoryInPlace
<1> QED
  BY <1>6, <1>7, <1>9, <1>10, <1>11, <1>12 DEF MemoryInPlace

LEMMA RestoreKeeps ==
  ASSUME BootInv,
         \/ restore_handler(SWI_VECTOR, "timer_restored", "swi_restored")
         \/ restore_handler(IRQ_VECTOR, "swi_restored", "irq_restored")
  PROVE  BootInv'
<1>1. /\ \/ at = "timer_restored" /\ at' = "swi_restored"
         \/ at = "swi_restored" /\ at' = "irq_restored"
      /\ UNCHANGED <<lab, argc, cpsr, stack, intc, bss, irq_sp, ustack, result, swi_r8, handled>>
  BY DEF restore_handler, Goes, boot
<1>2. lab = 3 /\ result = <<"none">>
  BY <1>1 DEF BootInv, PlaceInPlace, Lab3Only
<1>3. Kept = Vectors /\ Kept' = Vectors /\ ~Came("status") /\ ~Came("status")'
  BY <1>1, <1>2 DEF Kept, Held, Came, Vectors
<1>4. MemoryInPlace' /\ \A w \in Vectors : mem'[w] = mem[w]
  <2>1. CASE restore_handler(SWI_VECTOR, "timer_restored", "swi_restored")
    <3>1. /\ at = "timer_restored" /\ at' = "swi_restored"
          /\ mem' = [mem EXCEPT ![bss.address[SWI_VECTOR]] = bss.instructions[SWI_VECTOR][1],
                                ![bss.address[SWI_VECTOR] + 1] = bss.instructions[SWI_VECTOR][2]]
      BY <2>1 DEF restore_handler, Goes
    <3>2. Held = Vectors /\ Held' = {IRQ_VECTOR}
      BY <1>1, <1>2, <3>1 DEF Held, Came, Vectors
    <3>3. SWI_VECTOR \in Held /\ SWI_VECTOR \in Kept /\ Held' = Held \ {SWI_VECTOR}
      BY <1>3, <3>2 DEF Vectors, SWI_VECTOR, IRQ_VECTOR
    <3> QED
      BY <1>1, <1>3, <3>1, <3>3, MemoryGiven
  <2>2. CASE restore_handler(IRQ_VECTOR, "swi_restored", "irq_restored")
    <3>1. /\ at = "swi_restored" /\ at' = "irq_restored"
          /\ mem' = [mem EXCEPT ![bss.address[IRQ_VECTOR]] = bss.instructions[IRQ_VECTOR][1],
                                ![bss.address[IRQ_VECTOR] + 1] = bss.instructions[IRQ_VECTOR][2]]
      BY <2>2 DEF restore_handler, Goes
    <3>2. Held = {IRQ_VECTOR} /\ Held' = {}
      BY <1>1, <1>2, <3>1 DEF Held, Came
    <3>3. IRQ_VECTOR \in Held /\ IRQ_VECTOR \in Kept /\ Held' = Held \ {IRQ_VECTOR}
      BY <1>3, <3>2 DEF Vectors
    <3> QED
      BY <1>1, <1>3, <3>1, <3>3, MemoryGiven
  <2> QED
    BY <2>1, <2>2
<1>5. PlaceInPlace'
  BY <1>1, <1>2 DEF BootInv, PlaceInPlace, Steps, Lab3Only
<1>6. ModeInPlace'
  BY <1>1, <1>2 DEF BootInv, ModeInPlace, Came
<1>7. StackInPlace'
  BY <1>1, <1>2 DEF BootInv, StackInPlace, Came, Entered
<1>8. VariablesInPlace'
  BY <1>1, <1>2 DEF BootInv, VariablesInPlace, Prepared
<1>9. RegistersInPlace'
  BY <1>1, <1>2 DEF BootInv, RegistersInPlace, Running, Restored, Entered, Came
<1> QED
  BY <1>1, <1>4, <1>5, <1>6, <1>7, <1>8, <1>9 DEF BootInv, Vectors

-----------------------------------------------------------------------------
(* The invariant, and what follows from it *)

LEMMA NextKeeps == ASSUME BootInv, [Next]_vars PROVE BootInv'
<1>1. CASE start
  BY <1>1, StartKeeps
<1>2. CASE lab2_start
  BY <1>2, Lab2StartKeeps
<1>3. CASE kmain
  BY <1>3, KmainKeeps
<1>4. CASE hijack_swi
  BY <1>4, HijackSwiKeeps
<1>5. CASE hijack_irq
  BY <1>5, HijackIrqKeeps
<1>6. CASE refuse
  BY <1>6, RefuseKeeps
<1>7. CASE irq_stack_setup
  BY <1>7, StackSetupKeeps
<1>8. CASE set_timer
  BY <1>8, SetTimerKeeps
<1>9. CASE user_mode_setup
  BY <1>9, UserSetupKeeps
<1>10. ASSUME NEW call, swihandler(call) PROVE BootInv'
  BY <1>10, SwiKeeps
<1>11. CASE timer_interrupt
  BY <1>11, InterruptKeeps
<1>12. CASE restore_timer
  BY <1>12, RestoreTimerKeeps
<1>13. CASE \/ restore_handler(SWI_VECTOR, "timer_restored", "swi_restored")
            \/ restore_handler(IRQ_VECTOR, "swi_restored", "irq_restored")
  BY <1>13, RestoreKeeps
<1>14. CASE exit_handler
  BY <1>14, ExitKeeps
<1>15. CASE lab2_exit_handler
  BY <1>15, Lab2ExitKeeps
<1>16. CASE UNCHANGED vars
  <2>1. UNCHANGED <<lab, argc, at, mem, cpsr, stack, intc, bss, irq_sp, ustack, result, swi_r8, handled>>
    BY <1>16 DEF vars, boot
  <2>2. Held' = Held /\ Kept' = Kept /\ (Came("status")' <=> Came("status"))
    BY <2>1 DEF Held, Kept, Came
  <2>3. MemoryInPlace'
    BY <2>1, <2>2, MemoryLeft
  <2>4. PlaceInPlace' /\ VariablesInPlace'
    BY <2>1 DEF BootInv, PlaceInPlace, VariablesInPlace, Prepared
  <2>5. ModeInPlace'
    BY <2>1 DEF BootInv, ModeInPlace, Came
  <2>6. StackInPlace'
    BY <2>1 DEF BootInv, StackInPlace, Came, Entered, Passed, CopyArgs, argv
  <2>7. RegistersInPlace'
    BY <2>1 DEF BootInv, RegistersInPlace, Running, Restored, Entered, Came
  <2> QED
    BY <2>1, <2>3, <2>4, <2>5, <2>6, <2>7 DEF BootInv
<1> QED
  BY <1>1, <1>2, <1>3, <1>4, <1>5, <1>6, <1>7, <1>8, <1>9, <1>10, <1>11, <1>12, <1>13,
     <1>14, <1>15, <1>16 DEF Next

\* Whatever U-Boot's vectors are and wherever its handlers lie, each word of memory,
\* register and stack is at every step where the boot code left it: the kernel's
\* while it is held, and kept while it is held (start.S, main.c, helper_functions.c).
THEOREM BootAlwaysInPlace == Spec => []BootInv
<1>1. Init => BootInv
  BY StartsInPlace
<1>2. BootInv /\ [Next]_vars => BootInv'
  BY NextKeeps
<1> QED
  BY <1>1, <1>2, PTL DEF Spec

LEMMA InvTypeOK == ASSUME BootInv PROVE TypeOK
<1>1. lab \in {2, 3, 4} /\ at \in Steps /\ argc \in Argcs
  BY DEF BootInv, PlaceInPlace
<1>2. cpsr[1] \in {"svc", "usr", "zero"} /\ cpsr[2] \in BOOLEAN
  <2>1. cpsr \in {<<"svc", FALSE>>, <<"svc", TRUE>>, <<"usr", FALSE>>, <<"usr", TRUE>>, <<"zero", TRUE>>}
    BY <1>1 DEF BootInv, ModeInPlace, lab2_mode, lab3_mode, Steps
  <2>2. \A c \in {<<"svc", FALSE>>, <<"svc", TRUE>>, <<"usr", FALSE>>, <<"usr", TRUE>>, <<"zero", TRUE>>} :
          c[1] \in {"svc", "usr", "zero"} /\ c[2] \in BOOLEAN
    <3>1. /\ <<"svc", FALSE>>[1] = "svc" /\ <<"svc", TRUE>>[1] = "svc" /\ <<"zero", TRUE>>[1] = "zero"
          /\ <<"usr", FALSE>>[1] = "usr" /\ <<"usr", TRUE>>[1] = "usr"
      OBVIOUS
    <3>2. \A m \in {"svc", "usr", "zero"} : <<m, FALSE>>[2] \in BOOLEAN /\ <<m, TRUE>>[2] \in BOOLEAN
      OBVIOUS
    <3> QED
      BY <3>1, <3>2, Zenon
  <2> QED
    BY <2>1, <2>2, Zenon
<1>3. DOMAIN mem = Words
  BY DEF BootInv, MemoryInPlace
<1>4. Len(stack) \in {0, 3, 10, 13} /\ bss.stack_pointer \in {0, 10}
  <2>1. stack \in {<<>>, Frame, Pushed, Pushed \o Frame}
    BY DEF BootInv, StackInPlace
  <2>2. Len(<<>>) = 0 /\ Len(Frame) = 3
    BY DEF Frame
  <2> QED
    BY <2>1, <2>2, TenWords, ThirteenWords DEF BootInv, VariablesInPlace
<1>5. ASSUME ~(lab = 2 /\ Exited), NEW v \in Vectors PROVE bss.address[v] \in Words \cup {0}
  <2>1. ~Came("status")
    BY <1>5 DEF BootInv, PlaceInPlace, Came, Exited
  <2>2. bss.address[v] \in {Inst[v][TRUE], 0}
    BY <2>1 DEF BootInv, MemoryInPlace, KeptInPlace
  <2> QED
    BY <2>2, Apart
<1>6. intc.OIER \subseteq {"E0", "E1"} /\ intc.ICLR \cup intc.ICMR \subseteq {"timer", "uart"}
  BY DEF BootInv, RegistersInPlace
<1> QED
  BY <1>1, <1>2, <1>3, <1>4, <1>5, <1>6 DEF TypeOK

\* The kernel's state is of its types at every step of boot and restore.
THEOREM BootTypeOK == Spec => []TypeOK
<1>1. BootInv => TypeOK
  BY InvTypeOK
<1> QED
  BY <1>1, BootAlwaysInPlace, PTL

\* No user program runs before every vector that the kernel needs leads to it: kmain
\* hands control over only after each hijacking that it asked for took place.
THEOREM VectorsAlwaysInHand == Spec => []VectorsInHand
<1>1. ASSUME BootInv PROVE VectorsInHand
  <2> SUFFICES ASSUME at = "user", NEW v \in Vectors \ (IF lab = 2 THEN {IRQ_VECTOR} ELSE {}),
                      mem[v] # Ldr(FALSE)
               PROVE  Leads(mem, v) = <<"kernel", Handler(v)>>
    BY DEF VectorsInHand
  <2>1. v \in Held
    BY DEF Held, Vectors
  <2> QED
    BY <1>1, <2>1, HeldLeads
<1>2. BootInv => VectorsInHand
  BY <1>1
<1> QED
  BY <1>2, BootAlwaysInPlace, PTL

\* With interrupts on, the timer's never meets U-Boot's handler or a mode that has no
\* stack, on the way up, in the user program and on the way down.
THEOREM InterruptsAlwaysReachKernel == Spec => []InterruptsReachKernel
<1>1. BootInv => InterruptsReachKernel
  BY DEF BootInv, InterruptsReachKernel
<1> QED
  BY <1>1, BootAlwaysInPlace, PTL

LEMMA InvRecoverable == ASSUME BootInv PROVE Recoverable
<1> SUFFICES ASSUME ~(lab = 2 /\ Exited), NEW a \in Words
             PROVE  LET vs == {v \in Vectors : bss.address[v] \in {a, a - 1} \ {0}}
                    IN  (IF vs = {} THEN mem[a]
                         ELSE LET v == CHOOSE w \in vs : TRUE
                              IN  bss.instructions[v][a - bss.address[v] + 1]) = BootMem[a]
  <2>1. BootMem = [a \in Words |-> BootMem[a]]
    BY BootWords DEF LaidOut
  <2> QED
    BY <2>1 DEF Recoverable
<1> DEFINE vs == {v \in Vectors : bss.address[v] \in {a, a - 1} \ {0}}
<1>1. ~Came("status") /\ Held \subseteq Kept /\ Kept \subseteq Vectors /\ a \in Int
  BY BootAssumption DEF BootInv, PlaceInPlace, Came, Exited, Held, Kept, Vectors
<1>2. \A v \in Vectors : IF v \in Kept THEN KeptInPlace(v) ELSE bss.address[v] = 0
  BY <1>1 DEF BootInv, MemoryInPlace
<1>3. \A v \in Vectors : v \in vs <=> v \in Kept /\ a \in {Inst[v][TRUE], Inst[v][TRUE] + 1}
  <2>1. SUFFICES ASSUME NEW v \in Vectors
                 PROVE  v \in vs <=> v \in Kept /\ a \in {Inst[v][TRUE], Inst[v][TRUE] + 1}
    OBVIOUS
  <2> DEFINE inst == Inst[v][TRUE]
  <2>2. inst \in Nat \ {0}
    BY Apart
  <2>3. v \in Kept => bss.address[v] = inst
    BY <1>2 DEF KeptInPlace
  <2>4. v \notin Kept => bss.address[v] = 0
    BY <1>2
  <2> HIDE DEF inst
  <2>5. v \in vs <=> v \in Kept /\ a \in {inst, inst + 1}
    BY <1>1, <2>2, <2>3, <2>4
  <2> QED
    BY <2>5 DEF inst
<1>4. CASE vs = {}
  <2>1. \A v \in Held : a \notin {Inst[v][TRUE], Inst[v][TRUE] + 1}
    BY <1>1, <1>3, <1>4
  <2> QED
    BY <1>4, <2>1 DEF BootInv, MemoryInPlace
<1>5. CASE vs # {}
  <2> DEFINE v == CHOOSE w \in vs : TRUE
             inst == Inst[v][TRUE]
  <2>1. v \in vs
    BY <1>5
  <2>2. v \in Vectors
    BY <2>1
  <2> HIDE DEF vs, v
  <2>3. v \in Kept /\ a \in {inst, inst + 1} /\ inst \in Nat
    BY <1>3, <2>1, <2>2, Apart
  <2>4. bss.address[v] = inst /\ bss.instructions[v] = <<<<"uboot", inst>>, <<"uboot", inst + 1>>>>
    BY <1>2, <2>2, <2>3 DEF KeptInPlace
  <2>5. BootMem[inst] = <<"uboot", inst>> /\ BootMem[inst + 1] = <<"uboot", inst + 1>>
    BY <2>2, BootWords DEF LaidOut
  <2> HIDE DEF inst
  <2>6. bss.instructions[v][a - bss.address[v] + 1] = BootMem[a]
    <3>1. CASE a = inst
      <4>1. a - bss.address[v] + 1 = 1
        BY <2>3, <2>4, <3>1
      <4> QED
        BY <2>4, <2>5, <3>1, <4>1
    <3>2. CASE a = inst + 1
      <4>1. a - bss.address[v] + 1 = 2
        BY <2>3, <2>4, <3>2
      <4> QED
        BY <2>4, <2>5, <3>2, <4>1
    <3> QED
      BY <2>3, <3>1, <3>2
  <2> QED
    BY <1>5, <2>6 DEF vs, v
<1> QED
  BY <1>4, <1>5

LEMMA InvExitRestores == ASSUME BootInv PROVE ExitRestores
<1> SUFFICES ASSUME Exited, lab = 3
             PROVE  /\ mem = BootMem /\ stack = <<>>
                    /\ Tail(result) = Pushed
                    /\ intc.OSMR0 = 7 /\ "E0" \notin intc.OIER
                    /\ "uart" \notin intc.ICMR /\ "timer" \notin intc.ICLR
  BY DEF ExitRestores
<1>1. Came("registers") /\ result = <<"registers">> \o Pushed
  BY DEF BootInv, PlaceInPlace, Exited, Came
<1>2. ~Came("status") /\ ~Came("0xbadc0de") /\ ~Came("none") /\ at = "uboot"
  BY <1>1 DEF Came
<1>3. mem = BootMem
  <2>1. Held = {}
    BY <1>2 DEF Held
  <2>2. mem = [a \in Words |-> mem[a]] /\ \A a \in Words : mem[a] = BootMem[a]
    BY <2>1 DEF BootInv, MemoryInPlace
  <2>3. BootMem = [a \in Words |-> BootMem[a]]
    BY BootWords DEF LaidOut
  <2> QED
    BY <2>2, <2>3
<1>4. stack = <<>>
  BY <1>1 DEF BootInv, StackInPlace
<1>5. Tail(result) = Pushed
  BY <1>1, TenWords, Behind
<1>6. Restored /\ ~Running
  BY <1>1, <1>2 DEF Running, Restored
<1> QED
  BY <1>3, <1>4, <1>5, <1>6 DEF BootInv, RegistersInPlace

\* At any step what the kernel saved undoes all that it wrote, even if the second
\* vector is refused; and exit of lab 3 undoes it (main.c, exit_handler.S).
THEOREM AlwaysGivenBack == Spec => []GivenBack
<1>1. BootInv => GivenBack
  BY InvRecoverable, InvExitRestores DEF GivenBack
<1> QED
  BY <1>1, BootAlwaysInPlace, PTL

\* However many arguments U-Boot passes, main finds them all in labs 3 and 4, and every
\* function of U-Boot that is called for the program finds its r8 in each lab.  In lab 2
\* nothing is known of the arguments: kernel.c:56 calls user_mode_setup() without any.
THEOREM AlwaysHandedOver == Spec => []HandedOver
<1>1. ASSUME BootInv PROVE HandedOver
  <2>1. ASSUME at = "user", lab # 2
        PROVE  /\ crt0.argc = argc
               /\ argc > 0 => crt0.argv = [i \in 1 .. argc + 1 |-> argv(i - 1)]
    <3> DEFINE rest == IF argc = 0 THEN <<>> ELSE CopyArgs
    <3>1. ustack = <<argc>> \o rest /\ argc \in Nat
      BY <1>1, <2>1, BootAssumption DEF BootInv, StackInPlace, PlaceInPlace, Passed
    <3>2. rest \in Seq({argv(i) : i \in Nat})
      <4>1. CASE argc = 0
        BY <4>1
      <4>2. CASE argc # 0
        <5>1. CopyArgs \in [1 .. argc + 1 -> {argv(i) : i \in Nat}]
          BY <3>1 DEF CopyArgs
        <5>2. CopyArgs \in Seq({argv(i) : i \in Nat})
          <6>1. argc + 1 \in Nat
            BY <3>1
          <6>2. \A S : \A n \in Nat : [1 .. n -> S] \subseteq Seq(S)
            BY SeqDef, Zenon
          <6> QED
            BY <5>1, <6>1, <6>2, Zenon
        <5> QED
          BY <4>2, <5>2
      <4> QED
        BY <4>1, <4>2
    <3> HIDE DEF rest
    <3>3. Head(ustack) = argc /\ Tail(ustack) = rest
      BY <3>1, <3>2, Behind
    <3> QED
      BY <3>3 DEF crt0, rest, CopyArgs
  <2> QED
    BY <1>1, <2>1 DEF HandedOver, ArgumentsPassed, GlobalDataFound, BootInv, StackInPlace
<1>2. BootInv => HandedOver
  BY <1>1
<1> QED
  BY <1>2, BootAlwaysInPlace, PTL
=============================================================================
