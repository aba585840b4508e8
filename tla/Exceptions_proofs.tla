------------------------- MODULE Exceptions_proofs -------------------------
(***************************************************************************)
(* Outside the three windows of swihandler, a tick does no harm: every     *)
(* task always finds its mode, its registers and an empty kernel stack     *)
(* again, for any number of tasks and wherever else ticks fall.            *)
(***************************************************************************)
EXTENDS Exceptions, SequenceTheorems, TLAPS

\* What the proofs assume of the places of ticks.
QuietWindows == TickAt \cap Windows = {}

Inv == TypeOK /\ ContextsInPlace

-----------------------------------------------------------------------------
(* Stacks *)

\* What is pushed is on top, and popping it gives back the stack.
LEMMA PushThenPop ==
  ASSUME NEW S, NEW s \in Seq(S), NEW x \in S
  PROVE  /\ Front(Append(s, x)) = s
         /\ Last(Append(s, x)) = x
         /\ Len(Append(s, x)) = Len(s) + 1
PROOF
<1> DEFINE p == Append(s, x)
<1>1. /\ p \in Seq(S) /\ Len(p) = Len(s) + 1 /\ Len(s) \in Nat
      /\ \A i \in 1 .. Len(s) : p[i] = s[i]
      /\ p[Len(s) + 1] = x
  BY AppendProperties
<1>2. Front(p) = SubSeq(p, 1, Len(s))
  BY <1>1 DEF Front
<1>3. /\ SubSeq(p, 1, Len(s)) \in Seq(S)
      /\ Len(SubSeq(p, 1, Len(s))) = Len(s)
      /\ \A i \in 1 .. Len(s) : SubSeq(p, 1, Len(s))[i] = p[i]
  <2>1. \A i \in 1 .. Len(s) : p[i] \in S
    BY <1>1
  <2> HIDE DEF p
  <2> QED BY <1>1, <2>1, SubSeqProperties
<1>4. SubSeq(p, 1, Len(s)) = s
  <2> HIDE DEF p
  <2> QED BY <1>1, <1>3, SeqEqual
<1>5. Last(p) = x
  BY <1>1 DEF Last
<1> QED BY <1>1, <1>2, <1>4, <1>5

\* The stacks of one and two frames.
LEMMA Pushes ==
  ASSUME NEW a, NEW b
  PROVE  /\ <<>> \in Seq({a, b}) /\ <<a>> \in Seq({a, b}) /\ <<a, b>> \in Seq({a, b})
         /\ Append(<<>>, a) = <<a>>
         /\ Append(<<a>>, b) = <<a, b>>
         /\ Len(<<>>) = 0 /\ Len(<<a>>) = 1 /\ Len(<<a, b>>) = 2
PROOF
<1> DEFINE S == {a, b}
           one == <<a>>
           two == <<a, b>>
           pushed == Append(one, b)
<1>1. <<>> \in Seq(S) /\ one \in Seq(S) /\ two \in Seq(S)
  OBVIOUS
<1>2. Len(<<>>) = 0 /\ Len(one) = 1 /\ Len(two) = 2
  OBVIOUS
<1>3. one[1] = a /\ two[1] = a /\ two[2] = b
  OBVIOUS
<1>4. Append(<<>>, a) = one
  BY <1>1, SeqEqual, AppendProperties
<1>5. pushed = two
  <2>1. pushed \in Seq(S) /\ Len(pushed) = 2 /\ pushed[1] = a /\ pushed[2] = b
    <3>1. b \in S
      OBVIOUS
    <3> HIDE DEF one, two, S
    <3>2. /\ pushed \in Seq(S) /\ Len(pushed) = Len(one) + 1
          /\ \A i \in 1 .. Len(one) : pushed[i] = one[i]
          /\ pushed[Len(one) + 1] = b
      BY <1>1, <3>1, AppendProperties
    <3> QED BY <1>2, <1>3, <3>2
  <2> HIDE DEF one, two, pushed
  <2> QED BY <1>1, <1>2, <1>3, <2>1, SeqEqual
<1> QED BY <1>1, <1>2, <1>4, <1>5

\* The stack of a task at each place.
LEMMA Stacks ==
  ASSUME NEW t
  PROVE  /\ StackAt(t, "user") = <<>>
         /\ StackAt(t, "launching") = <<>>
         /\ StackAt(t, "popped") = <<>>
         /\ StackAt(t, "saved") = <<SwiFrame(t, t, "usr")>>
         /\ StackAt(t, "bank_stored") = <<SwiFrame(t, t, "usr")>>
         /\ StackAt(t, "bank_popped") = <<SwiFrame(t, t, "usr")>>
         /\ StackAt(t, "psr_restored") = <<SwiFrame(t, t, "usr")>>
         /\ StackAt(t, "body") = <<SwiFrame(t, t, "usr"), BankFrame(t)>>
         /\ StackAt(t, "returned") = <<SwiFrame(t, t, "usr"), BankFrame(t)>>
         /\ StackAt(t, "bank_loaded") = <<SwiFrame(t, t, "usr"), BankFrame(t)>>
PROOF
BY DEF StackAt

\* Pushing on the stack of a place and popping again gives it back.
LEMMA PushPopAt ==
  ASSUME NEW t, NEW place \in Places, NEW f
  PROVE  /\ Front(Append(StackAt(t, place), f)) = StackAt(t, place)
         /\ Last(Append(StackAt(t, place), f)) = f
         /\ Len(Append(StackAt(t, place), f)) <= 3
         /\ Len(StackAt(t, place)) <= 2
PROOF
<1> DEFINE a == SwiFrame(t, t, "usr")
           b == BankFrame(t)
           S == {a, b, f}
<1>1. StackAt(t, place) \in {<<>>, <<a>>, <<a, b>>}
  BY Stacks DEF Places
<1>2. StackAt(t, place) \in Seq({a, b}) /\ Len(StackAt(t, place)) \in {0, 1, 2}
  <2> HIDE DEF a, b
  <2> QED BY <1>1, Pushes
<1>3. StackAt(t, place) \in Seq(S)
  <2> HIDE DEF a, b
  <2> QED BY <1>2, SeqMonotonic
<1>4. f \in S
  OBVIOUS
<1>5. /\ Front(Append(StackAt(t, place), f)) = StackAt(t, place)
      /\ Last(Append(StackAt(t, place), f)) = f
      /\ Len(Append(StackAt(t, place), f)) = Len(StackAt(t, place)) + 1
  <2> HIDE DEF S
  <2> QED BY <1>3, <1>4, PushThenPop
<1>6. Len(StackAt(t, place)) <= 2 /\ Len(Append(StackAt(t, place), f)) <= 3
  <2> DEFINE m == Len(StackAt(t, place))
             n == Len(Append(StackAt(t, place), f))
  <2>1. m \in {0, 1, 2} /\ n = m + 1
    BY <1>2, <1>5
  <2>2. m <= 2 /\ n <= 3
    <3> HIDE DEF m, n
    <3> QED BY <2>1
  <2> QED BY <2>2
<1> QED BY <1>5, <1>6

-----------------------------------------------------------------------------
(* Suspended tasks *)

\* While one task runs on, the suspended ones keep their stacks.
LEMMA OthersStay ==
  ASSUME SuspendedInPlace, cur' = cur, pc' # "resumed", suspended' = suspended,
         \A t \in Tasks \ {cur} : stack'[t] = stack[t]
  PROVE  SuspendedInPlace'
PROOF
<1> SUFFICES ASSUME NEW t \in Tasks, t # cur
             PROVE  /\ suspended[t] = "launch" => stack'[t] = <<>>
                    /\ suspended[t] = "body" => stack'[t] = StackAt(t, "body")
                    /\ suspended[t] = "irq" => InterruptedInPlace(t)'
  BY DEF SuspendedInPlace
<1>1. stack'[t] = stack[t]
  OBVIOUS
<1> QED BY <1>1 DEF SuspendedInPlace, InterruptedInPlace

\* A switch leaves the task that ran suspended in place.
LEMMA SwitchInPlace ==
  ASSUME TypeOK, SuspendedInPlace, pc # "resumed",
         NEW c \in Tasks, c = cur,
         NEW t \in Tasks \ {c}, NEW code \in {"body", "irq"}, SwitchTo(t, code),
         \A u \in Tasks \ {c} : stack'[u] = stack[u],
         code = "body" => stack'[c] = StackAt(c, "body"),
         code = "irq" => InterruptedInPlace(c)'
  PROVE  ContextsInPlace'
PROOF
<1>1. pc' = "resumed" /\ cur' = t /\ mode' = ModeAt(pc')
  BY DEF SwitchTo, ModeAt
<1>2. /\ suspended'[c] = code
      /\ \A u \in Tasks \ {c} : suspended'[u] = suspended[u]
  BY DEF SwitchTo, TypeOK
<1>3. RunningInPlace'
  BY <1>1 DEF RunningInPlace
<1>4. SuspendedInPlace'
  <2> SUFFICES ASSUME NEW u \in Tasks
               PROVE  /\ suspended'[u] = "launch" => stack'[u] = <<>>
                      /\ suspended'[u] = "body" => stack'[u] = StackAt(u, "body")
                      /\ suspended'[u] = "irq" => InterruptedInPlace(u)'
    BY DEF SuspendedInPlace
  <2>1. CASE u = c
    BY <2>1, <1>2
  <2>2. CASE u # c
    <3>1. stack'[u] = stack[u] /\ suspended'[u] = suspended[u]
      BY <2>2, <1>2
    <3>2. /\ suspended[u] = "launch" => stack[u] = <<>>
          /\ suspended[u] = "body" => stack[u] = StackAt(u, "body")
          /\ suspended[u] = "irq" => InterruptedInPlace(u)
      BY <2>2 DEF SuspendedInPlace
    <3>3. InterruptedInPlace(u) => InterruptedInPlace(u)'
      BY <3>1 DEF InterruptedInPlace
    <3> QED BY <3>1, <3>2, <3>3
  <2> QED BY <2>1, <2>2
<1> QED BY <1>3, <1>4 DEF ContextsInPlace

-----------------------------------------------------------------------------
(* The system call *)

\* Every step of swihandler leaves the running task in place.
LEMMA SwiInPlace ==
  ASSUME Inv, Swi
  PROVE  Inv'
PROOF
<1> DEFINE t == cur
           a == SwiFrame(t, t, "usr")
           b == BankFrame(t)
<1>1. /\ TypeOK /\ RunningInPlace /\ SuspendedInPlace
      /\ t \in Tasks /\ t \in Tasks \cup {LOST} /\ DOMAIN stack = Tasks
  BY DEF Inv, ContextsInPlace, TypeOK
<1>2. /\ Front(<<a>>) = <<>> /\ Last(<<a>>) = a
      /\ Front(<<a, b>>) = <<a>> /\ Last(<<a, b>>) = b
      /\ Append(<<>>, a) = <<a>> /\ Append(<<a>>, b) = <<a, b>>
  <2> HIDE DEF a, b
  <2>1. /\ <<>> \in Seq({a, b}) /\ <<a>> \in Seq({a, b})
        /\ Append(<<>>, a) = <<a>> /\ Append(<<a>>, b) = <<a, b>>
    BY Pushes
  <2>2. a \in {a, b} /\ b \in {a, b}
    OBVIOUS
  <2>3. Front(Append(<<>>, a)) = <<>> /\ Last(Append(<<>>, a)) = a
    BY <2>1, <2>2, PushThenPop
  <2>4. Front(Append(<<a>>, b)) = <<a>> /\ Last(Append(<<a>>, b)) = b
    BY <2>1, <2>2, PushThenPop
  <2> QED BY <2>1, <2>3, <2>4
<1>3. /\ a.regs = t /\ a.lr = t /\ a.psr = "usr" /\ b.ubank = t
  BY DEF SwiFrame, BankFrame
<1> HIDE DEF a, b
<1>4. /\ cur' = cur /\ suspended' = suspended
      /\ pc # "resumed" /\ pc' # "resumed"
      /\ \A u \in Tasks \ {cur} : stack'[u] = stack[u]
      /\ DOMAIN stack' = Tasks
  BY <1>1 DEF Swi, swihandler, store_bank, enter_body, body_return, load_bank, pop_bank,
              restore_psr, pop_registers, swi_return, Push, Pop
<1>5. SuspendedInPlace'
  BY <1>1, <1>4, OthersStay
<1>6. ASSUME swihandler
      PROVE  TypeOK' /\ RunningInPlace'
  <2>1. stack[t] = <<>> /\ RegistersAt(t, "user", regs, lr, ubank)
    BY <1>1, <1>6, Stacks DEF RunningInPlace, swihandler
  <2>2. stack'[t] = <<a>>
    BY <1>1, <1>2, <1>6, <2>1 DEF swihandler, Push, RegistersAt, a
  <2> QED BY <1>1, <1>4, <1>6, <2>1, <2>2, Stacks
         DEF swihandler, RunningInPlace, RegistersAt, ModeAt, TypeOK, Places, Modes, a
<1>7. ASSUME store_bank
      PROVE  TypeOK' /\ RunningInPlace'
  <2>1. stack[t] = <<a>> /\ mode = "svc" /\ ubank = t
    BY <1>1, <1>7, Stacks DEF RunningInPlace, RegistersAt, ModeAt, store_bank, a
  <2>2. below'[t] = t
    BY <1>1, <1>7, <2>1 DEF store_bank, TypeOK
  <2> QED BY <1>1, <1>4, <1>7, <2>1, <2>2, Stacks
         DEF store_bank, registers, RunningInPlace, RegistersAt, ModeAt, TypeOK, Places, a
<1>8. ASSUME enter_body
      PROVE  TypeOK' /\ RunningInPlace'
  <2>1. stack[t] = <<a>> /\ mode = "svc" /\ below[t] = t
    BY <1>1, <1>8, Stacks DEF RunningInPlace, ModeAt, enter_body, a
  <2>2. stack'[t] = <<a, b>>
    BY <1>1, <1>2, <1>8, <2>1 DEF enter_body, Push, b
  <2> QED BY <1>1, <1>4, <1>8, <2>1, <2>2, Stacks
         DEF enter_body, RunningInPlace, RegistersAt, ModeAt, TypeOK, Places, a, b
<1>9. ASSUME body_return
      PROVE  TypeOK' /\ RunningInPlace'
  <2>1. stack[t] = <<a, b>> /\ mode = "svc"
    BY <1>1, <1>9, Stacks DEF RunningInPlace, ModeAt, body_return, a, b
  <2> QED BY <1>1, <1>4, <1>9, <2>1, Stacks
         DEF body_return, registers, RunningInPlace, RegistersAt, ModeAt, TypeOK, Places, a, b
<1>10. ASSUME load_bank
       PROVE  TypeOK' /\ RunningInPlace'
  <2>1. stack[t] = <<a, b>> /\ mode = "svc"
    BY <1>1, <1>10, Stacks DEF RunningInPlace, ModeAt, load_bank, a, b
  <2>2. ubank' = t
    BY <1>2, <1>3, <1>10, <2>1 DEF load_bank, Top
  <2> QED BY <1>1, <1>4, <1>10, <2>1, <2>2, Stacks
         DEF load_bank, RunningInPlace, RegistersAt, ModeAt, TypeOK, Places, a, b
<1>11. ASSUME pop_bank
       PROVE  TypeOK' /\ RunningInPlace'
  <2>1. stack[t] = <<a, b>> /\ mode = "svc" /\ ubank = t
    BY <1>1, <1>11, Stacks DEF RunningInPlace, RegistersAt, ModeAt, pop_bank, a, b
  <2>2. stack'[t] = <<a>>
    BY <1>1, <1>2, <1>11, <2>1 DEF pop_bank, Pop
  <2> QED BY <1>1, <1>4, <1>11, <2>1, <2>2, Stacks
         DEF pop_bank, registers, RunningInPlace, RegistersAt, ModeAt, TypeOK, Places, a
<1>12. ASSUME restore_psr
       PROVE  TypeOK' /\ RunningInPlace'
  <2>1. stack[t] = <<a>> /\ mode = "svc" /\ ubank = t
    BY <1>1, <1>12, Stacks DEF RunningInPlace, RegistersAt, ModeAt, restore_psr, a
  <2>2. spsr' = "usr"
    BY <1>2, <1>3, <1>12, <2>1 DEF restore_psr, Top
  <2> QED BY <1>1, <1>4, <1>12, <2>1, <2>2, Stacks
         DEF restore_psr, registers, RunningInPlace, RegistersAt, ModeAt, TypeOK, Places, Modes, a
<1>13. ASSUME pop_registers
       PROVE  TypeOK' /\ RunningInPlace'
  <2>1. stack[t] = <<a>> /\ mode = "svc" /\ ubank = t /\ spsr = "usr"
    BY <1>1, <1>13, Stacks DEF RunningInPlace, RegistersAt, ModeAt, pop_registers, a
  <2>2. stack'[t] = <<>> /\ regs' = t /\ lr' = t
    BY <1>1, <1>2, <1>3, <1>13, <2>1 DEF pop_registers, Pop, Top
  <2> QED BY <1>1, <1>4, <1>13, <2>1, <2>2, Stacks
         DEF pop_registers, RunningInPlace, RegistersAt, ModeAt, TypeOK, Places
<1>14. ASSUME swi_return
       PROVE  TypeOK' /\ RunningInPlace'
  <2>1. stack[t] = <<>> /\ ubank = t /\ regs = t /\ spsr = "usr"
    BY <1>1, <1>14, Stacks DEF RunningInPlace, RegistersAt, swi_return
  <2> QED BY <1>1, <1>4, <1>14, <2>1, Stacks
         DEF swi_return, registers, RunningInPlace, RegistersAt, ModeAt, TypeOK, Places
<1> QED
  BY <1>5, <1>6, <1>7, <1>8, <1>9, <1>10, <1>11, <1>12, <1>13, <1>14
  DEF Swi, Inv, ContextsInPlace
-----------------------------------------------------------------------------
(* Switches and interrupts *)

\* A system call that switches away leaves its two frames.
LEMMA BodySwitchInPlace ==
  ASSUME Inv, NEW t \in Tasks \ {cur}, body_switch(t)
  PROVE  Inv'
PROOF
<1>1. /\ TypeOK /\ RunningInPlace /\ SuspendedInPlace /\ pc = "body" /\ SwitchTo(t, "body")
      /\ stack' = stack
  BY DEF Inv, ContextsInPlace, body_switch
<1>2. TypeOK'
  BY <1>1 DEF body_switch, SwitchTo, TypeOK, Modes
<1>3. PICK c \in Tasks : c = cur
  BY <1>1 DEF TypeOK
<1>4. stack'[c] = StackAt(c, "body")
  BY <1>1, <1>3 DEF RunningInPlace
<1>5. ContextsInPlace'
  BY <1>1, <1>3, <1>4, SwitchInPlace
<1> QED BY <1>2, <1>5 DEF Inv

\* The place where a switched-to system call goes on, and the launch of a task.
LEMMA ResumeInPlace ==
  ASSUME Inv, body_resume \/ launch_task \/ launched
  PROVE  Inv'
PROOF
<1>1. /\ TypeOK /\ RunningInPlace /\ SuspendedInPlace /\ cur \in Tasks
  BY DEF Inv, ContextsInPlace, TypeOK
<1>2. /\ cur' = cur /\ suspended' = suspended /\ stack' = stack /\ pc' # "resumed"
  BY DEF body_resume, launch_task, launched
<1>3. SuspendedInPlace'
  BY <1>1, <1>2, OthersStay
<1>4. ASSUME body_resume
      PROVE  TypeOK' /\ RunningInPlace'
  <2>1. stack[cur] = StackAt(cur, "body") /\ mode = "svc"
    BY <1>1, <1>4 DEF SuspendedInPlace, RunningInPlace, ModeAt, body_resume
  <2> QED BY <1>1, <1>2, <1>4, <2>1
         DEF body_resume, registers, RunningInPlace, RegistersAt, ModeAt, TypeOK, Places
<1>5. ASSUME launch_task
      PROVE  TypeOK' /\ RunningInPlace'
  <2>1. stack[cur] = StackAt(cur, "launching")
    BY <1>1, <1>5, Stacks DEF SuspendedInPlace, launch_task
  <2> QED BY <1>1, <1>2, <1>5, <2>1
         DEF launch_task, RunningInPlace, RegistersAt, ModeAt, TypeOK, Places, Modes
<1>6. ASSUME launched
      PROVE  TypeOK' /\ RunningInPlace'
  <2>1. stack[cur] = StackAt(cur, "user") /\ regs = cur /\ mode = "usr"
    BY <1>1, <1>6, Stacks DEF RunningInPlace, RegistersAt, ModeAt, launched
  <2> QED BY <1>1, <1>2, <1>6, <2>1
         DEF launched, RunningInPlace, RegistersAt, ModeAt, TypeOK, Places
<1> QED BY <1>3, <1>4, <1>5, <1>6 DEF Inv, ContextsInPlace

\* A tick that switches nobody is not seen by the interrupted code.
LEMMA TickInPlace ==
  ASSUME Inv, QuietWindows, irq_wrapper
  PROVE  Inv'
PROOF
<1>1. /\ TypeOK /\ RunningInPlace /\ SuspendedInPlace /\ cur \in Tasks
  BY DEF Inv, ContextsInPlace, TypeOK
<1>2. /\ cur' = cur /\ suspended' = suspended /\ stack' = stack /\ pc' = pc
      /\ pc \in Places \ Windows
  BY ExceptionsAssumption DEF irq_wrapper, Interrupted, QuietWindows
<1>3. pc \notin {"resumed", "bank_stored", "psr_restored", "popped"}
  BY <1>2 DEF Places, Windows
<1>4. SuspendedInPlace'
  BY <1>1, <1>2, <1>3, OthersStay
<1>5. TypeOK'
  BY <1>1 DEF irq_wrapper, Interrupted, registers, TypeOK
<1>6. RunningInPlace'
  BY <1>1, <1>2, <1>3 DEF irq_wrapper, registers, RunningInPlace, RegistersAt
<1> QED BY <1>4, <1>5, <1>6 DEF Inv, ContextsInPlace

\* A tick that switches leaves a frame from which the task can go on.
LEMMA TickSwitchInPlace ==
  ASSUME Inv, QuietWindows, NEW t \in Tasks \ {cur}, irq_switch(t)
  PROVE  Inv'
PROOF
<1>1. /\ TypeOK /\ RunningInPlace /\ SuspendedInPlace /\ SwitchTo(t, "irq") /\ DOMAIN stack = Tasks
  BY DEF Inv, ContextsInPlace, irq_switch, TypeOK
<1>2. PICK c \in Tasks : c = cur
  BY <1>1 DEF TypeOK
<1>3. pc \in Places \ Windows /\ pc # "resumed"
  BY ExceptionsAssumption DEF irq_switch, Interrupted, QuietWindows, Places
<1>4. TypeOK'
  BY <1>1 DEF irq_switch, Interrupted, SwitchTo, Push, TypeOK, Modes
<1>5. /\ stack'[c] = Append(stack[c], IrqFrame)
      /\ \A u \in Tasks \ {c} : stack'[u] = stack[u]
  BY <1>1, <1>2 DEF irq_switch, Push
<1>6. InterruptedInPlace(c)'
  <2>1. /\ stack[c] = StackAt(c, pc) /\ mode = ModeAt(pc)
        /\ RegistersAt(c, pc, regs, lr, ubank)
    BY <1>1, <1>2, <1>3 DEF RunningInPlace
  <2>2. stack'[c] = Append(StackAt(c, pc), [regs |-> regs, lr |-> lr, psr |-> ModeAt(pc),
                                           pc |-> pc, ubank |-> ubank])
    BY <1>5, <2>1 DEF IrqFrame
  <2>3. regs \in Tasks \cup {LOST} /\ lr \in Tasks \cup {LOST} /\ ubank \in Tasks \cup {LOST}
    BY <1>1 DEF TypeOK
  <2> QED BY <1>3, <2>1, <2>2, <2>3 DEF InterruptedInPlace
<1>7. ContextsInPlace'
  BY <1>1, <1>2, <1>3, <1>5, <1>6, SwitchInPlace
<1> QED BY <1>4, <1>7 DEF Inv

\* A task switched away by a tick goes on as if nothing had been.
LEMMA TickResumeInPlace ==
  ASSUME Inv, irq_resume
  PROVE  Inv'
PROOF
<1>1. /\ TypeOK /\ SuspendedInPlace /\ cur \in Tasks /\ DOMAIN stack = Tasks
  BY DEF Inv, ContextsInPlace, TypeOK
<1>2. InterruptedInPlace(cur)
  BY <1>1 DEF irq_resume, SuspendedInPlace
<1>3. PICK place \in Places \ Windows, r, l, b \in Tasks \cup {LOST} :
        /\ stack[cur] = Append(StackAt(cur, place),
                    [regs |-> r, lr |-> l, psr |-> ModeAt(place), pc |-> place, ubank |-> b])
        /\ RegistersAt(cur, place, r, l, b)
  BY <1>2 DEF InterruptedInPlace
<1> DEFINE f == [regs |-> r, lr |-> l, psr |-> ModeAt(place), pc |-> place, ubank |-> b]
<1>4. Top = f /\ Front(stack[cur]) = StackAt(cur, place)
  <2> HIDE DEF f
  <2> QED BY <1>3, PushPopAt DEF Top, f
<1>5. /\ cur' = cur /\ suspended' = suspended /\ below' = below /\ irq' = TRUE
      /\ pc' = place /\ mode' = ModeAt(place) /\ spsr' = ModeAt(place)
      /\ regs' = r /\ lr' = l /\ ubank' = b
  BY <1>4 DEF irq_resume
<1>6. /\ stack'[cur] = StackAt(cur, place)
      /\ \A u \in Tasks \ {cur} : stack'[u] = stack[u]
      /\ DOMAIN stack' = Tasks
  BY <1>1, <1>4 DEF irq_resume, Pop
<1>7. pc' \notin {"resumed", "bank_stored", "psr_restored", "popped"}
  BY <1>5 DEF Places, Windows
<1>8. SuspendedInPlace'
  BY <1>1, <1>5, <1>6, <1>7, OthersStay
<1>9. RunningInPlace'
  BY <1>3, <1>5, <1>6, <1>7 DEF RunningInPlace
<1>10. TypeOK'
  BY <1>1, <1>3, <1>5, <1>6 DEF TypeOK, ModeAt, Modes
<1> QED BY <1>8, <1>9, <1>10 DEF Inv, ContextsInPlace

-----------------------------------------------------------------------------
(* Theorems *)

\* The first task is about to be launched, every other one too.
LEMMA InitInPlace == Init => Inv
PROOF
BY ExceptionsAssumption
DEF Init, Inv, TypeOK, Modes, ContextsInPlace, RunningInPlace, ModeAt, SuspendedInPlace

\* No step puts anything out of place.
LEMMA StepInPlace ==
  ASSUME Inv, QuietWindows, [Next]_vars
  PROVE  Inv'
PROOF
<1>1. CASE Swi
  BY <1>1, SwiInPlace
<1>2. CASE \E t \in Tasks \ {cur} : body_switch(t)
  BY <1>2, BodySwitchInPlace
<1>3. CASE body_resume \/ launch_task \/ launched
  BY <1>3, ResumeInPlace
<1>4. CASE irq_wrapper
  BY <1>4, TickInPlace
<1>5. CASE \E t \in Tasks \ {cur} : irq_switch(t)
  BY <1>5, TickSwitchInPlace
<1>6. CASE irq_resume
  BY <1>6, TickResumeInPlace
<1>7. CASE UNCHANGED vars
  BY <1>7 DEF vars, registers, Inv, TypeOK, ContextsInPlace, RunningInPlace, SuspendedInPlace,
              InterruptedInPlace
<1> QED BY <1>1, <1>2, <1>3, <1>4, <1>5, <1>6, <1>7 DEF Next

\* Types, and what every place says of registers and stacks, hold throughout.
THEOREM ContextsAlwaysInPlace ==
  QuietWindows => (Spec => [](TypeOK /\ ContextsInPlace))
PROOF
<1> SUFFICES ASSUME QuietWindows PROVE Spec => []Inv
  BY DEF Inv
<1>1. Init => Inv
  BY InitInPlace
<1>2. Inv /\ [Next]_vars => Inv'
  BY StepInPlace
<1> QED BY <1>1, <1>2, PTL DEF Spec

\* What the invariant says of a task that runs.
LEMMA InPlaceSuffices ==
  ASSUME Inv
  PROVE  RunsInUserMode /\ FindsOwnRegisters /\ StacksBounded
PROOF
<1>1. /\ TypeOK /\ RunningInPlace /\ SuspendedInPlace /\ cur \in Tasks
  BY DEF Inv, ContextsInPlace, TypeOK
<1>2. RunsInUserMode
  BY <1>1 DEF RunsInUserMode, RunningInPlace, ModeAt
<1>3. FindsOwnRegisters
  BY <1>1 DEF FindsOwnRegisters, RunningInPlace, RegistersAt
<1>4. pc \in {"user", "launching"} => stack[cur] = <<>>
  BY <1>1, Stacks DEF RunningInPlace
<1>5. ASSUME NEW t \in Tasks
      PROVE  Len(stack[t]) <= 3
  <2>1. CASE t = cur /\ pc # "resumed"
    <3>1. stack[t] = StackAt(t, pc) /\ pc \in Places
      BY <1>1, <2>1 DEF RunningInPlace, TypeOK
    <3>2. Len(StackAt(t, pc)) <= 2 /\ Len(StackAt(t, pc)) \in Nat
      BY <3>1, PushPopAt
    <3> QED BY <3>1, <3>2
  <2>2. CASE ~(t = cur /\ pc # "resumed") /\ suspended[t] = "launch"
    <3>1. stack[t] = <<>>
      BY <1>1, <2>2 DEF SuspendedInPlace
    <3> QED BY <3>1
  <2>3. CASE ~(t = cur /\ pc # "resumed") /\ suspended[t] = "body"
    <3>1. stack[t] = StackAt(t, "body")
      BY <1>1, <2>3 DEF SuspendedInPlace
    <3>2. Len(StackAt(t, "body")) <= 2 /\ Len(StackAt(t, "body")) \in Nat
      BY PushPopAt DEF Places
    <3> QED BY <3>1, <3>2
  <2>4. CASE ~(t = cur /\ pc # "resumed") /\ suspended[t] = "irq"
    <3>1. InterruptedInPlace(t)
      BY <1>1, <2>4 DEF SuspendedInPlace
    <3>2. PICK place, f : place \in Places /\ stack[t] = Append(StackAt(t, place), f)
      BY <3>1 DEF InterruptedInPlace
    <3> QED BY <3>2, PushPopAt
  <2> QED BY <1>1, <2>1, <2>2, <2>3, <2>4 DEF TypeOK
<1> QED BY <1>2, <1>3, <1>4, <1>5 DEF StacksBounded

\* Registers, modes and kernel stacks are of their types at every step of an entry,
\* an exit or a context switch, if no tick falls in a window.
THEOREM TypesAlwaysKept == QuietWindows => (Spec => []TypeOK)
PROOF
<1> SUFFICES ASSUME QuietWindows PROVE Spec => []TypeOK
  OBVIOUS
<1>1. Spec => [](TypeOK /\ ContextsInPlace)
  BY ContextsAlwaysInPlace
<1> QED BY <1>1, PTL

\* Every task always runs in user mode, if no tick falls in a window.
THEOREM AlwaysInUserMode == QuietWindows => (Spec => []RunsInUserMode)
PROOF
<1> SUFFICES ASSUME QuietWindows PROVE Spec => []RunsInUserMode
  OBVIOUS
<1>1. TypeOK /\ ContextsInPlace => RunsInUserMode
  BY InPlaceSuffices DEF Inv
<1>2. Spec => [](TypeOK /\ ContextsInPlace)
  BY ContextsAlwaysInPlace
<1> QED BY <1>1, <1>2, PTL

\* Every task always goes on with its own registers, if no tick falls in a window.
THEOREM RegistersAlwaysFound == QuietWindows => (Spec => []FindsOwnRegisters)
PROOF
<1> SUFFICES ASSUME QuietWindows PROVE Spec => []FindsOwnRegisters
  OBVIOUS
<1>1. TypeOK /\ ContextsInPlace => FindsOwnRegisters
  BY InPlaceSuffices DEF Inv
<1>2. Spec => [](TypeOK /\ ContextsInPlace)
  BY ContextsAlwaysInPlace
<1> QED BY <1>1, <1>2, PTL

\* No kernel stack ever holds more than three frames, and that of a task in its
\* own code holds none.
THEOREM StacksAlwaysBounded == QuietWindows => (Spec => []StacksBounded)
PROOF
<1> SUFFICES ASSUME QuietWindows PROVE Spec => []StacksBounded
  OBVIOUS
<1>1. TypeOK /\ ContextsInPlace => StacksBounded
  BY InPlaceSuffices DEF Inv
<1>2. Spec => [](TypeOK /\ ContextsInPlace)
  BY ContextsAlwaysInPlace
<1> QED BY <1>1, <1>2, PTL
=============================================================================
