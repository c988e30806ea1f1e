------------------------ MODULE UrusSchedulerProofs ------------------------
(***************************************************************************)
(* For every number of drivers and every depth of nesting: the flags of    *)
(* _run_timer_procs do on the AVR what a lock would, and on both cores no  *)
(* driver is called before it is registered.                               *)
(***************************************************************************)
EXTENDS UrusScheduler, SequenceTheorems, FiniteSetTheorems, TLAPS

Pc == MainPc \cup RunPc
Act == [pc : Pc, i : 0 .. MAX_TIMER_PROCS]

\* Past the entry of _run_timer_procs and not yet out.
Inside == {"test", "missed", "loop", "proc", "failsafe"}

\* A slot below the count is filled, the slot at the count is filled when it is about
\* to be counted, and a loop that has found a driver is below the count.
TableInv ==
    /\ \A i \in Slot : i < num_timer_procs => timer_proc[i] # null
    /\ Len(act) >= 1 /\ act[1].pc = "count" =>
          num_timer_procs \in Slot /\ timer_proc[num_timer_procs] # null
    /\ \A k \in 1 .. Len(act) : act[k].pc = "proc" => act[k].i < num_timer_procs

\* The flag and the activations inside; one that is about to enter has found the
\* flag clear, so nobody below it on the stack is inside.
LockInv ==
    /\ in_timer_proc <=> \E k \in 1 .. Len(act) : act[k].pc \in Inside
    /\ \A j, k \in 1 .. Len(act) : act[j].pc \in Inside /\ act[k].pc \in Inside => j = k
    /\ \A j, k \in 1 .. Len(act) : act[k].pc = "enter" /\ j < k => act[j].pc \notin Inside

\* Suspension changes only when the main loop is alone on the stack.
SuspendInv ==
    /\ \A k \in 1 .. Len(act) : timer_suspended => act[k].pc \notin {"loop", "proc"}
    /\ \A k \in 1 .. Len(act) : act[k].pc = "missed" => timer_suspended
    /\ timer_event_missed /\ ~timer_suspended => act[1].pc \in {"resumed", "forget"}

\* The AVR has no IO thread, and its main loop stays on the stack.
AvrInv ==
    /\ Len(act) >= 1
    /\ \A k \in 1 .. Len(act) : act[k].pc \notin {"io", "io_missed", "io_proc"}
    /\ LockInv /\ SuspendInv

SchedInv == TypeOK /\ TableInv /\ (core = "AVR" => AvrInv)

-----------------------------------------------------------------------------
(* What a step does to the activations.                                    *)

\* The activations are a sequence.
LEMMA ActSeq ==
    ASSUME TypeOK
    PROVE  /\ act \in Seq(Act) /\ Len(act) \in Nat /\ DOMAIN act = 1 .. Len(act)
           /\ \A k \in 1 .. Len(act) : act[k] \in Act /\ act[k].pc \in Pc /\ act[k].i \in 0 .. MAX_TIMER_PROCS
<1>1. act \in Seq(Act)
  BY DEF TypeOK, Act, Pc
<1>2. Len(act) \in Nat /\ DOMAIN act = 1 .. Len(act)
  BY <1>1, LenProperties
<1>3. \A k \in 1 .. Len(act) : act[k] \in Act
  BY <1>1, ElementOfSeq
<1> QED
  BY <1>1, <1>2, <1>3 DEF Act

\* Goto moves one activation.
LEMMA GotoShape ==
    ASSUME TypeOK, NEW k \in DOMAIN act, NEW pc \in Pc, NEW i \in 0 .. MAX_TIMER_PROCS, Goto(k, pc, i)
    PROVE  /\ act' \in Seq(Act) /\ Len(act') = Len(act)
           /\ act'[k].pc = pc /\ act'[k].i = i
           /\ \A j \in 1 .. Len(act) : j # k => act'[j] = act[j]
<1>1. Activation(pc, i) \in Act /\ Activation(pc, i).pc = pc /\ Activation(pc, i).i = i
  BY DEF Act, Activation
<1>2. k \in 1 .. Len(act) /\ act \in Seq(Act)
  BY ActSeq
<1> QED
  BY <1>1, <1>2, ExceptSeq DEF Goto

\* A return from an interrupt takes the last activation away.
LEMMA LeaveShape ==
    ASSUME TypeOK, Len(act) >= 1, Leave
    PROVE  /\ act' \in Seq(Act) /\ Len(act') = Len(act) - 1
           /\ \A j \in 1 .. Len(act) - 1 : act'[j] = act[j]
<1>1. Len(act) \in Nat /\ \A j \in 1 .. Len(act) - 1 : act[j] \in Act
  BY ActSeq
<1> DEFINE n == Len(act) - 1
<1>2. n \in Nat /\ \A j \in 1 .. n : act[j] \in Act
  BY <1>1
<1> HIDE DEF n
<1>3. /\ SubSeq(act, 1, n) \in Seq(Act)
      /\ Len(SubSeq(act, 1, n)) = IF 1 <= n THEN n - 1 + 1 ELSE 0
      /\ \A j \in 1 .. n - 1 + 1 : SubSeq(act, 1, n)[j] = act[1 + j - 1]
  BY <1>2, SubSeqProperties
<1>4. /\ SubSeq(act, 1, n) \in Seq(Act)
      /\ Len(SubSeq(act, 1, n)) = n
      /\ \A j \in 1 .. n : SubSeq(act, 1, n)[j] = act[j]
  BY <1>2, <1>3
<1>5. act' = SubSeq(act, 1, n)
  BY DEF Leave, n
<1> QED
  BY <1>4, <1>5 DEF n

\* An interrupt puts one on top.
LEMMA InterruptShape ==
    ASSUME TypeOK, Interrupt
    PROVE  /\ act' \in Seq(Act) /\ Len(act') = Len(act) + 1
           /\ act'[Len(act) + 1].pc = "check"
           /\ \A j \in 1 .. Len(act) : act'[j] = act[j]
<1>1. Activation("check", 0) \in Act /\ Activation("check", 0).pc = "check"
  BY BoundAssumption DEF Act, Activation, Pc, RunPc
<1>2. act \in Seq(Act) /\ act' = Append(act, Activation("check", 0))
  BY ActSeq DEF Interrupt
<1> QED
  BY <1>1, <1>2, AppendProperties

\* Typing of the other variables carries over.
LEMMA TypeStep ==
    ASSUME TypeOK, UNCHANGED core, act' \in Seq(Act),
           timer_suspended' \in BOOLEAN, timer_event_missed' \in BOOLEAN, in_timer_proc' \in BOOLEAN,
           timer_proc' \in [Slot -> Proc \cup {null}], num_timer_procs' \in 0 .. MAX_TIMER_PROCS
    PROVE  TypeOK'
BY DEF TypeOK, Act, Pc

-----------------------------------------------------------------------------
(* What keeps the table of drivers.                                        *)

\* Moving an activation keeps the table, if it enters a driver below the count only.
LEMMA MoveKeepsTable ==
    ASSUME TypeOK, TableInv, NEW k \in DOMAIN act, NEW pc \in Pc, NEW i \in 0 .. MAX_TIMER_PROCS,
           Goto(k, pc, i), UNCHANGED procs, pc # "count", pc = "proc" => i < num_timer_procs
    PROVE  TableInv'
<1>1. Len(act) \in Nat /\ k \in 1 .. Len(act)
  BY ActSeq
<1>2. /\ Len(act') = Len(act)
      /\ act'[k].pc = pc /\ act'[k].i = i
      /\ \A j \in 1 .. Len(act) : j # k => act'[j] = act[j]
  BY GotoShape
<1> QED
  BY <1>1, <1>2 DEF TableInv, procs

\* A return from an interrupt keeps it.
LEMMA LeaveKeepsTable ==
    ASSUME TypeOK, TableInv, Len(act) >= 1, Leave, UNCHANGED procs
    PROVE  TableInv'
<1>1. Len(act) \in Nat
  BY ActSeq
<1>2. Len(act') = Len(act) - 1 /\ \A j \in 1 .. Len(act) - 1 : act'[j] = act[j]
  BY LeaveShape
<1> QED
  BY <1>1, <1>2 DEF TableInv, procs

-----------------------------------------------------------------------------
(* What keeps the flags true on the AVR, where the last activation runs.   *)

\* A move that neither enters nor leaves keeps the lock, if nobody is inside when it
\* gets ready to enter.
LEMMA MoveKeepsLock ==
    ASSUME TypeOK, LockInv, NEW pc \in Pc, NEW i \in 0 .. MAX_TIMER_PROCS, Len(act) >= 1,
           Goto(Len(act), pc, i), UNCHANGED in_timer_proc,
           pc \in Inside <=> act[Len(act)].pc \in Inside,
           pc = "enter" => ~in_timer_proc
    PROVE  LockInv'
<1> DEFINE n == Len(act)
<1>1. n \in Nat /\ n \in 1 .. n /\ n \in DOMAIN act
  BY ActSeq
<1>2. /\ Len(act') = n
      /\ act'[n].pc = pc
      /\ \A j \in 1 .. n : j # n => act'[j] = act[j]
  BY <1>1, GotoShape
<1>3. \A j \in 1 .. n : act'[j].pc \in Inside <=> act[j].pc \in Inside
  BY <1>2
<1>4. \A j, k \in 1 .. n : act'[k].pc = "enter" /\ j < k => act'[j].pc \notin Inside
  BY <1>1, <1>2, <1>3 DEF LockInv
<1> QED
  BY <1>2, <1>3, <1>4 DEF LockInv

\* A return of an activation that was not inside keeps it, and so does the return of
\* the one that was, with the flag cleared.
LEMMA LeaveKeepsLock ==
    ASSUME TypeOK, LockInv, Len(act) >= 1, Leave, in_timer_proc \in BOOLEAN,
           \/ act[Len(act)].pc \notin Inside /\ UNCHANGED in_timer_proc
           \/ act[Len(act)].pc \in Inside /\ in_timer_proc' = FALSE
    PROVE  LockInv'
<1> DEFINE n == Len(act)
<1>1. n \in Nat /\ n \in 1 .. n
  BY ActSeq
<1>2. Len(act') = n - 1 /\ \A j \in 1 .. n - 1 : act'[j] = act[j]
  BY LeaveShape
<1>3. in_timer_proc' <=> \E j \in 1 .. n - 1 : act[j].pc \in Inside
  BY <1>1 DEF LockInv
<1> QED
  BY <1>1, <1>2, <1>3 DEF LockInv

\* Entering: the one at the entry is on top, and nobody below it is inside.
LEMMA EnterKeepsLock ==
    ASSUME TypeOK, LockInv, Len(act) >= 1, act[Len(act)].pc = "enter",
           Goto(Len(act), "test", 0), in_timer_proc' = TRUE
    PROVE  LockInv'
<1> DEFINE n == Len(act)
<1>1. n \in Nat /\ n \in 1 .. n /\ n \in DOMAIN act /\ 0 \in 0 .. MAX_TIMER_PROCS
  BY ActSeq, BoundAssumption
<1>2. "test" \in Pc /\ "test" \in Inside /\ "enter" \notin Inside
  BY DEF Pc, RunPc, Inside
<1>3. /\ Len(act') = n
      /\ act'[n].pc = "test"
      /\ \A j \in 1 .. n : j # n => act'[j] = act[j]
  BY <1>1, <1>2, GotoShape
<1>4. \A j \in 1 .. n : j # n => act'[j].pc \notin Inside
  BY <1>1, <1>3 DEF LockInv
<1> QED
  BY <1>1, <1>2, <1>3, <1>4 DEF LockInv

\* The main loop leaves: it was inside and is not any more.
LEMMA OutKeepsLock ==
    ASSUME TypeOK, LockInv, Len(act) = 1, act[1].pc \in Inside,
           Goto(1, "idle", 0), in_timer_proc' = FALSE
    PROVE  LockInv'
<1>1. 1 \in DOMAIN act /\ 0 \in 0 .. MAX_TIMER_PROCS /\ "idle" \in Pc /\ "idle" \notin Inside
  BY ActSeq, BoundAssumption DEF Pc, MainPc, Inside
<1>2. Len(act') = 1 /\ act'[1].pc = "idle"
  BY <1>1, GotoShape
<1> QED
  BY <1>1, <1>2 DEF LockInv

\* A move that leaves suspension alone and respects it.
LEMMA MoveKeepsSuspend ==
    ASSUME TypeOK, SuspendInv, NEW pc \in Pc, NEW i \in 0 .. MAX_TIMER_PROCS, Len(act) >= 1,
           Goto(Len(act), pc, i), UNCHANGED timer_suspended,
           timer_event_missed' => timer_event_missed \/ timer_suspended,
           pc \in {"loop", "proc"} => ~timer_suspended,
           pc = "missed" => timer_suspended,
           act[Len(act)].pc \in {"resumed", "forget"} /\ timer_event_missed' /\ ~timer_suspended
               => pc \in {"resumed", "forget"}
    PROVE  SuspendInv'
<1> DEFINE n == Len(act)
<1>1. n \in Nat /\ n \in 1 .. n /\ n \in DOMAIN act
  BY ActSeq
<1>2. /\ Len(act') = n
      /\ act'[n].pc = pc
      /\ \A j \in 1 .. n : j # n => act'[j] = act[j]
  BY <1>1, GotoShape
<1> QED
  BY <1>1, <1>2 DEF SuspendInv

\* A return from an interrupt keeps suspension.
LEMMA LeaveKeepsSuspend ==
    ASSUME TypeOK, SuspendInv, Len(act) >= 2, Leave, UNCHANGED <<timer_suspended, timer_event_missed>>
    PROVE  SuspendInv'
<1>1. Len(act) \in Nat
  BY ActSeq
<1>2. Len(act') = Len(act) - 1 /\ \A j \in 1 .. Len(act) - 1 : act'[j] = act[j]
  BY LeaveShape, <1>1
<1> QED
  BY <1>1, <1>2 DEF SuspendInv

-----------------------------------------------------------------------------
(* Steps.                                                                  *)

\* Most steps move one activation and leave the table and _in_timer_proc alone.
LEMMA MoveStep ==
    ASSUME SchedInv, UNCHANGED <<core, procs, timer_suspended, in_timer_proc>>,
           NEW k, Runs(k), NEW pc \in Pc, NEW i \in 0 .. MAX_TIMER_PROCS, Goto(k, pc, i),
           timer_event_missed' \in BOOLEAN, pc # "count", pc = "proc" => i < num_timer_procs,
           core = "AVR" =>
              /\ pc \notin {"io", "io_missed", "io_proc"}
              /\ pc \in Inside <=> act[k].pc \in Inside
              /\ pc = "enter" => ~in_timer_proc
              /\ timer_event_missed' => timer_event_missed \/ timer_suspended
              /\ pc \in {"loop", "proc"} => ~timer_suspended
              /\ pc = "missed" => timer_suspended
              /\ act[k].pc \in {"resumed", "forget"} /\ timer_event_missed' /\ ~timer_suspended
                     => pc \in {"resumed", "forget"}
    PROVE  SchedInv'
<1>1. k \in DOMAIN act /\ TypeOK /\ TableInv
  BY DEF Runs, SchedInv
<1>2. /\ act' \in Seq(Act) /\ Len(act') = Len(act) /\ act'[k].pc = pc
      /\ \A j \in 1 .. Len(act) : j # k => act'[j] = act[j]
  BY <1>1, GotoShape
<1>3. TypeOK'
  BY <1>1, <1>2, TypeStep DEF TypeOK, procs
<1>4. TableInv'
  BY <1>1, MoveKeepsTable
<1>5. ASSUME core = "AVR" PROVE AvrInv'
  <2>1. k = Len(act) /\ Len(act) >= 1 /\ AvrInv
    BY <1>5 DEF Runs, SchedInv, AvrInv
  <2>2. LockInv'
    BY <1>1, <1>5, <2>1, MoveKeepsLock DEF AvrInv
  <2>3. SuspendInv'
    BY <1>1, <1>5, <2>1, MoveKeepsSuspend DEF AvrInv
  <2> QED
    BY <1>2, <1>5, <2>1, <2>2, <2>3 DEF AvrInv
<1> QED
  BY <1>3, <1>4, <1>5 DEF SchedInv

\* A return from an interrupt, of the AVR when it was inside with the flag cleared.
LEMMA LeaveStep ==
    ASSUME SchedInv, UNCHANGED <<core, procs, timer_suspended>>, NEW k, Runs(k), Leave,
           timer_event_missed' \in BOOLEAN, in_timer_proc' \in BOOLEAN,
           core = "AVR" =>
              /\ k > 1 /\ UNCHANGED timer_event_missed
              /\ \/ act[k].pc \notin Inside /\ UNCHANGED in_timer_proc
                 \/ act[k].pc \in Inside /\ in_timer_proc' = FALSE
    PROVE  SchedInv'
<1>1. k \in 1 .. Len(act) /\ Len(act) \in Nat /\ Len(act) >= 1 /\ TypeOK /\ TableInv
  BY ActSeq DEF Runs, SchedInv
<1>2. act' \in Seq(Act) /\ Len(act') = Len(act) - 1 /\ \A j \in 1 .. Len(act) - 1 : act'[j] = act[j]
  BY <1>1, LeaveShape
<1>3. TypeOK'
  BY <1>1, <1>2, TypeStep DEF TypeOK, procs
<1>4. TableInv'
  BY <1>1, LeaveKeepsTable
<1>5. ASSUME core = "AVR" PROVE AvrInv'
  <2>1. k = Len(act) /\ Len(act) >= 2 /\ AvrInv
    BY <1>1, <1>5 DEF Runs, SchedInv
  <2>2. LockInv'
    BY <1>1, <1>5, <2>1, LeaveKeepsLock DEF AvrInv, TypeOK
  <2>3. SuspendInv'
    BY <1>1, <1>5, <2>1, LeaveKeepsSuspend DEF AvrInv
  <2> QED
    BY <1>1, <1>2, <2>1, <2>2, <2>3 DEF AvrInv
<1> QED
  BY <1>3, <1>4, <1>5 DEF SchedInv

\* A slot is filled above the count, then counted.
LEMMA RegisterStep ==
    ASSUME SchedInv, UNCHANGED core, (\E p \in Proc : Register_Slot(p)) \/ Register_Count
    PROVE  SchedInv'
<1> DEFINE n == num_timer_procs
<1>1. /\ TypeOK /\ TableInv /\ 1 \in DOMAIN act /\ 1 \in 1 .. Len(act) /\ Len(act) \in Nat
      /\ n \in 0 .. MAX_TIMER_PROCS /\ MAX_TIMER_PROCS \in Nat /\ 0 \in 0 .. MAX_TIMER_PROCS
      /\ timer_proc \in [Slot -> Proc \cup {null}]
      /\ core = "AVR" => Len(act) = 1 /\ AvrInv
  BY ActSeq, BoundAssumption DEF SchedInv, TypeOK, Register_Slot, Register_Count, At, Runs
<1>2. /\ "count" \in Pc /\ "idle" \in Pc
      /\ {"idle", "count"} \cap Inside = {}
      /\ {"idle", "count"} \cap {"loop", "proc", "missed", "io", "io_missed", "io_proc", "resumed", "forget", "enter"} = {}
  BY DEF Pc, MainPc, Inside
<1>3. ASSUME NEW p \in Proc, Register_Slot(p) PROVE SchedInv'
  <2>1. /\ Goto(1, "count", 0) /\ act[1].pc = "idle" /\ n < MAX_TIMER_PROCS
        /\ timer_proc' = [timer_proc EXCEPT ![n] = p] /\ n' = n
        /\ UNCHANGED flags
    BY <1>3 DEF Register_Slot, At
  <2>2. /\ act' \in Seq(Act) /\ Len(act') = Len(act) /\ act'[1].pc = "count"
        /\ \A j \in 1 .. Len(act) : j # 1 => act'[j] = act[j]
    BY <1>1, <1>2, <2>1, GotoShape
  <2>3. n \in Slot /\ timer_proc' \in [Slot -> Proc \cup {null}] /\ p # null
    BY <1>1, <2>1, ProcAssumption DEF Slot
  <2>4. TypeOK'
    BY <1>1, <2>1, <2>2, <2>3, TypeStep DEF TypeOK, flags
  <2>5. \A j \in Slot : timer_proc'[j] = IF j = n THEN p ELSE timer_proc[j]
    BY <1>1, <2>1, <2>3
  <2>6. TableInv'
    BY <1>1, <2>1, <2>2, <2>3, <2>5 DEF TableInv
  <2>7. core = "AVR" => AvrInv'
    BY <1>1, <1>2, <2>1, <2>2 DEF AvrInv, LockInv, SuspendInv, flags
  <2> QED
    BY <2>4, <2>6, <2>7 DEF SchedInv
<1>4. ASSUME Register_Count PROVE SchedInv'
  <2>1. /\ Goto(1, "idle", 0) /\ act[1].pc = "count"
        /\ n' = n + 1 /\ timer_proc' = timer_proc /\ UNCHANGED flags
    BY <1>4 DEF Register_Count, At
  <2>2. /\ act' \in Seq(Act) /\ Len(act') = Len(act) /\ act'[1].pc = "idle"
        /\ \A j \in 1 .. Len(act) : j # 1 => act'[j] = act[j]
    BY <1>1, <1>2, <2>1, GotoShape
  <2>3. n \in Slot /\ timer_proc[n] # null
    BY <1>1, <2>1 DEF TableInv
  <2>4. n' \in 0 .. MAX_TIMER_PROCS
    BY <1>1, <2>1, <2>3 DEF Slot
  <2>5. TypeOK'
    BY <1>1, <2>1, <2>2, <2>4, TypeStep DEF TypeOK, flags
  <2>6. \A k \in 1 .. Len(act) : act[k].pc = "proc" => act[k].i < n + 1
    <3>1. \A k \in 1 .. Len(act) : act[k].i \in Nat
      BY <1>1, ActSeq
    <3> QED
      BY <1>1, <3>1 DEF TableInv
  <2>7. \A j \in Slot : j < n + 1 => timer_proc[j] # null
    BY <1>1, <2>3 DEF TableInv, Slot
  <2>8. TableInv'
    BY <1>1, <2>1, <2>2, <2>6, <2>7 DEF TableInv
  <2>9. core = "AVR" => AvrInv'
    BY <1>1, <1>2, <2>1, <2>2 DEF AvrInv, LockInv, SuspendInv, flags
  <2> QED
    BY <2>5, <2>8, <2>9 DEF SchedInv
<1> QED
  BY <1>3, <1>4

\* The main loop suspends and resumes the timer, alone on the stack of the AVR.
LEMMA SuspendStep ==
    ASSUME SchedInv, UNCHANGED core, Suspend \/ Resume
    PROVE  SchedInv'
<1>1. /\ TypeOK /\ TableInv /\ 1 \in DOMAIN act /\ 1 \in 1 .. Len(act) /\ Len(act) \in Nat
      /\ 0 \in 0 .. MAX_TIMER_PROCS /\ act[1].pc = "idle"
      /\ core = "AVR" => Len(act) = 1 /\ AvrInv
  BY ActSeq, BoundAssumption DEF SchedInv, Suspend, Resume, At, Runs
<1>2. /\ "resumed" \in Pc
      /\ {"idle", "resumed"} \cap Inside = {}
      /\ {"idle", "resumed"} \cap {"loop", "proc", "missed", "io", "io_missed", "io_proc", "enter", "count"} = {}
  BY DEF Pc, MainPc, Inside
<1>3. ASSUME Suspend PROVE SchedInv'
  <2>1. TypeOK'
    BY <1>1, <1>3, TypeStep, ActSeq DEF Suspend, TypeOK, procs
  <2>2. TableInv'
    <3>1. UNCHANGED <<timer_proc, num_timer_procs, act>>
      BY <1>3 DEF Suspend, procs
    <3> QED
      BY <1>1, <3>1 DEF TableInv
  <2>3. ASSUME core = "AVR" PROVE AvrInv'
    <3>1. Len(act) = 1 /\ AvrInv /\ UNCHANGED <<act, in_timer_proc>> /\ timer_suspended' = TRUE
      BY <1>1, <1>3, <2>3 DEF Suspend
    <3>2. LockInv'
      BY <3>1 DEF AvrInv, LockInv
    <3>3. \A k \in 1 .. Len(act) : act[k].pc = "idle"
      BY <1>1, <3>1
    <3>4. SuspendInv'
      BY <1>2, <3>1, <3>3 DEF SuspendInv
    <3> QED
      BY <3>1, <3>2, <3>4 DEF AvrInv
  <2> QED
    BY <2>1, <2>2, <2>3 DEF SchedInv
<1>4. ASSUME Resume PROVE SchedInv'
  <2>1. /\ Goto(1, "resumed", 0) /\ timer_suspended' = FALSE
        /\ UNCHANGED <<timer_event_missed, in_timer_proc, procs>>
    BY <1>4 DEF Resume
  <2>2. /\ act' \in Seq(Act) /\ Len(act') = Len(act) /\ act'[1].pc = "resumed"
        /\ \A j \in 1 .. Len(act) : j # 1 => act'[j] = act[j]
    BY <1>1, <1>2, <2>1, GotoShape
  <2>3. TypeOK'
    BY <1>1, <2>1, <2>2, TypeStep DEF TypeOK, procs
  <2>4. TableInv'
    BY <1>1, <1>2, <2>1, MoveKeepsTable
  <2>5. core = "AVR" => AvrInv'
    BY <1>1, <1>2, <2>1, <2>2 DEF AvrInv, LockInv, SuspendInv
  <2> QED
    BY <2>3, <2>4, <2>5 DEF SchedInv
<1> QED
  BY <1>3, <1>4

\* A timer interrupt.
LEMMA InterruptStep ==
    ASSUME SchedInv, UNCHANGED core, Interrupt
    PROVE  SchedInv'
<1>1. TypeOK /\ TableInv /\ Len(act) \in Nat /\ UNCHANGED <<flags, procs>>
  BY ActSeq DEF SchedInv, Interrupt
<1>2. /\ act' \in Seq(Act) /\ Len(act') = Len(act) + 1
      /\ act'[Len(act) + 1].pc = "check"
      /\ \A j \in 1 .. Len(act) : act'[j] = act[j]
  BY <1>1, InterruptShape
<1>3. "check" \notin Inside \cup {"loop", "proc", "missed", "io", "io_missed", "io_proc", "enter", "count"}
  BY DEF Inside
<1>4. TypeOK'
  BY <1>1, <1>2, TypeStep DEF TypeOK, flags, procs
<1>5. TableInv'
  BY <1>1, <1>2, <1>3 DEF TableInv, procs
<1>6. ASSUME core = "AVR" PROVE AvrInv'
  <2>1. AvrInv
    BY <1>6 DEF SchedInv
  <2>2. \A j \in 1 .. Len(act) + 1 : act'[j].pc \in Inside <=> j \in 1 .. Len(act) /\ act[j].pc \in Inside
    BY <1>1, <1>2, <1>3
  <2>3. LockInv'
    BY <1>1, <1>2, <1>3, <2>1, <2>2 DEF AvrInv, LockInv, flags
  <2>4. SuspendInv'
    BY <1>1, <1>2, <1>3, <2>1 DEF AvrInv, SuspendInv, flags
  <2> QED
    BY <1>1, <1>2, <1>3, <2>1, <2>3, <2>4 DEF AvrInv
<1> QED
  BY <1>4, <1>5, <1>6 DEF SchedInv

\* An activation enters, and sets the flag.
LEMMA EnterStep ==
    ASSUME SchedInv, UNCHANGED core, NEW k, Enter(k)
    PROVE  SchedInv'
<1>1. /\ TypeOK /\ TableInv /\ k \in DOMAIN act /\ 0 \in 0 .. MAX_TIMER_PROCS /\ "test" \in Pc
      /\ act[k].pc = "enter" /\ Goto(k, "test", 0) /\ in_timer_proc' = TRUE
      /\ UNCHANGED <<timer_suspended, timer_event_missed, procs>>
  BY BoundAssumption DEF SchedInv, Enter, At, Runs, Pc, RunPc
<1>2. /\ act' \in Seq(Act) /\ Len(act') = Len(act) /\ act'[k].pc = "test"
      /\ \A j \in 1 .. Len(act) : j # k => act'[j] = act[j]
  BY <1>1, GotoShape
<1>3. TypeOK'
  BY <1>1, <1>2, TypeStep DEF TypeOK, procs
<1>4. TableInv'
  BY <1>1, MoveKeepsTable
<1>5. ASSUME core = "AVR" PROVE AvrInv'
  <2>1. k = Len(act) /\ Len(act) >= 1 /\ AvrInv
    BY <1>5 DEF Enter, At, Runs, SchedInv, AvrInv
  <2>2. LockInv'
    BY <1>1, <2>1, EnterKeepsLock DEF AvrInv
  <2>3. SuspendInv'
    BY <1>1, <2>1, MoveKeepsSuspend DEF AvrInv
  <2> QED
    BY <1>2, <2>1, <2>2, <2>3 DEF AvrInv
<1> QED
  BY <1>3, <1>4, <1>5 DEF SchedInv

\* An activation has called the failsafe, clears the flag and returns.
LEMMA FailsafeStep ==
    ASSUME SchedInv, UNCHANGED core, NEW k, Failsafe(k)
    PROVE  SchedInv'
<1>1. /\ TypeOK /\ TableInv /\ Runs(k) /\ k \in DOMAIN act /\ k \in 1 .. Len(act)
      /\ Len(act) \in Nat /\ 0 \in 0 .. MAX_TIMER_PROCS
      /\ act[k].pc = "failsafe" /\ Return(k) /\ in_timer_proc' = FALSE
      /\ UNCHANGED <<timer_suspended, timer_event_missed, procs>>
  BY BoundAssumption, ActSeq DEF SchedInv, Failsafe, At, Runs
<1>2. {"idle", "io"} \subseteq Pc /\ "failsafe" \in Inside
  BY DEF Pc, MainPc, RunPc, Inside
<1>3. CASE core = "AVR" /\ k > 1
  BY <1>1, <1>2, <1>3, LeaveStep DEF Return, isr, procs, TypeOK
<1>4. CASE ~(core = "AVR" /\ k > 1)
  <2>1. PICK pc \in {"idle", "io"} : Goto(k, pc, 0) /\ (core = "AVR" => pc = "idle" /\ k = 1)
    BY <1>1, <1>4 DEF Return, isr
  <2>2. /\ act' \in Seq(Act) /\ Len(act') = Len(act) /\ act'[k].pc = pc
        /\ \A j \in 1 .. Len(act) : j # k => act'[j] = act[j]
    BY <1>1, <1>2, <2>1, GotoShape
  <2>3. TypeOK'
    BY <1>1, <2>2, TypeStep DEF TypeOK, procs
  <2>4. TableInv'
    BY <1>1, <1>2, <2>1, MoveKeepsTable
  <2>5. ASSUME core = "AVR" PROVE AvrInv'
    <3>1. k = 1 /\ Len(act) = 1 /\ pc = "idle" /\ AvrInv
      BY <1>1, <2>1, <2>5 DEF Runs, SchedInv
    <3>2. LockInv'
      BY <1>1, <1>2, <2>1, <3>1, OutKeepsLock DEF AvrInv
    <3>3. SuspendInv'
      BY <1>1, <1>2, <2>1, <3>1, MoveKeepsSuspend DEF AvrInv
    <3> QED
      BY <2>2, <3>1, <3>2, <3>3 DEF AvrInv
  <2> QED
    BY <2>3, <2>4, <2>5 DEF SchedInv
<1> QED
  BY <1>3, <1>4

\* The other steps of the main loop.
LEMMA MainStep ==
    ASSUME SchedInv, UNCHANGED core, Resume_Missed \/ Resume_Forget
    PROVE  SchedInv'
<1>1. /\ Runs(1) /\ 0 \in 0 .. MAX_TIMER_PROCS /\ timer_event_missed \in BOOLEAN
      /\ UNCHANGED <<core, procs, timer_suspended, in_timer_proc>>
      /\ act[1].pc \in {"resumed", "forget"}
  BY BoundAssumption DEF SchedInv, TypeOK, Resume_Missed, Resume_Forget, At, procs, flags
<1>2. {"idle", "forget", "check"} \subseteq Pc /\ {"idle", "forget", "check", "resumed"} \cap Inside = {}
  BY DEF Pc, MainPc, RunPc, Inside
<1>3. CASE Resume_Missed
  <2>1. PICK pc \in {"idle", "forget"} : Goto(1, pc, 0) /\ (timer_event_missed => pc = "forget")
    BY <1>3 DEF Resume_Missed
  <2>2. timer_event_missed' = timer_event_missed
    BY <1>3 DEF Resume_Missed, flags
  <2> QED
    BY <1>1, <1>2, <2>1, <2>2, MoveStep
<1>4. CASE Resume_Forget
  <2>1. Goto(1, "check", 0) /\ timer_event_missed' = FALSE
    BY <1>4 DEF Resume_Forget
  <2> QED
    BY <1>1, <1>2, <2>1, MoveStep
<1> QED
  BY <1>3, <1>4

\* The steps of _run_timer_procs and _run_io_procs that leave the flag alone.
LEMMA RunStep ==
    ASSUME SchedInv, UNCHANGED core, NEW k \in 1 .. MaxNest,
           \/ Check(k) \/ Test(k) \/ Missed(k) \/ Loop(k) \/ ProcReturns(k)
           \/ OnlyFailsafe(k) \/ Io(k) \/ IoMissed(k) \/ IoReturns(k)
    PROVE  SchedInv'
<1>1. /\ Runs(k) /\ k \in DOMAIN act /\ k \in 1 .. Len(act) /\ TypeOK /\ TableInv
      /\ act[k].i \in 0 .. MAX_TIMER_PROCS
      /\ 0 \in 0 .. MAX_TIMER_PROCS /\ MAX_TIMER_PROCS \in Nat /\ num_timer_procs \in 0 .. MAX_TIMER_PROCS
      /\ timer_event_missed \in BOOLEAN /\ in_timer_proc \in BOOLEAN
      /\ UNCHANGED <<core, procs, timer_suspended, in_timer_proc>>
      /\ core = "AVR" => AvrInv
  BY BoundAssumption, ActSeq DEF SchedInv, TypeOK, Check, Test, Missed, Loop, ProcReturns,
     OnlyFailsafe, Io, IoMissed, IoReturns, At, Runs, procs, flags
<1>2. /\ RunPc \subseteq Pc /\ "idle" \in Pc
      /\ {"check", "enter", "only_failsafe", "idle"} \cap Inside = {}
      /\ {"test", "missed", "loop", "proc", "failsafe"} \subseteq Inside
  BY DEF Pc, MainPc, RunPc, Inside
<1>3. CASE Check(k)
  <2>1. PICK pc \in {"only_failsafe", "enter"} : Goto(k, pc, 0) /\ (pc = "enter" => ~in_timer_proc)
    BY <1>3 DEF Check
  <2>2. act[k].pc = "check" /\ timer_event_missed' = timer_event_missed /\ pc \in Pc
    BY <1>3, <1>2, <2>1 DEF Check, At, flags, RunPc
  <2> QED
    BY <1>1, <1>2, <2>1, <2>2, MoveStep
<1>4. CASE Test(k)
  <2>1. PICK pc \in {"loop", "missed", "failsafe"} :
            /\ Goto(k, pc, 0)
            /\ pc = "loop" => ~timer_suspended
            /\ pc = "missed" => timer_suspended
    BY <1>1, <1>4 DEF Test, TypeOK
  <2>2. act[k].pc = "test" /\ timer_event_missed' = timer_event_missed /\ pc \in Pc
    BY <1>4, <1>2, <2>1 DEF Test, At, flags, RunPc
  <2> QED
    BY <1>1, <1>2, <2>1, <2>2, MoveStep
<1>5. CASE Missed(k)
  <2>1. /\ Goto(k, "failsafe", 0) /\ timer_event_missed' = TRUE
        /\ act[k].pc = "missed" /\ "failsafe" \in Pc
    BY <1>5, <1>2 DEF Missed, At, RunPc
  <2>2. core = "AVR" => timer_suspended
    BY <1>1, <2>1 DEF AvrInv, SuspendInv
  <2> QED
    BY <1>1, <1>2, <2>1, <2>2, MoveStep
<1>6. CASE Loop(k)
  <2>1. PICK pc \in {"proc", "failsafe"} :
            Goto(k, pc, act[k].i) /\ (pc = "proc" => act[k].i < num_timer_procs)
    BY <1>6 DEF Loop
  <2>2. act[k].pc = "loop" /\ timer_event_missed' = timer_event_missed /\ pc \in Pc
    BY <1>6, <1>2, <2>1 DEF Loop, At, flags, RunPc
  <2>3. core = "AVR" => ~timer_suspended
    BY <1>1, <2>2 DEF AvrInv, SuspendInv
  <2> QED
    BY <1>1, <1>2, <2>1, <2>2, <2>3, MoveStep
<1>7. CASE ProcReturns(k)
  <2>1. /\ Goto(k, "loop", act[k].i + 1) /\ timer_event_missed' = timer_event_missed
        /\ act[k].pc = "proc" /\ "loop" \in Pc
    BY <1>7, <1>2 DEF ProcReturns, At, flags, RunPc
  <2>2. act[k].i + 1 \in 0 .. MAX_TIMER_PROCS
    BY <1>1, <2>1 DEF TableInv
  <2>3. core = "AVR" => ~timer_suspended
    BY <1>1, <2>1 DEF AvrInv, SuspendInv
  <2> QED
    BY <1>1, <1>2, <2>1, <2>2, <2>3, MoveStep
<1>8. CASE OnlyFailsafe(k)
  <2>1. /\ Return(k) /\ timer_event_missed' = timer_event_missed
        /\ act[k].pc = "only_failsafe" /\ "io" \in Pc
    BY <1>8, <1>2 DEF OnlyFailsafe, At, flags, RunPc
  <2>2. CASE core = "AVR" /\ k > 1
    BY <1>1, <1>2, <2>1, <2>2, LeaveStep DEF Return, isr
  <2>3. CASE ~(core = "AVR" /\ k > 1)
    <3>1. PICK pc \in {"idle", "io"} : Goto(k, pc, 0) /\ (core = "AVR" => pc = "idle")
      BY <1>1, <2>1, <2>3 DEF Return, isr
    <3> QED
      BY <1>1, <1>2, <2>1, <3>1, MoveStep
  <2> QED
    BY <2>2, <2>3
<1>9. CASE Io(k)
  <2>1. PICK pc \in {"io_missed", "io_proc"} : Goto(k, pc, 0)
    BY <1>9 DEF Io
  <2>2. act[k].pc = "io" /\ timer_event_missed' = timer_event_missed /\ pc \in Pc
    BY <1>9, <1>2, <2>1 DEF Io, At, flags, RunPc
  <2>3. core # "AVR"
    BY <1>1, <2>2 DEF AvrInv
  <2> QED
    BY <1>1, <1>2, <2>1, <2>2, <2>3, MoveStep
<1>10. CASE IoMissed(k) \/ IoReturns(k)
  <2>1. /\ Leave /\ timer_event_missed' \in BOOLEAN
        /\ act[k].pc \in {"io_missed", "io_proc"}
    BY <1>1, <1>10 DEF IoMissed, IoReturns, At, flags
  <2>2. core # "AVR"
    BY <1>1, <2>1 DEF AvrInv
  <2> QED
    BY <1>1, <2>1, <2>2, LeaveStep
<1> QED
  BY <1>3, <1>4, <1>5, <1>6, <1>7, <1>8, <1>9, <1>10

-----------------------------------------------------------------------------
(* The theorems.                                                           *)

\* Every step keeps the invariant.
LEMMA SchedNext == SchedInv /\ [Next]_vars => SchedInv'
<1> SUFFICES ASSUME SchedInv, [Next]_vars PROVE SchedInv'
  OBVIOUS
<1>1. CASE Next
  <2>1. UNCHANGED core
    BY <1>1 DEF Next
  <2>2. CASE Main
    BY <2>1, <2>2, RegisterStep, SuspendStep, MainStep DEF Main
  <2>3. CASE Interrupt
    BY <2>1, <2>3, InterruptStep
  <2>4. ASSUME NEW k \in 1 .. MaxNest, Step(k) \/ ProcReturns(k) \/ IoReturns(k) PROVE SchedInv'
    BY <2>1, <2>4, EnterStep, FailsafeStep, RunStep DEF Step
  <2> QED
    BY <1>1, <2>2, <2>3, <2>4 DEF Next
<1>2. CASE UNCHANGED vars
  <2>1. /\ UNCHANGED <<core, timer_suspended, timer_event_missed, in_timer_proc>>
        /\ UNCHANGED <<timer_proc, num_timer_procs, act>>
    BY <1>2 DEF vars, flags, procs
  <2>2. TypeOK' /\ TableInv' /\ (core = "AVR" => AvrInv')
    BY <2>1 DEF SchedInv, TypeOK, TableInv, AvrInv, LockInv, SuspendInv
  <2> QED
    BY <2>1, <2>2 DEF SchedInv
<1> QED
  BY <1>1, <1>2

\* The empty table and the main loop alone satisfy it.
LEMMA SchedInit == Init => SchedInv
<1> SUFFICES ASSUME Init PROVE SchedInv
  OBVIOUS
<1>1. /\ act = <<Activation("idle", 0)>> /\ Len(act) = 1 /\ act[1] = Activation("idle", 0)
      /\ Activation("idle", 0) \in Act
  BY BoundAssumption DEF Init, Act, Activation, Pc, MainPc
<1>2. act[1].pc = "idle" /\ "idle" \notin Inside /\ act \in Seq(Act)
  BY <1>1 DEF Activation, Inside
<1>3. TypeOK
  <2>1. timer_proc \in [Slot -> Proc \cup {null}] /\ num_timer_procs \in 0 .. MAX_TIMER_PROCS
    BY BoundAssumption DEF Init
  <2> QED
    BY <1>2, <2>1 DEF Init, TypeOK, Act, Pc
<1>4. TableInv
  BY <1>1, <1>2 DEF Init, TableInv, Slot
<1>5. AvrInv
  BY <1>1, <1>2 DEF Init, AvrInv, LockInv, SuspendInv
<1> QED
  BY <1>3, <1>4, <1>5 DEF SchedInv

\* SchedInv is an invariant of the schedulers.
LEMMA SchedInvariant == Spec => []SchedInv
BY SchedInit, SchedNext, PTL DEF Spec

\* Whatever the number of drivers and the depth of nesting, the variables of the
\* scheduler stay in their domains: register_timer_process never overruns its table.
THEOREM SchedTypeCorrect == Spec => []TypeOK
<1>1. SchedInv => TypeOK
  BY DEF SchedInv
<1> QED
  BY <1>1, SchedInvariant, PTL

\* On the AVR _in_timer_proc is set exactly while one activation is inside.
THEOREM SchedFlagIsTrue == Spec => []FlagIsTrue
<1>1. SchedInv => FlagIsTrue
  BY ActSeq DEF SchedInv, AvrInv, LockInv, FlagIsTrue, Inside
<1> QED
  BY <1>1, SchedInvariant, PTL

\* On the AVR one activation at most calls the drivers, however deep interrupts nest.
THEOREM SchedOneCallsDrivers == Spec => []OneCallsDrivers
<1>1. ASSUME SchedInv PROVE OneCallsDrivers
  <2> SUFFICES ASSUME core = "AVR" PROVE Cardinality({k \in DOMAIN act : act[k].pc = "proc"}) <= 1
    BY DEF OneCallsDrivers
  <2> DEFINE S == {k \in DOMAIN act : act[k].pc = "proc"}
  <2>1. \A j, k \in S : j = k
    BY <1>1, ActSeq DEF SchedInv, AvrInv, LockInv, Inside
  <2>2. CASE S = {}
    BY <2>2, FS_EmptySet
  <2>3. CASE S # {}
    <3>1. PICK k \in S : TRUE
      BY <2>3
    <3>2. S = {k}
      BY <2>1, <3>1
    <3>3. Cardinality({k}) = 1
      BY FS_Singleton
    <3> QED
      BY <3>2, <3>3
  <2> QED
    BY <2>2, <2>3
<1> QED
  BY <1>1, SchedInvariant, PTL

\* On the AVR no driver callback runs while the timer is suspended.
THEOREM SchedSuspendedIsQuiet == Spec => []SuspendedIsQuiet
<1>1. SchedInv => SuspendedIsQuiet
  BY ActSeq DEF SchedInv, AvrInv, SuspendInv, SuspendedIsQuiet
<1> QED
  BY <1>1, SchedInvariant, PTL

\* On the AVR an event missed while suspended is made up for before the main loop
\* goes on after resume_timer_procs().
THEOREM SchedMissedIsMadeUp == Spec => []MissedIsMadeUp
<1>1. SchedInv => MissedIsMadeUp
  BY DEF SchedInv, AvrInv, SuspendInv, MissedIsMadeUp
<1> QED
  BY <1>1, SchedInvariant, PTL

\* On both cores a driver that is called has been registered.
THEOREM SchedCallsRegistered == Spec => []CallsRegistered
<1>1. ASSUME SchedInv PROVE CallsRegistered
  <2>1. /\ TypeOK /\ TableInv /\ DOMAIN act = 1 .. Len(act)
        /\ \A k \in 1 .. Len(act) : act[k].i \in 0 .. MAX_TIMER_PROCS
        /\ num_timer_procs \in 0 .. MAX_TIMER_PROCS /\ MAX_TIMER_PROCS \in Nat
    BY <1>1, ActSeq, BoundAssumption DEF SchedInv, TypeOK
  <2>2. \A k \in 1 .. Len(act) : act[k].pc = "proc" => act[k].i \in Slot /\ act[k].i < num_timer_procs
    BY <2>1 DEF TableInv, Slot
  <2> QED
    BY <2>1, <2>2 DEF CallsRegistered, TableInv
<1> QED
  BY <1>1, SchedInvariant, PTL
=============================================================================
