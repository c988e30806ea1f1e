--------------------------- MODULE UrusScheduler ---------------------------
(***************************************************************************)
(* The timer half of the URUS schedulers: CoreUrusScheduler_Avr, where the *)
(* 1 kHz timer interrupts the main loop and, since the handler enables     *)
(* interrupts, itself; and CoreUrusScheduler_Cygwin, where a POSIX thread  *)
(* plays the interrupt.  Both run the same _run_timer_procs over the same  *)
(* unlocked flags; on Cygwin the thread then runs the IO callbacks.  One   *)
(* action is one access to a flag, or one callback.                        *)
(***************************************************************************)
EXTENDS Integers, Sequences, FiniteSets

CONSTANTS Cores,         \* the builds looked at: "AVR", "Cygwin"
          Proc,          \* callbacks given to register_timer_process
          MAX_TIMER_PROCS,
          MaxNest        \* bound on the activations on the AVR's stack

null == "null"

ASSUME CoreAssumption == Cores \subseteq {"AVR", "Cygwin"}
ASSUME ProcAssumption == null \notin Proc
ASSUME BoundAssumption == MAX_TIMER_PROCS \in Nat /\ MaxNest \in Nat \ {0, 1}

VARIABLES core,                \* the core the program is built for
          timer_suspended,     \* _timer_suspended
          timer_event_missed,  \* _timer_event_missed
          in_timer_proc,       \* _in_timer_proc
          timer_proc,          \* _timer_proc[]
          num_timer_procs,     \* _num_timer_procs
          act                  \* activations: the main loop, then the interrupts

flags == <<timer_suspended, timer_event_missed, in_timer_proc>>
procs == <<timer_proc, num_timer_procs>>
vars == <<core, flags, procs, act>>

Slot == 0 .. MAX_TIMER_PROCS - 1
Registered == {timer_proc[i] : i \in {j \in Slot : j < num_timer_procs}}

\* An activation: where it is, and the loop variable of _run_timer_procs.
Activation(pc, i) == [pc |-> pc, i |-> i]

\* The AVR runs the innermost activation, Cygwin runs threads.
Runs(k) == k \in DOMAIN act /\ (core = "AVR" => k = Len(act))
At(k, pc) == Runs(k) /\ act[k].pc = pc
Goto(k, pc, i) == act' = [act EXCEPT ![k] = Activation(pc, i)]

Init == /\ core \in Cores
        /\ timer_suspended = FALSE
        /\ timer_event_missed = FALSE
        /\ in_timer_proc = FALSE
        /\ timer_proc = [i \in Slot |-> null]
        /\ num_timer_procs = 0
        /\ act = <<Activation("idle", 0)>>

-----------------------------------------------------------------------------
(* The main loop.                                                          *)

\* Mutant: the count goes up before the slot is filled.
Register_Slot_CountFirst(p) ==
    /\ At(1, "idle")
    /\ p \notin Registered /\ num_timer_procs < MAX_TIMER_PROCS
    /\ num_timer_procs' = num_timer_procs + 1
    /\ Goto(1, "idle", 0)
    /\ UNCHANGED <<flags, timer_proc>>

\* register_timer_process(p): nothing happens if it is there or no slot is left.
\* The slot "won't be used until _num_timer_procs is incremented".
Register_Slot(p) ==
    /\ At(1, "idle")
    /\ p \notin Registered /\ num_timer_procs < MAX_TIMER_PROCS
    /\ timer_proc' = [timer_proc EXCEPT ![num_timer_procs] = p]
    /\ Goto(1, "count", 0)
    /\ UNCHANGED <<flags, num_timer_procs>>

Register_Count ==
    /\ At(1, "count")
    /\ num_timer_procs' = num_timer_procs + 1
    /\ Goto(1, "idle", 0)
    /\ UNCHANGED <<flags, timer_proc>>

Suspend ==
    /\ At(1, "idle")
    /\ timer_suspended' = TRUE
    /\ UNCHANGED <<timer_event_missed, in_timer_proc, procs, act>>

\* resume_timer_procs(): then make up for a missed event, and forget it first.
Resume ==
    /\ At(1, "idle")
    /\ timer_suspended' = FALSE
    /\ Goto(1, "resumed", 0)
    /\ UNCHANGED <<timer_event_missed, in_timer_proc, procs>>

\* Mutant: the event is made up for but not forgotten.
Resume_Missed_Keep ==
    /\ At(1, "resumed")
    /\ Goto(1, IF timer_event_missed THEN "check" ELSE "idle", 0)
    /\ UNCHANGED <<flags, procs>>

Resume_Missed ==
    /\ At(1, "resumed")
    /\ Goto(1, IF timer_event_missed THEN "forget" ELSE "idle", 0)
    /\ UNCHANGED <<flags, procs>>

Resume_Forget ==
    /\ At(1, "forget")
    /\ timer_event_missed' = FALSE
    /\ Goto(1, "check", 0)
    /\ UNCHANGED <<timer_suspended, in_timer_proc, procs>>

\* A timer interrupt, or the next round of the isr_sched thread.  The handler of
\* the AVR restarts the timer, then enables interrupts.
Interrupt ==
    /\ Len(act) < IF core = "AVR" THEN MaxNest ELSE 2
    /\ act' = Append(act, Activation("check", 0))
    /\ UNCHANGED <<flags, procs>>

-----------------------------------------------------------------------------
(* _run_timer_procs(called_from_isr) of activation k                       *)

isr(k) == k > 1
Leave == act' = SubSeq(act, 1, Len(act) - 1)

\* The isr_sched thread goes on to _run_io_procs, an interrupt is over.
Return(k) == IF isr(k) /\ core = "AVR" THEN Leave
             ELSE Goto(k, IF isr(k) THEN "io" ELSE "idle", 0)

\* Mutant: the flag is not looked at.
Check_Not(k) ==
    /\ At(k, "check")
    /\ Goto(k, "enter", 0)
    /\ UNCHANGED <<flags, procs>>

\* Mutant: an activation that finds the drivers busy just returns.
Check_Silent(k) ==
    /\ At(k, "check")
    /\ IF in_timer_proc THEN Return(k) ELSE Goto(k, "enter", 0)
    /\ UNCHANGED <<flags, procs>>

Check(k) ==
    /\ At(k, "check")
    /\ Goto(k, IF in_timer_proc THEN "only_failsafe" ELSE "enter", 0)
    /\ UNCHANGED <<flags, procs>>

Enter(k) ==
    /\ At(k, "enter")
    /\ in_timer_proc' = TRUE
    /\ Goto(k, "test", 0)
    /\ UNCHANGED <<timer_suspended, timer_event_missed, procs>>

\* Mutant: the drivers are called although they are suspended.
Test_Not(k) ==
    /\ At(k, "test")
    /\ Goto(k, "loop", 0)
    /\ UNCHANGED <<flags, procs>>

Test(k) ==
    /\ At(k, "test")
    /\ Goto(k, IF ~timer_suspended THEN "loop" ELSE IF isr(k) THEN "missed" ELSE "failsafe", 0)
    /\ UNCHANGED <<flags, procs>>

Missed(k) ==
    /\ At(k, "missed")
    /\ timer_event_missed' = TRUE
    /\ Goto(k, "failsafe", 0)
    /\ UNCHANGED <<timer_suspended, in_timer_proc, procs>>

Loop(k) ==
    /\ At(k, "loop")
    /\ Goto(k, IF act[k].i < num_timer_procs THEN "proc" ELSE "failsafe", act[k].i)
    /\ UNCHANGED <<flags, procs>>

\* The slot is empty, or its callback returns, if it does.
ProcReturns(k) ==
    /\ At(k, "proc")
    /\ Goto(k, "loop", act[k].i + 1)
    /\ UNCHANGED <<flags, procs>>

\* _failsafe returns: "We assume the failsafe code can't block".
Failsafe(k) ==
    /\ At(k, "failsafe")
    /\ in_timer_proc' = FALSE
    /\ Return(k)
    /\ UNCHANGED <<timer_suspended, timer_event_missed, procs>>

\* Mutant: the activation that found the drivers busy clears their flag.
OnlyFailsafe_Clears(k) ==
    /\ At(k, "only_failsafe")
    /\ in_timer_proc' = FALSE
    /\ Return(k)
    /\ UNCHANGED <<timer_suspended, timer_event_missed, procs>>

OnlyFailsafe(k) ==
    /\ At(k, "only_failsafe")
    /\ Return(k)
    /\ UNCHANGED <<flags, procs>>

\* _run_io_procs(true) on Cygwin; nothing else enters it while the thread lives.
Io(k) ==
    /\ At(k, "io")
    /\ Goto(k, IF timer_suspended THEN "io_missed" ELSE "io_proc", 0)
    /\ UNCHANGED <<flags, procs>>

IoMissed(k) ==
    /\ At(k, "io_missed")
    /\ timer_event_missed' = TRUE
    /\ Leave
    /\ UNCHANGED <<timer_suspended, in_timer_proc, procs>>

\* The IO callbacks return, if they do.
IoReturns(k) ==
    /\ At(k, "io_proc")
    /\ Leave
    /\ UNCHANGED <<flags, procs>>

-----------------------------------------------------------------------------
Step(k) == \/ Check(k) \/ Enter(k) \/ Test(k) \/ Missed(k) \/ Loop(k)
           \/ Failsafe(k) \/ OnlyFailsafe(k) \/ Io(k) \/ IoMissed(k)

Main == \/ \E p \in Proc : Register_Slot(p)
        \/ Register_Count \/ Suspend \/ Resume \/ Resume_Missed \/ Resume_Forget

Next == /\ \/ Main \/ Interrupt
           \/ \E k \in 1 .. MaxNest : Step(k) \/ ProcReturns(k) \/ IoReturns(k)
        /\ UNCHANGED core

\* The timer keeps firing and the processor keeps running; a driver callback may
\* never return.
Fairness == /\ WF_vars(Interrupt /\ UNCHANGED core)
            /\ \A k \in 1 .. MaxNest : WF_vars(Step(k) /\ UNCHANGED core)

Spec == Init /\ [][Next]_vars /\ Fairness

-----------------------------------------------------------------------------
(* Properties.  Those that speak of the AVR fail on Cygwin, where two      *)
(* threads test and set the flags without a lock.                          *)

MainPc == {"idle", "count", "resumed", "forget"}
RunPc == {"check", "enter", "test", "missed", "loop", "proc", "failsafe", "only_failsafe",
          "io", "io_missed", "io_proc"}

\* Every variable stays in its domain.
TypeOK ==
    /\ core \in Cores
    /\ timer_suspended \in BOOLEAN /\ timer_event_missed \in BOOLEAN /\ in_timer_proc \in BOOLEAN
    /\ timer_proc \in [Slot -> Proc \cup {null}]
    /\ num_timer_procs \in 0 .. MAX_TIMER_PROCS
    /\ act \in Seq([pc : MainPc \cup RunPc, i : 0 .. MAX_TIMER_PROCS])

\* "We can't just call the drivers again, as we could run out of stack": between
\* all nested and interleaved activations, one at most calls the drivers.
OneCallsDrivers == core = "AVR" => Cardinality({k \in DOMAIN act : act[k].pc = "proc"}) <= 1

\* _in_timer_proc tells the truth: it is set when, and only when, an activation is
\* past its entry and not yet out, so the drivers never stay locked out.
FlagIsTrue == core = "AVR" =>
    (in_timer_proc <=>
        \E k \in DOMAIN act : act[k].pc \in {"test", "missed", "loop", "proc", "failsafe"})

\* "suspend and resume both timer and IO processes": while the main loop has the
\* timer suspended no driver callback is running.
SuspendedIsQuiet == core = "AVR" /\ timer_suspended => \A k \in DOMAIN act : act[k].pc \notin {"proc", "io_proc"}

\* An event missed while the timer was suspended is made up for before the main
\* loop goes on after resume_timer_procs().
MissedIsMadeUp == core = "AVR" /\ act[1].pc = "idle" /\ ~timer_suspended => ~timer_event_missed

\* "that memory won't be used until _num_timer_procs is incremented": wherever the
\* interrupt strikes, a slot below the count is filled, and no registered driver is
\* passed over.
CallsRegistered == \A k \in DOMAIN act : act[k].pc = "proc" => timer_proc[act[k].i] # null

\* "So we only call the _failsafe call. It's job is to detect if the drivers or the
\* main loop are indeed dead": _failsafe is called again and again even if the main
\* loop or a driver callback hangs, unless it hangs where the bound of the model
\* admits no further interrupt.
FailsafeRuns == \/ core # "AVR"
                \/ []<>(\E k \in DOMAIN act : act[k].pc \in {"failsafe", "only_failsafe"})
                \/ <>[](Len(act) = MaxNest)
=============================================================================
