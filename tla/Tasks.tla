-------------------------------- MODULE Tasks --------------------------------
(***************************************************************************)
(* The process slots of src/src/kernel.c, the scheduler and its timer, the *)
(* wait reasons, the saved snapshots and the experimental frame-restore    *)
(* switch, driven by the timer interrupt, by shell commands typed at the   *)
(* text console, and by programs in ring 3.                                *)
(*                                                                         *)
(* Every interrupt gate clears IF, so each handler is one action.  At the  *)
(* text console a whole shell command runs inside the keyboard interrupt;  *)
(* a command that executes int 0x80 nests a second handler in it.          *)
(*                                                                         *)
(* Abstraction: a register context is the slot whose program it belongs    *)
(* to, or Kernel; program s runs in slot s's own code and stack range.     *)
(* Memory is module AddressSpaces, descriptors are left out.  user_ready   *)
(* stands for the pages of a program being mapped.  Programs may make any  *)
(* system call and may fault at any point.                                 *)
(***************************************************************************)
EXTENDS Integers, FiniteSets

CONSTANTS
    N,          \* PROCESS_CONTEXT_MAX
    TickWords,  \* 2^32: timer_ticks wraps
    Durations,  \* tick counts users ask for
    Channels,   \* event channels users name
    Quanta,     \* values given to schedq
    Commands    \* what happens: shell commands, and "syscall", "fault"

ASSUME TaskAssumption ==
    /\ N \in Nat \ {0} /\ TickWords \in Nat \ {0}
    /\ Durations \subseteq 1..(TickWords - 1)
    /\ Channels \subseteq Nat /\ Quanta \subseteq Nat \ {0}

Slots == 1..N
Kernel == 0     \* a context of the kernel
NoSnapshot == -1

VARIABLES
    m,          \* [p, cur, run, intr, kbd, restoring, input]: process_contexts,
                \* current_process_slot, the context the CPU returns to, IF,
                \* does the PIC deliver keyboard interrupts (EOI was sent),
                \* scheduler_frame_restore_enabled, input_event_channel or 0
    ticks,      \* timer_ticks
    acc,        \* scheduler_tick_accumulator
    enabled,    \* scheduler_enabled
    quantum     \* scheduler_quantum_ticks

vars == <<m, ticks, acc, enabled, quantum>>

NewTask(s) ==
    [st |-> "ready", reason |-> "none", sleep |-> 0, timeout |-> 0, chan |-> 0,
     ready |-> FALSE, entry |-> s, snap |-> NoSnapshot]

\* process_contexts_init; the first slot is running.  One of Quanta stands for
\* the 100 ticks set there.
Init ==
    /\ m = [p |-> [s \in Slots |-> IF s = 1 THEN [NewTask(s) EXCEPT !.st = "running"]
                                            ELSE NewTask(s)],
            cur |-> 1, run |-> Kernel, intr |-> TRUE, kbd |-> TRUE,
            restoring |-> FALSE, input |-> IF 1 \in Channels THEN 1 ELSE 0]
    /\ ticks = 0
    /\ acc = 0
    /\ enabled = TRUE
    /\ quantum \in Quanta

-----------------------------------------------------------------------------
Runnable(x, s) == x.p[s].st \in {"ready", "running"}
RunnableCount(x) == Cardinality({s \in Slots : Runnable(x, s)})

\* process_set_task_state, process_block_with_reason with the fields its
\* callers set after it, and the end of a wait, on the context of one slot.
InState(t, st) ==
    [t EXCEPT !.st = st, !.reason = IF st = "blocked" THEN @ ELSE "none"]
Blocked(t, reason, until, channel) ==
    [t EXCEPT !.st = "blocked", !.reason = reason, !.chan = channel,
              !.sleep = IF reason = "sleep" THEN until ELSE 0,
              !.timeout = IF reason = "manual" THEN until ELSE 0]
Unwaiting(t) == [t EXCEPT !.sleep = 0, !.timeout = 0, !.chan = 0]

Put(x, s, t) == [x EXCEPT !.p[s] = t]
SetState(x, s, st) == Put(x, s, InState(x.p[s], st))
MakeReady(x, s) == Put(x, s, Unwaiting(InState(x.p[s], "ready")))
Block(x, s, reason, until, channel) == Put(x, s, Blocked(x.p[s], reason, until, channel))

\* scheduler_switch_to_slot.
SwitchTo(x, s) ==
    IF s = x.cur THEN x
    ELSE SetState([IF x.p[x.cur].st = "running" THEN SetState(x, x.cur, "ready") ELSE x
                   EXCEPT !.cur = s], s, "running")

\* Mutant of Ahead: the search starts at the first slot.
AheadOfFirst(x, s) == s

\* How many steps of a rotation a slot is away; the current one comes last.
Ahead(x, s) == IF s > x.cur THEN s - x.cur ELSE s + N - x.cur
FirstOf(x, candidates) ==
    CHOOSE s \in candidates : \A t \in candidates : Ahead(x, s) <= Ahead(x, t)

\* scheduler_rotate_process.
Rotate(x) ==
    LET candidates == {s \in Slots : Runnable(x, s)}
    IN  IF candidates = {} THEN x ELSE SwitchTo(x, FirstOf(x, candidates))

\* Mutant of Compatible: the saved EIP and ESP may be in any slot's program.
CompatibleAnyone(x, s) == x.p[s].snap \in Slots /\ Runnable(x, s) /\ x.p[s].ready

\* process_snapshot_is_user_compatible: the saved EIP and ESP must lie between
\* the slot's own code and stack.
Compatible(x, s) == x.p[s].snap = s /\ Runnable(x, s) /\ x.p[s].ready

\* scheduler_rotate_and_maybe_restore; a restored frame has IF set.
RotateAndRestore(x) ==
    LET candidates == {s \in Slots : Compatible(x, s)}
        next == FirstOf(x, candidates)
    IN  IF ~x.restoring THEN Rotate(x)
        ELSE IF candidates = {} \/ next = x.cur THEN x
        ELSE [SwitchTo(x, next) EXCEPT !.run = x.p[next].snap, !.intr = TRUE]

\* process_capture_snapshot of the interrupted context.
Capture(x, context) == Put(x, x.cur, [x.p[x.cur] EXCEPT !.snap = context])

\* scheduler_signal_event_channel.
Signalled(t, channel) ==
    IF t.st = "blocked" /\ t.reason = "event" /\ t.chan = channel
    THEN InState([t EXCEPT !.chan = 0], "ready") ELSE t
Signal(x, channel) == [x EXCEPT !.p = [s \in Slots |-> Signalled(x.p[s], channel)]]

\* Mutant of Due: a wait ends only after its deadline.
DueLater(t, now) ==
    /\ t.st = "blocked"
    /\ \/ t.reason = "sleep" /\ t.sleep # 0 /\ now > t.sleep
       \/ t.reason = "manual" /\ t.timeout # 0 /\ now > t.timeout

\* scheduler_wake_sleeping_tasks at tick now.
Due(t, now) ==
    /\ t.st = "blocked"
    /\ \/ t.reason = "sleep" /\ t.sleep # 0 /\ now >= t.sleep
       \/ t.reason = "manual" /\ t.timeout # 0 /\ now >= t.timeout

Woken(t, now) ==
    IF ~Due(t, now) THEN t
    ELSE IF t.reason = "sleep" THEN InState([t EXCEPT !.sleep = 0], "ready")
    ELSE InState([t EXCEPT !.timeout = 0], "ready")
WakeDue(x, now) == [x EXCEPT !.p = [s \in Slots |-> Woken(x.p[s], now)]]

\* The end of a process: teardown, exit and a fault all clear the context.
Ended(s) == [NewTask(s) EXCEPT !.st = "exited"]
End(x, s) == Put(x, s, Ended(s))

\* process_seed_snapshot_from_user_context.
Seed(x, s) ==
    IF x.p[s].ready THEN Put(x, s, [x.p[s] EXCEPT !.snap = x.p[s].entry]) ELSE x

-----------------------------------------------------------------------------
(* irq_handler, timer: the interrupted context is captured, the tick is    *)
(* counted, due waits end, and the quantum may rotate the slots.           *)
Timer ==
    /\ m.intr
    /\ ticks' = (ticks + 1) % TickWords
    /\ LET woken == WakeDue(Capture(m, m.run), ticks')
           over == enabled /\ acc + 1 >= quantum
       IN  /\ m' = IF over THEN RotateAndRestore(woken) ELSE woken
           /\ acc' = IF ~enabled THEN acc ELSE IF over THEN 0 ELSE acc + 1
    /\ UNCHANGED <<enabled, quantum>>

-----------------------------------------------------------------------------
(* System calls of the program that runs.  The slot they act on is the     *)
(* current one, whatever program made the call.                            *)

InProgram == "syscall" \in Commands /\ m.run \in Slots /\ m.p[m.run].ready
Called == Capture(m, m.run)

\* Mutants of SleepCall: the last runnable slot may sleep; the deadline is wider
\* than the clock.
SleepCallUnguarded(x, duration) ==
    RotateAndRestore(Block(x, x.cur, "sleep", (ticks + duration) % TickWords, 0))
SleepCallWide(x, duration) ==
    IF RunnableCount(x) <= 1 THEN x
    ELSE RotateAndRestore(Block(x, x.cur, "sleep", ticks + duration, 0))

\* Syscalls 5 and 6 block the current slot unless it would be the last.
SleepCall(x, duration) ==
    IF RunnableCount(x) <= 1 THEN x
    ELSE RotateAndRestore(Block(x, x.cur, "sleep", (ticks + duration) % TickWords, 0))

EventWaitCall(x, channel) ==
    IF RunnableCount(x) <= 1 THEN x
    ELSE RotateAndRestore(Block(x, x.cur, "event", 0, channel))

Syscall ==
    /\ InProgram
    /\ \/ m' = Called   \* the calls that leave the scheduler alone
       \/ m' = RotateAndRestore(Called)         \* 3, yield
       \/ m' = RotateAndRestore(End(Called, m.cur))     \* 4, exit
       \/ \E d \in Durations : m' = SleepCall(Called, d)
       \/ \E ch \in Channels : m' = EventWaitCall(Called, ch) \/ m' = Signal(Called, ch)
    /\ UNCHANGED <<ticks, acc, enabled, quantum>>

\* An exception in ring 3 ends the current slot.  Unless another snapshot is
\* restored the CPU returns to the instruction that faulted.
Fault ==
    /\ "fault" \in Commands
    /\ m.run \in Slots
    /\ m' = RotateAndRestore(End(m, m.cur))
    /\ UNCHANGED <<ticks, acc, enabled, quantum>>

-----------------------------------------------------------------------------
(* Shell commands, each the Enter key of its line; every key is then        *)
(* signalled on the input channel.                                          *)

Typed(command) == command \in Commands /\ m.intr /\ m.kbd
Bridged(x) == IF x.input = 0 THEN x ELSE Signal(x, x.input)
Effect(x) == m' = Bridged(x) /\ UNCHANGED <<ticks, acc, enabled, quantum>>

\* A command that executes int 0x80: the frame is the kernel's.  When the trap
\* restores another frame, the keyboard handler is abandoned with its EOI.
Trap(x) ==
    /\ m' = IF m.restoring /\ x.cur # m.cur THEN [x EXCEPT !.kbd = FALSE] ELSE Bridged(x)
    /\ UNCHANGED <<ticks, acc, enabled, quantum>>
Trapped == Capture(m, Kernel)

\* Mutant of ProcSet: the slot that was current stays RUNNING.
ProcSetBothRunning(s) ==
    /\ Typed("procset")
    /\ LET there == [m EXCEPT !.cur = s]
       IN  Effect(IF Runnable(there, s) THEN SetState(there, s, "running") ELSE there)

ProcSet(s) ==
    /\ Typed("procset")
    /\ LET left == IF m.p[m.cur].st = "running" THEN SetState(m, m.cur, "ready") ELSE m
           there == [left EXCEPT !.cur = s]
       IN  Effect(IF Runnable(there, s) THEN SetState(there, s, "running") ELSE there)

\* user_test_prepare where the pages could be mapped: ok below.
Prepared(x, s) == Put(x, s, [x.p[s] EXCEPT !.ready = TRUE, !.entry = s])

UserTestPrep(ok) ==
    /\ Typed("usertestprep")
    /\ Effect(IF ok /\ ~m.p[m.cur].ready
              THEN Prepared(m, m.cur) ELSE m)

TaskSpawn(s, ok) ==
    /\ Typed("taskspawn")
    /\ LET made == IF ok /\ ~m.p[s].ready
                   THEN Prepared(m, s) ELSE m
       IN  Effect(Seed(MakeReady(made, s), s))

TaskTeardown(s) ==
    /\ Typed("taskteardown")
    /\ Effect(IF s = m.cur THEN Rotate(End(m, s)) ELSE End(m, s))

TaskSleep(duration) == Typed("tasksleep") /\ Trap(SleepCall(Trapped, duration))

TaskWait(duration) ==
    /\ Typed("taskwait")
    /\ RunnableCount(m) > 1
    /\ Effect(Rotate(Block(m, m.cur, "manual", (ticks + duration) % TickWords, 0)))

TaskWake(s) ==
    /\ Typed("taskwake")
    /\ m.p[s].st = "blocked"
    /\ Effect(MakeReady(m, s))

EventWait(channel) == Typed("eventwait") /\ Trap(EventWaitCall(Trapped, channel))
EventSig(channel) == Typed("eventsig") /\ Trap(Signal(Trapped, channel))

\* Mutant of TaskRun: the wait fields stay.
TaskRunOnlyState(s) == Typed("taskrun") /\ Effect(SetState(m, s, "ready"))

TaskRun(s) ==
    /\ Typed("taskrun")
    /\ Effect(MakeReady(m, s))

TaskStop(s) ==
    /\ Typed("taskstop")
    /\ RunnableCount(m) > 1 \/ ~Runnable(m, s)
    /\ LET stopped == Block(m, s, "manual", 0, 0)
       IN  Effect(IF s = m.cur THEN Rotate(stopped) ELSE stopped)

SnapNow == Typed("snapnow") /\ Trap(Trapped)
SnapSeed(s) == Typed("snapseed") /\ Effect(Seed(m, s))

\* snaprestore: the saved context becomes what userrun enters.
SnapRestore(s) ==
    /\ Typed("snaprestore")
    /\ m.p[s].ready /\ m.p[s].snap \in Slots
    /\ Effect(Put(m, s, [m.p[s] EXCEPT !.entry = m.p[s].snap]))

CtxSwOn == Typed("ctxswon") /\ Effect([m EXCEPT !.restoring = TRUE])
CtxSwOff == Typed("ctxswoff") /\ Effect([m EXCEPT !.restoring = FALSE])

\* inputch, and inputbridgeoff as channel 0: either stops the signals.
InputChannel(channel) ==
    /\ Typed("inputch")
    /\ Effect([m EXCEPT !.input = channel])

SchedSwitch(on) ==
    /\ Typed(IF on THEN "schedon" ELSE "schedoff")
    /\ m' = Bridged(m) /\ enabled' = on /\ acc' = 0
    /\ UNCHANGED <<ticks, quantum>>

\* Mutant of SchedQuantum: the ticks counted so far are kept.
SchedQuantumRunningOn(q) ==
    /\ Typed("schedq")
    /\ m' = Bridged(m) /\ quantum' = q
    /\ UNCHANGED <<ticks, acc, enabled>>

SchedQuantum(q) ==
    /\ Typed("schedq")
    /\ m' = Bridged(m) /\ quantum' = q /\ acc' = 0
    /\ UNCHANGED <<ticks, enabled>>

\* userrun leaves the keyboard interrupt for ring 3 with IF clear.
UserRun ==
    /\ Typed("userrun")
    /\ m.p[m.cur].ready
    /\ m' = [m EXCEPT !.run = m.p[m.cur].entry, !.intr = FALSE, !.kbd = FALSE]
    /\ UNCHANGED <<ticks, acc, enabled, quantum>>

Console ==
    \/ \E s \in Slots : \/ ProcSet(s) \/ TaskTeardown(s) \/ TaskWake(s) \/ TaskRun(s)
                        \/ TaskStop(s) \/ SnapSeed(s) \/ SnapRestore(s)
                        \/ \E ok \in BOOLEAN : TaskSpawn(s, ok)
    \/ \E d \in Durations : TaskSleep(d) \/ TaskWait(d)
    \/ \E ch \in Channels : EventWait(ch) \/ EventSig(ch)
    \/ \E ch \in Channels \cup {0} : InputChannel(ch)
    \/ \E on \in BOOLEAN : SchedSwitch(on) \/ UserTestPrep(on)
    \/ \E q \in Quanta : SchedQuantum(q)
    \/ SnapNow \/ UserRun \/ CtxSwOn \/ CtxSwOff

Next == Timer \/ Syscall \/ Fault \/ Console

Spec == Init /\ [][Next]_vars

\* The timer interrupt keeps coming while IF is set.
FairSpec == Spec /\ WF_vars(Timer)

-----------------------------------------------------------------------------
Contexts == Slots \cup {Kernel, NoSnapshot}
Ticks == 0..(TickWords - 1)
TaskContexts ==
    [st : {"ready", "running", "blocked", "exited"},
     reason : {"none", "sleep", "manual", "event"},
     sleep : Ticks, timeout : Ticks, chan : Channels \cup {0},
     ready : BOOLEAN, entry : Slots, snap : Contexts]

Machines ==
    [p : [Slots -> TaskContexts], cur : Slots, run : Slots \cup {Kernel},
     intr : BOOLEAN, kbd : BOOLEAN, restoring : BOOLEAN, input : Channels \cup {0}]

\* Every field has its type.
TypeOK ==
    /\ m \in Machines
    /\ ticks \in Ticks /\ enabled \in BOOLEAN
    /\ quantum \in Quanta /\ acc \in Nat

\* No slot is RUNNING but the current one, whatever the order of procset,
\* spawns, waits and rotations.
OneRunning == \A s \in Slots : m.p[s].st = "running" => s = m.cur

\* A blocked slot says what it waits for, and a deadline or channel left in a
\* slot is one it is waiting for now: none outlives its wait and ends or
\* misleads a later one.
WaitsCurrent ==
    \A s \in Slots :
        LET t == m.p[s]
        IN  /\ t.st = "blocked" <=> t.reason # "none"
            /\ t.sleep # 0 => t.reason = "sleep"
            /\ t.timeout # 0 => t.reason = "manual"
            /\ t.chan # 0 => t.reason = "event"

\* The accumulator never passes the quantum, also when schedq lowers it: the
\* slots are rotated at least every quantum ticks.
QuantumKept == acc < quantum

\* Only the end of a task can leave no slot runnable: neither a wait nor
\* taskstop takes the last one.
LastNotBlocked ==
    [][(RunnableCount(m) > 0 /\ RunnableCount(m') = 0) =>
          \E s \in Slots : m.p[s].st # "exited" /\ m'.p[s].st = "exited"]_vars

\* A frame is restored only for its own slot: whatever contexts the traps have
\* captured into the slots, those of other slots' programs included, where a trap
\* moves the current slot in restore mode, or a program is resumed (userrun alone
\* starts one with IF clear), the program that runs next is the current slot's,
\* which is RUNNING and still has its memory.
MovedByTrap == m.restoring /\ m'.cur # m.cur /\ (Timer \/ Syscall \/ Fault)
Resumed == m'.run # m.run /\ m'.intr
RestoresOwn ==
    [][MovedByTrap \/ Resumed =>
          /\ m'.run = m'.cur
          /\ m'.p[m'.cur].st = "running" /\ m'.p[m'.cur].ready]_vars

\* A wait with a deadline ends; the clock may wrap.
WaitsEnd ==
    \A s \in Slots :
        (m.p[s].sleep # 0 \/ m.p[s].timeout # 0)
            ~> (m.p[s].sleep = 0 /\ m.p[s].timeout = 0)

\* In frame-restore mode a slot that waits with a snapshot of its own gets the
\* processor within its turn.
Waiting(s) == m.restoring /\ enabled /\ s # m.cur /\ Compatible(m, s)
WaitingRuns ==
    \A s \in Slots : Waiting(s) ~> (m.run = s \/ ~Compatible(m, s) \/ ~enabled \/ ~m.restoring)

-----------------------------------------------------------------------------
(* What comments and the README say of this code and the runs refute.      *)

\* A fault ends the task that faulted and no other ("task isolated").
FaultIsolated ==
    [][m.run \in Slots =>
          \A s \in Slots \ {m.run} : m'.p[s].st = "exited" => m.p[s].st = "exited"]_vars

\* In frame-restore mode the program that runs is the current slot's, so its
\* system calls and its faults are charged to itself.  This holds as long as the
\* mode, once on, stays on and nothing moves the current slot without a frame:
\* with procset, taskteardown, taskwait, taskstop or ctxswoff it fails.
RunsOwn == m.restoring /\ m.run \in Slots => m.run = m.cur
=============================================================================
