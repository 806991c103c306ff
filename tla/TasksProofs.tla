----------------------------- MODULE TasksProofs -----------------------------
(***************************************************************************)
(* The scheduler of module Tasks, for any number of slots, any clock and   *)
(* any set of commands: its type, who is RUNNING, what the wait fields     *)
(* mean, the quantum, how the last runnable slot is lost, whose program    *)
(* runs in frame-restore mode, and what a frame is restored for.           *)
(***************************************************************************)
EXTENDS Tasks, FiniteSetTheorems, WellFoundedInduction, TLAPS

\* The wait fields of one slot belong to the wait it is in.
WaitSound(t) ==
    /\ t.st = "blocked" <=> t.reason # "none"
    /\ t.sleep # 0 => t.reason = "sleep"
    /\ t.timeout # 0 => t.reason = "manual"
    /\ t.chan # 0 => t.reason = "event"

\* What every operation on the slots preserves: it refers to a machine, so that
\* the operations a handler chains can be treated one by one.
Sound(x) ==
    /\ x \in Machines
    /\ \A s \in Slots : WaitSound(x.p[s])
    /\ \A s \in Slots : x.p[s].st = "running" => s = x.cur

IInv ==
    /\ Sound(m)
    /\ ticks \in Ticks /\ enabled \in BOOLEAN
    /\ quantum \in Quanta /\ acc \in Nat
    /\ acc < quantum

-----------------------------------------------------------------------------
(* The search of the round robin ends.                                     *)

LEMMA LeastNatural ==
    ASSUME NEW T \in SUBSET Nat, T # {}
    PROVE  \E i \in T : \A j \in T : i <= j
<1> DEFINE R == OpToRel(<, Nat)
<1>1. IsWellFoundedOn(R, Nat)
  BY NatLessThanWellFounded, Zenon
<1>2. \A i, j \in T : j < i => <<j, i>> \in R
  BY DEF OpToRel
<1> HIDE DEF R
<1>3. PICK i \in T : \A j \in T : ~(<<j, i>> \in R)
  BY <1>1, WFMin, Zenon
<1>4. \A j \in T : ~(j < i)
  BY <1>2, <1>3
<1> QED
  BY <1>4

LEMMA FirstIsCandidate ==
    ASSUME NEW x \in Machines, NEW candidates \in SUBSET Slots, candidates # {}
    PROVE  FirstOf(x, candidates) \in candidates
<1> DEFINE T == {Ahead(x, s) : s \in candidates}
<1>1. \A s \in candidates : Ahead(x, s) \in Nat
  BY TaskAssumption DEF Ahead, Machines, Slots
<1>2. T \in SUBSET Nat /\ T # {}
  BY <1>1
<1>3. PICK i \in T : \A j \in T : i <= j
  <2> HIDE DEF T
  <2> QED
    BY <1>2, LeastNatural
<1>4. \E s \in candidates : \A t \in candidates : Ahead(x, s) <= Ahead(x, t)
  BY <1>3
<1> QED
  BY <1>4 DEF FirstOf

-----------------------------------------------------------------------------
(* The operations on the slots.                                            *)

\* One slot's context is replaced by one that may stand there.
LEMMA PutSound ==
    ASSUME NEW x, Sound(x), NEW s \in Slots, NEW t \in TaskContexts,
           WaitSound(t), t.st = "running" => s = x.cur
    PROVE  Sound(Put(x, s, t)) /\ Put(x, s, t).cur = x.cur
BY DEF Sound, Put, Machines

\* All of them are replaced.
LEMMA PutAllSound ==
    ASSUME NEW x, Sound(x), NEW q \in [Slots -> TaskContexts],
           \A s \in Slots : WaitSound(q[s]) /\ (q[s].st = "running" => s = x.cur)
    PROVE  Sound([x EXCEPT !.p = q])
BY DEF Sound, Machines

LEMMA SoundTask ==
    ASSUME NEW x, Sound(x), NEW s \in Slots
    PROVE  x.p[s] \in TaskContexts /\ WaitSound(x.p[s]) /\ x.cur \in Slots
BY DEF Sound, Machines

\* Every new context an operation makes has its type and sound wait fields.
LEMMA ContextsMade ==
    ASSUME NEW t \in TaskContexts, WaitSound(t)
    PROVE  /\ \A c \in Contexts : LET u == [t EXCEPT !.snap = c]
                                 IN  u \in TaskContexts /\ WaitSound(u) /\ u.st = t.st
           /\ \A c \in Slots : LET u == [t EXCEPT !.entry = c]
                              IN  u \in TaskContexts /\ WaitSound(u) /\ u.st = t.st
           /\ \A c \in Slots : LET u == [t EXCEPT !.ready = TRUE, !.entry = c]
                              IN  u \in TaskContexts /\ WaitSound(u) /\ u.st = t.st
BY DEF TaskContexts, WaitSound

LEMMA ReadyMade ==
    ASSUME NEW t \in TaskContexts, WaitSound(t)
    PROVE  LET u == Unwaiting(InState(t, "ready"))
           IN  u \in TaskContexts /\ WaitSound(u) /\ u.st = "ready"
BY TaskAssumption DEF TaskContexts, WaitSound, Unwaiting, InState, Ticks

LEMMA EndedMade ==
    ASSUME NEW s \in Slots
    PROVE  Ended(s) \in TaskContexts /\ WaitSound(Ended(s)) /\ Ended(s).st = "exited"
<1> NoSnapshot \in Contexts /\ 0 \in Ticks
  BY TaskAssumption DEF Contexts, Ticks
<1> QED
  BY DEF TaskContexts, WaitSound, Ended, NewTask

LEMMA BlockedMade ==
    ASSUME NEW t \in TaskContexts, NEW until \in Ticks, NEW channel \in Channels \cup {0},
           NEW reason \in {"sleep", "manual", "event"}, reason # "event" => channel = 0
    PROVE  LET u == Blocked(t, reason, until, channel)
           IN  u \in TaskContexts /\ WaitSound(u) /\ u.st = "blocked"
<1> DEFINE sleep == IF reason = "sleep" THEN until ELSE 0
           timeout == IF reason = "manual" THEN until ELSE 0
           u == [t EXCEPT !.st = "blocked", !.reason = reason, !.chan = channel,
                          !.sleep = sleep, !.timeout = timeout]
<1>1. 0 \in Ticks
  BY TaskAssumption DEF Ticks
<1>2. /\ sleep \in Ticks /\ timeout \in Ticks
      /\ sleep # 0 => reason = "sleep"
      /\ timeout # 0 => reason = "manual"
  BY <1>1
<1>3. Blocked(t, reason, until, channel) = u
  BY DEF Blocked
<1> HIDE DEF sleep, timeout
<1>4. u \in TaskContexts /\ WaitSound(u) /\ u.st = "blocked"
  BY <1>2 DEF TaskContexts, WaitSound
<1> QED
  BY <1>3, <1>4

LEMMA SignalledMade ==
    ASSUME NEW t \in TaskContexts, WaitSound(t), NEW channel
    PROVE  LET u == Signalled(t, channel)
           IN  u \in TaskContexts /\ WaitSound(u) /\ (u.st = "running" => t.st = "running")
BY DEF TaskContexts, WaitSound, Signalled, InState

LEMMA WokenMade ==
    ASSUME NEW t \in TaskContexts, WaitSound(t), NEW now
    PROVE  LET u == Woken(t, now)
           IN  u \in TaskContexts /\ WaitSound(u) /\ (u.st = "running" => t.st = "running")
BY TaskAssumption DEF TaskContexts, WaitSound, Woken, Due, InState, Ticks

\* A slot that may run is made READY or RUNNING.
LEMMA TurnMade ==
    ASSUME NEW t \in TaskContexts, WaitSound(t), t.st \in {"ready", "running"},
           NEW st \in {"ready", "running"}
    PROVE  LET u == InState(t, st)
           IN  u \in TaskContexts /\ WaitSound(u) /\ u.st = st
BY DEF TaskContexts, WaitSound, InState

-----------------------------------------------------------------------------
(* The operations on a machine.                                            *)

LEMMA CaptureSound ==
    ASSUME NEW x, Sound(x), NEW context \in Slots \cup {Kernel}
    PROVE  Sound(Capture(x, context)) /\ Capture(x, context).cur = x.cur
<1>1. x.cur \in Slots /\ context \in Contexts
  BY DEF Sound, Machines, Contexts
<1>2. x.p[x.cur] \in TaskContexts /\ WaitSound(x.p[x.cur])
  BY <1>1, SoundTask
<1>3. LET u == [x.p[x.cur] EXCEPT !.snap = context]
      IN  u \in TaskContexts /\ WaitSound(u)
  BY <1>1, <1>2, ContextsMade
<1> QED
  BY <1>1, <1>3, PutSound DEF Capture

LEMMA SignalSound ==
    ASSUME NEW x, Sound(x), NEW channel
    PROVE  Sound(Signal(x, channel)) /\ Signal(x, channel).cur = x.cur
<1> DEFINE q == [s \in Slots |-> Signalled(x.p[s], channel)]
<1>1. \A s \in Slots : /\ q[s] \in TaskContexts /\ WaitSound(q[s])
                       /\ q[s].st = "running" => x.p[s].st = "running"
  BY SoundTask, SignalledMade
<1>2. \A s \in Slots : q[s].st = "running" => s = x.cur
  BY <1>1 DEF Sound
<1>3. q \in [Slots -> TaskContexts]
  BY <1>1
<1>4. Signal(x, channel) = [x EXCEPT !.p = q]
  BY DEF Signal
<1> HIDE DEF q
<1>5. Sound([x EXCEPT !.p = q])
  BY <1>1, <1>2, <1>3, PutAllSound
<1> QED
  BY <1>4, <1>5 DEF Sound, Machines

LEMMA WakeSound ==
    ASSUME NEW x, Sound(x), NEW now
    PROVE  Sound(WakeDue(x, now))
<1> DEFINE q == [s \in Slots |-> Woken(x.p[s], now)]
<1>1. \A s \in Slots : /\ q[s] \in TaskContexts /\ WaitSound(q[s])
                       /\ q[s].st = "running" => x.p[s].st = "running"
  BY SoundTask, WokenMade
<1>2. \A s \in Slots : q[s].st = "running" => s = x.cur
  BY <1>1 DEF Sound
<1>3. q \in [Slots -> TaskContexts]
  BY <1>1
<1>4. WakeDue(x, now) = [x EXCEPT !.p = q]
  BY DEF WakeDue
<1> HIDE DEF q
<1> QED
  BY <1>1, <1>2, <1>3, <1>4, PutAllSound

LEMMA EndSound ==
    ASSUME NEW x, Sound(x), NEW s \in Slots
    PROVE  Sound(End(x, s)) /\ End(x, s).cur = x.cur
BY EndedMade, PutSound DEF End

LEMMA SeedSound ==
    ASSUME NEW x, Sound(x), NEW s \in Slots
    PROVE  Sound(Seed(x, s))
<1>1. x.p[s] \in TaskContexts /\ WaitSound(x.p[s]) /\ x.p[s].entry \in Contexts
  BY SoundTask DEF TaskContexts, Contexts
<1>2. LET u == [x.p[s] EXCEPT !.snap = x.p[s].entry]
      IN  u \in TaskContexts /\ WaitSound(u) /\ u.st = x.p[s].st
  BY <1>1, ContextsMade
<1>3. x.p[s].st = "running" => s = x.cur
  BY DEF Sound
<1> QED
  BY <1>2, <1>3, PutSound DEF Seed

\* The pages of a program were mapped.
LEMMA PreparedSound ==
    ASSUME NEW x, Sound(x), NEW s \in Slots
    PROVE  Sound(Prepared(x, s))
<1>1. x.p[s] \in TaskContexts /\ WaitSound(x.p[s])
  BY SoundTask
<1>2. LET u == [x.p[s] EXCEPT !.ready = TRUE, !.entry = s]
      IN  u \in TaskContexts /\ WaitSound(u) /\ u.st = x.p[s].st
  BY <1>1, ContextsMade
<1>3. x.p[s].st = "running" => s = x.cur
  BY DEF Sound
<1> QED
  BY <1>2, <1>3, PutSound DEF Prepared

\* A wait may be ended for any slot, whatever it was doing.
LEMMA ReadySound ==
    ASSUME NEW x, Sound(x), NEW s \in Slots
    PROVE  Sound(MakeReady(x, s))
BY SoundTask, ReadyMade, PutSound DEF MakeReady

LEMMA BlockSound ==
    ASSUME NEW x, Sound(x), NEW s \in Slots,
           NEW until \in Ticks, NEW channel \in Channels \cup {0},
           NEW reason \in {"sleep", "manual", "event"}, reason # "event" => channel = 0
    PROVE  Sound(Block(x, s, reason, until, channel))
BY SoundTask, BlockedMade, PutSound DEF Block

LEMMA SwitchSound ==
    ASSUME NEW x, Sound(x), NEW s \in Slots, Runnable(x, s)
    PROVE  Sound(SwitchTo(x, s))
<1> DEFINE y == IF x.p[x.cur].st = "running" THEN SetState(x, x.cur, "ready") ELSE x
           z == [y EXCEPT !.cur = s]
<1>1. CASE s = x.cur
  BY <1>1 DEF SwitchTo
<1>2. CASE s # x.cur
  <2>1. /\ Sound(y) /\ y.p[s] = x.p[s]
        /\ \A r \in Slots : y.p[r].st # "running"
    <3>1. CASE x.p[x.cur].st = "running"
      <4>1. LET u == InState(x.p[x.cur], "ready")
            IN  u \in TaskContexts /\ WaitSound(u) /\ u.st = "ready"
        BY <3>1, SoundTask, TurnMade
      <4>2. Sound(y)
        BY <3>1, <4>1, SoundTask, PutSound DEF SetState
      <4> QED
        BY <1>2, <3>1, <4>1, <4>2 DEF SetState, Put, Sound, Machines
    <3>2. CASE x.p[x.cur].st # "running"
      BY <3>2 DEF Sound
    <3> QED
      BY <3>1, <3>2
  <2> HIDE DEF y
  <2>2. Sound(z) /\ z.cur = s /\ z.p[s] = x.p[s]
    BY <2>1 DEF Sound, Machines
  <2> HIDE DEF z
  <2>3. LET u == InState(z.p[s], "running")
        IN  u \in TaskContexts /\ WaitSound(u)
    BY <2>2, SoundTask, TurnMade DEF Runnable
  <2>4. Sound(SetState(z, s, "running"))
    BY <2>2, <2>3, PutSound DEF SetState
  <2> QED
    BY <1>2, <2>4 DEF SwitchTo, y, z
<1> QED
  BY <1>1, <1>2

LEMMA RotateSound ==
    ASSUME NEW x, Sound(x)
    PROVE  Sound(Rotate(x))
<1> DEFINE candidates == {s \in Slots : Runnable(x, s)}
<1>1. CASE candidates = {}
  BY <1>1 DEF Rotate
<1>2. CASE candidates # {}
  <2>1. FirstOf(x, candidates) \in candidates
    BY <1>2, FirstIsCandidate DEF Sound
  <2> QED
    BY <1>2, <2>1, SwitchSound DEF Rotate
<1> QED
  BY <1>1, <1>2

LEMMA RestoreSound ==
    ASSUME NEW x, Sound(x)
    PROVE  Sound(RotateAndRestore(x))
<1> DEFINE candidates == {s \in Slots : Compatible(x, s)}
           next == FirstOf(x, candidates)
<1>1. CASE ~x.restoring
  BY <1>1, RotateSound DEF RotateAndRestore
<1>2. CASE x.restoring /\ (candidates = {} \/ next = x.cur)
  BY <1>2 DEF RotateAndRestore
<1>3. CASE x.restoring /\ candidates # {} /\ next # x.cur
  <2>1. next \in candidates
    BY <1>3, FirstIsCandidate DEF Sound
  <2>2. next \in Slots /\ Runnable(x, next) /\ x.p[next].snap = next
    BY <2>1 DEF Compatible
  <2>3. Sound(SwitchTo(x, next))
    BY <2>2, SwitchSound
  <2> HIDE DEF next
  <2>4. Sound([SwitchTo(x, next) EXCEPT !.run = x.p[next].snap, !.intr = TRUE])
    BY <2>2, <2>3 DEF Sound, Machines
  <2> QED
    BY <1>3, <2>4 DEF RotateAndRestore, next
<1> QED
  BY <1>1, <1>2, <1>3

-----------------------------------------------------------------------------
(* Every action preserves the invariant.                                   *)

LEMMA InitSound == Init => IInv
<1> SUFFICES ASSUME Init
             PROVE  IInv
  OBVIOUS
<1>1. 0 \in Ticks /\ NoSnapshot \in Contexts /\ 1 \in Slots
  BY TaskAssumption DEF Ticks, Contexts, Slots
<1>2. \A s \in Slots : /\ NewTask(s) \in TaskContexts /\ WaitSound(NewTask(s))
                       /\ NewTask(s).st = "ready"
  BY <1>1 DEF NewTask, TaskContexts, WaitSound
<1>3. LET t == [NewTask(1) EXCEPT !.st = "running"]
      IN  t \in TaskContexts /\ WaitSound(t)
  BY <1>1 DEF NewTask, TaskContexts, WaitSound
<1>4. Sound(m)
  BY <1>1, <1>2, <1>3 DEF Init, Sound, Machines
<1> QED
  BY <1>1, <1>4, TaskAssumption DEF Init, IInv

\* A step that leaves the clock and the quantum alone.
LEMMA MachineStep ==
    ASSUME IInv, Sound(m)', UNCHANGED <<ticks, acc, enabled, quantum>>
    PROVE  IInv'
BY DEF IInv

LEMMA EffectSound ==
    ASSUME NEW x, Sound(x)
    PROVE  Sound(Bridged(x))
BY SignalSound DEF Bridged

LEMMA EffectStep ==
    ASSUME NEW x, IInv, Sound(x), Effect(x)
    PROVE  IInv'
<1>1. Sound(m')
  BY EffectSound DEF Effect
<1> QED
  BY <1>1, MachineStep DEF Effect, Sound

LEMMA TrapStep ==
    ASSUME NEW x, IInv, Sound(x), Trap(x)
    PROVE  IInv'
<1>1. Sound([x EXCEPT !.kbd = FALSE])
  BY DEF Sound, Machines
<1>2. Sound(m')
  BY <1>1, EffectSound DEF Trap
<1> QED
  BY <1>2, MachineStep DEF Trap, Sound

\* The deadlines of sleeps are tick counts, taken modulo the clock.
LEMMA DeadlineType ==
    ASSUME ticks \in Ticks, NEW d \in Durations
    PROVE  (ticks + d) % TickWords \in Ticks
BY TaskAssumption DEF Ticks

LEMMA SleepSound ==
    ASSUME IInv, NEW x, Sound(x), NEW d \in Durations
    PROVE  Sound(SleepCall(x, d))
<1>1. x.cur \in Slots /\ (ticks + d) % TickWords \in Ticks
  BY DeadlineType DEF IInv, Sound, Machines
<1>2. Sound(Block(x, x.cur, "sleep", (ticks + d) % TickWords, 0))
  BY <1>1, BlockSound
<1> QED
  BY <1>2, RestoreSound DEF SleepCall

LEMMA EventWaitSound ==
    ASSUME NEW x, Sound(x), NEW channel \in Channels
    PROVE  Sound(EventWaitCall(x, channel))
<1>1. x.cur \in Slots /\ 0 \in Ticks
  BY TaskAssumption DEF Sound, Machines, Ticks
<1>2. Sound(Block(x, x.cur, "event", 0, channel))
  BY <1>1, BlockSound
<1> QED
  BY <1>2, RestoreSound DEF EventWaitCall

LEMMA TimerStep == IInv /\ Timer => IInv'
<1> SUFFICES ASSUME IInv, Timer
             PROVE  IInv'
  OBVIOUS
<1> DEFINE woken == WakeDue(Capture(m, m.run), ticks')
           over == enabled /\ acc + 1 >= quantum
<1>1. Sound(woken)
  BY CaptureSound, WakeSound DEF IInv, Sound, Machines
<1>2. m' = (IF over THEN RotateAndRestore(woken) ELSE woken)
  BY DEF Timer
<1>3. Sound(m')
  <2> HIDE DEF woken, over
  <2> QED
    BY <1>1, <1>2, RestoreSound
<1>4. ticks' \in Ticks
  BY TaskAssumption DEF Timer, IInv, Ticks
<1>5. acc' \in Nat /\ acc' < quantum' /\ quantum' \in Quanta /\ enabled' \in BOOLEAN
  BY TaskAssumption DEF Timer, IInv
<1> QED
  BY <1>3, <1>4, <1>5 DEF IInv, Sound

LEMMA CalledSound ==
    ASSUME IInv
    PROVE  Sound(Called) /\ Sound(Trapped) /\ m.cur \in Slots
BY CaptureSound DEF IInv, Called, Trapped, Sound, Machines

LEMMA SyscallStep == IInv /\ Syscall => IInv'
<1> SUFFICES ASSUME IInv, Syscall
             PROVE  IInv'
  OBVIOUS
<1>1. Sound(Called) /\ m.cur \in Slots
  BY CalledSound
<1>2. CASE m' = Called
  BY <1>1, <1>2, MachineStep DEF Syscall, Sound
<1>3. CASE m' = RotateAndRestore(Called)
  <2>1. Sound(m')
    BY <1>1, <1>3, RestoreSound
  <2> QED
    BY <2>1, MachineStep DEF Syscall, Sound
<1>4. CASE m' = RotateAndRestore(End(Called, m.cur))
  <2>1. Sound(m')
    BY <1>1, <1>4, EndSound, RestoreSound
  <2> QED
    BY <2>1, MachineStep DEF Syscall, Sound
<1>5. CASE \E d \in Durations : m' = SleepCall(Called, d)
  <2>1. Sound(m')
    BY <1>1, <1>5, SleepSound
  <2> QED
    BY <2>1, MachineStep DEF Syscall, Sound
<1>6. CASE \E ch \in Channels : m' = EventWaitCall(Called, ch) \/ m' = Signal(Called, ch)
  <2>1. Sound(m')
    BY <1>1, <1>6, EventWaitSound, SignalSound
  <2> QED
    BY <2>1, MachineStep DEF Syscall, Sound
<1> QED
  BY <1>2, <1>3, <1>4, <1>5, <1>6 DEF Syscall

LEMMA FaultStep == IInv /\ Fault => IInv'
<1> SUFFICES ASSUME IInv, Fault
             PROVE  IInv'
  OBVIOUS
<1>1. Sound(m')
  BY CalledSound, EndSound, RestoreSound DEF Fault, IInv
<1> QED
  BY <1>1, MachineStep DEF Fault, Sound

\* The commands that name a slot.
LEMMA ProcSetStep ==
    ASSUME IInv, NEW s \in Slots, ProcSet(s)
    PROVE  IInv'
<1> DEFINE left == IF m.p[m.cur].st = "running" THEN SetState(m, m.cur, "ready") ELSE m
           there == [left EXCEPT !.cur = s]
           set == IF Runnable(there, s) THEN SetState(there, s, "running") ELSE there
<1>1. /\ Sound(left)
      /\ \A r \in Slots : left.p[r].st # "running"
  <2>1. CASE m.p[m.cur].st = "running"
    <3>1. LET u == InState(m.p[m.cur], "ready")
          IN  u \in TaskContexts /\ WaitSound(u) /\ u.st = "ready"
      BY <2>1, SoundTask, TurnMade DEF IInv
    <3>2. Sound(left)
      BY <2>1, <3>1, SoundTask, PutSound DEF SetState, IInv
    <3> QED
      BY <2>1, <3>1, <3>2 DEF SetState, Put, Sound, Machines, IInv
  <2>2. CASE m.p[m.cur].st # "running"
    BY <2>2 DEF Sound, IInv
  <2> QED
    BY <2>1, <2>2
<1> HIDE DEF left
<1>2. Sound(there) /\ there.cur = s
  BY <1>1 DEF Sound, Machines
<1>3. Effect(set)
  BY DEF ProcSet, left
<1> HIDE DEF there
<1>4. Sound(set)
  <2>1. CASE Runnable(there, s)
    <3>1. LET u == InState(there.p[s], "running")
          IN  u \in TaskContexts /\ WaitSound(u)
      BY <1>2, <2>1, SoundTask, TurnMade DEF Runnable
    <3> QED
      BY <1>2, <2>1, <3>1, PutSound DEF SetState
  <2>2. CASE ~Runnable(there, s)
    BY <1>2, <2>2
  <2> QED
    BY <2>1, <2>2
<1> HIDE DEF set
<1> QED
  BY <1>3, <1>4, EffectStep

LEMMA TeardownStep ==
    ASSUME IInv, NEW s \in Slots, TaskTeardown(s)
    PROVE  IInv'
<1>1. Sound(End(m, s)) /\ Sound(Rotate(End(m, s)))
  BY EndSound, RotateSound DEF IInv
<1>2. PICK x : Sound(x) /\ Effect(x)
  BY <1>1 DEF TaskTeardown
<1> QED
  BY <1>2, EffectStep

LEMMA StopStep ==
    ASSUME IInv, NEW s \in Slots, TaskStop(s)
    PROVE  IInv'
<1> DEFINE stopped == Block(m, s, "manual", 0, 0)
<1>1. 0 \in Ticks /\ 0 \in Channels \cup {0}
  BY TaskAssumption DEF Ticks
<1>2. Sound(stopped)
  BY <1>1, BlockSound DEF IInv
<1>3. Sound(Rotate(stopped))
  BY <1>2, RotateSound
<1>4. PICK x : Sound(x) /\ Effect(x)
  BY <1>2, <1>3 DEF TaskStop
<1> QED
  BY <1>4, EffectStep

LEMMA SpawnStep ==
    ASSUME IInv, NEW s \in Slots, NEW ok \in BOOLEAN, TaskSpawn(s, ok)
    PROVE  IInv'
<1> DEFINE made == IF ok /\ ~m.p[s].ready THEN Prepared(m, s) ELSE m
<1>1. Sound(made)
  BY PreparedSound DEF IInv
<1> HIDE DEF made
<1>2. Sound(Seed(MakeReady(made, s), s))
  BY <1>1, ReadySound, SeedSound
<1>3. Effect(Seed(MakeReady(made, s), s))
  BY DEF TaskSpawn, made
<1> QED
  BY <1>2, <1>3, EffectStep

\* A saved context was Kernel or a slot; only a slot is entered.
LEMMA SnapRestoreStep ==
    ASSUME IInv, NEW s \in Slots, SnapRestore(s)
    PROVE  IInv'
<1> DEFINE u == [m.p[s] EXCEPT !.entry = m.p[s].snap]
<1>1. u \in TaskContexts /\ WaitSound(u) /\ u.st = m.p[s].st
  BY SoundTask, ContextsMade DEF IInv, SnapRestore
<1> HIDE DEF u
<1>2. Sound(Put(m, s, u))
  BY <1>1, PutSound DEF IInv, Sound
<1>3. Effect(Put(m, s, u))
  BY DEF SnapRestore, u
<1> QED
  BY <1>2, <1>3, EffectStep

\* The commands that name a duration or a channel.
LEMMA WaitStep ==
    ASSUME IInv, NEW d \in Durations, TaskSleep(d) \/ TaskWait(d)
    PROVE  IInv'
<1>1. CASE TaskSleep(d)
  BY <1>1, CalledSound, SleepSound, TrapStep DEF TaskSleep
<1>2. CASE TaskWait(d)
  <2> DEFINE x == Block(m, m.cur, "manual", (ticks + d) % TickWords, 0)
  <2>1. m.cur \in Slots /\ (ticks + d) % TickWords \in Ticks
    BY CalledSound, DeadlineType DEF IInv
  <2>2. Sound(x)
    BY <2>1, BlockSound DEF IInv
  <2>3. Effect(Rotate(x))
    BY <1>2 DEF TaskWait
  <2> HIDE DEF x
  <2> QED
    BY <2>2, <2>3, RotateSound, EffectStep
<1> QED
  BY <1>1, <1>2

LEMMA EventStep ==
    ASSUME IInv, NEW ch \in Channels, EventWait(ch) \/ EventSig(ch)
    PROVE  IInv'
<1>1. CASE EventWait(ch)
  BY <1>1, CalledSound, EventWaitSound, TrapStep DEF EventWait
<1>2. CASE EventSig(ch)
  BY <1>2, CalledSound, SignalSound, TrapStep DEF EventSig
<1> QED
  BY <1>1, <1>2

\* The commands that set a mode.
LEMMA InputStep ==
    ASSUME IInv, NEW ch \in Channels \cup {0}, InputChannel(ch)
    PROVE  IInv'
<1>1. Sound([m EXCEPT !.input = ch])
  BY DEF IInv, Sound, Machines
<1> QED
  BY <1>1, EffectStep DEF InputChannel

LEMMA RestoreModeStep ==
    ASSUME IInv, CtxSwOn \/ CtxSwOff
    PROVE  IInv'
<1>1. \A on \in BOOLEAN : Sound([m EXCEPT !.restoring = on])
  BY DEF IInv, Sound, Machines
<1> QED
  BY <1>1, EffectStep DEF CtxSwOn, CtxSwOff

LEMMA PrepStep ==
    ASSUME IInv, NEW ok \in BOOLEAN, UserTestPrep(ok)
    PROVE  IInv'
<1>1. Sound(m) /\ Sound(Prepared(m, m.cur))
  BY CalledSound, PreparedSound DEF IInv
<1>2. PICK x : Sound(x) /\ Effect(x)
  BY <1>1 DEF UserTestPrep
<1> QED
  BY <1>2, EffectStep

LEMMA SettingStep ==
    ASSUME IInv,
           \/ \E on \in BOOLEAN : SchedSwitch(on)
           \/ \E q \in Quanta : SchedQuantum(q)
    PROVE  IInv'
<1>1. Sound(m')
  BY EffectSound DEF IInv, SchedSwitch, SchedQuantum
<1>2. /\ ticks' \in Ticks /\ enabled' \in BOOLEAN /\ quantum' \in Quanta
      /\ acc' = 0 /\ 0 < quantum'
  BY TaskAssumption DEF IInv, SchedSwitch, SchedQuantum
<1> QED
  BY <1>1, <1>2 DEF IInv, Sound

LEMMA UserRunStep == IInv /\ UserRun => IInv'
<1> SUFFICES ASSUME IInv, UserRun
             PROVE  IInv'
  OBVIOUS
<1>1. m.p[m.cur].entry \in Slots
  BY CalledSound, SoundTask DEF IInv, TaskContexts
<1>2. Sound([m EXCEPT !.run = m.p[m.cur].entry, !.intr = FALSE, !.kbd = FALSE])
  BY <1>1 DEF IInv, Sound, Machines
<1>3. Sound(m')
  BY <1>2 DEF UserRun
<1> QED
  BY <1>3, MachineStep DEF UserRun, Sound

LEMMA ConsoleStep == IInv /\ Console => IInv'
<1> SUFFICES ASSUME IInv, Console
             PROVE  IInv'
  OBVIOUS
<1>1. CASE \E s \in Slots : ProcSet(s)
  BY <1>1, ProcSetStep
<1>2. CASE \E s \in Slots : TaskTeardown(s) \/ TaskStop(s) \/ SnapRestore(s)
  BY <1>2, TeardownStep, StopStep, SnapRestoreStep
<1>3. CASE \E s \in Slots : TaskWake(s) \/ TaskRun(s)
  BY <1>3, ReadySound, EffectStep DEF TaskWake, TaskRun, IInv
<1>4. CASE \E s \in Slots : SnapSeed(s)
  BY <1>4, SeedSound, EffectStep DEF SnapSeed, IInv
<1>5. CASE \E s \in Slots : \E ok \in BOOLEAN : TaskSpawn(s, ok)
  BY <1>5, SpawnStep
<1>6. CASE \E d \in Durations : TaskSleep(d) \/ TaskWait(d)
  BY <1>6, WaitStep
<1>7. CASE \E ch \in Channels : EventWait(ch) \/ EventSig(ch)
  BY <1>7, EventStep
<1>8. CASE \E ch \in Channels \cup {0} : InputChannel(ch)
  BY <1>8, InputStep
<1>9. CASE \E ok \in BOOLEAN : UserTestPrep(ok)
  BY <1>9, PrepStep
<1>10. CASE (\E on \in BOOLEAN : SchedSwitch(on)) \/ (\E q \in Quanta : SchedQuantum(q))
  BY <1>10, SettingStep
<1>11. CASE SnapNow
  BY <1>11, CalledSound, TrapStep DEF SnapNow
<1>12. CASE UserRun
  BY <1>12, UserRunStep
<1>13. CASE CtxSwOn \/ CtxSwOff
  BY <1>13, RestoreModeStep
<1> QED
  BY <1>1, <1>2, <1>3, <1>4, <1>5, <1>6, <1>7, <1>8, <1>9, <1>10, <1>11, <1>12, <1>13
  DEF Console

-----------------------------------------------------------------------------
(* The theorems.                                                           *)

LEMMA Inductive == IInv /\ [Next]_vars => IInv'
<1> SUFFICES ASSUME IInv, [Next]_vars
             PROVE  IInv'
  OBVIOUS
<1>1. CASE Timer
  BY <1>1, TimerStep
<1>2. CASE Syscall
  BY <1>2, SyscallStep
<1>3. CASE Fault
  BY <1>3, FaultStep
<1>4. CASE Console
  BY <1>4, ConsoleStep
<1>5. CASE UNCHANGED vars
  BY <1>5 DEF vars, IInv, Sound
<1> QED
  BY <1>1, <1>2, <1>3, <1>4, <1>5 DEF Next

\* The invariant holds in every reachable state: what the handlers and the shell
\* commands do to the slots, the clock and the quantum keeps it.
THEOREM SchedulerInvariant == Spec => []IInv
BY InitSound, Inductive, PTL DEF Spec

\* Every field of the scheduler keeps its type: deadlines are counts the clock
\* can show, whatever is added to timer_ticks.
THEOREM TypeCorrect == Spec => []TypeOK
<1>1. IInv => TypeOK
  BY DEF IInv, Sound, TypeOK
<1> QED
  BY <1>1, SchedulerInvariant, PTL

\* No slot is RUNNING but the current one: every path that moves
\* current_process_slot takes RUNNING from the slot it leaves.
THEOREM OneRunningAlways == Spec => []OneRunning
<1>1. IInv => OneRunning
  BY DEF IInv, Sound, OneRunning
<1> QED
  BY <1>1, SchedulerInvariant, PTL

\* A blocked slot says what it waits for, and no deadline or channel outlives
\* the wait it was set for, on any path that ends one.
THEOREM WaitsCurrentAlways == Spec => []WaitsCurrent
<1>1. IInv => WaitsCurrent
  BY DEF IInv, Sound, WaitSound, WaitsCurrent
<1> QED
  BY <1>1, SchedulerInvariant, PTL

\* The accumulator never passes the quantum, also when schedq lowers it.
THEOREM QuantumAlwaysKept == Spec => []QuantumKept
<1>1. IInv => QuantumKept
  BY DEF IInv, QuantumKept
<1> QED
  BY <1>1, SchedulerInvariant, PTL

-----------------------------------------------------------------------------
(* Who may run: the last runnable slot.                                    *)

\* Every slot that may run still may, and no ended slot comes back.
Kept(x, y) ==
    \A s \in Slots : /\ Runnable(x, s) => Runnable(y, s)
                     /\ x.p[s].st = "exited" => y.p[s].st = "exited"

LEMMA KeptTrans ==
    ASSUME NEW x, NEW y, NEW z, Kept(x, y), Kept(y, z)
    PROVE  Kept(x, z)
BY DEF Kept

\* One slot's context is replaced: what the others are, and who is current, stays.
LEMMA PutEffect ==
    ASSUME NEW x \in Machines, NEW s \in Slots, NEW t \in TaskContexts
    PROVE  /\ Put(x, s, t) \in Machines /\ Put(x, s, t).cur = x.cur
           /\ \A r \in Slots : Put(x, s, t).p[r] = IF r = s THEN t ELSE x.p[r]
BY DEF Put, Machines

LEMMA TurnEffect ==
    ASSUME NEW x \in Machines, NEW s \in Slots, NEW st \in {"ready", "running"}
    PROVE  /\ SetState(x, s, st) \in Machines /\ SetState(x, s, st).cur = x.cur
           /\ \A r \in Slots : SetState(x, s, st).p[r].st = IF r = s THEN st ELSE x.p[r].st
<1>1. x.p[s] \in TaskContexts
  BY DEF Machines
<1>2. InState(x.p[s], st) \in TaskContexts /\ InState(x.p[s], st).st = st
  BY <1>1 DEF InState, TaskContexts
<1> QED
  BY <1>2, PutEffect DEF SetState

LEMMA SwitchKept ==
    ASSUME NEW x, Sound(x), NEW s \in Slots, Runnable(x, s)
    PROVE  Kept(x, SwitchTo(x, s))
<1> DEFINE y == IF x.p[x.cur].st = "running" THEN SetState(x, x.cur, "ready") ELSE x
           z == [y EXCEPT !.cur = s]
<1>1. CASE s = x.cur
  BY <1>1 DEF SwitchTo, Kept
<1>2. CASE s # x.cur
  <2>1. /\ y \in Machines /\ x.cur \in Slots
        /\ \A r \in Slots : y.p[r].st = IF r = x.cur /\ x.p[r].st = "running" THEN "ready" ELSE x.p[r].st
    <3>1. x \in Machines /\ x.cur \in Slots
      BY DEF Sound, Machines
    <3>2. LET v == SetState(x, x.cur, "ready")
          IN  v \in Machines /\ \A r \in Slots : v.p[r].st = IF r = x.cur THEN "ready" ELSE x.p[r].st
      BY <3>1, TurnEffect
    <3>3. CASE x.p[x.cur].st = "running"
      <4>1. y = SetState(x, x.cur, "ready")
        BY <3>3
      <4> HIDE DEF y
      <4> QED
        BY <3>1, <3>2, <3>3, <4>1
    <3>4. CASE x.p[x.cur].st # "running"
      BY <3>1, <3>4
    <3> QED
      BY <3>3, <3>4
  <2> HIDE DEF y
  <2>3. z.p = y.p /\ z \in Machines
    BY <2>1 DEF Machines
  <2> HIDE DEF z
  <2>4. \A r \in Slots : SetState(z, s, "running").p[r].st = IF r = s THEN "running" ELSE z.p[r].st
    BY <2>3, TurnEffect
  <2> QED
    BY <1>2, <2>1, <2>3, <2>4 DEF SwitchTo, Kept, Runnable, y, z
<1> QED
  BY <1>1, <1>2

LEMMA RotateKept ==
    ASSUME NEW x, Sound(x)
    PROVE  Kept(x, Rotate(x))
<1> DEFINE candidates == {s \in Slots : Runnable(x, s)}
<1>1. CASE candidates = {}
  BY <1>1 DEF Rotate, Kept
<1>2. CASE candidates # {}
  <2>1. FirstOf(x, candidates) \in candidates
    BY <1>2, FirstIsCandidate DEF Sound
  <2> QED
    BY <1>2, <2>1, SwitchKept DEF Rotate
<1> QED
  BY <1>1, <1>2

LEMMA RestoreKept ==
    ASSUME NEW x, Sound(x)
    PROVE  Kept(x, RotateAndRestore(x))
<1> DEFINE candidates == {s \in Slots : Compatible(x, s)}
           next == FirstOf(x, candidates)
<1>1. CASE ~x.restoring
  BY <1>1, RotateKept DEF RotateAndRestore
<1>2. CASE x.restoring /\ (candidates = {} \/ next = x.cur)
  BY <1>2 DEF RotateAndRestore, Kept
<1>3. CASE x.restoring /\ candidates # {} /\ next # x.cur
  <2>1. next \in candidates
    BY <1>3, FirstIsCandidate DEF Sound
  <2>2. next \in Slots /\ Runnable(x, next)
    BY <2>1 DEF Compatible
  <2>3. Kept(x, SwitchTo(x, next)) /\ Sound(SwitchTo(x, next))
    BY <2>2, SwitchKept, SwitchSound
  <2> HIDE DEF next
  <2>4. [SwitchTo(x, next) EXCEPT !.run = x.p[next].snap, !.intr = TRUE].p = SwitchTo(x, next).p
    BY <2>3 DEF Sound, Machines
  <2> QED
    BY <1>3, <2>3, <2>4 DEF RotateAndRestore, next, Kept, Runnable
<1> QED
  BY <1>1, <1>2, <1>3

LEMMA CaptureKept ==
    ASSUME NEW x, Sound(x), NEW context
    PROVE  Kept(x, Capture(x, context))
BY DEF Sound, Machines, Capture, Put, Kept, Runnable, TaskContexts

LEMMA SignalKept ==
    ASSUME NEW x, Sound(x), NEW channel
    PROVE  Kept(x, Signal(x, channel)) /\ Kept(x, Bridged(x))
<1>1. \A ch : Kept(x, Signal(x, ch))
  BY DEF Sound, Machines, Signal, Signalled, InState, Kept, Runnable, TaskContexts
<1>2. Kept(x, x)
  BY DEF Kept
<1> QED
  BY <1>1, <1>2 DEF Bridged

LEMMA WakeKept ==
    ASSUME NEW x, Sound(x), NEW now
    PROVE  Kept(x, WakeDue(x, now))
BY DEF Sound, Machines, WakeDue, Woken, Due, InState, Kept, Runnable, TaskContexts

\* At least one slot may run.
Live(x) == \E s \in Slots : Runnable(x, s)

LEMMA LiveCounted ==
    ASSUME NEW x
    PROVE  /\ RunnableCount(x) \in Nat
           /\ RunnableCount(x) > 0 <=> Live(x)
           /\ \A s \in Slots : RunnableCount(x) > 1 => \E r \in Slots \ {s} : Runnable(x, r)
<1> DEFINE S == {s \in Slots : Runnable(x, s)}
<1>1. IsFiniteSet(S) /\ Cardinality(S) \in Nat /\ RunnableCount(x) = Cardinality(S)
  <2>1. IsFiniteSet(Slots)
    BY TaskAssumption, FS_Interval DEF Slots
  <2>2. S \subseteq Slots
    OBVIOUS
  <2> QED
    BY <2>1, <2>2, FS_Subset, FS_CardinalityType DEF RunnableCount
<1>2. Cardinality(S) = 0 <=> S = {}
  BY <1>1, FS_EmptySet
<1>3. ASSUME NEW s \in Slots, RunnableCount(x) > 1
      PROVE  \E r \in Slots \ {s} : Runnable(x, r)
  <2>1. CASE S \subseteq {s}
    <3>1. Cardinality({s}) = 1 /\ IsFiniteSet({s})
      BY FS_Singleton
    <3>2. Cardinality(S) <= Cardinality({s})
      BY <2>1, <3>1, FS_Subset
    <3> QED
      BY <1>1, <1>3, <3>1, <3>2
  <2>2. CASE ~(S \subseteq {s})
    BY <2>2
  <2> QED
    BY <2>1, <2>2
<1>4. S # {} <=> Live(x)
  BY DEF Live
<1> QED
  BY <1>1, <1>2, <1>3, <1>4

LEMMA LiveKept ==
    ASSUME NEW x, NEW y, Kept(x, y), Live(x)
    PROVE  Live(y)
BY DEF Kept, Live

\* One slot of several is blocked, or one that may not run anyway.
LEMMA BlockLive ==
    ASSUME NEW x, Sound(x), Live(x), NEW s \in Slots, RunnableCount(x) > 1 \/ ~Runnable(x, s),
           NEW reason, NEW until, NEW channel
    PROVE  Live(Block(x, s, reason, until, channel))
<1>1. PICK r \in Slots \ {s} : Runnable(x, r)
  BY LiveCounted DEF Live
<1>2. Block(x, s, reason, until, channel).p[r] = x.p[r]
  BY DEF Block, Put, Sound, Machines
<1> QED
  BY <1>1, <1>2 DEF Live, Runnable

\* A slot ends; if the last one that may run does, a task ended that had not.
LEMMA EndLive ==
    ASSUME NEW x, Sound(x), NEW s \in Slots
    PROVE  /\ End(x, s).p[s].st = "exited"
           /\ x.p[s].st = "exited" => Kept(x, End(x, s))
BY DEF End, Put, Ended, NewTask, Sound, Machines, Kept, Runnable

\* The last runnable slot is lost only where a task ends.
Lost(x, y) == Live(x) => Live(y) \/ \E s \in Slots : x.p[s].st # "exited" /\ y.p[s].st = "exited"

LEMMA EndLost ==
    ASSUME NEW x, Sound(x), NEW s \in Slots, NEW y, Kept(End(x, s), y)
    PROVE  Lost(x, y)
<1>1. CASE x.p[s].st = "exited"
  BY <1>1, EndLive, KeptTrans, LiveKept DEF Lost
<1>2. CASE x.p[s].st # "exited"
  BY <1>2, EndLive DEF Lost, Kept
<1> QED
  BY <1>1, <1>2

LEMMA CallsLive ==
    ASSUME IInv, NEW x, Sound(x), Live(x), NEW d \in Durations \cup Channels
    PROVE  /\ d \in Durations => Live(SleepCall(x, d))
           /\ d \in Channels => Live(EventWaitCall(x, d))
<1>1. x.cur \in Slots /\ RunnableCount(x) \in Nat /\ 0 \in Ticks
  BY LiveCounted, TaskAssumption DEF Sound, Machines, Ticks
<1>2. ASSUME d \in Durations
      PROVE  Live(SleepCall(x, d))
  <2> DEFINE y == Block(x, x.cur, "sleep", (ticks + d) % TickWords, 0)
  <2>1. CASE RunnableCount(x) <= 1
    BY <2>1 DEF SleepCall
  <2>2. CASE RunnableCount(x) > 1
    <3>1. Live(y)
      BY <1>1, <2>2, BlockLive
    <3>2. Sound(y)
      BY <1>1, <1>2, DeadlineType, BlockSound DEF IInv
    <3> HIDE DEF y
    <3>3. Live(RotateAndRestore(y))
      BY <3>1, <3>2, RestoreKept, LiveKept
    <3> QED
      BY <1>1, <2>2, <3>3 DEF SleepCall, y
  <2> QED
    BY <1>1, <2>1, <2>2
<1>3. ASSUME d \in Channels
      PROVE  Live(EventWaitCall(x, d))
  <2> DEFINE y == Block(x, x.cur, "event", 0, d)
  <2>1. CASE RunnableCount(x) <= 1
    BY <2>1 DEF EventWaitCall
  <2>2. CASE RunnableCount(x) > 1
    <3>1. Live(y)
      BY <1>1, <2>2, BlockLive
    <3>2. Sound(y)
      BY <1>1, <1>3, BlockSound
    <3> HIDE DEF y
    <3>3. Live(RotateAndRestore(y))
      BY <3>1, <3>2, RestoreKept, LiveKept
    <3> QED
      BY <1>1, <2>2, <3>3 DEF EventWaitCall, y
  <2> QED
    BY <1>1, <2>1, <2>2
<1> QED
  BY <1>2, <1>3

\* What a command leaves is bridged to the input channel, or trapped.
LEMMA CommandLost ==
    ASSUME NEW x, Sound(x), Lost(m, x), Effect(x) \/ Trap(x)
    PROVE  Lost(m, m')
<1>1. Kept(x, m')
  <2>1. Kept(x, Bridged(x))
    BY SignalKept
  <2>2. Kept(x, [x EXCEPT !.kbd = FALSE])
    BY DEF Kept, Runnable, Sound, Machines
  <2> QED
    BY <2>1, <2>2 DEF Effect, Trap
<1> QED
  BY <1>1, LiveKept DEF Lost, Kept

LEMMA CalledKept ==
    ASSUME IInv
    PROVE  Kept(m, Called) /\ Kept(m, Trapped)
BY CaptureKept DEF IInv, Called, Trapped

LEMMA ReadyLive ==
    ASSUME NEW x, Sound(x), NEW s \in Slots
    PROVE  /\ Live(MakeReady(x, s))
           /\ Live(x) => Live(Seed(x, s)) /\ Live(Prepared(x, s))
<1>1. MakeReady(x, s).p[s].st = "ready"
  BY DEF MakeReady, Put, InState, Unwaiting, Sound, Machines, TaskContexts
<1>2. \A r \in Slots : Seed(x, s).p[r].st = x.p[r].st /\ Prepared(x, s).p[r].st = x.p[r].st
  BY DEF Seed, Prepared, Put, Sound, Machines, TaskContexts
<1> QED
  BY <1>1, <1>2 DEF Live, Runnable

LEMMA TimerLost == IInv /\ Timer => Lost(m, m')
<1> SUFFICES ASSUME IInv, Timer
             PROVE  Lost(m, m')
  OBVIOUS
<1> DEFINE captured == Capture(m, m.run)
           woken == WakeDue(captured, ticks')
           over == enabled /\ acc + 1 >= quantum
<1>1. Sound(captured) /\ Kept(m, captured)
  BY CaptureSound, CaptureKept DEF IInv, Sound, Machines
<1>2. m' = (IF over THEN RotateAndRestore(woken) ELSE woken)
  BY DEF Timer
<1> HIDE DEF captured
<1>3. Sound(woken) /\ Kept(captured, woken)
  BY <1>1, WakeSound, WakeKept
<1> HIDE DEF woken, over
<1>4. Kept(woken, m')
  BY <1>2, <1>3, RestoreKept DEF Kept
<1> QED
  BY <1>1, <1>3, <1>4, LiveKept DEF Lost

LEMMA SyscallLost == IInv /\ Syscall => Lost(m, m')
<1> SUFFICES ASSUME IInv, Syscall
             PROVE  Lost(m, m')
  OBVIOUS
<1>1. Sound(Called) /\ m.cur \in Slots /\ Kept(m, Called)
  BY CalledSound, CalledKept
<1>2. CASE m' = Called \/ m' = RotateAndRestore(Called) \/ \E ch \in Channels : m' = Signal(Called, ch)
  <2>1. Kept(Called, Called)
    BY DEF Kept
  <2>2. Kept(Called, m')
    BY <1>1, <1>2, <2>1, RestoreKept, SignalKept
  <2> QED
    BY <1>1, <2>2, LiveKept DEF Lost
<1>3. CASE m' = RotateAndRestore(End(Called, m.cur))
  <2>1. Lost(Called, m')
    BY <1>1, <1>3, EndSound, RestoreKept, EndLost
  <2>2. \A s \in Slots : Called.p[s].st = m.p[s].st
    BY DEF Called, Capture, Put, IInv, Sound, Machines, TaskContexts
  <2> QED
    BY <1>1, <2>1, <2>2, LiveKept DEF Lost
<1>4. CASE \/ \E d \in Durations : m' = SleepCall(Called, d)
           \/ \E ch \in Channels : m' = EventWaitCall(Called, ch)
  BY <1>1, <1>4, CallsLive, LiveKept DEF Lost
<1> QED
  BY <1>2, <1>3, <1>4 DEF Syscall

LEMMA SlotCommandsLost ==
    ASSUME IInv, NEW s \in Slots,
           \/ TaskTeardown(s) \/ TaskWake(s) \/ TaskRun(s) \/ TaskStop(s)
           \/ SnapSeed(s) \/ SnapRestore(s) \/ \E ok \in BOOLEAN : TaskSpawn(s, ok)
    PROVE  Lost(m, m')
<1>1. Sound(m) /\ m.cur \in Slots
  BY CalledSound DEF IInv
<1>2. CASE TaskTeardown(s)
  <2>1. Sound(End(m, s)) /\ Kept(End(m, s), End(m, s)) /\ Kept(End(m, s), Rotate(End(m, s)))
    BY <1>1, EndSound, RotateKept DEF Kept
  <2>2. Sound(Rotate(End(m, s)))
    BY <2>1, RotateSound
  <2> QED
    BY <1>1, <1>2, <2>1, <2>2, EndLost, CommandLost DEF TaskTeardown
<1>3. CASE TaskWake(s) \/ TaskRun(s)
  BY <1>1, <1>3, ReadySound, ReadyLive, CommandLost DEF TaskWake, TaskRun, Lost
<1>4. CASE TaskStop(s)
  <2> DEFINE x == Block(m, s, "manual", 0, 0)
  <2>1. 0 \in Ticks /\ 0 \in Channels \cup {0}
    BY TaskAssumption DEF Ticks
  <2>2. Sound(x)
    BY <1>1, <2>1, BlockSound
  <2>3. Lost(m, x)
    BY <1>1, <1>4, BlockLive DEF TaskStop, Lost
  <2>4. Effect(IF s = m.cur THEN Rotate(x) ELSE x)
    BY <1>4 DEF TaskStop
  <2> HIDE DEF x
  <2>5. Sound(Rotate(x)) /\ Lost(m, Rotate(x))
    BY <2>2, <2>3, RotateSound, RotateKept, LiveKept DEF Lost, Kept
  <2> QED
    BY <2>2, <2>3, <2>4, <2>5, CommandLost
<1>5. CASE SnapSeed(s)
  BY <1>1, <1>5, SeedSound, ReadyLive, CommandLost DEF SnapSeed, Lost
<1>6. CASE SnapRestore(s)
  <2> DEFINE u == [m.p[s] EXCEPT !.entry = m.p[s].snap]
             x == Put(m, s, u)
  <2>1. u \in TaskContexts /\ WaitSound(u) /\ u.st = m.p[s].st
    BY <1>1, <1>6, SoundTask, ContextsMade DEF SnapRestore
  <2>2. Effect(x)
    BY <1>6 DEF SnapRestore
  <2> HIDE DEF u
  <2>3. Sound(x) /\ Kept(m, x)
    <3>1. m \in Machines /\ (u.st = "running" => s = m.cur)
      BY <1>1, <2>1 DEF Sound
    <3>2. Sound(x)
      BY <1>1, <2>1, <3>1, PutSound
    <3> QED
      BY <2>1, <3>1, <3>2, PutEffect DEF Kept, Runnable
  <2> HIDE DEF x
  <2> QED
    BY <2>2, <2>3, LiveKept, CommandLost DEF Lost
<1>7. CASE \E ok \in BOOLEAN : TaskSpawn(s, ok)
  <2>1. PICK ok \in BOOLEAN : TaskSpawn(s, ok)
    BY <1>7
  <2> DEFINE made == IF ok /\ ~m.p[s].ready THEN Prepared(m, s) ELSE m
             x == Seed(MakeReady(made, s), s)
  <2>2. Sound(made)
    BY <1>1, PreparedSound
  <2>3. Effect(x)
    BY <2>1 DEF TaskSpawn
  <2> HIDE DEF made
  <2>4. Sound(x) /\ Live(x)
    BY <2>2, ReadySound, SeedSound, ReadyLive
  <2> HIDE DEF x
  <2> QED
    BY <2>3, <2>4, CommandLost DEF Lost
<1> QED
  BY <1>2, <1>3, <1>4, <1>5, <1>6, <1>7

LEMMA ProcSetLost ==
    ASSUME IInv, NEW s \in Slots, ProcSet(s)
    PROVE  Lost(m, m')
<1> DEFINE left == IF m.p[m.cur].st = "running" THEN SetState(m, m.cur, "ready") ELSE m
           there == [left EXCEPT !.cur = s]
           x == IF Runnable(there, s) THEN SetState(there, s, "running") ELSE there
<1>1. left \in Machines /\ Kept(m, left)
  <2>1. m \in Machines /\ m.cur \in Slots
    BY DEF IInv, Sound, Machines
  <2>2. CASE m.p[m.cur].st = "running"
    <3>1. LET y == SetState(m, m.cur, "ready")
          IN  y \in Machines /\ \A r \in Slots : y.p[r].st = IF r = m.cur THEN "ready" ELSE m.p[r].st
      <4> HIDE DEF left
      <4> QED
        BY <2>1, TurnEffect
    <3>2. left = SetState(m, m.cur, "ready")
      BY <2>2
    <3> HIDE DEF left
    <3> QED
      BY <2>2, <3>1, <3>2 DEF Kept, Runnable
  <2>3. CASE m.p[m.cur].st # "running"
    BY <2>1, <2>3 DEF Kept
  <2> QED
    BY <2>2, <2>3
<1>2. m' = Bridged(x)
  BY DEF ProcSet, Effect
<1> HIDE DEF left
<1>3. there \in Machines /\ there.p = left.p
  BY <1>1 DEF Machines
<1> HIDE DEF there
<1>4. x \in Machines /\ Kept(there, x)
  <2>1. CASE Runnable(there, s)
    <3>1. LET y == SetState(there, s, "running")
          IN  y \in Machines /\ \A r \in Slots : y.p[r].st = IF r = s THEN "running" ELSE there.p[r].st
      <4> HIDE DEF x
      <4> QED
        BY <1>3, TurnEffect
    <3>2. x = SetState(there, s, "running")
      BY <2>1
    <3> HIDE DEF x
    <3> QED
      BY <2>1, <3>1, <3>2 DEF Kept, Runnable
  <2>2. CASE ~Runnable(there, s)
    BY <1>3, <2>2 DEF Kept
  <2> QED
    BY <2>1, <2>2
<1> HIDE DEF x
<1>5. Kept(x, Bridged(x))
  BY <1>4 DEF Machines, Bridged, Signal, Signalled, InState, Kept, Runnable, TaskContexts
<1>6. Kept(left, there)
  BY <1>3 DEF Kept, Runnable
<1> QED
  BY <1>1, <1>2, <1>4, <1>5, <1>6, LiveKept DEF Lost

LEMMA OtherCommandsLost ==
    ASSUME IInv, Console, ~\E s \in Slots : ProcSet(s),
           ~\E s \in Slots : \/ TaskTeardown(s) \/ TaskWake(s) \/ TaskRun(s) \/ TaskStop(s)
                             \/ SnapSeed(s) \/ SnapRestore(s) \/ \E ok \in BOOLEAN : TaskSpawn(s, ok)
    PROVE  Lost(m, m')
<1>1. Sound(m) /\ m.cur \in Slots /\ Sound(Trapped) /\ Kept(m, Trapped) /\ Lost(m, Trapped) /\ Lost(m, m)
  BY CalledSound, CalledKept, LiveKept DEF IInv, Lost
<1>2. CASE \E d \in Durations : TaskSleep(d)
  <2>1. PICK d \in Durations : Trap(SleepCall(Trapped, d))
    BY <1>2 DEF TaskSleep
  <2>2. Sound(SleepCall(Trapped, d)) /\ Lost(m, SleepCall(Trapped, d))
    BY <1>1, SleepSound, CallsLive, LiveKept DEF Lost
  <2> QED
    BY <2>1, <2>2, CommandLost
<1>3. CASE \E d \in Durations : TaskWait(d)
  <2>1. PICK d \in Durations : TaskWait(d)
    BY <1>3
  <2> DEFINE x == Block(m, m.cur, "manual", (ticks + d) % TickWords, 0)
  <2>2. (ticks + d) % TickWords \in Ticks
    BY DeadlineType DEF IInv
  <2>3. Sound(x)
    BY <1>1, <2>2, BlockSound
  <2>4. Live(m) => Live(x)
    BY <1>1, <2>1, BlockLive DEF TaskWait
  <2>5. Effect(Rotate(x))
    BY <2>1 DEF TaskWait
  <2> HIDE DEF x
  <2>6. Sound(Rotate(x)) /\ Lost(m, Rotate(x))
    BY <2>3, <2>4, RotateSound, RotateKept, LiveKept DEF Lost
  <2> QED
    BY <2>5, <2>6, CommandLost
<1>4. CASE \E ch \in Channels : EventWait(ch)
  <2>1. PICK ch \in Channels : Trap(EventWaitCall(Trapped, ch))
    BY <1>4 DEF EventWait
  <2>2. Sound(EventWaitCall(Trapped, ch)) /\ Lost(m, EventWaitCall(Trapped, ch))
    BY <1>1, EventWaitSound, CallsLive, LiveKept DEF Lost
  <2> QED
    BY <2>1, <2>2, CommandLost
<1>5. CASE \E ch \in Channels : EventSig(ch)
  <2>1. PICK ch \in Channels : Trap(Signal(Trapped, ch))
    BY <1>5 DEF EventSig
  <2>2. Sound(Signal(Trapped, ch)) /\ Lost(m, Signal(Trapped, ch))
    BY <1>1, SignalSound, SignalKept, LiveKept DEF Lost
  <2> QED
    BY <2>1, <2>2, CommandLost
<1>6. CASE SnapNow
  BY <1>1, <1>6, CommandLost DEF SnapNow
<1>7. CASE \E ch \in Channels \cup {0} : InputChannel(ch)
  <2>1. PICK ch \in Channels \cup {0} : Effect([m EXCEPT !.input = ch])
    BY <1>7 DEF InputChannel
  <2>2. Sound([m EXCEPT !.input = ch]) /\ Kept(m, [m EXCEPT !.input = ch])
    BY <1>1 DEF Sound, Machines, Kept, Runnable
  <2> QED
    BY <2>1, <2>2, LiveKept, CommandLost DEF Lost
<1>8. CASE CtxSwOn \/ CtxSwOff
  <2>1. PICK on \in BOOLEAN : Effect([m EXCEPT !.restoring = on])
    BY <1>8 DEF CtxSwOn, CtxSwOff
  <2>2. Sound([m EXCEPT !.restoring = on]) /\ Kept(m, [m EXCEPT !.restoring = on])
    BY <1>1 DEF Sound, Machines, Kept, Runnable
  <2> QED
    BY <2>1, <2>2, LiveKept, CommandLost DEF Lost
<1>9. CASE \E ok \in BOOLEAN : UserTestPrep(ok)
  <2>1. Sound(Prepared(m, m.cur)) /\ Lost(m, Prepared(m, m.cur))
    BY <1>1, PreparedSound, ReadyLive DEF Lost
  <2> QED
    BY <1>1, <1>9, <2>1, CommandLost DEF UserTestPrep
<1>10. CASE (\E on \in BOOLEAN : SchedSwitch(on)) \/ (\E q \in Quanta : SchedQuantum(q))
  BY <1>1, <1>10, SignalKept, LiveKept DEF SchedSwitch, SchedQuantum, Lost
<1>11. CASE UserRun
  <2>1. Kept(m, m')
    BY <1>1, <1>11 DEF UserRun, Kept, Runnable, Sound, Machines
  <2> QED
    BY <2>1, LiveKept DEF Lost
<1> QED
  BY <1>2, <1>3, <1>4, <1>5, <1>6, <1>7, <1>8, <1>9, <1>10, <1>11 DEF Console

\* Neither a wait nor taskstop takes the last runnable slot, in any order of
\* commands, calls and interrupts: only the end of a task can.
THEOREM LastNeverBlocked == Spec => LastNotBlocked
<1>1. IInv /\ [Next]_vars => Lost(m, m')
  <2> SUFFICES ASSUME IInv, [Next]_vars
               PROVE  Lost(m, m')
    OBVIOUS
  <2>1. CASE Fault
    BY <2>1, CalledSound, EndSound, RestoreKept, EndLost DEF Fault, IInv
  <2>2. CASE Console
    BY <2>2, SlotCommandsLost, ProcSetLost, OtherCommandsLost
  <2>3. CASE UNCHANGED vars
    BY <2>3 DEF vars, Lost
  <2> QED
    BY <2>1, <2>2, <2>3, TimerLost, SyscallLost DEF Next
<1>2. IInv /\ [Next]_vars =>
        [(RunnableCount(m) > 0 /\ RunnableCount(m') = 0) =>
          \E s \in Slots : m.p[s].st # "exited" /\ m'.p[s].st = "exited"]_vars
  BY <1>1, LiveCounted DEF Lost
<1> QED
  BY <1>2, SchedulerInvariant, PTL DEF Spec, LastNotBlocked

-----------------------------------------------------------------------------
(* Whose program runs in frame-restore mode.                               *)

\* The commands that move the current slot and restore no frame, and the one that
\* ends the mode.
Moving == {"procset", "taskteardown", "taskwait", "taskstop", "ctxswoff"}

\* In the mode the program that runs is the current slot's; outside of it no key
\* is delivered while a program runs, so none can switch the mode on under it.
\* A slot's program starts in the slot's own code, and no snapshot is of another
\* slot's program, unless programs run outside of the mode, where no command is
\* typed any more.
Owned(x) ==
    /\ x.restoring /\ x.run \in Slots => x.run = x.cur
    /\ ~x.restoring /\ x.run \in Slots => ~x.kbd
    /\ \A s \in Slots : x.p[s].entry = s
    /\ x.restoring \/ x.kbd => \A s \in Slots : x.p[s].snap \in Slots => x.p[s].snap = s

\* Nothing of that changes, except perhaps the current slot; a snapshot may go or
\* be the slot's own.
SameFrame(x, y) ==
    /\ y.run = x.run /\ y.kbd = x.kbd /\ y.restoring = x.restoring
    /\ \A s \in Slots : /\ y.p[s].entry = x.p[s].entry
                         /\ y.p[s].snap \in {x.p[s].snap, NoSnapshot, s}
Alike(x, y) == SameFrame(x, y) /\ y.cur = x.cur

LEMMA AlikeOwned ==
    ASSUME NEW x, NEW y, Owned(x), \/ Alike(x, y)
                                   \/ SameFrame(x, y) /\ ~x.restoring
    PROVE  Owned(y)
<1>1. NoSnapshot \notin Slots
  BY DEF NoSnapshot, Slots
<1> QED
  BY <1>1 DEF Owned, SameFrame, Alike

LEMMA PutAlike ==
    ASSUME NEW x, Sound(x), NEW s \in Slots, NEW t, t.entry = x.p[s].entry,
           t.snap \in {x.p[s].snap, NoSnapshot, s}
    PROVE  Alike(x, Put(x, s, t))
BY DEF Put, Alike, SameFrame, Sound, Machines

LEMMA CaptureOwned ==
    ASSUME NEW x, Sound(x), Owned(x), NEW context \in {x.run, Kernel}
    PROVE  Owned(Capture(x, context))
<1> DEFINE u == [x.p[x.cur] EXCEPT !.snap = context]
           y == Capture(x, context)
<1>1. x.cur \in Slots /\ x.p[x.cur] \in TaskContexts /\ x \in Machines /\ context \in Contexts
  BY SoundTask DEF Sound, Machines, Contexts
<1>2. u \in TaskContexts /\ u.entry = x.p[x.cur].entry /\ u.snap = context
  BY <1>1 DEF TaskContexts
<1>3. y = Put(x, x.cur, u)
  BY DEF Capture
<1> HIDE DEF u, y
<1>4. \A r \in Slots : y.p[r] = IF r = x.cur THEN u ELSE x.p[r]
  BY <1>1, <1>2, <1>3, PutEffect
<1>5. y.run = x.run /\ y.kbd = x.kbd /\ y.restoring = x.restoring /\ y.cur = x.cur
  BY <1>1, <1>3 DEF Put, Machines
<1>6. Kernel \notin Slots
  BY DEF Kernel, Slots
<1> QED
  BY <1>1, <1>2, <1>4, <1>5, <1>6 DEF Owned, y

LEMMA SignalAlike ==
    ASSUME NEW x, Sound(x), NEW channel
    PROVE  Alike(x, Signal(x, channel)) /\ Alike(x, Bridged(x))
<1>1. \A ch : Alike(x, Signal(x, ch))
  <2> SUFFICES ASSUME NEW ch
               PROVE  Alike(x, Signal(x, ch))
    OBVIOUS
  <2> DEFINE q == [s \in Slots |-> Signalled(x.p[s], ch)]
  <2>1. \A s \in Slots : q[s].entry = x.p[s].entry /\ q[s].snap = x.p[s].snap
    BY SoundTask DEF Signalled, InState, TaskContexts
  <2>2. Signal(x, ch) = [x EXCEPT !.p = q]
    BY DEF Signal
  <2> HIDE DEF q
  <2> QED
    BY <2>1, <2>2 DEF Alike, SameFrame, Sound, Machines
<1>2. Alike(x, x)
  BY DEF Alike, SameFrame
<1> QED
  BY <1>1, <1>2 DEF Bridged

LEMMA WakeAlike ==
    ASSUME NEW x, Sound(x), NEW now
    PROVE  Alike(x, WakeDue(x, now))
<1> DEFINE q == [s \in Slots |-> Woken(x.p[s], now)]
<1>1. \A s \in Slots : q[s].entry = x.p[s].entry /\ q[s].snap = x.p[s].snap
  BY SoundTask DEF Woken, InState, TaskContexts
<1>2. WakeDue(x, now) = [x EXCEPT !.p = q]
  BY DEF WakeDue
<1> HIDE DEF q
<1> QED
  BY <1>1, <1>2 DEF Alike, SameFrame, Sound, Machines

\* A slot ends, is made ready, is blocked or is seeded: its entry stays its own.
LEMMA SlotOwned ==
    ASSUME NEW x, Sound(x), Owned(x), NEW s \in Slots
    PROVE  /\ Owned(End(x, s)) /\ Alike(x, End(x, s))
           /\ Owned(MakeReady(x, s)) /\ Owned(Seed(x, s)) /\ Owned(Prepared(x, s))
           /\ \A reason, until, channel : Alike(x, Block(x, s, reason, until, channel))
<1>1. x.p[s] \in TaskContexts /\ x.p[s].entry = s
  BY SoundTask DEF Owned
<1>2. Alike(x, End(x, s))
  <2>1. Ended(s).entry = x.p[s].entry /\ Ended(s).snap = NoSnapshot
    BY <1>1 DEF Ended, NewTask
  <2> QED
    BY <2>1, PutAlike DEF End
<1>3. Alike(x, MakeReady(x, s))
  <2>1. LET u == Unwaiting(InState(x.p[s], "ready"))
        IN  u.entry = x.p[s].entry /\ u.snap = x.p[s].snap
    BY <1>1 DEF Unwaiting, InState, TaskContexts
  <2> QED
    BY <2>1, PutAlike DEF MakeReady
<1>4. Alike(x, Seed(x, s))
  <2>1. LET u == [x.p[s] EXCEPT !.snap = x.p[s].entry]
        IN  u.entry = x.p[s].entry /\ u.snap = s
    BY <1>1 DEF TaskContexts
  <2>2. Alike(x, x)
    BY DEF Alike, SameFrame
  <2> QED
    BY <2>1, <2>2, PutAlike DEF Seed
<1>5. Alike(x, Prepared(x, s))
  <2>1. LET u == [x.p[s] EXCEPT !.ready = TRUE, !.entry = s]
        IN  u.entry = x.p[s].entry /\ u.snap = x.p[s].snap
    BY <1>1 DEF TaskContexts
  <2> QED
    BY <2>1, PutAlike DEF Prepared
<1>6. \A reason, until, channel : Alike(x, Block(x, s, reason, until, channel))
  <2> SUFFICES ASSUME NEW reason, NEW until, NEW channel
               PROVE  Alike(x, Block(x, s, reason, until, channel))
    OBVIOUS
  <2>1. LET u == Blocked(x.p[s], reason, until, channel)
        IN  u.entry = x.p[s].entry /\ u.snap = x.p[s].snap
    BY <1>1 DEF Blocked, TaskContexts
  <2> QED
    BY <2>1, PutAlike DEF Block
<1> QED
  BY <1>2, <1>3, <1>4, <1>5, <1>6, AlikeOwned

LEMMA SetStateAlike ==
    ASSUME NEW x \in Machines, NEW s \in Slots, NEW st \in {"ready", "running"}
    PROVE  Alike(x, SetState(x, s, st))
<1>1. InState(x.p[s], st).entry = x.p[s].entry /\ InState(x.p[s], st).snap = x.p[s].snap
  BY DEF InState, Machines, TaskContexts
<1> QED
  BY <1>1 DEF SetState, Put, Alike, SameFrame, Machines

LEMMA SwitchFrame ==
    ASSUME NEW x, Sound(x), NEW s \in Slots, Runnable(x, s)
    PROVE  SameFrame(x, SwitchTo(x, s)) /\ SwitchTo(x, s).cur = s
<1> DEFINE y == IF x.p[x.cur].st = "running" THEN SetState(x, x.cur, "ready") ELSE x
           z == [y EXCEPT !.cur = s]
<1>1. CASE s = x.cur
  BY <1>1 DEF SwitchTo, SameFrame
<1>2. CASE s # x.cur
  <2>1. x \in Machines /\ x.cur \in Slots
    BY DEF Sound, Machines
  <2>2. LET v == SetState(x, x.cur, "ready") IN v \in Machines /\ Alike(x, v)
    BY <2>1, TurnEffect, SetStateAlike
  <2>3. y \in Machines /\ Alike(x, y)
    <3>1. y = SetState(x, x.cur, "ready") \/ y = x
      OBVIOUS
    <3> HIDE DEF y
    <3>2. Alike(x, x)
      BY DEF Alike, SameFrame
    <3> QED
      BY <2>1, <2>2, <3>1, <3>2
  <2> HIDE DEF y
  <2>4. z \in Machines /\ SameFrame(x, z) /\ z.cur = s
    BY <2>3 DEF Machines, Alike, SameFrame
  <2> HIDE DEF z
  <2>5. Alike(z, SetState(z, s, "running"))
    BY <2>4, SetStateAlike
  <2> QED
    BY <1>2, <2>4, <2>5 DEF SwitchTo, y, z, Alike, SameFrame
<1> QED
  BY <1>1, <1>2

LEMMA RestoreOwned ==
    ASSUME NEW x, Sound(x), Owned(x)
    PROVE  /\ Owned(RotateAndRestore(x))
           /\ RotateAndRestore(x).restoring = x.restoring
           /\ \/ SameFrame(x, RotateAndRestore(x)) /\ ~x.restoring
              \/ RotateAndRestore(x) = x
              \/ RotateAndRestore(x).cur # x.cur /\ x.restoring
<1> DEFINE candidates == {s \in Slots : Compatible(x, s)}
           next == FirstOf(x, candidates)
<1>1. CASE ~x.restoring
  <2> DEFINE able == {s \in Slots : Runnable(x, s)}
  <2>1. SameFrame(x, Rotate(x))
    <3>1. CASE able = {}
      BY <3>1 DEF Rotate, SameFrame
    <3>2. CASE able # {}
      <4>1. FirstOf(x, able) \in able
        BY <3>2, FirstIsCandidate DEF Sound
      <4> QED
        BY <3>2, <4>1, SwitchFrame DEF Rotate
    <3> QED
      BY <3>1, <3>2
  <2> QED
    BY <1>1, <2>1, AlikeOwned DEF RotateAndRestore, SameFrame
<1>2. CASE x.restoring /\ (candidates = {} \/ next = x.cur)
  BY <1>2 DEF RotateAndRestore
<1>3. CASE x.restoring /\ candidates # {} /\ next # x.cur
  <2>1. next \in candidates
    BY <1>3, FirstIsCandidate DEF Sound
  <2>2. next \in Slots /\ Runnable(x, next) /\ x.p[next].snap = next
    BY <2>1 DEF Compatible
  <2>3. RotateAndRestore(x) = [SwitchTo(x, next) EXCEPT !.run = x.p[next].snap, !.intr = TRUE]
    BY <1>3 DEF RotateAndRestore
  <2> HIDE DEF next, candidates
  <2>4. /\ SameFrame(x, SwitchTo(x, next)) /\ SwitchTo(x, next).cur = next
        /\ SwitchTo(x, next) \in Machines
    BY <2>2, SwitchFrame, SwitchSound DEF Sound
  <2>5. LET y == RotateAndRestore(x)
        IN  /\ y.run = next /\ y.cur = next /\ y.restoring = x.restoring
            /\ \A s \in Slots : /\ y.p[s].entry = x.p[s].entry
                                 /\ y.p[s].snap \in {x.p[s].snap, NoSnapshot, s}
    BY <2>2, <2>3, <2>4 DEF SameFrame, Machines
  <2>6. NoSnapshot \notin Slots
    BY DEF NoSnapshot, Slots
  <2> QED
    BY <1>3, <2>5, <2>6 DEF Owned
<1> QED
  BY <1>1, <1>2, <1>3

LEMMA CallsOwned ==
    ASSUME IInv, NEW x, Sound(x), Owned(x), NEW d \in Durations \cup Channels
    PROVE  /\ d \in Durations => Owned(SleepCall(x, d))
           /\ d \in Channels => Owned(EventWaitCall(x, d))
<1>1. x.cur \in Slots /\ 0 \in Ticks
  BY TaskAssumption DEF Sound, Machines, Ticks
<1>2. ASSUME d \in Durations
      PROVE  Owned(SleepCall(x, d))
  <2> DEFINE y == Block(x, x.cur, "sleep", (ticks + d) % TickWords, 0)
  <2>1. Sound(y) /\ Owned(y)
    BY <1>1, <1>2, DeadlineType, BlockSound, SlotOwned, AlikeOwned DEF IInv
  <2> HIDE DEF y
  <2>2. Owned(RotateAndRestore(y))
    BY <2>1, RestoreOwned
  <2> QED
    BY <2>2 DEF SleepCall, y
<1>3. ASSUME d \in Channels
      PROVE  Owned(EventWaitCall(x, d))
  <2> DEFINE y == Block(x, x.cur, "event", 0, d)
  <2>1. Sound(y) /\ Owned(y)
    BY <1>1, <1>3, BlockSound, SlotOwned, AlikeOwned
  <2> HIDE DEF y
  <2>2. Owned(RotateAndRestore(y))
    BY <2>1, RestoreOwned
  <2> QED
    BY <2>2 DEF EventWaitCall, y
<1> QED
  BY <1>2, <1>3

LEMMA CommandOwned ==
    ASSUME NEW x, Sound(x), Owned(x), Effect(x) \/ Trap(x)
    PROVE  Owned(m')
<1>1. Owned([x EXCEPT !.kbd = FALSE])
  BY DEF Owned, Sound, Machines
<1>2. Owned(Bridged(x))
  BY SignalAlike, AlikeOwned
<1> QED
  BY <1>1, <1>2 DEF Effect, Trap

LEMMA CalledOwned ==
    ASSUME IInv, Owned(m)
    PROVE  Owned(Called) /\ Owned(Trapped)
BY CaptureOwned DEF IInv, Called, Trapped

LEMMA TimerOwned == IInv /\ Owned(m) /\ Timer => Owned(m')
<1> SUFFICES ASSUME IInv, Owned(m), Timer
             PROVE  Owned(m')
  OBVIOUS
<1> DEFINE captured == Capture(m, m.run)
           woken == WakeDue(captured, ticks')
           over == enabled /\ acc + 1 >= quantum
<1>1. Sound(captured) /\ Owned(captured)
  BY CaptureSound, CaptureOwned DEF IInv, Sound, Machines
<1>2. m' = (IF over THEN RotateAndRestore(woken) ELSE woken)
  BY DEF Timer
<1> HIDE DEF captured
<1>3. Sound(woken) /\ Owned(woken)
  BY <1>1, WakeSound, WakeAlike, AlikeOwned
<1> HIDE DEF woken, over
<1> QED
  BY <1>2, <1>3, RestoreOwned

LEMMA SyscallOwned == IInv /\ Owned(m) /\ Syscall => Owned(m')
<1> SUFFICES ASSUME IInv, Owned(m), Syscall
             PROVE  Owned(m')
  OBVIOUS
<1>1. Sound(Called) /\ Owned(Called) /\ m.cur \in Slots
  BY CalledSound, CalledOwned
<1>2. Sound(End(Called, m.cur)) /\ Owned(End(Called, m.cur))
  BY <1>1, EndSound, SlotOwned
<1>3. CASE \/ m' = Called \/ m' = RotateAndRestore(Called)
           \/ m' = RotateAndRestore(End(Called, m.cur))
  BY <1>1, <1>2, <1>3, RestoreOwned
<1>4. CASE \E d \in Durations : m' = SleepCall(Called, d)
  BY <1>1, <1>4, CallsOwned
<1>5. CASE \E ch \in Channels : m' = EventWaitCall(Called, ch) \/ m' = Signal(Called, ch)
  BY <1>1, <1>5, CallsOwned, SignalAlike, AlikeOwned
<1> QED
  BY <1>3, <1>4, <1>5 DEF Syscall

LEMMA ConsoleOwned ==
    ASSUME Commands \cap Moving = {}, IInv, Owned(m), Console
    PROVE  Owned(m')
<1>1. Sound(m) /\ m.cur \in Slots /\ Sound(Trapped) /\ Owned(Trapped)
  BY CalledSound, CalledOwned DEF IInv
<1>2. CASE \E s \in Slots : ProcSet(s) \/ TaskTeardown(s) \/ TaskStop(s)
  BY <1>2 DEF ProcSet, TaskTeardown, TaskStop, Typed, Moving
<1>3. CASE (\E d \in Durations : TaskWait(d)) \/ CtxSwOff
  BY <1>3 DEF TaskWait, CtxSwOff, Typed, Moving
<1>4. CASE \E s \in Slots : TaskWake(s) \/ TaskRun(s)
  BY <1>1, <1>4, ReadySound, SlotOwned, CommandOwned DEF TaskWake, TaskRun
<1>5. CASE \E s \in Slots : SnapSeed(s)
  BY <1>1, <1>5, SeedSound, SlotOwned, CommandOwned DEF SnapSeed
<1>6. CASE \E s \in Slots : \E ok \in BOOLEAN : TaskSpawn(s, ok)
  <2>1. PICK s \in Slots, ok \in BOOLEAN : TaskSpawn(s, ok)
    BY <1>6
  <2> DEFINE made == IF ok /\ ~m.p[s].ready THEN Prepared(m, s) ELSE m
             x == Seed(MakeReady(made, s), s)
  <2>2. Sound(made) /\ Owned(made)
    BY <1>1, PreparedSound, SlotOwned
  <2>3. Effect(x)
    BY <2>1 DEF TaskSpawn
  <2> HIDE DEF made
  <2>4. Sound(MakeReady(made, s)) /\ Owned(MakeReady(made, s))
    BY <2>2, ReadySound, SlotOwned
  <2>5. Sound(x) /\ Owned(x)
    BY <2>4, SeedSound, SlotOwned
  <2> HIDE DEF x
  <2> QED
    BY <2>3, <2>5, CommandOwned
<1>7. CASE \E d \in Durations : TaskSleep(d)
  BY <1>1, <1>7, SleepSound, CallsOwned, CommandOwned DEF TaskSleep
<1>8. CASE \E ch \in Channels : EventWait(ch)
  BY <1>1, <1>8, EventWaitSound, CallsOwned, CommandOwned DEF EventWait
<1>9. CASE \E ch \in Channels : EventSig(ch)
  BY <1>1, <1>9, SignalSound, SignalAlike, AlikeOwned, CommandOwned DEF EventSig
<1>10. CASE SnapNow
  BY <1>1, <1>10, CommandOwned DEF SnapNow
<1>11. CASE \E ch \in Channels \cup {0} : InputChannel(ch)
  <2>1. PICK ch \in Channels \cup {0} : Effect([m EXCEPT !.input = ch])
    BY <1>11 DEF InputChannel
  <2>2. Sound([m EXCEPT !.input = ch]) /\ Owned([m EXCEPT !.input = ch])
    BY <1>1 DEF Sound, Machines, Owned
  <2> QED
    BY <2>1, <2>2, CommandOwned
<1>12. CASE CtxSwOn
  \* Keys are delivered, so no program runs.
  <2>1. m.kbd /\ Effect([m EXCEPT !.restoring = TRUE])
    BY <1>12 DEF CtxSwOn, Typed
  <2>2. Sound([m EXCEPT !.restoring = TRUE]) /\ Owned([m EXCEPT !.restoring = TRUE])
    BY <1>1, <2>1 DEF Sound, Machines, Owned
  <2> QED
    BY <2>2, <2>1, CommandOwned
<1>13. CASE \E ok \in BOOLEAN : UserTestPrep(ok)
  BY <1>1, <1>13, PreparedSound, SlotOwned, CommandOwned DEF UserTestPrep
<1>14. CASE (\E on \in BOOLEAN : SchedSwitch(on)) \/ (\E q \in Quanta : SchedQuantum(q))
  BY <1>1, <1>14, SignalAlike, AlikeOwned DEF SchedSwitch, SchedQuantum
<1>15. CASE UserRun
  BY <1>1, <1>15 DEF UserRun, Owned, Sound, Machines
<1>16. CASE \E s \in Slots : SnapRestore(s)
  \* Keys are delivered, so the snapshot is of the slot's own program.
  <2>1. PICK s \in Slots : SnapRestore(s)
    BY <1>16
  <2> DEFINE u == [m.p[s] EXCEPT !.entry = m.p[s].snap]
             x == Put(m, s, u)
  <2>2. m.p[s].snap = s /\ Effect(x)
    BY <2>1 DEF SnapRestore, Typed, Owned
  <2>3. u \in TaskContexts /\ WaitSound(u) /\ u.st = m.p[s].st
    BY <1>1, <2>1, SoundTask, ContextsMade DEF SnapRestore
  <2>4. m.p[s] \in TaskContexts
    BY <1>1, SoundTask
  <2>5. u.entry = m.p[s].entry /\ u.snap = m.p[s].snap
    BY <2>2, <2>4 DEF Owned, TaskContexts
  <2> HIDE DEF u
  <2>6. Sound(x)
    BY <1>1, <2>3, PutSound DEF Sound
  <2>7. Owned(x)
    BY <1>1, <2>5, PutAlike, AlikeOwned
  <2> HIDE DEF x
  <2> QED
    BY <2>2, <2>6, <2>7, CommandOwned
<1> QED
  BY <1>2, <1>3, <1>4, <1>5, <1>6, <1>7, <1>8, <1>9, <1>10, <1>11, <1>12, <1>13, <1>14, <1>15,
     <1>16
  DEF Console

\* In frame-restore mode a program's system calls and faults are charged to the
\* slot it belongs to, whatever is seeded, captured and restored, as long as no
\* command moves the current slot without a frame; each of those can break it.
THEOREM OwnProgramRuns ==
    ASSUME Commands \cap Moving = {}
    PROVE  Spec => []RunsOwn
<1>1. Init => Owned(m)
  BY DEF Init, Owned, NewTask, Slots, Kernel, NoSnapshot
<1>2. IInv /\ Owned(m) /\ [Next]_vars => Owned(m)'
  <2> SUFFICES ASSUME IInv, Owned(m), [Next]_vars
               PROVE  Owned(m)'
    OBVIOUS
  <2>1. CASE Fault
    <3>1. Sound(m) /\ m.cur \in Slots
      BY CalledSound DEF IInv
    <3>2. Sound(End(m, m.cur)) /\ Owned(End(m, m.cur))
      BY <3>1, EndSound, SlotOwned
    <3> QED
      BY <2>1, <3>2, RestoreOwned DEF Fault, Owned
  <2>2. CASE UNCHANGED vars
    BY <2>2 DEF vars, Owned
  <2>3. CASE Timer \/ Syscall \/ Console
    <3>1. Owned(m')
      BY <2>3, TimerOwned, SyscallOwned, ConsoleOwned
    <3> QED
      BY <3>1 DEF Owned
  <2> QED
    BY <2>1, <2>2, <2>3 DEF Next
<1>3. Owned(m) => RunsOwn
  BY DEF Owned, RunsOwn
<1> QED
  BY <1>1, <1>2, <1>3, SchedulerInvariant, PTL DEF Spec
-----------------------------------------------------------------------------
(* What a frame is restored for, with every command.                       *)

\* A step of the switch leaves the frame and, in the mode, the current slot; or
\* it brings a slot's own program.
Resumes(x, y) ==
    \/ y.run = x.run /\ (x.restoring => y.cur = x.cur)
    \/ /\ x.restoring /\ y.cur # x.cur /\ y.run = y.cur
       /\ y.p[y.cur].st = "running" /\ y.p[y.cur].ready

LEMMA SwitchRuns ==
    ASSUME NEW x, Sound(x), NEW s \in Slots, Runnable(x, s), s # x.cur
    PROVE  /\ SwitchTo(x, s).p[s].st = "running"
           /\ SwitchTo(x, s).p[s].ready = x.p[s].ready
<1> DEFINE y == IF x.p[x.cur].st = "running" THEN SetState(x, x.cur, "ready") ELSE x
           z == [y EXCEPT !.cur = s]
<1>1. x \in Machines /\ x.cur \in Slots /\ x.p[s] \in TaskContexts
  BY SoundTask DEF Sound, Machines
<1>2. y \in Machines /\ y.p[s] = x.p[s]
  <2>1. LET v == SetState(x, x.cur, "ready") IN v \in Machines /\ v.p[s] = x.p[s]
    <3>1. SetState(x, x.cur, "ready") \in Machines
      BY <1>1, TurnEffect
    <3> QED
      BY <1>1, <3>1 DEF SetState, Put, Machines
  <2>2. y = SetState(x, x.cur, "ready") \/ y = x
    OBVIOUS
  <2> HIDE DEF y
  <2> QED
    BY <1>1, <2>1, <2>2
<1> HIDE DEF y
<1>3. z \in Machines /\ z.p[s] = x.p[s]
  BY <1>2 DEF Machines
<1> HIDE DEF z
<1>4. InState(z.p[s], "running").st = "running" /\ InState(z.p[s], "running").ready = x.p[s].ready
  BY <1>1, <1>3 DEF InState, TaskContexts
<1>5. SetState(z, s, "running").p[s] = InState(z.p[s], "running")
  BY <1>3 DEF SetState, Put, Machines
<1> QED
  BY <1>4, <1>5 DEF SwitchTo, y, z

LEMMA RotateRun ==
    ASSUME NEW x, Sound(x)
    PROVE  Rotate(x).run = x.run
<1> DEFINE able == {s \in Slots : Runnable(x, s)}
<1>1. CASE able = {}
  BY <1>1 DEF Rotate
<1>2. CASE able # {}
  <2>1. FirstOf(x, able) \in able
    BY <1>2, FirstIsCandidate DEF Sound
  <2> QED
    BY <1>2, <2>1, SwitchFrame DEF Rotate, SameFrame
<1> QED
  BY <1>1, <1>2

LEMMA RestoreResumes ==
    ASSUME NEW x, Sound(x)
    PROVE  Resumes(x, RotateAndRestore(x))
<1> DEFINE candidates == {s \in Slots : Compatible(x, s)}
           next == FirstOf(x, candidates)
<1>1. CASE ~x.restoring
  BY <1>1, RotateRun DEF RotateAndRestore, Resumes
<1>2. CASE x.restoring /\ (candidates = {} \/ next = x.cur)
  BY <1>2 DEF RotateAndRestore, Resumes
<1>3. CASE x.restoring /\ candidates # {} /\ next # x.cur
  <2>1. next \in candidates
    BY <1>3, FirstIsCandidate DEF Sound
  <2>2. next \in Slots /\ Runnable(x, next) /\ x.p[next].snap = next /\ x.p[next].ready
    BY <2>1 DEF Compatible
  <2>3. RotateAndRestore(x) = [SwitchTo(x, next) EXCEPT !.run = x.p[next].snap, !.intr = TRUE]
    BY <1>3 DEF RotateAndRestore
  <2> HIDE DEF next, candidates
  <2>4. /\ SwitchTo(x, next).cur = next /\ SwitchTo(x, next) \in Machines
        /\ SwitchTo(x, next).p[next].st = "running"
        /\ SwitchTo(x, next).p[next].ready = x.p[next].ready
    BY <1>3, <2>2, SwitchFrame, SwitchRuns, SwitchSound DEF Sound
  <2>5. LET y == RotateAndRestore(x)
        IN  y.run = next /\ y.cur = next /\ y.p[next] = SwitchTo(x, next).p[next]
    BY <2>2, <2>3, <2>4 DEF Machines
  <2> QED
    BY <1>3, <2>2, <2>4, <2>5 DEF Resumes
<1> QED
  BY <1>1, <1>2, <1>3

\* The other operations leave the frame, the mode and the current slot.
Unmoved(x, y) == y.run = x.run /\ y.cur = x.cur /\ y.restoring = x.restoring

LEMMA Unmoving ==
    ASSUME NEW x, Sound(x), NEW s
    PROVE  /\ Unmoved(x, End(x, s)) /\ Unmoved(x, MakeReady(x, s)) /\ Unmoved(x, Seed(x, s))
           /\ Unmoved(x, Prepared(x, s))
           /\ \A context : Unmoved(x, Capture(x, context))
           /\ \A reason, until, channel : Unmoved(x, Block(x, s, reason, until, channel))
           /\ \A now : Unmoved(x, WakeDue(x, now))
           /\ \A channel : Unmoved(x, Signal(x, channel)) /\ Unmoved(x, Bridged(x))
<1>1. \A t : Unmoved(x, Put(x, s, t)) /\ Unmoved(x, Put(x, x.cur, t))
  BY DEF Unmoved, Put, Sound, Machines
<1>2. Unmoved(x, x)
  BY DEF Unmoved
<1>3. \A now : Unmoved(x, WakeDue(x, now))
  BY DEF Unmoved, WakeDue, Sound, Machines
<1>4. \A channel : Unmoved(x, Signal(x, channel))
  BY DEF Unmoved, Signal, Sound, Machines
<1> QED
  BY <1>1, <1>2, <1>3, <1>4 DEF End, MakeReady, Seed, Prepared, Capture, Block, Bridged

LEMMA UnmovedResumes ==
    ASSUME NEW x, NEW y, NEW z, Unmoved(x, y), Resumes(y, z)
    PROVE  Resumes(x, z)
BY DEF Unmoved, Resumes

LEMMA CallsResume ==
    ASSUME IInv, NEW x, Sound(x), NEW d \in Durations \cup Channels
    PROVE  /\ d \in Durations => Resumes(x, SleepCall(x, d))
           /\ d \in Channels => Resumes(x, EventWaitCall(x, d))
<1>1. x.cur \in Slots /\ 0 \in Ticks /\ Resumes(x, x)
  BY TaskAssumption DEF Sound, Machines, Ticks, Resumes
<1>2. ASSUME d \in Durations
      PROVE  Resumes(x, SleepCall(x, d))
  <2> DEFINE y == Block(x, x.cur, "sleep", (ticks + d) % TickWords, 0)
  <2>1. Sound(y) /\ Unmoved(x, y)
    BY <1>1, <1>2, DeadlineType, BlockSound, Unmoving DEF IInv
  <2> HIDE DEF y
  <2>2. Resumes(x, RotateAndRestore(y))
    BY <2>1, RestoreResumes, UnmovedResumes
  <2> QED
    BY <1>1, <2>2 DEF SleepCall, y
<1>3. ASSUME d \in Channels
      PROVE  Resumes(x, EventWaitCall(x, d))
  <2> DEFINE y == Block(x, x.cur, "event", 0, d)
  <2>1. Sound(y) /\ Unmoved(x, y)
    BY <1>1, <1>3, BlockSound, Unmoving
  <2> HIDE DEF y
  <2>2. Resumes(x, RotateAndRestore(y))
    BY <2>1, RestoreResumes, UnmovedResumes
  <2> QED
    BY <1>1, <2>2 DEF EventWaitCall, y
<1> QED
  BY <1>2, <1>3

LEMMA CalledUnmoved ==
    ASSUME IInv
    PROVE  Unmoved(m, Called) /\ Unmoved(m, Trapped)
BY Unmoving DEF IInv, Called, Trapped

\* The traps: what the timer, a system call and a fault leave.
LEMMA TrapResumes == IInv /\ (Timer \/ Syscall \/ Fault) => Resumes(m, m')
<1> SUFFICES ASSUME IInv, Timer \/ Syscall \/ Fault
             PROVE  Resumes(m, m')
  OBVIOUS
<1>1. Sound(m) /\ Sound(Called) /\ m.cur \in Slots /\ Unmoved(m, Called)
  BY CalledSound, CalledUnmoved DEF IInv
<1>2. CASE Timer
  <2> DEFINE captured == Capture(m, m.run)
             woken == WakeDue(captured, ticks')
             over == enabled /\ acc + 1 >= quantum
  <2>1. Sound(captured) /\ Unmoved(m, captured)
    <3>1. Unmoved(m, captured)
      BY <1>1, Unmoving
    <3>2. m.run \in Slots \cup {Kernel}
      BY <1>1 DEF Sound, Machines
    <3> QED
      BY <1>1, <3>1, <3>2, CaptureSound
  <2>2. m' = (IF over THEN RotateAndRestore(woken) ELSE woken)
    BY <1>2 DEF Timer
  <2> HIDE DEF captured
  <2>3. Sound(woken) /\ Unmoved(captured, woken)
    BY <2>1, WakeSound, Unmoving
  <2> HIDE DEF woken, over
  <2>4. Resumes(woken, m')
    BY <2>2, <2>3, RestoreResumes DEF Resumes
  <2> QED
    BY <2>1, <2>3, <2>4, UnmovedResumes
<1>3. CASE Fault
  <2>1. Sound(End(m, m.cur)) /\ Unmoved(m, End(m, m.cur))
    BY <1>1, EndSound, Unmoving
  <2> QED
    BY <1>3, <2>1, RestoreResumes, UnmovedResumes DEF Fault
<1>4. CASE Syscall
  <2>1. Sound(End(Called, m.cur)) /\ Unmoved(Called, End(Called, m.cur))
    BY <1>1, EndSound, Unmoving
  <2>2. CASE m' = Called \/ \E ch \in Channels : m' = Signal(Called, ch)
    BY <1>1, <2>2, Unmoving DEF Resumes, Unmoved
  <2>3. CASE m' = RotateAndRestore(Called) \/ m' = RotateAndRestore(End(Called, m.cur))
    BY <1>1, <2>1, <2>3, RestoreResumes, UnmovedResumes
  <2>4. CASE \/ \E d \in Durations : m' = SleepCall(Called, d)
             \/ \E ch \in Channels : m' = EventWaitCall(Called, ch)
    BY <1>1, <2>4, CallsResume, UnmovedResumes
  <2> QED
    BY <1>4, <2>2, <2>3, <2>4 DEF Syscall
<1> QED
  BY <1>2, <1>3, <1>4

\* A command that executes int 0x80 is a trap of its own; what the others leave
\* to be bridged has the frame it had.
LEMMA TrapEffect ==
    ASSUME NEW x, IInv, Sound(x), Resumes(m, x), Trap(x)
    PROVE  Resumes(m, m')
<1>1. CASE m.restoring /\ x.cur # m.cur
  <2>1. LET y == [x EXCEPT !.kbd = FALSE] IN y.run = x.run /\ y.cur = x.cur /\ y.p = x.p
    BY DEF Sound, Machines
  <2> QED
    BY <1>1, <2>1 DEF Trap, Resumes
<1>2. CASE ~(m.restoring /\ x.cur # m.cur)
  BY <1>2, Unmoving DEF Trap, Resumes, Unmoved
<1> QED
  BY <1>1, <1>2

LEMMA CommandRun ==
    ASSUME NEW x, Sound(x), x.run = m.run, Effect(x)
    PROVE  m'.run = m.run
BY Unmoving DEF Effect, Unmoved

\* The slot commands and the settings leave the frame.
LEMMA SlotCommandsRun ==
    ASSUME IInv, NEW s \in Slots,
           \/ ProcSet(s) \/ TaskTeardown(s) \/ TaskWake(s) \/ TaskRun(s) \/ TaskStop(s)
           \/ SnapSeed(s) \/ SnapRestore(s) \/ \E ok \in BOOLEAN : TaskSpawn(s, ok)
    PROVE  m'.run = m.run
<1>1. Sound(m) /\ m.cur \in Slots /\ m \in Machines /\ 0 \in Ticks
  BY TaskAssumption DEF IInv, Sound, Machines, Ticks
<1>2. CASE ProcSet(s)
  <2> DEFINE left == IF m.p[m.cur].st = "running" THEN SetState(m, m.cur, "ready") ELSE m
             there == [left EXCEPT !.cur = s]
             x == IF Runnable(there, s) THEN SetState(there, s, "running") ELSE there
  <2>1. Effect(x)
    BY <1>2 DEF ProcSet
  <2>2. left \in Machines /\ left.run = m.run
    <3>1. LET v == SetState(m, m.cur, "ready") IN v \in Machines /\ v.run = m.run
      BY <1>1, TurnEffect, SetStateAlike DEF Alike, SameFrame
    <3>2. left = SetState(m, m.cur, "ready") \/ left = m
      OBVIOUS
    <3> HIDE DEF left
    <3> QED
      BY <1>1, <3>1, <3>2
  <2> HIDE DEF left
  <2>3. there \in Machines /\ there.run = m.run
    BY <2>2 DEF Machines
  <2> HIDE DEF there
  <2>4. x \in Machines /\ x.run = m.run
    <3>1. LET v == SetState(there, s, "running") IN v \in Machines /\ v.run = m.run
      BY <2>3, TurnEffect, SetStateAlike DEF Alike, SameFrame
    <3>2. x = SetState(there, s, "running") \/ x = there
      OBVIOUS
    <3> HIDE DEF x
    <3> QED
      BY <2>3, <3>1, <3>2
  <2> HIDE DEF x
  <2>5. Bridged(x).run = x.run
    BY <2>4 DEF Bridged, Signal, Machines
  <2> QED
    BY <2>1, <2>4, <2>5 DEF Effect
<1>3. CASE TaskTeardown(s)
  <2>1. Sound(End(m, s)) /\ End(m, s).run = m.run
    BY <1>1, EndSound, Unmoving DEF Unmoved
  <2>2. Sound(Rotate(End(m, s))) /\ Rotate(End(m, s)).run = m.run
    BY <2>1, RotateSound, RotateRun
  <2> QED
    BY <1>3, <2>1, <2>2, CommandRun DEF TaskTeardown
<1>4. CASE TaskWake(s) \/ TaskRun(s)
  BY <1>1, <1>4, ReadySound, Unmoving, CommandRun DEF TaskWake, TaskRun, Unmoved
<1>5. CASE TaskStop(s)
  <2> DEFINE x == Block(m, s, "manual", 0, 0)
  <2>1. Sound(x) /\ x.run = m.run
    <3>1. Sound(x)
      BY <1>1, BlockSound
    <3>2. Unmoved(m, x)
      BY <1>1, Unmoving
    <3> QED
      BY <3>1, <3>2 DEF Unmoved
  <2>2. Effect(IF s = m.cur THEN Rotate(x) ELSE x)
    BY <1>5 DEF TaskStop
  <2> HIDE DEF x
  <2>3. Sound(Rotate(x)) /\ Rotate(x).run = m.run
    BY <2>1, RotateSound, RotateRun
  <2> QED
    BY <2>1, <2>2, <2>3, CommandRun
<1>6. CASE SnapSeed(s)
  BY <1>1, <1>6, SeedSound, Unmoving, CommandRun DEF SnapSeed, Unmoved
<1>7. CASE SnapRestore(s)
  <2> DEFINE u == [m.p[s] EXCEPT !.entry = m.p[s].snap]
             x == Put(m, s, u)
  <2>1. Effect(x) /\ u \in TaskContexts /\ WaitSound(u) /\ u.st = m.p[s].st
    BY <1>1, <1>7, SoundTask, ContextsMade DEF SnapRestore
  <2> HIDE DEF u
  <2>2. Sound(x) /\ x.run = m.run
    <3>1. m.p[s].st = "running" => s = m.cur
      BY <1>1 DEF Sound
    <3>2. Sound(x)
      BY <1>1, <2>1, <3>1, PutSound
    <3> QED
      BY <1>1, <3>2 DEF Put, Machines
  <2> HIDE DEF x
  <2> QED
    BY <2>1, <2>2, CommandRun
<1>8. CASE \E ok \in BOOLEAN : TaskSpawn(s, ok)
  <2>1. PICK ok \in BOOLEAN : TaskSpawn(s, ok)
    BY <1>8
  <2> DEFINE made == IF ok /\ ~m.p[s].ready THEN Prepared(m, s) ELSE m
             ready == MakeReady(made, s)
             x == Seed(ready, s)
  <2>2. Sound(made) /\ made.run = m.run
    BY <1>1, PreparedSound, Unmoving DEF Unmoved
  <2>3. Effect(x)
    BY <2>1 DEF TaskSpawn
  <2> HIDE DEF made
  <2>4. Sound(ready) /\ ready.run = m.run
    BY <2>2, ReadySound, Unmoving DEF Unmoved
  <2> HIDE DEF ready
  <2>5. Sound(x) /\ x.run = m.run
    BY <2>4, SeedSound, Unmoving DEF Unmoved
  <2> HIDE DEF x
  <2> QED
    BY <2>3, <2>5, CommandRun
<1> QED
  BY <1>2, <1>3, <1>4, <1>5, <1>6, <1>7, <1>8

LEMMA ConsoleResumes ==
    ASSUME IInv, Console
    PROVE  UserRun \/ m'.run = m.run \/ Resumes(m, m')
<1>1. Sound(m) /\ m.cur \in Slots /\ Sound(Trapped) /\ Unmoved(m, Trapped)
  BY CalledSound, CalledUnmoved DEF IInv
<1>2. CASE \E s \in Slots : \/ ProcSet(s) \/ TaskTeardown(s) \/ TaskWake(s) \/ TaskRun(s)
                            \/ TaskStop(s) \/ SnapSeed(s) \/ SnapRestore(s)
                            \/ \E ok \in BOOLEAN : TaskSpawn(s, ok)
  BY <1>2, SlotCommandsRun
<1>3. CASE \E d \in Durations : TaskSleep(d)
  BY <1>1, <1>3, CallsResume, SleepSound, UnmovedResumes, TrapEffect DEF TaskSleep
<1>4. CASE \E d \in Durations : TaskWait(d)
  <2>1. PICK d \in Durations :
          Effect(Rotate(Block(m, m.cur, "manual", (ticks + d) % TickWords, 0)))
    BY <1>4 DEF TaskWait
  <2> DEFINE x == Block(m, m.cur, "manual", (ticks + d) % TickWords, 0)
  <2>2. Sound(x) /\ x.run = m.run
    BY <1>1, DeadlineType, BlockSound, Unmoving DEF IInv, Unmoved
  <2> HIDE DEF x
  <2>3. Sound(Rotate(x)) /\ Rotate(x).run = m.run
    BY <2>2, RotateSound, RotateRun
  <2> QED
    BY <2>1, <2>3, CommandRun DEF x
<1>5. CASE \E ch \in Channels : EventWait(ch)
  BY <1>1, <1>5, CallsResume, EventWaitSound, UnmovedResumes, TrapEffect DEF EventWait
<1>6. CASE \E ch \in Channels : EventSig(ch)
  <2>1. PICK ch \in Channels : Trap(Signal(Trapped, ch))
    BY <1>6 DEF EventSig
  <2>2. Sound(Signal(Trapped, ch)) /\ Resumes(m, Signal(Trapped, ch))
    BY <1>1, SignalSound, Unmoving DEF Unmoved, Resumes
  <2> QED
    BY <2>1, <2>2, TrapEffect
<1>7. CASE SnapNow
  BY <1>1, <1>7, TrapEffect DEF SnapNow, Unmoved, Resumes
<1>8. CASE \/ \E ch \in Channels \cup {0} : InputChannel(ch)
           \/ CtxSwOn \/ CtxSwOff
  <2>1. PICK x : /\ Effect(x)
                 /\ \/ \E ch \in Channels \cup {0} : x = [m EXCEPT !.input = ch]
                    \/ \E on \in BOOLEAN : x = [m EXCEPT !.restoring = on]
    BY <1>8 DEF InputChannel, CtxSwOn, CtxSwOff
  <2>2. Sound(x) /\ x.run = m.run
    BY <1>1, <2>1 DEF Sound, Machines
  <2> QED
    BY <2>1, <2>2, CommandRun
<1>9. CASE \E ok \in BOOLEAN : UserTestPrep(ok)
  BY <1>1, <1>9, PreparedSound, Unmoving, CommandRun DEF UserTestPrep, Unmoved
<1>10. CASE (\E on \in BOOLEAN : SchedSwitch(on)) \/ (\E q \in Quanta : SchedQuantum(q))
  BY <1>1, <1>10, Unmoving DEF SchedSwitch, SchedQuantum, Unmoved
<1> QED
  BY <1>2, <1>3, <1>4, <1>5, <1>6, <1>7, <1>8, <1>9, <1>10 DEF Console

\* A trap that moves the current slot in frame-restore mode, and anything that
\* resumes a program, brings the program of the slot that is current from then
\* on, with every command: however contexts of other programs and of the kernel
\* were captured into the slots.
THEOREM RestoredIsOwn == Spec => RestoresOwn
<1>1. IInv /\ [Next]_vars =>
        [MovedByTrap \/ Resumed =>
          /\ m'.run = m'.cur
          /\ m'.p[m'.cur].st = "running" /\ m'.p[m'.cur].ready]_vars
  <2> SUFFICES ASSUME IInv, Next, MovedByTrap \/ Resumed
               PROVE  /\ m'.run = m'.cur
                      /\ m'.p[m'.cur].st = "running" /\ m'.p[m'.cur].ready
    OBVIOUS
  <2>1. CASE MovedByTrap
    BY <2>1, TrapResumes DEF MovedByTrap, Resumes
  <2>2. CASE Resumed
    <3>1. ~UserRun
      <4>1. UserRun => ~m'.intr
        BY DEF UserRun, IInv, Sound, Machines
      <4> QED
        BY <2>2, <4>1 DEF Resumed
    <3>2. Resumes(m, m') \/ m'.run = m.run
      BY <3>1, TrapResumes, ConsoleResumes DEF Next
    <3> QED
      BY <2>2, <3>2 DEF Resumed, Resumes
  <2> QED
    BY <2>1, <2>2
<1> QED
  BY <1>1, SchedulerInvariant, PTL DEF Spec, RestoresOwn
=============================================================================
