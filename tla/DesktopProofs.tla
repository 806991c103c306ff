---------------------------- MODULE DesktopProofs ----------------------------
(***************************************************************************)
(* Windows, their count, the focus and the applications behind them, for   *)
(* any number of windows and any commands, with interrupts between any two *)
(* steps of the main loop.                                                 *)
(*                                                                         *)
(* Each of the three relations between a desktop x and the main loop l     *)
(* (CountGood, FocusGood, AppsGood) says what it owes to the loop's         *)
(* position; it is an invariant until an interrupt strikes what it is      *)
(* about.  An interrupt is a calm change of the desktop, which no relation *)
(* notices, followed by the closing or the opening of one window at most.  *)
(***************************************************************************)
EXTENDS Desktop, FiniteSetTheorems, WellFoundedInduction, TLAPS

Processes == [used : BOOLEAN, started : BOOLEAN, lines : 0..MaxLines]
Desktops == [win : [Windows -> WindowStates], count : 0..(CountWords - 1),
             focus : Windows \cup {None}, procs : [Pids -> Processes]]

Lines == Commands \cup {Blank, Torn}
Claiming == {"claim", "focus", "count", "type", "content", "term"}
Opening == {"room", "scan"} \cup Claiming
Closing == {"shut", "unterm", "unhost", "blank", "uncount", "refocus"}
Places == {"top", "clear", "spawn", "apps", "cmd", "copy", "taken", "exec", "rescan", "pick"}
              \cup Opening \cup Closing
Loops == [at : Places, next : {"top", "apps"}, kind : {"none", "terminal", "files"},
          pid : Pids \cup {None}, i : 0..Max, seen : 0..(Max - 1), line : Lines]

\* Which of its locals the loop has set where it is.
LoopGood(l) ==
    /\ l \in Loops
    /\ l.at \in Claiming \cup Closing \cup {"pick", "apps"} => l.i \in Windows
    /\ l.at \in {"clear"} \cup Opening => l.kind \in {"terminal", "files"}
    /\ l.at \notin Opening => l.pid = None
    /\ l.at = "spawn" \/ l.pid # None => l.kind = "terminal"

Types ==
    /\ d \in Desktops
    /\ menu \in BOOLEAN /\ action \in {"none", "terminal", "files"}
    /\ cmd \in [ready : BOOLEAN, line : Lines]
    /\ LoopGood(loop)

\* The count misses the window the loop has claimed, and still has the one it
\* has shut.
CountGood(x, l) ==
    /\ l.at \notin {"focus", "count", "unterm", "unhost", "blank", "uncount"}
          => x.count = Cardinality(Open(x))
    /\ l.at \in {"focus", "count"} => x.count + 1 = Cardinality(Open(x))
    /\ l.at \in {"unterm", "unhost", "blank", "uncount"} => x.count = Cardinality(Open(x)) + 1
    /\ l.at \in {"scan", "claim", "focus", "count"} => l.seen = x.count
    /\ l.at = "claim" => ~x.win[l.i].used
    /\ l.at = "shut" => x.win[l.i].used

\* The focus may stay on the window that the loop is closing.
FocusGood(x, l) ==
    /\ x.focus # None =>
          \/ x.win[x.focus].used
          \/ x.focus = l.i /\ l.at \in {"unterm", "unhost", "blank", "uncount", "refocus"}
    /\ l.at \in {"focus", "pick"} => x.win[l.i].used

Terminals(x, p) ==
    {i \in Windows : x.win[i].used /\ x.win[i].type = "terminal" /\ x.win[i].term /\ x.win[i].cid = p}

\* An application without a terminal is the one the loop opens a terminal for,
\* or the one whose terminal it is closing.
Hosted(x, l, q) ==
    \/ q = l.pid
    \/ Terminals(x, q) # {}
    \/ l.at \in {"unterm", "unhost"} /\ x.win[l.i].type = "terminal" /\ x.win[l.i].cid = q

AppsGood(x, l) ==
    /\ \A q \in Pids : x.procs[q].used => Hosted(x, l, q)
    /\ \A j \in Windows : x.win[j].term => x.win[j].used \/ (l.at = "unterm" /\ j = l.i)
    /\ l.at \in {"claim", "unterm", "unhost", "blank"} => ~x.win[l.i].used
    /\ l.at \in Claiming \ {"claim"} => x.win[l.i].used /\ ~x.win[l.i].term
    /\ l.at \in {"content", "term"} => x.win[l.i].type = l.kind
    /\ l.at = "term" /\ l.pid # None => x.win[l.i].cid = l.pid

IInv ==
    /\ Types
    /\ "count" \notin upset => CountGood(d, loop)
    /\ "focus" \notin upset => FocusGood(d, loop)
    /\ "app" \notin upset => AppsGood(d, loop)

-----------------------------------------------------------------------------
(* Searches and counting.                                                  *)

LEMMA LeastNatural ==
    ASSUME NEW T \in SUBSET Nat, T # {}
    PROVE  Least(T) \in T
<1> DEFINE R == OpToRel(<, Nat)
<1>1. IsWellFoundedOn(R, Nat)
  BY NatLessThanWellFounded, Zenon
<1>2. \A i, j \in T : j < i => <<j, i>> \in R
  BY DEF OpToRel
<1> HIDE DEF R
<1>3. PICK i \in T : \A j \in T : ~(<<j, i>> \in R)
  BY <1>1, WFMin, Zenon
<1>4. \A j \in T : ~(j < i)
  BY <1>2, <1>3
<1>5. \A j \in T : i <= j
  BY <1>4
<1> QED
  BY <1>5 DEF Least

\* The first of a set of windows is one of them, or there is none.
LEMMA FirstFound ==
    ASSUME NEW S \in SUBSET Windows
    PROVE  FirstOf(S) = None \/ (FirstOf(S) \in S /\ FirstOf(S) \in Windows)
<1>1. S \in SUBSET Nat
  BY DesktopAssumption DEF Windows
<1> QED
  BY <1>1, LeastNatural DEF FirstOf

LEMMA NoneIsNoWindow ==
    None \notin Windows /\ None \notin Pids
  BY DesktopAssumption DEF Pids, Windows, None

LEMMA Counting ==
    /\ \A S \in SUBSET Windows : IsFiniteSet(S) /\ Cardinality(S) \in 0..Max
    /\ \A S \in SUBSET Windows, i \in Windows :
          /\ i \notin S => Cardinality(S \cup {i}) = Cardinality(S) + 1
          /\ i \in S => Cardinality(S \ {i}) = Cardinality(S) - 1
<1>1. IsFiniteSet(Windows) /\ Cardinality(Windows) = Max
  BY DesktopAssumption, FS_Interval DEF Windows
<1>2. \A S \in SUBSET Windows : IsFiniteSet(S) /\ Cardinality(S) <= Max /\ Cardinality(S) \in Nat
  BY <1>1, FS_Subset, FS_CardinalityType
<1>3. \A S \in SUBSET Windows, i \in Windows :
          /\ i \notin S => Cardinality(S \cup {i}) = Cardinality(S) + 1
          /\ i \in S => Cardinality(S \ {i}) = Cardinality(S) - 1
  BY <1>2, FS_AddElement, FS_RemoveElement
<1> QED
  BY <1>2, <1>3, DesktopAssumption

\* One window more, or one less, is open.
LEMMA OneMore ==
    ASSUME NEW x, NEW y, NEW i \in Windows, ~x.win[i].used, y.win[i].used,
           \A j \in Windows \ {i} : y.win[j] = x.win[j]
    PROVE  Cardinality(Open(y)) = Cardinality(Open(x)) + 1
<1>1. Open(y) = Open(x) \cup {i} /\ i \notin Open(x) /\ Open(x) \in SUBSET Windows
  BY DEF Open
<1> QED
  BY <1>1, Counting

LEMMA OneLess ==
    ASSUME NEW x, NEW y, NEW i \in Windows, x.win[i].used, ~y.win[i].used,
           \A j \in Windows \ {i} : y.win[j] = x.win[j]
    PROVE  /\ Cardinality(Open(y)) + 1 = Cardinality(Open(x))
           /\ Cardinality(Open(y)) \in 0..Max
<1>1. Open(y) = Open(x) \ {i} /\ i \in Open(x) /\ Open(x) \in SUBSET Windows /\ Open(y) \in SUBSET Windows
  BY DEF Open
<1>2. Cardinality(Open(x) \ {i}) = Cardinality(Open(x)) - 1 /\ Cardinality(Open(x)) \in 0..Max
  BY <1>1, Counting
<1>3. Cardinality(Open(y)) \in 0..Max
  BY <1>1, Counting
<1> QED
  BY <1>1, <1>2, <1>3, DesktopAssumption

LEMMA SameOpen ==
    ASSUME NEW x, NEW y, \A j \in Windows : y.win[j].used = x.win[j].used
    PROVE  Open(y) = Open(x)
  BY DEF Open

-----------------------------------------------------------------------------
(* The writes to a desktop, each of one window or of one other field.      *)
Differs(x, y, i) ==
    /\ y \in Desktops
    /\ y.count = x.count /\ y.focus = x.focus /\ y.procs = x.procs
    /\ \A j \in Windows \ {i} : y.win[j] = x.win[j]

LEMMA WindowPut ==
    ASSUME NEW x \in Desktops, NEW i \in Windows, NEW w \in WindowStates
    PROVE  /\ Differs(x, [x EXCEPT !.win[i] = w], i)
           /\ [x EXCEPT !.win[i] = w].win[i] = w
  BY DEF Differs, Desktops

LEMMA ClaimedFacts ==
    ASSUME NEW x \in Desktops, NEW i \in Windows
    PROVE  /\ Differs(x, Claimed(x, i), i)
           /\ Claimed(x, i).win[i].used /\ Claimed(x, i).win[i].term = x.win[i].term
<1> DEFINE w == [Closed EXCEPT !.used = TRUE, !.cid = i, !.term = x.win[i].term]
<1>1. x.win[i] \in WindowStates
  BY DEF Desktops
<1>2. x.win[i].term \in BOOLEAN
  BY <1>1 DEF WindowStates
<1>3. w \in WindowStates /\ w.used /\ w.term = x.win[i].term
  BY <1>2 DEF Closed, WindowStates
<1>4. Claimed(x, i) = [x EXCEPT !.win[i] = w]
  BY DEF Claimed
<1> HIDE DEF w
<1> QED
  BY <1>3, <1>4, WindowPut

LEMMA TypedFacts ==
    ASSUME NEW x \in Desktops, NEW i \in Windows, NEW type \in {"generic", "terminal", "files"}
    PROVE  /\ Differs(x, Typed(x, i, type), i)
           /\ Typed(x, i, type).win[i].type = type
           /\ Typed(x, i, type).win[i].used = x.win[i].used
           /\ Typed(x, i, type).win[i].term = x.win[i].term
<1> DEFINE w == x.win[i]
           a == [w EXCEPT !.type = type]
<1>1. w \in WindowStates
  BY DEF Desktops
<1>2. Typed(x, i, type) = [x EXCEPT !.win[i] = a]
  BY DEF Typed, Desktops
<1> HIDE DEF w
<1>3. a \in WindowStates /\ a.type = type /\ a.used = w.used /\ a.term = w.term
  BY <1>1 DEF WindowStates
<1> HIDE DEF a
<1> QED
  BY <1>2, <1>3, WindowPut DEF w

LEMMA HoldingFacts ==
    ASSUME NEW x \in Desktops, NEW i \in Windows, NEW cid \in Windows
    PROVE  /\ Differs(x, Holding(x, i, cid), i)
           /\ Holding(x, i, cid).win[i].cid = cid
           /\ Holding(x, i, cid).win[i].type = x.win[i].type
           /\ Holding(x, i, cid).win[i].used = x.win[i].used
           /\ Holding(x, i, cid).win[i].term = x.win[i].term
<1> DEFINE w == x.win[i]
           a == [w EXCEPT !.cid = cid]
<1>1. w \in WindowStates
  BY DEF Desktops
<1>2. Holding(x, i, cid) = [x EXCEPT !.win[i] = a]
  BY DEF Holding, Desktops
<1> HIDE DEF w
<1>3. a \in WindowStates /\ a.cid = cid /\ a.type = w.type /\ a.used = w.used /\ a.term = w.term
  BY <1>1 DEF WindowStates
<1> HIDE DEF a
<1> QED
  BY <1>2, <1>3, WindowPut DEF w

LEMMA TerminalFacts ==
    ASSUME NEW x \in Desktops, NEW i \in Windows, NEW type \in {"terminal", "files"}
    PROVE  /\ Differs(x, Terminal(x, i, type), i)
           /\ Terminal(x, i, type).win[i].cid = x.win[i].cid
           /\ Terminal(x, i, type).win[i].type = x.win[i].type
           /\ Terminal(x, i, type).win[i].used = x.win[i].used
           /\ type = "terminal" => Terminal(x, i, type).win[i].term
<1> DEFINE w == x.win[i]
           a == [w EXCEPT !.term = w.term \/ type = "terminal"]
<1>1. w \in WindowStates
  BY DEF Desktops
<1>2. Terminal(x, i, type) = [x EXCEPT !.win[i] = a]
  BY DEF Terminal, Desktops
<1> HIDE DEF w
<1>3. PICK t \in BOOLEAN : t = (w.term \/ type = "terminal")
  OBVIOUS
<1>4. a = [w EXCEPT !.term = t]
  BY <1>3, Zenon
<1>5. a \in WindowStates /\ a.cid = w.cid /\ a.type = w.type /\ a.used = w.used /\ a.term = t
  BY <1>1, <1>3, <1>4 DEF WindowStates
<1> HIDE DEF a
<1>6. Differs(x, Terminal(x, i, type), i) /\ Terminal(x, i, type).win[i] = a
  BY <1>2, <1>5, WindowPut
<1>7. type = "terminal" => Terminal(x, i, type).win[i].term
  BY <1>3, <1>5, <1>6, Zenon
<1> QED
  BY <1>5, <1>6, <1>7 DEF w

LEMMA ShutFacts ==
    ASSUME NEW x \in Desktops, NEW i \in Windows
    PROVE  /\ Differs(x, Shut(x, i), i)
           /\ ~Shut(x, i).win[i].used
           /\ Shut(x, i).win[i].term = x.win[i].term
           /\ Shut(x, i).win[i].type = x.win[i].type
           /\ Shut(x, i).win[i].cid = x.win[i].cid
<1> DEFINE w == x.win[i]
           a == [w EXCEPT !.used = FALSE]
<1>1. w \in WindowStates
  BY DEF Desktops
<1>2. Shut(x, i) = [x EXCEPT !.win[i] = a]
  BY DEF Shut, Desktops
<1> HIDE DEF w
<1>3. a \in WindowStates /\ ~a.used /\ a.term = w.term /\ a.type = w.type /\ a.cid = w.cid
  BY <1>1 DEF WindowStates
<1> HIDE DEF a
<1> QED
  BY <1>2, <1>3, WindowPut DEF w

LEMMA UntermFacts ==
    ASSUME NEW x \in Desktops, NEW i \in Windows
    PROVE  /\ Differs(x, Unterm(x, i), i)
           /\ ~Unterm(x, i).win[i].term
           /\ Unterm(x, i).win[i].used = x.win[i].used
           /\ Unterm(x, i).win[i].type = x.win[i].type
           /\ Unterm(x, i).win[i].cid = x.win[i].cid
<1> DEFINE w == x.win[i]
           a == [w EXCEPT !.term = FALSE]
<1>1. w \in WindowStates
  BY DEF Desktops
<1>2. Unterm(x, i) = [x EXCEPT !.win[i] = a]
  BY DEF Unterm, Desktops
<1> HIDE DEF w
<1>3. a \in WindowStates /\ ~a.term /\ a.used = w.used /\ a.type = w.type /\ a.cid = w.cid
  BY <1>1 DEF WindowStates
<1> HIDE DEF a
<1> QED
  BY <1>2, <1>3, WindowPut DEF w

LEMMA BlankedFacts ==
    ASSUME NEW x \in Desktops, NEW i \in Windows
    PROVE  /\ Differs(x, Blanked(x, i), i)
           /\ Blanked(x, i).win[i].used = x.win[i].used
           /\ Blanked(x, i).win[i].term = x.win[i].term
<1> DEFINE w == x.win[i]
           a == [w EXCEPT !.type = "generic", !.cid = 0, !.mini = FALSE]
<1>1. w \in WindowStates
  BY DEF Desktops
<1>2. Blanked(x, i) = [x EXCEPT !.win[i] = a]
  BY DEF Blanked, Desktops
<1> HIDE DEF w
<1>3. 0 \in Windows
  BY DesktopAssumption DEF Windows
<1>4. a \in WindowStates /\ a.used = w.used /\ a.term = w.term
  BY <1>1, <1>3 DEF WindowStates
<1> HIDE DEF a
<1> QED
  BY <1>2, <1>4, WindowPut DEF w

LEMMA FocusFacts ==
    ASSUME NEW x \in Desktops, NEW i \in Windows \cup {None}
    PROVE  Focused(x, i) \in Desktops /\ Focused(x, i).focus = i /\ Focused(x, i).win = x.win /\ Focused(x, i).count = x.count /\ Focused(x, i).procs = x.procs
  BY DEF Focused, Desktops

LEMMA CountFacts ==
    ASSUME NEW x \in Desktops, NEW n \in 0..(CountWords - 1)
    PROVE  Counted(x, n) \in Desktops /\ Counted(x, n).count = n /\ Counted(x, n).win = x.win /\ Counted(x, n).focus = x.focus /\ Counted(x, n).procs = x.procs
  BY DEF Counted, Desktops

Lowered(n) == IF n = 0 THEN CountWords - 1 ELSE n - 1

LEMMA UncountFacts ==
    ASSUME NEW x \in Desktops
    PROVE  /\ Uncounted(x) \in Desktops /\ Uncounted(x).win = x.win /\ Uncounted(x).focus = x.focus /\ Uncounted(x).procs = x.procs
           /\ Uncounted(x).count = Lowered(x.count)
           /\ Uncounted(x).count # x.count
           /\ x.count > 0 => Uncounted(x).count + 1 = x.count
<1>1. Lowered(x.count) \in 0..(CountWords - 1) /\ Lowered(x.count) # x.count
      /\ (x.count > 0 => Lowered(x.count) + 1 = x.count)
  BY DesktopAssumption DEF Desktops, Lowered
<1>2. Uncounted(x) = [x EXCEPT !.count = Lowered(x.count)]
  BY DEF Uncounted, Lowered, Desktops
<1> HIDE DEF Lowered
<1> QED
  BY <1>1, <1>2 DEF Desktops

\* app_proc_spawn, and an application's end.
LEMMA ProcessPut ==
    ASSUME NEW x \in Desktops, NEW p \in Pids, NEW proc \in Processes
    PROVE  /\ [x EXCEPT !.procs[p] = proc] \in Desktops
           /\ [x EXCEPT !.procs[p] = proc].win = x.win
           /\ [x EXCEPT !.procs[p] = proc].count = x.count
           /\ [x EXCEPT !.procs[p] = proc].focus = x.focus
           /\ [x EXCEPT !.procs[p] = proc].procs[p] = proc
           /\ \A q \in Pids \ {p} : [x EXCEPT !.procs[p] = proc].procs[q] = x.procs[q]
  BY DEF Desktops

LEMMA NoProcTyped ==
    ASSUME NEW b \in BOOLEAN
    PROVE  [NoProc EXCEPT !.used = b] \in Processes /\ [NoProc EXCEPT !.used = b].used = b
<1>1. 0 \in 0..MaxLines
  BY DesktopAssumption
<1>2. NoProc \in Processes
  BY <1>1 DEF NoProc, Processes
<1> QED
  BY <1>2 DEF Processes

LEMMA SpawnedFacts ==
    ASSUME NEW x \in Desktops, NEW p \in Pids
    PROVE  /\ Spawned(x, p) \in Desktops /\ Spawned(x, p).win = x.win
           /\ Spawned(x, p).count = x.count /\ Spawned(x, p).focus = x.focus
           /\ \A q \in Pids : Spawned(x, p).procs[q].used => x.procs[q].used \/ q = p
<1> DEFINE proc == [NoProc EXCEPT !.used = TRUE]
<1>1. proc \in Processes
  BY NoProcTyped
<1>2. Spawned(x, p) = [x EXCEPT !.procs[p] = proc]
  BY DEF Spawned
<1> HIDE DEF proc
<1> QED
  BY <1>1, <1>2, ProcessPut

LEMMA FreedFacts ==
    ASSUME NEW x \in Desktops, NEW p \in Pids
    PROVE  /\ Freed(x, p) \in Desktops /\ Freed(x, p).win = x.win
           /\ Freed(x, p).count = x.count /\ Freed(x, p).focus = x.focus
           /\ \A q \in Pids : Freed(x, p).procs[q].used => x.procs[q].used /\ q # p
<1>1. NoProc \in Processes /\ ~NoProc.used
  <2>1. 0 \in 0..MaxLines
    BY DesktopAssumption
  <2> QED
    BY <2>1 DEF NoProc, Processes
<1>2. Freed(x, p) = [x EXCEPT !.procs[p] = NoProc]
  BY DEF Freed
<1> QED
  BY <1>1, <1>2, ProcessPut

\* The end of a terminal's application.
LEMMA UnhostFacts ==
    ASSUME NEW x \in Desktops, NEW i \in Windows
    PROVE  /\ Unhosted(x, i) \in Desktops /\ Unhosted(x, i).win = x.win /\ Unhosted(x, i).count = x.count /\ Unhosted(x, i).focus = x.focus
           /\ \A q \in Pids : Unhosted(x, i).procs[q].used =>
                 x.procs[q].used /\ ~(x.win[i].type = "terminal" /\ q = x.win[i].cid)
<1>1. x.win[i].cid \in Pids
  BY DEF Desktops, WindowStates, Pids
<1>2. CASE x.win[i].type = "terminal"
  <2>1. Unhosted(x, i) = Freed(x, x.win[i].cid)
    BY <1>2 DEF Unhosted
  <2> QED
    BY <1>1, <2>1, FreedFacts
<1>3. CASE x.win[i].type # "terminal"
  BY <1>3 DEF Unhosted
<1> QED
  BY <1>2, <1>3

-----------------------------------------------------------------------------
(* What an interrupt may do to a desktop.                                  *)
Calm(x, y) ==
    /\ y \in Desktops /\ y.count = x.count
    /\ \A j \in Windows : /\ y.win[j].used = x.win[j].used /\ y.win[j].type = x.win[j].type
                          /\ y.win[j].term = x.win[j].term /\ y.win[j].cid = x.win[j].cid
    /\ \A q \in Pids : y.procs[q].used = x.procs[q].used
    /\ y.focus = x.focus \/ y.focus = None \/ (y.focus \in Windows /\ y.win[y.focus].used)

Shuts(x, y, i) ==
    /\ y \in Desktops /\ i \in Windows
    /\ x.win[i].used /\ ~y.win[i].used /\ ~y.win[i].term
    /\ \A j \in Windows \ {i} : y.win[j] = x.win[j]
    /\ y.count # x.count /\ (x.count > 0 => y.count + 1 = x.count)
    /\ \A q \in Pids : y.procs[q].used =>
          x.procs[q].used /\ ~(x.win[i].type = "terminal" /\ q = x.win[i].cid)
    /\ \/ y.focus = None
       \/ y.focus = x.focus /\ y.focus # i
       \/ y.focus \in Windows /\ y.win[y.focus].used

Opens(x, y, i) ==
    /\ y \in Desktops /\ i \in Windows
    /\ ~x.win[i].used /\ y.win[i].used
    /\ \A j \in Windows \ {i} : y.win[j] = x.win[j]
    /\ y.count = x.count + 1
    /\ y.procs = x.procs /\ y.focus = i

\* wm_close_window, at once.
LEMMA CloseFacts ==
    ASSUME NEW x \in Desktops, NEW i \in Windows, x.win[i].used
    PROVE  Shuts(x, CloseWindow(x, i), i)
<1> DEFINE a == Shut(x, i)
           b == Unterm(a, i)
           c == Unhosted(b, i)
           e == Blanked(c, i)
           f == Uncounted(e)
           y == Refocused(f, i)
<1>1. CloseWindow(x, i) = y
  BY DEF CloseWindow
<1>2. /\ a \in Desktops /\ a.count = x.count /\ a.focus = x.focus /\ a.procs = x.procs
      /\ \A j \in Windows \ {i} : a.win[j] = x.win[j]
      /\ ~a.win[i].used /\ a.win[i].type = x.win[i].type /\ a.win[i].cid = x.win[i].cid
  BY ShutFacts DEF Differs
<1> HIDE DEF a
<1>3. /\ b \in Desktops /\ b.count = x.count /\ b.focus = x.focus /\ b.procs = x.procs
      /\ \A j \in Windows \ {i} : b.win[j] = x.win[j]
      /\ ~b.win[i].used /\ ~b.win[i].term /\ b.win[i].type = x.win[i].type /\ b.win[i].cid = x.win[i].cid
  BY <1>2, UntermFacts DEF Differs
<1> HIDE DEF b
<1>4. /\ c \in Desktops /\ c.count = x.count /\ c.focus = x.focus /\ c.win = b.win
      /\ \A q \in Pids : c.procs[q].used =>
            x.procs[q].used /\ ~(x.win[i].type = "terminal" /\ q = x.win[i].cid)
  BY <1>3, UnhostFacts
<1> HIDE DEF c
<1>5. /\ e \in Desktops /\ e.count = x.count /\ e.focus = x.focus /\ e.procs = c.procs
      /\ \A j \in Windows \ {i} : e.win[j] = x.win[j]
      /\ ~e.win[i].used /\ ~e.win[i].term
  BY <1>3, <1>4, BlankedFacts DEF Differs
<1> HIDE DEF e
<1>6. /\ f \in Desktops /\ f.win = e.win /\ f.focus = x.focus /\ f.procs = c.procs
      /\ f.count # x.count /\ (x.count > 0 => f.count + 1 = x.count)
  BY <1>5, UncountFacts
<1> HIDE DEF f
<1>7. /\ y \in Desktops /\ y.win = f.win /\ y.count = f.count /\ y.procs = f.procs
      /\ \/ y.focus = None
         \/ y.focus = x.focus /\ y.focus # i
         \/ y.focus \in Windows /\ f.win[y.focus].used
  <2>1. CASE f.focus # i
    BY <1>6, <2>1 DEF Refocused
  <2>2. CASE f.focus = i
    <3> DEFINE first == FirstOf(Open(f))
    <3>1. y = Focused(f, first)
      BY <2>2 DEF Refocused
    <3>2. first = None \/ (first \in Windows /\ first \in Open(f))
      <4>1. Open(f) \in SUBSET Windows
        BY DEF Open
      <4> QED
        BY <4>1, FirstFound
    <3>3. first = None \/ (first \in Windows /\ f.win[first].used)
      BY <3>2 DEF Open
    <3> HIDE DEF first
    <3> QED
      BY <1>6, <3>1, <3>3, FocusFacts
  <2> QED
    BY <2>1, <2>2
<1> HIDE DEF y
<1>8. Shuts(x, y, i)
  BY <1>4, <1>5, <1>6, <1>7 DEF Shuts
<1> QED
  BY <1>1, <1>8

\* wm_open_window and its caller, at once.
LEMMA OpenFacts ==
    ASSUME NEW x \in Desktops, NEW kind \in {"terminal", "files"}
    PROVE  \/ Opened(x, kind) = x
           \/ \E i \in Windows : Opens(x, Opened(x, kind), i)
<1> DEFINE i == FirstOf(Windows \ Open(x))
<1>1. CASE x.count >= Max \/ i = None
  BY <1>1 DEF Opened
<1>2. CASE ~(x.count >= Max \/ i = None)
  <2> DEFINE a == Claimed(x, i)
             b == Focused(a, i)
             c == Counted(b, x.count + 1)
             e == Typed(c, i, kind)
             f == Holding(e, i, i)
             y == Terminal(f, i, kind)
  <2>1. Opened(x, kind) = y
    BY <1>2 DEF Opened
  <2>2. i \in Windows /\ ~x.win[i].used
    <3>1. i \in Windows \ Open(x)
      BY <1>2, FirstFound
    <3> QED
      BY <3>1 DEF Open
  <2>3. x.count + 1 \in 0..(CountWords - 1)
    BY <1>2, DesktopAssumption DEF Desktops
  <2> HIDE DEF i
  <2>4. /\ a \in Desktops /\ a.count = x.count /\ a.procs = x.procs /\ a.win[i].used
        /\ \A j \in Windows \ {i} : a.win[j] = x.win[j]
    BY <2>2, ClaimedFacts DEF Differs
  <2> HIDE DEF a
  <2>5. b \in Desktops /\ b.win = a.win /\ b.focus = i /\ b.procs = x.procs
    BY <2>2, <2>4, FocusFacts
  <2> HIDE DEF b
  <2>6. c \in Desktops /\ c.win = a.win /\ c.focus = i /\ c.procs = x.procs /\ c.count = x.count + 1
    BY <2>3, <2>5, CountFacts
  <2> HIDE DEF c
  <2>7. Differs(c, e, i) /\ e.win[i].used = c.win[i].used
    BY <2>2, <2>6, TypedFacts
  <2> HIDE DEF e
  <2>8. Differs(e, f, i) /\ f.win[i].used = e.win[i].used
    <3>1. e \in Desktops
      BY <2>7 DEF Differs
    <3> QED
      BY <2>2, <3>1, HoldingFacts
  <2> HIDE DEF f
  <2>9. Differs(f, y, i) /\ y.win[i].used = f.win[i].used
    <3>1. f \in Desktops
      BY <2>8 DEF Differs
    <3> QED
      BY <2>2, <3>1, TerminalFacts
  <2> HIDE DEF y
  <2>10. Opens(x, y, i)
    BY <2>2, <2>4, <2>6, <2>7, <2>8, <2>9 DEF Opens, Differs
  <2> QED
    BY <2>1, <2>2, <2>10
<1> QED
  BY <1>1, <1>2

-----------------------------------------------------------------------------
(* What an interrupt must leave alone to have struck nothing.              *)
CountHeld(x, y, l) ==
    /\ l.at \in {"scan", "claim", "focus", "count"} => y.count = x.count
    /\ l.at = "shut" => y.win[l.i].used = x.win[l.i].used
FocusHeld(x, y, l) == l.at \in {"focus", "pick"} => y.win[l.i].used = x.win[l.i].used
AppsHeld(x, y, l) ==
    l.at \in Claiming \cup {"unterm", "unhost", "blank"} => y.win[l.i].used = x.win[l.i].used

\* A calm change disturbs no relation.
LEMMA CalmCount ==
    ASSUME NEW x, NEW y, NEW l, LoopGood(l), Calm(x, y), CountGood(x, l)
    PROVE  CountGood(y, l)
<1>1. Open(y) = Open(x)
  BY SameOpen DEF Calm
<1>2. y.count = x.count
  BY DEF Calm
<1>3. l.at \in {"claim", "shut"} => y.win[l.i].used = x.win[l.i].used
  BY DEF Calm, LoopGood, Claiming, Closing
<1> QED
  BY <1>1, <1>2, <1>3 DEF CountGood

LEMMA CalmFocus ==
    ASSUME NEW x, NEW y, NEW l, LoopGood(l), Calm(x, y), FocusGood(x, l), x \in Desktops
    PROVE  FocusGood(y, l)
<1>1. l.at \in {"focus", "pick"} => y.win[l.i].used
  BY DEF Calm, LoopGood, Claiming, Closing, FocusGood
<1>2. x.focus # None => y.win[x.focus].used = x.win[x.focus].used
  BY DEF Calm, Desktops
<1> QED
  BY <1>1, <1>2 DEF FocusGood, Calm

LEMMA CalmApps ==
    ASSUME NEW x, NEW y, NEW l, LoopGood(l), Calm(x, y), AppsGood(x, l)
    PROVE  AppsGood(y, l)
<1>1. \A j \in Windows : /\ y.win[j].used = x.win[j].used /\ y.win[j].type = x.win[j].type
                         /\ y.win[j].term = x.win[j].term /\ y.win[j].cid = x.win[j].cid
  BY DEF Calm
<1>2. \A q : Terminals(y, q) = Terminals(x, q)
  BY <1>1, Zenon DEF Terminals
<1>3. l.at \in Claiming \cup {"unterm", "unhost", "blank"} => l.i \in Windows
  BY DEF LoopGood, Closing
<1>4. \A q \in Pids : y.procs[q].used => Hosted(y, l, q)
  BY <1>1, <1>2, <1>3 DEF AppsGood, Hosted, Calm
<1>5. \A j \in Windows : y.win[j].term => y.win[j].used \/ (l.at = "unterm" /\ j = l.i)
  BY <1>1 DEF AppsGood
<1> QED
  BY <1>1, <1>3, <1>4, <1>5 DEF AppsGood, Claiming

\* Nor does the closing of a window that the loop does not hold.
LEMMA ShutCount ==
    ASSUME NEW x, NEW y, NEW l, NEW i, x \in Desktops, LoopGood(l), Shuts(x, y, i),
           CountHeld(x, y, l), CountGood(x, l)
    PROVE  CountGood(y, l)
<1>1. Cardinality(Open(y)) + 1 = Cardinality(Open(x)) /\ Cardinality(Open(y)) \in 0..Max
  BY OneLess DEF Shuts
<1>2. l.at \notin {"scan", "claim", "focus", "count"}
  BY DEF CountHeld, Shuts
<1>3. x.count > 0
  BY <1>1, <1>2, DesktopAssumption DEF CountGood, Desktops
<1>4. y.count + 1 = x.count /\ y.count \in Nat /\ x.count \in Nat
  BY <1>3, DesktopAssumption DEF Shuts, Desktops
<1>5. l.at = "shut" => y.win[l.i].used
  BY DEF CountHeld, CountGood
<1>6. Cardinality(Open(y)) \in Nat
  BY <1>1, DesktopAssumption
<1> QED
  BY <1>1, <1>2, <1>4, <1>5, <1>6 DEF CountGood

LEMMA ShutFocus ==
    ASSUME NEW x, NEW y, NEW l, NEW i, x \in Desktops, LoopGood(l), Shuts(x, y, i),
           FocusHeld(x, y, l), FocusGood(x, l)
    PROVE  FocusGood(y, l)
<1>1. l.at \in {"focus", "pick"} => y.win[l.i].used
  BY DEF FocusHeld, FocusGood
<1>2. y.focus = x.focus /\ y.focus # i /\ x.focus # None => y.win[x.focus] = x.win[x.focus]
  BY DEF Shuts, Desktops
<1> QED
  BY <1>1, <1>2 DEF FocusGood, Shuts

LEMMA ShutApps ==
    ASSUME NEW x, NEW y, NEW l, NEW i, x \in Desktops, LoopGood(l), Shuts(x, y, i),
           AppsHeld(x, y, l), AppsGood(x, l)
    PROVE  AppsGood(y, l)
<1>1. l.at \in Claiming \cup {"unterm", "unhost", "blank"} => l.i \in Windows /\ l.i # i
  BY DEF LoopGood, Closing, AppsHeld, Shuts
<1>2. l.at \in Claiming \cup {"unterm", "unhost", "blank"} => y.win[l.i] = x.win[l.i]
  BY <1>1 DEF Shuts
<1>3. ASSUME NEW q \in Pids, y.procs[q].used
      PROVE  Hosted(y, l, q)
  <2>1. x.procs[q].used /\ ~(x.win[i].type = "terminal" /\ q = x.win[i].cid)
    BY <1>3 DEF Shuts
  <2>2. Hosted(x, l, q)
    BY <2>1 DEF AppsGood
  <2>3. \A j \in Terminals(x, q) : j \in Terminals(y, q)
    BY <2>1 DEF Terminals, Shuts
  <2> QED
    BY <1>2, <2>2, <2>3 DEF Hosted
<1>4. \A j \in Windows : y.win[j].term => y.win[j].used \/ (l.at = "unterm" /\ j = l.i)
  BY DEF AppsGood, Shuts
<1> QED
  BY <1>2, <1>3, <1>4 DEF AppsGood, Claiming

\* Nor the opening of another.
LEMMA OpenCount ==
    ASSUME NEW x, NEW y, NEW l, NEW i, x \in Desktops, LoopGood(l), Opens(x, y, i),
           CountHeld(x, y, l), CountGood(x, l)
    PROVE  CountGood(y, l)
<1>1. Cardinality(Open(y)) = Cardinality(Open(x)) + 1 /\ Cardinality(Open(x)) \in Nat
  <2>1. Open(x) \in SUBSET Windows
    BY DEF Open
  <2> QED
    BY <2>1, OneMore, Counting, DesktopAssumption DEF Opens
<1>2. y.count = x.count + 1 /\ x.count \in Nat
  BY DesktopAssumption DEF Opens, Desktops
<1>3. l.at \notin {"scan", "claim", "focus", "count"}
  BY <1>2 DEF CountHeld
<1>4. l.at = "shut" => y.win[l.i].used
  BY DEF CountHeld, CountGood
<1> QED
  BY <1>1, <1>2, <1>3, <1>4 DEF CountGood

LEMMA OpenFocus ==
    ASSUME NEW x, NEW y, NEW l, NEW i, LoopGood(l), Opens(x, y, i),
           FocusHeld(x, y, l), FocusGood(x, l)
    PROVE  FocusGood(y, l)
  BY DEF FocusHeld, FocusGood, Opens

LEMMA OpenApps ==
    ASSUME NEW x, NEW y, NEW l, NEW i, x \in Desktops, LoopGood(l), Opens(x, y, i),
           AppsHeld(x, y, l), AppsGood(x, l)
    PROVE  AppsGood(y, l)
<1>1. l.at \in Claiming \cup {"unterm", "unhost", "blank"} => l.i \in Windows /\ l.i # i
  BY DEF LoopGood, Closing, AppsHeld, Opens
<1>2. l.at \in Claiming \cup {"unterm", "unhost", "blank"} => y.win[l.i] = x.win[l.i]
  BY <1>1 DEF Opens
<1>3. ASSUME NEW q \in Pids, y.procs[q].used
      PROVE  Hosted(y, l, q)
  <2>1. Hosted(x, l, q)
    BY <1>3 DEF AppsGood, Opens
  <2>2. \A j \in Terminals(x, q) : j \in Terminals(y, q)
    BY DEF Terminals, Opens
  <2> QED
    BY <1>2, <2>1, <2>2 DEF Hosted
<1>4. \A j \in Windows : y.win[j].term => y.win[j].used \/ (l.at = "unterm" /\ j = l.i)
  BY DEF AppsGood, Opens
<1> QED
  BY <1>2, <1>3, <1>4 DEF AppsGood, Claiming

-----------------------------------------------------------------------------
(* Every interrupt is a calm change, then one window at most.              *)
Touches(x, y) ==
    \E m : /\ Calm(x, m)
           /\ \/ y = m
              \/ \E i \in Windows : Shuts(m, y, i)
              \/ \E i \in Windows : Opens(m, y, i)

LEMMA TouchesKeep ==
    ASSUME NEW x \in Desktops, NEW y, NEW l, LoopGood(l), Touches(x, y)
    PROVE  /\ y \in Desktops
           /\ CountHeld(x, y, l) /\ CountGood(x, l) => CountGood(y, l)
           /\ FocusHeld(x, y, l) /\ FocusGood(x, l) => FocusGood(y, l)
           /\ AppsHeld(x, y, l) /\ AppsGood(x, l) => AppsGood(y, l)
<1>1. PICK m : /\ Calm(x, m)
               /\ \/ y = m
                  \/ \E i \in Windows : Shuts(m, y, i)
                  \/ \E i \in Windows : Opens(m, y, i)
  BY DEF Touches
<1>2. m \in Desktops /\ m.count = x.count /\ \A j \in Windows : m.win[j].used = x.win[j].used
  BY <1>1 DEF Calm
<1>3. l.at \in Claiming \cup Closing \cup {"pick"} => l.i \in Windows
  BY DEF LoopGood
<1>4. CountHeld(x, y, l) => CountHeld(m, y, l)
  BY <1>2, <1>3 DEF CountHeld, Closing
<1>5. FocusHeld(x, y, l) => FocusHeld(m, y, l)
  BY <1>2, <1>3 DEF FocusHeld, Claiming
<1>6. AppsHeld(x, y, l) => AppsHeld(m, y, l)
  BY <1>2, <1>3 DEF AppsHeld, Closing
<1>7. CountGood(x, l) => CountGood(m, l)
  BY <1>1, CalmCount
<1>8. FocusGood(x, l) => FocusGood(m, l)
  BY <1>1, CalmFocus
<1>9. AppsGood(x, l) => AppsGood(m, l)
  BY <1>1, CalmApps
<1>10. CASE y = m
  BY <1>2, <1>7, <1>8, <1>9, <1>10
<1>11. ASSUME NEW i \in Windows, Shuts(m, y, i)
       PROVE  /\ y \in Desktops
              /\ CountHeld(m, y, l) /\ CountGood(m, l) => CountGood(y, l)
              /\ FocusHeld(m, y, l) /\ FocusGood(m, l) => FocusGood(y, l)
              /\ AppsHeld(m, y, l) /\ AppsGood(m, l) => AppsGood(y, l)
  <2>1. y \in Desktops
    BY <1>11 DEF Shuts
  <2> QED
    BY <1>2, <1>11, <2>1, ShutCount, ShutFocus, ShutApps
<1>12. ASSUME NEW i \in Windows, Opens(m, y, i)
       PROVE  /\ y \in Desktops
              /\ CountHeld(m, y, l) /\ CountGood(m, l) => CountGood(y, l)
              /\ FocusHeld(m, y, l) /\ FocusGood(m, l) => FocusGood(y, l)
              /\ AppsHeld(m, y, l) /\ AppsGood(m, l) => AppsGood(y, l)
  <2>1. y \in Desktops
    BY <1>12 DEF Opens
  <2> QED
    BY <1>2, <1>12, <2>1, OpenCount, OpenFocus, OpenApps
<1> QED
  BY <1>1, <1>4, <1>5, <1>6, <1>7, <1>8, <1>9, <1>10, <1>11, <1>12

LEMMA CalmItself ==
    ASSUME NEW x \in Desktops
    PROVE  Calm(x, x)
  BY DEF Calm

LEMMA TouchedUnderMouse ==
    ASSUME NEW x \in Desktops, NEW m, Calm(x, m), NEW y \in UnderMouse(m)
    PROVE  Touches(x, y)
<1>1. m \in Desktops
  BY DEF Calm
<1>2. CASE y = m
  BY <1>2 DEF Touches
<1>3. ASSUME NEW i \in Windows, m.win[i].used, y = CloseWindow(m, i)
      PROVE  Touches(x, y)
  BY <1>1, <1>3, CloseFacts DEF Touches
<1>4. ASSUME NEW i \in Windows, m.win[i].used, y = Focused(m, i)
      PROVE  Touches(x, y)
  <2>1. y \in Desktops /\ y.focus = i /\ y.win = m.win /\ y.count = m.count /\ y.procs = m.procs
    BY <1>1, <1>4, FocusFacts
  <2>2. Calm(x, y)
    BY <1>4, <2>1 DEF Calm
  <2> QED
    BY <2>2 DEF Touches
<1>5. y = m \/ \E i \in Windows : m.win[i].used /\ (y = CloseWindow(m, i) \/ y = Focused(m, i))
  BY DEF UnderMouse, Open
<1> QED
  BY <1>2, <1>3, <1>4, <1>5

LEMMA TouchedByLine ==
    ASSUME NEW x \in Desktops, NEW line \in Commands
    PROVE  Touches(x, Executed(x, line))
<1>1. Calm(x, x)
  BY CalmItself
<1>2. CASE line[1] = "wmclose"
  <2>1. line[2] \in Windows
    BY <1>2, DesktopAssumption
  <2>2. Executed(x, line) = CloseWindow(x, line[2])
    BY <1>2 DEF Executed
  <2>3. CASE x.win[line[2]].used
    BY <1>1, <2>1, <2>2, <2>3, CloseFacts DEF Touches
  <2>4. CASE ~x.win[line[2]].used
    BY <1>1, <2>2, <2>4 DEF Touches, CloseWindow
  <2> QED
    BY <2>3, <2>4
<1>3. CASE line[1] # "wmclose" /\ line[1] \in DOMAIN Kinds
  <2> DEFINE kind == Kinds[line[1]]
  <2>1. kind \in {"terminal", "files"}
    BY <1>3 DEF Kinds
  <2>2. Executed(x, line) = Opened(x, kind)
    BY <1>3 DEF Executed
  <2> HIDE DEF kind
  <2> QED
    BY <1>1, <2>1, <2>2, OpenFacts DEF Touches
<1>4. CASE line[1] # "wmclose" /\ line[1] \notin DOMAIN Kinds
  BY <1>1, <1>4 DEF Touches, Executed
<1> QED
  BY <1>2, <1>3, <1>4

\* A press on the taskbar minimizes a window or brings it back.
LEMMA TaskbarCalm ==
    ASSUME NEW x \in Desktops, NEW i \in Windows, x.win[i].used
    PROVE  /\ Calm(x, [x EXCEPT !.win[i].mini = TRUE, !.focus = None])
           /\ Calm(x, [x EXCEPT !.win[i].mini = FALSE, !.focus = i])
<1>1. ASSUME NEW b \in BOOLEAN, NEW f \in {None, i}
      PROVE  Calm(x, [x EXCEPT !.win[i].mini = b, !.focus = f])
  <2> DEFINE w == x.win[i]
             a == [w EXCEPT !.mini = b]
             m == [x EXCEPT !.win[i] = a]
  <2>1. w \in WindowStates
    BY DEF Desktops
  <2>2. [x EXCEPT !.win[i].mini = b, !.focus = f] = Focused(m, f)
    BY DEF Desktops, Focused
  <2> HIDE DEF w
  <2>3. a \in WindowStates /\ a.used = w.used /\ a.type = w.type /\ a.term = w.term /\ a.cid = w.cid
    BY <2>1 DEF WindowStates
  <2> HIDE DEF a
  <2>4. Differs(x, m, i) /\ m.win[i] = a
    BY <2>3, WindowPut
  <2> HIDE DEF m
  <2>5. m \in Desktops
    BY <2>4 DEF Differs
  <2>6. Focused(m, f) \in Desktops /\ Focused(m, f).focus = f /\ Focused(m, f).win = m.win
        /\ Focused(m, f).count = m.count /\ Focused(m, f).procs = m.procs
    BY <2>5, FocusFacts
  <2> DEFINE y == Focused(m, f)
  <2> HIDE DEF y
  <2>7. \A j \in Windows : /\ m.win[j].used = x.win[j].used /\ m.win[j].type = x.win[j].type
                           /\ m.win[j].term = x.win[j].term /\ m.win[j].cid = x.win[j].cid
    BY <2>3, <2>4 DEF Differs, w
  <2>8. Calm(x, y)
    BY <2>4, <2>6, <2>7 DEF Calm, Differs, y
  <2> QED
    BY <2>2, <2>8 DEF y
<1> QED
  BY <1>1

LEMMA TypedLine ==
    ASSUME NEW x \in Desktops, NEW p \in Pids, x.procs[p].lines < MaxLines
    PROVE  Calm(x, [x EXCEPT !.procs[p].lines = @ + 1])
<1> DEFINE proc == x.procs[p]
           a == [proc EXCEPT !.lines = proc.lines + 1]
<1>1. proc \in Processes
  BY DEF Desktops
<1>2. [x EXCEPT !.procs[p].lines = @ + 1] = [x EXCEPT !.procs[p] = a]
  BY DEF Desktops
<1>3. proc.lines < MaxLines
  OBVIOUS
<1> HIDE DEF proc
<1>4. a \in Processes /\ a.used = proc.used
  BY <1>1, <1>3, DesktopAssumption DEF Processes
<1> HIDE DEF a
<1> DEFINE y == [x EXCEPT !.procs[p] = a]
<1>5. y \in Desktops /\ y.win = x.win /\ y.count = x.count /\ y.focus = x.focus
      /\ y.procs[p] = a /\ \A q \in Pids \ {p} : y.procs[q] = x.procs[q]
  BY <1>4, ProcessPut
<1> HIDE DEF y
<1>6. Calm(x, y)
  BY <1>4, <1>5 DEF Calm, proc
<1> QED
  BY <1>2, <1>6 DEF y

LEMMA InterruptTouches ==
    ASSUME Types, Interrupt
    PROVE  /\ Touches(d, d') /\ loop' = loop /\ upset' = upset \cup Endangered
           /\ menu' \in BOOLEAN /\ action' \in {"none", "terminal", "files"}
           /\ cmd' \in [ready : BOOLEAN, line : Lines]
<1> USE DEF Types, Recorded
<1>1. Calm(d, d)
  BY CalmItself
<1>2. Touches(d, d)
  BY <1>1 DEF Touches
<1>3. CASE ClickWindow
  BY <1>1, <1>3, TouchedUnderMouse DEF ClickWindow
<1>4. CASE ClickStart
  BY <1>1, <1>4, TouchedUnderMouse DEF ClickStart
<1>5. ASSUME NEW i \in Windows, ClickTaskbar(i)
      PROVE  Touches(d, d') /\ UNCHANGED <<menu, action, cmd, loop>> /\ Recorded
  <2> DEFINE a == [d EXCEPT !.win[i].mini = TRUE, !.focus = None]
             b == [d EXCEPT !.win[i].mini = FALSE, !.focus = i]
  <2>1. Calm(d, a) /\ Calm(d, b)
    BY <1>5, TaskbarCalm DEF ClickTaskbar
  <2>2. d' \in UnderMouse(IF i = d.focus THEN a ELSE b)
    BY <1>5 DEF ClickTaskbar
  <2> HIDE DEF a, b
  <2>3. Touches(d, d')
    BY <2>1, <2>2, TouchedUnderMouse
  <2> QED
    BY <1>5, <2>3 DEF ClickTaskbar
<1>6. ASSUME NEW choice \in {"terminal", "files", "none"}, ClickMenu(choice)
      PROVE  /\ d' = d /\ UNCHANGED <<cmd, loop>> /\ Recorded
             /\ menu' \in BOOLEAN /\ action' \in {"none", "terminal", "files"}
  BY <1>6 DEF ClickMenu
<1>7. ASSUME NEW line \in Commands, Enter(line)
      PROVE  /\ Touches(d, d') /\ UNCHANGED <<menu, action, loop>> /\ Recorded
             /\ cmd' \in [ready : BOOLEAN, line : Lines]
  <2>1. CASE ~Routed
    <3>1. d' = Executed(d, line) /\ UNCHANGED cmd
      BY <1>7, <2>1 DEF Enter
    <3> QED
      BY <1>7, <3>1, TouchedByLine DEF Enter
  <2>2. CASE Routed
    <3> DEFINE cid == d.win[d.focus].cid
    <3>1. cid \in Pids
      BY <2>2 DEF Routed, Desktops, WindowStates, Pids
    <3>2. CASE d.procs[cid].used
      <4>1. d.procs[cid].lines < MaxLines /\ d' = [d EXCEPT !.procs[cid].lines = @ + 1] /\ UNCHANGED cmd
        BY <1>7, <2>2, <3>2 DEF Enter
      <4> HIDE DEF cid
      <4>2. Calm(d, d')
        BY <3>1, <4>1, TypedLine
      <4> QED
        BY <1>7, <4>1, <4>2 DEF Enter, Touches
    <3>3. CASE ~d.procs[cid].used
      <4>1. cmd' = [ready |-> TRUE, line |-> line] /\ UNCHANGED d
        BY <1>7, <2>2, <3>3 DEF Enter
      <4> QED
        BY <1>2, <1>7, <4>1 DEF Enter, Lines
    <3> QED
      BY <3>2, <3>3
  <2> QED
    BY <2>1, <2>2
<1>8. CASE \E i \in Windows : ClickTaskbar(i)
  BY <1>5, <1>8
<1>9. CASE \E choice \in {"terminal", "files", "none"} : ClickMenu(choice)
  <2>1. PICK choice \in {"terminal", "files", "none"} : ClickMenu(choice)
    BY <1>9
  <2>2. /\ d' = d /\ UNCHANGED <<cmd, loop>> /\ Recorded
        /\ menu' \in BOOLEAN /\ action' \in {"none", "terminal", "files"}
    BY <1>6, <2>1
  <2> QED
    BY <1>2, <2>2
<1>10. CASE \E line \in Commands : Enter(line)
  BY <1>7, <1>10
<1>11. CASE ClickWindow \/ ClickStart
  <2>1. Touches(d, d')
    BY <1>3, <1>4, <1>11
  <2>2. UNCHANGED <<cmd, loop>> /\ Recorded /\ action' = action /\ menu' \in BOOLEAN
    BY <1>11 DEF ClickWindow, ClickStart
  <2> QED
    BY <2>1, <2>2
<1> QED
  BY <1>8, <1>9, <1>10, <1>11 DEF Interrupt

LEMMA Unstruck ==
    ASSUME Types, loop' = loop, upset' = upset \cup Endangered
    PROVE  /\ "count" \notin upset' => CountHeld(d, d', loop)
           /\ "focus" \notin upset' => FocusHeld(d, d', loop)
           /\ "app" \notin upset' => AppsHeld(d, d', loop)
<1>1. loop.at \in Claiming \cup Closing \cup {"pick"} => loop.i \in Windows
  BY DEF Types, LoopGood
<1>2. "count" \notin upset' => CountHeld(d, d', loop)
  BY <1>1 DEF CountHeld, Endangered, Struck, At, Closing
<1>3. "focus" \notin upset' => FocusHeld(d, d', loop)
  BY <1>1 DEF FocusHeld, Endangered, Struck, At, Claiming
<1>4. "app" \notin upset' => AppsHeld(d, d', loop)
  BY <1>1 DEF AppsHeld, Endangered, Struck, At, Claiming, Closing
<1> QED
  BY <1>2, <1>3, <1>4

LEMMA InterruptKeeps ==
    ASSUME IInv, Interrupt
    PROVE  IInv'
<1>1. Types /\ d \in Desktops /\ LoopGood(loop)
  BY DEF IInv, Types
<1>2. /\ Touches(d, d') /\ loop' = loop /\ upset' = upset \cup Endangered
      /\ menu' \in BOOLEAN /\ action' \in {"none", "terminal", "files"}
      /\ cmd' \in [ready : BOOLEAN, line : Lines]
  BY <1>1, InterruptTouches
<1>3. /\ d' \in Desktops
      /\ CountHeld(d, d', loop) /\ CountGood(d, loop) => CountGood(d', loop)
      /\ FocusHeld(d, d', loop) /\ FocusGood(d, loop) => FocusGood(d', loop)
      /\ AppsHeld(d, d', loop) /\ AppsGood(d, loop) => AppsGood(d', loop)
  BY <1>1, <1>2, TouchesKeep
<1>4. Types'
  BY <1>1, <1>2, <1>3 DEF Types
<1>5. upset \subseteq upset'
  BY <1>2
<1>6. "count" \notin upset' => CountGood(d', loop')
  BY <1>1, <1>2, <1>3, <1>5, Unstruck DEF IInv
<1>7. "focus" \notin upset' => FocusGood(d', loop')
  BY <1>1, <1>2, <1>3, <1>5, Unstruck DEF IInv
<1>8. "app" \notin upset' => AppsGood(d', loop')
  BY <1>1, <1>2, <1>3, <1>5, Unstruck DEF IInv
<1> QED
  BY <1>4, <1>6, <1>7, <1>8 DEF IInv

-----------------------------------------------------------------------------
(* The steps of the main loop.                                             *)
Kept ==
    /\ d' \in Desktops /\ LoopGood(loop')
    /\ CountGood(d, loop) => CountGood(d', loop')
    /\ FocusGood(d, loop) => FocusGood(d', loop')
    /\ AppsGood(d, loop) => AppsGood(d', loop')

\* The end of a job.
LEMMA FinishFacts ==
    ASSUME Types, Finish
    PROVE  /\ LoopGood(loop') /\ loop'.at \in {"top", "apps"}
           /\ loop'.pid = None /\ loop'.i = 0
<1>1. /\ loop'.at = loop.next /\ loop'.next = "top" /\ loop'.kind = "none" /\ loop'.pid = None
      /\ loop'.i = 0 /\ loop'.seen = 0 /\ loop'.line = Blank
      /\ loop' = [at |-> loop'.at, next |-> "top", kind |-> "none", pid |-> None, i |-> 0,
                  seen |-> 0, line |-> Blank]
  BY DEF Finish, Resting
<1>2. loop.next \in {"top", "apps"}
  BY DEF Types, LoopGood, Loops
<1>3. 0 \in Windows /\ 0 \in 0..Max /\ 0 \in 0..(Max - 1)
  BY DesktopAssumption DEF Windows
<1>4. loop' \in Loops
  BY <1>1, <1>2, <1>3 DEF Loops, Places, Lines, Blank
<1> QED
  BY <1>1, <1>2, <1>3, <1>4 DEF LoopGood, Opening, Claiming, Closing

\* While the loop has nothing of the desktop in hand.
LEMMA AtRest ==
    ASSUME d \in Desktops, d' = d, LoopGood(loop'), loop.pid = None, loop'.pid = None,
           loop.at \in {"top", "clear", "spawn", "apps", "cmd", "copy", "taken", "exec", "rescan", "refocus"},
           loop'.at \notin {"scan", "unterm", "unhost", "blank", "uncount", "refocus"} \cup Claiming,
           loop.at = "refocus" => d.focus # loop.i,
           loop'.at \in {"pick", "shut"} => d.win[loop'.i].used
    PROVE  Kept
<1>1. CountGood(d, loop) => CountGood(d, loop')
  BY DEF CountGood, Claiming
<1>2. FocusGood(d, loop) => FocusGood(d, loop')
  BY DEF FocusGood, Claiming
<1>3. AppsGood(d, loop) => AppsGood(d, loop')
  BY DEF AppsGood, Hosted, Claiming
<1> QED
  BY <1>1, <1>2, <1>3 DEF Kept

LEMMA TakeActionKeeps ==
    ASSUME Types, TakeAction
    PROVE  Kept
<1>1. loop.pid = None /\ d \in Desktops /\ loop.at = "top" /\ d' = d
  BY DEF Types, LoopGood, TakeAction, At, Opening, Claiming
<1>2. LoopGood(loop') /\ loop'.pid = None /\ loop'.at \in {"apps", "clear"}
  <2>1. 0 \in Windows /\ 0 \in 0..Max /\ 0 \in 0..(Max - 1)
    BY DesktopAssumption DEF Windows
  <2>2. action \in {"none", "terminal", "files"}
    BY DEF Types
  <2> QED
    BY <2>1, <2>2 DEF TakeAction, Resting, LoopGood, Loops, Lines, Blank, Places, Opening, Claiming, Closing
<1> QED
  BY <1>1, <1>2, AtRest DEF Claiming

LEMMA ClearActionKeeps ==
    ASSUME Types, ClearAction
    PROVE  Kept
<1>1. loop.pid = None /\ d \in Desktops /\ loop.at = "clear" /\ d' = d
  BY DEF Types, LoopGood, ClearAction, At, Opening, Claiming
<1>2. LoopGood(loop') /\ loop'.pid = None /\ loop'.at \in {"spawn", "room"}
  BY <1>1 DEF ClearAction, Go, Types, LoopGood, Loops, Places, Opening, Claiming, Closing
<1> QED
  BY <1>1, <1>2, AtRest DEF Claiming

LEMMA CopyKeeps ==
    ASSUME Types, CopyHead \/ CopyTail \/ MarkTaken
    PROVE  Kept
<1>1. loop.pid = None /\ d \in Desktops /\ loop.at \in {"cmd", "copy", "taken"} /\ d' = d
  BY DEF Types, LoopGood, CopyHead, CopyTail, MarkTaken, At, Opening, Claiming
<1>2. 0 \in Windows /\ 0 \in 0..Max /\ 0 \in 0..(Max - 1)
  BY DesktopAssumption DEF Windows
<1>3. cmd.line \in Lines /\ Torn \in Lines /\ Blank \in Lines
  BY DEF Types, Lines
<1>4. CASE CopyHead
  <2>1. LoopGood(loop') /\ loop'.pid = None /\ loop'.at \in {"top", "copy"}
    BY <1>1, <1>2, <1>3, <1>4
       DEF CopyHead, Resting, Types, LoopGood, Loops, Places, Opening, Claiming, Closing
  <2> QED
    BY <1>1, <2>1, AtRest DEF Claiming
<1>5. CASE CopyTail
  <2>1. LoopGood(loop') /\ loop'.pid = None /\ loop'.at = "taken"
    BY <1>1, <1>3, <1>5
       DEF CopyTail, Types, LoopGood, Loops, Places, Opening, Claiming, Closing
  <2> QED
    BY <1>1, <2>1, AtRest DEF Claiming
<1>6. CASE MarkTaken
  <2>1. LoopGood(loop') /\ loop'.pid = None /\ loop'.at = "exec"
    BY <1>1, <1>6
       DEF MarkTaken, Go, Types, LoopGood, Loops, Places, Opening, Claiming, Closing
  <2> QED
    BY <1>1, <2>1, AtRest DEF Claiming
<1> QED
  BY <1>4, <1>5, <1>6

LEMMA ExecuteKeeps ==
    ASSUME Types, Execute
    PROVE  Kept
<1> DEFINE name == loop.line[1]
<1>1. loop.pid = None /\ d \in Desktops /\ loop.at = "exec" /\ d' = d
  BY DEF Types, LoopGood, Execute, At, Opening, Claiming
<1>2. 0 \in Windows /\ 0 \in 0..Max /\ 0 \in 0..(Max - 1) /\ Windows \subseteq 0..Max
  BY DesktopAssumption DEF Windows
<1>3. CASE name \in DOMAIN Kinds
  <2>1. loop' = [Resting EXCEPT !.at = "room", !.kind = Kinds[name]]
    BY <1>3 DEF Execute
  <2>2. Kinds[name] \in {"terminal", "files"}
    BY <1>3 DEF Kinds
  <2> HIDE DEF name
  <2>3. LoopGood(loop') /\ loop'.pid = None /\ loop'.at = "room"
    BY <1>2, <2>1, <2>2
       DEF Resting, LoopGood, Loops, Lines, Blank, Places, Opening, Claiming, Closing
  <2> QED
    BY <1>1, <2>3, AtRest DEF Claiming
<1>4. CASE name \notin DOMAIN Kinds /\ name = "wmclose" /\ d.win[loop.line[2]].used
  <2>1. loop' = [Resting EXCEPT !.at = "shut", !.i = loop.line[2]]
    BY <1>4 DEF Execute
  <2>2. loop.line[2] \in Windows
    <3>1. loop.line \in Lines
      BY DEF Types, LoopGood, Loops
    <3>2. loop.line \in Commands
      BY <1>4, <3>1 DEF Lines, Blank, Torn
    <3> QED
      BY <1>4, <3>2, DesktopAssumption
  <2>3. LoopGood(loop') /\ loop'.pid = None /\ loop'.at = "shut" /\ loop'.i = loop.line[2]
    BY <1>2, <2>1, <2>2
       DEF Resting, LoopGood, Loops, Lines, Blank, Places, Opening, Claiming, Closing
  <2> QED
    BY <1>1, <1>4, <2>3, AtRest DEF Claiming
<1>5. CASE name \notin DOMAIN Kinds /\ ~(name = "wmclose" /\ d.win[loop.line[2]].used)
  <2>1. loop' = Resting
    BY <1>5 DEF Execute
  <2>2. LoopGood(loop') /\ loop'.pid = None /\ loop'.at = "top"
    BY <1>2, <2>1
       DEF Resting, LoopGood, Loops, Lines, Blank, Places, Opening, Claiming, Closing
  <2> QED
    BY <1>1, <2>2, AtRest DEF Claiming
<1> QED
  BY <1>3, <1>4, <1>5

LEMMA RescanKeeps ==
    ASSUME Types, Rescan
    PROVE  Kept
<1>1. loop.pid = None /\ d \in Desktops /\ loop.at = "rescan" /\ d' = d
  BY DEF Types, LoopGood, Rescan, At, Opening, Claiming
<1>2. CASE loop.i = Max
  <2>1. Finish
    BY <1>2 DEF Rescan
  <2> QED
    BY <1>1, <2>1, FinishFacts, AtRest DEF Claiming
<1>3. CASE loop.i # Max
  <2>1. loop.i \in Windows /\ loop.i + 1 \in 0..Max
    BY <1>3, DesktopAssumption DEF Types, LoopGood, Loops, Windows
  <2>2. CASE d.win[loop.i].used
    <3>1. LoopGood(loop') /\ loop'.pid = None /\ loop'.at = "pick" /\ loop'.i = loop.i
      BY <1>1, <1>3, <2>1, <2>2
         DEF Rescan, Go, Types, LoopGood, Loops, Places, Opening, Claiming, Closing
    <3> QED
      BY <1>1, <2>2, <3>1, AtRest DEF Claiming
  <2>3. CASE ~d.win[loop.i].used
    <3>1. LoopGood(loop') /\ loop'.pid = None /\ loop'.at = "rescan"
      BY <1>1, <1>3, <2>1, <2>3
         DEF Rescan, Proceed, Types, LoopGood, Loops, Places, Opening, Claiming, Closing
    <3> QED
      BY <1>1, <3>1, AtRest DEF Claiming
  <2> QED
    BY <2>2, <2>3
<1> QED
  BY <1>2, <1>3

\* An application is spawned for the terminal to come.
LEMMA SpawnKeeps ==
    ASSUME Types, Spawn
    PROVE  Kept
<1>1. loop.pid = None /\ d \in Desktops /\ loop.at = "spawn"
  BY DEF Types, LoopGood, Spawn, At, Opening, Claiming
<1>2. CASE loop.i = Max
  <2>1. Finish /\ d' = d
    BY <1>2 DEF Spawn
  <2> QED
    BY <1>1, <2>1, FinishFacts, AtRest DEF Claiming
<1>3. CASE loop.i # Max
  <2>1. loop.i \in Windows /\ loop.i \in Pids /\ loop.i + 1 \in 0..Max /\ 0 \in 0..Max
    BY <1>3, DesktopAssumption DEF Types, LoopGood, Loops, Windows, Pids
  <2>2. CASE d.procs[loop.i].used
    <3>1. LoopGood(loop') /\ loop'.pid = None /\ loop'.at = "spawn" /\ d' = d
      BY <1>1, <1>3, <2>1, <2>2
         DEF Spawn, Proceed, Types, LoopGood, Loops, Places, Opening, Claiming, Closing
    <3> QED
      BY <1>1, <3>1, AtRest DEF Claiming
  <2>3. CASE ~d.procs[loop.i].used
    <3>1. LoopGood(loop') /\ loop'.pid = loop.i /\ loop'.at = "room"
      <4>1. loop' = [loop EXCEPT !.at = "room", !.pid = loop.i, !.i = 0]
        BY <1>3, <2>3 DEF Spawn
      <4>2. loop \in Loops /\ loop.kind = "terminal" /\ loop.i \in Pids
        BY <1>1, <2>1 DEF Types, LoopGood
      <4>3. loop' \in Loops
        BY <2>1, <4>1, <4>2 DEF Loops, Places, Opening
      <4>4. loop'.at = "room" /\ loop'.pid = loop.i /\ loop'.kind = "terminal"
        BY <4>1, <4>2 DEF Loops
      <4> QED
        BY <4>3, <4>4 DEF LoopGood, Opening, Claiming, Closing
    <3>2. d' = Spawned(d, loop.i)
      BY <1>3, <2>3 DEF Spawn
    <3>3. /\ d' \in Desktops /\ d'.win = d.win /\ d'.count = d.count /\ d'.focus = d.focus
          /\ \A q \in Pids : d'.procs[q].used => d.procs[q].used \/ q = loop.i
      BY <1>1, <2>1, <3>2, SpawnedFacts
    <3>4. Open(d') = Open(d) /\ \A q : Terminals(d', q) = Terminals(d, q)
      BY <3>3 DEF Open, Terminals
    <3>5. CountGood(d, loop) => CountGood(d', loop')
      BY <1>1, <3>1, <3>3, <3>4 DEF CountGood
    <3>6. FocusGood(d, loop) => FocusGood(d', loop')
      BY <1>1, <3>1, <3>3 DEF FocusGood
    <3>7. AppsGood(d, loop) => AppsGood(d', loop')
      BY <1>1, <3>1, <3>3, <3>4, NoneIsNoWindow DEF AppsGood, Hosted, Claiming
    <3> QED
      BY <3>1, <3>3, <3>5, <3>6, <3>7 DEF Kept
  <2> QED
    BY <2>2, <2>3
<1> QED
  BY <1>2, <1>3

\* An opening without room ends, and its application with it.
LEMMA NoWindowKeeps ==
    ASSUME Types, NoWindow, loop.at \in {"room", "scan"}
    PROVE  Kept
<1>1. d \in Desktops /\ loop.pid \in Pids \cup {None}
  BY DEF Types, LoopGood, Loops
<1>2. LoopGood(loop') /\ loop'.at \in {"top", "apps"} /\ loop'.pid = None
  BY FinishFacts DEF NoWindow
<1>3. /\ d' \in Desktops /\ d'.win = d.win /\ d'.count = d.count /\ d'.focus = d.focus
      /\ \A q \in Pids : d'.procs[q].used => d.procs[q].used /\ q # loop.pid
  <2>1. CASE loop.pid = None
    <3>1. d' = d
      BY <2>1 DEF NoWindow
    <3> QED
      BY <1>1, <2>1, <3>1, NoneIsNoWindow
  <2>2. CASE loop.pid # None
    <3>1. d' = Freed(d, loop.pid) /\ loop.pid \in Pids
      BY <1>1, <2>2 DEF NoWindow
    <3> QED
      BY <1>1, <3>1, FreedFacts
  <2> QED
    BY <2>1, <2>2
<1>4. Open(d') = Open(d) /\ \A q : Terminals(d', q) = Terminals(d, q)
  BY <1>3 DEF Open, Terminals
<1>5. CountGood(d, loop) => CountGood(d', loop')
  BY <1>2, <1>3, <1>4 DEF CountGood
<1>6. FocusGood(d, loop) => FocusGood(d', loop')
  BY <1>2, <1>3 DEF FocusGood
<1>7. AppsGood(d, loop) => AppsGood(d', loop')
  BY <1>2, <1>3, <1>4 DEF AppsGood, Hosted, Claiming
<1> QED
  BY <1>2, <1>3, <1>5, <1>6, <1>7 DEF Kept

LEMMA LookForRoomKeeps ==
    ASSUME Types, LookForRoom
    PROVE  Kept
<1>1. loop.at = "room" /\ d \in Desktops
  BY DEF LookForRoom, At, Types
<1>2. CASE d.count >= Max
  BY <1>1, <1>2, NoWindowKeeps DEF LookForRoom
<1>3. CASE ~(d.count >= Max)
  <2>1. d' = d /\ loop' = [loop EXCEPT !.at = "scan", !.seen = d.count]
    BY <1>3 DEF LookForRoom
  <2>2. d.count \in 0..(Max - 1)
    BY <1>1, <1>3, DesktopAssumption DEF Desktops
  <2>3. LoopGood(loop') /\ loop'.at = "scan" /\ loop'.seen = d.count /\ loop'.pid = loop.pid
    BY <1>1, <2>1, <2>2 DEF Types, LoopGood, Loops, Places, Opening, Claiming, Closing
  <2>4. CountGood(d, loop) => CountGood(d', loop')
    BY <1>1, <2>1, <2>3 DEF CountGood
  <2>5. FocusGood(d, loop) => FocusGood(d', loop')
    BY <1>1, <2>1, <2>3 DEF FocusGood
  <2>6. AppsGood(d, loop) => AppsGood(d', loop')
    BY <1>1, <2>1, <2>3 DEF AppsGood, Hosted, Claiming
  <2> QED
    BY <1>1, <2>1, <2>3, <2>4, <2>5, <2>6 DEF Kept
<1> QED
  BY <1>2, <1>3

LEMMA ScanKeeps ==
    ASSUME Types, Scan
    PROVE  Kept
<1>1. loop.at = "scan" /\ d \in Desktops
  BY DEF Scan, At, Types
<1>2. CASE loop.i = Max
  BY <1>1, <1>2, NoWindowKeeps DEF Scan
<1>3. CASE loop.i # Max
  <2>1. loop.i \in Windows /\ loop.i + 1 \in 0..Max
    BY <1>3, DesktopAssumption DEF Types, LoopGood, Loops, Windows
  <2>2. d' = d
    BY <1>3 DEF Scan
  <2>3. /\ LoopGood(loop') /\ loop'.seen = loop.seen /\ loop'.pid = loop.pid
        /\ loop'.at = "scan" \/ (loop'.at = "claim" /\ loop'.i = loop.i /\ ~d.win[loop.i].used)
    BY <1>1, <1>3, <2>1
       DEF Scan, Go, Proceed, Types, LoopGood, Loops, Places, Opening, Claiming, Closing
  <2>4. CountGood(d, loop) => CountGood(d', loop')
    BY <1>1, <2>2, <2>3 DEF CountGood
  <2>5. FocusGood(d, loop) => FocusGood(d', loop')
    BY <1>1, <2>2, <2>3 DEF FocusGood
  <2>6. AppsGood(d, loop) => AppsGood(d', loop')
    BY <1>1, <2>2, <2>3 DEF AppsGood, Hosted, Claiming
  <2> QED
    BY <1>1, <2>2, <2>3, <2>4, <2>5, <2>6 DEF Kept
<1> QED
  BY <1>2, <1>3

\* From one write of an opening, a closing or a choice of focus to the next.
LEMMA GoFacts ==
    ASSUME Types, NEW place \in (Claiming \cup Closing), Go(place), loop.at \in Claiming \cup Closing,
           place \in Claiming <=> loop.at \in Claiming
    PROVE  /\ LoopGood(loop') /\ loop'.at = place /\ loop.i \in Windows /\ loop'.i = loop.i
           /\ loop'.seen = loop.seen /\ loop'.pid = loop.pid /\ loop'.kind = loop.kind
  BY DEF Go, Types, LoopGood, Loops, Places, Opening, Claiming, Closing

LEMMA ClaimKeeps ==
    ASSUME Types, Claim
    PROVE  Kept
<1> DEFINE i == loop.i
<1>1. loop.at = "claim" /\ d' = Claimed(d, i) /\ Go("focus") /\ d \in Desktops
  BY DEF Claim, At, Types
<1>2. /\ LoopGood(loop') /\ loop'.at = "focus" /\ i \in Windows /\ loop'.i = i
      /\ loop'.seen = loop.seen /\ loop'.pid = loop.pid
  BY <1>1, GoFacts DEF Claiming, Closing
<1>3. /\ d' \in Desktops /\ d'.count = d.count /\ d'.focus = d.focus /\ d'.procs = d.procs
      /\ \A j \in Windows \ {i} : d'.win[j] = d.win[j]
      /\ d'.win[i].used /\ d'.win[i].term = d.win[i].term
  BY <1>1, <1>2, ClaimedFacts DEF Differs
<1>4. CountGood(d, loop) => CountGood(d', loop')
  <2>1. ~d.win[i].used => Cardinality(Open(d')) = Cardinality(Open(d)) + 1
    BY <1>2, <1>3, OneMore
  <2> QED
    BY <1>1, <1>2, <1>3, <2>1 DEF CountGood
<1>5. FocusGood(d, loop) => FocusGood(d', loop')
  <2>1. d.focus # None => d.focus \in Windows
    BY <1>1 DEF Desktops
  <2> QED
    BY <1>1, <1>2, <1>3, <2>1 DEF FocusGood
<1>6. ASSUME AppsGood(d, loop)
      PROVE  AppsGood(d', loop')
  <2>1. ~d.win[i].used /\ \A j \in Windows : d.win[j].term => d.win[j].used
    BY <1>1, <1>6 DEF AppsGood
  <2>2. \A q : Terminals(d, q) \subseteq Terminals(d', q)
    BY <1>3, <2>1 DEF Terminals
  <2>3. \A q \in Pids : d'.procs[q].used => Hosted(d', loop', q)
    BY <1>1, <1>2, <1>3, <1>6, <2>2 DEF AppsGood, Hosted
  <2> QED
    BY <1>2, <1>3, <2>1, <2>3 DEF AppsGood, Claiming
<1> QED
  BY <1>2, <1>3, <1>4, <1>5, <1>6 DEF Kept

LEMMA FocusKeeps ==
    ASSUME Types, Focus
    PROVE  Kept
<1>1. loop.at = "focus" /\ d' = Focused(d, loop.i) /\ Go("count") /\ d \in Desktops
  BY DEF Focus, At, Types
<1>2. /\ LoopGood(loop') /\ loop'.at = "count" /\ loop.i \in Windows /\ loop'.i = loop.i
      /\ loop'.seen = loop.seen /\ loop'.pid = loop.pid
  BY <1>1, GoFacts DEF Claiming, Closing
<1>3. d' \in Desktops /\ d'.focus = loop.i /\ d'.win = d.win /\ d'.count = d.count /\ d'.procs = d.procs
  BY <1>1, <1>2, FocusFacts
<1>4. Open(d') = Open(d) /\ \A q : Terminals(d', q) = Terminals(d, q)
  BY <1>3 DEF Open, Terminals
<1>5. CountGood(d, loop) => CountGood(d', loop')
  BY <1>1, <1>2, <1>3, <1>4 DEF CountGood
<1>6. FocusGood(d, loop) => FocusGood(d', loop')
  BY <1>1, <1>2, <1>3 DEF FocusGood
<1>7. AppsGood(d, loop) => AppsGood(d', loop')
  BY <1>1, <1>2, <1>3, <1>4 DEF AppsGood, Hosted, Claiming
<1> QED
  BY <1>2, <1>3, <1>5, <1>6, <1>7 DEF Kept

LEMMA CountKeeps ==
    ASSUME Types, Count
    PROVE  Kept
<1>1. loop.at = "count" /\ d' = Counted(d, loop.seen + 1) /\ Go("type") /\ d \in Desktops
  BY DEF Count, At, Types
<1>2. LoopGood(loop') /\ loop'.at = "type" /\ loop.i \in Windows /\ loop'.i = loop.i /\ loop'.pid = loop.pid
  BY <1>1, GoFacts DEF Claiming, Closing
<1>3. loop.seen + 1 \in 0..(CountWords - 1)
  BY DesktopAssumption DEF Types, LoopGood, Loops
<1>4. d' \in Desktops /\ d'.count = loop.seen + 1 /\ d'.win = d.win /\ d'.focus = d.focus /\ d'.procs = d.procs
  BY <1>1, <1>3, CountFacts
<1>5. Open(d') = Open(d) /\ \A q : Terminals(d', q) = Terminals(d, q)
  BY <1>4 DEF Open, Terminals
<1>6. CountGood(d, loop) => CountGood(d', loop')
  BY <1>1, <1>2, <1>4, <1>5 DEF CountGood
<1>7. FocusGood(d, loop) => FocusGood(d', loop')
  BY <1>1, <1>2, <1>4 DEF FocusGood
<1>8. AppsGood(d, loop) => AppsGood(d', loop')
  BY <1>1, <1>2, <1>4, <1>5 DEF AppsGood, Hosted, Claiming
<1> QED
  BY <1>2, <1>4, <1>6, <1>7, <1>8 DEF Kept

\* A write to the window in hand that opens or closes nothing.
LEMMA InHand ==
    ASSUME d \in Desktops, LoopGood(loop), LoopGood(loop'), loop.i \in Windows, loop'.i = loop.i,
           Differs(d, d', loop.i), d'.win[loop.i].used = d.win[loop.i].used,
           \/ loop.at \in {"type", "content", "term"} /\ loop'.at \in {"content", "term", "top", "apps"}
           \/ loop.at = "unterm" /\ loop'.at = "unhost"
           \/ loop.at = "blank" /\ loop'.at = "uncount"
    PROVE  /\ CountGood(d, loop) => CountGood(d', loop')
           /\ FocusGood(d, loop) => FocusGood(d', loop')
<1>1. Open(d') = Open(d)
  BY SameOpen DEF Differs
<1>2. \A j \in Windows : d'.win[j].used = d.win[j].used
  BY DEF Differs
<1>3. d.focus # None => d.focus \in Windows
  BY DEF Desktops
<1>4. CountGood(d, loop) => CountGood(d', loop')
  BY <1>1 DEF CountGood, Differs
<1>5. FocusGood(d, loop) => FocusGood(d', loop')
  BY <1>2, <1>3 DEF FocusGood, Differs
<1> QED
  BY <1>4, <1>5

LEMMA SetTypeKeeps ==
    ASSUME Types, SetType
    PROVE  Kept
<1> DEFINE i == loop.i
<1>1. loop.at = "type" /\ d' = Typed(d, i, loop.kind) /\ Go("content") /\ d \in Desktops
      /\ LoopGood(loop) /\ loop.kind \in {"terminal", "files"}
  BY DEF SetType, At, Types, LoopGood, Opening, Claiming
<1>2. /\ LoopGood(loop') /\ loop'.at = "content" /\ i \in Windows /\ loop'.i = i
      /\ loop'.pid = loop.pid /\ loop'.kind = loop.kind
  BY <1>1, GoFacts DEF Claiming, Closing
<1>3. /\ Differs(d, d', i) /\ d'.win[i].type = loop.kind
      /\ d'.win[i].used = d.win[i].used /\ d'.win[i].term = d.win[i].term
  BY <1>1, <1>2, TypedFacts
<1>4. /\ CountGood(d, loop) => CountGood(d', loop')
      /\ FocusGood(d, loop) => FocusGood(d', loop')
  BY <1>1, <1>2, <1>3, InHand
<1>5. ASSUME AppsGood(d, loop)
      PROVE  AppsGood(d', loop')
  <2>1. d.win[i].used /\ ~d.win[i].term
    BY <1>1, <1>5 DEF AppsGood, Claiming
  <2>2. \A q : Terminals(d, q) \subseteq Terminals(d', q)
    BY <1>3, <2>1 DEF Terminals, Differs
  <2>3. \A q \in Pids : d'.procs[q].used => Hosted(d', loop', q)
    BY <1>1, <1>2, <1>3, <1>5, <2>2 DEF AppsGood, Hosted, Differs
  <2>4. \A j \in Windows : d'.win[j].term => d'.win[j].used
    BY <1>1, <1>3, <1>5, <2>1 DEF AppsGood, Differs
  <2> QED
    BY <1>2, <1>3, <2>1, <2>3, <2>4 DEF AppsGood, Claiming
<1> QED
  BY <1>2, <1>3, <1>4, <1>5 DEF Kept, Differs

LEMMA SetContentKeeps ==
    ASSUME Types, SetContent
    PROVE  Kept
<1> DEFINE i == loop.i
           cid == IF loop.pid = None THEN i ELSE loop.pid
<1>1. loop.at = "content" /\ d' = Holding(d, i, cid) /\ Go("term") /\ d \in Desktops /\ LoopGood(loop)
  BY DEF SetContent, At, Types
<1>2. /\ LoopGood(loop') /\ loop'.at = "term" /\ i \in Windows /\ loop'.i = i
      /\ loop'.pid = loop.pid /\ loop'.kind = loop.kind
  BY <1>1, GoFacts DEF Claiming, Closing
<1>3. cid \in Windows
  BY <1>1, <1>2 DEF LoopGood, Loops, Pids
<1>4. loop.pid # None => cid = loop.pid
  OBVIOUS
<1> HIDE DEF cid
<1>5. /\ Differs(d, d', i) /\ d'.win[i].type = d.win[i].type /\ d'.win[i].cid = cid
      /\ d'.win[i].used = d.win[i].used /\ d'.win[i].term = d.win[i].term
  BY <1>1, <1>2, <1>3, HoldingFacts
<1>6. /\ CountGood(d, loop) => CountGood(d', loop')
      /\ FocusGood(d, loop) => FocusGood(d', loop')
  BY <1>1, <1>2, <1>5, InHand
<1>7. ASSUME AppsGood(d, loop)
      PROVE  AppsGood(d', loop')
  <2>1. d.win[i].used /\ ~d.win[i].term /\ d.win[i].type = loop.kind
    BY <1>1, <1>7 DEF AppsGood, Claiming
  <2>2. \A q : Terminals(d, q) \subseteq Terminals(d', q)
    BY <1>5, <2>1 DEF Terminals, Differs
  <2>3. \A q \in Pids : d'.procs[q].used => Hosted(d', loop', q)
    BY <1>1, <1>2, <1>5, <1>7, <2>2 DEF AppsGood, Hosted, Differs
  <2>4. \A j \in Windows : d'.win[j].term => d'.win[j].used
    BY <1>1, <1>5, <1>7, <2>1 DEF AppsGood, Differs
  <2> QED
    BY <1>2, <1>4, <1>5, <2>1, <2>3, <2>4 DEF AppsGood, Claiming
<1> QED
  BY <1>2, <1>5, <1>6, <1>7 DEF Kept, Differs

\* The opening is complete: a terminal shows its application.
LEMMA SetTermKeeps ==
    ASSUME Types, SetTerm
    PROVE  Kept
<1> DEFINE i == loop.i
<1>1. /\ loop.at = "term" /\ d' = Terminal(d, i, loop.kind) /\ d \in Desktops /\ LoopGood(loop)
      /\ loop.kind \in {"terminal", "files"} /\ i \in Windows
      /\ loop.pid # None => loop.kind = "terminal"
  BY DEF SetTerm, At, Types, LoopGood, Opening, Claiming
<1>2. LoopGood(loop') /\ loop'.at \in {"top", "apps"} /\ loop'.pid = None
  BY FinishFacts DEF SetTerm
<1>3. /\ Differs(d, d', i) /\ d'.win[i].type = d.win[i].type /\ d'.win[i].cid = d.win[i].cid
      /\ d'.win[i].used = d.win[i].used
      /\ loop.kind = "terminal" => d'.win[i].term
  BY <1>1, TerminalFacts
<1>4. Open(d') = Open(d) /\ d'.count = d.count /\ d'.focus = d.focus
  BY <1>3, SameOpen DEF Differs
<1>5. CountGood(d, loop) => CountGood(d', loop')
  BY <1>1, <1>2, <1>4 DEF CountGood
<1>6. FocusGood(d, loop) => FocusGood(d', loop')
  <2>1. d.focus # None => d'.win[d.focus].used = d.win[d.focus].used
    BY <1>1, <1>3 DEF Differs, Desktops
  <2> QED
    BY <1>1, <1>2, <1>4, <2>1 DEF FocusGood
<1>7. ASSUME AppsGood(d, loop)
      PROVE  AppsGood(d', loop')
  <2>1. d.win[i].used /\ ~d.win[i].term /\ d.win[i].type = loop.kind
        /\ (loop.pid # None => d.win[i].cid = loop.pid)
    BY <1>1, <1>7 DEF AppsGood, Claiming
  <2>2. \A q : Terminals(d, q) \subseteq Terminals(d', q)
    BY <1>3, <2>1 DEF Terminals, Differs
  <2>3. loop.pid # None => i \in Terminals(d', loop.pid)
    BY <1>1, <1>3, <2>1 DEF Terminals
  <2>4. \A q \in Pids : d'.procs[q].used => Terminals(d', q) # {}
    BY <1>1, <1>3, <1>7, <2>2, <2>3, NoneIsNoWindow DEF AppsGood, Hosted, Differs
  <2>5. \A j \in Windows : d'.win[j].term => d'.win[j].used
    BY <1>1, <1>3, <1>7, <2>1 DEF AppsGood, Differs
  <2> QED
    BY <1>2, <2>4, <2>5 DEF AppsGood, Hosted, Claiming
<1> QED
  BY <1>2, <1>3, <1>5, <1>6, <1>7 DEF Kept, Differs

LEMMA RunAppKeeps ==
    ASSUME Types, RunApp
    PROVE  Kept
<1> DEFINE i == loop.i
           proc == d.procs[i]
<1>1. /\ loop.at = "apps" /\ d \in Desktops /\ LoopGood(loop) /\ loop.pid = None
      /\ i \in Windows /\ i \in Pids
  BY DEF RunApp, At, Types, LoopGood, Opening, Claiming, Pids
<1>2. d' = [d EXCEPT !.procs[i] = Turn(proc)]
  BY <1>1 DEF RunApp, Desktops
<1>3. proc \in Processes
  BY <1>1 DEF Desktops
<1>4. LoopGood(loop') /\ loop'.pid = None /\ loop'.at \in {"cmd", "apps"}
  <2>1. 0 \in Windows /\ 0 \in 0..Max /\ 0 \in 0..(Max - 1)
    BY DesktopAssumption DEF Windows
  <2>2. CASE i + 1 = Max
    BY <2>1, <2>2
       DEF RunApp, Resting, LoopGood, Loops, Lines, Blank, Places, Opening, Claiming, Closing
  <2>3. CASE i + 1 # Max
    <3>1. i + 1 \in Windows /\ i + 1 \in 0..Max
      BY <1>1, <2>3, DesktopAssumption DEF Windows
    <3>2. loop' = [loop EXCEPT !.i = i + 1]
      BY <2>3 DEF RunApp
    <3> QED
      BY <1>1, <3>1, <3>2 DEF LoopGood, Loops, Opening, Claiming, Closing
  <2> QED
    BY <2>2, <2>3
<1> HIDE DEF proc
<1>5. Turn(proc) \in Processes /\ Turn(proc).used = proc.used
  <2>1. CASE ~proc.used \/ proc.started
    <3> DEFINE n == IF proc.lines = 0 THEN 0 ELSE proc.lines - 1
    <3>1. n \in 0..MaxLines
      BY <1>3, DesktopAssumption DEF Processes
    <3>2. Turn(proc) = proc \/ Turn(proc) = [proc EXCEPT !.lines = n]
      BY <2>1 DEF Turn
    <3> HIDE DEF n
    <3> QED
      BY <1>3, <3>1, <3>2 DEF Processes
  <2>2. CASE proc.used /\ ~proc.started
    BY <1>3, <2>2 DEF Turn, Processes
  <2> QED
    BY <2>1, <2>2
<1>6. /\ d' \in Desktops /\ d'.win = d.win /\ d'.count = d.count /\ d'.focus = d.focus
      /\ \A q \in Pids : d'.procs[q].used => d.procs[q].used
  BY <1>1, <1>2, <1>5, ProcessPut DEF proc
<1>7. Open(d') = Open(d) /\ \A q : Terminals(d', q) = Terminals(d, q)
  BY <1>6 DEF Open, Terminals
<1>8. CountGood(d, loop) => CountGood(d', loop')
  BY <1>1, <1>4, <1>6, <1>7 DEF CountGood
<1>9. FocusGood(d, loop) => FocusGood(d', loop')
  BY <1>1, <1>4, <1>6 DEF FocusGood
<1>10. AppsGood(d, loop) => AppsGood(d', loop')
  BY <1>1, <1>4, <1>6, <1>7 DEF AppsGood, Hosted, Claiming
<1> QED
  BY <1>4, <1>6, <1>8, <1>9, <1>10 DEF Kept

LEMMA ShutWindowKeeps ==
    ASSUME Types, ShutWindow
    PROVE  Kept
<1> DEFINE i == loop.i
<1>1. loop.at = "shut" /\ d' = Shut(d, i) /\ Go("unterm") /\ d \in Desktops
  BY DEF ShutWindow, At, Types
<1>2. LoopGood(loop') /\ loop'.at = "unterm" /\ i \in Windows /\ loop'.i = i /\ loop'.pid = loop.pid
  BY <1>1, GoFacts DEF Claiming, Closing
<1>3. /\ d' \in Desktops /\ d'.count = d.count /\ d'.focus = d.focus /\ d'.procs = d.procs
      /\ \A j \in Windows \ {i} : d'.win[j] = d.win[j]
      /\ ~d'.win[i].used /\ d'.win[i].type = d.win[i].type /\ d'.win[i].cid = d.win[i].cid
  BY <1>1, <1>2, ShutFacts DEF Differs
<1>4. CountGood(d, loop) => CountGood(d', loop')
  <2>1. d.win[i].used => Cardinality(Open(d')) + 1 = Cardinality(Open(d))
    BY <1>2, <1>3, OneLess
  <2> QED
    BY <1>1, <1>2, <1>3, <2>1 DEF CountGood
<1>5. FocusGood(d, loop) => FocusGood(d', loop')
  <2>1. d.focus # None => d.focus \in Windows
    BY <1>1 DEF Desktops
  <2> QED
    BY <1>1, <1>2, <1>3, <2>1 DEF FocusGood
<1>6. ASSUME AppsGood(d, loop)
      PROVE  AppsGood(d', loop')
  <2>1. \A q : \A j \in Terminals(d, q) :
            j \in Terminals(d', q) \/ (d'.win[i].type = "terminal" /\ d'.win[i].cid = q)
    BY <1>3 DEF Terminals
  <2>2. \A q \in Pids : d'.procs[q].used => Hosted(d', loop', q)
    BY <1>1, <1>2, <1>3, <1>6, <2>1 DEF AppsGood, Hosted
  <2>3. \A j \in Windows : d'.win[j].term => d'.win[j].used \/ j = i
    BY <1>1, <1>3, <1>6 DEF AppsGood
  <2> QED
    BY <1>2, <1>3, <2>2, <2>3 DEF AppsGood, Claiming
<1> QED
  BY <1>2, <1>3, <1>4, <1>5, <1>6 DEF Kept

LEMMA ClearTermKeeps ==
    ASSUME Types, ClearTerm
    PROVE  Kept
<1> DEFINE i == loop.i
<1>1. loop.at = "unterm" /\ d' = Unterm(d, i) /\ Go("unhost") /\ d \in Desktops /\ LoopGood(loop)
  BY DEF ClearTerm, At, Types
<1>2. LoopGood(loop') /\ loop'.at = "unhost" /\ i \in Windows /\ loop'.i = i /\ loop'.pid = loop.pid
  BY <1>1, GoFacts DEF Claiming, Closing
<1>3. /\ Differs(d, d', i) /\ ~d'.win[i].term /\ d'.win[i].used = d.win[i].used
      /\ d'.win[i].type = d.win[i].type /\ d'.win[i].cid = d.win[i].cid
  BY <1>1, <1>2, UntermFacts
<1>4. /\ CountGood(d, loop) => CountGood(d', loop')
      /\ FocusGood(d, loop) => FocusGood(d', loop')
  BY <1>1, <1>2, <1>3, InHand
<1>5. ASSUME AppsGood(d, loop)
      PROVE  AppsGood(d', loop')
  <2>1. ~d.win[i].used
    BY <1>1, <1>5 DEF AppsGood
  <2>2. \A q : Terminals(d, q) \subseteq Terminals(d', q)
    BY <1>3, <2>1 DEF Terminals, Differs
  <2>3. \A q \in Pids : d'.procs[q].used => Hosted(d', loop', q)
    BY <1>1, <1>2, <1>3, <1>5, <2>2 DEF AppsGood, Hosted, Differs
  <2>4. \A j \in Windows : d'.win[j].term => d'.win[j].used
    BY <1>1, <1>3, <1>5 DEF AppsGood, Differs
  <2> QED
    BY <1>2, <1>3, <2>1, <2>3, <2>4 DEF AppsGood, Claiming
<1> QED
  BY <1>2, <1>3, <1>4, <1>5 DEF Kept, Differs

\* The application of the terminal ends.
LEMMA FreeAppKeeps ==
    ASSUME Types, FreeApp
    PROVE  Kept
<1> DEFINE i == loop.i
<1>1. loop.at = "unhost" /\ d' = Unhosted(d, i) /\ Go("blank") /\ d \in Desktops
  BY DEF FreeApp, At, Types
<1>2. LoopGood(loop') /\ loop'.at = "blank" /\ i \in Windows /\ loop'.i = i /\ loop'.pid = loop.pid
  BY <1>1, GoFacts DEF Claiming, Closing
<1>3. /\ d' \in Desktops /\ d'.win = d.win /\ d'.count = d.count /\ d'.focus = d.focus
      /\ \A q \in Pids : d'.procs[q].used =>
            d.procs[q].used /\ ~(d.win[i].type = "terminal" /\ q = d.win[i].cid)
  BY <1>1, <1>2, UnhostFacts
<1>4. Open(d') = Open(d) /\ \A q : Terminals(d', q) = Terminals(d, q)
  BY <1>3 DEF Open, Terminals
<1>5. CountGood(d, loop) => CountGood(d', loop')
  BY <1>1, <1>2, <1>3, <1>4 DEF CountGood
<1>6. FocusGood(d, loop) => FocusGood(d', loop')
  BY <1>1, <1>2, <1>3 DEF FocusGood
<1>7. ASSUME AppsGood(d, loop)
      PROVE  AppsGood(d', loop')
  <2>1. \A q \in Pids : d'.procs[q].used => Hosted(d', loop', q)
    BY <1>1, <1>2, <1>3, <1>4, <1>7 DEF AppsGood, Hosted
  <2> QED
    BY <1>1, <1>2, <1>3, <1>7, <2>1 DEF AppsGood, Claiming
<1> QED
  BY <1>2, <1>3, <1>5, <1>6, <1>7 DEF Kept

LEMMA ClearTypeKeeps ==
    ASSUME Types, ClearType
    PROVE  Kept
<1> DEFINE i == loop.i
<1>1. loop.at = "blank" /\ d' = Blanked(d, i) /\ Go("uncount") /\ d \in Desktops /\ LoopGood(loop)
  BY DEF ClearType, At, Types
<1>2. LoopGood(loop') /\ loop'.at = "uncount" /\ i \in Windows /\ loop'.i = i /\ loop'.pid = loop.pid
  BY <1>1, GoFacts DEF Claiming, Closing
<1>3. Differs(d, d', i) /\ d'.win[i].used = d.win[i].used /\ d'.win[i].term = d.win[i].term
  BY <1>1, <1>2, BlankedFacts
<1>4. /\ CountGood(d, loop) => CountGood(d', loop')
      /\ FocusGood(d, loop) => FocusGood(d', loop')
  BY <1>1, <1>2, <1>3, InHand
<1>5. ASSUME AppsGood(d, loop)
      PROVE  AppsGood(d', loop')
  <2>1. ~d.win[i].used
    BY <1>1, <1>5 DEF AppsGood
  <2>2. \A q : Terminals(d, q) \subseteq Terminals(d', q)
    BY <1>3, <2>1 DEF Terminals, Differs
  <2>3. \A q \in Pids : d'.procs[q].used => Hosted(d', loop', q)
    BY <1>1, <1>2, <1>3, <1>5, <2>2 DEF AppsGood, Hosted, Differs
  <2>4. \A j \in Windows : d'.win[j].term => d'.win[j].used
    BY <1>1, <1>3, <1>5 DEF AppsGood, Differs
  <2> QED
    BY <1>2, <2>3, <2>4 DEF AppsGood, Claiming
<1> QED
  BY <1>2, <1>3, <1>4, <1>5 DEF Kept, Differs

LEMMA UncountKeeps ==
    ASSUME Types, Uncount
    PROVE  Kept
<1>1. loop.at = "uncount" /\ d' = Uncounted(d) /\ Go("refocus") /\ d \in Desktops
  BY DEF Uncount, At, Types
<1>2. LoopGood(loop') /\ loop'.at = "refocus" /\ loop.i \in Windows /\ loop'.i = loop.i /\ loop'.pid = loop.pid
  BY <1>1, GoFacts DEF Claiming, Closing
<1>3. /\ d' \in Desktops /\ d'.win = d.win /\ d'.focus = d.focus /\ d'.procs = d.procs
      /\ d.count > 0 => d'.count + 1 = d.count
  BY <1>1, UncountFacts
<1>4. Open(d') = Open(d) /\ \A q : Terminals(d', q) = Terminals(d, q)
  BY <1>3 DEF Open, Terminals
<1>5. CountGood(d, loop) => CountGood(d', loop')
  <2>1. Cardinality(Open(d)) \in Nat
    BY Counting, DesktopAssumption DEF Open
  <2>2. d'.count \in Nat
    BY <1>3, DesktopAssumption DEF Desktops
  <2> QED
    BY <1>1, <1>2, <1>3, <1>4, <2>1, <2>2 DEF CountGood
<1>6. FocusGood(d, loop) => FocusGood(d', loop')
  BY <1>1, <1>2, <1>3 DEF FocusGood
<1>7. AppsGood(d, loop) => AppsGood(d', loop')
  BY <1>1, <1>2, <1>3, <1>4 DEF AppsGood, Hosted, Claiming
<1> QED
  BY <1>2, <1>3, <1>5, <1>6, <1>7 DEF Kept

LEMMA RefocusKeeps ==
    ASSUME Types, Refocus
    PROVE  Kept
<1>1. loop.at = "refocus" /\ d \in Desktops /\ LoopGood(loop) /\ loop.pid = None
  BY DEF Refocus, At, Types, LoopGood, Opening, Claiming
<1>2. CASE d.focus # loop.i
  <2>1. d' = d /\ Finish
    BY <1>2 DEF Refocus
  <2> QED
    BY <1>1, <1>2, <2>1, FinishFacts, AtRest DEF Claiming
<1>3. CASE d.focus = loop.i
  <2>1. d' = Focused(d, None) /\ loop' = [loop EXCEPT !.at = "rescan", !.i = 0]
    BY <1>3 DEF Refocus
  <2>2. 0 \in 0..Max
    BY DesktopAssumption
  <2>3. LoopGood(loop') /\ loop'.at = "rescan" /\ loop'.pid = None
    BY <1>1, <2>1, <2>2 DEF LoopGood, Loops, Places, Opening, Claiming, Closing
  <2>4. d' \in Desktops /\ d'.focus = None /\ d'.win = d.win /\ d'.count = d.count /\ d'.procs = d.procs
    BY <1>1, <2>1, FocusFacts
  <2>5. Open(d') = Open(d) /\ \A q : Terminals(d', q) = Terminals(d, q)
    BY <2>4 DEF Open, Terminals
  <2>6. CountGood(d, loop) => CountGood(d', loop')
    BY <1>1, <2>3, <2>4, <2>5 DEF CountGood
  <2>7. FocusGood(d, loop) => FocusGood(d', loop')
    BY <2>3, <2>4 DEF FocusGood
  <2>8. AppsGood(d, loop) => AppsGood(d', loop')
    BY <1>1, <2>3, <2>4, <2>5 DEF AppsGood, Hosted, Claiming
  <2> QED
    BY <2>3, <2>4, <2>6, <2>7, <2>8 DEF Kept
<1> QED
  BY <1>2, <1>3

LEMMA PickKeeps ==
    ASSUME Types, Pick
    PROVE  Kept
<1>1. /\ loop.at = "pick" /\ d \in Desktops /\ loop.pid = None /\ loop.i \in Windows
      /\ d' = Focused(d, loop.i)
  BY DEF Pick, At, Types, LoopGood, Opening, Claiming
<1>2. LoopGood(loop') /\ loop'.at \in {"top", "apps"} /\ loop'.pid = None
  BY FinishFacts DEF Pick
<1>3. d' \in Desktops /\ d'.focus = loop.i /\ d'.win = d.win /\ d'.count = d.count /\ d'.procs = d.procs
  BY <1>1, FocusFacts
<1>4. Open(d') = Open(d) /\ \A q : Terminals(d', q) = Terminals(d, q)
  BY <1>3 DEF Open, Terminals
<1>5. CountGood(d, loop) => CountGood(d', loop')
  BY <1>1, <1>2, <1>3, <1>4 DEF CountGood
<1>6. FocusGood(d, loop) => FocusGood(d', loop')
  BY <1>1, <1>2, <1>3 DEF FocusGood
<1>7. AppsGood(d, loop) => AppsGood(d', loop')
  BY <1>1, <1>2, <1>3, <1>4 DEF AppsGood, Hosted, Claiming
<1> QED
  BY <1>2, <1>3, <1>5, <1>6, <1>7 DEF Kept

LEMMA MainTypes ==
    ASSUME Types, Main
    PROVE  /\ menu' \in BOOLEAN /\ action' \in {"none", "terminal", "files"}
           /\ cmd' \in [ready : BOOLEAN, line : Lines] /\ upset' = upset
<1> USE DEF Types
<1>1. Untyped \in [ready : BOOLEAN, line : Lines]
  BY DEF Untyped, Lines
<1>2. CASE TakeAction \/ ClearAction \/ Spawn \/ MarkTaken
  BY <1>1, <1>2 DEF TakeAction, ClearAction, Spawn, MarkTaken
<1>3. CASE LookForRoom \/ Scan \/ Claim \/ Focus \/ Count \/ SetType \/ SetContent \/ SetTerm
  BY <1>3 DEF LookForRoom, Scan, Claim, Focus, Count, SetType, SetContent, SetTerm
<1>4. CASE RunApp \/ CopyHead \/ CopyTail \/ Execute
  BY <1>4 DEF RunApp, CopyHead, CopyTail, Execute
<1>5. CASE ShutWindow \/ ClearTerm \/ FreeApp \/ ClearType \/ Uncount \/ Refocus \/ Rescan \/ Pick
  BY <1>5 DEF ShutWindow, ClearTerm, FreeApp, ClearType, Uncount, Refocus, Rescan, Pick
<1> QED
  BY <1>2, <1>3, <1>4, <1>5 DEF Main

LEMMA MainKeeps ==
    ASSUME IInv, Main
    PROVE  IInv'
<1>1. Types
  BY DEF IInv
<1>2. Kept
  BY <1>1, TakeActionKeeps, ClearActionKeeps, SpawnKeeps, LookForRoomKeeps, ScanKeeps, ClaimKeeps,
     FocusKeeps, CountKeeps, SetTypeKeeps, SetContentKeeps, SetTermKeeps, RunAppKeeps, CopyKeeps,
     ExecuteKeeps, ShutWindowKeeps, ClearTermKeeps, FreeAppKeeps, ClearTypeKeeps, UncountKeeps,
     RefocusKeeps, RescanKeeps, PickKeeps DEF Main
<1>3. Types' /\ upset' = upset
  BY <1>1, <1>2, MainTypes DEF Kept, Types
<1> QED
  BY <1>2, <1>3 DEF IInv, Kept

-----------------------------------------------------------------------------
LEMMA InitKeeps ==
    Init => IInv
<1> SUFFICES ASSUME Init PROVE IInv
  OBVIOUS
<1> DEFINE term == [Closed EXCEPT !.used = TRUE, !.type = "terminal", !.term = TRUE]
           files == [Closed EXCEPT !.used = TRUE, !.type = "files", !.cid = 1]
<1>1. 0 \in Windows /\ 1 \in Windows /\ Max >= 2
  BY DesktopAssumption DEF Windows
<1>2. /\ term \in WindowStates /\ files \in WindowStates /\ Closed \in WindowStates
      /\ term.used /\ term.term /\ term.type = "terminal" /\ term.cid = 0
      /\ files.used /\ ~files.term /\ ~Closed.used /\ ~Closed.term
  BY <1>1 DEF Closed, WindowStates
<1>3. /\ d.win = [i \in Windows |-> IF i = 0 THEN term ELSE IF i = 1 THEN files ELSE Closed]
      /\ d.count = 2 /\ d.focus = 1
      /\ d.procs = [p \in Pids |-> [NoProc EXCEPT !.used = (p = 0)]]
      /\ d = [win |-> d.win, count |-> d.count, focus |-> d.focus, procs |-> d.procs]
  BY DEF Init
<1> HIDE DEF term, files
<1>4. d.procs \in [Pids -> Processes] /\ \A p \in Pids : d.procs[p].used => p = 0
  <2>1. ASSUME NEW p \in Pids
        PROVE  d.procs[p] \in Processes /\ (d.procs[p].used => p = 0)
    <3>1. PICK b \in BOOLEAN : b = (p = 0)
      OBVIOUS
    <3>2. d.procs[p] = [NoProc EXCEPT !.used = (p = 0)]
      BY <1>3, Zenon
    <3>3. d.procs[p] = [NoProc EXCEPT !.used = b]
      BY <3>1, <3>2, Zenon
    <3>4. d.procs[p] \in Processes /\ d.procs[p].used = b
      BY <3>3, NoProcTyped, Zenon
    <3> QED
      BY <3>1, <3>4, Zenon
  <2>2. DOMAIN d.procs = Pids /\ d.procs = [p \in Pids |-> d.procs[p]]
    BY <1>3, Zenon
  <2> QED
    BY <2>1, <2>2, Zenon
<1>5. d.win \in [Windows -> WindowStates]
  BY <1>2, <1>3
<1>6. d \in Desktops
  <2>1. d.count \in 0..(CountWords - 1) /\ d.focus \in Windows \cup {None}
    BY <1>1, <1>3, DesktopAssumption
  <2> QED
    BY <1>3, <1>4, <1>5, <2>1 DEF Desktops
<1>7. Cardinality(Open(d)) = 2
  <2>1. Open(d) = {0} \cup {1}
    BY <1>1, <1>2, <1>3 DEF Open
  <2>2. Cardinality({0}) = 1
    BY FS_Singleton
  <2>3. Cardinality({0} \cup {1}) = Cardinality({0}) + 1
    BY <1>1, Counting
  <2> QED
    BY <2>1, <2>2, <2>3
<1>8. 0 \in Terminals(d, 0)
  BY <1>1, <1>2, <1>3 DEF Terminals
<1>9. loop = Resting /\ menu \in BOOLEAN /\ action \in {"none", "terminal", "files"} /\ cmd = Untyped
  BY DEF Init
<1>10. LoopGood(loop) /\ loop.at = "top"
  <2>1. 0 \in 0..Max /\ 0 \in 0..(Max - 1)
    BY DesktopAssumption
  <2> QED
    BY <1>9, <2>1 DEF Resting, LoopGood, Loops, Lines, Blank, Places, Opening, Claiming, Closing
<1>11. cmd \in [ready : BOOLEAN, line : Lines]
  BY <1>9 DEF Untyped, Lines
<1>12. Types
  BY <1>6, <1>9, <1>10, <1>11 DEF Types
<1>13. CountGood(d, loop)
  BY <1>3, <1>7, <1>10 DEF CountGood
<1>14. FocusGood(d, loop)
  BY <1>1, <1>2, <1>3, <1>10 DEF FocusGood
<1>15. AppsGood(d, loop)
  <2>1. \A j \in Windows : d.win[j].term => d.win[j].used
    BY <1>2, <1>3
  <2>2. \A q \in Pids : d.procs[q].used => Terminals(d, q) # {}
    BY <1>4, <1>8
  <2> QED
    BY <1>10, <2>1, <2>2 DEF AppsGood, Hosted, Claiming
<1> QED
  BY <1>12, <1>13, <1>14, <1>15 DEF IInv

LEMMA NextKeeps ==
    ASSUME IInv, [Next]_vars
    PROVE  IInv'
<1>1. CASE UNCHANGED vars
  BY <1>1 DEF vars, IInv, Types, CountGood, FocusGood, AppsGood, Hosted, Terminals, Open, LoopGood
<1> QED
  BY <1>1, MainKeeps, InterruptKeeps DEF Next

-----------------------------------------------------------------------------
(* The theorems.                                                           *)

\* The invariant of the desktop.  Count, focus and applications each agree with
\* the windows, up to what the main loop has still to write, between any two of
\* its steps and whatever interrupts come between them, until an interrupt
\* strikes that very thing while the loop has it in hand.
THEOREM DesktopInvariant == Spec => []IInv
<1>1. IInv /\ [Next]_vars => IInv'
  BY NextKeeps
<1> QED
  BY <1>1, InitKeeps, PTL DEF Spec

\* wm_windows, app_procs and the main loop's locals keep their types, with
\* interrupts between any two steps: no torn opening or closing makes
\* wm_open_window or wm_close_window write outside the tables.
THEOREM TypeCorrect == Spec => []TypeOK
<1>1. IInv => TypeOK
  BY DEF IInv, Types, Desktops, Processes, LoopGood, Loops, TypeOK
<1> QED
  BY <1>1, DesktopInvariant, PTL

\* wm_window_count and wm_focused_index are right whenever the loop has done a
\* job: the interrupts recorded in upset are the only ones that can make the
\* count drift or leave the focus on a closed window.
THEOREM CountRight == Spec => []WindowsCounted
<1>1. IInv => WindowsCounted
  BY DEF IInv, WindowsCounted, CountGood, FocusGood, At
<1> QED
  BY <1>1, DesktopInvariant, PTL

\* No application is left without a terminal: neither wm_close_window nor the
\* failure of wm_open_window after app_proc_spawn leaves one running unseen; the
\* only interrupts that can are those that take away, or take up again, the
\* window that the loop is giving to it or taking from it.
THEOREM NoneUnseen == Spec => []NoApplicationUnseen
<1>1. IInv => NoApplicationUnseen
  <2> SUFFICES ASSUME IInv, "app" \notin upset, At("top"), NEW p \in Pids, d.procs[p].used
               PROVE  TerminalOf(p) # {}
    BY DEF NoApplicationUnseen, ApplicationsSeen
  <2>1. Hosted(d, loop, p) /\ loop.at = "top"
    BY DEF IInv, AppsGood, At
  <2>2. loop.pid = None
    BY <2>1 DEF IInv, Types, LoopGood, Opening, Claiming
  <2>3. Terminals(d, p) # {}
    BY <2>1, <2>2, NoneIsNoWindow DEF Hosted
  <2> QED
    BY <2>3 DEF Terminals, TerminalOf
<1> QED
  BY <1>1, DesktopInvariant, PTL
=============================================================================
