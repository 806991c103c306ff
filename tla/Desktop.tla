------------------------------- MODULE Desktop -------------------------------
(***************************************************************************)
(* The desktop of src/src/kernel.c: windows, GUI terminals, the in-kernel  *)
(* application processes behind them, and the hand-over of menu clicks and *)
(* typed lines from the mouse and keyboard interrupts to the main loop.    *)
(*                                                                         *)
(* An interrupt handler clears IF: it is one action.  The main loop runs   *)
(* with interrupts enabled: it takes one step from one access to shared    *)
(* state to the next, and an interrupt may come between any two.           *)
(* wm_open_window and wm_close_window are thus modelled twice, out of the  *)
(* same pieces: at once in an interrupt, piecemeal in the main loop.       *)
(*                                                                         *)
(* Abstraction: the window manager is on; geometry is a choice of what a   *)
(* click hits; dragging, drawing and the line editor are left out.  A line *)
(* given to an application is counted, not read.  A copy of a shell line   *)
(* that takes its end from another line is Torn.                           *)
(***************************************************************************)
EXTENDS Integers, FiniteSets

CONSTANTS
    Max,        \* WM_MAX_WINDOWS, and APP_PROC_MAX
    CountWords, \* 2^32: wm_window_count wraps
    MaxLines,   \* bound: lines waiting in an application's stdin
    Commands    \* shell lines typed: <<"wmopenterm", None>>, <<"wmopenfs", None>>,
                \* <<"wmclose", window>> and <<"other", None>>

Windows == 0..(Max - 1)
Pids == Windows
None == -1

ASSUME DesktopAssumption ==
    /\ Max \in Nat \ {0, 1} /\ MaxLines \in Nat \ {0}
    /\ CountWords \in Nat /\ CountWords > Max
    /\ Commands \subseteq ({"wmopenterm", "wmopenfs", "other"} \X {None}) \cup ({"wmclose"} \X Windows)

Blank == <<"other", None>>
Torn == <<"torn", None>>

VARIABLES
    d,      \* [win, count, focus, procs]: wm_windows with wm_term_states' used,
            \* wm_window_count, wm_focused_index, app_procs
    menu,   \* wm_start_menu_visible
    action, \* gui_pending_action
    cmd,    \* [ready, line]: gui_pending_cmd_ready and gui_pending_cmd
    loop,   \* the main loop: where it is, where it goes on after an open or a
            \* close, the type to open, the application spawned, the window or
            \* process in hand, the count it read, the line it copied
    upset   \* history, read by no action: what interrupts have struck while
            \* the main loop had it in hand, of "count", "focus" and "app"

vars == <<d, menu, action, cmd, loop, upset>>

Closed == [used |-> FALSE, type |-> "generic", cid |-> 0, term |-> FALSE, mini |-> FALSE]
NoProc == [used |-> FALSE, started |-> FALSE, lines |-> 0]
Untyped == [ready |-> FALSE, line |-> Blank]
Resting == [at |-> "top", next |-> "top", kind |-> "none", pid |-> None, i |-> 0,
            seen |-> 0, line |-> Blank]

\* kernel_main opens a terminal with its application and a file manager.
Init ==
    /\ d = [win |-> [i \in Windows |->
                        IF i = 0 THEN [Closed EXCEPT !.used = TRUE, !.type = "terminal", !.term = TRUE]
                        ELSE IF i = 1 THEN [Closed EXCEPT !.used = TRUE, !.type = "files", !.cid = 1]
                        ELSE Closed],
            count |-> 2, focus |-> 1,
            procs |-> [p \in Pids |-> [NoProc EXCEPT !.used = (p = 0)]]]
    /\ menu = FALSE
    /\ action = "none"
    /\ cmd = Untyped
    /\ loop = Resting
    /\ upset = {}

-----------------------------------------------------------------------------
(* The writes of app_proc_spawn, wm_open_window and wm_close_window, and   *)
(* of their callers, on a desktop x.                                       *)

\* What a free process or a taken command still holds is never read again: here
\* it is forgotten.
Spawned(x, p) == [x EXCEPT !.procs[p] = [NoProc EXCEPT !.used = TRUE]]
Freed(x, p) == [x EXCEPT !.procs[p] = NoProc]

\* The slot is taken first, focus and count come last, what the window shows
\* after the call.
Claimed(x, i) ==
    [x EXCEPT !.win[i] = [Closed EXCEPT !.used = TRUE, !.cid = i, !.term = x.win[i].term]]
Focused(x, i) == [x EXCEPT !.focus = i]
Counted(x, n) == [x EXCEPT !.count = n]
Typed(x, i, type) == [x EXCEPT !.win[i].type = type]
Holding(x, i, cid) == [x EXCEPT !.win[i].cid = cid]
Terminal(x, i, type) == [x EXCEPT !.win[i].term = @ \/ type = "terminal"]

Shut(x, i) == [x EXCEPT !.win[i].used = FALSE]
Unterm(x, i) == [x EXCEPT !.win[i].term = FALSE]
Unhosted(x, i) == IF x.win[i].type = "terminal" THEN Freed(x, x.win[i].cid) ELSE x
Blanked(x, i) == [x EXCEPT !.win[i].type = "generic", !.win[i].cid = 0, !.win[i].mini = FALSE]

\* Mutant of Uncounted: the count is signed.
UncountedSigned(x) == [x EXCEPT !.count = @ - 1]

Uncounted(x) == [x EXCEPT !.count = IF @ = 0 THEN CountWords - 1 ELSE @ - 1]

-----------------------------------------------------------------------------
(* The same operations inside an interrupt.                                *)
Least(set) == CHOOSE i \in set : \A j \in set : i <= j
FirstOf(set) == IF set = {} THEN None ELSE Least(set)
Open(x) == {i \in Windows : x.win[i].used}

Opened(x, kind) ==
    LET i == FirstOf(Windows \ Open(x))
        here == Counted(Focused(Claimed(x, i), i), x.count + 1)
    IN  IF x.count >= Max \/ i = None THEN x
        ELSE Terminal(Holding(Typed(here, i, kind), i, i), i, kind)

\* A terminal's application is freed, and the first window that is open takes
\* the focus.
Refocused(x, i) == IF x.focus = i THEN Focused(x, FirstOf(Open(x))) ELSE x
CloseWindow(x, i) ==
    IF x.win[i].used
    THEN Refocused(Uncounted(Blanked(Unhosted(Unterm(Shut(x, i), i), i), i)), i)
    ELSE x

\* The type of the window that a command opens.
Kinds == [wmopenterm |-> "terminal", wmopenfs |-> "files"]

\* shell_execute_command as the console runs it; a terminal opened here gets
\* the number of its window as content index.
Executed(x, line) ==
    IF line[1] = "wmclose" THEN CloseWindow(x, line[2])
    ELSE IF line[1] \in DOMAIN Kinds THEN Opened(x, Kinds[line[1]])
    ELSE x

-----------------------------------------------------------------------------
(* Interrupts.                                                             *)

At(place) == loop.at = place

\* An interrupt strikes the count if it changes it between the read and the
\* write of wm_window_count++, or closes the window the loop is closing; the
\* focus if it closes the window about to be focused; an application if it takes
\* away, or takes up again, the window the loop is giving to it or taking from it.
Struck == loop.i \in Windows /\ d'.win[loop.i].used # d.win[loop.i].used
Endangered ==
    {what \in {"count", "focus", "app"} :
        \/ /\ what = "count"
           /\ \/ loop.at \in {"scan", "claim", "focus", "count"} /\ d'.count # d.count
              \/ At("shut") /\ Struck
        \/ what = "focus" /\ loop.at \in {"focus", "pick"} /\ Struck
        \/ /\ what = "app" /\ Struck
           /\ loop.at \in {"claim", "focus", "count", "type", "content", "term",
                           "unterm", "unhost", "blank"}}
Recorded == upset' = upset \cup Endangered

\* wm_hit_titlebar and wm_hit_any: what a press does to the window under the
\* mouse, if there is one.
UnderMouse(x) ==
    LET visible == {i \in Open(x) : ~x.win[i].mini}
    IN  {x} \cup {CloseWindow(x, i) : i \in visible} \cup {Focused(x, i) : i \in visible}

\* wm_handle_mouse on a press.  A visible start menu takes the click.
ClickMenu(choice) ==
    /\ menu
    /\ menu' = FALSE
    /\ action' = IF choice = "none" THEN action ELSE choice
    /\ UNCHANGED <<d, cmd, loop>> /\ Recorded

ClickWindow ==
    /\ ~menu
    /\ d' \in UnderMouse(d)
    /\ UNCHANGED <<menu, action, cmd, loop>> /\ Recorded

\* A press on the taskbar goes through to a window that lies over it.
ClickStart ==
    /\ ~menu
    /\ menu' = TRUE
    /\ d' \in UnderMouse(d)
    /\ UNCHANGED <<action, cmd, loop>> /\ Recorded

ClickTaskbar(i) ==
    /\ ~menu
    /\ d.win[i].used
    /\ d' \in UnderMouse(
            IF i = d.focus THEN [d EXCEPT !.win[i].mini = TRUE, !.focus = None]
                           ELSE [d EXCEPT !.win[i].mini = FALSE, !.focus = i])
    /\ UNCHANGED <<menu, action, cmd, loop>> /\ Recorded

\* Enter.  Keys go to the focused GUI terminal, minimized or not: to its
\* application, or else to the pending command; without one to the console.
Routed ==
    /\ d.focus # None
    /\ d.win[d.focus].used /\ d.win[d.focus].type = "terminal" /\ d.win[d.focus].term

Enter(line) ==
    /\ IF ~Routed THEN d' = Executed(d, line) /\ UNCHANGED cmd
       ELSE LET cid == d.win[d.focus].cid
            IN  IF d.procs[cid].used
                THEN /\ d.procs[cid].lines < MaxLines
                     /\ d' = [d EXCEPT !.procs[cid].lines = @ + 1]
                     /\ UNCHANGED cmd
                ELSE cmd' = [ready |-> TRUE, line |-> line] /\ UNCHANGED d
    /\ UNCHANGED <<menu, action, loop>> /\ Recorded

Interrupt ==
    \/ ClickWindow \/ ClickStart
    \/ \E i \in Windows : ClickTaskbar(i)
    \/ \E choice \in {"terminal", "files", "none"} : ClickMenu(choice)
    \/ \E line \in Commands : Enter(line)

-----------------------------------------------------------------------------
(* The main loop.                                                          *)
Go(place) == loop' = [loop EXCEPT !.at = place]
Finish == loop' = [Resting EXCEPT !.at = loop.next]
Proceed == loop' = [loop EXCEPT !.i = @ + 1]

TakeAction ==
    /\ At("top")
    /\ loop' = IF action = "none" THEN [Resting EXCEPT !.at = "apps"]
               ELSE [Resting EXCEPT !.at = "clear", !.next = "apps", !.kind = action]
    /\ UNCHANGED <<d, menu, action, cmd, upset>>

\* A terminal gets its application first.
ClearAction ==
    /\ At("clear")
    /\ action' = "none"
    /\ Go(IF loop.kind = "terminal" THEN "spawn" ELSE "room")
    /\ UNCHANGED <<d, menu, cmd, upset>>

\* app_proc_spawn, at the process i.
Spawn ==
    /\ At("spawn")
    /\ IF loop.i = Max THEN Finish /\ UNCHANGED d
       ELSE IF d.procs[loop.i].used THEN Proceed /\ UNCHANGED d
       ELSE /\ d' = Spawned(d, loop.i)
            /\ loop' = [loop EXCEPT !.at = "room", !.pid = loop.i, !.i = 0]
    /\ UNCHANGED <<menu, action, cmd, upset>>

-----------------------------------------------------------------------------
(* wm_open_window.  Without room the application is freed again.           *)

\* Mutant of NoWindow: it is not.
NoWindowKeepsProc == Finish /\ UNCHANGED d

NoWindow ==
    /\ Finish
    /\ d' = IF loop.pid = None THEN d ELSE Freed(d, loop.pid)

LookForRoom ==
    /\ At("room")
    /\ IF d.count >= Max THEN NoWindow
       ELSE loop' = [loop EXCEPT !.at = "scan", !.seen = d.count] /\ UNCHANGED d
    /\ UNCHANGED <<menu, action, cmd, upset>>

Scan ==
    /\ At("scan")
    /\ IF loop.i = Max THEN NoWindow
       ELSE IF d.win[loop.i].used THEN Proceed /\ UNCHANGED d
       ELSE Go("claim") /\ UNCHANGED d
    /\ UNCHANGED <<menu, action, cmd, upset>>

Claim == At("claim") /\ d' = Claimed(d, loop.i) /\ Go("focus") /\ UNCHANGED <<menu, action, cmd, upset>>
Focus == At("focus") /\ d' = Focused(d, loop.i) /\ Go("count") /\ UNCHANGED <<menu, action, cmd, upset>>

\* Mutant of Count: the window is not counted.
CountNot == At("count") /\ Go("type") /\ UNCHANGED <<d, menu, action, cmd, upset>>

Count ==
    /\ At("count")
    /\ d' = Counted(d, loop.seen + 1)
    /\ Go("type")
    /\ UNCHANGED <<menu, action, cmd, upset>>

SetType ==
    /\ At("type")
    /\ d' = Typed(d, loop.i, loop.kind)
    /\ Go("content")
    /\ UNCHANGED <<menu, action, cmd, upset>>

SetContent ==
    /\ At("content")
    /\ d' = Holding(d, loop.i, IF loop.pid = None THEN loop.i ELSE loop.pid)
    /\ Go("term")
    /\ UNCHANGED <<menu, action, cmd, upset>>

SetTerm ==
    /\ At("term")
    /\ d' = Terminal(d, loop.i, loop.kind)
    /\ Finish
    /\ UNCHANGED <<menu, action, cmd, upset>>

-----------------------------------------------------------------------------
(* app_proc_run_all: an application greets first, then reads a line a turn. *)
Turn(proc) ==
    IF ~proc.used THEN proc
    ELSE IF ~proc.started THEN [proc EXCEPT !.started = TRUE]
    ELSE [proc EXCEPT !.lines = IF @ = 0 THEN 0 ELSE @ - 1]

\* Mutant of RunApp: only the first application runs.
RunAppFirst ==
    /\ At("apps")
    /\ d' = [d EXCEPT !.procs[0] = Turn(@)]
    /\ loop' = IF loop.i + 1 = Max THEN [Resting EXCEPT !.at = "cmd"] ELSE [loop EXCEPT !.i = @ + 1]
    /\ UNCHANGED <<menu, action, cmd, upset>>

RunApp ==
    /\ At("apps")
    /\ d' = [d EXCEPT !.procs[loop.i] = Turn(@)]
    /\ loop' = IF loop.i + 1 = Max THEN [Resting EXCEPT !.at = "cmd"] ELSE [loop EXCEPT !.i = @ + 1]
    /\ UNCHANGED <<menu, action, cmd, upset>>

\* The pending command is copied, then marked as taken, then executed.
CopyHead ==
    /\ At("cmd")
    /\ loop' = IF cmd.ready THEN [loop EXCEPT !.at = "copy", !.line = cmd.line] ELSE Resting
    /\ UNCHANGED <<d, menu, action, cmd, upset>>

\* Mutant of CopyTail: the copy is cut at its start.
CopyTailCut ==
    /\ At("copy")
    /\ loop' = [loop EXCEPT !.at = "taken", !.line = Blank]
    /\ UNCHANGED <<d, menu, action, cmd, upset>>

CopyTail ==
    /\ At("copy")
    /\ loop' = [loop EXCEPT !.at = "taken", !.line = IF cmd.line = @ THEN @ ELSE Torn]
    /\ UNCHANGED <<d, menu, action, cmd, upset>>

MarkTaken ==
    /\ At("taken")
    /\ cmd' = Untyped
    /\ Go("exec")
    /\ UNCHANGED <<d, menu, action, upset>>

\* shell_execute_command; a torn line is no command.
Execute ==
    /\ At("exec")
    /\ LET name == loop.line[1]
       IN  loop' = IF name \in DOMAIN Kinds
                   THEN [Resting EXCEPT !.at = "room", !.kind = Kinds[name]]
                   ELSE IF name = "wmclose" /\ d.win[loop.line[2]].used
                   THEN [Resting EXCEPT !.at = "shut", !.i = loop.line[2]]
                   ELSE Resting
    /\ UNCHANGED <<d, menu, action, cmd, upset>>

-----------------------------------------------------------------------------
(* wm_close_window.                                                        *)
ShutWindow == At("shut") /\ d' = Shut(d, loop.i) /\ Go("unterm") /\ UNCHANGED <<menu, action, cmd, upset>>
ClearTerm == At("unterm") /\ d' = Unterm(d, loop.i) /\ Go("unhost") /\ UNCHANGED <<menu, action, cmd, upset>>
FreeApp == At("unhost") /\ d' = Unhosted(d, loop.i) /\ Go("blank") /\ UNCHANGED <<menu, action, cmd, upset>>
ClearType == At("blank") /\ d' = Blanked(d, loop.i) /\ Go("uncount") /\ UNCHANGED <<menu, action, cmd, upset>>
Uncount == At("uncount") /\ d' = Uncounted(d) /\ Go("refocus") /\ UNCHANGED <<menu, action, cmd, upset>>

Refocus ==
    /\ At("refocus")
    /\ IF d.focus = loop.i
       THEN d' = Focused(d, None) /\ loop' = [loop EXCEPT !.at = "rescan", !.i = 0]
       ELSE Finish /\ UNCHANGED d
    /\ UNCHANGED <<menu, action, cmd, upset>>

Rescan ==
    /\ At("rescan")
    /\ IF loop.i = Max THEN Finish
       ELSE IF d.win[loop.i].used THEN Go("pick")
       ELSE Proceed
    /\ UNCHANGED <<d, menu, action, cmd, upset>>

Pick == At("pick") /\ d' = Focused(d, loop.i) /\ Finish /\ UNCHANGED <<menu, action, cmd, upset>>

Main ==
    \/ TakeAction \/ ClearAction \/ Spawn
    \/ LookForRoom \/ Scan \/ Claim \/ Focus \/ Count \/ SetType \/ SetContent \/ SetTerm
    \/ RunApp \/ CopyHead \/ CopyTail \/ MarkTaken \/ Execute
    \/ ShutWindow \/ ClearTerm \/ FreeApp \/ ClearType \/ Uncount \/ Refocus \/ Rescan \/ Pick

Next == Main \/ Interrupt

\* The timer interrupt ends every hlt, so the main loop goes on.
Spec == Init /\ [][Next]_vars /\ WF_vars(Main)

-----------------------------------------------------------------------------
WindowStates ==
    [used : BOOLEAN, type : {"generic", "terminal", "files"}, cid : Windows,
     term : BOOLEAN, mini : BOOLEAN]

\* Every field has its type, whatever strikes the main loop.
TypeOK ==
    /\ d.win \in [Windows -> WindowStates]
    /\ d.count \in 0..(CountWords - 1) /\ d.focus \in Windows \cup {None}
    /\ d.procs \in [Pids -> [used : BOOLEAN, started : BOOLEAN, lines : 0..MaxLines]]
    /\ menu \in BOOLEAN /\ action \in {"none", "terminal", "files"}
    /\ loop.pid \in Pids \cup {None} /\ loop.i \in 0..Max

\* Between jobs wm_window_count, which limits the opens, is the number of
\* windows, and the focus is on one of them, over the opens, closes and clicks of
\* mouse, keyboard and main loop in any interleaving but the ones recorded: an
\* interrupt that changes the count while the loop increments it, or closes the
\* very window that the loop is closing or about to focus.
WindowsCounted ==
    At("top") =>
        /\ "count" \notin upset => d.count = Cardinality(Open(d))
        /\ "focus" \notin upset => (d.focus # None => d.win[d.focus].used)

TerminalOf(p) ==
    {i \in Windows : /\ d.win[i].used /\ d.win[i].type = "terminal"
                     /\ d.win[i].term /\ d.win[i].cid = p}

\* Between jobs every live application has a terminal: closing the window and
\* every failure to open one free it, so none runs on unseen and holds a slot;
\* unless an interrupt took the window in the midst of its opening or closing.
ApplicationsSeen == At("top") => \A p \in Pids : d.procs[p].used => TerminalOf(p) # {}
NoApplicationUnseen == "app" \notin upset => ApplicationsSeen

\* A line that waits in an application's ring is read, or the application closed.
LinesRead ==
    \A p \in Pids : (d.procs[p].used /\ d.procs[p].lines > 0)
                        ~> (~d.procs[p].used \/ d.procs[p].lines = 0)

\* A pending command is executed as it was typed, unless another one is entered
\* before the loop has taken it; one entered while the loop takes the last may
\* be lost.
LineExecuted ==
    \A line \in Commands :
        (cmd.ready /\ cmd.line = line /\ loop.at \notin {"copy", "taken"})
            ~> \/ At("exec") /\ loop.line = line
               \/ cmd.ready /\ cmd.line # line

-----------------------------------------------------------------------------
(* What a comment says of this code and a run refutes.                     *)

\* The command the main loop executes is one that was typed, not halves of two.
TakenWhole == At("exec") => loop.line # Torn
=============================================================================
