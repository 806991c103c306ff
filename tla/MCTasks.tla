------------------------------- MODULE MCTasks -------------------------------
(* Small instances of Tasks: all commands, or those that one question is     *)
(* about.                                                                    *)
EXTENDS Tasks

\* Everything that sets, ends or moves the slots, and everything that writes,
\* checks or restores their snapshots.
AllCommands ==
    {"syscall", "fault", "procset", "taskspawn", "taskteardown", "tasksleep",
     "taskwait", "taskwake", "eventwait", "eventsig", "taskrun", "taskstop",
     "snapnow", "snapseed", "snaprestore", "usertestprep", "ctxswon", "ctxswoff",
     "inputch", "schedon", "schedoff", "schedq", "userrun"}

\* Restore mode, and a wait that hands the processor on without a frame.
HandoffCommands == {"taskspawn", "ctxswon", "taskwait"}

\* What may go on while tasks wait for a deadline or for their turn.
WaitCommands ==
    {"syscall", "taskspawn", "tasksleep", "taskwait", "taskrun", "ctxswon",
     "ctxswoff", "snaprestore"}

\* A program that faults, and nothing else.
FaultCommands == {"usertestprep", "userrun", "fault"}
=============================================================================
