---------------------------- MODULE FrameBroker ----------------------------
(***************************************************************************)
(* What the physical page allocator of src/src/kernel.c promises its       *)
(* callers, with no word on regions, on the recycle pool or on the owner   *)
(* table: a frame is handed out only while nobody holds it, a request is   *)
(* refused only when every frame is held, and giving a frame back is the   *)
(* only way it becomes free again.  A release may also have no effect (the *)
(* code keeps a protected, an untracked or an overflowing frame for good): *)
(* that is a step that changes nothing here.                               *)
(***************************************************************************)
EXTENDS Integers

CONSTANTS
    Frames,     \* the usable frames of the machine
    NoFrame     \* the return value of a refused request

VARIABLES
    live,       \* frames that were handed out and not taken back
    got         \* what the latest request returned

brokerVars == <<live, got>>

BrokerTypeOK ==
    /\ live \subseteq Frames
    /\ got \in Frames \cup {NoFrame}

BrokerInit ==
    /\ live = {}
    /\ got = NoFrame

Grant(p) ==
    /\ p \notin live
    /\ live' = live \cup {p}
    /\ got' = p

Refuse ==
    /\ live = Frames
    /\ got' = NoFrame
    /\ UNCHANGED live

TakeBack(p) ==
    /\ p \in live
    /\ live' = live \ {p}
    /\ UNCHANGED got

BrokerNext ==
    \/ \E p \in Frames : Grant(p) \/ TakeBack(p)
    \/ Refuse

BrokerSpec == BrokerInit /\ [][BrokerNext]_brokerVars
=============================================================================
