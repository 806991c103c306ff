--------------------------- MODULE MCFrameService ---------------------------
(* Four usable frames in two regions (a hole at page 5), a pool of two.     *)
EXTENDS FrameService

MCLayout == <<3, 4, 6, 7>>
MCLabels == {"PAGING_STRUCTURE", "USER_TASK", "ALLOCATOR"}
=============================================================================
