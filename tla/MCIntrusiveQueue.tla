-------------------------- MODULE MCIntrusiveQueue --------------------------
(* Three entries over two queues: moves between queues, re-pushes to the   *)
(* same queue, and removals from the front, the middle and the back.       *)
EXTENDS IntrusiveQueue

=============================================================================
