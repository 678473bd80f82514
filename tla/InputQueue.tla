------------------------------ MODULE InputQueue ------------------------------
(***************************************************************************)
(* What the contract promises about each of its two input queues: an input *)
(* once queued keeps its place for good; batches take the inputs from the  *)
(* front, each exactly once, in the order they were queued; after the      *)
(* queue is closed nothing is taken any more. ZkClob implements it twice,  *)
(* for deposits and for forced withdrawals.                                *)
(***************************************************************************)
EXTENDS Integers, Sequences

CONSTANT Item
VARIABLES queue, taken, closed

QInit == queue = <<>> /\ taken = <<>> /\ closed = FALSE

Enqueue ==
    /\ Len(queue') = Len(queue) + 1
    /\ SubSeq(queue', 1, Len(queue)) = queue
    /\ queue'[Len(queue) + 1] \in Item
    /\ UNCHANGED <<taken, closed>>

Take ==
    /\ ~closed
    /\ \E n \in 0..(Len(queue) - Len(taken)) : taken' = SubSeq(queue, 1, Len(taken) + n)
    /\ UNCHANGED <<queue, closed>>

Close == closed' = TRUE /\ UNCHANGED <<queue, taken>>

QNext == Enqueue \/ Take \/ Close

QSpec == QInit /\ [][QNext]_<<queue, taken, closed>>
==============================================================================
