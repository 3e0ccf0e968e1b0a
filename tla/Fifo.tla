-------------------------------- MODULE Fifo ---------------------------------
(***************************************************************************)
(* What a ring buffer promises its two threads: records come out whole, in *)
(* the order they were put in, and every record comes out in the end.      *)
(***************************************************************************)
EXTENDS Sequences

CONSTANT Record

VARIABLES queue,   \* records put and not taken yet
          taken    \* the record taken last

FifoInit == queue = <<>> /\ taken = <<>>

Put(r) == queue' = Append(queue, r) /\ UNCHANGED taken

Take ==
  /\ queue # <<>>
  /\ taken' = <<Head(queue)>>
  /\ queue' = Tail(queue)

FifoNext == Take \/ \E r \in Record : Put(r)

FifoSafety == FifoInit /\ [][FifoNext]_<<queue, taken>>

FifoSpec == FifoSafety /\ WF_<<queue, taken>>(Take)

=============================================================================
