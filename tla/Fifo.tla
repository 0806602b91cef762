-------------------------------- MODULE Fifo --------------------------------
(***************************************************************************)
(* What a pipe (src/pipe.c) promises to its readers and writers: a queue   *)
(* of at most PIPESIZE bytes, from which the bytes come out in the order   *)
(* in which they went in, and which is lost only when both ends are closed.*)
(***************************************************************************)
EXTENDS Naturals, Sequences

CONSTANTS Bytes, PIPESIZE

VARIABLES queue,    \* bytes written and not yet read
          ends,     \* the ends that are open
          out       \* the byte a reader got last

FInit == queue = <<>> /\ ends = {} /\ out \in Bytes

Open == /\ ends = {}
        /\ ends' = {"r", "w"}
        /\ UNCHANGED <<queue, out>>

Put(b) == /\ ends # {} /\ Len(queue) < PIPESIZE
          /\ queue' = Append(queue, b)
          /\ UNCHANGED <<ends, out>>

Get == /\ queue # <<>>
       /\ out' = Head(queue)
       /\ queue' = Tail(queue)
       /\ UNCHANGED ends

Close(e) == /\ e \in ends
            /\ ends' = ends \ {e}
            /\ queue' = IF ends' = {} THEN <<>> ELSE queue
            /\ UNCHANGED out

FNext == \/ Open \/ Get
         \/ \E b \in Bytes : Put(b)
         \/ \E e \in {"r", "w"} : Close(e)

FSpec == FInit /\ [][FNext]_<<queue, ends, out>>
=============================================================================
