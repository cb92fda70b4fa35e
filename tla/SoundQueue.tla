----------------------------- MODULE SoundQueue -----------------------------
(***************************************************************************)
(* What the buffer queue of an audio player promises to the guest and to   *)
(* the mixer: a bounded queue of buffers that can be emptied.              *)
(***************************************************************************)
EXTENDS Integers, Sequences

CONSTANT Size

VARIABLES
    queue,    \* the buffers that wait for the mixer
    sent      \* the number of buffers enqueued so far

Init == queue = <<>> /\ sent = 0

\* The next buffer is enqueued.
Put ==
    /\ Len(queue) < Size
    /\ queue' = Append(queue, sent + 1)
    /\ sent'  = sent + 1

\* The mixer hears the oldest buffer.
Take ==
    /\ queue # <<>>
    /\ queue' = Tail(queue)
    /\ UNCHANGED sent

\* A stop, a clear or a new player.
Empty ==
    /\ queue' = <<>>
    /\ UNCHANGED sent

Next == Put \/ Take \/ Empty

Spec == Init /\ [][Next]_<<queue, sent>>

=============================================================================
