------------------------------- MODULE LossyFifo -------------------------------
(* What a link that retransmits promises: what is put in comes out at most     *)
(* once and in order; any of it may get lost on the way.                       *)
EXTENDS Naturals, Sequences

CONSTANT Msg  \* what can be sent

VARIABLE queue  \* what was put in and is neither delivered nor lost

\* t is what is left of s when some of it is lost: each element of t is at a place of
\* its own in s, behind those of the elements before it
IsLeftOf(t, s) ==
  \E at \in [DOMAIN t -> DOMAIN s] :
    \A i \in DOMAIN t : t[i] = s[at[i]] /\ \A j \in 1 .. i - 1 : at[j] < at[i]

Init == queue = <<>>

\* A message is put in; for the room it needs others may be lost
Put ==
  /\ queue' # <<>> /\ queue'[Len(queue')] \in Msg
  /\ IsLeftOf(SubSeq(queue', 1, Len(queue') - 1), queue)

Lose == Len(queue') < Len(queue) /\ IsLeftOf(queue', queue)

Deliver == queue # <<>> /\ queue' = Tail(queue)

Spec == Init /\ [][Put \/ Lose \/ Deliver]_queue
=============================================================================
