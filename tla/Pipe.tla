------------------------------- MODULE Pipe -------------------------------
(***************************************************************************)
(* What the trait Transport promises its callers                           *)
(* (src/src/transport/mod.rs): frames arrive in the order they were sent,  *)
(* each exactly once, until the connection is lost; then the caller gets a *)
(* beginning of the rest and no more.                                      *)
(***************************************************************************)
EXTENDS Naturals, Sequences

CONSTANTS Ends, Frames

VARIABLES
    queue,   \* the frames on their way to each end
    closed   \* whether the connection of an end is lost

Send(e) ==
    /\ ~closed[e] /\ UNCHANGED closed[e]
    /\ \E f \in Frames : queue'[e] = Append(queue[e], f)

Receive(e) ==
    /\ queue[e] # <<>> /\ queue'[e] = Tail(queue[e])
    /\ UNCHANGED closed[e]

Lose(e) ==
    /\ ~closed[e] /\ closed'[e]
    /\ \E k \in 0..Len(queue[e]) : queue'[e] = SubSeq(queue[e], 1, k)

Init == \A e \in Ends : queue[e] = <<>> /\ ~closed[e]

\* The ends of different connections are independent.
Next ==
    \A e \in Ends :
        UNCHANGED <<queue[e], closed[e]>> \/ Send(e) \/ Receive(e) \/ Lose(e)

Spec == Init /\ [][Next]_<<queue, closed>>
============================================================================
