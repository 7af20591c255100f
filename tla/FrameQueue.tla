----------------------------- MODULE FrameQueue -----------------------------
(***************************************************************************)
(* What a ring of frames promises: a queue of bounded length, that refuses *)
(* a frame when it is full and at no other time.                           *)
(***************************************************************************)
EXTENDS Integers, Sequences

CONSTANTS Frame, Bound

VARIABLES
  queue,
  lost    \* the frames that were refused

Init == queue = <<>> /\ lost = {}

Put(f) ==
  IF Len(queue) < Bound THEN queue' = Append(queue, f) /\ UNCHANGED lost
  ELSE lost' = lost \cup {f} /\ UNCHANGED queue
Get == queue # <<>> /\ queue' = Tail(queue) /\ UNCHANGED lost

\* A frame comes and the first one goes, in one critical section.
PutGet(f) ==
  IF Len(queue) < Bound THEN queue' = Tail(Append(queue, f)) /\ UNCHANGED lost
  ELSE queue' = Tail(queue) /\ lost' = lost \cup {f}

Next == (\E f \in Frame : Put(f) \/ PutGet(f)) \/ Get

Spec == Init /\ [][Next]_<<queue, lost>>
=============================================================================
