----------------------------- MODULE FrameRing ------------------------------
(***************************************************************************)
(* RawEthernetPacketBuffer: a ring of frames that keeps one slot free, so  *)
(* that full and empty differ.  Nothing here has state of its own: a ring  *)
(* is a value, and Push and Pull return the ring that results.             *)
(***************************************************************************)
EXTENDS Integers, Sequences

CONSTANTS
  Frame,    \* frames
  NoFrame   \* what a slot holds before it is first filled

ASSUME NoFrameAssumption == NoFrame \notin Frame

Ring(size) == [packet : [0..(size - 1) -> Frame \cup {NoFrame}],
               curin : 0..(size - 1), curout : 0..(size - 1)]
EmptyRing(size) ==
  [packet |-> [i \in 0..(size - 1) |-> NoFrame], curin |-> 0, curout |-> 0]

IsEmpty(r, size) == r.curout = r.curin

\* Two slots stay free, or none: then full looks like empty (mutants).
IsFullEarly(r, size) == (r.curin + 1) % size = r.curout
                        \/ (r.curin + 2) % size = r.curout
IsFullNever(r, size) == FALSE
IsFull(r, size)      == (r.curin + 1) % size = r.curout

\* One too few once curin has wrapped around.
Numitems(r, size) == IF r.curin >= r.curout THEN r.curin - r.curout
                     ELSE size - (r.curout - r.curin) - 1

\* curin runs past the last slot (mutant).
PushPast(r, size, f) ==
  [packet |-> [r.packet EXCEPT ![r.curin] = f],
   curin |-> r.curin + 1, curout |-> r.curout]
Push(r, size, f) ==
  IF IsFull(r, size) THEN r
  ELSE [packet |-> [r.packet EXCEPT ![r.curin] = f],
        curin  |-> (r.curin + 1) % size,
        curout |-> r.curout]

First(r) == r.packet[r.curout]
Pull(r, size) ==
  IF IsEmpty(r, size) THEN r ELSE [r EXCEPT !.curout = (@ + 1) % size]

-----------------------------------------------------------------------------
(* What a ring stands for: the frames from curout up to curin.             *)
Count(r, size) == IF r.curin >= r.curout THEN r.curin - r.curout
                  ELSE size - (r.curout - r.curin)
Contents(r, size) ==
  [i \in 1..Count(r, size) |-> r.packet[(r.curout + i - 1) % size]]
=============================================================================
