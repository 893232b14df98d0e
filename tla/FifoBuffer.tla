----------------------------- MODULE FifoBuffer -----------------------------
(***************************************************************************)
(* What a circular buffer promises a client that pushes single elements    *)
(* only when there is room, pulls single elements only when there are      *)
(* some, and rewinds only over elements that have not been overwritten: a  *)
(* queue of at most Capacity elements, from which pulled elements can be   *)
(* put back at the front as long as no newer element needed their room.    *)
(***************************************************************************)
EXTENDS Integers, Sequences

CONSTANTS Char, Capacity, MaxChunk

VARIABLES queue,  \* elements that can be pulled, oldest first
          taken,  \* pulled elements that can still be put back, oldest first
          out     \* what the last call returned

Least(a, b) == IF a < b THEN a ELSE b

Chunks == UNION {[1 .. n -> Char] : n \in 0 .. MaxChunk}

(* The last n elements of s, or all of them.                                *)
LastOf(s, n) == SubSeq(s, Len(s) - Least(n, Len(s)) + 1, Len(s))

Init == queue = <<>> /\ taken = <<>> /\ out = <<>>

Put(data) ==
  LET n == Least(Len(data), Capacity - Len(queue))
  IN  /\ queue' = queue \o SubSeq(data, 1, n)
      /\ taken' = LastOf(taken, Capacity - Len(queue) - n)
      /\ out' = <<>>

Take(n, shown) ==
  /\ n <= Len(queue)
  /\ queue' = SubSeq(queue, n + 1, Len(queue))
  /\ taken' = taken \o SubSeq(queue, 1, n)
  /\ out' = SubSeq(queue, 1, shown)

PutBack(n) ==
  /\ n <= Len(taken)
  /\ queue' = LastOf(taken, n) \o queue
  /\ taken' = SubSeq(taken, 1, Len(taken) - n)
  /\ out' = <<>>

Clear == queue' = <<>> /\ taken' = <<>> /\ out' = <<>>

Next ==
  \/ \E data \in Chunks : Put(data)
  \/ \E n \in 0 .. Capacity : \E shown \in 0 .. n : Take(n, shown)
  \/ \E n \in 0 .. Capacity : PutBack(n)
  \/ Clear

Spec == Init /\ [][Next]_<<queue, taken, out>>
=============================================================================
