------------------------------ MODULE ByteQueue ------------------------------
(***************************************************************************)
(* What a bounded buffer of bytes promises: first in, first out; a write   *)
(* or a read of more than there is room for or bytes of takes as many as   *)
(* it can, and says how many.                                              *)
(***************************************************************************)
EXTENDS Naturals, Sequences

CONSTANTS
    Byte,
    Capacity,
    MaxBytes \* the most bytes of one call

VARIABLES
    call,     \* the last call, with what it was given
    queue,    \* the bytes held, the oldest first
    returned, \* the result of the last call
    output    \* what the last call gave

queueVars == <<call, queue, returned, output>>

AtMost(max, n) == IF n <= max THEN n ELSE max

Init ==
    /\ call = <<"new">>
    /\ queue = << >>
    /\ returned = 0
    /\ output = << >>

Put(data) ==
    /\ call' = <<"write", data>>
    /\ returned' = AtMost(Capacity - Len(queue), Len(data))
    /\ queue' = queue \o SubSeq(data, 1, returned')
    /\ output' = << >>

\* A read may discard what it takes.
Take(bytes, keep) ==
    /\ call' = <<"read", bytes, keep>>
    /\ returned' = AtMost(Len(queue), bytes)
    /\ queue' = SubSeq(queue, returned' + 1, Len(queue))
    /\ output' = IF keep THEN SubSeq(queue, 1, returned') ELSE << >>

Empty ==
    /\ call' = <<"clear">>
    /\ queue' = << >>
    /\ UNCHANGED returned
    /\ output' = << >>

Next ==
    \/ \E n \in 0..MaxBytes : \E data \in [1..n -> Byte] : Put(data)
    \/ \E bytes \in 0..MaxBytes, keep \in BOOLEAN : Take(bytes, keep)
    \/ Empty

Spec == Init /\ [][Next]_queueVars

=============================================================================
