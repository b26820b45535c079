--------------------------- MODULE CircularBuffer ---------------------------
(***************************************************************************)
(* CircularBuffer (src/tools.h, src/tools.cpp): the bytes held lie from    *)
(* index_start on in an array, and go on at its beginning where they reach *)
(* its end.  Each method is an action.                                     *)
(***************************************************************************)
EXTENDS Naturals, Sequences

CONSTANTS
    Byte,
    Capacity,
    MaxBytes  \* the most bytes of one call

\* The destination index is taken modulo the capacity.
ASSUME CapacityAssumption == Capacity \in Nat \ {0}
ASSUME MaxBytesAssumption == MaxBytes \in Nat

Cells == 0..(Capacity - 1)

VARIABLES
    buffer, \* what is in the array; at first anything
    size, index_start, index_end,
    call,            \* the last call, with what it was given
    returned, output \* its result, and what it wrote to `data`

bufferVars == <<buffer, size, index_start, index_end, call, returned, output>>

AtMost(max, n) == IF n <= max THEN n ELSE max

BufferInit ==
    /\ buffer \in [Cells -> Byte]
    /\ size = 0
    /\ index_start = 0
    /\ index_end = 0
    /\ call = <<"new">>
    /\ returned = 0
    /\ output = << >>

\* Broken on purpose (see the mutants of PROJECT.json): the index may reach the end.
AdvancedToEnd(index, n) == IF index + n <= Capacity THEN index + n ELSE index + n - Capacity

Advanced(index, n) == (index + n) % Capacity

\* Broken on purpose: the second copy begins with the first byte of the data again.
CopiedFromStart(array, at, data, from, n) ==
    [c \in Cells |-> IF c \in at..(at + n - 1) THEN data[c - at + 1] ELSE array[c]]

\* memcpy(buffer + at, data + from, n).
CopiedIn(array, at, data, from, n) ==
    [c \in Cells |-> IF c \in at..(at + n - 1) THEN data[from + c - at + 1] ELSE array[c]]

\* The n bytes from buffer + at on.
CopiedOut(at, n) == [k \in 1..n |-> buffer[at + k - 1]]

Write(data) ==
    LET real_bytes == AtMost(Capacity - size, Len(data))
        first_bytes == Capacity - index_end
    IN  /\ call' = <<"write", data>>
        /\ buffer' =
               IF real_bytes <= Capacity - index_end
               THEN CopiedIn(buffer, index_end, data, 0, real_bytes)
               ELSE CopiedIn(CopiedIn(buffer, index_end, data, 0, first_bytes),
                             0, data, first_bytes, real_bytes - first_bytes)
        /\ index_end' = Advanced(index_end, real_bytes)
        /\ size' = size + real_bytes
        /\ returned' = real_bytes
        /\ output' = << >>
        /\ UNCHANGED index_start

\* data may be null, and the bytes are then discarded.
Read(bytes, keep) ==
    LET real_bytes == AtMost(size, bytes)
        first_bytes == Capacity - index_start
    IN  /\ call' = <<"read", bytes, keep>>
        /\ output' =
               IF ~keep THEN << >>
               ELSE IF real_bytes <= Capacity - index_start
               THEN CopiedOut(index_start, real_bytes)
               ELSE CopiedOut(index_start, first_bytes)
                        \o CopiedOut(0, real_bytes - first_bytes)
        /\ index_start' = Advanced(index_start, real_bytes)
        /\ size' = size - real_bytes
        /\ returned' = real_bytes
        /\ UNCHANGED <<buffer, index_end>>

\* Broken on purpose: the write index is left where it is.
ClearWithoutEnd ==
    /\ call' = <<"clear">>
    /\ size' = 0
    /\ index_start' = 0
    /\ output' = << >>
    /\ UNCHANGED <<buffer, index_end, returned>>

Clear ==
    /\ call' = <<"clear">>
    /\ size' = 0
    /\ index_start' = 0
    /\ index_end' = 0
    /\ output' = << >>
    /\ UNCHANGED <<buffer, returned>>

BufferNext ==
    \/ \E n \in 0..MaxBytes : \E data \in [1..n -> Byte] : Write(data)
    \/ \E bytes \in 0..MaxBytes, keep \in BOOLEAN : Read(bytes, keep)
    \/ Clear

BufferSpec == BufferInit /\ [][BufferNext]_bufferVars

-----------------------------------------------------------------------------

BufferTypeOK ==
    /\ buffer \in [Cells -> Byte]
    /\ size \in 0..Capacity
    /\ index_start \in Cells /\ index_end \in Cells
    /\ returned \in Nat
    /\ output \in Seq(Byte)

\* The number of bytes held, which is kept apart from the two indices, is the way
\* from one to the other; where they meet the buffer is empty or full.
SizeIsDistance == index_end = (index_start + size) % Capacity

\* The bytes held, in order.
Contents == [k \in 1..size |-> buffer[(index_start + k - 1) % Capacity]]

Queue == INSTANCE ByteQueue WITH queue <- Contents

\* Whatever the calls, and wherever they reach the end of the array, the buffer is
\* a queue: no byte is lost, repeated or overtaken.
ImplementsQueue == Queue!Spec

=============================================================================
