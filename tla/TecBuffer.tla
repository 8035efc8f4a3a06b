------------------------------- MODULE TecBuffer -------------------------------
(***************************************************************************)
(* tecc_buffer.c: a block of memory with a position and a size that grows  *)
(* as it is written.  The operations that change it are functions of the   *)
(* buffer, a record of data (a function on offsets), pos, size and         *)
(* capacity, as they are in the code; calloc does not fail.  TecBufferCalls*)
(* has the calls of a program, TecBufferDump the dumps.                    *)
(***************************************************************************)
EXTENDS Integers, Sequences

CONSTANTS Bytes, NUL,
          Block       \* block_size

ASSUME BufferAssumption == /\ NUL \in Bytes
                           /\ Block \in Nat \ {0}

-------------------------------------------------------------------------------

(* Faulty: the capacity the write needs is rounded down. *)
NewCapacity_NoBase(b, end) ==
    IF b.capacity = 0 THEN Block ELSE (end \div Block) * Block

(* The loop that follows in the code, meant to round up, compares with the *)
(* old capacity and adds nothing.                                          *)
NewCapacity(b, end) ==
    IF b.capacity = 0 THEN Block ELSE b.capacity + (end \div Block) * Block

(* realloc_buffer: the new block is zeroed, size bytes are copied. *)
Realloc(b, n) ==
    IF n <= b.capacity THEN b
    ELSE [data |-> [i \in 0 .. n - 1 |-> IF i < b.size THEN b.data[i] ELSE NUL],
          pos |-> b.pos, size |-> b.size, capacity |-> n]

EnsureCapacity(b, pos, len) ==
    IF pos + len <= b.capacity THEN b ELSE Realloc(b, NewCapacity(b, pos + len))

Empty == [data |-> << >>, pos |-> 0, size |-> 0, capacity |-> 0]

Larger(m, n) == IF m > n THEN m ELSE n

(* The memcpy of a write; what falls outside of the block is lost here. *)
Stored(b, s) ==
    [data |-> [i \in 0 .. b.capacity - 1 |->
                  IF i \in b.pos .. b.pos + Len(s) - 1
                  THEN s[i - b.pos + 1] ELSE b.data[i]],
     pos |-> b.pos + Len(s),
     size |-> Larger(b.pos + Len(s), b.size),
     capacity |-> b.capacity]

(* Faulty: the size follows the position down as well. *)
Written_Truncate(b, s) ==
    LET w == Stored(EnsureCapacity(b, b.pos, Len(s)), s)
    IN  [w EXCEPT !.size = w.pos]

(* TecBuffer_write of at least one byte. *)
Written(b, s) == Stored(EnsureCapacity(b, b.pos, Len(s)), s)

(* puts steps back over a terminator in front of the position. *)
SteppedBack(b) ==
    IF b.pos > 0 /\ b.data[b.pos - 1] = NUL
    THEN [data |-> b.data, pos |-> b.pos - 1,
          size |-> IF b.size > 0 THEN b.size - 1 ELSE b.size,
          capacity |-> b.capacity]
    ELSE b

(* TecBuffer_puts of a string that is not empty, with its terminator. *)
WithText(b, s) ==
    Written(SteppedBack(EnsureCapacity(b, b.pos, Len(s) + 1)), Append(s, NUL))
===============================================================================
