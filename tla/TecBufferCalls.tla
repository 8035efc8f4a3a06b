---------------------------- MODULE TecBufferCalls ----------------------------
(***************************************************************************)
(* A program and its TecBuffer: init, write, puts, read, seek and done in  *)
(* any order.                                                              *)
(***************************************************************************)
EXTENDS TecBuffer

CONSTANTS MaxLen,     \* bound on the bytes written or read at a time
          MaxEnd,     \* bound on the position
          MaxFirst    \* bound on the first write to a buffer without memory

ASSUME CallsAssumption == {MaxLen, MaxEnd, MaxFirst} \subseteq Nat

VARIABLES buf,   \* the buffer
          out    \* what the last read has returned

bufferVars == <<buf, out>>

-------------------------------------------------------------------------------

(* TecBuffer_init_: any initial size but none gets one block. *)
BufferInit == /\ buf \in {Empty, EnsureCapacity(Empty, 0, 1)}
              /\ out = <<>>

Strings(n, B) == UNION {[1 .. k -> B] : k \in 1 .. n}

BufferWrite(s) == /\ buf.pos + Len(s) <= MaxEnd
                  /\ buf.capacity = 0 => Len(s) <= MaxFirst
                  /\ buf' = Written(buf, s)
                  /\ UNCHANGED out

(* "Appends the given string": the callers' texts reach the end of the     *)
(* content.  One that does not, behind a terminator, would cost it its     *)
(* last byte.                                                              *)
Puts(s) == /\ buf.pos + Len(s) + 1 <= MaxEnd
           /\ buf.pos + Len(s) >= buf.size
           /\ buf' = WithText(buf, s)
           /\ UNCHANGED out

(* A read beyond the end is cut to what is left. *)
Available(len) == IF buf.pos + len > buf.size THEN buf.size - buf.pos ELSE len

BufferRead(len) ==
    /\ out' = [i \in 1 .. Available(len) |-> buf.data[buf.pos + i - 1]]
    /\ buf' = [buf EXCEPT !.pos = @ + Available(len)]

(* TecBuffer_seek within bounds; outside it returns TECC_EOB and nothing   *)
(* changes.  TecBuffer_rewind is a seek to 0.                              *)
Seek(base, offset) ==
    /\ base + offset \in 0 .. buf.size
    /\ buf' = [buf EXCEPT !.pos = base + offset]
    /\ UNCHANGED out

BufferDone == buf' = Empty /\ UNCHANGED out

BufferNext ==
    \/ \E s \in Strings(MaxLen, Bytes) : BufferWrite(s)
    \/ \E s \in Strings(MaxLen, Bytes \ {NUL}) : Puts(s)
    \/ \E len \in 1 .. MaxLen : BufferRead(len)
    \/ \E base \in {0, buf.pos, buf.size}, offset \in -MaxLen .. MaxLen :
          Seek(base, offset)
    \/ BufferDone

BufferSpec == BufferInit /\ [][BufferNext]_bufferVars

-------------------------------------------------------------------------------

(* Types; the position stays within the size, the capacity is a whole      *)
(* number of blocks, and the block of memory is as long as it says.        *)
BufferTypeOK ==
    /\ buf.pos \in 0 .. buf.size
    /\ buf.size \in Nat
    /\ buf.capacity \in Nat
    /\ buf.capacity % Block = 0
    /\ buf.data \in [0 .. buf.capacity - 1 -> Bytes]
    /\ out \in Seq(Bytes)

(* "Expands the buffer if required" (tecc_buffer.h:90): what has been      *)
(* written lies within the memory of the buffer.                           *)
NoOverrun == buf.size <= buf.capacity

S == INSTANCE Stream
        WITH content <- [i \in 1 .. buf.size |-> buf.data[i - 1]],
             at <- buf.pos

(* The buffer is a stream: growing loses no byte, a write over the middle  *)
(* keeps the rest, a read returns what was written, a text put behind a    *)
(* text joins it, and seeking never leaves the content.                    *)
IsStream == S!Spec
===============================================================================
