---------------------------- MODULE TecBufferProofs ----------------------------
(***************************************************************************)
(* The memory of a TecBuffer is long enough for what is written to it, for *)
(* every block size, when the first write into a buffer without memory     *)
(* fits one block; then the buffer is a stream, and its dumps show its     *)
(* bytes.  The second part is about the TCP client whose server reads into *)
(* such a buffer: it uses the lemmas about the operations, and not the     *)
(* bounds on a program's calls.                                            *)
(***************************************************************************)
EXTENDS TecTCPClient, TecBufferDump, TLAPS, SequenceTheorems, FiniteSetTheorems

(* What every operation keeps of the buffer it is given. *)
WellFormed(b) ==
    /\ b = [data |-> b.data, pos |-> b.pos, size |-> b.size,
            capacity |-> b.capacity]
    /\ b.pos \in Nat
    /\ b.size \in Nat
    /\ b.capacity \in Nat
    /\ b.pos <= b.size
    /\ b.size <= b.capacity
    /\ b.capacity % Block = 0
    /\ b.data \in [0 .. b.capacity - 1 -> Bytes]

(* The inductive invariant: BufferTypeOK and NoOverrun together. *)
IInv == WellFormed(buf) /\ out \in Seq(Bytes)

-------------------------------------------------------------------------------

(* Rounding a length down to whole blocks loses less than a block, so that *)
(* one more block than that (tecc_buffer.c:77) is enough.                  *)
LEMMA RoundedDown ==
    ASSUME NEW n \in Nat, NEW d \in Nat \ {0}
    PROVE  /\ n \div d \in Nat
           /\ (n \div d) * d \in Nat
           /\ n < d + (n \div d) * d
  <1>1. n \div d \in Nat
    BY SMT
  <1>2. n < d + (n \div d) * d
    BY SMT
  <1>3. ASSUME NEW k \in Nat PROVE k * d \in Nat
    BY SMT
  <1> QED BY <1>1, <1>2, <1>3

(* A whole number of blocks stays one when whole blocks are added.         *)
LEMMA WholeBlocks ==
    ASSUME NEW m \in Nat, NEW k \in Nat, NEW d \in Nat \ {0}, m % d = 0
    PROVE  (m + k * d) % d = 0
  <1> DEFINE q == m \div d
  <1>1. q \in Nat
    BY SMT
  <1>2. m = q * d + (m % d)
    BY SMT
  <1>3. m = q * d
    <2>1. ASSUME NEW x \in Nat PROVE x + 0 = x
      BY SMT
    <2>2. q * d \in Nat
      BY <1>1, RoundedDown
    <2> QED BY <1>2, <2>1, <2>2
  <1> HIDE DEF q
  <1>4. m + k * d = (q + k) * d
    BY <1>1, <1>3, SMT
  <1>5. ASSUME NEW x \in Nat PROVE (x * d) % d = 0
    BY SMT
  <1>6. q + k \in Nat
    BY <1>1, SMT
  <1> QED BY <1>4, <1>5, <1>6

-------------------------------------------------------------------------------

(* The capacity computed for a position and a length is whole blocks; it   *)
(* is enough if there was memory before or one block is enough.            *)
LEMMA CapacityGrows ==
    ASSUME NEW b, WellFormed(b), NEW end \in Nat, end > b.capacity
    PROVE  /\ NewCapacity(b, end) \in Nat
           /\ NewCapacity(b, end) % Block = 0
           /\ NewCapacity(b, end) > b.capacity
           /\ b.capacity > 0 \/ end <= Block => end <= NewCapacity(b, end)
  <1>1. CASE b.capacity = 0
    <2>1. NewCapacity(b, end) = Block
      BY <1>1 DEF NewCapacity
    <2>2. Block % Block = 0
      BY BufferAssumption, SMT
    <2> QED BY <1>1, <2>1, <2>2, BufferAssumption
  <1>2. CASE b.capacity # 0
    <2> DEFINE k == end \div Block
               added == k * Block
    <2>1. NewCapacity(b, end) = b.capacity + added
      BY <1>2 DEF NewCapacity
    <2>2. k \in Nat /\ added \in Nat /\ end < Block + added
      BY BufferAssumption, RoundedDown
    <2>3. (b.capacity + added) % Block = 0
      BY BufferAssumption, <2>2, WholeBlocks DEF WellFormed
    <2> HIDE DEF added
    <2>4. b.capacity >= Block
      BY <1>2, BufferAssumption, SMT DEF WellFormed
    <2>5. added > 0
      <3>1. end > Block
        BY <2>4, BufferAssumption DEF WellFormed
      <3> QED BY <2>2, <3>1, BufferAssumption
    <2> QED BY <2>1, <2>2, <2>3, <2>4, <2>5, BufferAssumption DEF WellFormed
  <1> QED BY <1>1, <1>2

(* realloc_buffer keeps position and size and the bytes written.           *)
LEMMA Reallocated ==
    ASSUME NEW b, WellFormed(b), NEW n \in Nat, n % Block = 0, n > b.capacity
    PROVE  /\ WellFormed(Realloc(b, n))
           /\ Realloc(b, n).pos = b.pos
           /\ Realloc(b, n).size = b.size
           /\ Realloc(b, n).capacity = n
           /\ \A i \in 0 .. b.size - 1 : Realloc(b, n).data[i] = b.data[i]
  <1> DEFINE zeroed == [i \in 0 .. n - 1 |-> IF i < b.size THEN b.data[i] ELSE NUL]
  <1>1. Realloc(b, n) = [data |-> zeroed, pos |-> b.pos, size |-> b.size,
                         capacity |-> n]
    BY DEF Realloc, WellFormed
  <1>2. zeroed \in [0 .. n - 1 -> Bytes]
    BY BufferAssumption DEF WellFormed
  <1>3. \A i \in 0 .. b.size - 1 : zeroed[i] = b.data[i]
    BY DEF WellFormed
  <1> HIDE DEF zeroed
  <1> QED BY <1>1, <1>2, <1>3 DEF WellFormed

(* ensure_capacity keeps position, size and content.  The memory is enough *)
(* afterwards if there was any before or one block is enough.              *)
LEMMA Ensured ==
    ASSUME NEW b, WellFormed(b), NEW pos \in Nat, NEW length \in Nat \ {0}
    PROVE  /\ WellFormed(EnsureCapacity(b, pos, length))
           /\ EnsureCapacity(b, pos, length).pos = b.pos
           /\ EnsureCapacity(b, pos, length).size = b.size
           /\ EnsureCapacity(b, pos, length).capacity > 0
           /\ b.capacity > 0 \/ pos + length <= Block
                 => pos + length <= EnsureCapacity(b, pos, length).capacity
           /\ \A i \in 0 .. b.size - 1 :
                 EnsureCapacity(b, pos, length).data[i] = b.data[i]
  <1>1. CASE pos + length <= b.capacity
    BY <1>1 DEF EnsureCapacity, WellFormed
  <1>2. CASE ~(pos + length <= b.capacity)
    <2> DEFINE n == NewCapacity(b, pos + length)
    <2>1. EnsureCapacity(b, pos, length) = Realloc(b, n)
      BY <1>2 DEF EnsureCapacity
    <2>2. pos + length \in Nat /\ pos + length > b.capacity
      BY <1>2 DEF WellFormed
    <2>3. /\ n \in Nat
          /\ n % Block = 0
          /\ n > b.capacity
          /\ b.capacity > 0 \/ pos + length <= Block => pos + length <= n
      BY <2>2, CapacityGrows
    <2> HIDE DEF n
    <2> QED BY <2>1, <2>3, Reallocated DEF WellFormed
  <1> QED BY <1>1, <1>2

(* The copy of a write whose bytes fit the memory.                         *)
LEMMA StoredWithin ==
    ASSUME NEW b, WellFormed(b), NEW s \in Seq(Bytes),
           b.pos + Len(s) <= b.capacity
    PROVE  WellFormed(Stored(b, s))
  <1> DEFINE copied == [i \in 0 .. b.capacity - 1 |->
                           IF i \in b.pos .. b.pos + Len(s) - 1
                           THEN s[i - b.pos + 1] ELSE b.data[i]]
             end == b.pos + Len(s)
  <1>1. Stored(b, s) = [data |-> copied, pos |-> end,
                        size |-> Larger(end, b.size), capacity |-> b.capacity]
    BY DEF Stored, WellFormed
  <1>2. copied \in [0 .. b.capacity - 1 -> Bytes]
    BY DEF WellFormed
  <1>3. /\ end \in Nat
        /\ Larger(end, b.size) \in Nat
        /\ end <= Larger(end, b.size)
        /\ Larger(end, b.size) <= b.capacity
    BY DEF Larger, WellFormed
  <1> HIDE DEF copied, end
  <1> QED BY <1>1, <1>2, <1>3 DEF WellFormed

(* TecBuffer_write.                                                        *)
LEMMA WrittenWithin ==
    ASSUME NEW b, WellFormed(b), NEW s \in Seq(Bytes), s # <<>>,
           b.capacity > 0 \/ b.pos + Len(s) <= Block
    PROVE  WellFormed(Written(b, s))
  <1> DEFINE e == EnsureCapacity(b, b.pos, Len(s))
  <1>1. b.pos \in Nat /\ Len(s) \in Nat \ {0}
    BY DEF WellFormed
  <1>2. /\ WellFormed(e)
        /\ e.pos = b.pos
        /\ b.pos + Len(s) <= e.capacity
    BY <1>1, Ensured
  <1>3. WellFormed(Stored(e, s))
    BY <1>2, StoredWithin
  <1> QED BY <1>3 DEF Written

(* Stepping back over a terminator.                                        *)
LEMMA SteppedBackWithin ==
    ASSUME NEW b, WellFormed(b)
    PROVE  /\ WellFormed(SteppedBack(b))
           /\ SteppedBack(b).capacity = b.capacity
  BY DEF SteppedBack, WellFormed

(* TecBuffer_puts: it asks for memory twice, so that even a first text     *)
(* longer than a block fits.                                               *)
LEMMA TextWithin ==
    ASSUME NEW b, WellFormed(b), NEW s \in Seq(Bytes)
    PROVE  WellFormed(WithText(b, s))
  <1> DEFINE e == EnsureCapacity(b, b.pos, Len(s) + 1)
             t == Append(s, NUL)
  <1>1. b.pos \in Nat /\ Len(s) + 1 \in Nat \ {0}
    BY DEF WellFormed
  <1>2. WellFormed(e) /\ e.capacity > 0
    BY <1>1, Ensured
  <1>3. WellFormed(SteppedBack(e)) /\ SteppedBack(e).capacity > 0
    BY <1>2, SteppedBackWithin
  <1>4. t \in Seq(Bytes) /\ t # <<>>
    <2>1. t \in Seq(Bytes)
      BY BufferAssumption
    <2>2. Len(t) = Len(s) + 1 /\ Len(s) \in Nat /\ Len(<<>>) = 0
      OBVIOUS
    <2> QED BY <2>1, <2>2
  <1>5. WellFormed(Written(SteppedBack(e), t))
    BY <1>3, <1>4, WrittenWithin
  <1> QED BY <1>5 DEF WithText

-------------------------------------------------------------------------------

(* TecBuffer_init_ and TecBuffer_done leave a well-formed buffer.          *)
LEMMA EmptyWithin == WellFormed(Empty)
  <1>1. 0 % Block = 0
    BY BufferAssumption, SMT
  <1>2. Empty.data \in [0 .. 0 - 1 -> Bytes]
    BY DEF Empty
  <1> QED BY <1>1, <1>2 DEF Empty, WellFormed

(* TecBuffer_init_ with and without an initial size.                       *)
LEMMA BufferStart == BufferInit => IInv
  <1> SUFFICES ASSUME BufferInit PROVE IInv
    OBVIOUS
  <1>1. WellFormed(EnsureCapacity(Empty, 0, 1))
    BY EmptyWithin, Ensured
  <1> QED BY <1>1, EmptyWithin DEF BufferInit, IInv

(* A byte that is read lies within the block.                              *)
LEMMA WithinBlock ==
    ASSUME NEW pos \in Nat, NEW n \in Nat, NEW size \in Nat, NEW capacity \in Nat,
           pos + n <= size, size <= capacity, NEW i \in 1 .. n
    PROVE  pos + i - 1 \in 0 .. capacity - 1
  BY SMT

(* Every call keeps the buffer well formed.                                *)
LEMMA BufferStep ==
    ASSUME MaxFirst <= Block
    PROVE  IInv /\ [BufferNext]_bufferVars => IInv'
  <1> SUFFICES ASSUME IInv, [BufferNext]_bufferVars PROVE IInv'
    OBVIOUS
  <1>1. ASSUME NEW s \in Strings(MaxLen, Bytes), BufferWrite(s) PROVE IInv'
    <2>1. s \in Seq(Bytes) /\ s # <<>> /\ Len(s) \in Nat
      BY BufferAssumption DEF Strings
    <2>2. buf.capacity > 0 \/ buf.pos + Len(s) <= Block
      BY <1>1, <2>1, BufferAssumption, CallsAssumption DEF BufferWrite, IInv, WellFormed
    <2>3. WellFormed(Written(buf, s))
      BY <2>1, <2>2, WrittenWithin DEF IInv
    <2> QED BY <1>1, <2>3 DEF BufferWrite, IInv
  <1>2. ASSUME NEW s \in Strings(MaxLen, Bytes \ {NUL}), Puts(s) PROVE IInv'
    <2>1. s \in Seq(Bytes)
      BY BufferAssumption DEF Strings
    <2>2. WellFormed(WithText(buf, s))
      BY <2>1, TextWithin DEF IInv
    <2> QED BY <1>2, <2>2 DEF Puts, IInv
  <1>3. ASSUME NEW length \in 1 .. MaxLen, BufferRead(length) PROVE IInv'
    <2>1. Available(length) \in Nat /\ buf.pos + Available(length) <= buf.size
      BY BufferAssumption DEF Available, IInv, WellFormed
    <2>2. WellFormed(buf')
      <3> DEFINE n == Available(length)
      <3>1. buf' = [buf EXCEPT !.pos = @ + n]
        BY <1>3 DEF BufferRead
      <3>2. buf' = [data |-> buf.data, pos |-> buf.pos + n, size |-> buf.size,
                    capacity |-> buf.capacity]
        BY <3>1 DEF IInv, WellFormed
      <3>3. n \in Nat /\ buf.pos + n <= buf.size
        BY <2>1
      <3> HIDE DEF n
      <3> QED BY <3>2, <3>3 DEF IInv, WellFormed
    <2>3. \A i \in 1 .. Available(length) : buf.data[buf.pos + i - 1] \in Bytes
      <3>1. /\ buf.pos \in Nat /\ buf.size \in Nat /\ buf.capacity \in Nat
            /\ buf.size <= buf.capacity
            /\ buf.data \in [0 .. buf.capacity - 1 -> Bytes]
        BY DEF IInv, WellFormed
      <3>2. ASSUME NEW i \in 1 .. Available(length)
            PROVE  buf.pos + i - 1 \in 0 .. buf.capacity - 1
        BY <2>1, <3>1, WithinBlock
      <3> QED BY <3>1, <3>2
    <2>4. out' \in Seq(Bytes)
      BY <1>3, <2>1, <2>3 DEF BufferRead
    <2> QED BY <2>2, <2>4 DEF IInv
  <1>4. ASSUME NEW base \in {0, buf.pos, buf.size}, NEW offset \in -MaxLen .. MaxLen,
               Seek(base, offset)
        PROVE  IInv'
    <2>1. base + offset \in 0 .. buf.size
      BY <1>4 DEF Seek
    <2>2. WellFormed(buf')
      BY <1>4, <2>1 DEF Seek, IInv, WellFormed
    <2> QED BY <1>4, <2>2 DEF Seek, IInv
  <1>5. CASE BufferDone
    BY <1>5, EmptyWithin DEF BufferDone, IInv
  <1>6. CASE UNCHANGED bufferVars
    BY <1>6 DEF bufferVars, IInv
  <1> QED BY <1>1, <1>2, <1>3, <1>4, <1>5, <1>6 DEF BufferNext

(* The buffer stays well formed when no first write exceeds one block.     *)
THEOREM Invariance ==
    ASSUME MaxFirst <= Block
    PROVE  BufferSpec => []IInv
  BY BufferStart, BufferStep, PTL DEF BufferSpec

(* For every block size and every sequence of operations whose first write *)
(* fits one block, the buffer keeps its types: the position stays within   *)
(* the size and the memory is whole blocks.                                *)
THEOREM Typing ==
    ASSUME MaxFirst <= Block
    PROVE  BufferSpec => []BufferTypeOK
  <1>1. IInv => BufferTypeOK
    BY DEF IInv, WellFormed, BufferTypeOK
  <1> QED BY <1>1, Invariance, PTL

(* "Expands the buffer if required" (tecc_buffer.h:90): under the same     *)
(* condition nothing is written beyond the memory of the buffer, although  *)
(* ensure_capacity adds the blocks it needs only once.                     *)
THEOREM MemorySuffices ==
    ASSUME MaxFirst <= Block
    PROVE  BufferSpec => []NoOverrun
  <1>1. IInv => NoOverrun
    BY DEF IInv, WellFormed, NoOverrun
  <1> QED BY <1>1, Invariance, PTL

-------------------------------------------------------------------------------

(* The bytes of a buffer as a sequence, and a string laid over a sequence. *)
Content(b) == [i \in 1 .. b.size |-> b.data[i - 1]]

LaidOver(c, p, s) ==
    SubSeq(c, 1, p) \o s \o SubSeq(c, p + Len(s) + 1, Len(c))

(* The content of a well-formed buffer lies within its memory.             *)
LEMMA ContentIsSeq ==
    ASSUME NEW b, WellFormed(b)
    PROVE  /\ Content(b) \in Seq(Bytes)
           /\ Len(Content(b)) = b.size
           /\ \A i \in 1 .. b.size : Content(b)[i] = b.data[i - 1]
  <1>1. /\ b.size \in Nat /\ b.capacity \in Nat /\ b.size <= b.capacity
        /\ b.data \in [0 .. b.capacity - 1 -> Bytes]
    BY DEF WellFormed
  <1>2. \A i \in 1 .. b.size : i - 1 \in 0 .. b.capacity - 1
    BY <1>1
  <1>3. \A i \in 1 .. b.size : b.data[i - 1] \in Bytes
    BY <1>1, <1>2
  <1>4. /\ Content(b) \in [1 .. b.size -> Bytes]
        /\ \A i \in 1 .. b.size : Content(b)[i] = b.data[i - 1]
    BY <1>3 DEF Content
  <1>5. Content(b) \in Seq(Bytes)
    BY <1>1, <1>4, SeqDef
  <1>6. Len(Content(b)) \in Nat /\ 1 .. Len(Content(b)) = 1 .. b.size
    BY <1>4, <1>5, LenProperties
  <1>7. Len(Content(b)) = b.size
    BY <1>1, <1>6
  <1> QED BY <1>4, <1>5, <1>7

(* What lies where in a sequence with a string laid over it.               *)
LEMMA Overlay ==
    ASSUME NEW c \in Seq(Bytes), NEW s \in Seq(Bytes), NEW p \in 0 .. Len(c)
    PROVE  /\ LaidOver(c, p, s) \in Seq(Bytes)
           /\ Len(LaidOver(c, p, s)) = Larger(p + Len(s), Len(c))
           /\ \A i \in 1 .. Larger(p + Len(s), Len(c)) :
                 LaidOver(c, p, s)[i] = IF i \in p + 1 .. p + Len(s)
                                        THEN s[i - p] ELSE c[i]
  <1> DEFINE l == Len(s)
             n == Len(c)
             head == SubSeq(c, 1, p)
             tail == SubSeq(c, p + l + 1, n)
  <1>1. l \in Nat /\ n \in Nat /\ p \in Nat /\ p <= n
    BY LenProperties
  <1>2. \A i \in 1 .. n : c[i] \in Bytes
    BY ElementOfSeq
  <1>3. head \in Seq(Bytes) /\ Len(head) = p /\ \A i \in 1 .. p : head[i] = c[i]
    <2>1. \A i \in 1 .. p : c[i] \in Bytes
      BY <1>1, <1>2
    <2>2. /\ head \in Seq(Bytes) /\ Len(head) = IF 1 <= p THEN p - 1 + 1 ELSE 0
          /\ \A i \in 1 .. p - 1 + 1 : head[i] = c[1 + i - 1]
      BY <1>1, <2>1, SubSeqProperties
    <2> QED BY <1>1, <2>2
  <1>4. /\ tail \in Seq(Bytes)
        /\ Len(tail) = IF p + l + 1 <= n THEN n - (p + l) ELSE 0
        /\ \A i \in 1 .. n - (p + l) : tail[i] = c[p + l + i]
    <2>1. \A i \in p + l + 1 .. n : c[i] \in Bytes
      BY <1>1, <1>2
    <2>2. p + l + 1 \in Int /\ n \in Int
      BY <1>1
    <2>3. /\ tail \in Seq(Bytes)
          /\ Len(tail) = IF p + l + 1 <= n THEN n - (p + l + 1) + 1 ELSE 0
          /\ \A i \in 1 .. n - (p + l + 1) + 1 : tail[i] = c[p + l + 1 + i - 1]
      BY <2>1, <2>2, SubSeqProperties
    <2> QED BY <1>1, <2>3
  <1> HIDE DEF head, tail
  <1> DEFINE front == head \o s
  <1>5. /\ front \in Seq(Bytes) /\ Len(front) = p + l
        /\ \A i \in 1 .. p + l : front[i] = IF i <= p THEN head[i] ELSE s[i - p]
    BY <1>3, ConcatProperties
  <1> HIDE DEF front
  <1>6. /\ front \o tail \in Seq(Bytes)
        /\ Len(front \o tail) = (p + l) + Len(tail)
        /\ \A i \in 1 .. (p + l) + Len(tail) :
              (front \o tail)[i] = IF i <= p + l THEN front[i] ELSE tail[i - (p + l)]
    <2>1. /\ front \o tail \in Seq(Bytes)
          /\ Len(front \o tail) = Len(front) + Len(tail)
          /\ \A i \in 1 .. Len(front) + Len(tail) :
                (front \o tail)[i] = IF i <= Len(front) THEN front[i]
                                     ELSE tail[i - Len(front)]
      BY <1>4, <1>5, ConcatProperties
    <2> QED BY <1>5, <2>1
  <1>7. LaidOver(c, p, s) = front \o tail
    BY DEF LaidOver, front, head, tail
  <1>0. Larger(p + Len(s), Len(c)) = Larger(p + l, n) /\ p + l = p + Len(s)
    OBVIOUS
  <1> HIDE DEF l, n
  <1>8. (p + l) + Len(tail) = Larger(p + l, n)
    <2>1. Len(tail) = IF p + l + 1 <= n THEN n - (p + l) ELSE 0
      BY <1>4
    <2> QED BY <1>1, <2>1 DEF Larger
  <1>9. ASSUME NEW i \in 1 .. Larger(p + l, n)
        PROVE  (front \o tail)[i] = IF i \in p + 1 .. p + l THEN s[i - p] ELSE c[i]
    <2>1. i \in Nat /\ i >= 1 /\ (i <= p + l \/ i <= n)
      BY <1>1 DEF Larger
    <2>2. CASE i <= p
      BY <1>1, <1>3, <1>5, <1>6, <1>8, <2>1, <2>2
    <2>3. CASE p < i /\ i <= p + l
      BY <1>1, <1>5, <1>6, <1>8, <2>1, <2>3
    <2>4. CASE p + l < i
      <3>1. i - (p + l) \in 1 .. n - (p + l) /\ p + l + (i - (p + l)) = i
        BY <1>1, <2>1, <2>4
      <3>2. tail[i - (p + l)] = c[i]
        BY <1>4, <3>1
      <3>3. i \in 1 .. (p + l) + Len(tail) /\ ~(i <= p + l) /\ i \notin p + 1 .. p + l
        BY <1>1, <1>8, <2>1, <2>4
      <3>4. (front \o tail)[i] = tail[i - (p + l)]
        BY <1>6, <3>3
      <3> QED BY <3>2, <3>3, <3>4
    <2>5. i <= p \/ (p < i /\ i <= p + l) \/ p + l < i
      BY <1>1, <2>1
    <2> QED BY <2>2, <2>3, <2>4, <2>5
  <1> QED BY <1>0, <1>6, <1>7, <1>8, <1>9

(* TecBuffer_write lays the string over the content at the position.       *)
LEMMA WrittenLaysOver ==
    ASSUME NEW b, WellFormed(b), NEW s \in Seq(Bytes), s # <<>>,
           b.capacity > 0 \/ b.pos + Len(s) <= Block
    PROVE  /\ Content(Written(b, s)) = LaidOver(Content(b), b.pos, s)
           /\ Written(b, s).pos = b.pos + Len(s)
  <1> DEFINE e == EnsureCapacity(b, b.pos, Len(s))
             w == Written(b, s)
             o == LaidOver(Content(b), b.pos, s)
  <1>1. b.pos \in 0 .. b.size /\ b.size \in Nat /\ Len(s) \in Nat \ {0}
    BY EmptySeq DEF WellFormed
  <1>2. /\ WellFormed(e) /\ e.pos = b.pos /\ e.size = b.size
        /\ b.pos + Len(s) <= e.capacity
        /\ \A i \in 0 .. b.size - 1 : e.data[i] = b.data[i]
    <2>1. b.pos \in Nat /\ Len(s) \in Nat \ {0} /\ (b.capacity > 0 \/ b.pos + Len(s) <= Block)
      BY <1>1
    <2> QED BY <2>1, Ensured
  <1>3. WellFormed(w)
    BY WrittenWithin
  <1>4. w = Stored(e, s)
    BY DEF Written
  <1> HIDE DEF e, w
  <1>5. /\ w.pos = b.pos + Len(s) /\ w.size = Larger(b.pos + Len(s), b.size)
        /\ w.data = [i \in 0 .. e.capacity - 1 |->
                        IF i \in b.pos .. b.pos + Len(s) - 1
                        THEN s[i - b.pos + 1] ELSE e.data[i]]
    BY <1>2, <1>4 DEF Stored
  <1>6. /\ Content(b) \in Seq(Bytes) /\ Len(Content(b)) = b.size
        /\ \A i \in 1 .. b.size : Content(b)[i] = b.data[i - 1]
    BY ContentIsSeq
  <1>7. /\ Content(w) \in Seq(Bytes) /\ Len(Content(w)) = w.size
        /\ \A i \in 1 .. w.size : Content(w)[i] = w.data[i - 1]
    BY <1>3, ContentIsSeq
  <1>8. /\ o \in Seq(Bytes) /\ Len(o) = w.size
        /\ \A i \in 1 .. w.size : o[i] = IF i \in b.pos + 1 .. b.pos + Len(s)
                                         THEN s[i - b.pos] ELSE Content(b)[i]
    <2>1. b.pos \in 0 .. Len(Content(b))
      BY <1>1, <1>6
    <2> DEFINE z == Larger(b.pos + Len(s), Len(Content(b)))
    <2>2. /\ o \in Seq(Bytes) /\ Len(o) = z
          /\ \A i \in 1 .. z : o[i] = IF i \in b.pos + 1 .. b.pos + Len(s)
                                      THEN s[i - b.pos] ELSE Content(b)[i]
      BY <1>6, <2>1, Overlay
    <2>3. z = w.size
      BY <1>5, <1>6
    <2> HIDE DEF z, o
    <2> QED BY <2>2, <2>3
  <1> HIDE DEF o
  <1>9. ASSUME NEW i \in 1 .. w.size PROVE Content(w)[i] = o[i]
    <2>1. /\ i \in Nat /\ i >= 1 /\ e.size <= e.capacity /\ e.capacity \in Nat
          /\ i <= b.pos + Len(s) \/ i <= b.size
      BY <1>1, <1>2, <1>5 DEF Larger, WellFormed
    <2>2. i - 1 \in 0 .. e.capacity - 1
      BY <1>1, <1>2, <2>1
    <2>3. Content(w)[i] = IF i - 1 \in b.pos .. b.pos + Len(s) - 1
                          THEN s[i - 1 - b.pos + 1] ELSE e.data[i - 1]
      BY <1>5, <1>7, <2>2
    <2>4. CASE i \in b.pos + 1 .. b.pos + Len(s)
      <3>1. i - 1 \in b.pos .. b.pos + Len(s) - 1 /\ i - 1 - b.pos + 1 = i - b.pos
        BY <1>1, <2>1, <2>4
      <3> QED BY <1>8, <2>3, <2>4, <3>1
    <2>5. CASE i \notin b.pos + 1 .. b.pos + Len(s)
      <3>1. /\ i - 1 \notin b.pos .. b.pos + Len(s) - 1
            /\ i \in 1 .. b.size /\ i - 1 \in 0 .. b.size - 1
        BY <1>1, <2>1, <2>5
      <3> QED BY <1>2, <1>6, <1>8, <2>3, <2>5, <3>1
    <2> QED BY <2>4, <2>5
  <1>10. Content(w) = o
    BY <1>7, <1>8, <1>9, SeqEqual
  <1> QED BY <1>5, <1>10 DEF o, w

(* Growing the memory does not change the content.                         *)
LEMMA EnsuredKeeps ==
    ASSUME NEW b, WellFormed(b), NEW pos \in Nat, NEW length \in Nat \ {0}
    PROVE  Content(EnsureCapacity(b, pos, length)) = Content(b)
  <1> DEFINE e == EnsureCapacity(b, pos, length)
  <1>1. e.size = b.size /\ \A i \in 0 .. b.size - 1 : e.data[i] = b.data[i]
    BY Ensured
  <1>2. b.size \in Nat
    BY DEF WellFormed
  <1> HIDE DEF e
  <1>3. \A i \in 1 .. b.size : i - 1 \in 0 .. b.size - 1
    BY <1>2
  <1>4. \A i \in 1 .. b.size : e.data[i - 1] = b.data[i - 1]
    BY <1>1, <1>3
  <1> QED BY <1>1, <1>4 DEF Content, e

(* Text put one byte further back ends where it would begin and end.       *)
LEMMA TextEnd ==
    ASSUME NEW pos \in Nat, NEW size \in Nat, NEW length \in Nat,
           pos > 0, pos <= size, pos + length >= size
    PROVE  /\ pos - 1 \in 0 .. size - 1 /\ pos - 1 \in 0 .. size
           /\ pos - 1 + (length + 1) = pos + length /\ pos + length \in Nat
           /\ pos + length >= size - 1 /\ size - 1 \in Nat
  BY SMT

(* TecBuffer_puts lays text and terminator over the content, from the      *)
(* terminator in front of the position on if there is one.                 *)
LEMMA TextLaysOver ==
    ASSUME NEW b, WellFormed(b), NEW s \in Seq(Bytes),
           b.pos + Len(s) >= b.size
    PROVE  LET p == IF b.pos > 0 /\ Content(b)[b.pos] = NUL
                    THEN b.pos - 1 ELSE b.pos
           IN  /\ Content(WithText(b, s)) = LaidOver(Content(b), p, Append(s, NUL))
               /\ WithText(b, s).pos = p + Len(Append(s, NUL))
  <1> DEFINE e == EnsureCapacity(b, b.pos, Len(s) + 1)
             g == SteppedBack(e)
             t == Append(s, NUL)
             w == WithText(b, s)
             p == IF b.pos > 0 /\ Content(b)[b.pos] = NUL THEN b.pos - 1 ELSE b.pos
  <1>1. b.pos \in Nat /\ b.size \in Nat /\ b.pos <= b.size /\ Len(s) \in Nat
    BY LenProperties DEF WellFormed
  <1>2. t \in Seq(Bytes) /\ t # <<>> /\ Len(t) = Len(s) + 1
    BY BufferAssumption, AppendProperties
  <1>3. Len(s) + 1 \in Nat \ {0}
    BY <1>1
  <1>4. /\ WellFormed(e) /\ e.pos = b.pos /\ e.size = b.size /\ e.capacity > 0
        /\ Content(e) = Content(b)
    BY <1>1, <1>3, Ensured, EnsuredKeeps
  <1>5. WellFormed(g) /\ g.capacity > 0
    BY <1>4, SteppedBackWithin
  <1>6. w = Written(g, t)
    BY DEF WithText
  <1>7. WellFormed(w)
    BY TextWithin
  <1> HIDE DEF e, t, w
  <1>8. b.pos > 0 => Content(b)[b.pos] = e.data[b.pos - 1]
    <2> SUFFICES ASSUME b.pos > 0 PROVE Content(b)[b.pos] = e.data[b.pos - 1]
      OBVIOUS
    <2>1. b.pos \in 1 .. e.size
      BY <1>1, <1>4
    <2> QED BY <1>4, <2>1, ContentIsSeq
  <1>9. CASE b.pos > 0 /\ Content(b)[b.pos] = NUL
    <2>1. /\ g = [data |-> e.data, pos |-> b.pos - 1, size |-> b.size - 1,
                  capacity |-> e.capacity]
      BY <1>1, <1>4, <1>8, <1>9 DEF SteppedBack
    <2>2. g.pos = b.pos - 1 /\ g.size = b.size - 1 /\ g.data = e.data /\ p = b.pos - 1
      BY <1>9, <2>1
    <2> HIDE DEF g, p
    <2>3. /\ Content(w) = LaidOver(Content(g), g.pos, t)
          /\ w.pos = g.pos + Len(t)
      BY <1>2, <1>5, <1>6, WrittenLaysOver
    <2>4. LaidOver(Content(g), p, t) = LaidOver(Content(b), p, t)
      <3> DEFINE n == b.pos + Len(s)
                 cg == Content(g)
                 cb == Content(b)
      <3>1. /\ cg \in Seq(Bytes) /\ Len(cg) = b.size - 1
            /\ cb \in Seq(Bytes) /\ Len(cb) = b.size
            /\ \A i \in 1 .. b.size - 1 : cg[i] = e.data[i - 1]
            /\ \A i \in 1 .. b.size : cb[i] = e.data[i - 1]
        <4>1. /\ cg \in Seq(Bytes) /\ Len(cg) = g.size
              /\ \A i \in 1 .. g.size : cg[i] = g.data[i - 1]
          BY <1>5, ContentIsSeq
        <4>2. /\ Content(e) \in Seq(Bytes) /\ Len(Content(e)) = e.size
              /\ \A i \in 1 .. e.size : Content(e)[i] = e.data[i - 1]
          BY <1>4, ContentIsSeq
        <4>3. cb = Content(e) /\ e.size = b.size
          BY <1>4
        <4>4. g.size = b.size - 1 /\ g.data = e.data
          BY <2>2
        <4> HIDE DEF cg, cb
        <4> QED BY <4>1, <4>2, <4>3, <4>4
      <3> HIDE DEF cg, cb
      <3>7. /\ p = b.pos - 1 /\ b.pos > 0 /\ n = b.pos + Len(s)
            /\ Len(cg) = b.size - 1 /\ Len(cb) = b.size /\ n >= b.size
        BY <1>9, <2>2, <3>1
      <3> HIDE DEF n
      <3>9. /\ b.pos - 1 \in 0 .. b.size - 1 /\ b.pos - 1 \in 0 .. b.size
            /\ b.pos - 1 + (Len(s) + 1) = b.pos + Len(s) /\ b.pos + Len(s) \in Nat
            /\ b.pos + Len(s) >= b.size - 1 /\ b.size - 1 \in Nat
        BY <1>1, <3>7, TextEnd
      <3>2. /\ p \in 0 .. Len(cg) /\ p \in 0 .. Len(cb) /\ p + Len(t) = n
            /\ n \in Nat
        BY <1>2, <3>7, <3>9
      <3>8. n >= Len(cg) /\ n >= Len(cb) /\ Len(cg) \in Nat /\ Len(cb) \in Nat
        BY <1>1, <3>7, <3>9
      <3>3. Larger(p + Len(t), Len(cg)) = n /\ Larger(p + Len(t), Len(cb)) = n
        BY <3>2, <3>8 DEF Larger
      <3>4. /\ LaidOver(cg, p, t) \in Seq(Bytes) /\ Len(LaidOver(cg, p, t)) = n
            /\ \A i \in 1 .. n : LaidOver(cg, p, t)[i] =
                  IF i \in p + 1 .. p + Len(t) THEN t[i - p] ELSE cg[i]
        <4>1. /\ LaidOver(cg, p, t) \in Seq(Bytes)
              /\ Len(LaidOver(cg, p, t)) = Larger(p + Len(t), Len(cg))
              /\ \A i \in 1 .. Larger(p + Len(t), Len(cg)) : LaidOver(cg, p, t)[i] =
                    IF i \in p + 1 .. p + Len(t) THEN t[i - p] ELSE cg[i]
          BY <1>2, <3>1, <3>2, Overlay
        <4> QED BY <3>3, <4>1
      <3>5. /\ LaidOver(cb, p, t) \in Seq(Bytes) /\ Len(LaidOver(cb, p, t)) = n
            /\ \A i \in 1 .. n : LaidOver(cb, p, t)[i] =
                  IF i \in p + 1 .. p + Len(t) THEN t[i - p] ELSE cb[i]
        <4>1. /\ LaidOver(cb, p, t) \in Seq(Bytes)
              /\ Len(LaidOver(cb, p, t)) = Larger(p + Len(t), Len(cb))
              /\ \A i \in 1 .. Larger(p + Len(t), Len(cb)) : LaidOver(cb, p, t)[i] =
                    IF i \in p + 1 .. p + Len(t) THEN t[i - p] ELSE cb[i]
          BY <1>2, <3>1, <3>2, Overlay
        <4> QED BY <3>3, <4>1
      <3>6. ASSUME NEW i \in 1 .. n
            PROVE  LaidOver(cg, p, t)[i] = LaidOver(cb, p, t)[i]
        <4>1. CASE i \in p + 1 .. p + Len(t)
          BY <3>4, <3>5, <4>1
        <4>2. CASE i \notin p + 1 .. p + Len(t)
          <5>0. n \in Nat /\ p \in Nat /\ p + Len(t) = n /\ p <= b.size - 1
            BY <3>2, <3>7, <3>8
          <5>2. i <= p
            BY <4>2, <5>0
          <5>1. i \in 1 .. b.size - 1 /\ i \in 1 .. b.size
            BY <1>1, <5>0, <5>2
          <5> QED BY <3>1, <3>4, <3>5, <4>2, <5>1
        <4> QED BY <4>1, <4>2
      <3> QED BY <3>4, <3>5, <3>6, SeqEqual DEF cg, cb
    <2> QED BY <2>2, <2>3, <2>4 DEF w, p, t
  <1>10. CASE ~(b.pos > 0 /\ Content(b)[b.pos] = NUL)
    <2>1. g = e
      BY <1>1, <1>4, <1>8, <1>10 DEF SteppedBack
    <2>2. p = b.pos
      BY <1>10
    <2> HIDE DEF g, p
    <2>3. /\ Content(w) = LaidOver(Content(b), b.pos, t)
          /\ w.pos = b.pos + Len(t)
      BY <1>2, <1>4, <1>5, <1>6, <2>1, WrittenLaysOver
    <2> QED BY <2>2, <2>3 DEF w, p, t
  <1> QED BY <1>9, <1>10

-------------------------------------------------------------------------------

(* Every step of the buffer is a step of the stream.                       *)
LEMMA StreamStep ==
    ASSUME MaxFirst <= Block
    PROVE  IInv /\ [BufferNext]_bufferVars => [S!Next]_S!vars
  <1> SUFFICES ASSUME IInv, [BufferNext]_bufferVars PROVE [S!Next]_S!vars
    OBVIOUS
  <1>0. /\ WellFormed(buf) /\ Content(buf) \in Seq(Bytes)
        /\ Len(Content(buf)) = buf.size
        /\ buf.pos \in 0 .. buf.size /\ buf.size \in Nat
    BY ContentIsSeq DEF IInv, WellFormed
  <1>1. ASSUME NEW s \in Strings(MaxLen, Bytes), BufferWrite(s) PROVE S!Next
    <2>1. s \in Seq(Bytes) /\ s # <<>> /\ Len(s) \in Nat
      BY BufferAssumption DEF Strings
    <2>2. buf.capacity > 0 \/ buf.pos + Len(s) <= Block
      BY <1>1, <2>1, BufferAssumption, CallsAssumption DEF BufferWrite, IInv, WellFormed
    <2>3. /\ Content(buf)' = LaidOver(Content(buf), buf.pos, s)
          /\ buf'.pos = buf.pos + Len(s)
      BY <1>0, <1>1, <2>1, <2>2, WrittenLaysOver DEF BufferWrite, Content
    <2>4. S!Put(s)
      BY <1>1, <2>3 DEF S!Put, S!WriteAt, S!Over, LaidOver, Content, BufferWrite
    <2>5. s \in S!Strings(MaxLen)
      BY DEF Strings, S!Strings
    <2> QED BY <2>4, <2>5 DEF S!Next
  <1>2. ASSUME NEW s \in Strings(MaxLen, Bytes \ {NUL}), Puts(s) PROVE S!Next
    <2>1. s \in Seq(Bytes) /\ s \in S!Strings(MaxLen)
      BY BufferAssumption DEF Strings, S!Strings
    <2> DEFINE p == IF buf.pos > 0 /\ Content(buf)[buf.pos] = NUL
                    THEN buf.pos - 1 ELSE buf.pos
    <2>2. /\ Content(buf)' = LaidOver(Content(buf), p, Append(s, NUL))
          /\ buf'.pos = p + Len(Append(s, NUL))
      BY <1>0, <1>2, <2>1, TextLaysOver DEF Puts, Content
    <2>3. p = S!Joint
      BY DEF S!Joint, Content
    <2> HIDE DEF p
    <2>4. S!PutText(s)
      BY <1>2, <2>2, <2>3
         DEF S!PutText, S!WriteAt, S!Over, LaidOver, Content, Puts
    <2> QED BY <2>1, <2>4 DEF S!Next
  <1>3. ASSUME NEW length \in 1 .. MaxLen, BufferRead(length) PROVE S!Next
    <2> DEFINE n == Available(length)
               c == Content(buf)
    <2>1. n \in 0 .. MaxLen /\ n <= buf.size - buf.pos
      BY <1>0, CallsAssumption DEF Available
    <2>2. buf' = [buf EXCEPT !.pos = buf.pos + n]
      BY <1>3 DEF BufferRead
    <2>3. /\ buf'.pos = buf.pos + n /\ buf'.size = buf.size /\ buf'.data = buf.data
      BY <1>0, <2>2 DEF WellFormed
    <2>4. out' = SubSeq(c, buf.pos + 1, buf.pos + n)
      <3> DEFINE lo == buf.pos + 1
                 hi == buf.pos + n
                 u == SubSeq(c, lo, hi)
      <3>0. out' = [i \in 1 .. n |-> buf.data[buf.pos + i - 1]]
        BY <1>3 DEF BufferRead
      <3> HIDE DEF n
      <3>1. \A i \in 1 .. buf.size : c[i] = buf.data[i - 1] /\ c[i] \in Bytes
        BY <1>0, ContentIsSeq, ElementOfSeq
      <3>2. /\ lo \in Int /\ hi \in Int /\ \A i \in lo .. hi : c[i] \in Bytes
            /\ hi - lo + 1 = n /\ (lo <= hi <=> n > 0)
            /\ \A i \in 1 .. n : lo + i - 1 = buf.pos + i
        <4>1. buf.pos \in Nat /\ n \in Nat /\ buf.size \in Nat /\ buf.pos + n <= buf.size
          BY <1>0, <2>1
        <4>2. \A i \in lo .. hi : i \in 1 .. buf.size
          BY <4>1
        <4>3. \A i \in lo .. hi : c[i] \in Bytes
          BY <3>1, <4>2
        <4>4. /\ lo \in Int /\ hi \in Int /\ hi - lo + 1 = n /\ (lo <= hi <=> n > 0)
              /\ \A i \in 1 .. n : lo + i - 1 = buf.pos + i
          BY <4>1
        <4> QED BY <4>3, <4>4
      <3> HIDE DEF c, lo, hi
      <3>3. /\ u \in Seq(Bytes)
            /\ Len(u) = IF lo <= hi THEN hi - lo + 1 ELSE 0
            /\ \A i \in 1 .. hi - lo + 1 : u[i] = c[lo + i - 1]
        BY <3>2, SubSeqProperties
      <3> HIDE DEF u
      <3>4. Len(u) = n
        BY <2>1, <3>2, <3>3
      <3>5. \A i \in 1 .. n : u[i] = c[buf.pos + i]
        BY <3>2, <3>3
      <3>6. \A i \in 1 .. n : /\ buf.pos + i \in 1 .. buf.size
                              /\ buf.pos + i - 1 = (buf.pos + i) - 1
        BY <1>0, <2>1
      <3>7. \A i \in 1 .. n : u[i] = buf.data[buf.pos + i - 1]
        BY <3>1, <3>5, <3>6
      <3>8. u \in [1 .. n -> Bytes]
        BY <3>3, <3>4, LenProperties
      <3>9. u = SubSeq(c, buf.pos + 1, buf.pos + n)
        BY DEF u, lo, hi
      <3> QED BY <3>0, <3>7, <3>8, <3>9
    <2> HIDE DEF n
    <2>5. S!Take(n)
      BY <1>0, <2>1, <2>3, <2>4 DEF S!Take, Content
    <2> QED BY <2>1, <2>5 DEF S!Next
  <1>4. ASSUME NEW base \in {0, buf.pos, buf.size}, NEW offset \in -MaxLen .. MaxLen,
               Seek(base, offset)
        PROVE  S!Next
    <2> DEFINE at == base + offset
    <2>1. at \in 0 .. buf.size /\ buf' = [buf EXCEPT !.pos = at] /\ out' = out
      BY <1>4 DEF Seek
    <2> HIDE DEF at
    <2>2. buf'.pos = at /\ buf'.size = buf.size /\ buf'.data = buf.data
      BY <1>0, <2>1 DEF WellFormed
    <2>3. S!Move
      BY <1>0, <2>1, <2>2 DEF S!Move, Content
    <2> QED BY <2>3 DEF S!Next
  <1>5. CASE BufferDone
    <2>1. buf'.pos = 0 /\ buf'.size = 0 /\ out' = out
      BY <1>5 DEF BufferDone, Empty
    <2>2. S!Reset
      BY <2>1 DEF S!Reset
    <2> QED BY <2>2 DEF S!Next
  <1>6. CASE UNCHANGED bufferVars
    BY <1>6 DEF bufferVars, S!vars
  <1> QED BY <1>1, <1>2, <1>3, <1>4, <1>5, <1>6 DEF BufferNext

(* The buffer implements the stream, if no first write exceeds one block:  *)
(* growing the memory loses no byte, a write over the middle keeps what is *)
(* behind it, and puts joins texts without a terminator between them.      *)
THEOREM Refinement ==
    ASSUME MaxFirst <= Block
    PROVE  BufferSpec => IsStream
  <1>1. BufferInit => S!Init
    <2> SUFFICES ASSUME BufferInit PROVE S!Init
      OBVIOUS
    <2>1. /\ EnsureCapacity(Empty, 0, 1).size = Empty.size
          /\ EnsureCapacity(Empty, 0, 1).pos = Empty.pos
      BY EmptyWithin, Ensured
    <2>2. buf.size = 0 /\ buf.pos = 0 /\ out = <<>>
      BY <2>1 DEF BufferInit, Empty
    <2> QED BY <2>2 DEF S!Init
  <1> QED BY <1>1, Invariance, StreamStep, PTL DEF BufferSpec, IsStream, S!Spec

-------------------------------------------------------------------------------

(* to_hex_chars: a printable character tells itself, any other char that   *)
(* is not negative is told by its digits, and a negative one is not.       *)
LEMMA CharsAreTold ==
    ASSUME NEW byte \in 0 .. 255
    PROVE  /\ Chars(AsInt(byte)) = <<Chars(AsInt(byte))[1], Chars(AsInt(byte))[2]>>
           /\ Decoded(Chars(AsInt(byte))) = Told(byte)
  <1> DEFINE ch == AsInt(byte)
             h == ch \div 16
             l == ch % 16
  <1>1. \/ byte > CharMax /\ ch \in -256 .. -1
        \/ ~(byte > CharMax) /\ ch = byte
    BY DumpAssumption DEF AsInt
  <1>2. ch \in Int
    BY <1>1
  <1> HIDE DEF ch
  <1>3. CASE 32 < ch /\ ch < 127
    <2>1. ch = byte /\ ~(byte > CharMax)
      BY <1>1, <1>3
    <2>2. Chars(ch) = <<Space, ch>>
      BY <1>3 DEF Chars
    <2>3. Decoded(<<Space, ch>>) = ch
      BY DEF Decoded
    <2> QED BY <2>1, <2>2, <2>3 DEF Told, ch
  <1>4. CASE ~(32 < ch /\ ch < 127)
    <2>1. h \in Int /\ l \in 0 .. 15 /\ ch = 16 * h + l
      BY <1>2, SMT
    <2>2. Chars(ch) = <<Digit(h), Digit(l)>>
      BY <1>4 DEF Chars
    <2> HIDE DEF h, l
    <2>3. CASE byte > CharMax
      <3>1. h < 0
        BY <1>1, <2>1, <2>3
      <3>2. Digit(h) = Outside
        BY <3>1 DEF Digit
      <3> QED BY <2>2, <2>3, <3>2 DEF Decoded, Space, Outside, Told, ch
    <2>4. CASE ~(byte > CharMax)
      <3>1. ch = byte /\ h \in 0 .. 15
        BY <1>1, <2>1, <2>4
      <3>2. /\ Digit(h) # 32 /\ Digit(h) # -1
            /\ Value(Digit(h)) = h /\ Value(Digit(l)) = l
        BY <2>1, <3>1 DEF Digit, Value
      <3> QED BY <2>1, <2>2, <2>4, <3>1, <3>2
              DEF Decoded, Space, Outside, Told, ch
    <2> QED BY <2>3, <2>4
  <1> QED BY <1>3, <1>4 DEF ch

(* The memory computed for n bytes has room for their text and terminator. *)
LEMMA HexRoom ==
    ASSUME NEW n \in Nat
    PROVE  HexCapacity(n) \in Nat /\ 2 * n < HexCapacity(n)
  <1>1. 2 * n + 1 \in Nat /\ HexBlock \in Nat \ {0}
    BY DumpAssumption
  <1> DEFINE r == ((2 * n + 1) \div HexBlock) * HexBlock
  <1>2. r \in Nat /\ 2 * n + 1 < HexBlock + r
    BY <1>1, RoundedDown
  <1>3. HexCapacity(n) = r + HexBlock
    BY DEF HexCapacity
  <1> HIDE DEF r
  <1> QED BY <1>1, <1>2, <1>3

(* TecBuffer_as_hex of a part that begins within the content: how many     *)
(* bytes it takes, and which two characters stand for each.                *)
LEMMA HexReads ==
    ASSUME NEW b, WellFormed(b), NEW start \in Int, NEW length \in Nat,
           b.size # 0, First(start) <= b.size
    PROVE  LET n   == Count(b, First(start), length)
               hex == AsHex(b, start, length)
           IN  /\ n \in Nat /\ First(start) \in Nat /\ First(start) + n <= b.size
               /\ hex.size = 2 * n /\ hex.size < hex.capacity
               /\ \A j \in 0 .. n - 1 :
                     Decoded(<<hex.data[2 * j], hex.data[2 * j + 1]>>)
                        = Told(b.data[First(start) + j])
  <1> DEFINE f == First(start)
             n == Count(b, f, length)
             c(i) == Chars(AsInt(b.data[f + i \div 2]))[(i % 2) + 1]
             d == [i \in 0 .. HexCapacity(n) - 1 |-> IF i < 2 * n THEN c(i) ELSE NUL]
             hex == AsHex(b, start, length)
  <1>1. /\ b.size \in Nat /\ b.capacity \in Nat /\ b.size <= b.capacity
        /\ b.data \in [0 .. b.capacity - 1 -> Bytes]
    BY DEF WellFormed
  <1>2. f \in Nat /\ f <= b.size
    BY DEF First
  <1>3. hex = [data |-> d, pos |-> 2 * n, size |-> 2 * n, capacity |-> HexCapacity(n)]
    BY <1>1, <1>2 DEF AsHex
  <1> HIDE DEF f
  <1>4. n \in Nat /\ f + n <= b.size
    BY <1>1, <1>2 DEF Count
  <1> HIDE DEF n, hex
  <1>5. HexCapacity(n) \in Nat /\ 2 * n < HexCapacity(n)
    BY <1>4, HexRoom
  <1>6. hex.size = 2 * n /\ hex.capacity = HexCapacity(n) /\ hex.data = d
    BY <1>3
  <1>7. ASSUME NEW j \in 0 .. n - 1
        PROVE  Decoded(<<d[2 * j], d[2 * j + 1]>>) = Told(b.data[f + j])
    <2>1. f + j \in 0 .. b.capacity - 1
      BY <1>1, <1>2, <1>4
    <2>2. b.data[f + j] \in 0 .. 255
      <3>1. b.data[f + j] \in Bytes
        BY <1>1, <2>1
      <3>2. Bytes \subseteq 0 .. 255
        BY DumpAssumption
      <3> QED BY <3>1, <3>2
    <2>3. /\ 2 * j \in 0 .. HexCapacity(n) - 1 /\ 2 * j < 2 * n
          /\ 2 * j + 1 \in 0 .. HexCapacity(n) - 1 /\ 2 * j + 1 < 2 * n
      BY <1>4, <1>5
    <2>4. /\ (2 * j) \div 2 = j /\ (2 * j) % 2 = 0
          /\ (2 * j + 1) \div 2 = j /\ (2 * j + 1) % 2 = 1
      BY SMT
    <2>5. /\ d[2 * j] = Chars(AsInt(b.data[f + j]))[1]
          /\ d[2 * j + 1] = Chars(AsInt(b.data[f + j]))[2]
      BY <2>3, <2>4
    <2> HIDE DEF d
    <2> QED BY <2>2, <2>5, CharsAreTold
  <1> QED BY <1>2, <1>4, <1>5, <1>6, <1>7 DEF f, n, hex

(* The offsets asked for are the next Count ones from First on. *)
LEMMA AskedFor ==
    ASSUME WellFormed(buf), NEW start \in Int, NEW length \in Nat
    PROVE  Asked(start, length) =
             IF buf.size = 0 \/ First(start) > buf.size THEN {}
             ELSE First(start) .. First(start) + Count(buf, First(start), length) - 1
  <1>1. buf.size \in Nat
    BY DEF WellFormed
  <1> QED BY <1>1 DEF Asked, First, Count

(* The hexadecimal text stands for the bytes asked for and nothing else.   *)
LEMMA HexShows ==
    ASSUME WellFormed(buf), NEW start \in Int, NEW length \in Nat
    PROVE  HexTells(start, length)
  <1> DEFINE f == First(start)
             n == Count(buf, f, length)
             hex == AsHex(buf, start, length)
             asked == Asked(start, length)
  <1>1. buf.size \in Nat /\ f \in Nat
    BY DEF WellFormed, First
  <1>2. CASE buf.size = 0 \/ f > buf.size
    <2>1. asked = {}
      BY <1>2, AskedFor
    <2>2. hex = Empty
      BY <1>2 DEF AsHex
    <2>3. hex.size = 0 /\ hex.capacity = 0 /\ Cardinality(asked) = 0
      BY <2>1, <2>2, FS_EmptySet DEF Empty
    <2> HIDE DEF hex, asked
    <2> QED BY <2>1, <2>3 DEF HexTells, hex, asked
  <1>3. CASE buf.size # 0 /\ f <= buf.size
    <2>1. /\ n \in Nat /\ f + n <= buf.size
          /\ hex.size = 2 * n /\ hex.size < hex.capacity
          /\ \A j \in 0 .. n - 1 :
                Decoded(<<hex.data[2 * j], hex.data[2 * j + 1]>>)
                   = Told(buf.data[f + j])
      BY <1>3, HexReads
    <2>2. asked = f .. f + n - 1
      BY <1>1, <1>3, AskedFor
    <2> HIDE DEF f, n, hex, asked
    <2>3. Cardinality(f .. f + n - 1) = n
      <3> DEFINE e == f + n - 1
      <3>1. f \in Int /\ e \in Int /\ (f > e <=> n = 0) /\ e - f + 1 = n
        BY <1>1, <2>1
      <3> HIDE DEF e
      <3>2. Cardinality(f .. e) = IF f > e THEN 0 ELSE e - f + 1
        BY <3>1, FS_Interval
      <3>3. Cardinality(f .. e) = n
        BY <3>1, <3>2
      <3> QED BY <3>3 DEF e
    <2>4. ASSUME NEW i \in asked
          PROVE  Decoded(<<hex.data[2 * (i - f)], hex.data[2 * (i - f) + 1]>>)
                    = Told(buf.data[i])
      <3>1. i - f \in 0 .. n - 1 /\ f + (i - f) = i
        BY <1>1, <2>1, <2>2, <2>4
      <3> QED BY <2>1, <3>1
    <2> QED BY <2>1, <2>2, <2>3, <2>4 DEF HexTells, f, hex, asked
  <1> QED BY <1>1, <1>2, <1>3

(* A table has a cell for each byte asked for, Shift behind its offset.    *)
LEMMA TableShows ==
    ASSUME WellFormed(buf), NEW start \in Int, NEW length \in Nat
    PROVE  TableTells(start, length)
  <1> DEFINE f == First(start)
             n == Count(buf, f, length)
             hex == AsHex(buf, start, length)
             table == AsTable(buf, start, length)
             asked == Asked(start, length)
             at == [k \in DOMAIN table |->
                       table[k].row + table[k].col - Shift(start)]
  <1>1. buf.size \in Nat /\ f \in Nat /\ BytesPerLine \in Nat \ {0}
    BY DumpAssumption DEF WellFormed, First
  <1>2. CASE buf.size = 0 \/ f > buf.size
    <2>1. hex = Empty /\ asked = {}
      BY <1>2, AskedFor DEF AsHex
    <2>2. hex.size = 0
      BY <2>1 DEF Empty
    <2>3. table = <<>>
      BY <2>2 DEF AsTable
    <2> QED BY <2>1, <2>3 DEF TableTells
  <1>3. CASE buf.size # 0 /\ f <= buf.size
    <2>1. /\ n \in Nat /\ f + n <= buf.size /\ hex.size = 2 * n
          /\ \A j \in 0 .. n - 1 :
                Decoded(<<hex.data[2 * j], hex.data[2 * j + 1]>>)
                   = Told(buf.data[f + j])
      BY <1>3, HexReads
    <2>2. asked = f .. f + n - 1
      BY <1>1, <1>3, AskedFor
    <2> HIDE DEF n, hex, asked
    <2>3. (2 * n) \div 2 = n
      BY <2>1, SMT
    <2>4. table = IF hex.size = 0 THEN <<>>
                  ELSE [k \in 1 .. f + n |-> TableCell(hex, f, k - 1)]
      BY <2>1, <2>3 DEF AsTable, hex
    <2>5. hex.size = 0 <=> n = 0
      BY <2>1
    <2> HIDE DEF table, f
    <2>6. ASSUME NEW k \in DOMAIN table
          PROVE  /\ k \in Nat /\ k - 1 \in Nat /\ k - 1 < f + n
                 /\ at[k] = k - 1
                 /\ table[k].text =
                       IF k - 1 < f THEN <<Space, Space>>
                       ELSE <<hex.data[2 * (k - 1 - f)], hex.data[2 * (k - 1 - f) + 1]>>
      <3>1. k \in 1 .. f + n /\ table[k] = TableCell(hex, f, k - 1)
        BY <2>4
      <3> DEFINE j == k - 1
                 s == (f \div BytesPerLine) * BytesPerLine
                 r == (j \div BytesPerLine) * BytesPerLine
                 c == j % BytesPerLine
      <3>2. k \in Nat /\ j \in Nat /\ j < f + n
        BY <1>1, <2>1, <3>1
      <3>3. Shift(start) = s
        BY DEF Shift, f
      <3> HIDE DEF j
      <3>4. /\ table[k].row = s + r
            /\ table[k].col = c
            /\ table[k].text =
                  IF j < f THEN <<Space, Space>>
                  ELSE <<hex.data[2 * (j - f)], hex.data[2 * (j - f) + 1]>>
        BY <3>1 DEF TableCell, j
      <3>5. r + c = j
        BY <1>1, <3>2, SMT
      <3>6. s \in Nat /\ r \in Nat
        BY <1>1, <3>2, RoundedDown
      <3>7. c \in Int
        BY <1>1, <3>2, SMT
      <3> HIDE DEF s, r, c
      <3>8. (s + r) + c - s = j
        BY <3>2, <3>5, <3>6, <3>7
      <3>9. at[k] = j
        BY <3>3, <3>4, <3>8
      <3> HIDE DEF at
      <3> QED BY <3>2, <3>4, <3>9 DEF j
    <2> HIDE DEF at
    <2>7. ASSUME NEW i \in asked
          PROVE  \E k \in DOMAIN table : at[k] = i
      <3>1. i \in Nat /\ i + 1 \in 1 .. f + n /\ n # 0
        BY <1>1, <2>1, <2>2, <2>7
      <3>2. i + 1 \in DOMAIN table
        BY <2>4, <2>5, <3>1
      <3>3. at[i + 1] = i
        <4>1. at[i + 1] = (i + 1) - 1
          BY <2>6, <3>2
        <4> QED BY <3>1, <4>1
      <3> QED BY <3>2, <3>3
    <2>8. ASSUME NEW k \in DOMAIN table
          PROVE  IF at[k] \in asked
                 THEN Decoded(table[k].text) = Told(buf.data[at[k]])
                 ELSE table[k].text = <<Space, Space>>
      <3> DEFINE j == k - 1
      <3>1. j \in Nat /\ j < f + n /\ at[k] = j
        BY <2>6
      <3>2. table[k].text =
               IF j < f THEN <<Space, Space>>
               ELSE <<hex.data[2 * (j - f)], hex.data[2 * (j - f) + 1]>>
        BY <2>6
      <3> HIDE DEF j
      <3>3. j \in asked <=> ~(j < f)
        BY <1>1, <2>1, <2>2, <3>1
      <3>4. CASE j < f
        BY <3>1, <3>2, <3>3, <3>4
      <3>5. CASE ~(j < f)
        <4>1. j - f \in 0 .. n - 1 /\ f + (j - f) = j
          BY <1>1, <2>1, <3>1, <3>5
        <4> QED BY <2>1, <3>1, <3>2, <3>3, <3>5, <4>1
      <3> QED BY <3>4, <3>5
    <2> QED BY <2>7, <2>8 DEF TableTells, table, asked, at
  <1> QED BY <1>1, <1>2, <1>3

(* What the dumps tell, for all 256 bytes and whether char is signed or    *)
(* not, for every part asked for, every block size of the text and every   *)
(* length of a row.  A byte above CharMax is not told, and a table is off  *)
(* by Shift: these are not among the assumptions, but in the conclusion.   *)
THEOREM DumpsShow ==
    ASSUME MaxFirst <= Block
    PROVE  BufferSpec => []DumpsTell
  <1>1. IInv => DumpsTell
    <2>1. Starts \subseteq Int /\ Lengths \subseteq Nat
      BY BufferAssumption DEF Starts, Lengths
    <2>2. CharsTell
      BY CharsAreTold DEF CharsTell
    <2> QED BY <2>1, <2>2, HexShows, TableShows DEF IInv, DumpsTell
  <1> QED BY <1>1, Invariance, PTL

-------------------------------------------------------------------------------

(* The text of a thread's call, and how much of it has been written. *)
Whole(u) == Text(u, op[u], len[u])

Gone(u) == Len(Whole(u)) - Len(left[u])

(* Types of the client's variables and of the connection's. *)
ClientTypes ==
    /\ TypeOK
    /\ wire \in Seq(Bytes) /\ stream \in Seq(Bytes)
    /\ WellFormed(data) /\ data.capacity > 0

(* A thread inside a call holds the guard; what is left is the end of its  *)
(* text, and something is left as long as it writes.                       *)
InCall(u) ==
    /\ upc[u] # "idle" <=> guard = u
    /\ upc[u] = "write" => left[u] # <<>>
    /\ op[u] = "none" => len[u] = 0 /\ left[u] = <<>>
    /\ Gone(u) >= 0
    /\ \A i \in 1 .. Len(left[u]) : left[u][i] = Whole(u)[Gone(u) + i]

ClientTyped == ClientTypes /\ \A u \in Users : InCall(u)

(* A descriptor is open as long as fd says so, an address is held only     *)
(* with it.                                                                *)
SockState ==
    /\ sock.fd = sock.desc
    /\ sock.pai = "held" => sock.fd
    /\ mpc = "start" => sock = NewSocket
    /\ mpc \in {"over", "dead"} => ~sock.fd

(* The texts as TextsWhole has them, and a thread that writes is the last. *)
Lined(at) ==
    /\ \A u \in Users : \A i \in 1 .. Len(Sent(u)) :
          at[u] + i <= Len(stream) /\ stream[at[u] + i] = Sent(u)[i]
    /\ \A i \in 1 .. Len(stream) : \E u \in Users : i \in Places(at, u)
    /\ \A u, v \in Users : u # v => Places(at, u) \cap Places(at, v) = {}

WriterLast(at) ==
    \A u \in Users : upc[u] = "write" => at[u] + Gone(u) = Len(stream)

InLine == \E at \in [Users -> 0 .. Len(stream)] : Lined(at) /\ WriterLast(at)

(* What the client has sent is in the server's buffer or on its way.       *)
Passing ==
    /\ data.pos + Len(wire) = Len(stream)
    /\ \A i \in 1 .. data.pos : data.data[i - 1] = stream[i]
    /\ \A i \in 1 .. Len(wire) : wire[i] = stream[data.pos + i]

Transfer ==
    /\ mpc \in {"start", "connect"} => link = "none" /\ spc = "accept"
    /\ spc = "accept" => wire = stream
    /\ spc \in {"read", "closed"} => Passing
    /\ spc = "closed" => link = "shut" /\ wire = <<>> /\ printed = Shown(data)

-------------------------------------------------------------------------------

(* A text is the thread's byte, n times, and the terminator of a string. *)
LEMMA TextIs ==
    ASSUME NEW u \in Users, NEW o, NEW n \in Nat
    PROVE  /\ Text(u, o, n) \in Seq(Bytes)
           /\ Len(Text(u, o, n)) = IF o \in StrOps THEN n + 1 ELSE n
           /\ \A i \in 1 .. n : Text(u, o, n)[i] = u
           /\ o \in StrOps => Text(u, o, n)[n + 1] = NUL
  <1> DEFINE l == Letters(u, n)
             e == IF o \in StrOps THEN <<NUL>> ELSE <<>>
  <1>1. u \in Bytes /\ NUL \in Bytes
    BY ClientAssumption
  <1>2. l \in [1 .. n -> Bytes] /\ \A i \in 1 .. n : l[i] = u
    BY <1>1 DEF Letters
  <1>3. l \in Seq(Bytes)
    BY <1>2, SeqDef
  <1>4. Len(l) = n
    <2>1. Len(l) \in Nat /\ 1 .. Len(l) = 1 .. n
      BY <1>2, <1>3, LenProperties
    <2> QED BY <2>1
  <1>5. /\ e \in Seq(Bytes)
        /\ Len(e) = IF o \in StrOps THEN 1 ELSE 0
        /\ o \in StrOps => e[1] = NUL
    BY <1>1, EmptySeq
  <1> HIDE DEF l, e
  <1>6. /\ l \o e \in Seq(Bytes)
        /\ Len(l \o e) = Len(l) + Len(e)
        /\ \A i \in 1 .. Len(l) + Len(e) :
              (l \o e)[i] = IF i <= Len(l) THEN l[i] ELSE e[i - Len(l)]
    BY <1>3, <1>5, ConcatProperties
  <1>7. Text(u, o, n) = l \o e
    BY DEF Text, l, e
  <1>8. \A i \in 1 .. n : (l \o e)[i] = u
    BY <1>2, <1>4, <1>5, <1>6
  <1>9. ASSUME o \in StrOps PROVE (l \o e)[n + 1] = NUL
    <2>1. n + 1 \in 1 .. Len(l) + Len(e) /\ ~(n + 1 <= Len(l)) /\ n + 1 - Len(l) = 1
      BY <1>4, <1>5, <1>9
    <2> QED BY <1>5, <1>6, <1>9, <2>1
  <1> QED BY <1>4, <1>5, <1>6, <1>7, <1>8, <1>9

(* A thread that has not called has no text. *)
LEMMA NoText ==
    ASSUME NEW u \in Users
    PROVE  Len(Text(u, "none", 0)) = 0 /\ SubSeq(Text(u, "none", 0), 1, 0) = <<>>
  <1>1. "none" \notin StrOps /\ 0 \in Nat
    BY DEF StrOps
  <1>2. Len(Text(u, "none", 0)) = IF "none" \in StrOps THEN 0 + 1 ELSE 0
    BY <1>1, TextIs
  <1>3. SubSeq(Text(u, "none", 0), 1, 0) = <<>>
    BY SubSeqEmpty
  <1> QED BY <1>1, <1>2, <1>3

(* Sums of naturals are associative. *)
LEMMA Sums ==
    ASSUME NEW p \in Nat, NEW l \in Nat, NEW m \in Nat
    PROVE  p + (l + m) = (p + l) + m
  OBVIOUS

(* A sequence cut in two. *)
LEMMA CutInTwo ==
    ASSUME NEW E, NEW s \in Seq(E), NEW n \in 0 .. Len(s)
    PROVE  /\ SubSeq(s, 1, n) \in Seq(E)
           /\ Len(SubSeq(s, 1, n)) = n
           /\ \A i \in 1 .. n : SubSeq(s, 1, n)[i] = s[i]
           /\ SubSeq(s, n + 1, Len(s)) \in Seq(E)
           /\ Len(SubSeq(s, n + 1, Len(s))) = Len(s) - n
           /\ \A i \in 1 .. Len(s) - n : SubSeq(s, n + 1, Len(s))[i] = s[n + i]
  <1>1. /\ Len(s) \in Nat /\ n \in Nat /\ n <= Len(s) /\ 1 \in Int /\ n + 1 \in Int
        /\ n \in Int /\ Len(s) \in Int
    BY LenProperties
  <1>2. \A i \in 1 .. Len(s) : s[i] \in E
    BY ElementOfSeq
  <1>3. (\A i \in 1 .. n : s[i] \in E) /\ (\A i \in n + 1 .. Len(s) : s[i] \in E)
    BY <1>1, <1>2
  <1>4. /\ SubSeq(s, 1, n) \in Seq(E)
        /\ Len(SubSeq(s, 1, n)) = IF 1 <= n THEN n - 1 + 1 ELSE 0
        /\ \A i \in 1 .. n - 1 + 1 : SubSeq(s, 1, n)[i] = s[1 + i - 1]
    BY <1>1, <1>3, SubSeqProperties
  <1>5. /\ SubSeq(s, n + 1, Len(s)) \in Seq(E)
        /\ Len(SubSeq(s, n + 1, Len(s))) =
              IF n + 1 <= Len(s) THEN Len(s) - (n + 1) + 1 ELSE 0
        /\ \A i \in 1 .. Len(s) - (n + 1) + 1 :
              SubSeq(s, n + 1, Len(s))[i] = s[n + 1 + i - 1]
    BY <1>1, <1>3, SubSeqProperties
  <1>6. n - 1 + 1 = n /\ Len(s) - (n + 1) + 1 = Len(s) - n
    BY <1>1
  <1>7. Len(SubSeq(s, 1, n)) = n /\ Len(SubSeq(s, n + 1, Len(s))) = Len(s) - n
    BY <1>1, <1>4, <1>5
  <1>8. ASSUME NEW i \in 1 .. n PROVE SubSeq(s, 1, n)[i] = s[i]
    <2>1. i \in 1 .. n - 1 + 1 /\ 1 + i - 1 = i
      BY <1>1
    <2> QED BY <1>4, <2>1
  <1>9. ASSUME NEW i \in 1 .. Len(s) - n
        PROVE  SubSeq(s, n + 1, Len(s))[i] = s[n + i]
    <2>1. i \in 1 .. Len(s) - (n + 1) + 1 /\ n + 1 + i - 1 = n + i
      BY <1>1
    <2> QED BY <1>5, <2>1
  <1> QED BY <1>4, <1>5, <1>7, <1>8, <1>9

(* What a thread has sent is the beginning of its text. *)
LEMMA SentIs ==
    ASSUME ClientTyped, NEW u \in Users
    PROVE  /\ Whole(u) \in Seq(Bytes) /\ Len(Whole(u)) \in Nat
           /\ left[u] \in Seq(Bytes) /\ Len(left[u]) \in Nat
           /\ Gone(u) \in 0 .. Len(Whole(u))
           /\ Sent(u) \in Seq(Bytes) /\ Len(Sent(u)) = Gone(u)
           /\ \A i \in 1 .. Gone(u) : Sent(u)[i] = Whole(u)[i]
  <1>1. len[u] \in Nat /\ left[u] \in Seq(Bytes) /\ Gone(u) >= 0
    BY DEF ClientTyped, ClientTypes, TypeOK, InCall
  <1>2. Whole(u) \in Seq(Bytes) /\ Len(Whole(u)) \in Nat /\ Len(left[u]) \in Nat
    BY <1>1, TextIs, LenProperties DEF Whole
  <1>3. Gone(u) \in 0 .. Len(Whole(u))
    BY <1>1, <1>2 DEF Gone
  <1>4. Sent(u) = SubSeq(Whole(u), 1, Gone(u))
    BY DEF Sent, Whole, Gone
  <1> QED BY <1>1, <1>2, <1>3, <1>4, CutInTwo

(* A write to memory there is keeps what stands in front of the position.  *)
LEMMA WrittenBytes ==
    ASSUME NEW b, WellFormed(b), NEW s \in Seq(Bytes), s # <<>>, b.capacity > 0
    PROVE  /\ WellFormed(Written(b, s)) /\ Written(b, s).capacity > 0
           /\ Written(b, s).pos = b.pos + Len(s)
           /\ \A i \in 0 .. b.pos - 1 : Written(b, s).data[i] = b.data[i]
           /\ \A i \in 1 .. Len(s) : Written(b, s).data[b.pos + i - 1] = s[i]
  <1> DEFINE e == EnsureCapacity(b, b.pos, Len(s))
             w == Written(b, s)
  <1>1. /\ b.pos \in Nat /\ b.size \in Nat /\ b.pos <= b.size
        /\ Len(s) \in Nat \ {0}
    BY EmptySeq DEF WellFormed
  <1>2. /\ WellFormed(e) /\ e.pos = b.pos /\ e.capacity > 0
        /\ b.pos + Len(s) <= e.capacity
        /\ \A i \in 0 .. b.size - 1 : e.data[i] = b.data[i]
    BY <1>1, Ensured
  <1>3. e.capacity \in Nat
    BY <1>2 DEF WellFormed
  <1>4. /\ w.pos = e.pos + Len(s) /\ w.capacity = e.capacity
        /\ \A i \in 0 .. e.capacity - 1 :
              w.data[i] = IF i \in e.pos .. e.pos + Len(s) - 1
                          THEN s[i - e.pos + 1] ELSE e.data[i]
    BY DEF Written, Stored
  <1> HIDE DEF e, w
  <1>5. ASSUME NEW i \in 0 .. b.pos - 1 PROVE w.data[i] = b.data[i]
    <2>1. /\ i \in 0 .. e.capacity - 1 /\ i \in 0 .. b.size - 1
          /\ i \notin e.pos .. e.pos + Len(s) - 1
      BY <1>1, <1>2, <1>3
    <2> QED BY <1>2, <1>4, <2>1
  <1>6. ASSUME NEW i \in 1 .. Len(s) PROVE w.data[b.pos + i - 1] = s[i]
    <2>1. PICK j : j = b.pos + i - 1
      OBVIOUS
    <2>2. j \in Nat /\ i <= Len(s) /\ e.pos = b.pos /\ e.pos <= j
      BY <1>1, <1>2, <2>1
    <2>3. j <= e.pos + Len(s) - 1 /\ j - e.pos + 1 = i
      BY <1>1, <2>1, <2>2
    <2>4. j \in e.pos .. e.pos + Len(s) - 1 /\ j \in 0 .. e.capacity - 1
      BY <1>1, <1>2, <1>3, <2>2, <2>3
    <2>5. w.data[j] = s[i]
      BY <1>4, <2>3, <2>4
    <2> QED BY <2>1, <2>5
  <1>7. WellFormed(w)
    BY WrittenWithin DEF w
  <1>8. w.capacity > 0 /\ w.pos = b.pos + Len(s)
    BY <1>2, <1>4
  <1> QED BY <1>5, <1>6, <1>7, <1>8 DEF w

(* The buffer of a handler. *)
LEMMA NewDataWithin == WellFormed(NewData) /\ NewData.capacity > 0
  BY EmptyWithin, Ensured, BufferAssumption DEF NewData

(* A buffer that begins with a string shows it. *)
LEMMA ShownIs ==
    ASSUME NEW b, WellFormed(b), NEW n \in Nat, n < b.capacity, NEW u, u # NUL,
           \A i \in 0 .. n - 1 : b.data[i] = u, b.data[n] = NUL
    PROVE  Shown(b) = Letters(u, n)
  <1> DEFINE ends == {i \in 0 .. b.capacity - 1 : b.data[i] = NUL}
  <1>1. b.capacity \in Nat
    BY DEF WellFormed
  <1>2. n \in ends
    BY <1>1
  <1>3. ends \subseteq Nat
    BY <1>1
  <1>4. \A f \in ends : n <= f
    <2> SUFFICES ASSUME NEW f \in ends, f < n PROVE FALSE
      BY <1>3
    <2>1. f \in 0 .. n - 1
      BY <1>3
    <2> QED BY <2>1
  <1> DEFINE first == CHOOSE e \in ends : \A f \in ends : e <= f
  <1> HIDE DEF ends
  <1>5. first \in ends /\ \A f \in ends : first <= f
    BY <1>2, <1>4
  <1>6. first = n
    <2> HIDE DEF first
    <2>1. first \in Nat /\ first <= n /\ n <= first
      BY <1>2, <1>3, <1>4, <1>5
    <2> QED BY <2>1
  <1>7. Shown(b) = [i \in 1 .. first |-> b.data[i - 1]]
    BY <1>2 DEF Shown, ends
  <1> HIDE DEF first
  <1>8. \A i \in 1 .. n : i - 1 \in 0 .. n - 1
    OBVIOUS
  <1> QED BY <1>6, <1>7, <1>8 DEF Letters

-------------------------------------------------------------------------------

(* What TecSocket_write does: n bytes go from what is left to the wire.    *)
WritesBytes(u, n) ==
    /\ n \in 1 .. Len(left[u])
    /\ left' = [left EXCEPT ![u] = left'[u]]
    /\ left'[u] \in Seq(Bytes) /\ Len(left'[u]) = Len(left[u]) - n
    /\ \A i \in 1 .. Len(left[u]) - n : left'[u][i] = left[u][n + i]
    /\ wire' \in Seq(Bytes) /\ Len(wire') = Len(wire) + n /\ Len(wire') <= WireSize
    /\ \A i \in 1 .. Len(wire) : wire'[i] = wire[i]
    /\ \A i \in 1 .. n : wire'[Len(wire) + i] = left[u][i]
    /\ stream' \in Seq(Bytes) /\ Len(stream') = Len(stream) + n
    /\ \A i \in 1 .. Len(stream) : stream'[i] = stream[i]
    /\ \A i \in 1 .. n : stream'[Len(stream) + i] = left[u][i]

(* A piece appended to a sequence. *)
LEMMA Joined ==
    ASSUME NEW E, NEW s \in Seq(E), NEW t \in Seq(E)
    PROVE  /\ s \o t \in Seq(E) /\ Len(s \o t) = Len(s) + Len(t)
           /\ \A i \in 1 .. Len(s) : (s \o t)[i] = s[i]
           /\ \A i \in 1 .. Len(t) : (s \o t)[Len(s) + i] = t[i]
  <1>1. Len(s) \in Nat /\ Len(t) \in Nat
    BY LenProperties
  <1>2. /\ s \o t \in Seq(E) /\ Len(s \o t) = Len(s) + Len(t)
        /\ \A i \in 1 .. Len(s) + Len(t) :
              (s \o t)[i] = IF i <= Len(s) THEN s[i] ELSE t[i - Len(s)]
    BY ConcatProperties
  <1>3. ASSUME NEW i \in 1 .. Len(s) PROVE (s \o t)[i] = s[i]
    <2>1. i \in 1 .. Len(s) + Len(t) /\ i <= Len(s)
      BY <1>1
    <2> QED BY <1>2, <2>1
  <1>4. ASSUME NEW i \in 1 .. Len(t) PROVE (s \o t)[Len(s) + i] = t[i]
    <2>1. PICK j : j = Len(s) + i
      OBVIOUS
    <2>2. j \in 1 .. Len(s) + Len(t) /\ ~(j <= Len(s)) /\ j - Len(s) = i
      BY <1>1, <2>1
    <2>3. (s \o t)[j] = t[j - Len(s)]
      BY <1>2, <2>2
    <2> QED BY <2>1, <2>2, <2>3
  <1> QED BY <1>2, <1>3, <1>4

(* A write that succeeds at least in part. *)
LEMMA WriteIs ==
    ASSUME ClientTyped, NEW u \in Users, Write(u)
    PROVE  \E n \in 1 .. Len(left[u]) : WritesBytes(u, n)
  <1>1. /\ left[u] \in Seq(Bytes) /\ Len(left[u]) \in Nat /\ Len(wire) \in Nat
        /\ wire \in Seq(Bytes) /\ stream \in Seq(Bytes) /\ WireSize \in Nat
    BY LenProperties, ClientAssumption DEF ClientTyped, ClientTypes, TypeOK
  <1>2. PICK n \in 1 .. WireSize - Len(wire) :
           /\ n <= Len(left[u])
           /\ wire' = wire \o SubSeq(left[u], 1, n)
           /\ stream' = stream \o SubSeq(left[u], 1, n)
           /\ left' = [left EXCEPT ![u] = SubSeq(left[u], n + 1, Len(left[u]))]
    BY DEF Write
  <1> DEFINE piece == SubSeq(left[u], 1, n)
             rest == SubSeq(left[u], n + 1, Len(left[u]))
  <1>3. n \in 1 .. Len(left[u]) /\ n \in 0 .. Len(left[u]) /\ Len(wire) + n <= WireSize
    BY <1>1, <1>2
  <1>4. /\ piece \in Seq(Bytes) /\ Len(piece) = n
        /\ \A i \in 1 .. n : piece[i] = left[u][i]
        /\ rest \in Seq(Bytes) /\ Len(rest) = Len(left[u]) - n
        /\ \A i \in 1 .. Len(left[u]) - n : rest[i] = left[u][n + i]
    <2> DEFINE l == left[u]
    <2>1. l \in Seq(Bytes) /\ n \in 0 .. Len(l)
      BY <1>1, <1>3
    <2> HIDE DEF l
    <2>2. /\ SubSeq(l, 1, n) \in Seq(Bytes) /\ Len(SubSeq(l, 1, n)) = n
          /\ \A i \in 1 .. n : SubSeq(l, 1, n)[i] = l[i]
          /\ SubSeq(l, n + 1, Len(l)) \in Seq(Bytes)
          /\ Len(SubSeq(l, n + 1, Len(l))) = Len(l) - n
          /\ \A i \in 1 .. Len(l) - n : SubSeq(l, n + 1, Len(l))[i] = l[n + i]
      BY <2>1, CutInTwo
    <2> QED BY <2>2 DEF l
  <1> HIDE DEF piece, rest
  <1>5. left' = [left EXCEPT ![u] = rest]
    BY <1>2 DEF rest
  <1>6. left'[u] = rest
    BY <1>5 DEF ClientTyped, ClientTypes, TypeOK, InCall
  <1>7. wire' = wire \o piece /\ stream' = stream \o piece
    BY <1>2 DEF piece
  <1>8. /\ wire' \in Seq(Bytes) /\ Len(wire') = Len(wire) + n
        /\ \A i \in 1 .. Len(wire) : wire'[i] = wire[i]
        /\ \A i \in 1 .. n : wire'[Len(wire) + i] = left[u][i]
    <2>1. PICK w : w = wire \o piece
      OBVIOUS
    <2>2. /\ w \in Seq(Bytes) /\ Len(w) = Len(wire) + Len(piece)
          /\ \A i \in 1 .. Len(wire) : w[i] = wire[i]
          /\ \A i \in 1 .. Len(piece) : w[Len(wire) + i] = piece[i]
      <3>1. piece \in Seq(Bytes) /\ wire \in Seq(Bytes)
        BY <1>1, <1>4
      <3>2. /\ wire \o piece \in Seq(Bytes)
            /\ Len(wire \o piece) = Len(wire) + Len(piece)
            /\ \A i \in 1 .. Len(wire) : (wire \o piece)[i] = wire[i]
            /\ \A i \in 1 .. Len(piece) : (wire \o piece)[Len(wire) + i] = piece[i]
        BY <3>1, Joined
      <3> QED BY <2>1, <3>2, Zenon
    <2>3. wire' = w
      BY <1>7, <2>1
    <2> QED BY <1>4, <2>2, <2>3
  <1>9. /\ stream' \in Seq(Bytes) /\ Len(stream') = Len(stream) + n
        /\ \A i \in 1 .. Len(stream) : stream'[i] = stream[i]
        /\ \A i \in 1 .. n : stream'[Len(stream) + i] = left[u][i]
    <2>1. PICK w : w = stream \o piece
      OBVIOUS
    <2>2. /\ w \in Seq(Bytes) /\ Len(w) = Len(stream) + Len(piece)
          /\ \A i \in 1 .. Len(stream) : w[i] = stream[i]
          /\ \A i \in 1 .. Len(piece) : w[Len(stream) + i] = piece[i]
      <3>1. piece \in Seq(Bytes) /\ stream \in Seq(Bytes)
        BY <1>1, <1>4
      <3>2. /\ stream \o piece \in Seq(Bytes)
            /\ Len(stream \o piece) = Len(stream) + Len(piece)
            /\ \A i \in 1 .. Len(stream) : (stream \o piece)[i] = stream[i]
            /\ \A i \in 1 .. Len(piece) : (stream \o piece)[Len(stream) + i] = piece[i]
        BY <3>1, Joined
      <3> QED BY <2>1, <3>2, Zenon
    <2>3. stream' = w
      BY <1>7, <2>1
    <2> QED BY <1>4, <2>2, <2>3
  <1>10. /\ left'[u] \in Seq(Bytes) /\ Len(left'[u]) = Len(left[u]) - n
         /\ \A i \in 1 .. Len(left[u]) - n : left'[u][i] = left[u][n + i]
    BY <1>4, <1>6
  <1>11. left' = [left EXCEPT ![u] = left'[u]]
    BY <1>5, <1>6
  <1>12. Len(wire') <= WireSize
    BY <1>3, <1>8
  <1>13. WritesBytes(u, n)
    BY <1>3, <1>8, <1>9, <1>10, <1>11, <1>12, Zenon DEF WritesBytes
  <1> QED BY <1>3, <1>13

-------------------------------------------------------------------------------

(* Initially nothing is called and nothing is sent. *)
LEMMA ClientStart == Init => ClientTyped
  <1> SUFFICES ASSUME Init PROVE ClientTyped
    OBVIOUS
  <1>1. <<>> \in Seq(Bytes) /\ Len(<<>>) = 0
    BY EmptySeq
  <1>2. 0 \in 0 .. MaxText /\ 0 <= WireSize
    BY ClientAssumption
  <1>3. data = NewData /\ WellFormed(data) /\ data.capacity > 0
    BY NewDataWithin DEF Init
  <1>4. data.pos <= data.size /\ data.size <= data.capacity
    BY <1>3 DEF WellFormed
  <1>5. sock \in [fd : BOOLEAN, pai : {"none", "held", "lost"}, desc : BOOLEAN]
    BY DEF Init, NewSocket
  <1>6. TypeOK
    BY <1>1, <1>2, <1>4, <1>5 DEF Init, TypeOK
  <1>7. ClientTypes
    BY <1>1, <1>3, <1>6 DEF Init, ClientTypes
  <1>8. ASSUME NEW u \in Users PROVE InCall(u)
    <2>1. op[u] = "none" /\ len[u] = 0 /\ left[u] = <<>> /\ upc[u] = "idle" /\ guard # u
      BY ClientAssumption DEF Init
    <2>2. Whole(u) \in Seq(Bytes) /\ Len(Whole(u)) = 0
      BY <2>1, TextIs DEF Whole, StrOps
    <2> QED BY <1>1, <2>1, <2>2 DEF InCall, Gone
  <1> QED BY <1>7, <1>8 DEF ClientTyped

(* A call that has its result. *)
LEMMA ReturnKeeps ==
    ASSUME ClientTyped, NEW u \in Users, NEW r \in {"ok", "err"},
           upc[u] # "idle", Return(u, r),
           UNCHANGED <<mpc, op, len, left, sock, linkVars, serverVars, countVars>>
    PROVE  ClientTyped'
  <1>1. ClientTypes'
    BY DEF Return, ClientTyped, ClientTypes, TypeOK, linkVars, serverVars, countVars,
           WellFormed
  <1>2. ASSUME NEW v \in Users PROVE InCall(v)'
    <2>1. upc[v] # "idle" => v = u
      BY ClientAssumption DEF ClientTyped, InCall
    <2>2. guard' = NONE /\ upc' = [upc EXCEPT ![u] = "idle"]
      BY DEF Return
    <2>3. upc'[v] = "idle"
      BY <2>1, <2>2 DEF ClientTyped, ClientTypes, TypeOK
    <2>4. v # NONE
      BY ClientAssumption
    <2>5. UNCHANGED <<op, len, left, Whole(v), Gone(v)>>
      BY DEF Whole, Gone
    <2> QED BY <2>2, <2>3, <2>4, <2>5 DEF ClientTyped, InCall
  <1> QED BY <1>1, <1>2 DEF ClientTyped

(* Nothing happens to the calls. *)
LEMMA CallsStay ==
    ASSUME \A u \in Users : InCall(u), UNCHANGED <<upc, op, len, left, guard>>
    PROVE  \A u \in Users : InCall(u)'
  BY DEF InCall, Whole, Gone

(* Every step keeps the types, and a call in order. *)
LEMMA ClientTypedStep == ClientTyped /\ [Next]_vars => ClientTyped'
  <1> SUFFICES ASSUME ClientTyped, [Next]_vars PROVE ClientTyped'
    OBVIOUS
  <1> USE DEF userVars, serverVars, linkVars, countVars
  <1>0. /\ \A u \in Users : InCall(u)
        /\ sock \in [fd : BOOLEAN, pai : {"none", "held", "lost"}, desc : BOOLEAN]
        /\ link \in {"none", "open", "shut"}
        /\ NewSocket \in [fd : BOOLEAN, pai : {"none", "held", "lost"}, desc : BOOLEAN]
    BY DEF ClientTyped, ClientTypes, TypeOK, NewSocket
  <1>1. CASE Start \/ Connect \/ Close \/ Done \/ ShutDown \/ NoShutDown
    <2>1. /\ UNCHANGED <<userVars, wire, stream, serverVars>>
          /\ mpc' \in {"start", "connect", "up", "close", "done", "over", "dead"}
      BY <1>1 DEF Start, Connect, Close, Done, ShutDown, NoShutDown
    <2>2. sock' \in [fd : BOOLEAN, pai : {"none", "held", "lost"}, desc : BOOLEAN]
      <3>1. \/ UNCHANGED sock
            \/ sock' = NewSocket
            \/ OpenFails
            \/ Open
            \/ sock' = Closed(sock)
        BY <1>1 DEF Start, Connect, Close, Done, ShutDown, NoShutDown,
                    Refused, NoPeerInfo, Established
      <3>2. CASE OpenFails
        BY <1>0, <3>2 DEF OpenFails
      <3>3. CASE Open
        BY <3>3 DEF Open
      <3>4. CASE sock' = Closed(sock)
        BY <1>0, <3>4 DEF Closed
      <3> QED BY <1>0, <3>1, <3>2, <3>3, <3>4
    <2>3. link' \in {"none", "open", "shut"}
      BY <1>0, <1>1 DEF Start, Connect, Close, Done, ShutDown, NoShutDown,
                        Refused, NoPeerInfo, Established, Shut
    <2>4. ClientTypes'
      BY <2>1, <2>2, <2>3 DEF ClientTyped, ClientTypes, TypeOK, WellFormed
    <2> QED BY <1>0, <2>1, <2>4, CallsStay DEF ClientTyped
  <1>2. CASE Die
    <2>1. ClientTypes'
      BY <1>0, <1>2 DEF Die, Shut, ClientTyped, ClientTypes, TypeOK, WellFormed
    <2>2. /\ upc' = [u \in Users |-> "idle"] /\ guard' = NONE
          /\ UNCHANGED <<op, len, left>>
      BY <1>2 DEF Die
    <2>3. \A u \in Users : InCall(u)'
      BY <1>0, <2>2, ClientAssumption DEF InCall, Whole, Gone
    <2> QED BY <2>1, <2>3 DEF ClientTyped
  <1>3. CASE NextClient
    <2>1. <<>> \in Seq(Bytes) /\ Len(<<>>) = 0
      BY EmptySeq
    <2>2. 0 \in 0 .. MaxText /\ 0 <= WireSize
      BY ClientAssumption
    <2>3. ClientTypes'
      BY <1>0, <1>3, <2>1, <2>2
         DEF NextClient, ClientTyped, ClientTypes, TypeOK, WellFormed
    <2>4. ASSUME NEW u \in Users PROVE InCall(u)'
      <3>1. /\ op'[u] = "none" /\ len'[u] = 0 /\ left'[u] = <<>> /\ upc'[u] = "idle"
            /\ guard' # u
        BY <1>3, ClientAssumption DEF NextClient
      <3>2. Text(u, "none", 0) \in Seq(Bytes) /\ Len(Text(u, "none", 0)) = 0
        BY TextIs DEF StrOps
      <3>3. Whole(u)' = Text(u, "none", 0)
        BY <3>1 DEF Whole
      <3> QED BY <2>1, <3>1, <3>2, <3>3 DEF InCall, Gone
    <2> QED BY <2>3, <2>4 DEF ClientTyped
  <1>4. CASE ReadEnd \/ ReadFails
    <2>1. /\ UNCHANGED <<mpc, userVars, sock, linkVars, data>>
          /\ spc' \in {"closed", "failed"}
      BY <1>4 DEF ReadEnd, PrintAndClose, ReadFails
    <2>2. ClientTypes'
      BY <2>1 DEF ClientTyped, ClientTypes, TypeOK, WellFormed
    <2> QED BY <1>0, <2>1, <2>2, CallsStay DEF ClientTyped
  <1>5. CASE AcceptFresh \/ AcceptReuse \/ AcceptNoPeerInfo
    <2>1. /\ UNCHANGED <<mpc, userVars, sock, linkVars>>
          /\ spc' \in {"read", "failed"}
          /\ data' \in {NewData, [data EXCEPT !.pos = 0]}
      BY <1>5 DEF AcceptFresh, AcceptReuse, AcceptNoPeerInfo, AcceptInto
    <2>2. /\ WellFormed([data EXCEPT !.pos = 0])
          /\ [data EXCEPT !.pos = 0].capacity = data.capacity
      BY DEF ClientTyped, ClientTypes, WellFormed
    <2>3. WellFormed(data') /\ data'.capacity > 0
      BY <2>1, <2>2, NewDataWithin DEF ClientTyped, ClientTypes
    <2>4. data'.pos <= data'.size /\ data'.size <= data'.capacity
      BY <2>3 DEF WellFormed
    <2>5. ClientTypes'
      <3>1. TypeOK'
        BY <2>1, <2>4 DEF ClientTyped, ClientTypes, TypeOK
      <3>2. WellFormed(data)'
        BY <2>3 DEF WellFormed
      <3> QED BY <2>1, <2>3, <3>1, <3>2 DEF ClientTyped, ClientTypes
    <2> QED BY <1>0, <2>1, <2>5, CallsStay DEF ClientTyped
  <1>6. CASE Read
    <2>1. PICK n \in 1 .. IoBuf :
             /\ n <= Len(wire)
             /\ data' = Written(data, SubSeq(wire, 1, n))
             /\ wire' = SubSeq(wire, n + 1, Len(wire))
      BY <1>6 DEF Read
    <2>2. UNCHANGED <<mpc, userVars, sock, link, stream, spc>>
      BY <1>6 DEF Read
    <2>3. wire \in Seq(Bytes) /\ Len(wire) \in Nat /\ n \in 0 .. Len(wire) /\ n > 0
      BY <2>1, LenProperties DEF ClientTyped, ClientTypes
    <2>4. /\ SubSeq(wire, 1, n) \in Seq(Bytes) /\ Len(SubSeq(wire, 1, n)) = n
          /\ wire' \in Seq(Bytes) /\ Len(wire') = Len(wire) - n
      BY <2>1, <2>3, CutInTwo
    <2>5. SubSeq(wire, 1, n) # <<>>
      BY <2>3, <2>4, EmptySeq
    <2>6. WellFormed(data') /\ data'.capacity > 0
      BY <2>1, <2>4, <2>5, WrittenBytes DEF ClientTyped, ClientTypes
    <2>7. data'.pos <= data'.size /\ data'.size <= data'.capacity
      BY <2>6 DEF WellFormed
    <2>8. Len(wire') <= WireSize
      BY <2>3, <2>4, ClientAssumption DEF ClientTyped, ClientTypes, TypeOK
    <2>9. TypeOK'
      BY <2>2, <2>7, <2>8 DEF ClientTyped, ClientTypes, TypeOK
    <2>10. ClientTypes'
      <3>1. WellFormed(data)'
        BY <2>6 DEF WellFormed
      <3> QED BY <2>2, <2>4, <2>6, <2>9, <3>1 DEF ClientTyped, ClientTypes
    <2> QED BY <1>0, <2>2, <2>10, CallsStay DEF ClientTyped
  <1>7. ASSUME NEW u \in Users,
               \/ WriteNoFd(u) \/ WriteBroken(u) \/ WriteInterrupted(u) \/ RecvNothing(u)
        PROVE  ClientTyped'
    <2>1. /\ upc[u] # "idle"
          /\ Return(u, "ok") \/ Return(u, "err")
          /\ UNCHANGED <<mpc, op, len, left, sock, linkVars, serverVars, countVars>>
      BY <1>7, Zenon DEF WriteNoFd, WriteBroken, WriteInterrupted, RecvNothing
    <2> QED BY <2>1, ReturnKeeps
  <1>8. ASSUME NEW u \in Users, NEW o \in Ops, NEW n \in 0 .. MaxText, Call(u, o, n)
        PROVE  ClientTyped'
    <2>1. /\ upc[u] = "idle" /\ guard = NONE /\ guard' = u
          /\ o = "recv" <=> n = 0
          /\ op' = [op EXCEPT ![u] = o]
          /\ len' = [len EXCEPT ![u] = n]
          /\ left' = [left EXCEPT ![u] = Text(u, o, n)]
          /\ upc' = [upc EXCEPT ![u] = IF o = "recv" THEN "read" ELSE "write"]
          /\ UNCHANGED <<mpc, res, sock, linkVars, serverVars>>
      BY <1>8 DEF Call, Enters
    <2>2. n \in Nat /\ Text(u, o, n) \in Seq(Bytes) /\ Len(Text(u, o, n)) \in Nat
      BY TextIs, LenProperties
    <2>3. ClientTypes'
      BY <2>1, <2>2 DEF ClientTyped, ClientTypes, TypeOK, WellFormed
    <2>4. /\ upc'[u] # "idle" /\ left'[u] = Text(u, o, n)
          /\ op'[u] = o /\ len'[u] = n
          /\ upc'[u] = "write" => o # "recv"
      BY <2>1 DEF ClientTyped, ClientTypes, TypeOK
    <2>5. Whole(u)' = Text(u, o, n) /\ Gone(u)' = 0
      BY <2>2, <2>4 DEF Whole, Gone
    <2>6. o # "recv" => Text(u, o, n) # <<>>
      <3>1. o # "recv" => n > 0
        BY <2>1, <2>2
      <3>2. o # "recv" => Len(Text(u, o, n)) > 0
        BY <2>2, <3>1, TextIs
      <3> QED BY <3>2, EmptySeq
    <2>7. o # "none"
      BY DEF Ops, StrOps
    <2>8. InCall(u)'
      BY <2>1, <2>2, <2>4, <2>5, <2>6, <2>7 DEF InCall
    <2>9. ASSUME NEW v \in Users, v # u PROVE InCall(v)'
      <3>1. UNCHANGED <<upc[v], op[v], len[v], left[v]>>
        BY <2>1, <2>9 DEF ClientTyped, ClientTypes, TypeOK
      <3>2. UNCHANGED <<Whole(v), Gone(v)>>
        BY <3>1 DEF Whole, Gone
      <3>3. guard # v /\ guard' # v
        BY <2>1, <2>9, ClientAssumption
      <3> QED BY <1>0, <3>1, <3>2, <3>3 DEF InCall
    <2> QED BY <2>3, <2>8, <2>9 DEF ClientTyped
  <1>9. ASSUME NEW u \in Users, Write(u) PROVE ClientTyped'
    <2>1. PICK n \in 1 .. Len(left[u]) : WritesBytes(u, n)
      BY <1>9, WriteIs
    <2>2. /\ upc[u] = "write"
          /\ IF left'[u] # <<>> THEN UNCHANGED <<upc, res, guard>> ELSE AfterWrite(u)
          /\ UNCHANGED <<mpc, op, len, sock, link, serverVars, countVars>>
      BY <1>9 DEF Write
    <2>3. \/ left'[u] # <<>> /\ UNCHANGED <<upc, res, guard>>
          \/ left'[u] = <<>> /\ Return(u, "ok")
          \/ /\ left'[u] = <<>> /\ upc' = [upc EXCEPT ![u] = "read"]
             /\ UNCHANGED <<res, guard>>
      BY <2>2, Zenon DEF AfterWrite
    <2>4. /\ upc' \in [Users -> {"idle", "write", "read"}]
          /\ res' \in [Users -> {"none", "ok", "err"}]
          /\ guard' \in Users \cup {NONE}
      BY <2>3 DEF Return, ClientTyped, ClientTypes, TypeOK
    <2>5. ClientTypes'
      <3>1. /\ left' \in [Users -> Seq(Bytes)] /\ Len(wire') <= WireSize
            /\ wire' \in Seq(Bytes) /\ stream' \in Seq(Bytes)
        BY <2>1 DEF WritesBytes, ClientTyped, ClientTypes, TypeOK
      <3>2. TypeOK'
        BY <2>2, <2>4, <3>1 DEF ClientTyped, ClientTypes, TypeOK
      <3>3. WellFormed(data)' /\ data'.capacity > 0
        BY <2>2 DEF ClientTyped, ClientTypes, WellFormed
      <3> QED BY <3>1, <3>2, <3>3 DEF ClientTypes
    <2>6. guard = u /\ u # NONE
      BY <1>0, <2>2, ClientAssumption DEF InCall
    <2>7. InCall(u)'
      <3>1. (upc'[u] # "idle" <=> guard' = u) /\ (upc'[u] = "write" => left'[u] # <<>>)
        BY <2>2, <2>3, <2>6 DEF Return, ClientTyped, ClientTypes, TypeOK
      <3>2. op'[u] = op[u] /\ len'[u] = len[u] /\ Whole(u)' = Whole(u) /\ op[u] # "none"
        BY <1>0, <2>2 DEF Whole, InCall
      <3>3. /\ left'[u] \in Seq(Bytes) /\ Len(left'[u]) = Len(left[u]) - n
            /\ \A i \in 1 .. Len(left[u]) - n : left'[u][i] = left[u][n + i]
        BY <2>1 DEF WritesBytes
      <3>4. /\ Len(left[u]) \in Nat /\ Len(Whole(u)) \in Nat
            /\ Gone(u) = Len(Whole(u)) - Len(left[u]) /\ Gone(u) >= 0
            /\ \A i \in 1 .. Len(left[u]) : left[u][i] = Whole(u)[Gone(u) + i]
        BY <1>0, SentIs DEF InCall, Gone
      <3>5. Gone(u)' = Gone(u) + n /\ Gone(u)' >= 0
        BY <3>2, <3>3, <3>4 DEF Gone
      <3>6. ASSUME NEW i \in 1 .. Len(left'[u])
            PROVE  left'[u][i] = Whole(u)[Gone(u)' + i]
        <4>1. /\ i \in 1 .. Len(left[u]) - n /\ n + i \in 1 .. Len(left[u])
              /\ Gone(u) + (n + i) = Gone(u)' + i
          BY <3>3, <3>4, <3>5
        <4> QED BY <3>3, <3>4, <4>1
      <3> QED BY <3>1, <3>2, <3>5, <3>6 DEF InCall
    <2>8. ASSUME NEW v \in Users, v # u PROVE InCall(v)'
      <3>1. UNCHANGED <<upc[v], op[v], len[v], left[v]>>
        BY <2>1, <2>2, <2>3, <2>8
           DEF Return, WritesBytes, ClientTyped, ClientTypes, TypeOK
      <3>2. UNCHANGED <<Whole(v), Gone(v)>>
        BY <3>1 DEF Whole, Gone
      <3>3. guard # v /\ guard' # v
        BY <2>3, <2>6, <2>8, ClientAssumption DEF Return
      <3> QED BY <1>0, <3>1, <3>2, <3>3 DEF InCall
    <2> QED BY <2>5, <2>7, <2>8 DEF ClientTyped
  <1>10. CASE UNCHANGED vars
    <2>1. ClientTypes'
      BY <1>10 DEF vars, ClientTyped, ClientTypes, TypeOK, WellFormed
    <2> QED BY <1>0, <1>10, <2>1, CallsStay DEF vars, ClientTyped
  <1> QED
    BY <1>1, <1>2, <1>3, <1>4, <1>5, <1>6, <1>7, <1>8, <1>9, <1>10
       DEF Next, Main, Server, Chance, User

-------------------------------------------------------------------------------

(* Steps of main, of the process and of the next client change the socket. *)
LEMMA SockStep == ClientTyped /\ SockState /\ [Next]_vars => SockState'
  <1> SUFFICES ASSUME ClientTyped, SockState, [Next]_vars PROVE SockState'
    OBVIOUS
  <1>0. /\ sock \in [fd : BOOLEAN, pai : {"none", "held", "lost"}, desc : BOOLEAN]
        /\ NewSocket.fd = FALSE /\ NewSocket.desc = FALSE /\ NewSocket.pai = "none"
    BY DEF ClientTyped, ClientTypes, TypeOK, NewSocket
  <1>1. CASE UNCHANGED <<mpc, sock>>
    BY <1>1 DEF SockState
  <1>2. CASE mpc' \notin {"start", "over", "dead"} /\ UNCHANGED sock
    BY <1>2 DEF SockState
  <1>3. CASE sock' = NewSocket
    BY <1>0, <1>3 DEF SockState, NewSocket
  <1>4. CASE mpc' # "start" /\ sock' = Closed(sock)
    <2>1. CASE sock.fd
      BY <1>3, <1>4, <2>1 DEF Closed
    <2>2. CASE ~sock.fd
      BY <1>4, <2>2 DEF SockState, Closed
    <2> QED BY <2>1, <2>2
  <1>5. CASE Start
    <2>1. sock = NewSocket /\ mpc' \in {"done", "connect"}
      BY <1>5 DEF Start, SockState
    <2>2. CASE OpenFails
      <3>1. sock' \in {[NewSocket EXCEPT !.pai = p] : p \in {"none", "lost"}}
        BY <2>1, <2>2 DEF OpenFails
      <3>2. sock'.fd = FALSE /\ sock'.desc = FALSE /\ sock'.pai # "held"
        BY <3>1 DEF NewSocket
      <3> QED BY <2>1, <3>2 DEF SockState
    <2>3. CASE Open
      BY <2>1, <2>3 DEF Open, SockState
    <2> QED BY <1>5, <2>2, <2>3 DEF Start
  <1>6. CASE Connect
    <2>1. /\ mpc' \in {"done", "up"}
          /\ UNCHANGED sock \/ sock' = Closed(sock)
      BY <1>6 DEF Connect, Refused, NoPeerInfo, Established
    <2> QED BY <1>2, <1>4, <2>1
  <1>7. CASE ShutDown \/ NoShutDown
    <2>1. mpc' \in {"close", "done"} /\ UNCHANGED sock
      BY <1>7 DEF ShutDown, NoShutDown
    <2> QED BY <1>2, <2>1
  <1>8. CASE Close \/ Die \/ NextClient
    BY <1>3, <1>8 DEF Close, Die, NextClient
  <1>9. CASE Done
    BY <1>4, <1>9 DEF Done
  <1>10. CASE Server \/ AcceptNoPeerInfo \/ ReadFails
    <2>1. UNCHANGED <<mpc, sock>>
      BY <1>10 DEF Server, AcceptFresh, AcceptReuse, AcceptInto, Read, ReadEnd,
                   PrintAndClose, AcceptNoPeerInfo, ReadFails
    <2> QED BY <1>1, <2>1
  <1>11. ASSUME NEW u \in Users,
                \/ User(u) \/ WriteInterrupted(u)
                \/ \E o \in Ops, n \in 0 .. MaxText : Call(u, o, n)
         PROVE  SockState'
    <2>1. UNCHANGED <<mpc, sock>>
      BY <1>11 DEF User, WriteNoFd, Write, WriteBroken, RecvNothing, WriteInterrupted,
                   Call, Enters
    <2> QED BY <1>1, <2>1
  <1>12. CASE UNCHANGED vars
    BY <1>1, <1>12 DEF vars
  <1> QED
    BY <1>5, <1>6, <1>7, <1>8, <1>9, <1>10, <1>11, <1>12 DEF Next, Main, Chance

(* What has been sent is in the buffer or on its way: the one grows as the *)
(* other shrinks.                                                          *)
LEMMA TransferStep == ClientTyped /\ Transfer /\ [Next]_vars => Transfer'
  <1> SUFFICES ASSUME ClientTyped, Transfer, [Next]_vars PROVE Transfer'
    OBVIOUS
  <1> USE DEF userVars, serverVars, linkVars, countVars
  <1>0. /\ wire \in Seq(Bytes) /\ stream \in Seq(Bytes)
        /\ Len(wire) \in Nat /\ Len(stream) \in Nat
        /\ WellFormed(data) /\ data.pos \in Nat /\ data.capacity > 0
    BY LenProperties DEF ClientTyped, ClientTypes, WellFormed
  <1>1. CASE /\ UNCHANGED <<wire, stream, spc, data, printed>>
             /\ link' \in {link, "shut"}
             /\ mpc' \in {"start", "connect"} => UNCHANGED <<mpc, link>>
    BY <1>1 DEF Transfer, Passing
  <1>2. CASE Start \/ Connect
    <2>1. /\ UNCHANGED <<wire, stream, spc, data, printed>>
          /\ spc = "accept" /\ link = "none" /\ wire = stream
          /\ mpc' = "connect" => UNCHANGED link
          /\ mpc' # "start"
      BY <1>2 DEF Start, Connect, Transfer
    <2> QED BY <2>1 DEF Transfer
  <1>3. CASE Close \/ Done \/ ShutDown \/ NoShutDown \/ Die
    <2>1. /\ UNCHANGED <<wire, stream, spc, data, printed>>
          /\ mpc' \notin {"start", "connect"}
          /\ link' \in {link, "shut", Shut(link)}
      BY <1>3 DEF Close, Done, ShutDown, NoShutDown, Die
    <2>2. Shut(link) \in {link, "shut"}
      BY DEF Shut
    <2> QED BY <1>1, <2>1, <2>2
  <1>4. CASE NextClient
    <2>1. spc' = "accept" /\ link' = "none" /\ wire' = stream'
      BY <1>4 DEF NextClient
    <2> QED BY <2>1 DEF Transfer
  <1>5. CASE AcceptNoPeerInfo \/ ReadFails
    <2>1. spc' = "failed" /\ UNCHANGED <<mpc, link>> /\ (link # "none" \/ spc = "read")
      BY <1>5 DEF AcceptNoPeerInfo, ReadFails
    <2> QED BY <2>1 DEF Transfer
  <1>6. CASE AcceptFresh \/ AcceptReuse
    <2>1. /\ UNCHANGED <<mpc, link, wire, stream>>
          /\ spc = "accept" /\ link # "none" /\ spc' = "read"
          /\ data' \in {NewData, [data EXCEPT !.pos = 0]}
      BY <1>6 DEF AcceptFresh, AcceptReuse, AcceptInto
    <2>2. NewData.pos = 0
      <3>1. Block \in Nat \ {0} /\ 0 \in Nat
        BY BufferAssumption
      <3>2. NewData.pos = Empty.pos
        BY <3>1, EmptyWithin, Ensured DEF NewData
      <3> QED BY <3>2 DEF Empty
    <2>3. [data EXCEPT !.pos = 0].pos = 0
      BY <1>0 DEF WellFormed
    <2>4. data'.pos = 0 /\ wire' = stream'
      BY <2>1, <2>2, <2>3 DEF Transfer
    <2>5. Passing'
      BY <1>0, <2>1, <2>4 DEF Passing
    <2> QED BY <2>1, <2>5 DEF Transfer
  <1>7. CASE Read
    <2>1. PICK n \in 1 .. IoBuf :
             /\ n <= Len(wire)
             /\ data' = Written(data, SubSeq(wire, 1, n))
             /\ wire' = SubSeq(wire, n + 1, Len(wire))
      BY <1>7 DEF Read
    <2>2. UNCHANGED <<mpc, link, stream, spc>> /\ spc = "read" /\ Passing
      BY <1>7 DEF Read, Transfer
    <2>3. n \in 0 .. Len(wire) /\ n > 0
      BY <1>0, <2>1
    <2> DEFINE piece == SubSeq(wire, 1, n)
    <2>4. /\ piece \in Seq(Bytes) /\ Len(piece) = n
          /\ \A i \in 1 .. n : piece[i] = wire[i]
          /\ Len(wire') = Len(wire) - n
          /\ \A i \in 1 .. Len(wire) - n : wire'[i] = wire[n + i]
      BY <1>0, <2>1, <2>3, CutInTwo
    <2>5. data' = Written(data, piece)
      BY <2>1
    <2> HIDE DEF piece
    <2>6. piece # <<>>
      BY <2>3, <2>4, EmptySeq
    <2>7. /\ data'.pos = data.pos + n
          /\ \A i \in 0 .. data.pos - 1 : data'.data[i] = data.data[i]
          /\ \A i \in 1 .. n : data'.data[data.pos + i - 1] = piece[i]
      <3>1. /\ Written(data, piece).pos = data.pos + Len(piece)
            /\ \A i \in 0 .. data.pos - 1 :
                  Written(data, piece).data[i] = data.data[i]
            /\ \A i \in 1 .. Len(piece) :
                  Written(data, piece).data[data.pos + i - 1] = piece[i]
        <4>1. WellFormed(data) /\ piece \in Seq(Bytes) /\ data.capacity > 0
          BY <1>0, <2>4
        <4> QED BY <2>6, <4>1, WrittenBytes
      <3> QED BY <2>4, <2>5, <3>1
    <2>8. data'.pos + Len(wire') = Len(stream')
      BY <1>0, <2>2, <2>3, <2>4, <2>7 DEF Passing
    <2>9. ASSUME NEW i \in 1 .. data'.pos PROVE data'.data[i - 1] = stream'[i]
      <3>1. CASE i \in 1 .. data.pos
        <4>1. i - 1 \in 0 .. data.pos - 1
          BY <1>0, <3>1
        <4> QED BY <2>2, <2>7, <3>1, <4>1 DEF Passing
      <3>2. CASE i \notin 1 .. data.pos
        <4>1. PICK j : j = i - data.pos
          OBVIOUS
        <4>2. j \in 1 .. n /\ j \in 1 .. Len(wire) /\ data.pos + j = i
          BY <1>0, <2>3, <2>7, <3>2, <4>1
        <4>3. data.pos + j - 1 = i - 1
          BY <1>0, <4>2
        <4>4. data'.data[i - 1] = wire[j]
          BY <2>4, <2>7, <4>2, <4>3
        <4> QED BY <2>2, <4>2, <4>4 DEF Passing
      <3> QED BY <3>1, <3>2
    <2>10. ASSUME NEW i \in 1 .. Len(wire') PROVE wire'[i] = stream'[data'.pos + i]
      <3>1. /\ i \in 1 .. Len(wire) - n /\ n + i \in 1 .. Len(wire)
            /\ data.pos + (n + i) = data'.pos + i
        BY <1>0, <2>3, <2>4, <2>7
      <3> QED BY <2>2, <2>4, <3>1 DEF Passing
    <2>11. Passing'
      BY <2>8, <2>9, <2>10 DEF Passing
    <2> QED BY <2>2, <2>11 DEF Transfer
  <1>8. CASE ReadEnd
    <2>1. /\ UNCHANGED <<mpc, link, wire, stream, data>>
          /\ spc = "read" /\ wire = <<>> /\ link = "shut" /\ spc' = "closed"
          /\ printed' = Shown(data)
      BY <1>8 DEF ReadEnd, PrintAndClose
    <2> QED BY <2>1 DEF Transfer, Passing
  <1>9. ASSUME NEW u \in Users,
               \/ WriteNoFd(u) \/ WriteBroken(u) \/ WriteInterrupted(u) \/ RecvNothing(u)
               \/ \E o \in Ops, n \in 0 .. MaxText : Call(u, o, n)
        PROVE  Transfer'
    <2>1. UNCHANGED <<mpc, linkVars, serverVars>>
      BY <1>9 DEF WriteNoFd, WriteBroken, RecvNothing, WriteInterrupted, Call, Enters
    <2> QED BY <1>1, <2>1
  <1>10. ASSUME NEW u \in Users, Write(u) PROVE Transfer'
    <2>1. UNCHANGED <<mpc, link, serverVars>> /\ link = "open"
      BY <1>10 DEF Write
    <2>2. PICK n \in 1 .. Len(left[u]) : WritesBytes(u, n)
      BY <1>10, WriteIs
    <2>3. Len(left[u]) \in Nat /\ left[u] \in Seq(Bytes)
      BY SentIs
    <2>4. /\ wire' \in Seq(Bytes) /\ Len(wire') = Len(wire) + n
          /\ \A i \in 1 .. Len(wire) : wire'[i] = wire[i]
          /\ \A i \in 1 .. n : wire'[Len(wire) + i] = left[u][i]
          /\ stream' \in Seq(Bytes) /\ Len(stream') = Len(stream) + n
          /\ \A i \in 1 .. Len(stream) : stream'[i] = stream[i]
          /\ \A i \in 1 .. n : stream'[Len(stream) + i] = left[u][i]
      BY <2>2 DEF WritesBytes
    <2>5. ASSUME spc = "accept" PROVE wire' = stream'
      <3>1. wire = stream
        BY <2>5 DEF Transfer
      <3>2. ASSUME NEW i \in 1 .. Len(wire') PROVE wire'[i] = stream'[i]
        <4>1. CASE i \in 1 .. Len(wire)
          BY <2>4, <3>1, <4>1
        <4>2. CASE i \notin 1 .. Len(wire)
          <5>1. PICK j \in 1 .. n : i = Len(wire) + j
            <6>1. i - Len(wire) \in 1 .. n /\ i = Len(wire) + (i - Len(wire))
              BY <1>0, <2>4, <4>2
            <6> QED BY <6>1
          <5> QED BY <2>4, <3>1, <5>1
        <4> QED BY <4>1, <4>2
      <3>3. Len(wire') = Len(stream')
        BY <2>4, <3>1
      <3> QED BY <2>4, <3>2, <3>3, SeqEqual
    <2>6. ASSUME spc = "read" PROVE Passing'
      <3>1. Passing
        BY <2>6 DEF Transfer
      <3>2. /\ data.pos + Len(wire) = Len(stream)
            /\ \A i \in 1 .. data.pos : data.data[i - 1] = stream[i]
            /\ \A i \in 1 .. Len(wire) : wire[i] = stream[data.pos + i]
        BY <3>1 DEF Passing
      <3>3. data' = data
        BY <2>1
      <3>7. /\ data.pos \in Nat /\ Len(wire) \in Nat /\ n \in Nat
            /\ data.pos + Len(wire) = Len(stream)
            /\ Len(wire') = Len(wire) + n /\ Len(stream') = Len(stream) + n
        BY <1>0, <2>3, <2>4, <3>2
      <3>4. data.pos + Len(wire') = Len(stream')
        <4>1. data.pos + (Len(wire) + n) = (data.pos + Len(wire)) + n
          BY <3>7, Sums
        <4> QED BY <3>7, <4>1, Zenon
      <3>5. ASSUME NEW i \in 1 .. data.pos PROVE data.data[i - 1] = stream'[i]
        <4>1. i \in 1 .. Len(stream)
          BY <1>0, <3>2
        <4> QED BY <2>4, <3>2, <4>1
      <3>6. ASSUME NEW i \in 1 .. Len(wire') PROVE wire'[i] = stream'[data.pos + i]
        <4>1. CASE i \in 1 .. Len(wire)
          <5>1. data.pos + i \in 1 .. Len(stream)
            BY <1>0, <3>2, <4>1
          <5> QED BY <2>4, <3>2, <4>1, <5>1
        <4>2. CASE i \notin 1 .. Len(wire)
          <5>1. PICK j \in 1 .. n : i = Len(wire) + j
            <6>1. i - Len(wire) \in 1 .. n /\ i = Len(wire) + (i - Len(wire))
              BY <1>0, <2>4, <4>2
            <6> QED BY <6>1
          <5>2. data.pos + i = Len(stream) + j
            <6>1. j \in Nat /\ data.pos + (Len(wire) + j) = (data.pos + Len(wire)) + j
              BY <3>7, Sums
            <6> QED BY <3>7, <5>1, <6>1
          <5> QED BY <2>4, <5>1, <5>2
        <4> QED BY <4>1, <4>2
      <3> QED BY <3>3, <3>4, <3>5, <3>6 DEF Passing
    <2>7. spc # "closed" /\ mpc \notin {"start", "connect"}
      BY <2>1 DEF Transfer
    <2> QED BY <2>1, <2>5, <2>6, <2>7 DEF Transfer
  <1>11. CASE UNCHANGED vars
    BY <1>1, <1>11 DEF vars
  <1> QED
    BY <1>2, <1>3, <1>4, <1>5, <1>6, <1>7, <1>8, <1>9, <1>10, <1>11
       DEF Next, Main, Server, Chance, User

-------------------------------------------------------------------------------

(* Nothing is called and nothing is written. *)
LEMMA LineStays ==
    ASSUME InLine, UNCHANGED <<op, len, left, stream>>,
           \A u \in Users : upc'[u] = "write" => upc[u] = "write"
    PROVE  InLine'
  <1>1. PICK at \in [Users -> 0 .. Len(stream)] : Lined(at) /\ WriterLast(at)
    BY DEF InLine
  <1>2. \A u \in Users : UNCHANGED <<Sent(u), Gone(u), Places(at, u)>>
    BY DEF Sent, Whole, Gone, Places
  <1>3. Lined(at)'
    BY <1>1, <1>2 DEF Lined
  <1>4. WriterLast(at)'
    BY <1>1, <1>2 DEF WriterLast
  <1> QED BY <1>1, <1>3, <1>4 DEF InLine

(* A call's text begins behind all others: nobody else holds the guard. *)
LEMMA CallInLine ==
    ASSUME ClientTyped, InLine, NEW u \in Users, NEW o \in Ops, NEW n \in 0 .. MaxText,
           Call(u, o, n), ClientTyped'
    PROVE  InLine'
  <1>1. PICK at \in [Users -> 0 .. Len(stream)] : Lined(at) /\ WriterLast(at)
    BY DEF InLine
  <1>2. /\ guard = NONE /\ op[u] = "none"
        /\ op' = [op EXCEPT ![u] = o]
        /\ len' = [len EXCEPT ![u] = n]
        /\ left' = [left EXCEPT ![u] = Text(u, o, n)]
        /\ upc' = [upc EXCEPT ![u] = IF o = "recv" THEN "read" ELSE "write"]
        /\ stream' = stream
    BY DEF Call, Enters, linkVars
  <1>3. \A v \in Users : upc[v] = "idle"
    BY <1>2, ClientAssumption DEF ClientTyped, InCall
  <1>4. stream \in Seq(Bytes) /\ Len(stream) \in Nat
    BY LenProperties DEF ClientTyped, ClientTypes
  <1>5. Len(Sent(u)) = 0
    <2>1. len[u] = 0 /\ left[u] = <<>>
      BY <1>2 DEF ClientTyped, InCall
    <2>2. Whole(u) = Text(u, "none", 0) /\ Len(left[u]) = 0
      BY <1>2, <2>1, EmptySeq DEF Whole
    <2>3. Gone(u) = 0
      BY <2>2, NoText DEF Gone
    <2> QED BY <2>3, SentIs
  <1>6. Gone(u)' = 0 /\ Len(Sent(u)') = 0
    <2>1. op'[u] = o /\ len'[u] = n /\ left'[u] = Text(u, o, n)
      BY <1>2 DEF ClientTyped, ClientTypes, TypeOK
    <2>2. Len(Text(u, o, n)) \in Nat
      BY TextIs, LenProperties
    <2>3. Gone(u)' = 0
      BY <2>1, <2>2 DEF Gone, Whole
    <2>4. SubSeq(Text(u, o, n), 1, 0) = <<>>
      BY SubSeqEmpty
    <2>5. Sent(u)' = <<>>
      BY <2>1, <2>2, <2>4 DEF Sent
    <2> QED BY <2>3, <2>5, EmptySeq
  <1>7. \A v \in Users \ {u} : UNCHANGED <<Sent(v), Gone(v), Places(at, v)>>
    <2> SUFFICES ASSUME NEW v \in Users \ {u}
                 PROVE  UNCHANGED <<Sent(v), Gone(v), Places(at, v)>>
      OBVIOUS
    <2>1. UNCHANGED <<op[v], len[v], left[v]>>
      BY <1>2 DEF ClientTyped, ClientTypes, TypeOK
    <2> QED BY <2>1 DEF Sent, Gone, Whole, Places
  <1>8. PICK bt \in [Users -> 0 .. Len(stream)] :
           bt[u] = Len(stream) /\ \A v \in Users \ {u} : bt[v] = at[v]
    <2>1. [at EXCEPT ![u] = Len(stream)] \in [Users -> 0 .. Len(stream)]
      BY <1>4
    <2> QED BY <2>1
  <1>9. /\ Places(bt, u)' = {} /\ Places(at, u) = {}
        /\ \A v \in Users \ {u} : Places(bt, v)' = Places(at, v)
    <2>1. /\ Places(bt, u)' = bt[u] + 1 .. bt[u] + Len(Sent(u)')
          /\ Places(at, u) = at[u] + 1 .. at[u] + Len(Sent(u))
          /\ \A v \in Users : Places(bt, v)' = bt[v] + 1 .. bt[v] + Len(Sent(v)')
          /\ \A v \in Users : Places(at, v) = at[v] + 1 .. at[v] + Len(Sent(v))
      BY DEF Places
    <2>2. at[u] \in Nat /\ bt[u] \in Nat
      BY <1>4
    <2>3. Places(bt, u)' = {} /\ Places(at, u) = {}
      BY <1>5, <1>6, <2>1, <2>2
    <2> QED BY <1>7, <1>8, <2>1, <2>3
  <1>10. Lined(bt)'
    <2>1. ASSUME NEW v \in Users, NEW i \in 1 .. Len(Sent(v)')
          PROVE  bt[v] + i <= Len(stream') /\ stream'[bt[v] + i] = Sent(v)'[i]
      <3>1. v # u
        BY <1>6, <2>1
      <3> QED BY <1>1, <1>2, <1>7, <1>8, <2>1, <3>1 DEF Lined
    <2>2. ASSUME NEW i \in 1 .. Len(stream')
          PROVE  \E v \in Users : i \in Places(bt, v)'
      <3>1. PICK v \in Users : i \in Places(at, v)
        BY <1>1, <1>2 DEF Lined
      <3>2. v # u
        BY <1>9, <3>1
      <3> QED BY <1>9, <3>1, <3>2
    <2>3. ASSUME NEW v \in Users, NEW w \in Users, v # w
          PROVE  Places(bt, v)' \cap Places(bt, w)' = {}
      <3>1. CASE v = u \/ w = u
        BY <1>9, <3>1
      <3>2. CASE v # u /\ w # u
        BY <1>1, <1>9, <2>3, <3>2 DEF Lined
      <3> QED BY <3>1, <3>2
    <2> QED BY <2>1, <2>2, <2>3 DEF Lined
  <1>11. WriterLast(bt)'
    <2>1. \A v \in Users \ {u} : upc'[v] = "idle"
      BY <1>2, <1>3 DEF ClientTyped, ClientTypes, TypeOK
    <2>2. bt[u] + Gone(u)' = Len(stream')
      BY <1>2, <1>4, <1>6, <1>8
    <2> QED BY <2>1, <2>2 DEF WriterLast
  <1> QED BY <1>2, <1>8, <1>10, <1>11 DEF InLine

(* The text of the thread that writes grows at the end of the stream. *)
LEMMA WriteInLine ==
    ASSUME ClientTyped, InLine, NEW u \in Users, Write(u), ClientTyped'
    PROVE  InLine'
  <1>1. PICK at \in [Users -> 0 .. Len(stream)] : Lined(at) /\ WriterLast(at)
    BY DEF InLine
  <1>2. PICK n \in 1 .. Len(left[u]) : WritesBytes(u, n)
    BY WriteIs
  <1>3. /\ upc[u] = "write" /\ UNCHANGED <<op, len>>
        /\ upc' = upc \/ \A v \in Users : upc'[v] # "write" \/ upc'[v] = upc[v]
    <2>1. upc[u] = "write" /\ UNCHANGED <<op, len>>
      BY DEF Write
    <2>2. upc' = upc \/ \E p \in {"idle", "read"} : upc' = [upc EXCEPT ![u] = p]
      BY DEF Write, AfterWrite, Return
    <2>3. CASE upc' = upc
      BY <2>1, <2>3
    <2>4. ASSUME NEW p \in {"idle", "read"}, upc' = [upc EXCEPT ![u] = p],
                 NEW v \in Users
          PROVE  upc'[v] # "write" \/ upc'[v] = upc[v]
      <3>1. upc'[v] = IF v = u THEN p ELSE upc[v]
        BY <2>4 DEF ClientTyped, ClientTypes, TypeOK
      <3> QED BY <3>1
    <2> QED BY <2>1, <2>2, <2>3, <2>4
  <1>4. /\ Len(left[u]) \in Nat /\ n \in Nat \ {0} /\ Len(stream) \in Nat
        /\ stream \in Seq(Bytes)
    BY SentIs, LenProperties DEF ClientTyped, ClientTypes
  <1>5. /\ Len(stream') = Len(stream) + n
        /\ \A i \in 1 .. Len(stream) : stream'[i] = stream[i]
        /\ \A i \in 1 .. n : stream'[Len(stream) + i] = left[u][i]
        /\ left' = [left EXCEPT ![u] = left'[u]]
        /\ Len(left'[u]) = Len(left[u]) - n
    BY <1>2 DEF WritesBytes
  <1>6. \A v \in Users \ {u} :
           /\ UNCHANGED <<Sent(v), Gone(v), Places(at, v)>>
           /\ upc[v] # "write"
    <2> SUFFICES ASSUME NEW v \in Users \ {u}
                 PROVE  /\ UNCHANGED <<Sent(v), Gone(v), Places(at, v)>>
                        /\ upc[v] # "write"
      OBVIOUS
    <2>1. UNCHANGED <<op[v], len[v], left[v]>>
      BY <1>3, <1>5 DEF ClientTyped, ClientTypes, TypeOK
    <2>2. upc[v] # "write"
      BY <1>3 DEF ClientTyped, InCall
    <2> QED BY <2>1, <2>2 DEF Sent, Gone, Whole, Places
  <1>7. /\ Len(Sent(u)) = Gone(u) /\ Gone(u) \in Nat
        /\ Len(Sent(u)') = Gone(u) + n /\ Gone(u)' = Gone(u) + n
        /\ \A i \in 1 .. Gone(u) : Sent(u)'[i] = Sent(u)[i]
        /\ \A i \in 1 .. n : Sent(u)'[Gone(u) + i] = left[u][i]
    <2>1. /\ Len(Sent(u)) = Gone(u) /\ Gone(u) \in Nat
          /\ \A i \in 1 .. Gone(u) : Sent(u)[i] = Whole(u)[i]
          /\ Len(Whole(u)) \in Nat
      BY SentIs
    <2>2. Whole(u)' = Whole(u)
      BY <1>3 DEF Whole
    <2>3. Gone(u)' = Gone(u) + n
      BY <1>4, <1>5, <2>1, <2>2 DEF Gone
    <2>4. /\ Len(Sent(u)') = Gone(u)'
          /\ \A i \in 1 .. Gone(u)' : Sent(u)'[i] = Whole(u)[i]
      <3>1. Sent(u)' = SubSeq(Whole(u)', 1, Gone(u)')
        BY DEF Sent, Whole, Gone
      <3>2. Gone(u)' \in 0 .. Len(Whole(u))
        <4>1. Gone(u) = Len(Whole(u)) - Len(left[u]) /\ n <= Len(left[u])
          BY DEF Gone
        <4> QED BY <1>4, <2>1, <2>3, <4>1
      <3>3. Whole(u) \in Seq(Bytes)
        BY SentIs
      <3> QED BY <2>2, <3>1, <3>2, <3>3, CutInTwo
    <2>5. \A i \in 1 .. n : left[u][i] = Whole(u)[Gone(u) + i]
      BY <1>4 DEF ClientTyped, InCall
    <2>6. \A i \in 1 .. Gone(u) : i \in 1 .. Gone(u)'
      BY <1>4, <2>1, <2>3
    <2>7. \A i \in 1 .. n : Gone(u) + i \in 1 .. Gone(u)'
      BY <1>4, <2>1, <2>3
    <2> QED BY <2>1, <2>2, <2>3, <2>4, <2>5, <2>6, <2>7
  <1>8. at[u] + Gone(u) = Len(stream) /\ \A v \in Users : at[v] \in 0 .. Len(stream)
    BY <1>1, <1>3 DEF WriterLast
  <1>9. /\ \A v \in Users \ {u} : Places(at, v)' = Places(at, v)
        /\ \A v \in Users : \A i \in Places(at, v) : i \in 1 .. Len(stream)
        /\ Places(at, u) = at[u] + 1 .. Len(stream)
        /\ Places(at, u)' = at[u] + 1 .. Len(stream) + n
    <2>1. ASSUME NEW v \in Users, NEW i \in Places(at, v)
          PROVE  i \in 1 .. Len(stream)
      <3>1. i \in at[v] + 1 .. at[v] + Len(Sent(v)) /\ at[v] \in Nat
        BY <1>4, <1>8 DEF Places
      <3>2. PICK k \in 1 .. Len(Sent(v)) : i = at[v] + k
        <4>1. Len(Sent(v)) \in Nat
          BY SentIs
        <4>2. i - at[v] \in 1 .. Len(Sent(v)) /\ i = at[v] + (i - at[v])
          BY <3>1, <4>1
        <4> QED BY <4>2
      <3>3. at[v] + k <= Len(stream)
        BY <1>1, <3>2 DEF Lined
      <3> QED BY <1>4, <3>1, <3>2, <3>3
    <2>2. /\ Places(at, u) = at[u] + 1 .. at[u] + Len(Sent(u))
          /\ Places(at, u)' = at[u] + 1 .. at[u] + Len(Sent(u)')
      BY DEF Places
    <2>3. at[u] + (Gone(u) + n) = Len(stream) + n
      <3>1. at[u] \in Nat /\ Gone(u) \in Nat /\ n \in Nat
        BY <1>4, <1>7, <1>8
      <3>2. at[u] + (Gone(u) + n) = (at[u] + Gone(u)) + n
        BY <3>1, Sums
      <3> QED BY <1>8, <3>2
    <2>4. Places(at, u)' = at[u] + 1 .. Len(stream) + n
      BY <1>7, <2>2, <2>3
    <2>5. Places(at, u) = at[u] + 1 .. Len(stream)
      BY <1>7, <1>8, <2>2
    <2> QED BY <1>6, <2>1, <2>4, <2>5
  <1>10. Lined(at)'
    <2>1. ASSUME NEW v \in Users, NEW i \in 1 .. Len(Sent(v)')
          PROVE  at[v] + i <= Len(stream') /\ stream'[at[v] + i] = Sent(v)'[i]
      <3>1. CASE v # u
        <4>1. i \in 1 .. Len(Sent(v)) /\ Sent(v)' = Sent(v)
          BY <1>6, <3>1
        <4>2. at[v] + i <= Len(stream) /\ stream[at[v] + i] = Sent(v)[i]
          BY <1>1, <4>1 DEF Lined
        <4>3. at[v] + i \in 1 .. Len(stream)
          <5>1. at[v] \in Nat /\ i \in Nat \ {0}
            BY <1>4, <1>8, <4>1, SentIs
          <5> QED BY <1>4, <4>2, <5>1
        <4> QED BY <1>4, <1>5, <4>1, <4>2, <4>3
      <3>2. CASE v = u /\ i \in 1 .. Gone(u)
        <4>1. at[u] + i <= Len(stream) /\ stream[at[u] + i] = Sent(u)[i]
          BY <1>1, <1>7, <3>2 DEF Lined
        <4>2. at[u] + i \in 1 .. Len(stream)
          <5>1. at[u] \in Nat /\ i \in Nat \ {0}
            BY <1>4, <1>7, <1>8, <3>2
          <5> QED BY <1>4, <4>1, <5>1
        <4> QED BY <1>4, <1>5, <1>7, <3>2, <4>1, <4>2
      <3>3. CASE v = u /\ i \notin 1 .. Gone(u)
        <4>1. PICK k \in 1 .. n : i = Gone(u) + k
          <5>1. i - Gone(u) \in 1 .. n /\ i = Gone(u) + (i - Gone(u))
            BY <1>4, <1>7, <3>3
          <5> QED BY <5>1
        <4>2. at[u] + i = Len(stream) + k
          <5>1. at[u] \in Nat /\ Gone(u) \in Nat /\ k \in Nat
            BY <1>4, <1>7, <1>8
          <5>2. at[u] + (Gone(u) + k) = (at[u] + Gone(u)) + k
            BY <5>1, Sums
          <5> QED BY <1>8, <4>1, <5>2
        <4>3. stream'[Len(stream) + k] = left[u][k] /\ Sent(u)'[i] = left[u][k]
          BY <1>5, <1>7, <4>1
        <4>4. Len(stream) + k <= Len(stream')
          BY <1>4, <1>5
        <4> QED BY <3>3, <4>2, <4>3, <4>4
      <3> QED BY <3>1, <3>2, <3>3
    <2>2. ASSUME NEW i \in 1 .. Len(stream')
          PROVE  \E v \in Users : i \in Places(at, v)'
      <3>1. CASE i \in 1 .. Len(stream)
        <4>1. PICK v \in Users : i \in Places(at, v)
          BY <1>1, <3>1 DEF Lined
        <4>2. CASE v # u
          BY <1>9, <4>1, <4>2
        <4>3. CASE v = u
          BY <1>4, <1>8, <1>9, <4>1, <4>3
        <4> QED BY <4>2, <4>3
      <3>2. CASE i \notin 1 .. Len(stream)
        <4>1. i \in at[u] + 1 .. Len(stream) + n
          BY <1>4, <1>5, <1>8, <3>2
        <4> QED BY <1>9, <4>1
      <3> QED BY <3>1, <3>2
    <2>3. ASSUME NEW v \in Users, v # u PROVE Places(at, v)' \cap Places(at, u)' = {}
      <3>1. ASSUME NEW i \in Places(at, v), i \in Places(at, u)' PROVE FALSE
        <4>1. i \in 1 .. Len(stream) /\ i \in at[u] + 1 .. Len(stream) + n
          BY <1>9, <3>1
        <4>2. i \in Places(at, u)
          BY <1>4, <1>8, <1>9, <4>1
        <4> QED BY <1>1, <2>3, <3>1, <4>2 DEF Lined
      <3> QED BY <1>9, <2>3, <3>1
    <2>4. ASSUME NEW v \in Users, NEW w \in Users, v # w
          PROVE  Places(at, v)' \cap Places(at, w)' = {}
      <3>1. CASE v = u \/ w = u
        BY <2>3, <2>4, <3>1
      <3>2. CASE v # u /\ w # u
        BY <1>1, <1>9, <2>4, <3>2 DEF Lined
      <3> QED BY <3>1, <3>2
    <2> QED BY <2>1, <2>2, <2>4 DEF Lined
  <1>11. WriterLast(at)'
    <2>1. at[u] + Gone(u)' = Len(stream')
      <3>1. at[u] \in Nat /\ Gone(u) \in Nat /\ n \in Nat
        BY <1>4, <1>7, <1>8
      <3>2. at[u] + (Gone(u) + n) = (at[u] + Gone(u)) + n
        BY <3>1, Sums
      <3> QED BY <1>5, <1>7, <1>8, <3>2
    <2>2. \A v \in Users \ {u} : upc'[v] # "write"
      BY <1>3, <1>6
    <2> QED BY <2>1, <2>2 DEF WriterLast
  <1>12. at \in [Users -> 0 .. Len(stream')]
    BY <1>4, <1>5
  <1> QED BY <1>10, <1>11, <1>12 DEF InLine

(* Whatever is written, the texts stay whole and in line. *)
LEMMA InLineStep == ClientTyped /\ InLine /\ [Next]_vars => InLine'
  <1> SUFFICES ASSUME ClientTyped, InLine, [Next]_vars PROVE InLine'
    OBVIOUS
  <1> USE DEF userVars, linkVars
  <1>0. ClientTyped'
    BY ClientTypedStep
  <1>1. CASE UNCHANGED <<op, len, left, stream, upc>>
    BY <1>1, LineStays
  <1>2. CASE \/ Start \/ Connect \/ Close \/ Done \/ ShutDown \/ NoShutDown
             \/ Server \/ AcceptNoPeerInfo \/ ReadFails
    <2>1. UNCHANGED <<op, len, left, stream, upc>>
      BY <1>2 DEF Start, Connect, Close, Done, ShutDown, NoShutDown, Server, AcceptFresh,
                  AcceptReuse, AcceptInto, Read, ReadEnd, PrintAndClose,
                  AcceptNoPeerInfo, ReadFails
    <2> QED BY <1>1, <2>1
  <1>3. CASE Die
    <2>1. UNCHANGED <<op, len, left, stream>> /\ \A u \in Users : upc'[u] = "idle"
      BY <1>3 DEF Die
    <2> QED BY <2>1, LineStays
  <1>4. CASE NextClient
    <2>1. /\ stream' = <<>> /\ \A u \in Users : /\ upc'[u] = "idle" /\ op'[u] = "none"
                                             /\ len'[u] = 0 /\ left'[u] = <<>>
      BY <1>4 DEF NextClient
    <2>2. Len(stream') = 0
      BY <2>1, EmptySeq
    <2>3. PICK at \in [Users -> {0}] : TRUE
      <3>1. [u \in Users |-> 0] \in [Users -> {0}]
        OBVIOUS
      <3> QED BY <3>1
    <2>4. \A u \in Users : Sent(u)' = <<>> /\ Len(Sent(u)') = 0
      <3> SUFFICES ASSUME NEW u \in Users PROVE Sent(u)' = <<>> /\ Len(Sent(u)') = 0
        OBVIOUS
      <3>1. Len(Text(u, "none", 0)) = 0 /\ Len(<<>>) = 0
        BY NoText, EmptySeq
      <3>2. op'[u] = "none" /\ len'[u] = 0 /\ Len(left'[u]) = 0
        BY <2>1, <3>1
      <3>3. Sent(u)' = SubSeq(Text(u, "none", 0), 1, 0)
        BY <3>1, <3>2 DEF Sent
      <3> QED BY <3>1, <3>3, NoText
    <2>5. \A u \in Users : Places(at, u)' = {}
      BY <2>4 DEF Places
    <2>6. Lined(at)'
      BY <2>2, <2>4, <2>5 DEF Lined
    <2>7. WriterLast(at)'
      BY <2>1 DEF WriterLast
    <2>8. at \in [Users -> 0 .. Len(stream')]
      BY <2>2
    <2> QED BY <2>6, <2>7, <2>8 DEF InLine
  <1>5. ASSUME NEW u \in Users,
               \/ WriteNoFd(u) \/ WriteBroken(u) \/ WriteInterrupted(u) \/ RecvNothing(u)
        PROVE  InLine'
    <2>1. UNCHANGED <<op, len, left, stream>> /\ upc' = [upc EXCEPT ![u] = "idle"]
      BY <1>5 DEF WriteNoFd, WriteBroken, WriteInterrupted, RecvNothing, Return
    <2>2. \A v \in Users : upc'[v] = "write" => upc[v] = "write"
      BY <2>1 DEF ClientTyped, ClientTypes, TypeOK
    <2> QED BY <2>1, <2>2, LineStays
  <1>6. ASSUME NEW u \in Users, NEW o \in Ops, NEW n \in 0 .. MaxText, Call(u, o, n)
        PROVE  InLine'
    BY <1>0, <1>6, CallInLine
  <1>7. ASSUME NEW u \in Users, Write(u) PROVE InLine'
    BY <1>0, <1>7, WriteInLine
  <1>8. CASE UNCHANGED vars
    BY <1>1, <1>8 DEF vars
  <1> QED
    BY <1>2, <1>3, <1>4, <1>5, <1>6, <1>7, <1>8 DEF Next, Main, Chance, User

-------------------------------------------------------------------------------

(* What holds of the client and its connection in every reachable state. *)
ClientInv == ClientTyped /\ SockState /\ Transfer /\ InLine

(* It holds before the first client starts. *)
LEMMA ClientInvInit == Init => ClientInv
  <1> SUFFICES ASSUME Init PROVE ClientInv
    OBVIOUS
  <1>1. ClientTyped
    BY ClientStart
  <1>2. SockState
    BY DEF Init, SockState, NewSocket
  <1>3. Transfer
    BY DEF Init, Transfer
  <1>4. InLine
    <2>1. Len(<<>>) = 0 /\ Len(stream) = 0
      BY EmptySeq DEF Init
    <2>2. PICK at \in [Users -> {0}] : TRUE
      <3>1. [u \in Users |-> 0] \in [Users -> {0}]
        OBVIOUS
      <3> QED BY <3>1
    <2>3. ASSUME NEW u \in Users PROVE Len(Sent(u)) = 0 /\ Places(at, u) = {}
      <3>1. op[u] = "none" /\ len[u] = 0 /\ Len(left[u]) = 0
        BY <2>1 DEF Init
      <3>2. Len(Text(u, "none", 0)) = 0
        BY NoText
      <3>3. Sent(u) = SubSeq(Text(u, "none", 0), 1, 0)
        BY <3>1, <3>2 DEF Sent
      <3>4. Len(Sent(u)) = 0
        BY <2>1, <3>3, NoText
      <3> QED BY <3>4 DEF Places
    <2>4. Lined(at)
      BY <2>1, <2>3 DEF Lined
    <2>5. WriterLast(at)
      BY DEF Init, WriterLast
    <2>6. at \in [Users -> 0 .. Len(stream)]
      BY <2>1
    <2> QED BY <2>4, <2>5, <2>6 DEF InLine
  <1> QED BY <1>1, <1>2, <1>3, <1>4 DEF ClientInv

(* Every step of client, server and connection keeps it. *)
LEMMA ClientInvStep == ClientInv /\ [Next]_vars => ClientInv'
  BY ClientTypedStep, SockStep, TransferStep, InLineStep DEF ClientInv

(* A thread inside a call of the client owns its guard, and what it has    *)
(* not written is the end of its text; the bytes sent are in the server's  *)
(* buffer or on their way to it (TecTCPClient_send_ and the rest,          *)
(* TecSocket_read).                                                        *)
THEOREM ClientTyping == Spec => []ClientInv
  <1>1. Init => ClientInv
    BY ClientInvInit
  <1>2. ClientInv /\ [Next]_vars => ClientInv'
    BY ClientInvStep
  <1> QED BY <1>1, <1>2, PTL DEF Spec

(* However start_ fails and however the client ends, it leaves no          *)
(* descriptor and no address open.                                         *)
THEOREM ClientLeavesNothing == Spec => []NothingLeft
  <1>1. ClientInv => NothingLeft
    BY DEF ClientInv, ClientTyped, ClientTypes, SockState, NothingLeft
  <1> QED BY <1>1, ClientTyping, PTL

(* Under the client's guard texts written in pieces never mix.             *)
THEOREM ClientTextsWhole == Spec => []TextsWhole
  <1>1. ClientInv => TextsWhole
    BY DEF ClientInv, InLine, Lined, TextsWhole
  <1> QED BY <1>1, ClientTyping, PTL

(* The first text of a connection, if it was sent whole and as a string,   *)
(* is the string a buffer that holds the connection's bytes shows.         *)
LEMMA FirstTextShown ==
    ASSUME ClientInv, Passing, wire = <<>>, stream # <<>>,
           NEW u, u = Head(stream), u # NUL, op[u] \in StrOps, left[u] = <<>>
    PROVE  Shown(data) = Letters(u, len[u])
  <1>1. /\ ClientTyped /\ stream \in Seq(Bytes) /\ Len(stream) \in Nat \ {0}
        /\ WellFormed(data)
    BY EmptySeq, LenProperties DEF ClientInv, ClientTyped, ClientTypes
  <1>2. 1 \in 1 .. Len(stream) /\ stream[1] = u
    BY <1>1
  <1>3. u \in Users
    <2>1. stream[1] \in Bytes
      BY <1>1, <1>2, ElementOfSeq
    <2> QED BY <1>2, <2>1, ClientAssumption
  <1>4. PICK at \in [Users -> 0 .. Len(stream)] : Lined(at)
    BY DEF ClientInv, InLine
  <1>5. len[u] \in Nat
    BY <1>1, <1>3 DEF ClientTyped, ClientTypes, TypeOK
  <1>6. at[u] = 0
    <2>1. PICK v \in Users : 1 \in Places(at, v)
      BY <1>2, <1>4 DEF Lined
    <2>2. /\ Len(Sent(v)) = Gone(v) /\ Gone(v) \in 0 .. Len(Whole(v))
          /\ Len(Whole(v)) \in Nat
          /\ \A i \in 1 .. Gone(v) : Sent(v)[i] = Whole(v)[i]
      BY <1>1, SentIs
    <2>3. at[v] \in Nat /\ len[v] \in Nat
      BY <1>1, <1>4 DEF ClientTyped, ClientTypes, TypeOK
    <2>4. at[v] = 0 /\ Gone(v) >= 1
      BY <2>1, <2>2, <2>3 DEF Places
    <2>5. 1 \in 1 .. Gone(v) /\ at[v] + 1 = 1
      BY <2>2, <2>4
    <2>6. u = Whole(v)[1] /\ Len(Whole(v)) >= 1
      <3>1. stream[at[v] + 1] = Sent(v)[1]
        BY <1>4, <2>2, <2>5 DEF Lined
      <3> QED BY <1>2, <2>2, <2>5, <3>1
    <2>7. /\ Len(Whole(v)) = IF op[v] \in StrOps THEN len[v] + 1 ELSE len[v]
          /\ \A i \in 1 .. len[v] : Whole(v)[i] = v
          /\ op[v] \in StrOps => Whole(v)[len[v] + 1] = NUL
      BY <2>3, TextIs DEF Whole
    <2>8. CASE len[v] = 0
      BY <2>6, <2>7, <2>8
    <2>9. CASE len[v] # 0
      <3>1. 1 \in 1 .. len[v]
        BY <2>3, <2>9
      <3> QED BY <2>4, <2>6, <2>7, <3>1
    <2> QED BY <2>8, <2>9
  <1>7. /\ Len(Whole(u)) = len[u] + 1
        /\ \A i \in 1 .. len[u] : Whole(u)[i] = u
        /\ Whole(u)[len[u] + 1] = NUL
    BY <1>3, <1>5, TextIs DEF Whole
  <1>8. /\ Len(Sent(u)) = len[u] + 1
        /\ \A i \in 1 .. len[u] + 1 : Sent(u)[i] = Whole(u)[i]
    <2>1. Len(left[u]) = 0
      BY EmptySeq
    <2>2. Gone(u) = len[u] + 1
      BY <1>5, <1>7, <2>1 DEF Gone
    <2> QED BY <1>1, <1>3, <2>2, SentIs
  <1>9. \A i \in 1 .. len[u] + 1 :
           i \in 1 .. Len(stream) /\ stream[i] = Whole(u)[i]
    <2> SUFFICES ASSUME NEW i \in 1 .. len[u] + 1
                 PROVE  i \in 1 .. Len(stream) /\ stream[i] = Whole(u)[i]
      OBVIOUS
    <2>1. at[u] + i <= Len(stream) /\ stream[at[u] + i] = Sent(u)[i]
      BY <1>3, <1>4, <1>8 DEF Lined
    <2>2. at[u] + i = i
      BY <1>5, <1>6
    <2> QED BY <1>1, <1>5, <1>8, <2>1, <2>2
  <1>10. /\ data.pos = Len(stream)
         /\ \A i \in 1 .. Len(stream) : data.data[i - 1] = stream[i]
    <2>1. Len(wire) = 0 /\ data.pos \in Nat
      BY <1>1, EmptySeq DEF WellFormed
    <2> QED BY <1>1, <2>1 DEF Passing
  <1>11. len[u] < data.capacity
    <2>1. len[u] + 1 <= Len(stream)
      BY <1>5, <1>9
    <2> QED BY <1>1, <1>5, <1>10, <2>1 DEF WellFormed
  <1>12. ASSUME NEW i \in 0 .. len[u] - 1 PROVE data.data[i] = u
    <2>1. i + 1 \in 1 .. len[u] /\ i + 1 \in 1 .. len[u] + 1 /\ (i + 1) - 1 = i
      BY <1>5
    <2>2. stream[i + 1] = u /\ i + 1 \in 1 .. Len(stream)
      BY <1>7, <1>9, <2>1
    <2> QED BY <1>10, <2>1, <2>2
  <1>13. data.data[len[u]] = NUL
    <2>1. len[u] + 1 \in 1 .. len[u] + 1 /\ (len[u] + 1) - 1 = len[u]
      BY <1>5
    <2>2. stream[len[u] + 1] = NUL /\ len[u] + 1 \in 1 .. Len(stream)
      BY <1>7, <1>9, <2>1
    <2> QED BY <1>10, <2>1, <2>2
  <1> QED BY <1>1, <1>5, <1>11, <1>12, <1>13, ShownIs

(* When the server's read ends it has every byte the client has sent, and  *)
(* it prints the first text, if that was sent whole, though the buffer     *)
(* held a longer one before.                                               *)
THEOREM ClientTextsArrive == Spec => []TextsArrive
  <1>1. ClientInv => TextsArrive
    <2> SUFFICES ASSUME ClientInv, spc = "closed" PROVE TextsArrive
      BY DEF TextsArrive
    <2>1. /\ Passing /\ link = "shut" /\ wire = <<>> /\ printed = Shown(data)
          /\ data.pos \in Nat /\ Len(stream) \in Nat
      BY LenProperties
         DEF ClientInv, Transfer, ClientTyped, ClientTypes, WellFormed
    <2>2. data.pos = Len(stream)
      <3>1. Len(wire) = 0
        BY <2>1, EmptySeq
      <3> QED BY <2>1, <3>1 DEF Passing
    <2>3. \A i \in 1 .. Len(stream) : data.data[i - 1] = stream[i]
      BY <2>1, <2>2 DEF Passing
    <2>4. ASSUME stream # <<>>, NEW u, u = Head(stream), u # NUL,
                 op[u] \in StrOps, left[u] = <<>>
          PROVE  printed = Letters(u, len[u])
      BY <2>1, <2>4, FirstTextShown
    <2> QED BY <2>1, <2>2, <2>3, <2>4 DEF TextsArrive
  <1> QED BY <1>1, ClientTyping, PTL
===============================================================================
