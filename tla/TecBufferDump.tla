----------------------------- MODULE TecBufferDump -----------------------------
(***************************************************************************)
(* The dumps of tecc_buffer.c, as functions of a buffer of TecBuffer: the  *)
(* hexadecimal one, and the table made of it.  Characters are their codes. *)
(* The table is the sequence of its cells, each with the offset its row is *)
(* headed by and its column; the texts are joined by puts.  Bytes are the  *)
(* eight bits that are stored; as_hex reads them as the char of the build. *)
(***************************************************************************)
EXTENDS TecBufferCalls, FiniteSets

CONSTANTS HexBlock,     \* hex_buffer_block_size
          BytesPerLine, \* bytes_per_line
          CharMax       \* CHAR_MAX: 127 where char is signed, else 255

ASSUME DumpAssumption == /\ {HexBlock, BytesPerLine} \subseteq Nat \ {0}
                         /\ Bytes \subseteq 0 .. 255
                         /\ CharMax \in {127, 255}

Space == 32

(* The char of eight bits, as the int that to_hex_chars is given. *)
AsInt(byte) == IF byte > CharMax THEN byte - 256 ELSE byte

(* What is read in front of table[]: undefined, any character.  A NUL cuts *)
(* the text for who reads it as a string, and leaves its cell of the table *)
(* empty, which moves the cells behind it in the row to the left.          *)
Outside == -1

(* table[d] *)
Digit(d) == IF d < 0 THEN Outside ELSE IF d < 10 THEN 48 + d ELSE 55 + d

(* to_hex_chars; the shift of a negative number rounds down, as \div does. *)
Chars(ch) == IF 32 < ch /\ ch < 127 THEN <<Space, ch>>
             ELSE <<Digit(ch \div 16), Digit(ch % 16)>>

First(start) == IF start < 0 THEN 0 ELSE start

(* How many bytes are dumped; start is at most the size. *)
Count(b, start, len) ==
    LET n == IF len = 0 THEN b.size ELSE len
    IN  IF start + n > b.size THEN b.size - start ELSE n

(* Faulty: no room for the terminator of a text that fills its blocks. *)
HexCapacity_NoNul(n) == ((2 * n + HexBlock - 1) \div HexBlock) * HexBlock

(* The block size that as_hex computes, and with it the capacity. *)
HexCapacity(n) == ((2 * n + 1) \div HexBlock) * HexBlock + HexBlock

AsHex(b, start, len) ==
    IF b.size = 0 \/ First(start) > b.size THEN Empty
    ELSE LET n == Count(b, First(start), len)
             c(i) == Chars(AsInt(b.data[First(start) + i \div 2]))[(i % 2) + 1]
         IN  [data |-> [i \in 0 .. HexCapacity(n) - 1 |-> IF i < 2 * n THEN c(i) ELSE NUL],
              pos |-> 2 * n, size |-> 2 * n, capacity |-> HexCapacity(n)]

(* The cell that is put as number k, counted from the first row: blank in  *)
(* front of start, then two characters at a time.                          *)
TableCell(hex, start, k) ==
    [row |-> (start \div BytesPerLine) * BytesPerLine + (k \div BytesPerLine) * BytesPerLine,
     col |-> k % BytesPerLine,
     text |-> IF k < start THEN <<Space, Space>>
              ELSE <<hex.data[2 * (k - start)], hex.data[2 * (k - start) + 1]>>]

AsTable(b, start, len) ==
    LET hex == AsHex(b, start, len)
    IN  IF hex.size = 0 THEN <<>>
        ELSE [k \in 1 .. First(start) + hex.size \div 2 |-> TableCell(hex, First(start), k - 1)]

-------------------------------------------------------------------------------

Starts == -1 .. MaxEnd + 1

Lengths == 0 .. MaxEnd + 1

(* What a reader takes two characters for, if they tell. *)
Unknown == -1

Value(d) == IF d < 65 THEN d - 48 ELSE d - 55

Decoded(c) == IF c[1] = Space THEN c[2]
              ELSE IF c[1] = Outside THEN Unknown
              ELSE 16 * Value(c[1]) + Value(c[2])

(* What can be told of a byte: nothing where char is signed and the byte,  *)
(* as an int, is negative, because the first digit comes from outside of   *)
(* table[] (tecc_buffer.c:245).                                            *)
Told(byte) == IF byte > CharMax THEN Unknown ELSE byte

(* That two characters tell this much of each of the 256 bytes. *)
CharsTell == \A byte \in 0 .. 255 : Decoded(Chars(AsInt(byte))) = Told(byte)

(* The offsets of the bytes asked for, as far as the content goes. *)
Asked(start, len) == {i \in 0 .. buf.size - 1 :
                         i >= start /\ (len # 0 => i < First(start) + len)}

(* "Returns hexadecimal representation of src starting at a start          *)
(* position. Uses len if len != 0, otherwise uses buf->size - start"       *)
(* (tecc_buffer.h:128): the text stands for the bytes asked for and        *)
(* nothing else, it fits with its terminator the memory computed for it,   *)
(* and each byte is read back from it, except that those above CharMax     *)
(* are not represented.                                                    *)
HexTells(start, len) ==
    LET hex == AsHex(buf, start, len)
        asked == Asked(start, len)
    IN  /\ hex.size = 2 * Cardinality(asked)
        /\ hex.capacity # 0 => hex.size < hex.capacity
        /\ \A i \in asked : LET k == 2 * (i - First(start))
                            IN  Decoded(<<hex.data[k], hex.data[k + 1]>>) = Told(buf.data[i])

(* How far off the offsets of a table are: as_table counts its columns     *)
(* from the first row of the content and its rows from that of start.      *)
Shift(start) == (First(start) \div BytesPerLine) * BytesPerLine

(* "Returns the formatted hex dump of the src buffer as a table", with an  *)
(* offset in front of each row (tecc_buffer.h:132): each byte asked for is *)
(* in the cell at its own offset if the part begins in the first row, and  *)
(* otherwise in the one whose row and column say as much more as Shift;    *)
(* all the other cells are blank.                                          *)
TableTells(start, len) ==
    LET table == AsTable(buf, start, len)
        asked == Asked(start, len)
        at == [k \in DOMAIN table |-> table[k].row + table[k].col - Shift(start)]
    IN  /\ asked \subseteq {at[k] : k \in DOMAIN table}
        /\ \A k \in DOMAIN table :
               IF at[k] \in asked THEN Decoded(table[k].text) = Told(buf.data[at[k]])
               ELSE table[k].text = <<Space, Space>>

(* What the dumps tell of the buffer, for every part that may be asked     *)
(* for, within the content or not.  It is what tecc_buffer.h promises when *)
(* no byte is above CharMax and the part begins in the first row; in the   *)
(* two other cases it says what the code shows instead.                    *)
DumpsTell ==
    /\ CharsTell
    /\ \A start \in Starts, len \in Lengths :
          HexTells(start, len) /\ TableTells(start, len)
===============================================================================
