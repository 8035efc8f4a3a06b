-------------------------------- MODULE Stream --------------------------------
(***************************************************************************)
(* What a growing buffer promises: a sequence of bytes with a position,    *)
(* written over and beyond its end, read and sought within it.             *)
(***************************************************************************)
EXTENDS Naturals, Sequences

CONSTANTS Bytes, NUL

VARIABLES content,
          at,        \* bytes in front of the position
          out        \* what the last read has returned

vars == <<content, at, out>>

Init == content = <<>> /\ at = 0 /\ out = <<>>

(* s laid over the content from the byte behind p on. *)
Over(p, s) == SubSeq(content, 1, p) \o s \o
              SubSeq(content, p + Len(s) + 1, Len(content))

WriteAt(p, s) == /\ content' = Over(p, s)
                 /\ at' = p + Len(s)
                 /\ UNCHANGED out

(* A text joins on to the text in front of it. *)
Joint == IF at > 0 /\ content[at] = NUL THEN at - 1 ELSE at

Put(s) == WriteAt(at, s)

PutText(s) == WriteAt(Joint, Append(s, NUL))

Take(n) == /\ n <= Len(content) - at
           /\ out' = SubSeq(content, at + 1, at + n)
           /\ at' = at + n
           /\ UNCHANGED content

Move == at' \in 0 .. Len(content) /\ UNCHANGED <<content, out>>

Reset == content' = <<>> /\ at' = 0 /\ UNCHANGED out

Strings(n) == UNION {[1 .. k -> Bytes] : k \in 1 .. n}

CONSTANT MaxLen   \* the longest string put or taken at a time

Next == \/ \E s \in Strings(MaxLen) : Put(s) \/ PutText(s)
        \/ \E n \in 0 .. MaxLen : Take(n)
        \/ Move
        \/ Reset

Spec == Init /\ [][Next]_vars
===============================================================================
