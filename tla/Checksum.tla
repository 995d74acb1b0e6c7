------------------------------ MODULE Checksum ------------------------------
(***************************************************************************)
(* The checksum of lab6's segments and its test against a damaged bit      *)
(* (seg.c: checksum, checkchecksum, seglost), for one segment on its way.  *)
(*                                                                         *)
(* A segment is a struct of bytes: the header, here the length and the     *)
(* checksum, each a word of two bytes, low byte first, and room for        *)
(* MaxSegLen bytes of data.  The whole struct travels, with whatever the   *)
(* bytes behind the data hold.  The other fields of the header are summed  *)
(* like data and have no part in the arithmetic.                           *)
(***************************************************************************)
EXTENDS Naturals, FiniteSetsExt

CONSTANTS
  Bits,        \* bits of a byte (8)
  MaxSegLen,   \* MAX_SEG_LEN (1464), even
  Bytes        \* bytes the data may hold, stale ones included

Base == 2^Bits
Word == Base * Base       \* 2^16: the values of an unsigned short
HdrLen == 4               \* sizeof(stcp_hdr_t), 24
StructLen == HdrLen + MaxSegLen

\* A segment has at most as many words as a word has values.  The last
\* conjunct is arithmetic: the provers do not know what a power is.
ASSUME ChecksumConstants ==
  /\ Bits \in Nat \ {0} /\ MaxSegLen \in Nat /\ MaxSegLen % 2 = 0
  /\ Bytes \subseteq 0..(Base - 1)
  /\ StructLen <= 2 * Word
  /\ Base \in Nat /\ \A bit \in 0..(Bits - 1) : 2^bit \in Nat \ {0} /\ 2 * 2^bit <= Base

VARIABLES
  seg,      \* the bytes of the struct, from 1
  sentAs,   \* the struct as it was sent
  stage     \* "built", "sent", "arrived", then "lost", "accepted" or "rejected"

segVars == <<seg, sentAs, stage>>

WordAt(s, k) == s[2 * k - 1] + Base * s[2 * k]
LengthOf(s) == WordAt(s, 1)
WithChecksum(s, c) == [s EXCEPT ![3] = c % Base, ![4] = c \div Base]

(* The bytes the sum is taken of: header, data, and the byte behind them   *)
(* if the length is odd.  The loop takes whole words.                      *)
SumLen_Even(s) == HdrLen + 2 * (LengthOf(s) \div 2)         \* mutant
SumLen(s) == HdrLen + LengthOf(s) + (LengthOf(s) % 2)

(* segment->data[len++] = 0 for an odd length: len counts the header, so   *)
(* the byte set to zero is HdrLen bytes behind the one that is summed, and *)
(* behind the struct for the last lengths: then it is some other byte.     *)
Pad(s) ==
  LET at == HdrLen + (HdrLen + LengthOf(s)) + 1
  IN  IF LengthOf(s) % 2 = 1 /\ at <= StructLen THEN [s EXCEPT ![at] = 0] ELSE s

(* Two folds of the carries into the low word. *)
Fold(x) == (x % Word) + (x \div Word)
Folded_Once(x) == Fold(x) % Word                               \* mutant
Folded(x) == Fold(Fold(x))

Words(s) == [k \in 1..(SumLen(s) \div 2) |-> WordAt(s, k)]
Sum(s) == FoldFunction(+, 0, Words(s))

checksum(s) == (Word - 1) - Folded(Sum(s))

-----------------------------------------------------------------------------
(* Any segment: SYN, FIN and DATA set their length; SYNACK, FINACK and     *)
(* DATAACK do not, so that it is any word the stack held.                  *)
SegInit ==
  /\ \E len \in 0..(Word - 1), data \in [1..MaxSegLen -> Bytes] :
       seg = [k \in 1..StructLen |->
               CASE k = 1 -> len % Base [] k = 2 -> len \div Base
                 [] k \in 3..HdrLen -> 0 [] OTHER -> data[k - HdrLen]]
  /\ sentAs = seg /\ stage = "built"

(* sip_sendseg: clear the field, pad, sum, store.  For a length that was   *)
(* never set the sum runs over memory behind the struct: it is any word.   *)
InStruct(s) == LengthOf(s) <= MaxSegLen

Send ==
  /\ stage = "built" /\ stage' = "sent"
  /\ LET s == Pad(WithChecksum(seg, 0))
     IN  \E c \in IF InStruct(s) THEN {checksum(s)} ELSE 0..(Word - 1) :
           seg' = WithChecksum(s, c)
  /\ sentAs' = seg'

(* seglost: nothing, the loss of the segment, or one bit of header and     *)
(* data turned over (one behind the struct changes nothing here).          *)
Flip(byte, bit) == IF (byte \div 2^bit) % 2 = 0 THEN byte + 2^bit ELSE byte - 2^bit

Arrive ==
  /\ stage = "sent" /\ stage' = "arrived"
  /\ \/ UNCHANGED seg
     \/ \E k \in 1..Min({HdrLen + LengthOf(seg), StructLen}), bit \in 0..(Bits - 1) :
          seg' = [seg EXCEPT ![k] = Flip(@, bit)]
  /\ UNCHANGED sentAs

Lose ==
  /\ stage = "sent" /\ stage' = "lost"
  /\ UNCHANGED <<seg, sentAs>>

(* checkchecksum, and the next round of sip_recvseg if it fails. *)
Check ==
  /\ stage = "arrived"
  /\ IF ~InStruct(seg)
     THEN stage' = "rejected" /\ UNCHANGED seg
     ELSE /\ seg' = Pad(seg)
          /\ stage' = IF Folded(Sum(seg')) = Word - 1 THEN "accepted" ELSE "rejected"
  /\ UNCHANGED sentAs

SegNext == Send \/ Arrive \/ Lose \/ Check
SegSpec == SegInit /\ [][SegNext]_segVars

-----------------------------------------------------------------------------
(* Both sides sum the same bytes in the same way (seg.c:179-220), whatever *)
(* the padding misses and the stale bytes hold, and two folds are enough:  *)
(* a segment that was not damaged is refused only if its length was never  *)
(* set.                                                                    *)
WholeIsAccepted == stage = "rejected" /\ InStruct(sentAs) => seg # sentAs

(* One damaged bit (seg.c:164-168) is found, unless it is in the length:   *)
(* then another number of words is summed, which may come out right.  What *)
(* is accepted differs from what was sent in the length at most.           *)
OnlyLengthSlips ==
  stage = "accepted" /\ seg # sentAs =>
    /\ LengthOf(seg) # LengthOf(sentAs)
    /\ \A k \in 3..(HdrLen + Min({LengthOf(seg), LengthOf(sentAs)})) : seg[k] = sentAs[k]
=============================================================================
