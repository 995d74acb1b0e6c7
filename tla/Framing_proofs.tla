--------------------------- MODULE Framing_proofs ---------------------------
(***************************************************************************)
(* Proof of CleanIntact for a connection on which one thread sends: for    *)
(* every number and every length of the structs, every content without a   *)
(* delimiter, the receivers of the three labs, and a sender that may stop  *)
(* at any moment.  Every byte has a place on the stream; what is under way *)
(* and what the receiver holds are the bytes of their places, and so the   *)
(* receiver's state tells where in a frame it is.                          *)
(***************************************************************************)
EXTENDS Framing, SequenceTheorems, TLAPS

FrameLen == BodyLen + 4

(* The bytes of the first n frames. *)
Before(n) == n * FrameLen

(* Byte q of frame j on the stream. *)
FrameByte(w, j, q) ==
  IF q <= 2 THEN Begin[q]
  ELSE IF q <= BodyLen + 2 THEN plan[w][j][q - 2] ELSE End[q - BodyLen - 2]

(* How much of its frame the writer has written. *)
Written(w) ==
  CASE writerPc[w] = "begin" -> 0
    [] writerPc[w] = "body" -> 2
    [] writerPc[w] = "end" -> BodyLen + 2

(* How much of its frame the receiver has read. *)
Taken == CASE state = "SEGSTART1" -> 0
           [] state = "SEGSTART2" -> 1
           [] OTHER -> 2 + Len(buf)

Searching == {"SEGSTART1", "SEGSTART2", "SEGRECV", "SEGSTOP1"}

FrameTypes(w) ==
  /\ plan[w] \in [1..FrameNum -> Bodies] /\ lab \in 5..7
  /\ sentNum \in [Writers -> 0..FrameNum]
  /\ writerPc \in [Writers -> {"begin", "body", "end"}]
  /\ sentNum[w] = FrameNum => writerPc[w] = "begin"
  /\ stream \in Seq(Byte) /\ buf \in Seq(Byte) /\ got \in Seq(Seq(Byte))
  /\ state \in Searching \cup {"EXIT", "END"}

(* What was returned are the first frames, but for the last at the end. *)
GotInv(w) ==
  /\ Len(got) <= FrameNum
  /\ \A k \in 1..Len(got) : k < Len(got) \/ state # "END" => got[k] = plan[w][k]

(* What was written and not read is under way, *)
Position(w) ==
  Before(sentNum[w]) + Written(w) = Before(Len(got)) + Taken + Len(stream)

(* each byte in its place, *)
StreamInv(w) ==
  \A j \in 1..FrameNum, q \in 1..FrameLen, k \in 1..Len(stream) :
    Before(j - 1) + q = Before(Len(got)) + Taken + k => stream[k] = FrameByte(w, j, q)

(* and the buffer holds what was read of the present frame. *)
BufInv(w) ==
  /\ state # "SEGSTART1" => Len(got) < FrameNum
  /\ state \in {"SEGSTART1", "SEGSTART2"} => buf = <<>>
  /\ Len(buf) <= BodyLen + 1
  /\ \A k \in 1..Len(buf) : buf[k] = FrameByte(w, Len(got) + 1, k + 2)
  /\ state = "SEGSTOP1" => buf # <<>> /\ buf[Len(buf)] = "!"
  /\ Len(buf) = BodyLen + 1 => state = "SEGSTOP1"

Reading(w) == Position(w) /\ StreamInv(w) /\ BufInv(w)

Carried(w) ==
  /\ state # "EXIT"
  /\ GotInv(w)
  /\ state # "END" => Reading(w)
  /\ state = "END" => buf = <<>>

FInv(w) == FrameTypes(w) /\ (PlanClean => Carried(w))

-----------------------------------------------------------------------------
LEMMA Lengths ==
  /\ BodyLen \in Nat /\ FrameLen \in Nat /\ FrameLen = BodyLen + 4
  /\ FrameNum \in Nat /\ FrameNum >= 1
BY FramingConstants DEF BodyLen, FrameLen

LEMMA BeforeFacts ==
  /\ Before(0) = 0
  /\ \A a \in Nat : Before(a) \in Nat /\ Before(a + 1) = Before(a) + FrameLen
  /\ \A a, b \in Nat : a < b => Before(a) + FrameLen <= Before(b)
<1>1. \A a \in Nat : Before(a) \in Nat /\ Before(a + 1) = Before(a) + FrameLen
  BY Lengths DEF Before
<1>2. ASSUME NEW a \in Nat, NEW b \in Nat, a < b PROVE Before(a) + FrameLen <= Before(b)
  <2>1. PICK c \in Nat : b = a + 1 + c
    <3>1. b - a - 1 \in Nat /\ b = a + 1 + (b - a - 1)
      BY <1>2
    <3> QED BY <3>1
  <2>2. b * FrameLen = a * FrameLen + FrameLen + c * FrameLen
    BY <2>1, Lengths
  <2>3. c * FrameLen \in Nat /\ a * FrameLen \in Nat
    BY Lengths
  <2> QED BY <2>2, <2>3, Lengths DEF Before
<1> QED BY <1>1, <1>2, Lengths DEF Before

LEMMA BeforeNat == ASSUME NEW a \in Nat PROVE Before(a) \in Nat
BY BeforeFacts

LEMMA BeforeLess ==
  ASSUME NEW a \in Nat, NEW b \in Nat, a < b
  PROVE  Before(a) + FrameLen <= Before(b)
BY BeforeFacts

(* A place belongs to one byte of one frame. *)
LEMMA OnePlace ==
  ASSUME NEW a \in Nat, NEW b \in Nat, NEW p \in 1..FrameLen, NEW q \in 1..FrameLen,
         Before(a) + p = Before(b) + q
  PROVE  a = b /\ p = q
<1>1. Before(a) \in Nat /\ Before(b) \in Nat
  BY BeforeFacts
<1>2. ~(a < b)
  <2>1. a < b => Before(a) + FrameLen <= Before(b)
    BY BeforeFacts
  <2> QED BY <1>1, <2>1, Lengths
<1>3. ~(b < a)
  <2>1. b < a => Before(b) + FrameLen <= Before(a)
    BY BeforeFacts
  <2> QED BY <1>1, <2>1, Lengths
<1> QED BY <1>1, <1>2, <1>3, Lengths

LEMMA BodyFacts ==
  ASSUME NEW b \in Bodies
  PROVE  b \in Seq(Byte) /\ Len(b) = BodyLen
BY Lengths DEF Bodies

(* In a clean struct no exclamation mark is before the second byte of a    *)
(* delimiter.                                                              *)
LEMMA CleanFacts ==
  ASSUME NEW b \in Bodies, Clean(b), NEW k \in 1..(BodyLen - 1), b[k] = "!"
  PROVE  b[k + 1] \notin {"#", "&"}
<1>1. b \in Seq(Byte) /\ Len(b) = BodyLen /\ k \in Nat /\ k >= 1 /\ k + 1 <= BodyLen
  BY BodyFacts, Lengths
<1>2. SubSeq(b, k, k + 1) = <<b[k], b[k + 1]>>
  <2>1. SubSeq(b, k, k + 1) \in Seq(Byte) /\ Len(SubSeq(b, k, k + 1)) = 2
    BY <1>1
  <2>2. SubSeq(b, k, k + 1)[1] = b[k] /\ SubSeq(b, k, k + 1)[2] = b[k + 1]
    BY <1>1
  <2>3. <<b[k], b[k + 1]>> \in Seq(Byte)
    BY <1>1
  <2>4. Len(<<b[k], b[k + 1]>>) = 2
    OBVIOUS
  <2>5. \A i \in 1..2 : SubSeq(b, k, k + 1)[i] = <<b[k], b[k + 1]>>[i]
    <3>1. \A i \in 1..2 : i = 1 \/ i = 2
      OBVIOUS
    <3> QED BY <2>2, <3>1
  <2> QED BY <2>1, <2>3, <2>4, <2>5, SeqEqual
<1>3. SubSeq(b, k, k + 1) \notin {Begin, End}
  BY BodyFacts DEF Clean
<1> QED BY <1>2, <1>3 DEF Begin, End

(* The plan is clean: what that says of one struct. *)
LEMMA PlanFacts ==
  ASSUME NEW w \in Writers, FrameTypes(w), PlanClean, NEW j \in 1..FrameNum
  PROVE  /\ plan[w][j] \in Seq(Byte) /\ Len(plan[w][j]) = BodyLen
         /\ \A k \in 1..(BodyLen - 1) : plan[w][j][k] = "!" => plan[w][j][k + 1] \notin {"#", "&"}
         /\ lab = 5 => plan[w][j][BodyLen] # "!"
<1>1. plan[w][j] \in Bodies /\ Clean(plan[w][j]) /\ (lab = 5 => Last(plan[w][j]) # "!")
  BY DEF FrameTypes, PlanClean
<1>2. plan[w][j] \in Seq(Byte) /\ Len(plan[w][j]) = BodyLen
  BY <1>1, BodyFacts
<1> QED BY <1>1, <1>2, CleanFacts DEF Last

-----------------------------------------------------------------------------
(* The byte that the receiver reads is the next one of the frame it is in. *)
LEMMA NextByte ==
  ASSUME NEW w, Writers = {w}, FrameTypes(w), GotInv(w), Reading(w), stream # <<>>,
         state \in Searching
  PROVE  /\ Len(got) < FrameNum
         /\ Taken + 1 \in 1..FrameLen
         /\ Head(stream) = FrameByte(w, Len(got) + 1, Taken + 1)
<1>1. /\ Len(got) \in Nat /\ Len(stream) \in Nat /\ Len(stream) >= 1 /\ Len(buf) \in Nat
      /\ Head(stream) = stream[1] /\ sentNum[w] \in 0..FrameNum
  BY DEF FrameTypes
<1>2. Taken \in Nat /\ Taken <= BodyLen + 3
  BY <1>1, Lengths DEF Taken, Reading, BufInv, Searching
<1>3. Written(w) \in Nat /\ Written(w) < FrameLen /\ (sentNum[w] = FrameNum => Written(w) = 0)
  BY Lengths DEF Written, FrameTypes
<1>4. Before(sentNum[w]) + Written(w) = Before(Len(got)) + Taken + Len(stream)
  BY DEF Reading, Position
<1>5. Len(got) < FrameNum
  <2>1. Before(sentNum[w]) \in Nat /\ Before(Len(got)) \in Nat /\ Before(FrameNum) \in Nat
    <3>1. sentNum[w] \in Nat /\ FrameNum \in Nat
      BY <1>1, Lengths
    <3> QED BY <1>1, <3>1, BeforeNat
  <2>2. Len(got) <= FrameNum
    BY DEF GotInv
  <2>3. sentNum[w] < FrameNum => Before(sentNum[w]) + FrameLen <= Before(FrameNum)
    BY <1>1, BeforeLess, Lengths
  <2>4. ASSUME Len(got) = FrameNum PROVE FALSE
    BY <1>1, <1>2, <1>3, <1>4, <2>1, <2>3, <2>4, Lengths
  <2> QED BY <1>1, <2>2, <2>4, Lengths
<1>6. Taken + 1 \in 1..FrameLen
  BY <1>2, Lengths
<1>7. stream[1] = FrameByte(w, Len(got) + 1, Taken + 1)
  <2>1. Len(got) + 1 \in 1..FrameNum /\ 1 \in 1..Len(stream) /\ (Len(got) + 1) - 1 = Len(got)
    BY <1>1, <1>5, Lengths
  <2>2. Before(Len(got)) + (Taken + 1) = Before(Len(got)) + Taken + 1
    BY <1>1, <1>2, BeforeNat
  <2> QED BY <1>6, <2>1, <2>2 DEF Reading, StreamInv
<1> QED BY <1>1, <1>5, <1>6, <1>7

(* Reading a byte moves the place of the receiver by one. *)
LEMMA ReadsOn ==
  ASSUME NEW w, Writers = {w}, FrameTypes(w), Reading(w), stream # <<>>,
         stream' = Tail(stream), UNCHANGED writerVars,
         Before(Len(got)) \in Nat, Taken \in Nat, Before(Len(got))' \in Nat, Taken' \in Nat,
         Before(Len(got))' + Taken' = Before(Len(got)) + Taken + 1
  PROVE  Position(w)' /\ StreamInv(w)' /\ stream' \in Seq(Byte)
<1>1. /\ Len(stream) \in Nat /\ Len(stream) >= 1 /\ stream' \in Seq(Byte)
      /\ Len(stream') = Len(stream) - 1
      /\ \A k \in 1..Len(stream') : k + 1 \in 1..Len(stream) /\ stream'[k] = stream[k + 1]
  BY DEF FrameTypes
<1>2. Position(w)'
  <2>1. Before(sentNum[w])' = Before(sentNum[w]) /\ Written(w)' = Written(w)
    BY DEF writerVars, Before, Written, FrameLen, BodyLen
  <2> QED BY <1>1, <2>1 DEF Reading, Position
<1>3. StreamInv(w)'
  <2> SUFFICES ASSUME NEW j \in 1..FrameNum, NEW q \in 1..FrameLen, NEW k \in 1..Len(stream'),
                      Before(j - 1) + q = Before(Len(got))' + Taken' + k
               PROVE  stream'[k] = FrameByte(w, j, q)'
    BY DEF StreamInv, Before, FrameLen, BodyLen
  <2>1. FrameByte(w, j, q)' = FrameByte(w, j, q)
    BY DEF FrameByte, writerVars, BodyLen
  <2>2. Before(j - 1) + q = Before(Len(got)) + Taken + (k + 1)
    <3>1. PICK r \in Nat : r = Before(Len(got)) + Taken
      OBVIOUS
    <3>2. k \in Nat /\ Before(Len(got))' + Taken' = r + 1
      BY <1>1, <3>1
    <3>3. Before(j - 1) + q = r + 1 + k
      BY <3>2
    <3>4. Before(j - 1) + q = r + (k + 1)
      BY <3>2, <3>3
    <3> QED BY <3>1, <3>4
  <2>3. stream[k + 1] = FrameByte(w, j, q)
    BY <1>1, <2>2 DEF Reading, StreamInv
  <2> QED BY <1>1, <2>1, <2>3
<1> QED BY <1>1, <1>2, <1>3

(* A writer's call puts the next bytes of its frame behind those under way. *)
LEMMA WritesOn ==
  ASSUME NEW w, Writers = {w}, FrameTypes(w), GotInv(w), Reading(w), UNCHANGED <<plan, readerVars>>,
         NEW bytes \in Seq(Byte), stream' = stream \o bytes, sentNum[w] < FrameNum,
         Written(w) + Len(bytes) <= FrameLen,
         \A d \in 1..Len(bytes) : bytes[d] = FrameByte(w, sentNum[w] + 1, Written(w) + d),
         Before(sentNum[w])' + Written(w)' = Before(sentNum[w]) + Written(w) + Len(bytes)
  PROVE  Reading(w)'
<1>1. /\ Len(stream) \in Nat /\ Len(bytes) \in Nat /\ Len(got) \in Nat /\ Len(buf) \in Nat
      /\ sentNum[w] \in 0..FrameNum
      /\ Len(stream') = Len(stream) + Len(bytes)
      /\ \A k \in 1..Len(stream') :
           stream'[k] = IF k <= Len(stream) THEN stream[k] ELSE bytes[k - Len(stream)]
  BY DEF FrameTypes
<1>2. Taken \in Nat /\ Written(w) \in Nat /\ Before(Len(got)) \in Nat /\ Before(sentNum[w]) \in Nat
  <2>1. Taken \in Nat
    BY <1>1 DEF Taken
  <2>2. Written(w) \in Nat
    BY Lengths, SMTT(30) DEF Written, FrameTypes
  <2>3. sentNum[w] \in Nat
    BY <1>1, Lengths
  <2> QED BY <1>1, <2>1, <2>2, <2>3, BeforeNat
<1>3. /\ Before(Len(got))' = Before(Len(got)) /\ Taken' = Taken
      /\ \A j, q : FrameByte(w, j, q)' = FrameByte(w, j, q)
  BY DEF readerVars, Before, FrameLen, BodyLen, Taken, FrameByte
<1>4. Position(w)'
  <2>1. PICK r \in Nat, l \in Nat, n \in Nat :
          r = Before(Len(got)) + Taken /\ l = Len(stream) /\ n = Len(bytes)
    <3>1. Before(Len(got)) + Taken \in Nat
      BY <1>2
    <3> QED BY <1>1, <3>1
  <2>2. Before(sentNum[w]) + Written(w) = r + l
    BY <2>1 DEF Reading, Position
  <2>3. Before(sentNum[w])' + Written(w)' = r + (l + n)
    <3>1. Before(sentNum[w])' + Written(w)' = (r + l) + n
      BY <2>1, <2>2
    <3> QED BY <3>1
  <2>4. Len(stream') = l + n /\ Before(Len(got))' + Taken' = r
    BY <1>1, <1>3, <2>1
  <2> QED BY <2>3, <2>4 DEF Position
<1>5. StreamInv(w)'
  <2> SUFFICES ASSUME NEW j \in 1..FrameNum, NEW q \in 1..FrameLen, NEW k \in 1..Len(stream'),
                      Before(j - 1) + q = Before(Len(got)) + Taken + k
               PROVE  stream'[k] = FrameByte(w, j, q)
    BY <1>3 DEF StreamInv, Before, FrameLen, BodyLen
  <2>1. CASE k <= Len(stream)
    <3>1. k \in 1..Len(stream)
      BY <1>1, <2>1
    <3> QED BY <1>1, <2>1, <3>1 DEF Reading, StreamInv
  <2>2. CASE k > Len(stream)
    <3>1. k - Len(stream) \in 1..Len(bytes)
      BY <1>1, <2>2
    <3>2. k \in Nat /\ q \in Nat /\ Before(j - 1) \in Nat /\ j - 1 \in Nat
      <4>1. j - 1 \in Nat
        BY Lengths
      <4> QED BY <1>1, <4>1, Lengths, BeforeNat
    <3>3. PICK x \in Nat, y \in Nat, v \in Nat, r \in Nat, l \in Nat :
            /\ x = Before(j - 1) /\ y = Before(sentNum[w]) /\ v = Written(w)
            /\ r = Before(Len(got)) + Taken /\ l = Len(stream)
      <4>1. Before(Len(got)) + Taken \in Nat
        BY <1>2, SMTT(30)
      <4>2. Len(stream) \in Nat
        BY <1>1
      <4> QED BY <1>2, <3>2, <4>1, <4>2
    <3>4. x + q = r + k /\ y + v = r + l
      BY <3>3 DEF Reading, Position
    <3>5. x + q = y + (v + (k - l))
      <4>1. k \in Nat /\ q \in Nat
        BY <3>2
      <4>2. x + q = r + k
        BY <3>4
      <4>3. y + v = r + l
        BY <3>4
      <4> QED BY <4>1, <4>2, <4>3
    <3>6. v + (k - l) \in 1..FrameLen
      <4>1. k - l \in 1..Len(bytes) /\ v + Len(bytes) <= FrameLen
        BY <3>1, <3>3
      <4>2. Len(bytes) \in Nat /\ FrameLen \in Nat
        BY <1>1, Lengths
      <4> QED BY <3>2, <4>1, <4>2
    <3>7. j - 1 = sentNum[w] /\ q = v + (k - l)
      <4>1. Before(j - 1) + q = Before(sentNum[w]) + (v + (k - l))
        BY <3>3, <3>5
      <4>2. sentNum[w] \in Nat
        BY <1>1, Lengths
      <4> QED BY <3>2, <3>6, <4>1, <4>2, OnePlace
    <3>8. j = sentNum[w] + 1 /\ bytes[k - Len(stream)] = FrameByte(w, j, q)
      <4>1. j = sentNum[w] + 1
        BY <1>1, <3>7, Lengths
      <4>2. q = Written(w) + (k - Len(stream))
        BY <3>3, <3>7
      <4> QED BY <3>1, <4>1, <4>2
    <3> QED BY <1>1, <2>2, <3>8
  <2> QED BY <1>1, <2>1, <2>2
<1>6. BufInv(w)'
  BY <1>3 DEF Reading, BufInv, readerVars, BodyLen
<1> QED BY <1>4, <1>5, <1>6 DEF Reading

-----------------------------------------------------------------------------
LEMMA TypesKept ==
  ASSUME NEW w, Writers = {w}, FrameTypes(w), [Next]_vars
  PROVE  FrameTypes(w)'
<1>1. /\ plan[w] \in [1..FrameNum -> Bodies] /\ w \in Writers /\ FrameNum \in Nat
      /\ sentNum[w] \in 0..FrameNum
  BY Lengths DEF FrameTypes
<1>2. CASE SendBegin(w)
  BY <1>1, <1>2 DEF SendBegin, SendCall, Begin, Byte, FrameTypes, readerVars
<1>3. CASE SendBody(w)
  <2>1. sentNum[w] + 1 \in 1..FrameNum
    BY <1>1, <1>3 DEF SendBody, SendCall
  <2>2. plan[w][sentNum[w] + 1] \in Seq(Byte)
    BY <1>1, <2>1, BodyFacts
  <2> QED BY <1>1, <1>3, <2>2 DEF SendBody, SendCall, FrameTypes, readerVars
<1>4. CASE SendEnd(w)
  <2>1. sentNum' \in [Writers -> 0..FrameNum]
    BY <1>1, <1>4 DEF SendEnd, SendCall, FrameTypes
  <2> QED BY <1>1, <1>4, <2>1 DEF SendEnd, SendCall, End, Byte, FrameTypes, readerVars
<1>5. CASE Close
  BY <1>5 DEF Close, FrameTypes, readerVars
<1>6. CASE Start1 \/ Start2
  <2>1. stream # <<>> /\ stream' = Tail(stream)
    BY <1>6 DEF Start1, Start2, Reads
  <2>2. stream' \in Seq(Byte)
    BY <2>1 DEF FrameTypes
  <2>3. state' \in Searching
    BY <1>6 DEF Start1, Start2, Reads, Searching
  <2> QED BY <1>6, <2>2, <2>3 DEF Start1, Start2, Reads, FrameTypes, writerVars
<1>7. CASE Recv \/ Stop1Data
  <2>1. stream # <<>> /\ stream' = Tail(stream) /\ buf' = Append(buf, Head(stream))
    BY <1>7 DEF Recv, Stop1Data, Reads, Next1
  <2>2. stream' \in Seq(Byte) /\ buf' \in Seq(Byte)
    BY <2>1 DEF FrameTypes
  <2> QED BY <1>7, <2>2 DEF Recv, Stop1Data, Reads, FrameTypes, writerVars, Searching, AfterBang
<1>8. CASE Stop1Fatal
  BY <1>8 DEF Stop1Fatal, Reads, FrameTypes, writerVars
<1>9. CASE Stop1Done
  <2>1. Kept(buf) \in Seq(Byte)
    BY DEF Kept, FrameTypes
  <2>2. got' \in Seq(Seq(Byte))
    BY <1>9, <2>1 DEF Stop1Done, FrameTypes
  <2> QED BY <1>9, <2>2 DEF Stop1Done, Reads, FrameTypes, writerVars, Searching
<1>10. CASE Eof
  <2>1. got' \in Seq(Seq(Byte))
    BY <1>10 DEF Eof, AtEnd, FrameTypes
  <2> QED BY <1>10, <2>1 DEF Eof, FrameTypes, writerVars
<1>11. CASE UNCHANGED vars
  BY <1>11 DEF vars, writerVars, readerVars, FrameTypes
<1> QED BY <1>2, <1>3, <1>4, <1>5, <1>6, <1>7, <1>8, <1>9, <1>10, <1>11 DEF Next, Writer, Reader

(* What a step of the receiver has to show, besides the place. *)
LEMMA PlaceFacts ==
  ASSUME NEW w, Writers = {w}, FrameTypes(w)
  PROVE  /\ Len(got) \in Nat /\ Len(buf) \in Nat /\ Taken \in Nat /\ Before(Len(got)) \in Nat
<1>1. Len(got) \in Nat /\ Len(buf) \in Nat
  BY DEF FrameTypes
<1> QED BY <1>1, BeforeNat DEF Taken

(* After an exclamation mark: inside the struct no delimiter is completed, *)
(* and behind it the end mark is.                                          *)
LEMMA AfterMark ==
  ASSUME NEW w, Writers = {w}, FrameTypes(w), PlanClean, GotInv(w), Reading(w),
         stream # <<>>, state = "SEGSTOP1"
  PROVE  /\ Len(buf) = BodyLen + 1 => Head(stream) = "#"
         /\ Len(buf) # BodyLen + 1 => Head(stream) \notin {"#", "&"}
         /\ Len(buf) = BodyLen => lab # 5 /\ Head(stream) = "!"
<1>1. /\ Len(got) < FrameNum /\ Len(got) \in Nat /\ Len(buf) \in Nat
      /\ Head(stream) = FrameByte(w, Len(got) + 1, Len(buf) + 3)
  <2>1. Taken = 2 + Len(buf) /\ Len(buf) \in Nat
    BY PlaceFacts DEF Taken
  <2>2. Taken + 1 = Len(buf) + 3
    BY <2>1
  <2> QED BY <2>1, <2>2, NextByte, PlaceFacts DEF Searching
<1>2. Len(got) + 1 \in 1..FrameNum
  BY <1>1, Lengths
<1>3. /\ Len(buf) >= 1 /\ Len(buf) <= BodyLen + 1 /\ buf[Len(buf)] = "!"
      /\ buf[Len(buf)] = FrameByte(w, Len(got) + 1, Len(buf) + 2)
  <2>1. buf # <<>> /\ Len(buf) <= BodyLen + 1 /\ buf[Len(buf)] = "!"
    BY DEF Reading, BufInv
  <2>2. Len(buf) >= 1
    BY <1>1, <2>1 DEF FrameTypes
  <2>3. Len(buf) \in 1..Len(buf)
    BY <1>1, <2>2
  <2> QED BY <2>1, <2>2, <2>3 DEF Reading, BufInv
<1>4. CASE Len(buf) = BodyLen + 1
  <2>1. FrameByte(w, Len(got) + 1, Len(buf) + 3) = End[2]
    BY <1>4, Lengths DEF FrameByte
  <2> QED BY <1>1, <1>4, <2>1, Lengths DEF End
<1>5. CASE Len(buf) <= BodyLen
  <2>1. plan[w][Len(got) + 1][Len(buf)] = "!"
    <3>1. FrameByte(w, Len(got) + 1, Len(buf) + 2) = plan[w][Len(got) + 1][Len(buf)]
      BY <1>1, <1>3, <1>5, Lengths DEF FrameByte
    <3> QED BY <1>3, <3>1
  <2>2. CASE Len(buf) = BodyLen
    <3>1. FrameByte(w, Len(got) + 1, Len(buf) + 3) = End[1]
      BY <2>2, Lengths DEF FrameByte
    <3>2. lab # 5
      BY <1>2, <2>1, <2>2, PlanFacts
    <3> QED BY <1>1, <2>2, <3>1, <3>2, Lengths DEF End
  <2>3. CASE Len(buf) < BodyLen
    <3>1. FrameByte(w, Len(got) + 1, Len(buf) + 3) = plan[w][Len(got) + 1][Len(buf) + 1]
      BY <1>1, <2>3, Lengths DEF FrameByte
    <3>2. Len(buf) \in 1..(BodyLen - 1)
      BY <1>1, <1>3, <2>3, Lengths
    <3>3. plan[w][Len(got) + 1][Len(buf) + 1] \notin {"#", "&"}
      BY <1>2, <2>1, <3>2, PlanFacts
    <3> QED BY <1>1, <2>3, <3>1, <3>3, Lengths
  <2> QED BY <1>1, <1>5, <2>2, <2>3, Lengths
<1> QED BY <1>1, <1>3, <1>4, <1>5, Lengths

-----------------------------------------------------------------------------
(* The plan stays as it is. *)
LEMMA PlanStays ==
  ASSUME [Next]_vars PROVE UNCHANGED <<plan, lab>>
<1>1. (\E w \in Writers : Writer(w)) \/ Close => UNCHANGED <<plan, lab>>
  BY DEF Writer, SendBegin, SendBody, SendEnd, SendCall, Close
<1>2. Reader => UNCHANGED <<plan, lab>>
  BY DEF Reader, Start1, Start2, Recv, Stop1Done, Stop1Fatal, Stop1Data, Eof, Reads, writerVars
<1> QED BY <1>1, <1>2 DEF Next, vars, writerVars

(* The calls of send(). *)
LEMMA CarriedWriter ==
  ASSUME NEW w, Writers = {w}, FrameTypes(w), Carried(w), Writer(w)
  PROVE  Carried(w)'
<1>1. UNCHANGED <<plan, readerVars>> /\ sentNum[w] < FrameNum /\ w \in Writers
  BY DEF Writer, SendBegin, SendBody, SendEnd, SendCall
<1>2. GotInv(w)' /\ state' # "EXIT" /\ (state' = "END" => buf' = <<>>)
  BY <1>1 DEF Carried, GotInv, readerVars
<1>3. sentNum[w] \in Nat /\ Before(sentNum[w]) \in Nat /\ sentNum \in [Writers -> 0..FrameNum]
      /\ writerPc \in [Writers -> {"begin", "body", "end"}]
  <2>1. sentNum[w] \in Nat
    BY <1>1, Lengths DEF FrameTypes
  <2> QED BY <2>1, BeforeNat DEF FrameTypes
<1>4. ASSUME state # "END", SendBegin(w) PROVE Reading(w)'
  <2>1. Begin \in Seq(Byte) /\ Len(Begin) = 2 /\ stream' = stream \o Begin
    BY <1>4 DEF Begin, Byte, SendBegin, SendCall
  <2>2. Written(w) = 0 /\ Written(w)' = 2 /\ Before(sentNum[w])' = Before(sentNum[w])
    BY <1>1, <1>3, <1>4 DEF SendBegin, SendCall, Written, Before, FrameLen, BodyLen
  <2>3. \A d \in 1..2 : Begin[d] = FrameByte(w, sentNum[w] + 1, 0 + d)
    BY DEF FrameByte
  <2>4. 0 + 2 <= FrameLen /\ Before(sentNum[w]) + 2 = Before(sentNum[w]) + 0 + 2
    BY <1>3, Lengths
  <2> QED BY <1>1, <1>4, <2>1, <2>2, <2>3, <2>4, WritesOn DEF Carried
<1>5. ASSUME state # "END", SendBody(w) PROVE Reading(w)'
  <2>1. PICK bytes : bytes = plan[w][sentNum[w] + 1]
    OBVIOUS
  <2>2. bytes \in Seq(Byte) /\ Len(bytes) = BodyLen /\ stream' = stream \o bytes
    <3>1. sentNum[w] + 1 \in 1..FrameNum
      BY <1>1, <1>3, Lengths
    <3> QED BY <1>5, <2>1, <3>1, BodyFacts DEF SendBody, SendCall, FrameTypes
  <2>3. Written(w) = 2 /\ Written(w)' = BodyLen + 2 /\ Before(sentNum[w])' = Before(sentNum[w])
    BY <1>1, <1>3, <1>5 DEF SendBody, SendCall, Written, Before, FrameLen, BodyLen
  <2>4. \A d \in 1..BodyLen : bytes[d] = FrameByte(w, sentNum[w] + 1, 2 + d)
    BY <2>1, Lengths DEF FrameByte
  <2>5. 2 + BodyLen <= FrameLen
        /\ Before(sentNum[w]) + (BodyLen + 2) = Before(sentNum[w]) + 2 + BodyLen
    BY <1>3, Lengths
  <2> QED BY <1>1, <1>5, <2>2, <2>3, <2>4, <2>5, WritesOn DEF Carried
<1>6. ASSUME state # "END", SendEnd(w) PROVE Reading(w)'
  <2>1. End \in Seq(Byte) /\ Len(End) = 2 /\ stream' = stream \o End
    BY <1>6 DEF End, Byte, SendEnd, SendCall
  <2>2. Written(w) = BodyLen + 2 /\ Written(w)' = 0 /\ sentNum'[w] = sentNum[w] + 1
    BY <1>1, <1>3, <1>6 DEF SendEnd, SendCall, Written
  <2>3. Before(sentNum[w])' = Before(sentNum[w] + 1)
    BY <2>2 DEF Before, FrameLen, BodyLen
  <2>4. Before(sentNum[w] + 1) = Before(sentNum[w]) + FrameLen
    BY <1>3, BeforeFacts
  <2>5. \A d \in 1..2 : End[d] = FrameByte(w, sentNum[w] + 1, (BodyLen + 2) + d)
    BY Lengths DEF FrameByte
  <2>6. (BodyLen + 2) + 2 <= FrameLen
        /\ Before(sentNum[w])' + 0 = Before(sentNum[w]) + (BodyLen + 2) + 2
    BY <1>3, <2>3, <2>4, Lengths
  <2> QED BY <1>1, <1>6, <2>1, <2>2, <2>5, <2>6, WritesOn DEF Carried
<1> QED BY <1>1, <1>2, <1>4, <1>5, <1>6 DEF Writer, Carried, readerVars

(* The receiver searches the begin mark. *)
LEMMA CarriedStart ==
  ASSUME NEW w, Writers = {w}, FrameTypes(w), Carried(w), Start1 \/ Start2
  PROVE  Carried(w)'
<1>1. /\ stream # <<>> /\ stream' = Tail(stream) /\ UNCHANGED writerVars /\ UNCHANGED <<buf, got>>
      /\ state \in {"SEGSTART1", "SEGSTART2"} /\ Next1 = Head(stream)
  BY DEF Start1, Start2, Reads, Next1
<1>2. GotInv(w) /\ Reading(w) /\ buf = <<>>
  BY <1>1 DEF Carried, Reading, BufInv
<1>3. Len(got) < FrameNum /\ Next1 = FrameByte(w, Len(got) + 1, Taken + 1)
  BY <1>1, <1>2, NextByte DEF Searching
<1>4. Taken' = Taken + 1 /\ state' \in {"SEGSTART2", "SEGRECV"}
  <2>1. CASE Start1
    BY <1>3, <2>1 DEF Start1, Reads, Taken, FrameByte, Begin
  <2>2. CASE Start2
    BY <1>1, <1>2, <1>3, <2>2 DEF Start2, Reads, Taken, FrameByte, Begin
  <2> QED BY <2>1, <2>2
<1>5. Before(Len(got))' = Before(Len(got))
  BY <1>1 DEF Before, FrameLen, BodyLen
<1>6. Position(w)' /\ StreamInv(w)'
  <2>1. Taken' \in Nat /\ Before(Len(got))' + Taken' = Before(Len(got)) + Taken + 1
    BY <1>4, <1>5, PlaceFacts
  <2> QED BY <1>1, <1>2, <1>5, <2>1, ReadsOn, PlaceFacts
<1>7. BufInv(w)'
  BY <1>1, <1>2, <1>3, <1>4, Lengths DEF BufInv
<1>8. GotInv(w)'
  BY <1>1, <1>2, <1>4 DEF GotInv, writerVars
<1> QED BY <1>4, <1>6, <1>7, <1>8 DEF Carried, Reading

(* The receiver stores a byte. *)
LEMMA CarriedRecv ==
  ASSUME NEW w, Writers = {w}, FrameTypes(w), PlanClean, Carried(w), Recv \/ Stop1Data
  PROVE  Carried(w)'
<1>1. /\ stream # <<>> /\ stream' = Tail(stream) /\ UNCHANGED writerVars /\ UNCHANGED got
      /\ state \in {"SEGRECV", "SEGSTOP1"} /\ Next1 = Head(stream)
      /\ buf' = Append(buf, Next1)
  BY DEF Recv, Stop1Data, Reads, Next1
<1>2. GotInv(w) /\ Reading(w) /\ Len(buf) \in Nat /\ Len(got) \in Nat /\ Taken = 2 + Len(buf)
  BY <1>1, PlaceFacts DEF Carried, Taken
<1>3. Len(got) < FrameNum /\ Next1 = FrameByte(w, Len(got) + 1, Len(buf) + 3)
  <2>1. Taken + 1 = Len(buf) + 3
    BY <1>2
  <2> QED BY <1>1, <1>2, <2>1, NextByte DEF Searching
<1>4. Len(buf) <= BodyLen
  <2>1. Len(buf) = BodyLen + 1 => FALSE
    <3>1. Len(buf) = BodyLen + 1 => state = "SEGSTOP1"
      BY <1>2 DEF Reading, BufInv
    <3>2. Len(buf) = BodyLen + 1 => Next1 = "#"
      BY <1>1, <1>2, <3>1, AfterMark
    <3>3. state = "SEGSTOP1" => Next1 # "#"
      BY DEF Recv, Stop1Data, Reads
    <3> QED BY <3>1, <3>2, <3>3
  <2>2. Len(buf) <= BodyLen + 1
    BY <1>2 DEF Reading, BufInv
  <2> QED BY <1>2, <2>1, <2>2, Lengths
<1>5. /\ Len(buf') = Len(buf) + 1 /\ Taken' = Taken + 1 /\ buf' # <<>>
      /\ \A k \in 1..Len(buf) : buf'[k] = buf[k]
      /\ buf'[Len(buf) + 1] = Next1 /\ state' \in {"SEGRECV", "SEGSTOP1"}
  <2>1. /\ Len(buf') = Len(buf) + 1 /\ buf' # <<>>
        /\ \A k \in 1..Len(buf) : buf'[k] = buf[k]
        /\ buf'[Len(buf) + 1] = Next1
    BY <1>1, <1>2 DEF FrameTypes
  <2>2. state' \in {"SEGRECV", "SEGSTOP1"}
    BY DEF Recv, Stop1Data, Reads, AfterBang
  <2> QED BY <1>2, <2>1, <2>2 DEF Taken
<1>6. Before(Len(got))' = Before(Len(got))
  BY <1>1 DEF Before, FrameLen, BodyLen
<1>7. Position(w)' /\ StreamInv(w)'
  <2>1. Taken' \in Nat /\ Before(Len(got))' + Taken' = Before(Len(got)) + Taken + 1
    BY <1>5, <1>6, PlaceFacts
  <2> QED BY <1>1, <1>2, <1>6, <2>1, ReadsOn, PlaceFacts
<1>8. \A k \in 1..Len(buf') : buf'[k] = FrameByte(w, Len(got) + 1, k + 2)'
  <2>1. \A j, q : FrameByte(w, j, q)' = FrameByte(w, j, q)
    BY <1>1 DEF FrameByte, writerVars, BodyLen
  <2>2. \A k \in 1..Len(buf) : buf[k] = FrameByte(w, Len(got) + 1, k + 2)
    BY <1>2 DEF Reading, BufInv
  <2> SUFFICES ASSUME NEW k \in 1..Len(buf') PROVE buf'[k] = FrameByte(w, Len(got) + 1, k + 2)
    BY <1>1, <2>1
  <2>3. CASE k = Len(buf) + 1
    <3>1. k + 2 = Len(buf) + 3
      BY <1>2, <2>3
    <3> QED BY <1>3, <1>5, <2>3, <3>1
  <2>4. CASE k # Len(buf) + 1
    <3>1. k \in 1..Len(buf)
      BY <1>2, <1>5, <2>4
    <3> QED BY <1>5, <2>2, <3>1
  <2> QED BY <2>3, <2>4
<1>9. state' = "SEGSTOP1" => Next1 = "!"
  BY DEF Recv, Stop1Data, Reads, AfterBang
<1>10. Len(buf) = BodyLen => state' = "SEGSTOP1"
  <2> SUFFICES ASSUME Len(buf) = BodyLen PROVE state' = "SEGSTOP1"
    OBVIOUS
  <2>1. CASE Recv
    <3>1. FrameByte(w, Len(got) + 1, Len(buf) + 3) = End[1]
      BY Lengths DEF FrameByte
    <3> QED BY <1>3, <2>1, <3>1 DEF End, Recv
  <2>2. CASE Stop1Data
    <3>1. lab # 5 /\ Head(stream) = "!"
      BY <1>1, <1>2, <2>2, AfterMark DEF Stop1Data, Reads
    <3> QED BY <1>1, <2>2, <3>1 DEF Stop1Data, AfterBang
  <2> QED BY <2>1, <2>2
<1>11. BufInv(w)'
  <2>1. Len(buf') <= BodyLen + 1 /\ (Len(buf') = BodyLen + 1 => state' = "SEGSTOP1")
    BY <1>2, <1>4, <1>5, <1>10, Lengths
  <2>2. state' = "SEGSTOP1" => buf' # <<>> /\ buf'[Len(buf')] = "!"
    BY <1>5, <1>9
  <2>3. BodyLen' = BodyLen /\ Len(got') < FrameNum
    BY <1>1, <1>3 DEF BodyLen
  <2> QED BY <1>1, <1>5, <1>8, <2>1, <2>2, <2>3 DEF BufInv
<1>12. GotInv(w)'
  BY <1>1, <1>2, <1>5 DEF GotInv, writerVars
<1> QED BY <1>5, <1>7, <1>11, <1>12 DEF Carried, Reading

(* The receiver has found the end mark. *)
LEMMA CarriedDone ==
  ASSUME NEW w, Writers = {w}, FrameTypes(w), PlanClean, Carried(w), Stop1Done
  PROVE  Carried(w)'
<1>1. /\ stream # <<>> /\ stream' = Tail(stream) /\ UNCHANGED writerVars /\ state = "SEGSTOP1"
      /\ Head(stream) = "#" /\ got' = Append(got, Kept(buf)) /\ buf' = <<>> /\ state' = "SEGSTART1"
  BY DEF Stop1Done, Reads, Next1
<1>2. GotInv(w) /\ Reading(w) /\ Len(buf) \in Nat /\ Len(got) \in Nat /\ Taken = 2 + Len(buf)
  BY <1>1, PlaceFacts DEF Carried, Taken
<1>3. Len(got) < FrameNum /\ Len(buf) = BodyLen + 1
  BY <1>1, <1>2, AfterMark, NextByte DEF Searching
<1>4. Kept(buf) = plan[w][Len(got) + 1]
  <2>1. Len(got) + 1 \in 1..FrameNum
    BY <1>2, <1>3, Lengths
  <2>2. plan[w][Len(got) + 1] \in Seq(Byte) /\ Len(plan[w][Len(got) + 1]) = BodyLen
    BY <2>1, BodyFacts DEF FrameTypes
  <2>3. /\ Kept(buf) \in Seq(Byte) /\ Len(Kept(buf)) = BodyLen
        /\ \A k \in 1..BodyLen : Kept(buf)[k] = buf[k]
    BY <1>2, <1>3, Lengths DEF Kept, FrameTypes
  <2>4. ASSUME NEW k \in 1..BodyLen PROVE Kept(buf)[k] = plan[w][Len(got) + 1][k]
    <3>1. k \in 1..Len(buf) /\ k \in Nat /\ k + 2 <= BodyLen + 2 /\ ~(k + 2 <= 2) /\ (k + 2) - 2 = k
      BY <1>3, <2>4, Lengths
    <3>2. buf[k] = FrameByte(w, Len(got) + 1, k + 2)
      BY <1>2, <3>1 DEF Reading, BufInv
    <3> QED BY <2>3, <3>1, <3>2 DEF FrameByte
  <2> QED BY <2>2, <2>3, <2>4, SeqEqual
<1>5. /\ Len(got') = Len(got) + 1 /\ got'[Len(got) + 1] = plan[w][Len(got) + 1]
      /\ \A k \in 1..Len(got) : got'[k] = got[k]
  BY <1>1, <1>2, <1>4 DEF FrameTypes
<1>6. Position(w)' /\ StreamInv(w)'
  <2>1. Taken' = 0
    BY <1>1 DEF Taken
  <2>2. Before(Len(got))' = Before(Len(got) + 1)
    BY <1>5 DEF Before, FrameLen, BodyLen
  <2>3. Before(Len(got) + 1) = Before(Len(got)) + FrameLen
    BY <1>2, BeforeFacts
  <2>4. Taken' \in Nat /\ Before(Len(got))' \in Nat /\ Before(Len(got)) \in Nat /\ Taken \in Nat
    BY <2>1, <2>2, <2>3, PlaceFacts, Lengths
  <2>5. Before(Len(got))' + Taken' = Before(Len(got)) + Taken + 1
    BY <1>2, <1>3, <2>1, <2>2, <2>3, <2>4, Lengths
  <2> QED BY <1>1, <1>2, <2>4, <2>5, ReadsOn
<1>7. BufInv(w)'
  BY <1>1, Lengths DEF BufInv
<1>8. GotInv(w)'
  <2>1. plan' = plan
    BY <1>1 DEF writerVars
  <2>2. \A k \in 1..Len(got) : got[k] = plan[w][k]
    BY <1>1, <1>2 DEF GotInv
  <2>3. \A k \in 1..Len(got') : k = Len(got) + 1 \/ k \in 1..Len(got)
    BY <1>2, <1>5
  <2> QED BY <1>2, <1>3, <1>5, <2>1, <2>2, <2>3, Lengths DEF GotInv
<1> QED BY <1>1, <1>6, <1>7, <1>8 DEF Carried, Reading

(* The sender's end of the connection is closed, and the receiver sees it. *)
LEMMA CarriedEof ==
  ASSUME NEW w, Writers = {w}, FrameTypes(w), Carried(w), Eof
  PROVE  Carried(w)'
<1>1. /\ state \notin {"EXIT", "END"} /\ state' = "END" /\ buf' = <<>> /\ plan' = plan
      /\ got' = IF buf = <<>> THEN got ELSE Append(got, buf)
  BY DEF Eof, AtEnd, writerVars
<1>2. GotInv(w) /\ BufInv(w) /\ Len(got) \in Nat
  BY <1>1 DEF Carried, Reading, FrameTypes
<1>3. CASE buf = <<>>
  BY <1>1, <1>2, <1>3 DEF Carried, GotInv
<1>4. CASE buf # <<>>
  <2>1. Len(got) < FrameNum
    BY <1>2, <1>4 DEF BufInv
  <2>2. /\ Len(got') = Len(got) + 1 /\ \A k \in 1..Len(got) : got'[k] = got[k]
    BY <1>1, <1>4 DEF FrameTypes
  <2>3. \A k \in 1..Len(got') : k < Len(got') => k \in 1..Len(got)
    BY <1>2, <2>2
  <2>4. GotInv(w)'
    BY <1>1, <1>2, <2>1, <2>2, <2>3, Lengths DEF GotInv
  <2> QED BY <1>1, <2>4 DEF Carried
<1> QED BY <1>3, <1>4

-----------------------------------------------------------------------------
LEMMA FInvInit ==
  ASSUME NEW w, Writers = {w}, Init
  PROVE  FInv(w)
<1>1. FrameTypes(w)
  BY FramingConstants DEF Init, FrameTypes, Searching
<1>2. Carried(w)
  <2>1. /\ state = "SEGSTART1" /\ buf = <<>> /\ got = <<>> /\ stream = <<>>
        /\ sentNum[w] = 0 /\ writerPc[w] = "begin"
    BY DEF Init
  <2>2. Len(got) = 0 /\ Len(stream) = 0 /\ Len(buf) = 0 /\ Taken = 0 /\ Written(w) = 0
    BY <2>1 DEF Taken, Written
  <2>3. GotInv(w)
    BY <2>2, Lengths DEF GotInv
  <2>4. Position(w)
    BY <2>1, <2>2, BeforeFacts DEF Position
  <2>5. StreamInv(w)
    BY <2>2 DEF StreamInv
  <2>6. BufInv(w)
    BY <2>1, <2>2, Lengths DEF BufInv
  <2> QED BY <2>1, <2>3, <2>4, <2>5, <2>6 DEF Carried, Reading
<1> QED BY <1>1, <1>2 DEF FInv

LEMMA FInvStep ==
  ASSUME NEW w, Writers = {w}, FInv(w), [Next]_vars
  PROVE  FInv(w)'
<1>1. FrameTypes(w) /\ FrameTypes(w)'
  BY TypesKept DEF FInv
<1>2. PlanClean' => PlanClean
  BY PlanStays DEF PlanClean
<1>3. ASSUME PlanClean PROVE Carried(w)'
  <2>1. Carried(w)
    BY <1>3 DEF FInv
  <2>2. CASE Writer(w)
    BY <1>1, <2>1, <2>2, CarriedWriter
  <2>3. CASE Close \/ UNCHANGED vars
    <3>1. UNCHANGED <<plan, sentNum, writerPc, stream, readerVars>>
      BY <2>3 DEF Close, vars, writerVars
    <3>2. /\ \A j, q : FrameByte(w, j, q)' = FrameByte(w, j, q)
          /\ Written(w)' = Written(w) /\ Taken' = Taken
      BY <3>1 DEF readerVars, FrameByte, Written, Taken, BodyLen
    <3>3. GotInv(w) => GotInv(w)'
      BY <3>1 DEF GotInv, readerVars
    <3>4. Position(w) => Position(w)'
      BY <3>1, <3>2 DEF Position, readerVars, Before, FrameLen, BodyLen
    <3>5. StreamInv(w) => StreamInv(w)'
      BY <3>1, <3>2 DEF StreamInv, readerVars, Before, FrameLen, BodyLen
    <3>6. BufInv(w) => BufInv(w)'
      BY <3>1, <3>2 DEF BufInv, readerVars, BodyLen
    <3> QED BY <2>1, <3>1, <3>3, <3>4, <3>5, <3>6 DEF Carried, Reading, readerVars
  <2>4. CASE Start1 \/ Start2
    BY <1>1, <2>1, <2>4, CarriedStart
  <2>5. CASE Recv \/ Stop1Data
    BY <1>1, <1>3, <2>1, <2>5, CarriedRecv
  <2>6. CASE Stop1Done
    BY <1>1, <1>3, <2>1, <2>6, CarriedDone
  <2>7. CASE Stop1Fatal
    <3>1. stream # <<>> /\ state = "SEGSTOP1" /\ Head(stream) = "&"
      BY <2>7 DEF Stop1Fatal, Reads, IsFatal, Next1
    <3>2. GotInv(w) /\ Reading(w)
      BY <2>1, <3>1 DEF Carried
    <3>3. Head(stream) # "&"
      BY <1>1, <1>3, <3>1, <3>2, AfterMark
    <3> QED BY <3>1, <3>3
  <2>8. CASE Eof
    BY <1>1, <2>1, <2>8, CarriedEof
  <2> QED BY <2>2, <2>3, <2>4, <2>5, <2>6, <2>7, <2>8 DEF Next, Reader
<1> QED BY <1>1, <1>2, <1>3 DEF FInv

(* The inductive invariant of one sender's connection: the bytes on it and *)
(* those in the receiver's buffer are the bytes of their places.           *)
THEOREM Inductive == ASSUME NEW w, Writers = {w} PROVE Spec => []FInv(w)
<1>1. Init => FInv(w)
  BY FInvInit
<1>2. FInv(w) /\ [Next]_vars => FInv(w)'
  BY FInvStep
<1> QED BY <1>1, <1>2, PTL DEF Spec

(* The first frames of the one writer are whole. *)
LEMMA PrefixWhole ==
  ASSUME NEW w, Writers = {w}, NEW g, Len(g) \in Nat, Len(g) <= FrameNum,
         \A k \in 1..Len(g) : g[k] = plan[w][k]
  PROVE  Whole(g)
<1>1. PICK from \in [1..Len(g) -> Writers] : \A k \in 1..Len(g) : from[k] = w
  <2>1. [k \in 1..Len(g) |-> w] \in [1..Len(g) -> Writers]
    OBVIOUS
  <2> QED BY <2>1
<1>2. PICK nth \in [1..Len(g) -> 1..FrameNum] : \A k \in 1..Len(g) : nth[k] = k
  <2>1. [k \in 1..Len(g) |-> k] \in [1..Len(g) -> 1..FrameNum]
    BY Lengths
  <2> QED BY <2>1
<1>3. ASSUME NEW k \in 1..Len(g)
      PROVE  /\ g[k] = plan[from[k]][nth[k]]
             /\ \A i \in 1..(k - 1) : from[i] = from[k] => nth[i] < nth[k]
             /\ nth[k] = 1 \/ \E i \in 1..(k - 1) : from[i] = from[k] /\ nth[i] = nth[k] - 1
  <2>1. \A i \in 1..(k - 1) : i \in 1..Len(g) /\ i < k
    OBVIOUS
  <2>2. k = 1 \/ k - 1 \in 1..(k - 1)
    OBVIOUS
  <2> QED BY <1>1, <1>2, <2>1, <2>2
<1>4. \E f \in [1..Len(g) -> Writers], m \in [1..Len(g) -> 1..FrameNum] :
        \A k \in 1..Len(g) :
          /\ g[k] = plan[f[k]][m[k]]
          /\ \A i \in 1..(k - 1) : f[i] = f[k] => m[i] < m[k]
          /\ m[k] = 1 \/ \E i \in 1..(k - 1) : f[i] = f[k] /\ m[i] = m[k] - 1
  <2> WITNESS from \in [1..Len(g) -> Writers], nth \in [1..Len(g) -> 1..FrameNum]
  <2> QED BY <1>3
<1> QED BY <1>4 DEF Whole

LEMMA FrontFacts ==
  ASSUME NEW S, NEW s \in Seq(S), Len(s) >= 1
  PROVE  /\ Len(Front(s)) = Len(s) - 1
         /\ \A k \in 1..(Len(s) - 1) : Front(s)[k] = s[k]
<1>1. PICK m \in Nat : m = Len(s) - 1 /\ m < Len(s)
  <2>1. Len(s) \in Nat
    OBVIOUS
  <2>2. Len(s) - 1 \in Nat /\ Len(s) - 1 < Len(s)
    BY <2>1
  <2> QED BY <2>2
<1>2. Front(s) = SubSeq(s, 1, m)
  BY <1>1 DEF Front
<1>3. Len(SubSeq(s, 1, m)) = m
  BY <1>1
<1>4. \A k \in 1..m : SubSeq(s, 1, m)[k] = s[k]
  BY <1>1
<1> QED BY <1>1, <1>2, <1>3, <1>4

(* On a connection with one sender, for structs without a delimiter of any *)
(* length, every struct arrives whole and in order, only the last one of a *)
(* connection that ended may be cut short, and the receiver's buffer       *)
(* overflows by no more than the one byte that lab5 has too few.           *)
THEOREM CleanFrames == ASSUME NEW w, Writers = {w} PROVE Spec => []CleanIntact
<1>1. ASSUME FInv(w) PROVE CleanIntact
  <2> SUFFICES ASSUME PlanClean
               PROVE  /\ FramesIntact \/ (state = "END" /\ Whole(Front(got)))
                      /\ Len(buf) <= BufLen + IF lab = 5 THEN 1 ELSE 0
    BY DEF CleanIntact
  <2>1. /\ state # "EXIT" /\ GotInv(w) /\ got \in Seq(Seq(Byte)) /\ Len(got) \in Nat
        /\ (state # "END" => Reading(w)) /\ (state = "END" => buf = <<>>)
    BY <1>1 DEF FInv, Carried, FrameTypes
  <2>2. Len(buf) <= BufLen + IF lab = 5 THEN 1 ELSE 0
    <3>1. Len(buf) <= BodyLen + 1
      <4>1. CASE state = "END"
        BY <2>1, <4>1, Lengths
      <4>2. CASE state # "END"
        BY <2>1, <4>2 DEF Reading, BufInv
      <4> QED BY <4>1, <4>2
    <3>2. BodyLen \in Nat
      BY Lengths
    <3>3. BufLen + (IF lab = 5 THEN 1 ELSE 0) = BodyLen + 1
      BY <3>2 DEF BufLen
    <3> QED BY <3>1, <3>3
  <2>3. CASE state # "END" \/ got = <<>>
    <3>1. \A k \in 1..Len(got) : got[k] = plan[w][k]
      BY <2>1, <2>3 DEF GotInv
    <3>2. Whole(got)
      BY <2>1, <3>1, PrefixWhole DEF GotInv
    <3> QED BY <2>1, <2>2, <3>2 DEF FramesIntact
  <2>4. CASE state = "END" /\ got # <<>>
    <3>1. PICK g : g = Front(got)
      OBVIOUS
    <3>2. /\ Len(got) >= 1 /\ Len(g) = Len(got) - 1
          /\ \A k \in 1..(Len(got) - 1) : g[k] = got[k]
      <4>1. Len(got) >= 1
        BY <2>1, <2>4
      <4> QED BY <2>1, <3>1, <4>1, FrontFacts
    <3>3. Len(g) \in Nat /\ Len(g) <= FrameNum
      BY <2>1, <3>2, Lengths DEF GotInv
    <3>4. \A k \in 1..Len(g) : g[k] = plan[w][k]
      BY <2>1, <3>2 DEF GotInv
    <3>5. Whole(g)
      BY <3>3, <3>4, PrefixWhole
    <3> QED BY <2>2, <2>4, <3>1, <3>5
  <2> QED BY <2>3, <2>4
<1>2. Spec => []FInv(w)
  BY Inductive
<1> QED BY <1>1, <1>2, PTL
=============================================================================
