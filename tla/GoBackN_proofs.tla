--------------------------- MODULE GoBackN_proofs ---------------------------
(***************************************************************************)
(* Proofs about the STCP data path, for every length of data, segment      *)
(* size, window and channel bound.                                         *)
(***************************************************************************)
EXTENDS GoBackN, TLAPS

LEMMA SegNumType == SegNum \in Nat
  BY ConstantsOK DEF SegNum

LEMMA SegLenType == \A i \in Nat : SegLen(i) \in Nat \ {0}
  BY ConstantsOK DEF SegLen

LEMMA SegLenFull == \A i \in Nat : i < SegNum => SegLen(i) = MaxSegLen
  BY SegNumType DEF SegLen

LEMMA Successor == \A i, m \in Nat : i * m + m = (i + 1) * m
  OBVIOUS

LEMMA ProductType == \A i, m \in Nat : i * m \in Nat
  OBVIOUS

LEMMA BaseType == Base \in Nat
  BY ConstantsOK DEF Base

LEMMA InitInv == Init => IInv
<1> SUFFICES ASSUME Init PROVE IInv OBVIOUS
<1> USE ConstantsOK, BaseType, SegNumType
<1>0. PICK n \in 0..DupSyn : \E m \in 0..(DupSyn - n) :
         /\ c2s = [k \in 1..n |-> Syn]
         /\ s2c = [k \in 1..m |-> Ack("SYNACK", Base)]
  BY DEF Init
<1>1. PICK m \in 0..(DupSyn - n) :
         /\ c2s = [k \in 1..n |-> Syn]
         /\ s2c = [k \in 1..m |-> Ack("SYNACK", Base)]
  BY <1>0
<1>2. TypeOK
  <2>1. c2s \in Seq(DataType \cup SynType) /\ s2c \in Seq(AckType)
    BY <1>1 DEF Syn, Ack, SynType, AckType
  <2> QED BY <2>1 DEF Init, TypeOK, Null
<1>3. BufInv
  BY DEF Init, BufInv
<1>4. ChannelInv
  <2>1. \A k \in 1..Len(c2s) : c2s[k].type = "SYN"
    BY <1>1 DEF Syn
  <2>2. \A k \in 1..Len(s2c) : s2c[k].ack = Base
    BY <1>1 DEF Ack
  <2> QED BY <2>1, <2>2 DEF Init, ChannelInv
<1>5. WindowInv /\ ExpectInv /\ DoneInv /\ FreedOnlyAccepted
  BY DEF Init, WindowInv, ExpectInv, DoneInv, FreedOnlyAccepted
<1> QED BY <1>2, <1>3, <1>4, <1>5 DEF IInv

(***************************************************************************)
(* One lemma per action: it keeps the inductive invariant.                 *)
(***************************************************************************)
LEMMA AppendSegInv == IInv /\ AppendSeg => IInv'
<1> SUFFICES ASSUME IInv, AppendSeg PROVE IInv' OBVIOUS
<1> USE ConstantsOK, BaseType, SegNumType DEF IInv, AppendSeg, serverVars
<1> DEFINE n == Len(segs) + 1
           new == [seq |-> nextSeq, len |-> SegLen(n), off |-> (n - 1) * MaxSegLen]
<1>1. /\ n \in Nat /\ n \in 1..SegNum /\ SegLen(n) \in Nat \ {0}
      /\ (n - 1) * MaxSegLen \in Nat
  <2>1. Len(segs) \in Nat /\ n \in Nat /\ n - 1 \in Nat /\ n \in 1..SegNum
    BY DEF TypeOK
  <2>2. (n - 1) * MaxSegLen \in Nat
    BY <2>1, ProductType
  <2> QED BY <2>1, <2>2, SegLenType
<1>2. /\ segs' = Append(segs, new) /\ Len(segs') = n /\ segs'[n] = new
      /\ \A i \in 1..Len(segs) : segs'[i] = segs[i]
      /\ nextSeq' = nextSeq + SegLen(n)
  BY DEF TypeOK
<1>3. head = 1 /\ unSent = 1
  BY DEF ChannelInv
<1>4. TypeOK'
  BY <1>1, <1>2 DEF TypeOK, Null, SegType
<1>5. new.off = nextSeq - Base
  <2>1. CASE segs = <<>>
    BY <2>1 DEF BufInv
  <2>2. CASE segs # <<>>
    <3> DEFINE l == Len(segs)
    <3>1. l \in 1..Len(segs) /\ l < SegNum /\ n = l + 1
      BY <2>2 DEF TypeOK
    <3>2. /\ nextSeq = segs[l].seq + segs[l].len
          /\ segs[l].off = segs[l].seq - Base /\ segs[l].off = (l - 1) * MaxSegLen
          /\ segs[l].len = MaxSegLen
          /\ segs[l].seq \in Nat
      <4>1. segs[l] \in SegType
        BY <3>1 DEF TypeOK
      <4>2. SegLen(l) = MaxSegLen
        BY <3>1, SegLenFull
      <4> QED BY <2>2, <3>1, <4>1, <4>2 DEF BufInv, SegType
    <3>3. (l - 1) * MaxSegLen + MaxSegLen = ((l - 1) + 1) * MaxSegLen
      <4>1. l - 1 \in Nat
        BY <3>1
      <4> QED BY <4>1, Successor
    <3>4. /\ (l - 1) + 1 = n - 1 /\ new.off = (n - 1) * MaxSegLen
          /\ (l - 1) * MaxSegLen \in Nat
      BY <3>1, ProductType
    <3> DEFINE p == (l - 1) * MaxSegLen
    <3> HIDE DEF n, l, new
    <3>5. new.off = p + MaxSegLen
      BY <3>3, <3>4
    <3>6. p \in Nat /\ segs[l].seq = p + Base
      <4>1. p \in Nat /\ p = segs[l].seq - Base /\ segs[l].seq \in Nat
        BY <3>2, <3>4
      <4> HIDE DEF p
      <4> QED BY <4>1
    <3> HIDE DEF p
    <3> QED BY <3>2, <3>5, <3>6
  <2> QED BY <2>1, <2>2
<1>6. BufInv'
  <2>1. \A i \in 1..Len(segs) : segs[i] \in SegType
    BY DEF TypeOK
  <2>2. \A j \in 1..Len(segs) : segs[j].seq + segs[j].len <= nextSeq
    BY DEF BufInv
  <2>3. segs # <<>> => segs[n - 1].seq + segs[n - 1].len = nextSeq
    BY DEF BufInv
  <2>4. ASSUME NEW i \in 1..n
        PROVE  /\ segs'[i].seq >= Base /\ segs'[i].off = segs'[i].seq - Base
               /\ segs'[i].len = SegLen(i) /\ segs'[i].off = (i - 1) * MaxSegLen
               /\ segs'[i].seq + segs'[i].len <= nextSeq'
               /\ \A j \in 1..(i - 1) :
                    segs'[j].seq + segs'[j].len <= segs'[i].seq
               /\ i > 1 => segs'[i - 1].seq + segs'[i - 1].len = segs'[i].seq
    <3>1. CASE i = n
      <4>1. /\ new.seq = nextSeq /\ new.len = SegLen(n)
            /\ new.off = (n - 1) * MaxSegLen /\ nextSeq >= Base
        BY DEF BufInv
      <4>2. \A j \in 1..(n - 1) : segs'[j] = segs[j] /\ j \in 1..Len(segs)
        BY <1>2 DEF TypeOK
      <4>3. segs'[n].seq = nextSeq /\ segs'[n].len = SegLen(n)
        BY <1>2, <4>1
      <4>4. segs'[n].seq + segs'[n].len <= nextSeq'
        BY <1>1, <1>2, <4>3 DEF TypeOK
      <4>5. \A j \in 1..(n - 1) : segs'[j].seq + segs'[j].len <= segs'[n].seq
        BY <2>2, <4>2, <4>3
      <4>6. n > 1 => segs'[n - 1].seq + segs'[n - 1].len = segs'[n].seq
        BY <1>1, <2>3, <4>2, <4>3 DEF TypeOK
      <4>7. segs'[n].off = segs'[n].seq - Base /\ segs'[n].off = (n - 1) * MaxSegLen
        BY <1>2, <1>5, <4>1
      <4> QED BY <3>1, <4>1, <4>3, <4>4, <4>5, <4>6, <4>7
    <3>2. CASE i \in 1..Len(segs)
      <4>1. /\ segs'[i] = segs[i]
            /\ \A j \in 1..(i - 1) : segs'[j] = segs[j]
            /\ i > 1 => segs'[i - 1] = segs[i - 1]
        <5>1. Len(segs) \in Nat
          BY DEF TypeOK
        <5>2. /\ \A j \in 1..(i - 1) : j \in 1..Len(segs)
              /\ i > 1 => i - 1 \in 1..Len(segs)
          <6> HIDE DEF n, new, AppendSeg, IInv
          <6> QED BY <3>2, <5>1
        <5> HIDE DEF n, new, AppendSeg, IInv
        <5> QED BY <1>2, <3>2, <5>2
      <4>2. /\ segs[i].seq >= Base /\ segs[i].off = segs[i].seq - Base
            /\ segs[i].len = SegLen(i) /\ segs[i].off = (i - 1) * MaxSegLen
            /\ segs[i].seq + segs[i].len <= nextSeq
            /\ \A j \in 1..(i - 1) : segs[j].seq + segs[j].len <= segs[i].seq
            /\ i > 1 => segs[i - 1].seq + segs[i - 1].len = segs[i].seq
        BY <3>2 DEF BufInv
      <4>3. segs[i].seq + segs[i].len <= nextSeq'
        <5>1. /\ segs[i].seq \in Nat /\ segs[i].len \in Nat /\ nextSeq \in Nat
              /\ SegLen(n) \in Nat
          BY <1>1, <2>1, <3>2 DEF TypeOK, SegType
        <5>2. nextSeq' = nextSeq + SegLen(n) /\ segs[i].seq + segs[i].len <= nextSeq
          BY <1>2, <4>2
        <5> HIDE DEF n, new, AppendSeg, IInv
        <5> QED BY <5>1, <5>2
      <4> QED BY <4>1, <4>2, <4>3
    <3>3. i = n \/ i \in 1..Len(segs)
      <4>1. n = Len(segs) + 1 /\ Len(segs) \in Nat
        BY DEF TypeOK
      <4> HIDE DEF n, new, AppendSeg, IInv
      <4> QED BY <4>1
    <3> HIDE DEF n, new, AppendSeg, IInv
    <3> QED BY <3>1, <3>2, <3>3
  <2>5. /\ n <= SegNum /\ mainPc' = "append" /\ nextSeq' >= Base /\ segs' # <<>>
        /\ nextSeq' = segs'[n].seq + segs'[n].len
    <3>1. nextSeq \in Nat /\ nextSeq >= Base /\ n \in 1..SegNum
      BY <1>1 DEF BufInv, TypeOK
    <3>2. new.seq = nextSeq /\ new.len = SegLen(n) /\ mainPc' = "append"
      OBVIOUS
    <3>3. segs' # <<>>
      BY <1>1, <1>2
    <3> HIDE DEF n, new
    <3> QED BY <1>1, <1>2, <3>1, <3>2, <3>3
  <2> HIDE DEF n, new
  <2> QED BY <1>2, <2>4, <2>5 DEF BufInv
<1>7. ChannelInv' /\ WindowInv' /\ DoneInv' /\ FreedOnlyAccepted'
  BY <1>2, <1>3 DEF ChannelInv, WindowInv, DoneInv, FreedOnlyAccepted, TypeOK
<1>8. ExpectInv'
  <2>1. /\ expect' = expect /\ delivered' = delivered /\ recvBuf' = recvBuf
        /\ unSent' = unSent /\ expect <= nextSeq /\ expect <= nextSeq'
        /\ segs'[n].seq = nextSeq
    <3>1. /\ expect' = expect /\ delivered' = delivered /\ recvBuf' = recvBuf
          /\ unSent' = unSent /\ expect <= nextSeq
      BY DEF ExpectInv
    <3>2. nextSeq \in Nat /\ expect \in Nat
      BY DEF TypeOK
    <3>3. nextSeq' = nextSeq + SegLen(n) /\ SegLen(n) \in Nat /\ segs'[n] = new
      BY <1>1, <1>2
    <3>4. new.seq = nextSeq
      OBVIOUS
    <3> HIDE DEF n, new, AppendSeg, IInv
    <3> QED BY <3>1, <3>2, <3>3, <3>4
  <2>2. \A i \in 1..n : i = n \/ i \in 1..Len(segs)
    BY <1>1 DEF TypeOK
  <2>3. ~(nextSeq < expect)
    BY <2>1 DEF TypeOK
  <2> HIDE DEF n, new
  <2> QED BY <1>2, <2>1, <2>2, <2>3 DEF ExpectInv
<1> QED BY <1>4, <1>6, <1>7, <1>8

LEMMA MainInv == IInv /\ (StartTimer \/ SendReturns) => IInv'
<1> SUFFICES ASSUME IInv, StartTimer \/ SendReturns PROVE IInv' OBVIOUS
<1> USE DEF IInv, StartTimer, SendReturns, SendBufEmpty, serverVars
<1>1. TypeOK' /\ WindowInv' /\ ExpectInv' /\ FreedOnlyAccepted'
  BY DEF TypeOK, Null, WindowInv, ExpectInv, FreedOnlyAccepted, Accepted
<1>2. BufInv'
  BY DEF BufInv
<1>3. ChannelInv'
  BY DEF ChannelInv
<1>4. DoneInv'
  BY DEF DoneInv, Null, TypeOK
<1> QED BY <1>1, <1>2, <1>3, <1>4

(* New segments fit the window and end at NULL. *)
LEMMA NewSegsBounds ==
  ASSUME TypeOK, WindowInv
  PROVE  /\ NewSegs \in Nat /\ unSent + NewSegs <= Null
         /\ unAck + NewSegs <= GbnWindow
  BY ConstantsOK DEF TypeOK, WindowInv, NewSegs, Null

(* A round sends segments head, head + 1, ... up to the last new one. *)
LEMMA BurstFacts ==
  ASSUME TypeOK, WindowInv
  PROVE  /\ Burst \in Seq(DataType)
         /\ Len(Burst) = (unSent + NewSegs) - head
         /\ \A k \in 1..Len(Burst) :
              /\ head + k - 1 \in 1..Len(segs)
              /\ head + k - 1 < unSent + NewSegs
              /\ Burst[k] = Data(segs[head + k - 1])
<1>1. /\ NewSegs \in Nat /\ unSent + NewSegs <= Len(segs) + 1
      /\ Len(segs) \in Nat /\ head \in Nat \ {0} /\ unSent \in Nat /\ head <= unSent
  BY NewSegsBounds DEF TypeOK, Null
<1>2. (unSent + NewSegs) - head \in Nat
  BY <1>1
<1>3. \A k \in 1..((unSent + NewSegs) - head) :
        head + k - 1 \in 1..Len(segs) /\ head + k - 1 < unSent + NewSegs
  BY <1>1
<1>4. \A k \in 1..((unSent + NewSegs) - head) : Data(segs[head + k - 1]) \in DataType
  <2>1. \A i \in 1..Len(segs) : segs[i] \in SegType
    BY DEF TypeOK
  <2>2. \A i \in 1..Len(segs) : Data(segs[i]) \in DataType
    BY <2>1 DEF SegType, DataType, Data
  <2> QED BY <1>3, <2>2
<1>5. Burst = [k \in 1..((unSent + NewSegs) - head) |-> Data(segs[head + k - 1])]
  BY DEF Burst, ResendFrom
<1> QED BY <1>2, <1>3, <1>4, <1>5

LEMMA TimerRoundInv == IInv /\ TimerRound => IInv'
<1> SUFFICES ASSUME IInv, TimerRound PROVE IInv' OBVIOUS
<1> USE ConstantsOK DEF IInv, TimerRound, SendBufEmpty, ResendFrom, serverVars
<1> DEFINE to == unSent + NewSegs
<1>1. /\ NewSegs \in Nat /\ to <= Len(segs) + 1 /\ unAck + NewSegs <= GbnWindow
      /\ unSent' = to /\ unAck' = unAck + NewSegs /\ c2s' = c2s \o Burst
      /\ head \in Nat \ {0} /\ head <= to /\ to \in Nat /\ Len(segs) \in Nat
  <2>1. /\ NewSegs \in Nat /\ to <= Len(segs) + 1 /\ unAck + NewSegs <= GbnWindow
    BY NewSegsBounds DEF Null
  <2>2. Len(segs) \in Nat /\ head \in Nat \ {0} /\ unSent \in Nat /\ head <= unSent
    BY DEF TypeOK
  <2>3. unSent' = to /\ unAck' = unAck + NewSegs /\ c2s' = c2s \o Burst
    OBVIOUS
  <2> QED BY <2>1, <2>2, <2>3
<1>3. /\ Burst \in Seq(DataType \cup SynType) /\ Len(Burst) = to - head
      /\ \A k \in 1..Len(Burst) :
           /\ head + k - 1 \in 1..Len(segs) /\ head + k - 1 < to
           /\ Burst[k] = Data(segs[head + k - 1])
  <2>1. Burst \in Seq(DataType)
    BY BurstFacts
  <2>2. Burst \in Seq(DataType \cup SynType)
    BY <2>1
  <2>3. Len(Burst) = to - head
    BY BurstFacts
  <2> QED BY <2>2, <2>3, BurstFacts
<1>4. TypeOK'
  BY <1>1, <1>3 DEF TypeOK, Null
<1> HIDE DEF to
<1>5. /\ Len(c2s') = Len(c2s) + Len(Burst)
      /\ \A k \in 1..Len(c2s) : c2s'[k] = c2s[k]
      /\ \A k \in 1..Len(c2s') : k > Len(c2s) =>
           k - Len(c2s) \in 1..Len(Burst) /\ c2s'[k] = Burst[k - Len(c2s)]
  <2>1. c2s \in Seq(DataType \cup SynType) /\ c2s' = c2s \o Burst
    BY <1>1 DEF TypeOK
  <2>2. Burst \in Seq(DataType \cup SynType)
    BY <1>3
  <2> HIDE DEF IInv, TimerRound, TypeOK
  <2>3. Len(c2s') = Len(c2s) + Len(Burst)
    BY <2>1, <2>2
  <2>4. \A k \in 1..Len(c2s) : c2s'[k] = c2s[k]
    BY <2>1, <2>2
  <2>5. \A k \in 1..Len(Burst) : c2s'[k + Len(c2s)] = Burst[k]
    BY <2>1, <2>2
  <2> QED BY <2>1, <2>2, <2>3, <2>4, <2>5
<1>6. ChannelInv'
  <2>1. ASSUME NEW k \in 1..Len(c2s')
        PROVE  /\ c2s'[k].type = "DATA" =>
                    \E i \in 1..Len(segs') : i < unSent' /\ c2s'[k] = Data(segs'[i])
               /\ c2s'[k].type = "SYN" =>
                    /\ expect' = Base
                    /\ \A j \in 1..k : c2s'[j].type = "SYN"
    <3>1. CASE k \in 1..Len(c2s)
      <4>1. c2s'[k] = c2s[k] /\ \A j \in 1..k : c2s'[j] = c2s[j]
        BY <1>5, <3>1 DEF TypeOK
      <4>2. \A i \in 1..Len(segs) : i < unSent => i < to
        BY <1>1 DEF TypeOK
      <4> QED BY <1>1, <3>1, <4>1, <4>2 DEF ChannelInv
    <3>2. CASE k > Len(c2s)
      <4> DEFINE b == k - Len(c2s)
                 i == head + b - 1
      <4>1. b \in 1..Len(Burst) /\ c2s'[k] = Burst[b]
        BY <1>5, <3>2
      <4>2. i \in 1..Len(segs) /\ i < to /\ c2s'[k] = Data(segs[i])
        BY <1>3, <4>1
      <4>3. Data(segs[i]).type = "DATA" /\ segs' = segs
        BY DEF Data
      <4> HIDE DEF i
      <4> QED BY <1>1, <4>2, <4>3
    <3>3. k \in 1..Len(c2s) \/ k > Len(c2s)
      BY DEF TypeOK
    <3> QED BY <3>1, <3>2, <3>3
  <2>2. /\ mainPc' = "append" <=> timerPc' = "none"
        /\ mainPc' # "append"
        /\ \A k \in 1..Len(s2c') : s2c'[k].ack <= expect'
    BY DEF ChannelInv
  <2> QED BY <2>1, <2>2 DEF ChannelInv
<1>7. BufInv' /\ DoneInv' /\ FreedOnlyAccepted'
  BY DEF BufInv, DoneInv, FreedOnlyAccepted, Accepted, Null
<1>8. WindowInv' /\ ExpectInv'
  BY <1>1 DEF WindowInv, ExpectInv, TypeOK
<1> QED BY <1>4, <1>6, <1>7, <1>8

LEMMA TimerExitInv == IInv /\ TimerExit => IInv'
<1> SUFFICES ASSUME IInv, TimerExit PROVE IInv' OBVIOUS
<1> USE DEF IInv, TimerExit, SendBufEmpty, serverVars
<1>1. TypeOK' /\ WindowInv' /\ ExpectInv' /\ FreedOnlyAccepted'
  BY DEF TypeOK, Null, WindowInv, ExpectInv, FreedOnlyAccepted, Accepted
<1>2. BufInv' /\ ChannelInv' /\ DoneInv'
  BY DEF BufInv, ChannelInv, DoneInv, Null
<1> QED BY <1>1, <1>2

(* The rest of a sequence. *)
LEMMA TailFacts ==
  ASSUME NEW S, NEW q \in Seq(S), q # <<>>
  PROVE  /\ Tail(q) \in Seq(S) /\ Len(Tail(q)) = Len(q) - 1
         /\ \A k \in 1..Len(Tail(q)) : k + 1 \in 1..Len(q) /\ Tail(q)[k] = q[k + 1]
         /\ Len(q) \in Nat \ {0} /\ Head(q) = q[1] /\ Head(q) \in S
  OBVIOUS

(* A sequence grown by one element. *)
LEMMA AppendFacts ==
  ASSUME NEW S, NEW q \in Seq(S), NEW x \in S
  PROVE  /\ Append(q, x) \in Seq(S) /\ Len(Append(q, x)) = Len(q) + 1
         /\ \A k \in 1..Len(Append(q, x)) :
              Append(q, x)[k] = IF k = Len(q) + 1 THEN x ELSE q[k]
  OBVIOUS

(* Dropping the oldest segment keeps what is known of a channel. *)
LEMMA DropFromClient ==
  ASSUME IInv, c2s # <<>>
  PROVE  /\ Tail(c2s) \in Seq(DataType \cup SynType)
         /\ \A k \in 1..Len(Tail(c2s)) :
              /\ Tail(c2s)[k].type = "DATA" =>
                   \E i \in 1..Len(segs) : i < unSent /\ Tail(c2s)[k] = Data(segs[i])
              /\ Tail(c2s)[k].type = "SYN" =>
                   /\ expect = Base
                   /\ \A j \in 1..k : Tail(c2s)[j].type = "SYN"
<1>1. c2s \in Seq(DataType \cup SynType)
  BY DEF IInv, TypeOK
<1>2. /\ Tail(c2s) \in Seq(DataType \cup SynType)
      /\ \A k \in 1..Len(Tail(c2s)) :
           k + 1 \in 1..Len(c2s) /\ Tail(c2s)[k] = c2s[k + 1]
  BY <1>1, TailFacts
<1>3. ASSUME NEW k \in 1..Len(Tail(c2s)), Tail(c2s)[k].type = "SYN"
      PROVE  /\ expect = Base
             /\ \A j \in 1..k : Tail(c2s)[j].type = "SYN"
  <2>1. c2s[k + 1].type = "SYN" /\ k + 1 \in 1..Len(c2s)
    BY <1>2, <1>3
  <2>2. expect = Base /\ \A j \in 1..(k + 1) : c2s[j].type = "SYN"
    BY <2>1 DEF IInv, ChannelInv
  <2>3. \A j \in 1..k : j \in 1..Len(Tail(c2s)) /\ j + 1 \in 1..(k + 1)
    BY <1>2
  <2> QED BY <1>2, <2>2, <2>3
<1>4. ASSUME NEW k \in 1..Len(Tail(c2s)), Tail(c2s)[k].type = "DATA"
      PROVE  \E i \in 1..Len(segs) : i < unSent /\ Tail(c2s)[k] = Data(segs[i])
  BY <1>2, <1>4 DEF IInv, ChannelInv
<1> QED BY <1>2, <1>3, <1>4

LEMMA DropFromServer ==
  ASSUME IInv, s2c # <<>>
  PROVE  /\ Tail(s2c) \in Seq(AckType)
         /\ \A k \in 1..Len(Tail(s2c)) : Tail(s2c)[k].ack <= expect
         /\ Head(s2c).ack <= expect /\ Head(s2c).ack \in Nat
<1>1. s2c \in Seq(AckType)
  BY DEF IInv, TypeOK
<1>2. /\ Tail(s2c) \in Seq(AckType) /\ Len(s2c) \in Nat \ {0}
      /\ Head(s2c) = s2c[1] /\ Head(s2c) \in AckType
      /\ \A k \in 1..Len(Tail(s2c)) :
           k + 1 \in 1..Len(s2c) /\ Tail(s2c)[k] = s2c[k + 1]
  BY <1>1, TailFacts
<1>3. \A k \in 1..Len(s2c) : s2c[k].ack <= expect
  BY DEF IInv, ChannelInv
<1> QED BY <1>2, <1>3 DEF AckType

LEMMA ClientDataAckInv == IInv /\ ClientDataAck => IInv'
<1> SUFFICES ASSUME IInv, ClientDataAck PROVE IInv' OBVIOUS
<1> DEFINE ack == Head(s2c).ack
<1>1. PICK h \in head..Null :
        /\ StopsAt(h, ack)
        /\ head' = h
        /\ unSent' = IF h = Null THEN Null ELSE unSent
        /\ unAck' = IF h = Null THEN 0 ELSE unAck - (h - head)
  BY DEF ClientDataAck, UnAckAfter
<1>2. /\ s2c' = Tail(s2c) /\ s2c # <<>>
      /\ UNCHANGED <<mainPc, timerPc, segs, nextSeq, c2s, expect, recvBuf, delivered>>
  BY DEF ClientDataAck, serverVars
<1>3. TypeOK /\ Len(segs) \in Nat /\ Null = Len(segs) + 1 /\ Null' = Null
  BY <1>2 DEF IInv, TypeOK, Null
<1>4. /\ h \in Nat \ {0} /\ h <= unSent /\ unSent' = unSent
      /\ unAck' = unSent' - head' /\ unAck' <= unAck /\ unAck' \in Nat
  <2>1. /\ head \in Nat \ {0} /\ unSent \in Nat /\ unAck \in Nat
        /\ head <= unSent /\ unSent <= Null /\ unAck = unSent - head
    BY DEF IInv, TypeOK, WindowInv
  <2>2. h <= unSent
    BY <1>1, <1>3, <2>1 DEF StopsAt
  <2> QED BY <1>1, <1>3, <2>1, <2>2
<1>5. TypeOK'
  <2>1. s2c' \in Seq(AckType)
    BY <1>2, DropFromServer
  <2> QED BY <1>1, <1>2, <1>3, <1>4, <2>1 DEF TypeOK
<1>6. BufInv' /\ WindowInv' /\ ExpectInv'
  <2>1. BufInv'
    BY <1>2 DEF IInv, BufInv
  <2>2. WindowInv'
    BY <1>3, <1>4, ConstantsOK DEF IInv, WindowInv, TypeOK
  <2>3. ExpectInv'
    BY <1>2, <1>4 DEF IInv, ExpectInv
  <2> QED BY <2>1, <2>2, <2>3
<1>7. FreedOnlyAccepted'
  <2>1. \A j \in 1..Len(segs) : segs[j] \in SegType
    BY <1>3 DEF TypeOK
  <2>2. ASSUME NEW i \in 1..(h - 1) PROVE segs[i].seq + segs[i].len <= expect
    <3>1. i \in 1..Len(segs)
      BY <1>1, <1>3, <1>4
    <3>2. CASE i < head
      BY <1>3, <3>1, <3>2 DEF IInv, FreedOnlyAccepted, Accepted, TypeOK
    <3>3. CASE i >= head
      <4>1. segs[i].seq < ack
        BY <1>1, <1>3, <1>4, <3>1, <3>3 DEF StopsAt, TypeOK
      <4>2. ack <= expect /\ ack \in Nat /\ expect \in Nat /\ segs[i].seq \in Nat
        BY <1>2, <1>3, <2>1, <3>1, DropFromServer DEF TypeOK, SegType
      <4>3. segs[i].seq < expect
        BY <4>1, <4>2
      <4> QED BY <3>1, <4>3 DEF IInv, ExpectInv
    <3> QED BY <1>3, <3>1, <3>2, <3>3 DEF TypeOK
  <2> QED BY <1>1, <1>2, <2>2 DEF FreedOnlyAccepted, Accepted
<1>8. ChannelInv' /\ DoneInv'
  BY <1>1, <1>2, <1>3, <1>4, DropFromServer DEF IInv, ChannelInv, DoneInv
<1> QED BY <1>5, <1>6, <1>7, <1>8 DEF IInv

LEMMA ClientReadsInv == IInv /\ (ClientSynAck \/ ClientLoses) => IInv'
<1> SUFFICES ASSUME IInv, ClientSynAck \/ ClientLoses PROVE IInv' OBVIOUS
<1>1. /\ s2c # <<>> /\ s2c' = Tail(s2c)
      /\ UNCHANGED <<mainPc, timerPc, segs, head, unSent, unAck, nextSeq, c2s,
                     expect, recvBuf, delivered>>
  BY DEF ClientSynAck, ClientLoses, clientVars, serverVars
<1>2. TypeOK' /\ ChannelInv'
  BY <1>1, DropFromServer DEF IInv, TypeOK, ChannelInv, Null
<1>3. BufInv' /\ WindowInv' /\ ExpectInv' /\ DoneInv' /\ FreedOnlyAccepted'
  BY <1>1 DEF IInv, BufInv, WindowInv, ExpectInv, DoneInv, FreedOnlyAccepted,
              Accepted, Null
<1> QED BY <1>2, <1>3 DEF IInv

LEMMA ServerLosesInv == IInv /\ ServerLoses => IInv'
<1> SUFFICES ASSUME IInv, ServerLoses PROVE IInv' OBVIOUS
<1>1. /\ c2s # <<>> /\ c2s' = Tail(c2s)
      /\ UNCHANGED <<mainPc, timerPc, segs, head, unSent, unAck, nextSeq, s2c,
                     expect, recvBuf, delivered>>
  BY DEF ServerLoses, clientVars, serverVars
<1>2. TypeOK'
  BY <1>1, DropFromClient DEF IInv, TypeOK, Null
<1>3. ChannelInv'
  BY <1>1, DropFromClient DEF IInv, ChannelInv
<1>4. BufInv' /\ WindowInv' /\ ExpectInv' /\ DoneInv' /\ FreedOnlyAccepted'
  BY <1>1 DEF IInv, BufInv, WindowInv, ExpectInv, DoneInv, FreedOnlyAccepted,
              Accepted, Null
<1> QED BY <1>2, <1>3, <1>4 DEF IInv

(* An answer of the server names the byte it expects. *)
LEMMA AnswerFacts ==
  ASSUME s2c \in Seq(AckType), \A k \in 1..Len(s2c) : s2c[k].ack <= expect,
         NEW t \in {"SYNACK", "DATAACK"}, NEW e \in Nat, expect \in Nat, expect <= e
  PROVE  /\ Append(s2c, Ack(t, e)) \in Seq(AckType)
         /\ \A k \in 1..Len(Append(s2c, Ack(t, e))) :
              Append(s2c, Ack(t, e))[k].ack <= e
<1>1. Ack(t, e) \in AckType /\ Ack(t, e).ack = e
  BY DEF Ack, AckType
<1>2. \A k \in 1..Len(s2c) : s2c[k].ack \in Nat
  <2>1. \A k \in 1..Len(s2c) : s2c[k] \in AckType
    OBVIOUS
  <2> QED BY <2>1 DEF AckType
<1>3. /\ Append(s2c, Ack(t, e)) \in Seq(AckType)
      /\ Len(Append(s2c, Ack(t, e))) = Len(s2c) + 1
      /\ \A k \in 1..Len(Append(s2c, Ack(t, e))) :
           Append(s2c, Ack(t, e))[k] = IF k = Len(s2c) + 1 THEN Ack(t, e) ELSE s2c[k]
  BY <1>1, AppendFacts
<1>4. \A k \in 1..(Len(s2c) + 1) : k = Len(s2c) + 1 \/ k \in 1..Len(s2c)
  OBVIOUS
<1> QED BY <1>1, <1>2, <1>3, <1>4

(* A late SYN leaves expect_seqNum as it is. *)
LEMMA LateSyn ==
  ASSUME IInv, ServerSyn
  PROVE  expect' = expect /\ expect = Base
<1>1. c2s \in Seq(DataType \cup SynType) /\ c2s # <<>> /\ Head(c2s).type = "SYN"
  BY DEF IInv, TypeOK, ServerSyn
<1>2. Head(c2s) = c2s[1] /\ 1 \in 1..Len(c2s) /\ Head(c2s) \in DataType \cup SynType
  BY <1>1, TailFacts
<1>3. expect = Base
  BY <1>1, <1>2 DEF IInv, ChannelInv
<1>4. Head(c2s).seq = ISN
  BY <1>1, <1>2 DEF DataType, SynType
<1> QED BY <1>3, <1>4 DEF ServerSyn, AfterSyn, Base

LEMMA ServerSynInv == IInv /\ ServerSyn => IInv'
<1> SUFFICES ASSUME IInv, ServerSyn PROVE IInv' OBVIOUS
<1>1. /\ c2s # <<>> /\ c2s' = Tail(c2s) /\ expect' = expect
      /\ s2c' = Append(s2c, Ack("SYNACK", expect))
      /\ UNCHANGED <<mainPc, timerPc, segs, head, unSent, unAck, nextSeq,
                     recvBuf, delivered>>
  BY LateSyn DEF ServerSyn, clientVars
<1>2. s2c' \in Seq(AckType) /\ \A k \in 1..Len(s2c') : s2c'[k].ack <= expect'
  <2>1. s2c \in Seq(AckType) /\ expect \in Nat /\ expect <= expect
    BY DEF IInv, TypeOK
  <2>2. \A k \in 1..Len(s2c) : s2c[k].ack <= expect
    BY DEF IInv, ChannelInv
  <2> QED BY <1>1, <2>1, <2>2, AnswerFacts
<1>3. TypeOK'
  BY <1>1, <1>2, DropFromClient DEF IInv, TypeOK, Null
<1>4. ChannelInv'
  BY <1>1, <1>2, DropFromClient DEF IInv, ChannelInv
<1>5. BufInv' /\ WindowInv' /\ ExpectInv' /\ DoneInv' /\ FreedOnlyAccepted'
  BY <1>1 DEF IInv, BufInv, WindowInv, ExpectInv, DoneInv, FreedOnlyAccepted,
              Accepted, Null
<1> QED BY <1>3, <1>4, <1>5 DEF IInv

(* A stored segment is the one at expect_seqNum in the send buffer. *)
LEMMA ServerDataCases ==
  ASSUME IInv, ServerData
  PROVE  /\ c2s # <<>> /\ c2s' = Tail(c2s)
         /\ s2c' = Append(s2c, Ack("DATAACK", expect'))
         /\ UNCHANGED <<mainPc, timerPc, segs, head, unSent, unAck, nextSeq,
                        delivered>>
         /\ \/ /\ expect' = expect /\ recvBuf' = recvBuf
            \/ \E i \in 1..Len(segs) :
                 /\ i < unSent /\ segs[i].seq = expect
                 /\ expect' = expect + segs[i].len
                 /\ recvBuf' = recvBuf \o Bytes(segs[i].off, segs[i].len)
                 /\ \A k \in 1..Len(c2s) : c2s[k].type # "SYN"
<1>1. c2s \in Seq(DataType \cup SynType) /\ c2s # <<>> /\ Head(c2s).type = "DATA"
  BY DEF IInv, TypeOK, ServerData
<1>2. Head(c2s) = c2s[1] /\ 1 \in 1..Len(c2s)
  BY <1>1, TailFacts
<1>3. PICK i \in 1..Len(segs) : i < unSent /\ Head(c2s) = Data(segs[i])
  BY <1>1, <1>2 DEF IInv, ChannelInv
<1>4. /\ Head(c2s).seq = segs[i].seq /\ Head(c2s).len = segs[i].len
      /\ Head(c2s).off = segs[i].off
  BY <1>3 DEF Data
<1>5. \A k \in 1..Len(c2s) : c2s[k].type # "SYN"
  <2>1. ASSUME NEW k \in 1..Len(c2s), c2s[k].type = "SYN" PROVE FALSE
    <3>1. \A j \in 1..k : c2s[j].type = "SYN"
      BY <2>1 DEF IInv, ChannelInv
    <3>2. 1 \in 1..k
      OBVIOUS
    <3> QED BY <1>1, <1>2, <3>1, <3>2
  <2> QED BY <2>1
<1>6. CASE Head(c2s).seq = expect
  BY <1>1, <1>3, <1>4, <1>5, <1>6 DEF ServerData, IsExpected, clientVars
<1>7. CASE Head(c2s).seq # expect
  BY <1>1, <1>7 DEF ServerData, IsExpected, clientVars
<1> QED BY <1>6, <1>7

(* Two sequences one after the other. *)
LEMMA ConcatFacts ==
  ASSUME NEW S, NEW q \in Seq(S), NEW r \in Seq(S)
  PROVE  /\ q \o r \in Seq(S) /\ Len(q \o r) = Len(q) + Len(r)
         /\ Len(q) \in Nat /\ Len(r) \in Nat
         /\ \A k \in 1..(Len(q) + Len(r)) :
              (q \o r)[k] = IF k <= Len(q) THEN q[k] ELSE r[k - Len(q)]
  OBVIOUS

(* Bytes appended to a sequence of numbers. *)
LEMMA BytesFacts ==
  ASSUME NEW q \in Seq(Nat), NEW off \in Nat, NEW n \in Nat
  PROVE  /\ q \o Bytes(off, n) \in Seq(Nat)
         /\ Len(q \o Bytes(off, n)) = Len(q) + n
         /\ \A k \in 1..(Len(q) + n) :
              (q \o Bytes(off, n))[k] = IF k <= Len(q) THEN q[k] ELSE off + (k - Len(q))
<1>1. Bytes(off, n) \in Seq(Nat) /\ Len(Bytes(off, n)) = n
      /\ \A b \in 1..n : Bytes(off, n)[b] = off + b
  BY DEF Bytes
<1>2. /\ q \o Bytes(off, n) \in Seq(Nat)
      /\ Len(q \o Bytes(off, n)) = Len(q) + n /\ Len(q) \in Nat
      /\ \A k \in 1..(Len(q) + n) : (q \o Bytes(off, n))[k] =
           IF k <= Len(q) THEN q[k] ELSE Bytes(off, n)[k - Len(q)]
  <2> DEFINE r == Bytes(off, n)
  <2>1. r \in Seq(Nat) /\ Len(r) = n
    BY <1>1
  <2> HIDE DEF r
  <2>2. /\ q \o r \in Seq(Nat) /\ Len(q \o r) = Len(q) + n /\ Len(q) \in Nat
        /\ \A k \in 1..(Len(q) + n) :
             (q \o r)[k] = IF k <= Len(q) THEN q[k] ELSE r[k - Len(q)]
    BY <2>1, ConcatFacts
  <2> QED BY <2>2 DEF r
<1>3. \A k \in 1..(Len(q) + n) : ~(k <= Len(q)) => k - Len(q) \in 1..n
  BY <1>2
<1> QED BY <1>1, <1>2, <1>3

LEMMA ServerDataInv == IInv /\ ServerData => IInv'
<1> SUFFICES ASSUME IInv, ServerData PROVE IInv' OBVIOUS
<1>1. /\ c2s # <<>> /\ c2s' = Tail(c2s)
      /\ s2c' = Append(s2c, Ack("DATAACK", expect'))
      /\ UNCHANGED <<mainPc, timerPc, segs, head, unSent, unAck, nextSeq, delivered>>
  BY ServerDataCases
<1>2. /\ expect \in Nat /\ recvBuf \in Seq(Nat) /\ s2c \in Seq(AckType)
      /\ \A i \in 1..Len(segs) : segs[i] \in SegType
      /\ delivered \in Seq(Nat) /\ Len(segs) \in Nat /\ nextSeq \in Nat
  BY DEF IInv, TypeOK
<1>3. BufInv' /\ WindowInv' /\ DoneInv'
  BY <1>1 DEF IInv, BufInv, WindowInv, DoneInv, Null
<1>4. CASE expect' = expect /\ recvBuf' = recvBuf
  <2>1. s2c' \in Seq(AckType) /\ \A k \in 1..Len(s2c') : s2c'[k].ack <= expect'
    <3>1. \A k \in 1..Len(s2c) : s2c[k].ack <= expect
      BY DEF IInv, ChannelInv
    <3> QED BY <1>1, <1>2, <1>4, <3>1, AnswerFacts
  <2>2. TypeOK'
    BY <1>1, <1>4, <2>1, DropFromClient DEF IInv, TypeOK, Null
  <2>3. ChannelInv'
    BY <1>1, <1>4, <2>1, DropFromClient DEF IInv, ChannelInv
  <2>4. ExpectInv' /\ FreedOnlyAccepted'
    BY <1>1, <1>4 DEF IInv, ExpectInv, FreedOnlyAccepted, Accepted
  <2> QED BY <1>3, <2>2, <2>3, <2>4 DEF IInv
<1>5. ASSUME NEW i \in 1..Len(segs),
             i < unSent, segs[i].seq = expect, expect' = expect + segs[i].len,
             recvBuf' = recvBuf \o Bytes(segs[i].off, segs[i].len),
             \A k \in 1..Len(c2s) : c2s[k].type # "SYN"
      PROVE  IInv'
  <2>1. /\ segs[i].len \in Nat \ {0} /\ segs[i].off \in Nat
        /\ expect' \in Nat /\ expect <= expect'
    BY <1>2, <1>5 DEF SegType
  <2>2. s2c' \in Seq(AckType) /\ \A k \in 1..Len(s2c') : s2c'[k].ack <= expect'
    <3>1. \A k \in 1..Len(s2c) : s2c[k].ack <= expect
      BY DEF IInv, ChannelInv
    <3> QED BY <1>1, <1>2, <2>1, <3>1, AnswerFacts
  <2>3. recvBuf' \in Seq(Nat) /\ Len(recvBuf') = Len(recvBuf) + segs[i].len
    <3>1. /\ recvBuf \o Bytes(segs[i].off, segs[i].len) \in Seq(Nat)
          /\ Len(recvBuf \o Bytes(segs[i].off, segs[i].len))
                = Len(recvBuf) + segs[i].len
      <4>1. recvBuf \in Seq(Nat) /\ segs[i].off \in Nat /\ segs[i].len \in Nat
        BY <1>2, <2>1
      <4> QED BY <4>1, BytesFacts
    <3> QED BY <1>5, <3>1
  <2>4. TypeOK'
    BY <1>1, <2>1, <2>2, <2>3, DropFromClient DEF IInv, TypeOK, Null
  <2>5. ChannelInv'
    <3>1. \A k \in 1..Len(Tail(c2s)) : Tail(c2s)[k].type # "SYN"
      <4>1. c2s \in Seq(DataType \cup SynType)
        BY DEF IInv, TypeOK
      <4> QED BY <1>1, <1>5, <4>1, TailFacts
    <3> QED BY <1>1, <2>2, <3>1, DropFromClient DEF IInv, ChannelInv
  <2>6. ExpectInv'
    <3>1. expect' = Base + Len(delivered) + Len(recvBuf')
      <4>1. expect = Base + Len(delivered) + Len(recvBuf)
        BY DEF IInv, ExpectInv
      <4>2. Len(recvBuf') = Len(recvBuf) + segs[i].len
        BY <2>3
      <4>3. expect' = expect + segs[i].len /\ segs[i].len \in Nat
        BY <1>5, <2>1
      <4>4. Len(delivered) \in Nat /\ Len(recvBuf) \in Nat
        BY <1>2
      <4> QED BY <4>1, <4>2, <4>3, <4>4, BaseType
    <3>2. expect' <= nextSeq
      BY <1>5 DEF IInv, BufInv
    <3>3. ASSUME NEW j \in 1..Len(segs)
          PROVE  /\ segs[j].seq < expect' => segs[j].seq + segs[j].len <= expect'
                 /\ j >= unSent => expect' <= segs[j].seq
      <4>1. /\ segs[j].seq \in Nat /\ segs[j].len \in Nat \ {0}
        BY <1>2 DEF SegType
      <4>2. CASE j = i
        BY <1>5, <4>1, <4>2 DEF IInv, TypeOK
      <4>3. CASE j > i
        <5>1. i \in 1..(j - 1)
          BY <4>3
        <5>2. segs[i].seq + segs[i].len <= segs[j].seq
          BY <5>1 DEF IInv, BufInv
        <5>3. expect' = segs[i].seq + segs[i].len
          BY <1>5
        <5>4. expect' <= segs[j].seq
          BY <5>2, <5>3
        <5> QED BY <2>1, <4>1, <5>4
      <4>4. CASE j < i
        <5>1. j \in 1..(i - 1) /\ ~(j >= unSent)
          BY <1>5, <4>4 DEF IInv, TypeOK
        <5>2. segs[j].seq + segs[j].len <= segs[i].seq
          BY <5>1 DEF IInv, BufInv
        <5>3. segs[j].seq + segs[j].len <= expect
          BY <1>5, <5>2
        <5>4. expect \in Nat
          BY <1>2
        <5>5. segs[j].seq + segs[j].len \in Nat
          BY <4>1
        <5>6. \A x, y, z \in Nat : x <= y /\ y <= z => x <= z
          OBVIOUS
        <5>7. segs[j].seq + segs[j].len <= expect'
          BY <2>1, <5>3, <5>4, <5>5, <5>6
        <5> QED BY <5>1, <5>7
      <4> QED BY <4>1, <4>2, <4>3, <4>4
    <3> QED BY <1>1, <3>1, <3>2, <3>3 DEF ExpectInv
  <2>7. FreedOnlyAccepted'
    <3>1. \A j \in 1..(head - 1) : segs[j].seq + segs[j].len <= expect
      BY DEF IInv, FreedOnlyAccepted, Accepted
    <3>2. \A j \in 1..(head - 1) : segs[j].seq \in Nat /\ segs[j].len \in Nat
      <4>1. \A j \in 1..(head - 1) : j \in 1..Len(segs)
        BY <1>2 DEF IInv, TypeOK, Null
      <4> QED BY <1>2, <4>1 DEF SegType
    <3>3. \A j \in 1..(head - 1) : segs[j].seq + segs[j].len <= expect'
      <4>1. /\ expect \in Nat /\ segs[i].len \in Nat
            /\ expect' = expect + segs[i].len
        BY <1>2, <1>5, <2>1
      <4>2. expect <= expect' /\ expect' \in Nat
        BY <4>1
      <4>3. ASSUME NEW j \in 1..(head - 1)
            PROVE  segs[j].seq + segs[j].len <= expect'
        <5>1. /\ segs[j].seq + segs[j].len <= expect
              /\ segs[j].seq + segs[j].len \in Nat
          BY <3>1, <3>2
        <5> QED BY <4>1, <4>2, <5>1
      <4> QED BY <4>3
    <3> QED BY <1>1, <3>3 DEF FreedOnlyAccepted, Accepted
  <2> QED BY <1>3, <2>4, <2>5, <2>6, <2>7 DEF IInv
<1> QED BY <1>4, <1>5, ServerDataCases

(* What memcpy moves are bytes of the buffer, in whichever order it copies. *)
LEMMA QuotientFacts ==
  \A x \in Nat, n \in Nat \ {0} :
    /\ x \div n \in Nat /\ n * (x \div n) \in Nat
    /\ n * (x \div n) <= x
    /\ x % n \in Nat /\ x = n * (x \div n) + (x % n)
<1> SUFFICES ASSUME NEW x \in Nat, NEW n \in Nat \ {0}
             PROVE  /\ x \div n \in Nat /\ n * (x \div n) \in Nat
                    /\ n * (x \div n) <= x
                    /\ x % n \in Nat /\ x = n * (x \div n) + (x % n)
  OBVIOUS
<1>1. x \div n \in Nat
  OBVIOUS
<1>2. x % n \in 0..(n - 1)
  OBVIOUS
<1>3. x = n * (x \div n) + (x % n)
  OBVIOUS
<1>4. n * (x \div n) \in Nat
  BY <1>1, ProductType
<1> QED BY <1>1, <1>2, <1>3, <1>4

LEMMA MovedDownFacts ==
  ASSUME NEW q \in Seq(Nat), NEW n \in Nat \ {0}, Len(q) >= n,
         NEW order \in CopyOrders
  PROVE  /\ MovedDown(q, n, order) \in Seq(Nat)
         /\ Len(MovedDown(q, n, order)) = Len(q) - n
         /\ order = "up" =>
              \A k \in 1..(Len(q) - n) : MovedDown(q, n, order)[k] = q[n + k]
<1> DEFINE rest == Len(q) - n
           at(k) == IF order = "up" THEN q[n + k]
                    ELSE q[k + n * ((rest + n - k) \div n)]
<1>1. rest \in Nat /\ Len(q) = rest + n
  OBVIOUS
<1>2. ASSUME NEW k \in 1..rest PROVE at(k) \in Nat
  <2>1. n + k \in 1..Len(q)
    BY <1>1
  <2>2. k + n * ((rest + n - k) \div n) \in 1..Len(q)
    <3>1. rest + n - k \in Nat
      BY <1>1
    <3> DEFINE x == rest + n - k
               m == n * (x \div n)
    <3>2. x \in Nat /\ k + x = rest + n
      BY <1>1
    <3> HIDE DEF x
    <3>3. m \in Nat /\ m <= x
      BY <3>2, QuotientFacts
    <3> HIDE DEF m
    <3>4. k + m \in 1..Len(q)
      BY <1>1, <3>2, <3>3
    <3> QED BY <3>4 DEF m, x
  <2> QED BY <2>1, <2>2
<1>3. MovedDown(q, n, order) = [k \in 1..rest |-> at(k)]
  BY DEF MovedDown
<1> HIDE DEF at
<1>4. /\ MovedDown(q, n, order) \in Seq(Nat)
      /\ Len(MovedDown(q, n, order)) = rest
      /\ \A k \in 1..rest : MovedDown(q, n, order)[k] = at(k)
  BY <1>1, <1>2, <1>3
<1> QED BY <1>4 DEF at

(* The application takes RecvLen bytes from the front of the buffer. *)
LEMMA ServerRecvCases ==
  ASSUME IInv, ServerRecv
  PROVE  /\ delivered' \in Seq(Nat) /\ recvBuf' \in Seq(Nat)
         /\ Len(recvBuf) >= RecvLen
         /\ Len(delivered') = Len(delivered) + RecvLen
         /\ Len(recvBuf') = Len(recvBuf) - RecvLen
         /\ \A k \in 1..Len(delivered') : delivered'[k] =
              IF k <= Len(delivered) THEN delivered[k] ELSE recvBuf[k - Len(delivered)]
         /\ CopyOrders = {"up"} =>
              \A k \in 1..Len(recvBuf') : recvBuf'[k] = recvBuf[RecvLen + k]
         /\ UNCHANGED <<mainPc, timerPc, segs, head, unSent, unAck, nextSeq,
                        c2s, s2c, expect>>
<1>1. /\ delivered \in Seq(Nat) /\ recvBuf \in Seq(Nat) /\ Len(recvBuf) >= RecvLen
      /\ RecvLen \in Nat \ {0}
  BY ConstantsOK DEF IInv, TypeOK, ServerRecv
<1> DEFINE r == SubSeq(recvBuf, 1, RecvLen)
<1>2. r \in Seq(Nat) /\ Len(r) = RecvLen /\ \A k \in 1..RecvLen : r[k] = recvBuf[k]
  BY <1>1
<1> HIDE DEF r
<1>3. delivered' = delivered \o r
  BY DEF ServerRecv, r
<1>4. /\ delivered' \in Seq(Nat) /\ Len(delivered') = Len(delivered) + RecvLen
      /\ Len(delivered) \in Nat
      /\ \A k \in 1..(Len(delivered) + RecvLen) : delivered'[k] =
           IF k <= Len(delivered) THEN delivered[k] ELSE r[k - Len(delivered)]
  <2>1. /\ delivered \o r \in Seq(Nat)
        /\ Len(delivered \o r) = Len(delivered) + RecvLen /\ Len(delivered) \in Nat
        /\ \A k \in 1..(Len(delivered) + RecvLen) : (delivered \o r)[k] =
             IF k <= Len(delivered) THEN delivered[k] ELSE r[k - Len(delivered)]
    <3>1. delivered \in Seq(Nat) /\ r \in Seq(Nat) /\ Len(r) = RecvLen
      BY <1>1, <1>2
    <3> QED BY <3>1, ConcatFacts
  <2> QED BY <1>3, <2>1
<1>5. \A k \in 1..(Len(delivered) + RecvLen) :
        ~(k <= Len(delivered)) => k - Len(delivered) \in 1..RecvLen
  BY <1>1, <1>4
<1>6. PICK order \in CopyOrders : recvBuf' = MovedDown(recvBuf, RecvLen, order)
  BY DEF ServerRecv
<1>7. /\ recvBuf' \in Seq(Nat) /\ Len(recvBuf') = Len(recvBuf) - RecvLen
      /\ order = "up" =>
           \A k \in 1..(Len(recvBuf) - RecvLen) : recvBuf'[k] = recvBuf[RecvLen + k]
  BY <1>1, <1>6, MovedDownFacts
<1>8. CopyOrders = {"up"} => order = "up"
  OBVIOUS
<1>9. UNCHANGED <<mainPc, timerPc, segs, head, unSent, unAck, nextSeq, c2s, s2c, expect>>
  BY DEF ServerRecv, clientVars
<1> QED BY <1>1, <1>2, <1>4, <1>5, <1>7, <1>8, <1>9

LEMMA ServerRecvInv == IInv /\ ServerRecv => IInv'
<1> SUFFICES ASSUME IInv, ServerRecv PROVE IInv' OBVIOUS
<1>1. /\ delivered' \in Seq(Nat) /\ recvBuf' \in Seq(Nat)
      /\ Len(delivered') + Len(recvBuf') = Len(delivered) + Len(recvBuf)
      /\ UNCHANGED <<mainPc, timerPc, segs, head, unSent, unAck, nextSeq,
                     c2s, s2c, expect>>
  <2>1. delivered \in Seq(Nat) /\ recvBuf \in Seq(Nat) /\ RecvLen \in Nat
    BY ConstantsOK DEF IInv, TypeOK
  <2>2. /\ delivered' \in Seq(Nat) /\ recvBuf' \in Seq(Nat)
        /\ Len(delivered') = Len(delivered) + RecvLen
        /\ Len(recvBuf') = Len(recvBuf) - RecvLen
        /\ UNCHANGED <<mainPc, timerPc, segs, head, unSent, unAck, nextSeq,
                       c2s, s2c, expect>>
    BY ServerRecvCases
  <2>3. Len(delivered) \in Nat /\ Len(recvBuf) \in Nat
    BY <2>1
  <2> QED BY <2>1, <2>2, <2>3
<1>2. TypeOK'
  BY <1>1 DEF IInv, TypeOK, Null
<1>3. ExpectInv'
  <2>1. expect' = Base + Len(delivered') + Len(recvBuf')
    <3>1. /\ Len(delivered) \in Nat /\ Len(recvBuf) \in Nat
          /\ Len(delivered') \in Nat /\ Len(recvBuf') \in Nat
      BY <1>1 DEF IInv, TypeOK
    <3>2. expect = Base + Len(delivered) + Len(recvBuf) /\ expect' = expect
      BY <1>1 DEF IInv, ExpectInv
    <3> QED BY <1>1, <3>1, <3>2, BaseType
  <2> QED BY <1>1, <2>1 DEF IInv, ExpectInv
<1>4. BufInv' /\ WindowInv' /\ ChannelInv' /\ DoneInv' /\ FreedOnlyAccepted'
  BY <1>1 DEF IInv, BufInv, WindowInv, ChannelInv, DoneInv, FreedOnlyAccepted,
              Accepted, Null
<1> QED BY <1>2, <1>3, <1>4 DEF IInv

LEMMA StutterInv == IInv /\ UNCHANGED vars => IInv'
  BY DEF IInv, TypeOK, BufInv, WindowInv, ChannelInv, ExpectInv, DoneInv,
         FreedOnlyAccepted, Accepted, Null, vars, clientVars, serverVars

LEMMA NextInv == IInv /\ [Next]_vars => IInv'
<1> SUFFICES ASSUME IInv, [Next]_vars PROVE IInv' OBVIOUS
<1>1. CASE Main
  BY <1>1, AppendSegInv, MainInv DEF Main
<1>2. CASE Timer
  BY <1>2, TimerRoundInv, TimerExitInv DEF Timer
<1>3. CASE ClientSeghandler
  BY <1>3, ClientDataAckInv, ClientReadsInv DEF ClientSeghandler
<1>4. CASE ServerSeghandler
  BY <1>4, ServerSynInv, ServerDataInv, ServerLosesInv DEF ServerSeghandler
<1>5. CASE ServerRecv
  BY <1>5, ServerRecvInv
<1>6. CASE Finished \/ UNCHANGED vars
  BY <1>6, StutterInv DEF Finished
<1> QED BY <1>1, <1>2, <1>3, <1>4, <1>5, <1>6 DEF Next

(* The inductive invariant holds in every reachable state. *)
THEOREM Inductive == Spec => []IInv
  BY InitInv, NextInv, PTL DEF Spec

(* Every variable keeps its type and the pointers of the send buffer stay  *)
(* inside it (client and server seghandler, timer and callers together).   *)
THEOREM TypeCorrect == Spec => []TypeOK
<1>1. IInv => TypeOK
  BY DEF IInv
<1> QED BY <1>1, Inductive, PTL

(* unAck_segNum counts the sent and not freed segments and never exceeds   *)
(* GBN_WINDOW.                                                             *)
THEOREM WindowBounded == Spec => []WindowInv
<1>1. IInv => WindowInv
  BY DEF IInv
<1> QED BY <1>1, Inductive, PTL

(* assert(tp->unAck_segNum == 0) of sendBuf_timer never fails on the first *)
(* send of a connection.                                                   *)
THEOREM TimerAssertionHolds == Spec => []TimerAssertion
<1>1. IInv => TimerAssertion
  BY DEF IInv, TypeOK, WindowInv, TimerAssertion
<1> QED BY <1>1, Inductive, PTL

(* The DATAACK handler frees only segments the server has stored. *)
THEOREM NoUnstoredFree == Spec => []FreedOnlyAccepted
<1>1. IInv => FreedOnlyAccepted
  BY DEF IInv
<1> QED BY <1>1, Inductive, PTL

(* When stcp_client_send returns, the server has stored the whole call. *)
THEOREM SendReturnsLate == Spec => []ReturnMeansAccepted
<1>1. IInv => ReturnMeansAccepted
  <2> SUFFICES ASSUME IInv, mainPc = "done"
               PROVE  Len(segs) = SegNum /\ \A i \in 1..SegNum : Accepted(segs[i])
    BY DEF ReturnMeansAccepted
  <2>1. Len(segs) = SegNum
    BY DEF IInv, BufInv
  <2>2. head = Len(segs) + 1 /\ Len(segs) \in Nat
    BY DEF IInv, DoneInv, Null, TypeOK
  <2>3. head - 1 = SegNum
    BY <2>1, <2>2
  <2> QED BY <2>1, <2>3 DEF IInv, FreedOnlyAccepted
<1> QED BY <1>1, Inductive, PTL

(* expect_seqNum never goes back, late SYNs included. *)
THEOREM ExpectMonotone == Spec => ExpectNeverDecreases
<1>1. ASSUME IInv, [Next]_vars PROVE expect' >= expect
  <2>1. expect \in Nat
    BY <1>1 DEF IInv, TypeOK
  <2>2. CASE ServerSyn
    BY <1>1, <2>1, <2>2, LateSyn
  <2>3. CASE ServerData
    <3>1. expect' = expect \/ \E i \in 1..Len(segs) : expect' = expect + segs[i].len
      BY <1>1, <2>3, ServerDataCases
    <3>2. \A i \in 1..Len(segs) : segs[i].len \in Nat
      <4>1. \A i \in 1..Len(segs) : segs[i] \in SegType
        BY <1>1 DEF IInv, TypeOK
      <4> QED BY <4>1 DEF SegType
    <3> QED BY <2>1, <3>1, <3>2
  <2>4. CASE ServerRecv
    BY <2>1, <2>4 DEF ServerRecv
  <2>5. CASE Main \/ Timer \/ ClientSeghandler \/ ServerLoses
    BY <2>1, <2>5 DEF Main, AppendSeg, StartTimer, SendReturns, Timer, TimerRound,
       TimerExit, ClientSeghandler, ClientDataAck, ClientSynAck, ClientLoses,
       ServerLoses, serverVars
  <2>6. CASE Finished \/ UNCHANGED vars
    BY <2>1, <2>6 DEF Finished, vars, serverVars
  <2> QED BY <1>1, <2>2, <2>3, <2>4, <2>5, <2>6 DEF Next, ServerSeghandler
<1>2. IInv /\ [Next]_vars => [expect' >= expect]_vars
  BY <1>1
<1> QED BY <1>2, Inductive, PTL DEF Spec, ExpectNeverDecreases

(***************************************************************************)
(* The bytes themselves, on a C library whose memcpy copies upwards.       *)
(***************************************************************************)
LEMMA InOrderInv ==
  ASSUME CopyOrders = {"up"}, IInv, InOrder, [Next]_vars
  PROVE  InOrder'
<1>1. /\ delivered \in Seq(Nat) /\ recvBuf \in Seq(Nat) /\ expect \in Nat
      /\ Len(delivered) \in Nat /\ Len(recvBuf) \in Nat
      /\ \A i \in 1..Len(segs) : segs[i] \in SegType
  BY DEF IInv, TypeOK
<1>2. CASE ServerData
  <2>1. CASE expect' = expect /\ recvBuf' = recvBuf
    BY <1>2, <2>1, ServerDataCases DEF InOrder
  <2>2. ASSUME NEW i \in 1..Len(segs), segs[i].seq = expect,
               recvBuf' = recvBuf \o Bytes(segs[i].off, segs[i].len)
        PROVE  InOrder'
    <3> DEFINE off == segs[i].off
               n == segs[i].len
    <3>1. off \in Nat /\ n \in Nat
      BY <1>1 DEF SegType
    <3>2. off = Len(delivered) + Len(recvBuf)
      BY <1>1, <2>2, BaseType DEF IInv, BufInv, ExpectInv
    <3> HIDE DEF off, n
    <3>3. /\ Len(recvBuf \o Bytes(off, n)) = Len(recvBuf) + n
          /\ \A k \in 1..(Len(recvBuf) + n) : (recvBuf \o Bytes(off, n))[k] =
               IF k <= Len(recvBuf) THEN recvBuf[k] ELSE off + (k - Len(recvBuf))
      BY <1>1, <3>1, BytesFacts
    <3>4. recvBuf' = recvBuf \o Bytes(off, n) /\ delivered' = delivered
      BY <1>2, <2>2, ServerDataCases DEF off, n
    <3>5. \A k \in 1..Len(recvBuf) : recvBuf[k] = Len(delivered) + k
      BY DEF InOrder
    <3>6. ASSUME NEW k \in 1..(Len(recvBuf) + n)
          PROVE  (recvBuf \o Bytes(off, n))[k] = Len(delivered) + k
      <4>1. CASE k <= Len(recvBuf)
        BY <1>1, <3>1, <3>3, <3>5, <4>1
      <4>2. CASE ~(k <= Len(recvBuf))
        <5>1. (recvBuf \o Bytes(off, n))[k] = off + (k - Len(recvBuf))
          BY <3>3, <4>2
        <5>2. off + (k - Len(recvBuf)) = Len(delivered) + k
          BY <1>1, <3>1, <3>2
        <5> QED BY <5>1, <5>2
      <4> QED BY <4>1, <4>2
    <3> QED BY <3>3, <3>4, <3>6 DEF InOrder
  <2> QED BY <1>2, <2>1, <2>2, ServerDataCases
<1>3. CASE ServerRecv
  <2>1. /\ Len(delivered') = Len(delivered) + RecvLen
        /\ Len(recvBuf') = Len(recvBuf) - RecvLen /\ Len(recvBuf) >= RecvLen
        /\ \A k \in 1..Len(delivered') : delivered'[k] =
             IF k <= Len(delivered) THEN delivered[k] ELSE recvBuf[k - Len(delivered)]
        /\ \A k \in 1..Len(recvBuf') : recvBuf'[k] = recvBuf[RecvLen + k]
    BY <1>3, ServerRecvCases
  <2>2. RecvLen \in Nat \ {0}
    BY ConstantsOK
  <2>3. /\ \A k \in 1..Len(delivered) : delivered[k] = k
        /\ \A k \in 1..Len(recvBuf) : recvBuf[k] = Len(delivered) + k
    BY DEF InOrder
  <2>4. ASSUME NEW k \in 1..Len(delivered') PROVE delivered'[k] = k
    <3>1. CASE k <= Len(delivered)
      <4>1. k \in 1..Len(delivered)
        BY <1>1, <2>1, <2>2, <3>1
      <4>2. delivered'[k] = delivered[k]
        BY <2>1, <3>1
      <4> QED BY <2>3, <4>1, <4>2
    <3>2. CASE ~(k <= Len(delivered))
      <4>1. /\ k - Len(delivered) \in 1..Len(recvBuf)
            /\ Len(delivered) + (k - Len(delivered)) = k
        BY <1>1, <2>1, <2>2, <3>2
      <4>2. delivered'[k] = recvBuf[k - Len(delivered)]
        BY <2>1, <3>2
      <4> QED BY <2>3, <4>1, <4>2
    <3> QED BY <3>1, <3>2
  <2>5. ASSUME NEW k \in 1..Len(recvBuf') PROVE recvBuf'[k] = Len(delivered') + k
    <3>1. /\ RecvLen + k \in 1..Len(recvBuf)
          /\ Len(delivered) + (RecvLen + k) = Len(delivered') + k
      BY <1>1, <2>1, <2>2
    <3> QED BY <2>1, <2>3, <3>1
  <2> QED BY <2>4, <2>5 DEF InOrder
<1>4. CASE ServerSyn
  BY <1>4 DEF InOrder, ServerSyn
<1>5. CASE Main \/ Timer \/ ClientSeghandler \/ ServerLoses
  BY <1>5 DEF InOrder, Main, AppendSeg, StartTimer, SendReturns, Timer, TimerRound,
     TimerExit, ClientSeghandler, ClientDataAck, ClientSynAck, ClientLoses,
     ServerLoses, serverVars
<1>6. CASE Finished \/ UNCHANGED vars
  BY <1>6 DEF InOrder, Finished, vars, serverVars
<1> QED BY <1>2, <1>3, <1>4, <1>5, <1>6 DEF Next, ServerSeghandler

(* The application reads the caller's bytes in order, each exactly once,   *)
(* whatever is lost, resent or acknowledged late.                          *)
THEOREM DeliveredInOrder ==
  ASSUME CopyOrders = {"up"}
  PROVE  Spec => []InOrder
<1>1. Init => InOrder
  BY DEF Init, InOrder
<1>2. IInv /\ InOrder /\ [Next]_vars => InOrder'
  BY InOrderInv
<1> QED BY <1>1, <1>2, Inductive, PTL DEF Spec

(***************************************************************************)
(* Refinement: the protocol implements the byte stream.                    *)
(***************************************************************************)
LEMMA ProductMonotone == \A a, b, m \in Nat : a <= b => a * m <= b * m
<1> SUFFICES ASSUME NEW a \in Nat, NEW b \in Nat, NEW m \in Nat, a <= b
             PROVE  a * m <= b * m
  OBVIOUS
<1> DEFINE d == b - a
<1>1. d \in Nat /\ b = a + d
  OBVIOUS
<1> HIDE DEF d
<1>2. d * m \in Nat /\ a * m \in Nat
  BY <1>1, ProductType
<1>3. (a + d) * m = a * m + d * m
  BY <1>1
<1> QED BY <1>1, <1>2, <1>3

(* The segments end within the data, and the last one at its end. *)
LEMMA SegEnds ==
  ASSUME NEW i \in 1..SegNum
  PROVE  /\ (i - 1) * MaxSegLen + SegLen(i) <= Length
         /\ i = SegNum => (i - 1) * MaxSegLen + SegLen(i) = Length
<1> DEFINE M == MaxSegLen
           q == Length \div M
           r == Length % M
<1>1. /\ M \in Nat \ {0} /\ Length \in Nat /\ q \in Nat /\ r \in Nat
      /\ Length = M * q + r
  BY ConstantsOK, QuotientFacts
<1>2. SegNum = q + (IF r # 0 THEN 1 ELSE 0)
  BY DEF SegNum
<1>3. SegLen(i) = IF r # 0 /\ i = SegNum THEN r ELSE M
  BY DEF SegLen
<1> HIDE DEF M, q, r
<1>4. /\ i \in Nat \ {0} /\ i - 1 \in Nat /\ (i - 1) + 1 = i
  BY SegNumType
<1>5. (i - 1) * M + M = i * M /\ M * q = q * M /\ q * M \in Nat
  BY <1>1, <1>4, Successor, ProductType
<1>6. CASE r # 0 /\ i = SegNum
  <2>1. i - 1 = q /\ SegLen(i) = r
    BY <1>1, <1>2, <1>3, <1>6
  <2> QED BY <1>1, <1>5, <2>1 DEF M
<1>7. CASE ~(r # 0 /\ i = SegNum)
  <2>1. i <= q /\ SegLen(i) = M /\ (i = SegNum => i = q /\ r = 0)
    BY <1>1, <1>2, <1>3, <1>4, <1>7
  <2>2. i * M <= q * M
    BY <1>1, <1>4, <2>1, ProductMonotone
  <2>3. (i - 1) * M + SegLen(i) = i * M
    BY <1>5, <2>1
  <2>4. i * M \in Nat
    BY <1>1, <1>4, ProductType
  <2>5. i * M <= Length /\ (i = SegNum => i * M = Length)
    BY <1>1, <1>5, <2>1, <2>2, <2>4
  <2> QED BY <2>3, <2>5 DEF M
<1> QED BY <1>6, <1>7

(* The send buffer never holds more than the call's bytes. *)
LEMMA NextSeqBound ==
  ASSUME IInv
  PROVE  /\ nextSeq <= Base + Length
         /\ Len(segs) = SegNum => nextSeq = Base + Length
<1> DEFINE l == Len(segs)
<1>1. l \in Nat /\ l <= SegNum /\ nextSeq \in Nat
  BY DEF IInv, TypeOK, BufInv
<1>2. CASE segs = <<>>
  <2>1. nextSeq = Base /\ l = 0
    BY <1>2 DEF IInv, BufInv
  <2>2. SegNum = 0 => Length = 0
    <3> DEFINE q == Length \div MaxSegLen
               r == Length % MaxSegLen
    <3>1. /\ q \in Nat /\ r \in Nat /\ Length = MaxSegLen * q + r
          /\ SegNum = q + (IF r # 0 THEN 1 ELSE 0)
      BY ConstantsOK, QuotientFacts DEF SegNum
    <3> HIDE DEF q, r
    <3>2. ASSUME SegNum = 0 PROVE q = 0 /\ r = 0
      BY <3>1, <3>2
    <3>3. MaxSegLen * 0 = 0
      BY ConstantsOK
    <3> QED BY <3>1, <3>2, <3>3
  <2> QED BY <2>1, <2>2, BaseType, ConstantsOK
<1>3. CASE segs # <<>>
  <2>1. l \in 1..SegNum /\ l \in 1..Len(segs)
    BY <1>1, <1>3, SegNumType DEF IInv, TypeOK
  <2>2. /\ nextSeq = segs[l].seq + segs[l].len /\ segs[l].len = SegLen(l)
        /\ segs[l].off = segs[l].seq - Base /\ segs[l].off = (l - 1) * MaxSegLen
    BY <1>3, <2>1 DEF IInv, BufInv
  <2>3. segs[l].seq \in Nat /\ SegLen(l) \in Nat
    <3>1. segs[l] \in SegType /\ l \in Nat
      BY <2>1 DEF IInv, TypeOK
    <3> QED BY <3>1, SegLenType DEF SegType
  <2>4. /\ (l - 1) * MaxSegLen + SegLen(l) <= Length
        /\ l = SegNum => (l - 1) * MaxSegLen + SegLen(l) = Length
    BY <2>1, SegEnds
  <2> DEFINE p == (l - 1) * MaxSegLen
  <2>5. p \in Nat
    BY <2>1, ConstantsOK, ProductType
  <2> HIDE DEF p
  <2>6. nextSeq = Base + (p + SegLen(l))
    <3>1. nextSeq = segs[l].seq + SegLen(l) /\ p = segs[l].seq - Base
      BY <2>2 DEF p
    <3>2. segs[l].seq = Base + p
      BY <2>3, <2>5, <3>1, BaseType
    <3> QED BY <2>3, <2>5, <3>1, <3>2, BaseType
  <2>7. p + SegLen(l) <= Length /\ (l = SegNum => p + SegLen(l) = Length)
    BY <2>4 DEF p
  <2>8. nextSeq <= Base + Length
    BY <2>3, <2>5, <2>6, <2>7, BaseType, ConstantsOK
  <2>9. Len(segs) = SegNum => nextSeq = Base + Length
    BY <2>6, <2>7
  <2> QED BY <2>8, <2>9
<1> QED BY <1>2, <1>3

LEMMA StreamStep ==
  ASSUME CopyOrders = {"up"}, IInv, IInv', InOrder, [Next]_vars
  PROVE  [Stream!Next]_(Stream!vars)
<1>1. /\ delivered \in Seq(Nat) /\ recvBuf \in Seq(Nat) /\ expect \in Nat
      /\ Len(delivered) \in Nat /\ Len(recvBuf) \in Nat
      /\ Len(segs) \in Nat /\ \A i \in 1..Len(segs) : segs[i] \in SegType
  <2>1. /\ delivered \in Seq(Nat) /\ recvBuf \in Seq(Nat)
        /\ expect \in Nat /\ segs \in Seq(SegType)
    BY DEF IInv, TypeOK
  <2> QED BY <2>1
<1>2. CASE ServerData
  <2>1. CASE expect' = expect /\ recvBuf' = recvBuf
    BY <1>2, <2>1, ServerDataCases DEF Stream!vars
  <2>2. ASSUME NEW i \in 1..Len(segs), segs[i].seq = expect,
               expect' = expect + segs[i].len,
               recvBuf' = recvBuf \o Bytes(segs[i].off, segs[i].len)
        PROVE  Stream!Accept
    <3> DEFINE off == segs[i].off
               n == segs[i].len
    <3>1. off \in Nat /\ n \in Nat \ {0}
      BY <1>1 DEF SegType
    <3>2. off = Len(delivered) + Len(recvBuf)
      <4>1. off = segs[i].seq - Base
        BY DEF IInv, BufInv
      <4>2. segs[i].seq = Base + Len(delivered) + Len(recvBuf)
        BY <2>2 DEF IInv, ExpectInv
      <4> HIDE DEF off
      <4> QED BY <1>1, <4>1, <4>2, BaseType
    <3>3. Len(delivered) + Len(recvBuf) + n <= Length
      <4>1. /\ expect = Base + Len(delivered) + Len(recvBuf) /\ expect' = expect + n
            /\ expect' <= nextSeq'
        BY <2>2 DEF IInv, ExpectInv
      <4>2. nextSeq' = nextSeq /\ nextSeq \in Nat
        BY <1>2, ServerDataCases DEF IInv, TypeOK
      <4>3. nextSeq <= Base + Length
        BY NextSeqBound
      <4> HIDE DEF n
      <4> QED BY <1>1, <3>1, <4>1, <4>2, <4>3, BaseType, ConstantsOK
    <3>4. /\ recvBuf' = recvBuf \o Bytes(off, n) /\ delivered' = delivered
          /\ mainPc' = mainPc
      BY <1>2, <2>2, ServerDataCases
    <3> HIDE DEF off, n
    <3>5. n \in 1..(Length - Stream!Arrived)
      BY <1>1, <3>1, <3>3, ConstantsOK DEF Stream!Arrived
    <3>6. Bytes(off, n) = Stream!NextBytes(Stream!Arrived, n)
      BY <3>2 DEF Bytes, Stream!NextBytes, Stream!Arrived
    <3> QED BY <3>4, <3>5, <3>6 DEF Stream!Accept
  <2> QED BY <1>2, <2>1, <2>2, ServerDataCases DEF Stream!Next
<1>3. CASE ServerRecv
  <2>1. /\ RecvLen \in 1..Len(recvBuf) /\ mainPc' = mainPc
        /\ delivered' = delivered \o SubSeq(recvBuf, 1, RecvLen)
        /\ recvBuf' = MovedDown(recvBuf, RecvLen, "up")
    BY <1>1, <1>3, ConstantsOK DEF ServerRecv, clientVars
  <2>2. MovedDown(recvBuf, RecvLen, "up") = SubSeq(recvBuf, RecvLen + 1, Len(recvBuf))
    <3>1. /\ MovedDown(recvBuf, RecvLen, "up") \in Seq(Nat)
          /\ Len(MovedDown(recvBuf, RecvLen, "up")) = Len(recvBuf) - RecvLen
          /\ \A k \in 1..(Len(recvBuf) - RecvLen) :
               MovedDown(recvBuf, RecvLen, "up")[k] = recvBuf[RecvLen + k]
      <4>1. "up" \in CopyOrders /\ RecvLen \in Nat \ {0} /\ Len(recvBuf) >= RecvLen
        BY <1>1, <2>1, ConstantsOK
      <4> QED BY <1>1, <4>1, MovedDownFacts
    <3> DEFINE rest == SubSeq(recvBuf, RecvLen + 1, Len(recvBuf))
    <3>2. /\ rest \in Seq(Nat) /\ Len(rest) = Len(recvBuf) - RecvLen
          /\ \A k \in 1..(Len(recvBuf) - RecvLen) : rest[k] = recvBuf[RecvLen + k]
      BY <1>1, <2>1
    <3> DEFINE moved == MovedDown(recvBuf, RecvLen, "up")
    <3> HIDE DEF rest, moved
    <3>3. moved \in Seq(Nat) /\ Len(moved) = Len(rest)
      BY <3>1, <3>2 DEF moved
    <3>4. \A k \in 1..Len(moved) : moved[k] = rest[k]
      BY <3>1, <3>2 DEF moved
    <3>5. moved = rest
      BY <3>2, <3>3, <3>4
    <3> QED BY <3>5 DEF moved, rest
  <2>3. Stream!Read
    BY <2>1, <2>2 DEF Stream!Read
  <2> QED BY <2>3 DEF Stream!Next
<1>4. CASE SendReturns
  <2>1. /\ mainPc = "wait" /\ mainPc' = "done" /\ head = Len(segs) + 1
        /\ recvBuf' = recvBuf /\ delivered' = delivered
    BY <1>4 DEF SendReturns, SendBufEmpty, Null, serverVars
  <2>2. Len(segs) = SegNum /\ nextSeq = Base + Length /\ nextSeq \in Nat
    BY <2>1, NextSeqBound DEF IInv, BufInv, TypeOK
  <2>3. nextSeq <= expect
    <3>1. CASE segs = <<>>
      BY <1>1, <3>1, BaseType DEF IInv, BufInv, ExpectInv
    <3>2. CASE segs # <<>>
      <4>1. Len(segs) \in 1..(head - 1)
        BY <1>1, <2>1, <3>2
      <4> QED BY <3>2, <4>1 DEF IInv, BufInv, FreedOnlyAccepted, Accepted
    <3> QED BY <3>1, <3>2
  <2>4. expect <= nextSeq /\ expect = Base + Len(delivered) + Len(recvBuf)
    BY DEF IInv, ExpectInv
  <2>5. Stream!Arrived = Length
    <3>1. expect = Base + Length
      BY <1>1, <2>2, <2>3, <2>4
    <3>2. Len(delivered) + Len(recvBuf) = Length
      <4>1. /\ Base \in Nat /\ Length \in Nat
            /\ Len(delivered) \in Nat /\ Len(recvBuf) \in Nat
            /\ Base + Len(delivered) + Len(recvBuf) = Base + Length
        BY <1>1, <2>4, <3>1, BaseType, ConstantsOK
      <4> QED BY <4>1
    <3> QED BY <3>2 DEF Stream!Arrived
  <2> QED BY <2>1, <2>5 DEF Stream!Next, Stream!Return
<1>5. CASE AppendSeg \/ StartTimer \/ Timer \/ ClientSeghandler \/ ServerLoses \/ ServerSyn
  <2>1. recvBuf' = recvBuf /\ delivered' = delivered
    BY <1>5 DEF AppendSeg, StartTimer, Timer, TimerRound, TimerExit, ClientSeghandler,
       ClientDataAck, ClientSynAck, ClientLoses, ServerLoses, ServerSyn, serverVars
  <2>2. mainPc' = mainPc \/ (mainPc # "done" /\ mainPc' # "done")
    BY <1>5 DEF AppendSeg, StartTimer, Timer, TimerRound, TimerExit, ClientSeghandler,
       ClientDataAck, ClientSynAck, ClientLoses, ServerLoses, ServerSyn, clientVars
  <2> QED BY <2>1, <2>2 DEF Stream!vars
<1>6. CASE Finished \/ UNCHANGED vars
  BY <1>6 DEF Finished, vars, clientVars, serverVars, Stream!vars
<1> QED BY <1>2, <1>3, <1>4, <1>5, <1>6 DEF Next, Main, ServerSeghandler

(* Seen from the two applications, one send is a reliable byte stream: the *)
(* safety part of ImplementsStream.                                        *)
THEOREM StreamRefinement ==
  ASSUME CopyOrders = {"up"}
  PROVE  Spec => Stream!Init /\ [][Stream!Next]_(Stream!vars)
<1>1. Init => Stream!Init
  BY DEF Init, Stream!Init
<1>2. IInv /\ IInv' /\ InOrder /\ [Next]_vars => [Stream!Next]_(Stream!vars)
  BY StreamStep
<1> QED BY <1>1, <1>2, Inductive, DeliveredInOrder, PTL DEF Spec
=============================================================================
