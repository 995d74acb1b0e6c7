-------------------------- MODULE SendBuffer_proofs --------------------------
(***************************************************************************)
(* Proofs about the client's send buffer, for every number of calls and of *)
(* segments and every window.                                              *)
(***************************************************************************)
EXTENDS SendBuffer, Integers, FiniteSetTheorems, TLAPS

(* Types, and the state of the caller *)
TypeInv ==
  /\ mainPc \in {"test", "setHead", "setUnSent", "link", "setTail", "start", "poll", "done"}
  /\ call \in Call /\ made \in 0..Total
  /\ next \in [1..Total -> 0..Total] /\ freed \subseteq 1..Total
  /\ head \in 0..Total /\ unSent \in 0..Total /\ tail \in 0..Total
  /\ unAck \in 0..(UIntMod - 1) /\ bufMutex \in {"none", "handler", "timer"}
  /\ timer \in [Call -> [at : {"none", "sleep", "resend", "send", "new", "advance", "exited"},
                         seg : 0..Total]]
  /\ handler \in [at : {"idle", "lock", "free", "load", "unlink", "drop", "reset"},
                  ack : 0..Total, seg : 0..Total, next : 0..Total]
  /\ acks \in Seq(0..Total) /\ accepted \in 0..Total /\ sent \in 0..Total
  /\ fault \in {"none", "null", "freed"}

CallerInv ==
  /\ made <= LastOf[call]
  /\ mainPc = "test" => made < LastOf[call]
  /\ mainPc \in {"setHead", "setUnSent", "link", "setTail"} => made > 0
  /\ mainPc \in {"start", "poll", "done"} => made = LastOf[call]

(* The server answers what it has, and only that is freed. *)
AckInv ==
  /\ \A k \in 1..Len(acks) : acks[k] <= accepted
  /\ handler.ack <= accepted
  /\ \A s \in freed : s <= accepted
  /\ handler.at = "load" => head # 0 /\ head <= handler.ack
  /\ handler.at = "unlink" => head = handler.seg
  /\ handler.at \in {"unlink", "drop"} => handler.seg # 0 /\ handler.seg <= handler.ack

(* bufMutex *)
Busy(c) == timer[c].at \in {"resend", "send", "new", "advance"}

LockInv ==
  /\ handler.at \in {"free", "load", "unlink", "drop", "reset"} => bufMutex = "handler"
  /\ \A c \in Call : Busy(c) => bufMutex = "timer" /\ \A d \in Call : Busy(d) => d = c
  /\ bufMutex = "timer" => head # 0
  /\ bufMutex = "none" /\ head = 0 => unAck = 0
  /\ mainPc = "setHead" => head = 0

(* Whatever the races cut off, every segment that was sent and is not freed *)
(* can be reached from the head, and so can those a timer is about to send. *)
Reached(x) == head # 0 /\ head <= x /\ \A s \in head..(x - 1) : next[s] = s + 1

Gone == IF handler.at = "drop" THEN freed \cup {handler.seg} ELSE freed

ChainInv ==
  /\ \A s \in 1..Total : next[s] = 0 \/ (next[s] = s + 1 /\ s < made)
  /\ head <= made /\ unSent <= made /\ sent <= made /\ handler.next <= made
  /\ \A c \in Call : timer[c].seg <= made
  /\ mainPc = "link" => tail \in {0, made - 1}
  /\ mainPc \in {"test", "start", "poll", "done"} => tail \in {0, made}
  /\ head = 0 => sent <= accepted
  /\ head # 0 => sent < head \/ Reached(sent)
  /\ unSent = 0 \/ unSent \in Gone \/ Reached(unSent)
  /\ mainPc = "setUnSent" => head = made \/ (head = 0 /\ made \in Gone)
  /\ \A c \in Call : Busy(c) => timer[c].seg = 0 \/ Reached(timer[c].seg)
  /\ handler.at = "unlink" =>
       IF handler.next = 0
       THEN sent <= head /\ (unSent \in {0, head} \/ unSent \in Gone)
       ELSE handler.next = head + 1 /\ next[head] = head + 1

(* The first call.  The segments that are in the list or were in it; those  *)
(* taken off it; those freed.                                              *)
Listed == IF mainPc \in {"setHead", "link"} THEN made - 1 ELSE made
Unlinked == IF head = 0 THEN Listed ELSE head - 1
FreedNum == IF handler.at = "drop" THEN Unlinked - 1 ELSE Unlinked

ListInv ==
  /\ head <= Listed
  /\ freed = 1..FreedNum
  /\ \A s \in 1..Total : s > Unlinked => next[s] = IF s < Listed THEN s + 1 ELSE 0

(* Until its timer is started the caller is alone ... *)
Alone ==
  /\ bufMutex = "none" /\ \A c \in Call : timer[c].at = "none"
  /\ handler.at = "idle" /\ acks = <<>>
  /\ accepted = 0 /\ sent = 0 /\ freed = {} /\ unAck = 0
  /\ head = IF made = 0 \/ mainPc = "setHead" THEN 0 ELSE 1
  /\ unSent = IF made = 0 \/ mainPc \in {"setHead", "setUnSent"} THEN 0 ELSE 1
  /\ mainPc = "link" => head = 1
  /\ mainPc = "setUnSent" => made = 1
  /\ mainPc \in {"test", "link", "start"} => tail = Listed

(* ... and from then on Taken segments are behind sendBufunSent. *)
Taken == IF unSent = 0 THEN made ELSE unSent - 1

Running ==
  /\ \A c \in Call : c # 1 => timer[c].at = "none"
  /\ Unlinked <= Taken
  /\ IF timer[1].at = "advance" THEN /\ unSent # 0 /\ sent = Taken + 1
                                     /\ unAck < GbnWindow
                                ELSE sent = Taken
  /\ accepted <= sent
  /\ unAck = Taken - FreedNum /\ unAck <= GbnWindow
  /\ timer[1].at = "resend" => timer[1].seg \in (Unlinked + 1)..Taken \cup {unSent}
  /\ timer[1].at = "send" => timer[1].seg \in (Unlinked + 1)..Taken
  /\ handler.at = "reset" => head = 0
  /\ handler.at = "unlink" => handler.next = next[head]
  /\ handler.at = "drop" => handler.seg = Unlinked

FirstInv ==
  call = 1 => /\ fault = "none" /\ ListInv
              /\ IF mainPc \in {"poll", "done"} THEN Running ELSE Alone

IInv ==
  /\ TypeInv /\ CallerInv /\ AckInv
  /\ fault = "none" => LockInv /\ ChainInv
  /\ FirstInv

-----------------------------------------------------------------------------
LEMMA Calls ==
  /\ Total \in Nat /\ GbnWindow \in Nat /\ UIntMod \in Nat /\ GbnWindow < UIntMod
  /\ 1 \in Call /\ Len(LastOf) \in Call
  /\ \A c \in Call : LastOf[c] \in 1..Total /\ c \in Nat /\ c > 0
  /\ \A c \in Call : c < Len(LastOf) => c + 1 \in Call /\ LastOf[c] < LastOf[c + 1]
<1>1. /\ LastOf \in Seq(Nat \ {0}) /\ LastOf # <<>>
      /\ Len(LastOf) \in Nat /\ Len(LastOf) # 0
      /\ \A c, d \in 1..Len(LastOf) : c < d => LastOf[c] < LastOf[d]
  BY SendBufferConstants
<1>2. Total \in Nat /\ 1 \in Call /\ Len(LastOf) \in Call
  BY <1>1 DEF Total, Call
<1>3. ASSUME NEW c \in Call
      PROVE  /\ LastOf[c] \in 1..Total /\ c \in Nat /\ c > 0
             /\ c < Len(LastOf) => c + 1 \in Call /\ LastOf[c] < LastOf[c + 1]
  <2>1. c \in 1..Len(LastOf) /\ LastOf[c] \in Nat \ {0}
    BY <1>1 DEF Call
  <2>2. c = Len(LastOf) \/ c < Len(LastOf)
    BY <1>1, <2>1
  <2>3. LastOf[c] <= Total
    BY <1>1, <1>2, <2>1, <2>2 DEF Total
  <2>4. c < Len(LastOf) => c + 1 \in 1..Len(LastOf) /\ c < c + 1
    BY <1>1, <2>1
  <2> QED BY <1>1, <1>2, <2>1, <2>3, <2>4 DEF Call
<1> QED BY <1>2, <1>3, SendBufferConstants

LEMMA InitInv == Init => IInv
<1> SUFFICES ASSUME Init PROVE IInv
  OBVIOUS
<1> USE Calls
<1>1. TypeInv
  <2>1. /\ next \in [1..Total -> 0..Total] /\ acks \in Seq(0..Total)
        /\ 0 \in 0..(UIntMod - 1) /\ 0 \in 0..Total
    BY DEF Init
  <2>2. timer \in [Call -> [at : {"none", "sleep", "resend", "send", "new", "advance", "exited"},
                            seg : 0..Total]]
    BY <2>1 DEF Init
  <2> QED BY <2>1, <2>2 DEF Init, TypeInv
<1>2. CallerInv /\ AckInv
  <2>1. LastOf[1] \in Nat \ {0}
    BY Calls
  <2>2. Len(acks) = 0
    BY DEF Init
  <2> QED BY <2>1, <2>2 DEF Init, CallerInv, AckInv
<1>3. LockInv /\ ChainInv
  BY Calls DEF Init, LockInv, Busy, ChainInv
<1>4. FirstInv
  BY Calls DEF Init, FirstInv, ListInv, Unlinked, FreedNum, Alone, Listed
<1> QED BY <1>1, <1>2, <1>3, <1>4 DEF IInv

(* What a step of a thread starts from. *)
LEMMA Sound ==
  ASSUME IInv, fault = "none"
  PROVE  /\ TypeInv /\ CallerInv /\ AckInv /\ LockInv /\ ChainInv /\ FirstInv
         /\ call = 1 => ListInv
         /\ LastOf[call] \in 1..Total /\ Total \in Nat
         /\ GbnWindow \in Nat /\ UIntMod \in Nat /\ GbnWindow < UIntMod
<1>1. TypeInv /\ CallerInv /\ AckInv /\ LockInv /\ ChainInv /\ FirstInv
  BY DEF IInv
<1>2. LastOf[call] \in 1..Total
  BY <1>1, Calls DEF TypeInv
<1> QED BY <1>1, <1>2, Calls DEF FirstInv

(* sip_sendseg *)
LEMMA SendStep ==
  ASSUME TypeInv, Total \in Nat, NEW s \in 1..Total, NEW lost \in BOOLEAN, Send(s, lost)
  PROVE  /\ sent' \in 0..Total /\ accepted' \in 0..Total /\ accepted <= accepted'
         /\ acks' \in Seq(0..Total)
<1>1. sent' \in 0..Total /\ accepted' \in 0..Total /\ accepted <= accepted'
  BY DEF Send, TypeInv
<1>2. acks' = acks \/ acks' = Append(acks, accepted')
  BY DEF Send
<1>3. CASE acks' = acks
  BY <1>1, <1>3 DEF TypeInv
<1>4. CASE acks' = Append(acks, accepted')
  <2>1. acks \in Seq(0..Total)
    BY DEF TypeInv
  <2> QED BY <1>1, <1>4, <2>1
<1> QED BY <1>1, <1>2, <1>3, <1>4

LEMMA SendAcks ==
  ASSUME TypeInv, Total \in Nat, NEW s \in 1..Total, NEW lost \in BOOLEAN, Send(s, lost),
         AckInv, UNCHANGED <<freed, head, handler>>
  PROVE  AckInv'
<1>1. accepted \in Nat /\ accepted' \in Nat /\ accepted <= accepted'
  BY SendStep DEF TypeInv
<1>2. acks' = acks \/ acks' = Append(acks, accepted')
  BY DEF Send
<1>3. ASSUME NEW k \in 1..Len(acks') PROVE acks'[k] <= accepted'
  <2>1. acks \in Seq(0..Total)
    BY DEF TypeInv
  <2>2. CASE k \in 1..Len(acks)
    <3>1. acks'[k] = acks[k] /\ acks[k] \in 0..Total
      BY SMTT(30), <1>2, <2>1, <2>2
    <3>2. acks[k] <= accepted
      BY <2>2 DEF AckInv
    <3> QED BY <1>1, <3>1, <3>2
  <2>3. CASE k \notin 1..Len(acks)
    <3>1. acks' = Append(acks, accepted')
      BY <1>2, <2>3
    <3>2. k = Len(acks) + 1
      BY <2>1, <2>3, <3>1
    <3> QED BY <1>1, <2>1, <3>1, <3>2
  <2> QED BY <2>2, <2>3
<1>4. \A r \in 0..Total : r <= accepted => r <= accepted'
  BY <1>1
<1> QED BY <1>3, <1>4 DEF AckInv, TypeInv

(* The first call is alone until its timer runs. *)
LEMMA TimerRuns ==
  ASSUME IInv, fault = "none", call = 1, NEW c \in Call, timer[c].at # "none"
  PROVE  /\ c = 1 /\ mainPc \in {"poll", "done"} /\ Running /\ ListInv
         /\ Listed = made /\ made > 0
<1>1. FirstInv /\ CallerInv /\ LastOf[call] \in 1..Total /\ Total \in Nat
  BY Sound
<1> QED BY <1>1 DEF FirstInv, Alone, Running, Listed, CallerInv

LEMMA HandlerRuns ==
  ASSUME IInv, fault = "none", call = 1, handler.at # "idle" \/ acks # <<>>
  PROVE  mainPc \in {"poll", "done"} /\ Running /\ ListInv /\ Listed = made
BY DEF IInv, FirstInv, Alone, Listed

LEMMA Numbers ==
  ASSUME TypeInv, ChainInv, AckInv, ListInv, Running, Listed = made, Total \in Nat
  PROVE  /\ made \in Nat /\ Taken \in Nat /\ Unlinked \in Nat /\ FreedNum \in Int
         /\ Unlinked <= Taken /\ Taken <= made /\ made <= Total
         /\ unSent # 0 => Taken = unSent - 1 /\ unSent \in 1..made
         /\ unSent = 0 => Taken = made
         /\ head # 0 => Unlinked = head - 1 /\ head \in 1..made
         /\ sent \in Nat /\ accepted \in Nat /\ accepted <= sent
         /\ timer[1].at # "advance" => sent = Taken
         /\ handler.at # "drop" => FreedNum = Unlinked
         /\ handler.at = "drop" => FreedNum = Unlinked - 1
<1>1. made \in Nat /\ unSent \in Nat /\ unSent <= made /\ made <= Total
  BY DEF TypeInv, ChainInv
<1>2. Taken \in Nat /\ Taken <= made
  BY <1>1 DEF Taken
<1>3. head \in Nat /\ head <= made
  BY DEF TypeInv, ListInv
<1>4. Unlinked \in Nat
  BY <1>1, <1>3 DEF Unlinked
<1>5. /\ FreedNum \in Int
      /\ handler.at # "drop" => FreedNum = Unlinked
      /\ handler.at = "drop" => FreedNum = Unlinked - 1
  BY <1>4 DEF FreedNum
<1> QED BY <1>1, <1>2, <1>3, <1>4, <1>5 DEF Taken, Unlinked, Running, TypeInv

LEMMA HeadTail ==
  ASSUME NEW S, NEW q \in Seq(S), q # <<>>
  PROVE  /\ Len(q) \in Nat /\ Len(q) > 0 /\ Head(q) = q[1] /\ q[1] \in S
         /\ Tail(q) \in Seq(S) /\ Len(Tail(q)) = Len(q) - 1
         /\ \A k \in 1..(Len(q) - 1) : Tail(q)[k] = q[k + 1]
OBVIOUS

(* Reachability and the freed segments, for steps that leave them alone *)
LEMMA SameReach ==
  ASSUME UNCHANGED <<next, head>> PROVE \A x : Reached(x)' <=> Reached(x)
BY DEF Reached

LEMMA ReachedNext ==
  ASSUME TypeInv, ChainInv, Total \in Nat, NEW x \in 1..Total, Reached(x)
  PROVE  next[x] = 0 \/ (Reached(next[x]) /\ next[x] <= made)
<1>1. CASE next[x] = 0
  BY <1>1
<1>2. CASE next[x] # 0
  <2>1. next[x] = x + 1 /\ x < made /\ made \in Nat /\ head \in 1..Total /\ head <= x
    BY <1>2 DEF ChainInv, TypeInv, Reached
  <2>2. \A r \in head..x : next[r] = r + 1
    BY <2>1 DEF Reached
  <2>3. Reached(x + 1)
    BY <2>1, <2>2 DEF Reached
  <2> QED BY <2>1, <2>3
<1> QED BY <1>1, <1>2

LEMMA SameGone ==
  ASSUME UNCHANGED freed, handler.at = handler'.at, handler.seg = handler'.seg
  PROVE  Gone' = Gone
BY DEF Gone

LEMMA AppendTestInv ==
  ASSUME IInv, AppendTest PROVE IInv'
<1> USE DEF AppendTest, MainAt, listVars, mainVars, netVars
<1>1. /\ TypeInv /\ CallerInv /\ AckInv /\ LockInv /\ ChainInv /\ FirstInv
      /\ call = 1 => ListInv
      /\ LastOf[call] \in 1..Total /\ Total \in Nat
      /\ GbnWindow \in Nat /\ UIntMod \in Nat /\ GbnWindow < UIntMod
  BY Sound
<1>2. TypeInv'
  BY <1>1 DEF TypeInv, CallerInv
<1>3. CallerInv'
  BY <1>1 DEF TypeInv, CallerInv
<1>4. AckInv'
  BY <1>1 DEF TypeInv, AckInv, LockInv
<1>5. LockInv'
  BY <1>1 DEF TypeInv, CallerInv, AckInv, LockInv, Busy
<1>6. ChainInv'
  <2>1. \A x : Reached(x)' <=> Reached(x)
    BY SameReach
  <2>2. Gone' = Gone
    BY SameGone
  <2> QED BY <1>1, <2>1, <2>2 DEF ChainInv, TypeInv, CallerInv, Busy
<1>7. FirstInv'
  BY <1>1 DEF TypeInv, CallerInv, AckInv, LockInv, Busy, ChainInv, ListInv, FirstInv, Alone, Running,
              Taken, Listed, Unlinked, FreedNum
<1> QED BY <1>2, <1>3, <1>4, <1>5, <1>6, <1>7 DEF IInv

LEMMA SetHeadInv ==
  ASSUME IInv, SetHead PROVE IInv'
<1> USE DEF SetHead, MainAt, listVars, mainVars, netVars
<1>1. /\ TypeInv /\ CallerInv /\ AckInv /\ LockInv /\ ChainInv /\ FirstInv
      /\ call = 1 => ListInv
      /\ LastOf[call] \in 1..Total /\ Total \in Nat
      /\ GbnWindow \in Nat /\ UIntMod \in Nat /\ GbnWindow < UIntMod
  BY Sound
<1>2. TypeInv'
  BY <1>1 DEF TypeInv, CallerInv
<1>3. CallerInv'
  BY <1>1 DEF TypeInv, CallerInv
<1>4. AckInv'
  BY <1>1 DEF TypeInv, AckInv, LockInv
<1>5. LockInv'
  BY <1>1 DEF TypeInv, CallerInv, AckInv, LockInv, Busy
<1>6. ChainInv'
  <2>1. head = 0 /\ made \in 1..Total /\ head' = made /\ handler.at # "unlink"
    BY <1>1 DEF LockInv, AckInv, CallerInv, TypeInv
  <2>2. Gone' = Gone
    BY SameGone
  <2>3. Reached(made)' /\ \A x : ~Reached(x)
    BY <2>1 DEF Reached
  <2>4. \A d \in Call : ~Busy(d)
    BY <1>1, <2>1 DEF LockInv
  <2>5. sent' <= made /\ (sent' < head' \/ Reached(sent)')
    <3>1. sent \in Nat /\ made \in Nat /\ sent <= made
      BY <1>1 DEF TypeInv, ChainInv
    <3>2. sent = made \/ sent < made
      BY <3>1
    <3>3. sent = made => Reached(sent)'
      BY <2>3
    <3> QED BY <2>1, <3>1, <3>2, <3>3
  <2>6. unSent = 0 \/ unSent \in Gone
    BY <1>1, <2>3 DEF ChainInv
  <2>7. \A d \in Call : ~Busy(d)'
    BY <2>4 DEF Busy
  <2> QED BY <1>1, <2>1, <2>2, <2>5, <2>6, <2>7 DEF ChainInv, TypeInv
<1>7. FirstInv'
  <2> SUFFICES ASSUME call = 1 PROVE fault' = "none" /\ Alone' /\ ListInv'
    BY DEF FirstInv
  <2>1. Alone /\ ListInv /\ Listed = made - 1 /\ made \in 1..Total /\ head = 0
    BY <1>1 DEF FirstInv, Listed, TypeInv, CallerInv, LockInv
  <2>2. freed = {} /\ freed = 1..FreedNum /\ FreedNum = Unlinked /\ Unlinked = made - 1
    BY <2>1 DEF Alone, ListInv, FreedNum, Unlinked
  <2>3. made = 1
    BY <2>1, <2>2
  <2>4. Listed' = 1 /\ head' = 1 /\ Unlinked' = 0 /\ FreedNum' = 0
    BY <2>1, <2>3 DEF Listed, Unlinked, FreedNum, Alone
  <2>5. ListInv'
    BY <2>1, <2>2, <2>3, <2>4 DEF ListInv
  <2> QED BY <2>1, <2>3, <2>4, <2>5 DEF Alone
<1> QED BY <1>2, <1>3, <1>4, <1>5, <1>6, <1>7 DEF IInv

LEMMA SetUnSentInv ==
  ASSUME IInv, SetUnSent PROVE IInv'
<1> USE DEF SetUnSent, MainAt, listVars, mainVars, netVars
<1>1. /\ TypeInv /\ CallerInv /\ AckInv /\ LockInv /\ ChainInv /\ FirstInv
      /\ call = 1 => ListInv
      /\ LastOf[call] \in 1..Total /\ Total \in Nat
      /\ GbnWindow \in Nat /\ UIntMod \in Nat /\ GbnWindow < UIntMod
  BY Sound
<1>2. TypeInv'
  BY <1>1 DEF TypeInv, CallerInv
<1>3. CallerInv'
  BY <1>1 DEF TypeInv, CallerInv
<1>4. AckInv'
  BY <1>1 DEF TypeInv, AckInv, LockInv
<1>5. LockInv'
  BY <1>1 DEF TypeInv, CallerInv, AckInv, LockInv, Busy
<1>6. ChainInv'
  <2>1. \A x : Reached(x)' <=> Reached(x)
    BY SameReach
  <2>2. Gone' = Gone
    BY SameGone
  <2>3. made \in 1..Total /\ unSent' = made
    BY <1>1 DEF CallerInv, TypeInv
  <2>4. head = made \/ (head = 0 /\ made \in Gone)
    BY <1>1 DEF ChainInv
  <2>5. made \in Gone \/ Reached(made)
    BY <2>3, <2>4 DEF Reached
  <2> QED BY <1>1, <2>1, <2>2, <2>3, <2>4, <2>5 DEF ChainInv, TypeInv, CallerInv, AckInv, Busy
<1>7. FirstInv'
  <2>1. call = 1 => fault = "none" /\ Alone /\ ListInv
    BY <1>1 DEF FirstInv
  <2>2. Listed' = Listed /\ Listed = made /\ made \in Nat /\ made > 0
    BY <1>1 DEF Listed, CallerInv, TypeInv
  <2>3. call = 1 => Alone' /\ ListInv'
    <3> SUFFICES ASSUME call = 1 PROVE Alone' /\ ListInv'
      OBVIOUS
    <3>1. Unlinked' = Unlinked /\ FreedNum' = FreedNum
      BY <2>2 DEF Unlinked, FreedNum
    <3> QED BY <2>1, <2>2, <3>1 DEF Alone, ListInv
  <2> QED BY <2>1, <2>3 DEF FirstInv
<1> QED BY <1>2, <1>3, <1>4, <1>5, <1>6, <1>7 DEF IInv

LEMMA LinkInv ==
  ASSUME IInv, Link PROVE IInv'
<1> USE DEF Link, MainAt, listVars, mainVars, netVars
<1>1. /\ TypeInv /\ CallerInv /\ AckInv /\ LockInv /\ ChainInv /\ FirstInv
      /\ call = 1 => ListInv
      /\ LastOf[call] \in 1..Total /\ Total \in Nat
      /\ GbnWindow \in Nat /\ UIntMod \in Nat /\ GbnWindow < UIntMod
  BY Sound
<1>2. TypeInv'
  BY <1>1 DEF TypeInv, CallerInv, Deref, Valid
<1>3. CallerInv'
  BY <1>1 DEF TypeInv, CallerInv, Deref, Valid
<1>4. AckInv'
  BY <1>1 DEF TypeInv, AckInv, LockInv, Deref, Valid
<1>5. LockInv'
  BY <1>1 DEF TypeInv, CallerInv, AckInv, LockInv, Busy, Deref, Valid
<1>6. fault' = "none" => ChainInv'
  <2> SUFFICES ASSUME fault' = "none" PROVE ChainInv'
    OBVIOUS
  <2>1. Valid(tail)
    BY DEF Deref, Valid
  <2>2. tail \in 1..Total /\ made \in 1..Total /\ made = tail + 1
    BY <1>1, <2>1 DEF Valid, TypeInv, CallerInv, ChainInv
  <2>3. next' = [next EXCEPT ![tail] = made]
    BY <2>1
  <2>4. \A r \in 1..Total : next'[r] = IF r = tail THEN r + 1 ELSE next[r]
    BY <1>1, <2>2, <2>3 DEF TypeInv
  <2>5. ASSUME NEW x \in 0..Total, Reached(x) PROVE Reached(x)'
    <3>1. head \in 1..Total
      BY <1>1, <2>5 DEF Reached, TypeInv
    <3>2. \A r \in head..(x - 1) : r \in 1..Total /\ next[r] = r + 1
      BY <1>1, <2>5, <3>1 DEF Reached
    <3> QED BY <2>4, <2>5, <3>1, <3>2 DEF Reached
  <2>6. Gone' = Gone
    BY SameGone
  <2>7. ASSUME NEW r \in 1..Total PROVE next'[r] = 0 \/ (next'[r] = r + 1 /\ r < made')
    <3>1. next[r] = 0 \/ (next[r] = r + 1 /\ r < made)
      BY <1>1 DEF ChainInv
    <3> QED BY <2>2, <2>4, <3>1
  <2>8. head = 0 \/ head \in 1..Total
    BY <1>1 DEF TypeInv
  <2>9. handler.at = "unlink" /\ handler.next # 0 => next'[head] = head + 1
    BY <1>1, <2>4, <2>8 DEF ChainInv, AckInv
  <2>10. \A d \in Call : timer[d].seg \in 0..Total
    BY <1>1 DEF TypeInv
  <2>11. sent \in 0..Total /\ unSent \in 0..Total
    BY <1>1 DEF TypeInv
  <2> QED BY <1>1, <2>5, <2>6, <2>7, <2>9, <2>10, <2>11 DEF ChainInv, Busy
<1>7. FirstInv'
  <2> SUFFICES ASSUME call = 1 PROVE fault' = "none" /\ Alone' /\ ListInv'
    BY DEF FirstInv
  <2>1. Alone /\ ListInv /\ head = 1 /\ tail = Listed /\ Listed = made - 1
    BY <1>1 DEF FirstInv, Alone, Listed
  <2>2. made \in 1..Total /\ Listed' = made /\ freed = {} /\ Unlinked = 0 /\ Unlinked' = 0
    BY <1>1, <2>1 DEF Listed, TypeInv, CallerInv, Alone, Unlinked
  <2>3. tail \in 1..Total
    <3>1. tail >= head
      BY <1>1, <2>1 DEF ListInv
    <3> QED BY <1>1, <2>1, <3>1 DEF TypeInv
  <2>4. fault' = "none" /\ next' = [next EXCEPT ![tail] = made]
    BY <2>2, <2>3 DEF Deref, Valid
  <2>5. \A r \in 1..Total : next'[r] = IF r = tail THEN made ELSE next[r]
    BY <1>1, <2>3, <2>4 DEF TypeInv
  <2>6. \A r \in 1..Total : r > 0 => next[r] = IF r < made - 1 THEN r + 1 ELSE 0
    BY <2>1, <2>2 DEF ListInv
  <2>7. \A r \in 1..Total : r > 0 => next'[r] = IF r < made THEN r + 1 ELSE 0
    BY <2>1, <2>2, <2>3, <2>5, <2>6
  <2>8. FreedNum' = FreedNum /\ head <= made
    BY <2>1, <2>2, <2>3 DEF FreedNum
  <2>9. ListInv'
    BY <2>1, <2>2, <2>7, <2>8 DEF ListInv
  <2>10. Alone'
    BY <2>1, <2>2, <2>4 DEF Alone
  <2> QED BY <2>4, <2>9, <2>10
<1> QED BY <1>2, <1>3, <1>4, <1>5, <1>6, <1>7 DEF IInv

LEMMA SetTailInv ==
  ASSUME IInv, SetTail PROVE IInv'
<1> USE DEF SetTail, MainAt, listVars, mainVars, netVars
<1>1. /\ TypeInv /\ CallerInv /\ AckInv /\ LockInv /\ ChainInv /\ FirstInv
      /\ call = 1 => ListInv
      /\ LastOf[call] \in 1..Total /\ Total \in Nat
      /\ GbnWindow \in Nat /\ UIntMod \in Nat /\ GbnWindow < UIntMod
  BY Sound
<1>2. TypeInv'
  BY <1>1 DEF TypeInv, CallerInv
<1>3. CallerInv'
  BY <1>1 DEF TypeInv, CallerInv
<1>4. AckInv'
  BY <1>1 DEF TypeInv, AckInv, LockInv
<1>5. LockInv'
  BY <1>1 DEF TypeInv, CallerInv, AckInv, LockInv, Busy
<1>6. ChainInv'
  <2>1. \A x : Reached(x)' <=> Reached(x)
    BY SameReach
  <2>2. Gone' = Gone
    BY SameGone
  <2> QED BY <1>1, <2>1, <2>2 DEF ChainInv, TypeInv, CallerInv, Busy
<1>7. FirstInv'
  BY <1>1 DEF TypeInv, CallerInv, AckInv, LockInv, Busy, ChainInv, ListInv, FirstInv, Alone, Running,
              Taken, Listed, Unlinked, FreedNum
<1> QED BY <1>2, <1>3, <1>4, <1>5, <1>6, <1>7 DEF IInv

LEMMA StartTimerInv ==
  ASSUME IInv, StartTimer PROVE IInv'
<1> USE DEF StartTimer, MainAt, listVars, mainVars, netVars
<1>1. /\ TypeInv /\ CallerInv /\ AckInv /\ LockInv /\ ChainInv /\ FirstInv
      /\ call = 1 => ListInv
      /\ LastOf[call] \in 1..Total /\ Total \in Nat
      /\ GbnWindow \in Nat /\ UIntMod \in Nat /\ GbnWindow < UIntMod
  BY Sound
<1>2. TypeInv'
  BY <1>1 DEF TypeInv, CallerInv
<1>3. CallerInv'
  BY <1>1 DEF TypeInv, CallerInv
<1>4. AckInv'
  BY <1>1 DEF TypeInv, AckInv, LockInv
<1>5. LockInv'
  BY <1>1 DEF TypeInv, CallerInv, AckInv, LockInv, Busy
<1>6. ChainInv'
  <2>1. \A x : Reached(x)' <=> Reached(x)
    BY SameReach
  <2>2. Gone' = Gone
    BY SameGone
  <2>3. \A d \in Call : timer'[d].seg = timer[d].seg /\ (Busy(d)' => Busy(d))
    BY <1>1 DEF TypeInv, Busy
  <2> QED BY <1>1, <2>1, <2>2, <2>3 DEF ChainInv, TypeInv, CallerInv
<1>7. FirstInv'
  BY <1>1 DEF TypeInv, CallerInv, AckInv, LockInv, Busy, ChainInv, ListInv, FirstInv, Alone, Running,
              Taken, Listed, Unlinked, FreedNum
<1> QED BY <1>2, <1>3, <1>4, <1>5, <1>6, <1>7 DEF IInv

LEMMA PollReturnsInv ==
  ASSUME IInv, PollReturns PROVE IInv'
<1> USE DEF PollReturns, MainAt, listVars, mainVars, netVars
<1>1. /\ TypeInv /\ CallerInv /\ AckInv /\ LockInv /\ ChainInv /\ FirstInv
      /\ call = 1 => ListInv
      /\ LastOf[call] \in 1..Total /\ Total \in Nat
      /\ GbnWindow \in Nat /\ UIntMod \in Nat /\ GbnWindow < UIntMod
  BY Sound
<1>2. TypeInv'
  <2>1. call' \in Call
    BY <1>1, Calls DEF TypeInv
  <2> QED BY <1>1, <2>1 DEF TypeInv
<1>3. CallerInv'
  <2>1. made = LastOf[call] /\ call \in Call
    BY <1>1 DEF CallerInv, TypeInv
  <2>2. CASE call < Len(LastOf)
    <3>1. call' = call + 1 /\ mainPc' = "test" /\ LastOf[call] < LastOf[call + 1]
      BY <2>1, <2>2, Calls
    <3>2. LastOf[call + 1] \in 1..Total
      BY <2>1, <2>2, Calls
    <3> QED BY <1>1, <2>1, <3>1, <3>2 DEF CallerInv
  <2>3. CASE ~(call < Len(LastOf))
    BY <1>1, <2>1, <2>3 DEF CallerInv
  <2> QED BY <2>2, <2>3
<1>4. AckInv'
  BY <1>1 DEF TypeInv, AckInv, LockInv, BufEmpty
<1>5. LockInv'
  BY <1>1 DEF TypeInv, CallerInv, AckInv, LockInv, Busy, BufEmpty
<1>6. ChainInv'
  <2>1. \A x : Reached(x)' <=> Reached(x)
    BY SameReach
  <2>2. Gone' = Gone
    BY SameGone
  <2> QED BY <1>1, <2>1, <2>2 DEF ChainInv, TypeInv, CallerInv, Busy
<1>7. FirstInv'
  <2> SUFFICES ASSUME call' = 1 PROVE fault' = "none" /\ ListInv' /\ mainPc' = "done" /\ Running'
    BY DEF FirstInv
  <2>1. call = 1 /\ call' = call /\ mainPc' = "done"
    BY <1>1, Calls DEF TypeInv
  <2>2. Running /\ ListInv
    BY <1>1, <2>1 DEF FirstInv
  <2>3. Listed' = Listed /\ Unlinked' = Unlinked /\ FreedNum' = FreedNum
    BY DEF Listed, Unlinked, FreedNum
  <2> QED BY <2>1, <2>2, <2>3 DEF Running, ListInv, Taken
<1> QED BY <1>2, <1>3, <1>4, <1>5, <1>6, <1>7 DEF IInv

LEMMA TimerLockInv ==
  ASSUME IInv, NEW c \in Call, TimerLock(c) PROVE IInv'
<1> USE DEF TimerLock, TimerAt, listVars, mainVars, netVars
<1>1. /\ TypeInv /\ CallerInv /\ AckInv /\ LockInv /\ ChainInv /\ FirstInv
      /\ call = 1 => ListInv
      /\ LastOf[call] \in 1..Total /\ Total \in Nat
      /\ GbnWindow \in Nat /\ UIntMod \in Nat /\ GbnWindow < UIntMod
  BY Sound
<1>2. TypeInv'
  <2>1. timer' = [timer EXCEPT ![c].at = "exited"]
          \/ timer' = [timer EXCEPT ![c] = [at |-> "resend", seg |-> head]]
    OBVIOUS
  <2>2. timer' \in [Call -> [at : {"none", "sleep", "resend", "send", "new", "advance", "exited"},
                             seg : 0..Total]]
    <3>1. CASE timer' = [timer EXCEPT ![c].at = "exited"]
      BY <1>1, <3>1 DEF TypeInv
    <3>2. CASE timer' = [timer EXCEPT ![c] = [at |-> "resend", seg |-> head]]
      BY <1>1, <3>2 DEF TypeInv
    <3> QED BY <2>1, <3>1, <3>2
  <2>3. fault' \in {"none", "null", "freed"}
    BY <1>1 DEF TypeInv, LockInv
  <2> QED BY <1>1, <2>2, <2>3 DEF TypeInv
<1>3. CallerInv'
  BY <1>1 DEF TypeInv, CallerInv
<1>4. AckInv'
  BY <1>1 DEF TypeInv, AckInv, LockInv
<1>5. LockInv'
  <2>1. \A d \in Call : ~Busy(d)
    BY <1>1 DEF LockInv
  <2>2. CASE head = 0
    <3>1. \A d \in Call : timer'[d].at \in {timer[d].at, "exited"}
      <4>1. timer' = [timer EXCEPT ![c].at = "exited"]
        BY <2>2
      <4> QED BY <1>1, <4>1 DEF TypeInv
    <3>2. \A d \in Call : ~Busy(d)'
      BY <2>1, <3>1 DEF Busy
    <3> QED BY <1>1, <2>2, <3>2 DEF LockInv
  <2>3. CASE head # 0
    <3>1. \A d \in Call : d # c => timer'[d] = timer[d]
      BY <1>1, <2>3 DEF TypeInv
    <3>2. \A d \in Call : d # c => ~Busy(d)'
      BY <2>1, <3>1 DEF Busy
    <3> QED BY <1>1, <2>3, <3>2 DEF LockInv
  <2> QED BY <2>2, <2>3
<1>6. ChainInv'
  <2>1. \A x : Reached(x)' <=> Reached(x)
    BY SameReach
  <2>2. Gone' = Gone
    BY SameGone
  <2>3. head \in 0..Total /\ (head # 0 => Reached(head))
    <3>1. head \in 0..Total
      BY <1>1 DEF TypeInv
    <3>2. \A x \in head..(head - 1) : FALSE
      BY <1>1, <3>1
    <3> QED BY <3>1, <3>2 DEF Reached
  <2>4. \A d \in Call : d # c => timer'[d] = timer[d]
    BY <1>1 DEF TypeInv
  <2>5. CASE head = 0
    <3>1. timer'[c].seg = timer[c].seg /\ timer'[c].at = "exited"
      BY <1>1, <2>5 DEF TypeInv
    <3> QED BY <1>1, <2>1, <2>2, <2>4, <2>5, <3>1 DEF ChainInv, Busy
  <2>6. CASE head # 0
    <3>1. timer'[c].seg = head
      BY <1>1, <2>6 DEF TypeInv
    <3> QED BY <1>1, <2>1, <2>2, <2>3, <2>4, <2>6, <3>1 DEF ChainInv, Busy
  <2> QED BY <2>5, <2>6
<1>7. FirstInv'
  <2> SUFFICES ASSUME call = 1 PROVE fault' = "none" /\ ListInv' /\ Running'
    BY TimerRuns DEF FirstInv
  <2>1. c = 1 /\ Running /\ ListInv /\ Listed = made
    BY TimerRuns
  <2>2. /\ Taken' = Taken /\ FreedNum' = FreedNum /\ Unlinked' = Unlinked /\ fault' = "none"
        /\ Listed' = Listed
    BY <1>1 DEF Taken, FreedNum, Unlinked, Listed, LockInv
  <2>3. \A d \in Call : d # 1 => timer'[d] = timer[d]
    BY <1>1, <2>1 DEF TypeInv
  <2>4. timer'[1].at \in {"exited", "resend"} /\ timer[1].at = "sleep"
    BY SMTT(30), <1>1, <2>1 DEF TypeInv
  <2>5. ASSUME timer'[1].at = "resend"
        PROVE  timer'[1].seg \in (Unlinked + 1)..Taken \cup {unSent}
    <3>1. head # 0 /\ timer'[1].seg = head
      BY SMTT(30), <1>1, <2>1, <2>5 DEF TypeInv
    <3>2. Unlinked + 1 = head /\ head <= made
      BY <1>1, <2>1, <3>1 DEF TypeInv, Unlinked, ListInv
    <3> QED BY <1>1, <2>1, <3>1, <3>2, Numbers
  <2>6. ListInv'
    BY <2>1, <2>2 DEF ListInv
  <2> QED BY <2>1, <2>2, <2>3, <2>4, <2>5, <2>6 DEF Running
<1> QED BY <1>2, <1>3, <1>4, <1>5, <1>6, <1>7 DEF IInv

LEMMA TimerTestInv ==
  ASSUME IInv, NEW c \in Call, TimerTest(c) PROVE IInv'
<1> USE DEF TimerTest, TimerAt, listVars, mainVars, netVars
<1>1. /\ TypeInv /\ CallerInv /\ AckInv /\ LockInv /\ ChainInv /\ FirstInv
      /\ call = 1 => ListInv
      /\ LastOf[call] \in 1..Total /\ Total \in Nat
      /\ GbnWindow \in Nat /\ UIntMod \in Nat /\ GbnWindow < UIntMod
  BY Sound
<1>2. TypeInv'
  BY <1>1 DEF TypeInv, CallerInv
<1>3. CallerInv'
  BY <1>1 DEF TypeInv, CallerInv
<1>4. AckInv'
  BY <1>1 DEF TypeInv, AckInv, LockInv
<1>5. LockInv'
  <2>1. \A d \in Call : Busy(d)' <=> Busy(d)
    BY <1>1 DEF TypeInv, Busy
  <2> QED BY <1>1, <2>1 DEF LockInv
<1>6. ChainInv'
  <2>1. \A x : Reached(x)' <=> Reached(x)
    BY SameReach
  <2>2. Gone' = Gone
    BY SameGone
  <2>3. \A d \in Call : timer'[d].seg = timer[d].seg /\ (Busy(d)' <=> Busy(d))
    BY <1>1 DEF TypeInv, Busy
  <2> QED BY <1>1, <2>1, <2>2, <2>3 DEF ChainInv
<1>7. FirstInv'
  <2> SUFFICES ASSUME call = 1 PROVE fault' = "none" /\ ListInv' /\ Running'
    BY TimerRuns DEF FirstInv
  <2>1. c = 1 /\ Running /\ ListInv /\ timer[1].at = "resend"
    BY TimerRuns
  <2>2. Taken' = Taken /\ FreedNum' = FreedNum /\ Unlinked' = Unlinked /\ Listed' = Listed
    BY DEF Taken, FreedNum, Unlinked, Listed
  <2>3. /\ timer'[1].at = IF timer[1].seg # unSent THEN "send" ELSE "new"
        /\ timer'[1].seg = timer[1].seg /\ \A d \in Call : d # 1 => timer'[d] = timer[d]
    BY <1>1, <2>1 DEF TypeInv
  <2>4. ListInv'
    BY <2>1, <2>2 DEF ListInv
  <2> QED BY <2>1, <2>2, <2>3, <2>4 DEF Running
<1> QED BY <1>2, <1>3, <1>4, <1>5, <1>6, <1>7 DEF IInv

LEMMA TimerResendInv ==
  ASSUME IInv, NEW c \in Call, NEW lost \in BOOLEAN, TimerResend(c, lost) PROVE IInv'
<1> USE DEF TimerResend, TimerAt, listVars, mainVars, netVars
<1>1. /\ TypeInv /\ CallerInv /\ AckInv /\ LockInv /\ ChainInv /\ FirstInv
      /\ call = 1 => ListInv
      /\ LastOf[call] \in 1..Total /\ Total \in Nat
      /\ GbnWindow \in Nat /\ UIntMod \in Nat /\ GbnWindow < UIntMod
  BY Sound
<1>2. TypeInv'
  <2>1. CASE ~Valid(timer[c].seg)
    BY <1>1, <2>1 DEF TypeInv, Deref
  <2>2. CASE Valid(timer[c].seg)
    <3>1. PICK r \in 1..Total : r = timer[c].seg
      BY <1>1, <2>2 DEF TypeInv, Valid
    <3>2. sent' \in 0..Total /\ accepted' \in 0..Total /\ acks' \in Seq(0..Total)
      BY <1>1, <2>2, <3>1, SendStep
    <3>3. timer' = [timer EXCEPT ![c].at = "resend", ![c].seg = next[r]] /\ next[r] \in 0..Total
      BY <1>1, <2>2, <3>1 DEF TypeInv
    <3>4. timer' \in [Call -> [at : {"none", "sleep", "resend", "send", "new", "advance", "exited"},
                               seg : 0..Total]]
      BY <1>1, <3>3 DEF TypeInv
    <3> QED BY <1>1, <3>2, <3>4 DEF TypeInv, Deref
  <2> QED BY <2>1, <2>2
<1>3. CallerInv'
  BY <1>1 DEF TypeInv, CallerInv, Deref, Valid, Send
<1>4. AckInv'
  <2>1. CASE ~Valid(timer[c].seg)
    BY <1>1, <2>1 DEF AckInv
  <2>2. CASE Valid(timer[c].seg)
    <3>1. PICK s \in 1..Total : s = timer[c].seg
      BY <1>1, <2>2 DEF TypeInv, Valid
    <3>2. Send(s, lost) /\ UNCHANGED <<freed, head, handler>>
      BY <2>2, <3>1
    <3> QED BY <1>1, <3>2, SendAcks
  <2> QED BY <2>1, <2>2
<1>5. LockInv'
  <2>1. timer' = timer \/ \E r : timer' = [timer EXCEPT ![c].at = "resend", ![c].seg = r]
    OBVIOUS
  <2>2. ASSUME NEW d \in Call PROVE Busy(d)' <=> Busy(d)
    <3>1. ASSUME NEW r, timer' = [timer EXCEPT ![c].at = "resend", ![c].seg = r]
          PROVE  Busy(d)' <=> Busy(d)
      BY <1>1, <3>1 DEF TypeInv, Busy
    <3>2. timer' = timer => (Busy(d)' <=> Busy(d))
      BY DEF Busy
    <3> QED BY <2>1, <3>1, <3>2
  <2> QED BY <1>1, <2>2 DEF LockInv
<1>6. fault' = "none" => ChainInv'
  <2> SUFFICES ASSUME fault' = "none" PROVE ChainInv'
    OBVIOUS
  <2>1. PICK r \in 1..Total : r = timer[c].seg /\ Valid(r)
    BY <1>1 DEF TypeInv, Deref, Valid
  <2>2. Send(r, lost) /\ timer' = [timer EXCEPT ![c].at = "resend", ![c].seg = next[r]]
    BY <2>1
  <2>3. /\ timer'[c].seg = next[r] /\ timer'[c].at = "resend"
        /\ \A d \in Call : d # c => timer'[d] = timer[d]
    BY <1>1, <2>2 DEF TypeInv
  <2>4. Busy(c) /\ bufMutex = "timer" /\ head # 0 /\ handler.at # "unlink"
    BY <1>1 DEF Busy, LockInv
  <2>5. Reached(r) /\ r <= made
    BY <1>1, <2>1, <2>4 DEF ChainInv
  <2>6. next[r] = 0 \/ (Reached(next[r]) /\ next[r] <= made)
    BY <1>1, <2>5, ReachedNext
  <2>7. \A x : Reached(x)' <=> Reached(x)
    BY SameReach
  <2>8. Gone' = Gone
    BY SameGone
  <2>9. sent' \in {sent, r}
    BY <2>2 DEF Send
  <2>10. sent' <= made /\ (sent' < head' \/ Reached(sent)')
    <3>1. CASE sent' = sent
      BY <1>1, <2>4, <3>1 DEF ChainInv, Reached
    <3>2. CASE sent' = r
      BY <2>5, <3>2 DEF Reached
    <3> QED BY <2>9, <3>1, <3>2
  <2>11. ASSUME NEW d \in Call
         PROVE  /\ timer'[d].seg <= made
                /\ Busy(d)' => timer'[d].seg = 0 \/ Reached(timer[d].seg)'
    <3>1. CASE d = c
      <4>1. timer'[d].seg = next[r] /\ next[r] <= made
        BY <1>1, <2>3, <2>6, <3>1 DEF TypeInv
      <4> QED BY <2>6, <4>1 DEF Reached
    <3>2. CASE d # c
      BY <1>1, <2>3, <3>2 DEF ChainInv, Busy, Reached
    <3> QED BY <3>1, <3>2
  <2>12. head' = head /\ handler' = handler /\ unSent' = unSent
    OBVIOUS
  <2> QED BY <1>1, <2>4, <2>7, <2>8, <2>10, <2>11, <2>12 DEF ChainInv
<1>7. FirstInv'
  <2> SUFFICES ASSUME call = 1 PROVE fault' = "none" /\ ListInv' /\ Running'
    BY TimerRuns DEF FirstInv
  <2>1. c = 1 /\ Running /\ ListInv /\ timer[1].at = "send" /\ Listed = made
    BY TimerRuns
  <2>2. PICK r \in 0..Total : r = timer[1].seg
    BY <1>1, <2>1 DEF TypeInv
  <2>3. /\ Taken \in Nat /\ Unlinked \in Nat /\ Taken <= made /\ made \in 0..Total
        /\ FreedNum \in {Unlinked, Unlinked - 1}
    BY <1>1, <2>1, Numbers
  <2>4. r \in (Unlinked + 1)..Taken
    BY <2>1, <2>2 DEF Running
  <2>5. r \in 1..Total /\ r \notin freed
    BY <1>1, <2>1, <2>3, <2>4 DEF ListInv
  <2>6. /\ fault' = "none" /\ Send(r, lost)
        /\ timer' = [timer EXCEPT ![1].at = "resend", ![1].seg = next[r]]
    BY <2>1, <2>2, <2>5 DEF Deref, Valid
  <2>7. sent = Taken /\ accepted <= sent /\ sent \in Nat /\ accepted \in Nat
    BY <1>1, <2>1 DEF TypeInv, Running
  <2>8. sent' = sent /\ accepted' <= sent
    BY <2>4, <2>6, <2>7, <2>3 DEF Send
  <2>9. Taken' = Taken /\ FreedNum' = FreedNum /\ Unlinked' = Unlinked /\ Listed' = Listed
    BY DEF Taken, FreedNum, Unlinked, Listed
  <2>10. /\ timer'[1].at = "resend" /\ timer'[1].seg = next[r]
         /\ \A d \in Call : d # 1 => timer'[d] = timer[d]
    BY <1>1, <2>1, <2>6 DEF TypeInv
  <2>11. next[r] = IF r < made THEN r + 1 ELSE 0
    BY <1>1, <2>1, <2>4, <2>5, <2>3 DEF ListInv
  <2>12. next[r] \in (Unlinked + 1)..Taken \cup {unSent}
    <3>1. CASE r < Taken
      BY <2>3, <2>4, <2>11, <3>1
    <3>2. CASE r = Taken
      <4>1. /\ unSent # 0 => Taken = unSent - 1 /\ unSent \in 1..made
            /\ unSent = 0 => Taken = made
        BY <1>1, <2>1, Numbers
      <4> QED BY <2>3, <2>11, <3>2, <4>1
    <3> QED BY <2>3, <2>4, <3>1, <3>2
  <2>13. ListInv'
    BY <2>1, <2>9 DEF ListInv
  <2> QED BY <2>1, <2>6, <2>7, <2>8, <2>9, <2>10, <2>12, <2>13 DEF Running
<1> QED BY <1>2, <1>3, <1>4, <1>5, <1>6, <1>7 DEF IInv

LEMMA TimerTransmitInv ==
  ASSUME IInv, NEW c \in Call, NEW lost \in BOOLEAN, TimerTransmit(c, lost) PROVE IInv'
<1> USE DEF TimerTransmit, TimerAt, listVars, mainVars, netVars
<1>1. /\ TypeInv /\ CallerInv /\ AckInv /\ LockInv /\ ChainInv /\ FirstInv
      /\ call = 1 => ListInv
      /\ LastOf[call] \in 1..Total /\ Total \in Nat
      /\ GbnWindow \in Nat /\ UIntMod \in Nat /\ GbnWindow < UIntMod
  BY Sound
<1>2. TypeInv'
  <2>1. CASE ~Valid(unSent)
    BY <1>1, <2>1 DEF TypeInv, Deref
  <2>2. CASE Valid(unSent)
    <3>1. unSent \in 1..Total
      BY SMTT(30), <1>1, <2>2 DEF TypeInv, Valid
    <3>2. sent' \in 0..Total /\ accepted' \in 0..Total /\ acks' \in Seq(0..Total)
      BY <1>1, <2>2, <3>1, SendStep
    <3> QED BY <1>1, <3>2 DEF TypeInv, Deref
  <2> QED BY <2>1, <2>2
<1>3. CallerInv'
  BY <1>1 DEF TypeInv, CallerInv, Deref, Valid, Send, MayTransmit
<1>4. AckInv'
  <2>1. CASE ~Valid(unSent)
    BY <1>1, <2>1 DEF AckInv
  <2>2. CASE Valid(unSent)
    <3>1. unSent \in 1..Total
      BY SMTT(30), <1>1, <2>2 DEF TypeInv, Valid
    <3>2. Send(unSent, lost) /\ UNCHANGED <<freed, head, handler>>
      BY <2>2
    <3> QED BY <1>1, <3>1, <3>2, SendAcks
  <2> QED BY <2>1, <2>2
<1>5. LockInv'
  <2>1. \A d \in Call : Busy(d)' <=> Busy(d)
    BY <1>1 DEF TypeInv, Busy
  <2> QED BY <1>1, <2>1 DEF LockInv
<1>6. fault' = "none" => ChainInv'
  <2> SUFFICES ASSUME fault' = "none" PROVE ChainInv'
    OBVIOUS
  <2>1. PICK r \in 1..Total : r = unSent /\ Valid(r)
    BY <1>1 DEF TypeInv, Deref, Valid
  <2>2. Send(r, lost) /\ timer' = [timer EXCEPT ![c].at = "advance"]
    BY <2>1
  <2>3. Busy(c) /\ bufMutex = "timer" /\ head # 0 /\ handler.at \notin {"unlink", "drop"}
    BY <1>1 DEF Busy, LockInv
  <2>4. Reached(r) /\ r <= made
    BY <1>1, <2>1, <2>3 DEF ChainInv, Gone, Valid
  <2>5. \A x : Reached(x)' <=> Reached(x)
    BY SameReach
  <2>6. Gone' = Gone
    BY SameGone
  <2>7. sent' \in {sent, r}
    BY <2>2 DEF Send
  <2>8. \A d \in Call : timer'[d].seg = timer[d].seg /\ (Busy(d)' <=> Busy(d))
    <3>1. \A d \in Call : /\ timer'[d].seg = timer[d].seg
                           /\ timer'[d].at = IF d = c THEN "advance" ELSE timer[d].at
      BY <1>1, <2>2 DEF TypeInv
    <3> QED BY <2>3, <3>1 DEF Busy
  <2> QED BY <1>1, <2>3, <2>4, <2>5, <2>6, <2>7, <2>8 DEF ChainInv
<1>7. FirstInv'
  <2> SUFFICES ASSUME call = 1 PROVE fault' = "none" /\ ListInv' /\ Running'
    BY TimerRuns DEF FirstInv
  <2>1. c = 1 /\ Running /\ ListInv /\ timer[1].at = "new" /\ Listed = made
    BY TimerRuns
  <2>2. unAck < GbnWindow /\ unSent # 0
    BY DEF MayTransmit
  <2>3. /\ Taken = unSent - 1 /\ Taken \in Nat /\ FreedNum \in Int /\ Unlinked <= Taken
        /\ sent = Taken /\ accepted <= sent /\ accepted \in Nat /\ Unlinked \in Nat
        /\ FreedNum \in {Unlinked, Unlinked - 1}
    BY <1>1, <2>1, <2>2, Numbers
  <2>4. unSent \notin freed
    BY <1>1, <2>1, <2>3 DEF ListInv
  <2>5. fault' = "none" /\ Send(unSent, lost)
    BY <2>2, <2>4 DEF Deref, Valid
  <2>6. sent' = Taken + 1 /\ accepted' <= sent'
    <3>1. unSent = Taken + 1 /\ unSent \in Nat /\ unSent > sent
      BY <1>1, <2>1, <2>2, <2>3, Numbers
    <3> QED BY <2>3, <2>5, <3>1 DEF Send
  <2>7. Taken' = Taken /\ FreedNum' = FreedNum /\ Unlinked' = Unlinked /\ Listed' = Listed
    BY DEF Taken, FreedNum, Unlinked, Listed
  <2>8. timer'[1].at = "advance" /\ \A d \in Call : d # 1 => timer'[d] = timer[d]
    BY <1>1, <2>1 DEF TypeInv
  <2>9. ListInv'
    BY <2>1, <2>7 DEF ListInv
  <2> QED BY <2>1, <2>2, <2>5, <2>6, <2>7, <2>8, <2>9 DEF Running
<1> QED BY <1>2, <1>3, <1>4, <1>5, <1>6, <1>7 DEF IInv

LEMMA TimerAdvanceInv ==
  ASSUME IInv, NEW c \in Call, TimerAdvance(c) PROVE IInv'
<1> USE DEF TimerAdvance, TimerAt, listVars, mainVars, netVars
<1>1. /\ TypeInv /\ CallerInv /\ AckInv /\ LockInv /\ ChainInv /\ FirstInv
      /\ call = 1 => ListInv
      /\ LastOf[call] \in 1..Total /\ Total \in Nat
      /\ GbnWindow \in Nat /\ UIntMod \in Nat /\ GbnWindow < UIntMod
  BY Sound
<1>2. TypeInv'
  <2>1. unAck' \in 0..(UIntMod - 1)
    <3>1. unAck \in Nat /\ UIntMod \in Nat \ {0} /\ unAck' = (unAck + 1) % UIntMod
      BY <1>1 DEF TypeInv
    <3> QED BY <3>1
  <2>2. unSent' \in 0..Total
    BY SMTT(30), <1>1 DEF TypeInv, Valid
  <2> QED BY <1>1, <2>1, <2>2 DEF TypeInv, Deref
<1>3. CallerInv'
  BY <1>1 DEF TypeInv, CallerInv, Deref, Valid
<1>4. AckInv'
  BY <1>1 DEF TypeInv, AckInv, LockInv, Deref, Valid
<1>5. LockInv'
  <2>1. \A d \in Call : Busy(d)' <=> Busy(d)
    BY <1>1 DEF TypeInv, Busy
  <2>2. Busy(c)
    BY DEF Busy
  <2> QED BY <1>1, <2>1, <2>2 DEF LockInv
<1>6. fault' = "none" => ChainInv'
  <2> SUFFICES ASSUME fault' = "none" PROVE ChainInv'
    OBVIOUS
  <2>1. PICK r \in 1..Total : r = unSent /\ Valid(r)
    BY <1>1 DEF TypeInv, Deref, Valid
  <2>2. unSent' = next[r]
    BY <2>1
  <2>3. Busy(c) /\ bufMutex = "timer" /\ head # 0 /\ handler.at \notin {"unlink", "drop"}
    BY <1>1 DEF Busy, LockInv
  <2>4. Reached(r) /\ r <= made
    BY <1>1, <2>1, <2>3 DEF ChainInv, Gone, Valid
  <2>5. next[r] = 0 \/ (Reached(next[r]) /\ next[r] <= made)
    BY <1>1, <2>4, ReachedNext
  <2>6. \A x : Reached(x)' <=> Reached(x)
    BY SameReach
  <2>7. Gone' = Gone
    BY SameGone
  <2>8. \A d \in Call : timer'[d].seg = timer[d].seg /\ (Busy(d)' <=> Busy(d))
    BY <1>1 DEF TypeInv, Busy
  <2>9. unSent' <= made /\ (unSent' = 0 \/ Reached(unSent)')
    <3>1. next[r] \in 0..Total /\ made \in 0..Total
      BY <1>1 DEF TypeInv
    <3> QED BY <2>2, <2>5, <3>1 DEF Reached
  <2>10. head' = head /\ handler' = handler /\ sent' = sent
    OBVIOUS
  <2> QED BY <1>1, <2>3, <2>6, <2>7, <2>8, <2>9, <2>10 DEF ChainInv
<1>7. FirstInv'
  <2> SUFFICES ASSUME call = 1 PROVE fault' = "none" /\ ListInv' /\ Running'
    BY TimerRuns DEF FirstInv
  <2>1. /\ c = 1 /\ Running /\ ListInv /\ timer[1].at = "advance" /\ Listed = made
        /\ handler.at # "drop"
    BY <1>1, TimerRuns DEF LockInv, Busy
  <2>2. /\ unSent # 0 /\ sent = Taken + 1 /\ unAck = Taken - Unlinked /\ unAck < GbnWindow
        /\ FreedNum = Unlinked
    BY <1>1, <2>1, Numbers DEF Running
  <2>3. /\ Taken = unSent - 1 /\ unSent <= made /\ Unlinked <= Taken /\ Unlinked \in Nat
        /\ unSent \in Nat /\ made \in Nat /\ unSent \in 1..Total
    BY <1>1, <2>1, <2>2, Numbers
  <2>4. unSent \notin freed
    BY <1>1, <2>1, <2>2, <2>3 DEF ListInv
  <2>5. fault' = "none" /\ unSent' = next[unSent]
    BY <2>2, <2>4 DEF Deref, Valid
  <2>6. next[unSent] = IF unSent < made THEN unSent + 1 ELSE 0
    BY <1>1, <2>1, <2>3 DEF ListInv
  <2>7. /\ Taken' = unSent /\ FreedNum' = FreedNum /\ made' = made
        /\ Unlinked' = Unlinked /\ Listed' = Listed
    BY <2>3, <2>5, <2>6 DEF Taken, FreedNum, Unlinked, Listed
  <2>8. unAck' = unAck + 1
    <3>1. unAck \in Nat /\ unAck + 1 < UIntMod
      BY <1>1, <2>2 DEF TypeInv
    <3> QED BY <1>1, <3>1
  <2>9. timer'[1].at = "new" /\ \A d \in Call : d # 1 => timer'[d] = timer[d]
    BY <1>1, <2>1 DEF TypeInv
  <2>10. unAck' = Taken' - FreedNum' /\ unAck' <= GbnWindow /\ Unlinked' <= Taken'
         /\ sent' = Taken'
    BY <1>1, <2>2, <2>3, <2>7, <2>8
  <2>11. ListInv'
    BY <2>1, <2>7 DEF ListInv
  <2> QED BY <2>1, <2>5, <2>7, <2>9, <2>10, <2>11 DEF Running
<1> QED BY <1>2, <1>3, <1>4, <1>5, <1>6, <1>7 DEF IInv

LEMMA TimerUnlockInv ==
  ASSUME IInv, NEW c \in Call, TimerUnlock(c) PROVE IInv'
<1> USE DEF TimerUnlock, TimerAt, listVars, mainVars, netVars
<1>1. /\ TypeInv /\ CallerInv /\ AckInv /\ LockInv /\ ChainInv /\ FirstInv
      /\ call = 1 => ListInv
      /\ LastOf[call] \in 1..Total /\ Total \in Nat
      /\ GbnWindow \in Nat /\ UIntMod \in Nat /\ GbnWindow < UIntMod
  BY Sound
<1>2. TypeInv'
  BY <1>1 DEF TypeInv, CallerInv, MayTransmit
<1>3. CallerInv'
  BY <1>1 DEF TypeInv, CallerInv, MayTransmit
<1>4. AckInv'
  BY <1>1 DEF TypeInv, AckInv, LockInv, MayTransmit
<1>5. LockInv'
  <2>1. \A d \in Call : timer'[d].at = IF d = c THEN "sleep" ELSE timer[d].at
    BY <1>1 DEF TypeInv
  <2>2. \A d \in Call : ~Busy(d)'
    BY <1>1, <2>1 DEF Busy, LockInv
  <2>3. Busy(c)
    BY DEF Busy
  <2> QED BY <1>1, <2>2, <2>3 DEF LockInv
<1>6. ChainInv'
  <2>1. \A x : Reached(x)' <=> Reached(x)
    BY SameReach
  <2>2. Gone' = Gone
    BY SameGone
  <2>3. \A d \in Call : timer'[d].seg = timer[d].seg /\ (Busy(d)' => Busy(d))
    BY <1>1 DEF TypeInv, Busy
  <2> QED BY <1>1, <2>1, <2>2, <2>3 DEF ChainInv
<1>7. FirstInv'
  <2> SUFFICES ASSUME call = 1 PROVE fault' = "none" /\ ListInv' /\ Running'
    BY TimerRuns DEF FirstInv
  <2>1. c = 1 /\ Running /\ ListInv /\ timer[1].at = "new"
    BY TimerRuns
  <2>2. Taken' = Taken /\ FreedNum' = FreedNum /\ Unlinked' = Unlinked /\ Listed' = Listed
    BY DEF Taken, FreedNum, Unlinked, Listed
  <2>3. timer'[1].at = "sleep" /\ \A d \in Call : d # 1 => timer'[d] = timer[d]
    BY <1>1, <2>1 DEF TypeInv
  <2>4. ListInv'
    BY <2>1, <2>2 DEF ListInv
  <2> QED BY <2>1, <2>2, <2>3, <2>4 DEF Running
<1> QED BY <1>2, <1>3, <1>4, <1>5, <1>6, <1>7 DEF IInv

LEMMA HandlerRecvInv ==
  ASSUME IInv, HandlerRecv PROVE IInv'
<1> USE DEF HandlerRecv, HandlerAt, listVars, mainVars, netVars
<1>1. /\ TypeInv /\ CallerInv /\ AckInv /\ LockInv /\ ChainInv /\ FirstInv
      /\ LastOf[call] \in 1..Total /\ Total \in Nat
      /\ GbnWindow \in Nat /\ UIntMod \in Nat /\ GbnWindow < UIntMod
  BY Sound
<1> DEFINE n == Len(acks)
<1>2. /\ acks \in Seq(0..Total) /\ n \in Nat /\ n > 0
      /\ Head(acks) = acks[1] /\ acks[1] \in 0..Total
      /\ Tail(acks) \in Seq(0..Total) /\ Len(Tail(acks)) = n - 1
      /\ \A k \in 1..(n - 1) : Tail(acks)[k] = acks[k + 1]
  <2>1. acks \in Seq(0..Total) /\ acks # <<>>
    BY <1>1 DEF TypeInv
  <2> QED BY <2>1, HeadTail
<1>3. TypeInv'
  <2>1. handler' = [handler EXCEPT !.at = "lock", !.ack = acks[1]] /\ acks[1] \in 0..Total
    BY <1>2
  <2>2. handler' \in [at : {"idle", "lock", "free", "load", "unlink", "drop", "reset"},
                      ack : 0..Total, seg : 0..Total, next : 0..Total]
    BY <1>1, <2>1 DEF TypeInv
  <2> QED BY <1>1, <1>2, <2>2 DEF TypeInv
<1>4. CallerInv'
  BY <1>1 DEF TypeInv, CallerInv
<1>5. AckInv'
  <2>1. handler'.ack = acks[1] /\ handler'.at = "lock" /\ acks[1] <= accepted
    BY <1>1, <1>2 DEF AckInv
  <2>2. ASSUME NEW k \in 1..Len(acks') PROVE acks'[k] <= accepted
    BY <1>1, <1>2 DEF AckInv
  <2> QED BY <1>1, <2>1, <2>2 DEF AckInv
<1>6. LockInv'
  BY <1>1 DEF TypeInv, LockInv, Busy
<1>7. ChainInv'
  <2>1. \A x : Reached(x)' <=> Reached(x)
    BY SameReach
  <2>2. handler'.at = "lock" /\ handler'.next = handler.next /\ Gone' = Gone
    BY <1>1 DEF TypeInv, Gone
  <2> QED BY <1>1, <2>1, <2>2 DEF ChainInv, TypeInv, Busy
<1>8. FirstInv'
  <2> SUFFICES ASSUME call = 1 PROVE fault' = "none" /\ ListInv' /\ Running'
    BY HandlerRuns DEF FirstInv
  <2>1. mainPc \in {"poll", "done"} /\ Running /\ ListInv
    BY <1>2, HandlerRuns
  <2>2. handler'.at = "lock"
    BY <1>1 DEF TypeInv
  <2>3. Taken' = Taken /\ FreedNum' = FreedNum /\ Unlinked' = Unlinked /\ Listed' = Listed
    BY <2>2 DEF Taken, FreedNum, Unlinked, Listed
  <2> QED BY <2>1, <2>2, <2>3 DEF Running, ListInv
<1> QED BY <1>3, <1>4, <1>5, <1>6, <1>7, <1>8 DEF IInv

LEMMA AckLostInv ==
  ASSUME IInv, AckLost PROVE IInv'
<1> USE DEF AckLost, HandlerAt, listVars, mainVars, netVars
<1>1. /\ TypeInv /\ CallerInv /\ AckInv /\ LockInv /\ ChainInv /\ FirstInv
      /\ call = 1 => ListInv
      /\ LastOf[call] \in 1..Total /\ Total \in Nat
      /\ GbnWindow \in Nat /\ UIntMod \in Nat /\ GbnWindow < UIntMod
  BY Sound
<1>2. TypeInv'
  BY <1>1 DEF TypeInv, CallerInv
<1>3. CallerInv'
  BY <1>1 DEF TypeInv, CallerInv
<1>4. AckInv'
  BY <1>1 DEF TypeInv, AckInv, LockInv
<1>5. LockInv'
  BY <1>1 DEF TypeInv, CallerInv, AckInv, LockInv, Busy
<1>6. ChainInv'
  <2>1. \A x : Reached(x)' <=> Reached(x)
    BY SameReach
  <2>2. Gone' = Gone
    BY SameGone
  <2> QED BY <1>1, <2>1, <2>2 DEF ChainInv, TypeInv, CallerInv, Busy
<1>7. FirstInv'
  BY <1>1 DEF TypeInv, CallerInv, AckInv, LockInv, Busy, ChainInv, ListInv, FirstInv, Alone, Running,
              Taken, Listed, Unlinked, FreedNum
<1> QED BY <1>2, <1>3, <1>4, <1>5, <1>6, <1>7 DEF IInv

LEMMA HandlerLockInv ==
  ASSUME IInv, HandlerLock PROVE IInv'
<1> USE DEF HandlerLock, HandlerAt, listVars, mainVars, netVars
<1>1. /\ TypeInv /\ CallerInv /\ AckInv /\ LockInv /\ ChainInv /\ FirstInv
      /\ call = 1 => ListInv
      /\ LastOf[call] \in 1..Total /\ Total \in Nat
      /\ GbnWindow \in Nat /\ UIntMod \in Nat /\ GbnWindow < UIntMod
  BY Sound
<1>2. TypeInv'
  BY <1>1 DEF TypeInv, CallerInv
<1>3. CallerInv'
  BY <1>1 DEF TypeInv, CallerInv
<1>4. AckInv'
  BY <1>1 DEF TypeInv, AckInv, LockInv
<1>5. LockInv'
  BY <1>1 DEF TypeInv, CallerInv, AckInv, LockInv, Busy
<1>6. ChainInv'
  <2>1. \A x : Reached(x)' <=> Reached(x)
    BY SameReach
  <2>2. /\ handler'.at \in {"free"} /\ handler'.next = handler.next
        /\ Gone' = Gone
    BY <1>1 DEF TypeInv, Gone
  <2> QED BY <1>1, <2>1, <2>2 DEF ChainInv, TypeInv, Busy
<1>7. FirstInv'
  BY <1>1 DEF TypeInv, CallerInv, AckInv, LockInv, Busy, ChainInv, ListInv, FirstInv, Alone, Running,
              Taken, Listed, Unlinked, FreedNum
<1> QED BY <1>2, <1>3, <1>4, <1>5, <1>6, <1>7 DEF IInv

LEMMA HandlerTestInv ==
  ASSUME IInv, HandlerTest PROVE IInv'
<1> USE DEF HandlerTest, HandlerAt, listVars, mainVars, netVars
<1>1. /\ TypeInv /\ CallerInv /\ AckInv /\ LockInv /\ ChainInv /\ FirstInv
      /\ call = 1 => ListInv
      /\ LastOf[call] \in 1..Total /\ Total \in Nat
      /\ GbnWindow \in Nat /\ UIntMod \in Nat /\ GbnWindow < UIntMod
  BY Sound
<1>2. TypeInv'
  BY <1>1 DEF TypeInv, CallerInv, Deref, Covered
<1>3. CallerInv'
  BY <1>1 DEF TypeInv, CallerInv, Deref, Covered
<1>4. AckInv'
  BY <1>1 DEF TypeInv, AckInv, LockInv, Deref, Covered
<1>5. LockInv'
  BY <1>1 DEF TypeInv, CallerInv, AckInv, LockInv, Busy, Deref, Covered
<1>6. ChainInv'
  <2>1. \A x : Reached(x)' <=> Reached(x)
    BY SameReach
  <2>2. /\ handler'.at \in {"load", "reset", "idle"} /\ handler'.next = handler.next
        /\ Gone' = Gone
    BY <1>1 DEF TypeInv, Gone
  <2> QED BY <1>1, <2>1, <2>2 DEF ChainInv, TypeInv, Busy
<1>7. FirstInv'
  <2> SUFFICES ASSUME call = 1 PROVE fault' = "none" /\ ListInv' /\ Running'
    BY HandlerRuns DEF FirstInv
  <2>1. mainPc \in {"poll", "done"} /\ Running /\ ListInv /\ Listed = made
    BY HandlerRuns
  <2>2. fault' = "none"
    BY <1>1, <2>1, Numbers DEF Deref, ListInv, TypeInv
  <2>3. /\ handler'.at \in {"load", "reset", "idle"} /\ (handler'.at = "reset" => head = 0)
        /\ handler'.next = handler.next
    BY <1>1 DEF TypeInv
  <2>4. Taken' = Taken /\ FreedNum' = FreedNum /\ Unlinked' = Unlinked /\ Listed' = Listed
    BY <2>3 DEF Taken, FreedNum, Unlinked, Listed
  <2> QED BY <2>1, <2>2, <2>3, <2>4 DEF Running, ListInv
<1> QED BY <1>2, <1>3, <1>4, <1>5, <1>6, <1>7 DEF IInv

LEMMA HandlerLoadInv ==
  ASSUME IInv, HandlerLoad PROVE IInv'
<1> USE DEF HandlerLoad, HandlerAt, listVars, mainVars, netVars
<1>1. /\ TypeInv /\ CallerInv /\ AckInv /\ LockInv /\ ChainInv /\ FirstInv
      /\ call = 1 => ListInv
      /\ LastOf[call] \in 1..Total /\ Total \in Nat
      /\ GbnWindow \in Nat /\ UIntMod \in Nat /\ GbnWindow < UIntMod
  BY Sound
<1>2. TypeInv'
  <2>1. head \in 1..Total
    BY <1>1 DEF AckInv, TypeInv
  <2>2. next[head] \in 0..Total
    BY <1>1, <2>1 DEF TypeInv
  <2>3. handler' \in [at : {"idle", "lock", "free", "load", "unlink", "drop", "reset"},
                      ack : 0..Total, seg : 0..Total, next : 0..Total]
    BY <1>1, <2>1, <2>2 DEF TypeInv
  <2> QED BY <1>1, <2>3 DEF TypeInv, Deref
<1>3. CallerInv'
  BY <1>1 DEF TypeInv, CallerInv, Deref
<1>4. AckInv'
  BY <1>1 DEF TypeInv, AckInv, LockInv, Deref
<1>5. LockInv'
  BY <1>1 DEF TypeInv, CallerInv, AckInv, LockInv, Busy, Deref
<1>6. ChainInv'
  <2>1. \A x : Reached(x)' <=> Reached(x)
    BY SameReach
  <2>2. /\ handler'.at = "unlink" /\ handler'.next = next[head] /\ Gone' = Gone
        /\ handler.at = "load"
    BY <1>1 DEF TypeInv, Gone
  <2>3. head \in 1..Total /\ \A d \in Call : ~Busy(d)
    <3>1. head \in 1..Total
      BY <1>1 DEF AckInv, TypeInv
    <3>2. bufMutex = "handler"
      BY <1>1 DEF LockInv
    <3> QED BY <1>1, <3>1, <3>2 DEF LockInv
  <2>4. /\ next[head] = 0 \/ (next[head] = head + 1 /\ head < made)
        /\ next[head] <= made
    <3>1. next[head] = 0 \/ (next[head] = head + 1 /\ head < made)
      BY <1>1, <2>3 DEF ChainInv
    <3>2. made \in Nat
      BY <1>1 DEF TypeInv
    <3> QED BY <2>3, <3>1, <3>2
  <2>5. ASSUME next[head] = 0, NEW x \in 0..Total, Reached(x) PROVE x = head
    <3>1. CASE x = head
      BY <3>1
    <3>2. CASE x # head
      <4>1. head \in head..(x - 1)
        BY <2>3, <2>5, <3>2 DEF Reached
      <4>2. next[head] = head + 1
        BY <2>5, <4>1 DEF Reached
      <4> QED BY <2>3, <2>5, <4>2
    <3> QED BY <3>1, <3>2
  <2>6. sent \in 0..Total /\ unSent \in 0..Total
    BY <1>1 DEF TypeInv
  <2>7. next[head] = 0 => sent <= head /\ (unSent \in {0, head} \/ unSent \in Gone)
    BY <1>1, <2>3, <2>5, <2>6 DEF ChainInv
  <2>8. \A d \in Call : ~Busy(d)'
    BY <2>3 DEF Busy
  <2> QED BY <1>1, <2>1, <2>2, <2>4, <2>7, <2>8 DEF ChainInv
<1>7. FirstInv'
  <2> SUFFICES ASSUME call = 1 PROVE fault' = "none" /\ ListInv' /\ Running'
    BY HandlerRuns DEF FirstInv
  <2>1. mainPc \in {"poll", "done"} /\ Running /\ ListInv /\ Listed = made
    BY HandlerRuns
  <2>2. handler'.at = "unlink" /\ handler'.next = next[head]
    BY <1>1 DEF TypeInv
  <2>3. Taken' = Taken /\ FreedNum' = FreedNum /\ Unlinked' = Unlinked /\ Listed' = Listed
    BY <2>2 DEF Taken, FreedNum, Unlinked, Listed
  <2>4. head # 0 /\ head \notin freed
    BY <1>1, <2>1, Numbers DEF ListInv, AckInv
  <2> QED BY <2>1, <2>2, <2>3, <2>4 DEF Running, ListInv, Deref
<1> QED BY <1>2, <1>3, <1>4, <1>5, <1>6, <1>7 DEF IInv

LEMMA HandlerUnlinkInv ==
  ASSUME IInv, HandlerUnlink PROVE IInv'
<1> USE DEF HandlerUnlink, HandlerAt, listVars, mainVars, netVars
<1>1. /\ TypeInv /\ CallerInv /\ AckInv /\ LockInv /\ ChainInv /\ FirstInv
      /\ call = 1 => ListInv
      /\ LastOf[call] \in 1..Total /\ Total \in Nat
      /\ GbnWindow \in Nat /\ UIntMod \in Nat /\ GbnWindow < UIntMod
  BY Sound
<1>2. TypeInv'
  BY <1>1 DEF TypeInv, CallerInv
<1>3. CallerInv'
  BY <1>1 DEF TypeInv, CallerInv
<1>4. AckInv'
  BY <1>1 DEF TypeInv, AckInv, LockInv
<1>5. LockInv'
  BY <1>1 DEF TypeInv, CallerInv, AckInv, LockInv, Busy
<1>6. ChainInv'
  <2>1. /\ handler'.at = "drop" /\ handler'.next = handler.next /\ handler'.seg = head
        /\ head' = handler.next /\ head \in 1..Total /\ Gone' = Gone \cup {head}
    BY <1>1 DEF TypeInv, AckInv, Gone
  <2>2. \A d \in Call : ~Busy(d) /\ ~Busy(d)'
    BY <1>1 DEF LockInv, Busy
  <2>3. sent \in Nat /\ accepted \in Nat /\ unSent \in 0..Total
    BY <1>1 DEF TypeInv
  <2>4. CASE handler.next = 0
    <3>1. sent <= head /\ head <= handler.ack /\ handler.ack <= accepted
      BY <1>1, <2>4 DEF ChainInv, AckInv
    <3>2. sent <= accepted
      BY <1>1, <2>3, <3>1 DEF TypeInv
    <3>3. unSent = 0 \/ unSent \in Gone'
      BY <1>1, <2>1, <2>4 DEF ChainInv
    <3>4. mainPc = "setUnSent" => made \in Gone'
      BY <1>1, <2>1 DEF ChainInv
    <3> QED BY <1>1, <2>1, <2>2, <2>4, <3>2, <3>3, <3>4 DEF ChainInv, TypeInv
  <2>5. CASE handler.next # 0
    <3>1. head' = head + 1 /\ next[head] = head + 1 /\ head < made
      BY <1>1, <2>1, <2>5 DEF ChainInv, TypeInv
    <3>2. ASSUME NEW x \in 0..Total, Reached(x), x # head PROVE Reached(x)'
      <4>1. head + 1 <= x /\ \A r \in (head + 1)..(x - 1) : next[r] = r + 1
        BY <2>1, <3>2 DEF Reached
      <4> QED BY <2>1, <3>1, <4>1 DEF Reached
    <3>3. sent < head' \/ Reached(sent)'
      <4>1. CASE sent <= head
        BY <2>1, <2>3, <3>1, <4>1
      <4>2. CASE ~(sent <= head)
        <5>1. Reached(sent) /\ sent # head /\ sent \in 0..Total
          BY <1>1, <2>1, <2>3, <4>2 DEF ChainInv, TypeInv
        <5> QED BY <3>2, <5>1
      <4> QED BY <4>1, <4>2
    <3>4. unSent = 0 \/ unSent \in Gone' \/ Reached(unSent)'
      BY <1>1, <2>1, <2>3, <3>2 DEF ChainInv
    <3>5. mainPc # "setUnSent"
      BY <1>1, <2>1, <3>1 DEF ChainInv, TypeInv
    <3>6. head' <= made
      BY <1>1, <2>1, <3>1 DEF TypeInv
    <3> QED BY <1>1, <2>1, <2>2, <2>5, <3>1, <3>3, <3>4, <3>5, <3>6 DEF ChainInv, TypeInv
  <2> QED BY <2>4, <2>5
<1>7. FirstInv'
  <2> SUFFICES ASSUME call = 1 PROVE fault' = "none" /\ ListInv' /\ Running'
    BY HandlerRuns DEF FirstInv
  <2>1. mainPc \in {"poll", "done"} /\ Running /\ ListInv /\ Listed = made
    BY HandlerRuns
  <2>2. /\ handler'.at = "drop" /\ handler'.seg = head /\ head' = next[head]
        /\ made \in Nat
    BY <1>1, <2>1 DEF TypeInv, AckInv, Running
  <2>3. head \in 1..Total /\ head <= made /\ Unlinked = head - 1 /\ FreedNum = Unlinked
    BY <1>1, <2>1, Numbers DEF AckInv
  <2>4. next[head] = IF head < made THEN head + 1 ELSE 0
    BY <2>1, <2>3 DEF ListInv
  <2>5. Listed' = Listed /\ Unlinked' = head /\ FreedNum' = FreedNum /\ Taken' = Taken
    BY <2>1, <2>2, <2>3, <2>4 DEF Listed, Unlinked, FreedNum, Taken
  <2>6. timer[1].at \notin {"resend", "send", "advance"}
    BY <1>1, Calls DEF LockInv, Busy
  <2>7. head <= Taken
    <3>1. /\ head <= handler.ack /\ handler.ack <= accepted
          /\ accepted <= sent /\ sent = Taken
      BY <1>1, <2>1, <2>6 DEF AckInv, Running
    <3>2. handler.ack \in Nat /\ accepted \in Nat /\ sent \in Nat
      BY <1>1 DEF TypeInv
    <3> QED BY <2>3, <3>1, <3>2
  <2>8. ListInv'
    BY <2>1, <2>2, <2>3, <2>4, <2>5 DEF ListInv
  <2> QED BY <2>1, <2>2, <2>5, <2>6, <2>7, <2>8 DEF Running
<1> QED BY <1>2, <1>3, <1>4, <1>5, <1>6, <1>7 DEF IInv

LEMMA HandlerFreeInv ==
  ASSUME IInv, HandlerFree PROVE IInv'
<1> USE DEF HandlerFree, HandlerAt, listVars, mainVars, netVars
<1>1. /\ TypeInv /\ CallerInv /\ AckInv /\ LockInv /\ ChainInv /\ FirstInv
      /\ call = 1 => ListInv
      /\ LastOf[call] \in 1..Total /\ Total \in Nat
      /\ GbnWindow \in Nat /\ UIntMod \in Nat /\ GbnWindow < UIntMod
  BY Sound
<1>2. TypeInv'
  <2>1. handler.seg \in 1..Total
    BY <1>1 DEF AckInv, TypeInv
  <2>2. unAck' \in 0..(UIntMod - 1)
    <3>1. unAck \in Nat /\ UIntMod \in Nat \ {0} /\ unAck' = (unAck + UIntMod - 1) % UIntMod
      BY <1>1 DEF TypeInv, CountDown
    <3> QED BY <3>1
  <2> QED BY <1>1, <2>1, <2>2 DEF TypeInv
<1>3. CallerInv'
  BY <1>1 DEF TypeInv, CallerInv, CountDown
<1>4. AckInv'
  <2>1. handler.seg <= accepted
    BY <1>1 DEF AckInv, TypeInv
  <2> QED BY <1>1, <2>1 DEF TypeInv, AckInv
<1>5. LockInv'
  BY <1>1 DEF TypeInv, CallerInv, AckInv, LockInv, Busy, CountDown
<1>6. ChainInv'
  <2>1. \A x : Reached(x)' <=> Reached(x)
    BY SameReach
  <2>2. handler'.at = "free" /\ handler'.next = handler.next /\ Gone' = Gone
    BY <1>1 DEF TypeInv, Gone
  <2> QED BY <1>1, <2>1, <2>2 DEF ChainInv, TypeInv, Busy
<1>7. FirstInv'
  <2> SUFFICES ASSUME call = 1 PROVE fault' = "none" /\ ListInv' /\ Running'
    BY HandlerRuns DEF FirstInv
  <2>1. mainPc \in {"poll", "done"} /\ Running /\ ListInv /\ Listed = made
    BY HandlerRuns
  <2>2. handler'.at = "free"
    BY <1>1 DEF TypeInv
  <2>3. Unlinked \in Nat /\ Unlinked <= Taken /\ Taken \in Nat /\ FreedNum = Unlinked - 1
    BY <1>1, <2>1, Numbers
  <2>4. /\ Listed' = Listed /\ Unlinked' = Unlinked /\ Taken' = Taken /\ FreedNum' = Unlinked
    BY <2>2 DEF Listed, Unlinked, FreedNum, Taken
  <2>5. handler.seg = Unlinked /\ handler.seg # 0
    BY <1>1, <2>1 DEF Running, AckInv
  <2>6. unAck = Taken - (Unlinked - 1) /\ unAck <= GbnWindow
    BY <2>1, <2>3 DEF Running
  <2>7. unAck' = unAck - 1
    <3>1. unAck \in Nat /\ unAck < UIntMod
      BY <1>1 DEF TypeInv
    <3>2. unAck > 0
      BY <2>3, <2>6
    <3> QED BY <1>1, <3>1, <3>2 DEF CountDown
  <2>8. ListInv'
    <3>1. freed' = (1..(Unlinked - 1)) \cup {Unlinked}
      BY <2>1, <2>3, <2>5 DEF ListInv
    <3>2. Unlinked > 0
      BY <2>3, <2>5
    <3>3. freed' = 1..Unlinked
      BY <2>3, <3>1, <3>2
    <3> QED BY <2>1, <2>4, <3>3 DEF ListInv
  <2>9. timer[1].at \notin {"resend", "send", "advance"}
    BY <1>1, Calls DEF LockInv, Busy
  <2>10. unAck' = Taken' - FreedNum' /\ unAck' <= GbnWindow
    BY <1>1, <2>3, <2>4, <2>6, <2>7
  <2> QED BY <2>1, <2>2, <2>4, <2>8, <2>9, <2>10 DEF Running
<1> QED BY <1>2, <1>3, <1>4, <1>5, <1>6, <1>7 DEF IInv

LEMMA HandlerResetInv ==
  ASSUME IInv, HandlerReset PROVE IInv'
<1> USE DEF HandlerReset, HandlerAt, listVars, mainVars, netVars
<1>1. /\ TypeInv /\ CallerInv /\ AckInv /\ LockInv /\ ChainInv /\ FirstInv
      /\ call = 1 => ListInv
      /\ LastOf[call] \in 1..Total /\ Total \in Nat
      /\ GbnWindow \in Nat /\ UIntMod \in Nat /\ GbnWindow < UIntMod
  BY Sound
<1>2. TypeInv'
  <2>1. 0 \in 0..(UIntMod - 1) /\ 0 \in 0..Total
    BY <1>1
  <2>2. unAck' \in 0..(UIntMod - 1) /\ tail' \in 0..Total /\ unSent' \in 0..Total
    BY <2>1 DEF ResetCount
  <2>3. handler' \in [at : {"idle", "lock", "free", "load", "unlink", "drop", "reset"},
                       ack : 0..Total, seg : 0..Total, next : 0..Total]
    BY <1>1 DEF TypeInv
  <2> QED BY <1>1, <2>2, <2>3 DEF TypeInv
<1>3. CallerInv'
  BY <1>1 DEF TypeInv, CallerInv, ResetCount
<1>4. AckInv'
  BY <1>1 DEF TypeInv, AckInv, LockInv, ResetCount
<1>5. LockInv'
  BY <1>1 DEF TypeInv, CallerInv, AckInv, LockInv, Busy, ResetCount
<1>6. ChainInv'
  <2>1. \A x : Reached(x)' <=> Reached(x)
    BY SameReach
  <2>2. handler'.at = "idle" /\ handler'.next = handler.next /\ Gone' = Gone
    BY <1>1 DEF TypeInv, Gone
  <2>3. /\ unSent' = 0 /\ tail' = 0 /\ made' = made /\ 0 <= made /\ head' = head
        /\ sent' = sent /\ accepted' = accepted
    BY <1>1 DEF TypeInv
  <2>4. \A d \in Call : timer'[d] = timer[d] /\ (Busy(d)' => Busy(d))
    BY DEF Busy
  <2> QED BY <1>1, <2>1, <2>2, <2>3, <2>4 DEF ChainInv
<1>7. FirstInv'
  <2> SUFFICES ASSUME call = 1 PROVE fault' = "none" /\ ListInv' /\ Running'
    BY HandlerRuns DEF FirstInv
  <2>1. mainPc \in {"poll", "done"} /\ Running /\ ListInv /\ Listed = made /\ head = 0
    BY HandlerRuns DEF Running
  <2>2. Unlinked = made /\ FreedNum = made /\ Taken = made /\ made \in Nat
    BY <1>1, <2>1, Numbers DEF Unlinked
  <2>3. /\ Taken' = made /\ Unlinked' = made /\ Listed' = Listed
        /\ FreedNum' = made /\ unAck' = 0 /\ unSent' = 0
    BY <1>1, <2>1 DEF FreedNum, Unlinked, Taken, Listed, ResetCount, TypeInv
  <2>4. timer[1].at \notin {"resend", "send", "advance"}
    BY <1>1, Calls DEF LockInv, Busy
  <2>5. handler'.at = "idle"
    BY <1>1 DEF TypeInv
  <2>6. ListInv'
    BY <2>1, <2>2, <2>3 DEF ListInv
  <2> QED BY <1>1, <2>1, <2>2, <2>3, <2>4, <2>5, <2>6 DEF Running
<1> QED BY <1>2, <1>3, <1>4, <1>5, <1>6, <1>7 DEF IInv

LEMMA NextInv == IInv /\ [Next]_vars => IInv'
<1> SUFFICES ASSUME IInv, [Next]_vars PROVE IInv'
  OBVIOUS
<1>1. CASE UNCHANGED vars
  BY <1>1 DEF vars, mainVars, listVars, netVars, IInv, TypeInv, CallerInv, AckInv, LockInv,
              Busy, ChainInv, Reached, Gone, FirstInv, ListInv, Listed, Unlinked, FreedNum, Alone,
              Running, Taken
<1>2. CASE Main
  BY <1>2, AppendTestInv, SetHeadInv, SetUnSentInv, LinkInv, SetTailInv, StartTimerInv,
     PollReturnsInv DEF Main
<1>3. ASSUME NEW c \in Call, Timer(c) PROVE IInv'
  BY <1>3, TimerLockInv, TimerResendInv, TimerTestInv, TimerTransmitInv,
     TimerAdvanceInv, TimerUnlockInv DEF Timer
<1>4. CASE Handler
  BY <1>4, HandlerRecvInv, AckLostInv, HandlerLockInv, HandlerLoadInv, HandlerUnlinkInv, HandlerFreeInv, HandlerTestInv,
     HandlerResetInv DEF Handler
<1> QED BY <1>1, <1>2, <1>3, <1>4 DEF Next, Stopped

THEOREM Inductive == Spec => []IInv
<1> QED BY InitInv, NextInv, PTL DEF Spec

-----------------------------------------------------------------------------
(* The assertion of sendBuf_timer holds in every call, whatever the races  *)
(* of the append: a thread that holds bufMutex leaves the counter at 0 if  *)
(* it leaves the buffer empty.                                             *)
THEOREM AssertionHolds == Spec => []TimerAssertion
<1>1. IInv => TimerAssertion
  BY DEF IInv, TypeInv, TimerAssertion
<1> QED BY <1>1, Inductive, PTL

(* No segment is freed before the server has stored it.                    *)
THEOREM FreedAreStored == Spec => []FreedOnlyAccepted
<1>1. IInv => FreedOnlyAccepted
  BY Calls DEF IInv, TypeInv, AckInv, FreedOnlyAccepted
<1> QED BY <1>1, Inductive, PTL

(* When a call returns, every segment that was ever sent is stored; when   *)
(* the first call returns, so are all its segments.                        *)
THEOREM ReturnIsDelivery == Spec => ReturnMeansAccepted
<1>1. IInv /\ [Next]_vars =>
        [PollReturns => sent <= accepted /\ (call = 1 => LastOf[1] <= sent)]_vars
  <2> SUFFICES ASSUME IInv, PollReturns
               PROVE  sent <= accepted /\ (call = 1 => LastOf[1] <= sent)
    OBVIOUS
  <2>1. fault = "none" /\ mainPc = "poll" /\ head = 0 /\ bufMutex = "none"
    BY DEF PollReturns, MainAt, BufEmpty
  <2>2. /\ TypeInv /\ CallerInv /\ AckInv /\ LockInv /\ ChainInv /\ FirstInv
        /\ call = 1 => ListInv
        /\ LastOf[call] \in 1..Total /\ Total \in Nat
    BY <2>1, Sound
  <2>3. sent <= accepted
    BY <2>1, <2>2 DEF ChainInv
  <2>4. ASSUME call = 1 PROVE LastOf[1] <= sent
    <3>1. Running /\ ListInv /\ Listed = made /\ made = LastOf[1]
      BY <2>1, <2>2, <2>4 DEF FirstInv, Listed, CallerInv
    <3>2. Unlinked = made
      BY <2>1, <3>1 DEF Unlinked
    <3>3. Unlinked <= Taken /\ Taken = sent
      <4>1. timer[1].at # "advance"
        BY <2>1, <2>2, Calls DEF LockInv, Busy
      <4> QED BY <3>1, <4>1 DEF Running
    <3> QED BY <3>1, <3>2, <3>3
  <2> QED BY <2>3, <2>4
<1> QED BY <1>1, Inductive, PTL DEF Spec, ReturnMeansAccepted

(* In the first call every pointer is good, and between the critical       *)
(* sections the counter is exact and the window kept: what GoBackN rests   *)
(* on when it takes a critical section for one step.                       *)
THEOREM FirstCallIsExact == Spec => []FirstCallExact
<1>1. IInv => FirstCallExact
  <2> SUFFICES ASSUME IInv, call = 1
               PROVE  ListIntact /\ CounterExact /\ WindowBound
    BY DEF FirstCallExact
  <2>1. fault = "none"
    BY DEF IInv, FirstInv
  <2>2. /\ TypeInv /\ LockInv /\ ListInv /\ FirstInv /\ AckInv /\ ChainInv
        /\ Total \in Nat /\ GbnWindow \in Nat
    BY <2>1, Sound
  <2>3. ListIntact
    BY <2>1 DEF ListIntact
  <2>4. CASE mainPc \in {"poll", "done"}
    <3>1. Running /\ Listed = made
      BY <2>2, <2>4 DEF FirstInv, Listed
    <3>2. FreedNum \in Nat /\ Taken \in Nat
      <4>1. /\ Unlinked \in Nat /\ Taken \in Nat /\ Unlinked <= Taken
            /\ handler.at # "drop" => FreedNum = Unlinked
            /\ handler.at = "drop" => FreedNum = Unlinked - 1
        BY <2>2, <3>1, Numbers
      <4>2. handler.at = "drop" => Unlinked # 0
        BY <2>2, <3>1 DEF Running, AckInv
      <4> QED BY <4>1, <4>2
    <3>3. Cardinality(freed) = FreedNum
      <4>1. freed = 1..FreedNum
        BY <2>2 DEF ListInv
      <4>2. 1 \in Int /\ FreedNum \in Int
        BY <3>2
      <4>3. Cardinality(1..FreedNum) = IF 1 > FreedNum THEN 0 ELSE FreedNum - 1 + 1
        BY <4>2, FS_Interval
      <4>4. Cardinality(1..FreedNum) = FreedNum
        BY <3>2, <4>3
      <4> QED BY <4>1, <4>4
    <3>4. bufMutex = "none" => timer[1].at # "advance"
      BY <2>2, Calls DEF LockInv, Busy
    <3>5. CounterExact
      BY <3>1, <3>2, <3>3, <3>4 DEF CounterExact, Running
    <3>6. WindowBound
      <4>1. /\ unAck = Taken - FreedNum /\ unAck <= GbnWindow
            /\ sent = Taken \/ (sent = Taken + 1 /\ unAck < GbnWindow)
        BY <3>1 DEF Running
      <4>2. sent - FreedNum <= GbnWindow
        BY <2>2, <3>2, <4>1
      <4> QED BY <3>3, <4>2 DEF WindowBound
    <3> QED BY <2>3, <3>5, <3>6
  <2>5. CASE mainPc \notin {"poll", "done"}
    <3>1. Alone
      BY <2>2, <2>5 DEF FirstInv
    <3> QED BY <2>2, <2>3, <3>1, FS_EmptySet DEF Alone, CounterExact, WindowBound
  <2> QED BY <2>4, <2>5
<1> QED BY <1>1, Inductive, PTL

=============================================================================
