----------------------------- MODULE SendBuffer -----------------------------
(***************************************************************************)
(* The linked list that is the client's send buffer, pointer by pointer,   *)
(* over several calls of stcp_client_send on one connection.               *)
(*                                                                         *)
(* sendBuf_timer and the DATAACK handler work on the list under bufMutex,  *)
(* and so does the poll at the end of stcp_client_send; but the loop that  *)
(* appends the segments of a call does not take the mutex.  From the       *)
(* second call on it runs beside the timer thread of the call before,      *)
(* which ends only a round later, and beside acks of resent segments.      *)
(* Here every store of the append is a step, and so is whatever another    *)
(* thread does between two of its accesses to memory the append uses too.  *)
(* Accesses that only holders of the mutex make (to unAck_segNum) are part *)
(* of the step before them.                                                *)
(*                                                                         *)
(* Segments are numbered in the order of their creation, and an ack n      *)
(* covers segments 1..n; a pointer is a number, 0 for NULL.  The server    *)
(* only answers, in order, so the delay of a segment is made part of that  *)
(* of its ack.  A use of NULL or of freed memory is undefined: the model   *)
(* records it in "fault" and stops there.  malloc never returns the        *)
(* address of a freed segment.                                             *)
(***************************************************************************)
EXTENDS Naturals, Sequences, FiniteSets

CONSTANTS
  LastOf,     \* the number of the last segment of each call, a sequence
  GbnWindow,  \* GBN_WINDOW
  UIntMod,    \* unAck_segNum is an unsigned int: it wraps at UIntMod
  AckCap      \* bound: DATAACKs under way; one more counts as lost

ASSUME SendBufferConstants ==
  /\ LastOf \in Seq(Nat \ {0}) /\ LastOf # <<>>
  /\ \A c, d \in 1..Len(LastOf) : c < d => LastOf[c] < LastOf[d]
  /\ GbnWindow \in Nat \ {0} /\ UIntMod \in Nat /\ UIntMod > GbnWindow
  /\ AckCap \in Nat \ {0}

Call == 1..Len(LastOf)

VARIABLES
  mainPc, call,         \* the caller: its next step, its current call
  made,                 \* segments created so far
  next, freed,          \* the next pointers; the segments that were freed
  head, unSent, tail,   \* sendBufHead, sendBufunSent, sendBufTail
  unAck,                \* unAck_segNum
  bufMutex,             \* who holds it: "none", "handler" or "timer"
  timer,                \* the timer thread of each call: step and seg_p
  handler,              \* the DATAACK handler: step, ack_num, segbuf_p and
                        \* the next pointer it has loaded
  acks,                 \* DATAACKs under way, oldest first
  accepted, sent,       \* segments the server has stored; ever transmitted
  fault                 \* "none", "null", "freed" or "assert"

listVars == <<next, freed, head, unSent, tail, unAck>>
mainVars == <<mainPc, call, made>>
netVars == <<acks, accepted, sent>>
vars == <<mainVars, listVars, bufMutex, timer, handler, netVars, fault>>

Total == LastOf[Len(LastOf)]

Init ==
  /\ mainPc = "test" /\ call = 1 /\ made = 0
  /\ next = [s \in 1..Total |-> 0] /\ freed = {}
  /\ head = 0 /\ unSent = 0 /\ tail = 0 /\ unAck = 0
  /\ bufMutex = "none" /\ timer = [c \in Call |-> [at |-> "none", seg |-> 0]]
  /\ handler = [at |-> "idle", ack |-> 0, seg |-> 0, next |-> 0]
  /\ acks = <<>> /\ accepted = 0 /\ sent = 0 /\ fault = "none"

(* The outcome of a step that dereferences p. *)
Deref(p) == fault' = IF p = 0 THEN "null"
                     ELSE IF p \in freed THEN "freed" ELSE "none"
Valid(p) == p # 0 /\ p \notin freed

-----------------------------------------------------------------------------
(* The caller.  A new segment is built, and sendBufHead is tested. *)
MainAt(pc) == fault = "none" /\ mainPc = pc

AppendTest ==
  /\ MainAt("test")
  /\ made' = made + 1
  /\ mainPc' = IF head = 0 THEN "setHead" ELSE "link"
  /\ UNCHANGED <<call, listVars, bufMutex, timer, handler, netVars, fault>>

(* The three stores of an append to an empty buffer. *)
SetHead ==
  /\ MainAt("setHead")
  /\ head' = made /\ mainPc' = "setUnSent"
  /\ UNCHANGED <<call, made, next, freed, unSent, tail, unAck, bufMutex, timer,
                 handler, netVars, fault>>

SetUnSent ==
  /\ MainAt("setUnSent")
  /\ unSent' = made /\ mainPc' = "setTail"
  /\ UNCHANGED <<call, made, next, freed, head, tail, unAck, bufMutex, timer,
                 handler, netVars, fault>>

(* sendBufTail->next = new_seg. *)
Link ==
  /\ MainAt("link")
  /\ Deref(tail)
  /\ next' = IF Valid(tail) THEN [next EXCEPT ![tail] = made] ELSE next
  /\ mainPc' = "setTail"
  /\ UNCHANGED <<call, made, freed, head, unSent, tail, unAck, bufMutex, timer,
                 handler, netVars>>

(* sendBufTail = new_seg ends both branches and the iteration. *)
SetTail ==
  /\ MainAt("setTail")
  /\ tail' = made
  /\ mainPc' = IF made < LastOf[call] THEN "test" ELSE "start"
  /\ UNCHANGED <<call, made, next, freed, head, unSent, unAck, bufMutex, timer,
                 handler, netVars, fault>>

(* pthread_create(sendBuf_timer), whether or not an old timer still runs. *)
StartTimer ==
  /\ MainAt("start")
  /\ timer' = [timer EXCEPT ![call].at = "sleep"]
  /\ mainPc' = "poll"
  /\ UNCHANGED <<call, made, listVars, bufMutex, handler, netVars, fault>>

BufEmpty_AllSent == unSent = 0                          \* mutant
BufEmpty == head = 0

(* A poll that finds the buffer empty: send returns; the next call begins. *)
PollReturns ==
  /\ MainAt("poll") /\ bufMutex = "none" /\ BufEmpty
  /\ mainPc' = IF call < Len(LastOf) THEN "test" ELSE "done"
  /\ call' = IF call < Len(LastOf) THEN call + 1 ELSE call
  /\ UNCHANGED <<made, listVars, bufMutex, timer, handler, netVars, fault>>

-----------------------------------------------------------------------------
(* The timer threads. *)
TimerAt(c, at) == fault = "none" /\ timer[c].at = at

(* sip_sendseg: the segment is lost on its way, or stored if it is the     *)
(* expected one, and answered; beyond the bound the answer is lost.        *)
Send(s, lost) ==
  /\ sent' = IF s > sent THEN s ELSE sent
  /\ IF lost THEN UNCHANGED <<accepted, acks>>
     ELSE /\ accepted' = IF s = accepted + 1 THEN s ELSE accepted
          /\ acks' = IF Len(acks) < AckCap THEN Append(acks, accepted') ELSE acks

(* A round begins.  An empty buffer ends the thread, after the assertion;  *)
(* otherwise seg_p is the head.                                            *)
TimerLock(c) ==
  /\ TimerAt(c, "sleep") /\ bufMutex = "none"
  /\ IF head = 0
     THEN /\ timer' = [timer EXCEPT ![c].at = "exited"]
          /\ fault' = IF unAck = 0 THEN "none" ELSE "assert"
          /\ UNCHANGED bufMutex
     ELSE /\ timer' = [timer EXCEPT ![c] = [at |-> "resend", seg |-> head]]
          /\ bufMutex' = "timer"
          /\ UNCHANGED fault
  /\ UNCHANGED <<mainVars, listVars, handler, netVars>>

(* while(seg_p != sendBufunSent): the test, ... *)
TimerTest(c) ==
  /\ TimerAt(c, "resend")
  /\ timer' = [timer EXCEPT ![c].at = IF timer[c].seg # unSent THEN "send" ELSE "new"]
  /\ UNCHANGED <<mainVars, listVars, bufMutex, handler, netVars, fault>>

(* ... and the body, which sends seg_p again. *)
TimerResend(c, lost) ==
  /\ TimerAt(c, "send")
  /\ Deref(timer[c].seg)
  /\ IF Valid(timer[c].seg)
     THEN /\ Send(timer[c].seg, lost)
          /\ timer' = [timer EXCEPT ![c].at = "resend", ![c].seg = next[@]]
     ELSE UNCHANGED <<netVars, timer>>
  /\ UNCHANGED <<mainVars, listVars, bufMutex, handler>>

(* The loop that sends new segments: its test and its call, ... *)
MayTransmit_NoWindow == unSent # 0                      \* mutant
MayTransmit == unAck < GbnWindow /\ unSent # 0

TimerTransmit(c, lost) ==
  /\ TimerAt(c, "new") /\ MayTransmit
  /\ Deref(unSent)
  /\ IF Valid(unSent) THEN Send(unSent, lost) ELSE UNCHANGED netVars
  /\ timer' = [timer EXCEPT ![c].at = "advance"]
  /\ UNCHANGED <<mainVars, listVars, bufMutex, handler>>

(* ... then unAck_segNum++ and sendBufunSent = sendBufunSent->next. *)
TimerAdvance(c) ==
  /\ TimerAt(c, "advance")
  /\ Deref(unSent)
  /\ unAck' = (unAck + 1) % UIntMod
  /\ unSent' = IF Valid(unSent) THEN next[unSent] ELSE unSent
  /\ timer' = [timer EXCEPT ![c].at = "new"]
  /\ UNCHANGED <<mainVars, next, freed, head, tail, bufMutex, handler, netVars>>

TimerUnlock(c) ==
  /\ TimerAt(c, "new") /\ ~MayTransmit
  /\ timer' = [timer EXCEPT ![c].at = "sleep"]
  /\ bufMutex' = "none"
  /\ UNCHANGED <<mainVars, listVars, handler, netVars, fault>>

-----------------------------------------------------------------------------
(* The DATAACK handler. *)
HandlerAt(at) == fault = "none" /\ handler.at = at

HandlerRecv ==
  /\ HandlerAt("idle") /\ acks # <<>>
  /\ handler' = [handler EXCEPT !.at = "lock", !.ack = Head(acks)]
  /\ acks' = Tail(acks)
  /\ UNCHANGED <<mainVars, listVars, bufMutex, timer, accepted, sent, fault>>

AckLost ==
  /\ HandlerAt("idle") /\ acks # <<>>
  /\ acks' = Tail(acks)
  /\ UNCHANGED <<mainVars, listVars, bufMutex, timer, handler, accepted, sent, fault>>

HandlerLock ==
  /\ HandlerAt("lock") /\ bufMutex = "none"
  /\ handler' = [handler EXCEPT !.at = "free"] /\ bufMutex' = "handler"
  /\ UNCHANGED <<mainVars, listVars, timer, netVars, fault>>

(* Is the head a sent segment that the ack covers? *)
Covered_Next == head # 0 /\ head # unSent /\ head <= handler.ack + 1  \* mutant
Covered == head # 0 /\ head # unSent /\ head <= handler.ack

CountDown == (unAck + UIntMod - 1) % UIntMod

(* The loop's test reads the head; after the loop an empty buffer is reset. *)
HandlerTest ==
  /\ HandlerAt("free")
  /\ handler' = [handler EXCEPT !.at = IF Covered THEN "load"
                                       ELSE IF head = 0 THEN "reset" ELSE "idle"]
  /\ bufMutex' = IF ~Covered /\ head # 0 THEN "none" ELSE "handler"
  /\ IF head # 0 /\ head # unSent THEN Deref(head) ELSE UNCHANGED fault
  /\ UNCHANGED <<mainVars, listVars, timer, netVars>>

(* segbuf_p = sendBufHead, and its next pointer is loaded ... *)
HandlerLoad ==
  /\ HandlerAt("load")
  /\ Deref(head)
  /\ handler' = [handler EXCEPT !.at = "unlink", !.seg = head, !.next = next[head]]
  /\ UNCHANGED <<mainVars, listVars, bufMutex, timer, netVars>>

(* ... and stored in sendBufHead: a Link in between is lost. *)
HandlerUnlink ==
  /\ HandlerAt("unlink")
  /\ head' = handler.next /\ handler' = [handler EXCEPT !.at = "drop"]
  /\ UNCHANGED <<mainVars, next, freed, unSent, tail, unAck, bufMutex, timer,
                 netVars, fault>>

(* free(segbuf_p), and unAck_segNum--. *)
HandlerFree ==
  /\ HandlerAt("drop")
  /\ freed' = freed \cup {handler.seg} /\ unAck' = CountDown
  /\ handler' = [handler EXCEPT !.at = "free"]
  /\ UNCHANGED <<mainVars, next, head, unSent, tail, bufMutex, timer, netVars, fault>>

(* The reset loses whatever main has stored in the meantime. *)
ResetCount_Keep == unAck                                \* mutant
ResetCount == 0

HandlerReset ==
  /\ HandlerAt("reset")
  /\ tail' = 0 /\ unSent' = 0 /\ unAck' = ResetCount
  /\ handler' = [handler EXCEPT !.at = "idle"] /\ bufMutex' = "none"
  /\ UNCHANGED <<mainVars, next, freed, head, timer, netVars, fault>>

-----------------------------------------------------------------------------
Main == AppendTest \/ SetHead \/ SetUnSent \/ Link \/ SetTail \/ StartTimer
          \/ PollReturns

Timer(c) == TimerLock(c) \/ TimerTest(c) \/ TimerAdvance(c) \/ TimerUnlock(c)
              \/ \E lost \in BOOLEAN : TimerResend(c, lost) \/ TimerTransmit(c, lost)

Handler == HandlerRecv \/ AckLost \/ HandlerLock \/ HandlerLoad
             \/ HandlerUnlink \/ HandlerFree \/ HandlerTest \/ HandlerReset

(* The process died, or every call has returned and the timers are gone. *)
Stopped ==
  /\ \/ fault # "none"
     \/ mainPc = "done" /\ acks = <<>> /\ handler.at = "idle"
          /\ \A c \in Call : timer[c].at = "exited"
  /\ UNCHANGED vars

Next == Main \/ (\E c \in Call : Timer(c)) \/ Handler \/ Stopped

Spec == Init /\ [][Next]_vars
-----------------------------------------------------------------------------
(* stcp_client.c:397, assert(tp->unAck_segNum == 0): whatever the races of  *)
(* the append do to the counter, it is 0 again when a timer finds the       *)
(* buffer empty.                                                            *)
TimerAssertion == fault # "assert"

(* The client never frees a segment the server has not stored, even when   *)
(* unSent is stale and the handler no longer stops in front of it.         *)
FreedOnlyAccepted == freed \subseteq 1..accepted

(* When stcp_client_send returns, the server has stored every segment that *)
(* any timer has ever sent; after the first call, that is every segment.   *)
(* A later call may return without having sent all of its own: a Link      *)
(* between HandlerLoad and HandlerUnlink cuts them off the list.           *)
ReturnMeansAccepted ==
  [][PollReturns => sent <= accepted /\ (call = 1 => LastOf[1] <= sent)]_vars

(* stcp_client.h:36: bufMutex is the mutex of the send buffer.  If it      *)
(* guarded the list, no thread would follow NULL or freed memory.          *)
ListIntact == fault \notin {"null", "freed"}

(* stcp_client.h:40: unAck_segNum is the number of segments sent and not   *)
(* yet acknowledged, whenever no thread is at work on the buffer.          *)
CounterExact == bufMutex = "none" => unAck = sent - Cardinality(freed)

(* constants.h:39-40: at most GBN_WINDOW segments are sent and not freed.     *)
WindowBound == sent - Cardinality(freed) <= GbnWindow

(* The first call races with nothing: while it lasts no bad pointer is     *)
(* followed, and between the critical sections the counter is exact and    *)
(* the window is kept.  So its critical sections may be taken as single    *)
(* steps, as module GoBackN does.                                          *)
FirstCallExact == call = 1 => ListIntact /\ CounterExact /\ WindowBound

=============================================================================
