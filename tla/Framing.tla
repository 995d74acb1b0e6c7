------------------------------ MODULE Framing -------------------------------
(***************************************************************************)
(* Segments and packets on a byte stream.  sip_sendseg (lab5, lab6) and    *)
(* the four senders of lab7's pkt.c put "!&" in front of a struct and "!#" *)
(* behind it, with three calls of send(); the receivers search for the     *)
(* delimiters one byte at a time with a machine of four states.  Nothing   *)
(* is escaped.                                                             *)
(*                                                                         *)
(* All receivers of lab6 and lab7 are the same machine; that of lab5 lacks *)
(* the two special cases of SEGSTOP1 and has a buffer shorter by one byte. *)
(* Only lab7 looks at the result of recv(): at the end of the connection   *)
(* it returns what it has.  (The others would read the last byte for ever; *)
(* their connections stay open here.)  Several threads may send on one     *)
(* connection (lab7: every listen_to_neighbor forwards to the one SIP      *)
(* process), and their calls of send() interleave; one call is not split.  *)
(***************************************************************************)
EXTENDS Naturals, Sequences, SequencesExt

CONSTANTS
  Labs,       \* whose receivers, a subset of 5..7
  Writers,    \* the threads that send on the connection
  FrameNum,   \* frames each of them sends
  HeaderLen,  \* leading bytes of a struct that may hold any byte
  DataLen     \* bytes after them, in which no delimiter occurs

ASSUME FramingConstants ==
  /\ Labs \subseteq 5..7 /\ FrameNum \in Nat \ {0}
  /\ HeaderLen \in Nat /\ DataLen \in Nat

Byte == {"!", "&", "#", "x"}
BodyLen == HeaderLen + DataLen
Begin == <<"!", "&">>
End == <<"!", "#">>

(* seg.c:77 and pkt.c: the delimiters do not occur in the data. *)
Clean(data) == \A k \in 1..(Len(data) - 1) : SubSeq(data, k, k + 1) \notin {Begin, End}

Bodies == {b \in [1..BodyLen -> Byte] : Clean(SubSeq(b, HeaderLen + 1, BodyLen))}

VARIABLES
  lab,      \* the lab at hand
  plan,     \* what each writer sends, in order
  sentNum,  \* frames each writer has completed
  writerPc, \* its next call of send()
  open,     \* does the sending process live?
  stream,   \* bytes under way
  state,    \* the state of the receiving machine, or "EXIT" or "END"
  buf,      \* buf[0..cnt-1] of the receiver
  got       \* the structs it has returned to its caller

writerVars == <<lab, plan, sentNum, writerPc, open>>
readerVars == <<state, buf, got>>
vars == <<writerVars, stream, readerVars>>

Init ==
  /\ lab \in Labs /\ open = TRUE
  /\ plan \in [Writers -> [1..FrameNum -> Bodies]]
  /\ sentNum = [w \in Writers |-> 0] /\ writerPc = [w \in Writers |-> "begin"]
  /\ stream = <<>> /\ state = "SEGSTART1" /\ buf = <<>> /\ got = <<>>

-----------------------------------------------------------------------------
(* The three calls of send(). *)
SendCall(w, at, to, bytes) ==
  /\ open /\ writerPc[w] = at /\ sentNum[w] < FrameNum
  /\ writerPc' = [writerPc EXCEPT ![w] = to]
  /\ stream' = stream \o bytes
  /\ UNCHANGED <<lab, plan, open, readerVars>>

SendBegin(w) == SendCall(w, "begin", "body", Begin) /\ UNCHANGED sentNum
SendBody(w) == SendCall(w, "body", "end", plan[w][sentNum[w] + 1]) /\ UNCHANGED sentNum
SendEnd(w) == /\ SendCall(w, "end", "begin", End)
              /\ sentNum' = [sentNum EXCEPT ![w] = @ + 1]

(* SIP or SON is stopped by a signal, at any moment. *)
Close ==
  /\ open /\ lab = 7
  /\ open' = FALSE
  /\ UNCHANGED <<lab, plan, sentNum, writerPc, stream, readerVars>>

-----------------------------------------------------------------------------
(* recv() of one byte in a given state. *)
Reads(s) == state = s /\ stream # <<>> /\ stream' = Tail(stream) /\ UNCHANGED writerVars
Next1 == Head(stream)

Start1 ==
  /\ Reads("SEGSTART1")
  /\ state' = IF Next1 = "!" THEN "SEGSTART2" ELSE state
  /\ UNCHANGED <<buf, got>>

Start2 ==
  /\ Reads("SEGSTART2")
  /\ state' = IF Next1 = "&" THEN "SEGRECV" ELSE state
  /\ UNCHANGED <<buf, got>>

Recv ==
  /\ Reads("SEGRECV")
  /\ buf' = Append(buf, Next1)
  /\ state' = IF Next1 = "!" THEN "SEGSTOP1" ELSE state
  /\ UNCHANGED got

(* '#' after '!': the '!' is taken back and the struct returned.  The next *)
(* call starts over.                                                       *)
Kept_All(b) == b                                        \* mutant
Kept(b) == SubSeq(b, 1, Len(b) - 1)

Stop1Done ==
  /\ Reads("SEGSTOP1") /\ Next1 = "#"
  /\ got' = Append(got, Kept(buf))
  /\ buf' = <<>> /\ state' = "SEGSTART1"

(* '&' after '!' is an error in lab6 and lab7: exit(-1). *)
IsFatal(b) == lab # 5 /\ b = "&"

Stop1Fatal ==
  /\ Reads("SEGSTOP1") /\ IsFatal(Next1)
  /\ state' = "EXIT"
  /\ UNCHANGED <<buf, got>>

(* Any other byte is data after all; lab5 does not see that a second '!'   *)
(* may begin the end mark.                                                 *)
AfterBang_Recv(b) == "SEGRECV"                          \* mutant
AfterBang(b) == IF lab # 5 /\ b = "!" THEN "SEGSTOP1" ELSE "SEGRECV"

Stop1Data ==
  /\ Reads("SEGSTOP1") /\ Next1 # "#" /\ ~IsFatal(Next1)
  /\ buf' = Append(buf, Next1)
  /\ state' = AfterBang(Next1)
  /\ UNCHANGED got

(* recv() returns 0 in lab7: the loop ends as if a struct were complete,   *)
(* and what there is of it is returned.  The next call finds nothing.      *)
AtEnd == IF buf = <<>> THEN got ELSE Append(got, buf)

Eof ==
  /\ ~open /\ stream = <<>> /\ state \notin {"EXIT", "END"}
  /\ got' = AtEnd /\ buf' = <<>> /\ state' = "END"
  /\ UNCHANGED <<writerVars, stream>>

Writer(w) == SendBegin(w) \/ SendBody(w) \/ SendEnd(w)
Reader == Start1 \/ Start2 \/ Recv \/ Stop1Done \/ Stop1Fatal \/ Stop1Data \/ Eof

Next == (\E w \in Writers : Writer(w)) \/ Close \/ Reader

Fairness == WF_vars(Reader) /\ \A w \in Writers : WF_vars(Writer(w))
Spec == Init /\ [][Next]_vars
FairSpec == Spec /\ Fairness
-----------------------------------------------------------------------------
(* malloc(sizeof(seg_t) + 1), and malloc(sizeof(seg_t)) in lab5. *)
BufLen == IF lab = 5 THEN BodyLen ELSE BodyLen + 1

(* The structs in g are the ones that were sent: each is a whole frame of  *)
(* some writer, and the frames of one writer come in order, none left out  *)
(* and none twice.                                                         *)
Whole(g) ==
  \E from \in [1..Len(g) -> Writers], nth \in [1..Len(g) -> 1..FrameNum] :
    \A k \in 1..Len(g) :
      /\ g[k] = plan[from[k]][nth[k]]
      /\ \A i \in 1..(k - 1) : from[i] = from[k] => nth[i] < nth[k]
      /\ nth[k] = 1 \/ \E i \in 1..(k - 1) : from[i] = from[k] /\ nth[i] = nth[k] - 1

(* The receiver returns the structs as they were sent, and its process     *)
(* does not end by exit(-1).                                               *)
FramesIntact == state # "EXIT" /\ Whole(got)

(* No delimiter occurs in any struct, its header included; and for lab5    *)
(* none ends in the first byte of a delimiter.                             *)
PlanClean ==
  \A w \in Writers : \A k \in 1..FrameNum :
    Clean(plan[w][k]) /\ (lab = 5 => Last(plan[w][k]) # "!")

(* What the code can promise: if no delimiter occurs inside a struct, every *)
(* struct arrives whole, even one that ends in an exclamation mark, or that *)
(* has the second half of a delimiter at its start; only the last one of a  *)
(* connection that ended may be cut short.  And no byte is written behind   *)
(* the end of the receiver's buffer, though it stores the first byte of the *)
(* end mark too, for which lab5 has no room: its buffer is one byte short.  *)
CleanIntact ==
  PlanClean => /\ FramesIntact \/ (state = "END" /\ Whole(Front(got)))
               /\ Len(buf) <= BufLen + IF lab = 5 THEN 1 ELSE 0

(* Then every struct that is sent is returned by the receiver, unless the   *)
(* connection ends.                                                         *)
AllReceived ==
  PlanClean => <>(Len(got) = FrameNum * Cardinality(Writers) \/ ~open)
=============================================================================
