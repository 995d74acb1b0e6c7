--------------------------- MODULE ReliableStream ---------------------------
(***************************************************************************)
(* What STCP promises for one call of stcp_client_send: a byte stream.     *)
(* The sender hands over Length bytes, known by their offsets 1..Length in *)
(* the caller's buffer.  They reach the server's receive buffer in order   *)
(* and exactly once, the application reads them from its front, and send   *)
(* returns only after the last of them has arrived.  No segments, windows, *)
(* timers or losses are visible here.                                      *)
(***************************************************************************)
EXTENDS Naturals, Sequences

CONSTANT Length             \* bytes handed to stcp_client_send, a natural number

VARIABLES inbox,            \* arrived, not yet read by the application
          read,             \* what the application has read, in order
          status            \* of the call: "sending" or "returned"

vars == <<inbox, read, status>>

Arrived == Len(read) + Len(inbox)

\* The n bytes of the stream that follow the first k.
NextBytes(k, n) == [b \in 1..n |-> k + b]

Init == inbox = <<>> /\ read = <<>> /\ status = "sending"

(* The next n bytes of the stream arrive. *)
Accept == \E n \in 1..(Length - Arrived) :
            /\ inbox' = inbox \o NextBytes(Arrived, n)
            /\ UNCHANGED <<read, status>>

(* The application reads n bytes from the front of what has arrived. *)
Read == \E n \in 1..Len(inbox) :
          /\ read' = read \o SubSeq(inbox, 1, n)
          /\ inbox' = SubSeq(inbox, n + 1, Len(inbox))
          /\ UNCHANGED status

(* The call returns once nothing is left to arrive. *)
Return == /\ status = "sending" /\ Arrived = Length
          /\ status' = "returned"
          /\ UNCHANGED <<inbox, read>>

Next == Accept \/ Read \/ Return

Spec == Init /\ [][Next]_vars /\ WF_vars(Accept) /\ WF_vars(Return)
=============================================================================
