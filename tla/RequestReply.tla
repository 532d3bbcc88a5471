----------------------------- MODULE RequestReply -----------------------------
(***************************************************************************)
(* What a connection promises its client, whatever packets the requests    *)
(* travel in: requests are handled one at a time, in the order they were   *)
(* sent and none twice, each is answered before the next is handled, and a *)
(* request is answered in the end unless the connection ends.  A request   *)
(* may have been handled when the connection ends before its answer.       *)
(***************************************************************************)
EXTENDS Naturals

CONSTANT Conn

VARIABLES
  sent,       (* the requests each client has sent completely               *)
  handled,    (* the serial number of the last request handled              *)
  answered,   (* the answers each client has been sent                      *)
  open        (* the connections that have not ended                        *)

vars == <<sent, handled, answered, open>>

Init ==
  /\ sent = [c \in Conn |-> 0]
  /\ handled = [c \in Conn |-> 0]
  /\ answered = [c \in Conn |-> 0]
  /\ open = Conn

Ask(c) ==
  /\ sent' = [sent EXCEPT ![c] = @ + 1]
  /\ UNCHANGED <<handled, answered, open>>

Handle(c) ==
  /\ c \in open
  /\ handled[c] = answered[c]
  /\ handled[c] < sent[c]
  /\ handled' = [handled EXCEPT ![c] = @ + 1]
  /\ UNCHANGED <<sent, answered, open>>

Answer(c) ==
  /\ c \in open
  /\ answered[c] < handled[c]
  /\ answered' = [answered EXCEPT ![c] = @ + 1]
  /\ UNCHANGED <<sent, handled, open>>

(* Connections end one by one, or several together.                         *)
End ==
  /\ \E gone \in SUBSET open : open' = open \ gone
  /\ UNCHANGED <<sent, handled, answered>>

Next == End \/ \E c \in Conn : Ask(c) \/ Handle(c) \/ Answer(c)

Fairness == \A c \in Conn : WF_vars(Handle(c)) /\ WF_vars(Answer(c))

Safety == Init /\ [][Next]_vars

Spec == Safety /\ Fairness
=============================================================================
