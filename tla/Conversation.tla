----------------------------- MODULE Conversation -----------------------------
(***************************************************************************)
(* What a server promises on a connection: it answers the requests of a    *)
(* client in the order in which they were sent, each at most once, until   *)
(* the conversation is over.                                               *)
(***************************************************************************)
EXTENDS Naturals, Sequences

CONSTANTS
  Clients,
  MaxRequests   \* bound: MaxRequests[c] is how many requests c sends

VARIABLES
  asked,   \* asked[c]: how many requests c has sent
  answers, \* answers[c]: the requests answered, in the order of the answers
  over     \* the conversations that have ended

vars == <<asked, answers, over>>

Init ==
  /\ asked = [c \in Clients |-> 0]
  /\ answers = [c \in Clients |-> <<>>]
  /\ over = {}

(* A client may go on sending after the end, but nobody listens.           *)
Ask(c) ==
  /\ asked[c] < MaxRequests[c]
  /\ asked' = [asked EXCEPT ![c] = @ + 1]
  /\ UNCHANGED <<answers, over>>

Answer(c) ==
  /\ c \notin over
  /\ Len(answers[c]) < asked[c]
  /\ answers' = [answers EXCEPT ![c] = Append(@, Len(@) + 1)]
  /\ UNCHANGED <<asked, over>>

(* Both sides may end it; the end of the server ends every conversation.   *)
End(C) ==
  /\ over' = over \cup C
  /\ UNCHANGED <<asked, answers>>

Next ==
  \/ \E c \in Clients : Ask(c) \/ Answer(c)
  \/ \E C \in SUBSET Clients : End(C)

Spec == Init /\ [][Next]_vars
=============================================================================
