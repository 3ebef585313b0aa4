---------------------------- MODULE Server_proofs ----------------------------
(***************************************************************************)
(* What the sessions of a server keep, for any number of connections, of   *)
(* requests and of sockets.  The inductive invariant says of a connection  *)
(* where the session stands in the stream of headers and bodies.           *)
(***************************************************************************)
EXTENDS Server, FiniteSetTheorems, TLAPS

Types ==
  /\ service \in {"running", "stopped", "destroyed"}
  /\ accepting \in BOOLEAN
  /\ link \in [Clients -> {"none", "backlog", "open", "closed"}]
  /\ pending \in [Clients -> SUBSET Operations]
  /\ cnx \in Nat
  /\ executed \in [Clients -> Nat] /\ writebuf \in [Clients -> Nat]
  /\ toServer \in [Clients -> Seq(Parts)]
  /\ toClient \in [Clients -> Seq(Nat \ {0})]
  /\ sent \in [Clients -> Nat]
  /\ received \in [Clients -> Seq(Nat \ {0})]
  /\ left \subseteq Clients

Counted == CountIsOpen /\ cnx <= MaxOpen

(* A session has one operation outstanding, until its connection closes.   *)
Lifetime(c) ==
  /\ pending[c] \in {{}, {"header"}, {"body"}, {"write"}}
  /\ link[c] = "open" <=> pending[c] # {}

(* Nothing happens before a connection, or before it is accepted.          *)
Fresh(c) ==
  /\ link[c] = "none" => sent[c] = 0 /\ toServer[c] = <<>>
  /\ link[c] \in {"none", "backlog"} =>
       executed[c] = 0 /\ received[c] = <<>> /\ toClient[c] = <<>>

Bounded(c) ==
  /\ executed[c] <= sent[c] /\ sent[c] <= MaxRequests[c]
  /\ writebuf[c] <= sent[c]

(* How many headers and bodies the session has taken off the stream.       *)
Position(c) == 2 * executed[c] + (IF "body" \in pending[c] THEN 1 ELSE 0)

(* s is the rest, from position p on, of a stream of n requests: headers   *)
(* at odd positions, bodies at even ones, each with its request's number.  *)
Rest(p, s, n) ==
  /\ p + Len(s) \in {2 * n, 2 * n + 1}
  /\ \A i \in 1..Len(s) :
       /\ s[i].part = "header" => p + i + 1 = 2 * s[i].request
       /\ s[i].part = "body" => p + i = 2 * s[i].request

Stream(c) == Rest(Position(c), toServer[c], sent[c])

Answers(c) == received[c] \o toClient[c]

(* The replies are the numbers 1, 2, 3...; one is missing during a write.  *)
Answered(c) ==
  /\ executed[c] - Len(Answers(c)) \in {0, 1}
  /\ pending[c] \in {{"header"}, {"body"}} => executed[c] = Len(Answers(c))
  /\ pending[c] = {"write"} => executed[c] = Len(Answers(c)) + 1 /\ writebuf[c] = executed[c]
  /\ \A i \in 1..Len(Answers(c)) : Answers(c)[i] = i

ClientInv(c) ==
  /\ Lifetime(c)
  /\ Fresh(c)
  /\ Bounded(c)
  /\ link[c] # "closed" => Stream(c)
  /\ Answered(c)

IInv == Types /\ Counted /\ \A c \in Clients : ClientInv(c)

-----------------------------------------------------------------------------
LEMMA OpenIsFinite == IsFiniteSet(Open) /\ Cardinality(Open) \in Nat
BY ClientsAssumption, FS_Subset, FS_CardinalityType DEF Open

(* The counter follows the sessions that start and end.                    *)
LEMMA SameCount ==
  ASSUME Counted, cnx' = cnx, Open' = Open
  PROVE  Counted'
BY DEF Counted, CountIsOpen

LEMMA CountedIn ==
  ASSUME Types, Counted, NEW c \in Clients, pending[c] = {},
         Cardinality(Open) < MaxOpen,
         cnx' = cnx + 1, pending' = [pending EXCEPT ![c] = {"header"}]
  PROVE  Counted'
<1>1. Open' = Open \cup {c} /\ c \notin Open
  BY DEF Types, Open
<1>2. Cardinality(Open') = Cardinality(Open) + 1
  BY <1>1, OpenIsFinite, FS_AddElement
<1> QED
  BY <1>2, OpenIsFinite, MaxOpenAssumption DEF Counted, CountIsOpen

LEMMA CountedOut ==
  ASSUME Types, Counted, NEW c \in Clients, pending[c] # {},
         cnx' = cnx - 1, pending' = [pending EXCEPT ![c] = {}]
  PROVE  Counted' /\ cnx' \in Nat
<1>1. Open' = Open \ {c} /\ c \in Open
  BY DEF Types, Open
<1>2. Cardinality(Open') = Cardinality(Open) - 1
  BY <1>1, OpenIsFinite, FS_RemoveElement
<1>3. Cardinality(Open') \in Nat
  BY <1>1, OpenIsFinite, FS_RemoveElement, FS_CardinalityType
<1> QED
  BY <1>2, <1>3, OpenIsFinite, MaxOpenAssumption DEF Counted, CountIsOpen

LEMMA CountedNone ==
  ASSUME cnx' = 0, pending' = [d \in Clients |-> {}]
  PROVE  Counted'
<1>1. Open' = {}
  BY DEF Open
<1> QED
  BY <1>1, FS_EmptySet, MaxOpenAssumption DEF Counted, CountIsOpen

(* The end of a handler, of the operation that was outstanding.            *)
LEMMA Continues ==
  ASSUME Types, Counted, NEW c \in Clients, Lifetime(c), NEW op \in pending[c],
         NEW next \in {{}, {"header"}, {"body"}, {"write"}},
         Continue(c, op, next)
  PROVE  /\ pending' = [pending EXCEPT ![c] = next]
         /\ Counted' /\ cnx' \in Nat
         /\ link' = IF next = {} THEN [link EXCEPT ![c] = "closed"] ELSE link
<1>1. (pending[c] \ {op}) \cup next = next /\ pending[c] # {}
  BY DEF Lifetime
<1>2. pending' = [pending EXCEPT ![c] = next]
  BY <1>1 DEF Continue
<1>3. CASE next = {}
  BY <1>1, <1>2, <1>3, CountedOut DEF Continue
<1>4. CASE next # {}
  <2>1. cnx' = cnx /\ link' = link
    BY <1>1, <1>4 DEF Continue
  <2>2. Open' = Open
    BY <1>1, <1>2, <1>4 DEF Open, Types
  <2> QED
    BY <1>2, <1>4, <2>1, <2>2, SameCount DEF Types
<1> QED
  BY <1>3, <1>4

(* What an action leaves alone keeps its invariant.                        *)
LEMMA Elsewhere ==
  ASSUME NEW d \in Clients, ClientInv(d),
         link'[d] = link[d], pending'[d] = pending[d], writebuf'[d] = writebuf[d],
         executed'[d] = executed[d], toServer'[d] = toServer[d],
         toClient'[d] = toClient[d], sent'[d] = sent[d], received'[d] = received[d]
  PROVE  ClientInv(d)'
<1>1. Position(d)' = Position(d) /\ Answers(d)' = Answers(d)
  BY DEF Position, Answers
<1>2. Lifetime(d)' /\ Fresh(d)' /\ Bounded(d)'
  BY DEF ClientInv, Lifetime, Fresh, Bounded
<1>3. (link[d] # "closed" => Stream(d))'
  BY <1>1 DEF ClientInv, Stream
<1>4. Answered(d)'
  BY <1>1 DEF ClientInv, Answered
<1> QED
  BY <1>2, <1>3, <1>4 DEF ClientInv

(* A session that ends keeps what it has answered.                         *)
LEMMA Closed ==
  ASSUME NEW d \in Clients, Types, ClientInv(d),
         link'[d] \in {"none", "closed"}, link[d] = "none" <=> link'[d] = "none",
         pending'[d] = {}, writebuf'[d] = writebuf[d], executed'[d] = executed[d],
         link'[d] = "none" => toServer'[d] = toServer[d],
         toClient'[d] = toClient[d], sent'[d] = sent[d], received'[d] = received[d]
  PROVE  ClientInv(d)'
<1>1. Answers(d)' = Answers(d)
  BY DEF Answers
<1>2. Lifetime(d)' /\ Fresh(d)' /\ Bounded(d)'
  BY DEF ClientInv, Lifetime, Fresh, Bounded
<1>3. (link[d] # "closed" => Stream(d))'
  <2> SUFFICES ASSUME link'[d] = "none"
               PROVE  Stream(d)'
    OBVIOUS
  <2>1. sent'[d] = 0 /\ toServer'[d] = <<>> /\ executed'[d] = 0
    BY DEF ClientInv, Fresh
  <2>2. Position(d)' = 0
    BY <2>1 DEF Position
  <2> QED
    BY <2>1, <2>2 DEF Stream, Rest
<1>4. Answered(d)'
  BY <1>1 DEF ClientInv, Answered
<1> QED
  BY <1>2, <1>3, <1>4 DEF ClientInv

(* What a step does to one connection is what it does to the invariant.    *)
LEMMA OnlyOne ==
  ASSUME IInv, NEW c \in Clients, Types', Counted', ClientInv(c)',
         \A d \in Clients \ {c} :
           /\ link'[d] = link[d] /\ pending'[d] = pending[d]
           /\ writebuf'[d] = writebuf[d] /\ executed'[d] = executed[d]
           /\ toServer'[d] = toServer[d] /\ toClient'[d] = toClient[d]
           /\ sent'[d] = sent[d] /\ received'[d] = received[d]
  PROVE  IInv'
<1>1. ASSUME NEW d \in Clients PROVE ClientInv(d)'
  <2>1. CASE d = c
    BY <2>1
  <2>2. CASE d # c
    BY <2>2, Elsewhere DEF IInv
  <2> QED
    BY <2>1, <2>2
<1> QED
  BY <1>1 DEF IInv

-----------------------------------------------------------------------------
(* A part that is sent goes to the end of the stream...                    *)
LEMMA RestGrows ==
  ASSUME NEW p \in Nat, NEW s \in Seq(Parts), NEW n \in Nat, NEW k \in Nat, Rest(p, s, n),
         NEW m \in Parts, m.request = n + 1,
         \/ m.part = "header" /\ k = n /\ p + Len(s) = 2 * n
         \/ m.part = "body" /\ k = n + 1 /\ p + Len(s) = 2 * n + 1
  PROVE  Rest(p, Append(s, m), k)
<1> DEFINE t == Append(s, m)
<1>1. Len(t) = Len(s) + 1 /\ Len(s) \in Nat
  OBVIOUS
<1>2. p + Len(t) \in {2 * k, 2 * k + 1}
  BY <1>1
<1>3. ASSUME NEW i \in 1..Len(t)
      PROVE  /\ t[i].part = "header" => p + i + 1 = 2 * t[i].request
             /\ t[i].part = "body" => p + i = 2 * t[i].request
  <2>1. CASE i = Len(s) + 1
    <3>1. t[i] = m
      BY <2>1
    <3> HIDE DEF t
    <3> QED
      BY <2>1, <3>1, <1>1
  <2>2. CASE i \in 1..Len(s)
    <3>1. t[i] = s[i]
      BY <2>2
    <3> QED
      BY <2>2, <3>1 DEF Rest
  <2> QED
    BY <1>1, <2>1, <2>2
<1> QED
  BY <1>2, <1>3 DEF Rest

(* ... and one that is read was the next of it.                            *)
LEMMA RestShrinks ==
  ASSUME NEW p \in Nat, NEW s \in Seq(Parts), NEW n \in Nat, Rest(p, s, n), s # <<>>
  PROVE  Rest(p + 1, Tail(s), n)
<1> DEFINE t == Tail(s)
<1>1. Len(t) = Len(s) - 1 /\ Len(s) \in Nat \ {0}
  OBVIOUS
<1>2. p + 1 + Len(t) = p + Len(s)
  BY <1>1
<1>3. ASSUME NEW i \in 1..Len(t)
      PROVE  /\ t[i].part = "header" => (p + 1) + i + 1 = 2 * t[i].request
             /\ t[i].part = "body" => (p + 1) + i = 2 * t[i].request
  <2>1. t[i] = s[i + 1] /\ i + 1 \in 1..Len(s)
    BY <1>1
  <2>2. /\ s[i + 1].part = "header" => p + (i + 1) + 1 = 2 * s[i + 1].request
        /\ s[i + 1].part = "body" => p + (i + 1) = 2 * s[i + 1].request
    BY <2>1 DEF Rest
  <2>3. (p + 1) + i + 1 = p + (i + 1) + 1 /\ (p + 1) + i = p + (i + 1)
    BY <1>1
  <2> HIDE DEF t
  <2> QED
    BY <2>1, <2>2, <2>3
<1> QED
  BY <1>2, <1>3 DEF Rest

LEMMA PositionType ==
  ASSUME Types, NEW c \in Clients
  PROVE  Position(c) \in Nat
BY DEF Types, Position

(* A client owes the body of a request whose header is the last it sent.   *)
LEMMA OwesAtOdd ==
  ASSUME Types, NEW c \in Clients, Stream(c)
  PROVE  OwesBody(c) <=> Position(c) + Len(toServer[c]) = 2 * sent[c] + 1
<1>0. /\ toServer[c] \in Seq(Parts) /\ sent[c] \in Nat /\ executed[c] \in Nat
      /\ Len(toServer[c]) \in Nat /\ Position(c) \in Nat
  BY PositionType DEF Types
<1>1. Position(c) + Len(toServer[c]) \in {2 * sent[c], 2 * sent[c] + 1}
  BY DEF Stream, Rest
<1>2. CASE toServer[c] = <<>>
  <2>1. Len(toServer[c]) = 0
    BY <1>2
  <2>2. "body" \in pending[c] => Position(c) = 2 * executed[c] + 1
    BY <1>0 DEF Position
  <2>3. "body" \notin pending[c] => Position(c) = 2 * executed[c]
    BY <1>0 DEF Position
  <2> QED
    BY <1>0, <1>1, <1>2, <2>1, <2>2, <2>3 DEF OwesBody
<1>3. CASE toServer[c] # <<>>
  <2> DEFINE m == toServer[c][Len(toServer[c])]
  <2>1. Len(toServer[c]) \in 1..Len(toServer[c]) /\ m \in Parts
    BY <1>0, <1>3
  <2>2. m.part \in {"header", "body"} /\ m.request \in Nat
    BY <2>1 DEF Parts
  <2>3. m.part = "header" => Position(c) + Len(toServer[c]) + 1 = 2 * m.request
    BY <2>1 DEF Stream, Rest
  <2>4. m.part = "body" => Position(c) + Len(toServer[c]) = 2 * m.request
    BY <2>1 DEF Stream, Rest
  <2>5. OwesBody(c) <=> m.part = "header"
    BY <1>3 DEF OwesBody, Last
  <2> HIDE DEF m
  <2> QED
    BY <1>0, <1>1, <2>2, <2>3, <2>4, <2>5
<1> QED
  BY <1>2, <1>3

-----------------------------------------------------------------------------
(* The steps of a client.                                                  *)
LEMMA ConnectKeeps ==
  ASSUME IInv, NEW c \in Clients, Connect(c)
  PROVE  IInv'
<1>1. Types' /\ Counted'
  <2>1. Open' = Open
    BY DEF Connect, Open
  <2> QED
    BY <2>1, SameCount DEF IInv, Connect, Types, clientVars
<1>2. ClientInv(c)'
  <2>1. /\ link[c] = "none" /\ link'[c] = "backlog"
        /\ pending' = pending /\ writebuf' = writebuf /\ executed' = executed
        /\ toServer' = toServer /\ toClient' = toClient /\ sent' = sent
        /\ received' = received
    BY DEF Connect, IInv, Types, clientVars
  <2>2. Position(c)' = Position(c) /\ Answers(c)' = Answers(c)
    BY <2>1 DEF Position, Answers
  <2>3. ClientInv(c)
    BY DEF IInv
  <2>4. Lifetime(c)' /\ Fresh(c)' /\ Bounded(c)'
    BY <2>1, <2>3 DEF ClientInv, Lifetime, Fresh, Bounded
  <2>5. Stream(c)' /\ Answered(c)'
    BY <2>1, <2>2, <2>3 DEF ClientInv, Stream, Answered
  <2> QED
    BY <2>4, <2>5 DEF ClientInv
<1> QED
  BY <1>1, <1>2, OnlyOne DEF Connect, IInv, Types, clientVars

(* What a client sends joins its stream, unless nobody reads it any more.  *)
LEMMA Sends ==
  ASSUME IInv, NEW c \in Clients, NEW m \in Parts, m.request = sent[c] + 1,
         Connected(c), sent[c] < MaxRequests[c],
         toServer' = [toServer EXCEPT ![c] = Append(@, m)],
         \/ m.part = "header" /\ ~OwesBody(c) /\ sent' = sent
         \/ m.part = "body" /\ OwesBody(c) /\ sent' = [sent EXCEPT ![c] = @ + 1],
         UNCHANGED <<service, sessionVars, toClient, received, left>>
  PROVE  IInv'
<1>0. Types /\ Counted /\ ClientInv(c)
  BY DEF IInv
<1>1. /\ link' = link /\ pending' = pending /\ writebuf' = writebuf
      /\ executed' = executed /\ toClient' = toClient /\ received' = received
      /\ cnx' = cnx /\ toServer'[c] = Append(toServer[c], m)
      /\ sent'[c] \in Nat /\ sent[c] <= sent'[c] /\ sent'[c] <= sent[c] + 1
  BY <1>0 DEF sessionVars, Types
<1>2. Types' /\ Counted'
  <2>1. Open' = Open
    BY <1>1 DEF Open
  <2>2. toServer[c] \in Seq(Parts) /\ Append(toServer[c], m) \in Seq(Parts)
    BY <1>0 DEF Types
  <2>3. toServer' \in [Clients -> Seq(Parts)]
    BY <1>0, <2>2 DEF Types
  <2>4. sent' \in [Clients -> Nat]
    <3>1. sent \in [Clients -> Nat]
      BY <1>0 DEF Types
    <3>2. CASE sent' = sent
      BY <3>1, <3>2
    <3>3. CASE sent' = [sent EXCEPT ![c] = @ + 1]
      BY <3>1, <3>3
    <3> QED
      BY <3>2, <3>3
  <2> QED
    BY <1>0, <1>1, <2>1, <2>3, <2>4, SameCount DEF Types, sessionVars
<1>3. Position(c)' = Position(c) /\ Answers(c)' = Answers(c)
  BY <1>1 DEF Position, Answers
<1>4. Lifetime(c)' /\ Fresh(c)' /\ Answered(c)'
  BY <1>0, <1>1, <1>3 DEF ClientInv, Lifetime, Fresh, Answered, Connected
<1>5. Bounded(c)'
  <2>1. sent'[c] <= MaxRequests[c]
    BY <1>0, MaxRequestsAssumption DEF Types, ClientInv, Bounded
  <2> QED
    BY <1>0, <1>1, <2>1 DEF ClientInv, Bounded, Types
<1>6. ASSUME link'[c] # "closed" PROVE Stream(c)'
  <2>1. Stream(c)
    BY <1>0, <1>1, <1>6 DEF ClientInv
  <2>2. Position(c) + Len(toServer[c]) \in {2 * sent[c], 2 * sent[c] + 1}
    BY <2>1 DEF Stream, Rest
  <2>3. \/ m.part = "header" /\ sent'[c] = sent[c]
           /\ Position(c) + Len(toServer[c]) = 2 * sent[c]
        \/ m.part = "body" /\ sent'[c] = sent[c] + 1
           /\ Position(c) + Len(toServer[c]) = 2 * sent[c] + 1
    BY <1>0, <2>1, <2>2, OwesAtOdd DEF Types
  <2>4. Rest(Position(c), Append(toServer[c], m), sent'[c])
    BY <1>0, <1>1, <2>1, <2>3, RestGrows, PositionType DEF Types, Stream
  <2> QED
    BY <1>1, <1>3, <2>4 DEF Stream
<1>7. ClientInv(c)'
  BY <1>4, <1>5, <1>6 DEF ClientInv
<1> QED
  BY <1>0, <1>1, <1>2, <1>7, OnlyOne DEF Types

LEMMA SendHeaderKeeps ==
  ASSUME IInv, NEW c \in Clients, SendHeader(c)
  PROVE  IInv'
<1>1. PICK g \in BOOLEAN :
        toServer' = [toServer EXCEPT ![c] =
          Append(@, [part |-> "header", request |-> sent[c] + 1, good |-> g])]
  BY DEF SendHeader
<1> DEFINE m == [part |-> "header", request |-> sent[c] + 1, good |-> g]
<1>2. m \in Parts /\ m.part = "header" /\ m.request = sent[c] + 1
  BY DEF Parts, IInv, Types
<1>3. toServer' = [toServer EXCEPT ![c] = Append(@, m)]
  BY <1>1
<1> HIDE DEF m
<1> QED
  BY <1>2, <1>3, Sends DEF SendHeader, clientVars

LEMMA SendBodyKeeps ==
  ASSUME IInv, NEW c \in Clients, SendBody(c)
  PROVE  IInv'
<1>1. PICK g \in BOOLEAN :
        toServer' = [toServer EXCEPT ![c] =
          Append(@, [part |-> "body", request |-> sent[c] + 1, good |-> g])]
  BY DEF SendBody
<1> DEFINE m == [part |-> "body", request |-> sent[c] + 1, good |-> g]
<1>2. m \in Parts /\ m.part = "body" /\ m.request = sent[c] + 1
  BY DEF Parts, IInv, Types
<1>3. toServer' = [toServer EXCEPT ![c] = Append(@, m)]
  BY <1>1
<1> HIDE DEF m
<1> QED
  BY <1>2, <1>3, Sends DEF SendBody

(* A reply that is taken moves from the connection to the client.          *)
LEMMA HeadMoves ==
  ASSUME NEW s \in Seq(Nat \ {0}), NEW t \in Seq(Nat \ {0}), t # <<>>
  PROVE  /\ Append(s, Head(t)) \o Tail(t) = s \o t
         /\ Append(s, Head(t)) \in Seq(Nat \ {0}) /\ Tail(t) \in Seq(Nat \ {0})
OBVIOUS

LEMMA TakeReplyKeeps ==
  ASSUME IInv, NEW c \in Clients, TakeReply(c)
  PROVE  IInv'
<1>0. Types /\ Counted /\ ClientInv(c)
  BY DEF IInv
<1>1. /\ link' = link /\ pending' = pending /\ writebuf' = writebuf
      /\ executed' = executed /\ toServer' = toServer /\ sent' = sent /\ cnx' = cnx
      /\ received'[c] = Append(received[c], Head(toClient[c]))
      /\ toClient'[c] = Tail(toClient[c]) /\ toClient[c] # <<>>
  BY <1>0 DEF TakeReply, sessionVars, Types
<1>2. /\ received'[c] \o toClient'[c] = received[c] \o toClient[c]
      /\ received'[c] \in Seq(Nat \ {0}) /\ toClient'[c] \in Seq(Nat \ {0})
  BY <1>0, <1>1, HeadMoves DEF Types
<1>3. Types' /\ Counted'
  <2>1. Open' = Open
    BY <1>1 DEF Open
  <2>2. received' \in [Clients -> Seq(Nat \ {0})] /\ toClient' \in [Clients -> Seq(Nat \ {0})]
    BY <1>0, <1>1, <1>2 DEF Types, TakeReply
  <2> QED
    BY <1>0, <1>1, <2>1, <2>2, SameCount DEF Types, TakeReply, sessionVars
<1>4. Position(c)' = Position(c) /\ Answers(c)' = Answers(c)
  BY <1>1, <1>2 DEF Position, Answers
<1>5. Lifetime(c)' /\ Fresh(c)' /\ Bounded(c)'
  BY <1>0, <1>1 DEF ClientInv, Lifetime, Fresh, Bounded
<1>6. (link[c] # "closed" => Stream(c))' /\ Answered(c)'
  BY <1>0, <1>1, <1>4 DEF ClientInv, Stream, Answered
<1>7. ClientInv(c)'
  BY <1>5, <1>6 DEF ClientInv
<1> QED
  BY <1>0, <1>1, <1>3, <1>7, OnlyOne DEF Types, TakeReply

LEMMA LeaveKeeps ==
  ASSUME IInv, NEW c \in Clients, Leave(c)
  PROVE  IInv'
<1>1. /\ UNCHANGED <<link, pending, writebuf, executed, toServer, toClient,
                      sent, received, cnx>>
  BY DEF Leave, sessionVars
<1>2. Types' /\ Counted'
  <2>1. Open' = Open
    BY <1>1 DEF Open
  <2> QED
    BY <1>1, <2>1, SameCount DEF Types, IInv, Leave, sessionVars
<1> QED
  BY <1>1, <1>2, Elsewhere DEF IInv

-----------------------------------------------------------------------------
(* The handlers.                                                           *)
LEMMA AcceptKeeps ==
  ASSUME IInv, NEW c \in Clients, Accept(c)
  PROVE  IInv'
<1>0. Types /\ Counted /\ ClientInv(c) /\ link[c] = "backlog" /\ pending[c] = {}
  BY DEF IInv, ClientInv, Lifetime, Accept
<1>1. /\ link'[c] = "open" /\ pending'[c] = {"header"} /\ writebuf' = writebuf
      /\ executed' = executed /\ toServer' = toServer /\ toClient' = toClient
      /\ sent' = sent /\ received' = received
  BY <1>0 DEF Accept, Start, clientVars, Types
<1>2. Types' /\ Counted'
  <2>1. Counted'
    BY <1>0, CountedIn DEF Accept, Start
  <2> QED
    BY <1>0, <2>1 DEF Types, Accept, Start, clientVars, Operations
<1>3. Position(c)' = Position(c) /\ Answers(c)' = Answers(c)
  BY <1>0, <1>1 DEF Position, Answers
<1>4. Lifetime(c)' /\ Fresh(c)' /\ Bounded(c)'
  BY <1>0, <1>1 DEF ClientInv, Lifetime, Fresh, Bounded
<1>5. Stream(c)'
  BY <1>0, <1>1, <1>3 DEF ClientInv, Stream
<1>6. Answered(c)'
  <2>1. Answers(c) = <<>> /\ executed[c] = 0
    BY <1>0 DEF ClientInv, Fresh, Answers
  <2>2. {"header"} # {"write"} /\ Len(<<>>) = 0
    OBVIOUS
  <2>3. executed'[c] = 0 /\ Len(Answers(c)') = 0
    BY <1>1, <1>3, <2>1, <2>2
  <2> QED
    BY <1>1, <2>2, <2>3 DEF Answered
<1>7. ClientInv(c)'
  BY <1>4, <1>5, <1>6 DEF ClientInv
<1> QED
  BY <1>0, <1>1, <1>2, <1>7, OnlyOne DEF Types, Accept, Start

LEMMA AcceptFailsKeeps ==
  ASSUME IInv, NEW c \in Clients, AcceptFails(c)
  PROVE  IInv'
<1>1. Open' = Open
  BY DEF AcceptFails, Open
<1>2. Types' /\ Counted'
  BY <1>1, SameCount DEF Types, IInv, AcceptFails, clientVars
<1> QED
  BY <1>2, Elsewhere DEF IInv, AcceptFails, clientVars

(* A part that is read was the next one, and is the one that is read for.  *)
LEMMA Next_part ==
  ASSUME IInv, NEW c \in Clients, NEW part \in {"header", "body"}, Arrived(c, part)
  PROVE  /\ pending[c] = {part} /\ link[c] = "open" /\ Stream(c)
         /\ toServer[c] \in Seq(Parts) /\ toServer[c] # <<>>
         /\ Position(c) = 2 * executed[c] + (IF part = "body" THEN 1 ELSE 0)
         /\ part = "body" => /\ Head(toServer[c]).request = executed[c] + 1
                             /\ executed[c] + 1 <= sent[c]
<1>0. Types /\ ClientInv(c) /\ part \in pending[c] /\ toServer[c] # <<>>
  BY DEF IInv, Arrived
<1>1. pending[c] = {part} /\ link[c] = "open" /\ Stream(c)
  BY <1>0 DEF ClientInv, Lifetime
<1>2. /\ toServer[c] \in Seq(Parts) /\ executed[c] \in Nat /\ sent[c] \in Nat
      /\ Len(toServer[c]) \in Nat \ {0} /\ Head(toServer[c]) = toServer[c][1]
      /\ toServer[c][1] \in Parts
  BY <1>0 DEF Types
<1>3. Position(c) = 2 * executed[c] + (IF part = "body" THEN 1 ELSE 0)
  BY <1>1 DEF Position
<1>4. ASSUME part = "body"
      PROVE  Head(toServer[c]).request = executed[c] + 1 /\ executed[c] + 1 <= sent[c]
  <2>1. toServer[c][1].part = "body" /\ toServer[c][1].request \in Nat
    BY <1>2, <1>4 DEF Arrived, Parts
  <2>2. Position(c) + 1 = 2 * toServer[c][1].request
    BY <1>1, <1>2, <2>1 DEF Stream, Rest
  <2>3. Position(c) + Len(toServer[c]) \in {2 * sent[c], 2 * sent[c] + 1}
    BY <1>1 DEF Stream, Rest
  <2>4. Position(c) = 2 * executed[c] + 1
    BY <1>3, <1>4
  <2>5. toServer[c][1].request = executed[c] + 1
    BY <1>2, <2>1, <2>2, <2>4
  <2>6. executed[c] + 1 <= sent[c]
    BY <1>2, <2>3, <2>4
  <2> QED
    BY <1>2, <2>5, <2>6
<1> QED
  BY <1>0, <1>1, <1>2, <1>3, <1>4

LEMMA HeaderKeeps ==
  ASSUME IInv, NEW c \in Clients, handle_read_header(c)
  PROVE  IInv'
<1>0. /\ Types /\ Counted /\ ClientInv(c) /\ pending[c] = {"header"} /\ link[c] = "open"
      /\ Stream(c) /\ toServer[c] \in Seq(Parts) /\ toServer[c] # <<>>
      /\ Position(c) = 2 * executed[c]
  BY Next_part DEF IInv, handle_read_header, Types
<1>1. /\ pending' = [pending EXCEPT ![c] = {"body"}] /\ Counted' /\ cnx' \in Nat
      /\ link' = link
  BY <1>0, Continues DEF handle_read_header, ClientInv
<1>2. /\ link'[c] = "open" /\ pending'[c] = {"body"} /\ writebuf' = writebuf
      /\ executed' = executed /\ toServer'[c] = Tail(toServer[c]) /\ toClient' = toClient
      /\ sent' = sent /\ received' = received
  BY <1>0, <1>1 DEF handle_read_header, clientVars, Types
<1>3. Types'
  <2>1. toServer' \in [Clients -> Seq(Parts)]
    BY <1>0 DEF Types, handle_read_header
  <2> QED
    BY <1>0, <1>1, <2>1 DEF Types, handle_read_header, clientVars, Operations
<1>4. Position(c)' = Position(c) + 1 /\ Answers(c)' = Answers(c)
  BY <1>0, <1>2 DEF Position, Answers
<1>5. Stream(c)'
  <2>1. Rest(Position(c) + 1, Tail(toServer[c]), sent[c])
    BY <1>0, RestShrinks, PositionType DEF Stream, Types
  <2> QED
    BY <1>2, <1>4, <2>1 DEF Stream
<1>6. Lifetime(c)' /\ Fresh(c)' /\ Bounded(c)' /\ Answered(c)'
  BY <1>0, <1>2, <1>4 DEF ClientInv, Lifetime, Fresh, Bounded, Answered
<1>7. ClientInv(c)'
  BY <1>5, <1>6 DEF ClientInv
<1> QED
  BY <1>0, <1>1, <1>2, <1>3, <1>7, OnlyOne DEF Types, handle_read_header

LEMMA BodyKeeps ==
  ASSUME IInv, NEW c \in Clients, handle_read_body(c)
  PROVE  IInv'
<1>0. /\ Types /\ Counted /\ ClientInv(c) /\ pending[c] = {"body"} /\ link[c] = "open"
      /\ Stream(c) /\ toServer[c] \in Seq(Parts) /\ toServer[c] # <<>>
      /\ Position(c) = 2 * executed[c] + 1
      /\ Head(toServer[c]).request = executed[c] + 1 /\ executed[c] + 1 <= sent[c]
  BY Next_part DEF IInv, handle_read_body
<1>1. /\ pending' = [pending EXCEPT ![c] = {"write"}] /\ Counted' /\ cnx' \in Nat
      /\ link' = link
  BY <1>0, Continues DEF handle_read_body, ClientInv
<1>2. /\ link'[c] = "open" /\ pending'[c] = {"write"} /\ writebuf'[c] = executed[c] + 1
      /\ executed'[c] = executed[c] + 1 /\ toServer'[c] = Tail(toServer[c])
      /\ toClient' = toClient /\ sent' = sent /\ received' = received
      /\ executed[c] \in Nat /\ sent[c] \in Nat
  BY <1>0, <1>1 DEF handle_read_body, clientVars, Types
<1>3. Types'
  <2>1. toServer' \in [Clients -> Seq(Parts)]
    BY <1>0 DEF Types, handle_read_body
  <2>2. executed' \in [Clients -> Nat] /\ writebuf' \in [Clients -> Nat]
    BY <1>0, <1>2 DEF Types, handle_read_body
  <2> QED
    BY <1>0, <1>1, <2>1, <2>2 DEF Types, handle_read_body, clientVars, Operations
<1>4. Position(c)' = Position(c) + 1 /\ Answers(c)' = Answers(c)
  BY <1>0, <1>2 DEF Position, Answers
<1>5. Stream(c)'
  <2>1. Rest(Position(c) + 1, Tail(toServer[c]), sent[c])
    BY <1>0, RestShrinks, PositionType DEF Stream, Types
  <2> QED
    BY <1>2, <1>4, <2>1 DEF Stream
<1>6. Lifetime(c)' /\ Fresh(c)' /\ Bounded(c)'
  BY <1>0, <1>2 DEF ClientInv, Lifetime, Fresh, Bounded
<1>7. Answered(c)'
  <2>1. executed[c] = Len(Answers(c)) /\ \A i \in 1..Len(Answers(c)) : Answers(c)[i] = i
    BY <1>0 DEF ClientInv, Answered
  <2>2. {"write"} # {"header"} /\ {"write"} # {"body"}
    OBVIOUS
  <2>3. executed'[c] = Len(Answers(c)') + 1 /\ executed'[c] - Len(Answers(c)') = 1
    BY <1>2, <1>4, <2>1
  <2> QED
    BY <1>2, <1>4, <2>1, <2>2, <2>3 DEF Answered
<1>8. ClientInv(c)'
  BY <1>5, <1>6, <1>7 DEF ClientInv
<1> QED
  BY <1>0, <1>1, <1>2, <1>3, <1>8, OnlyOne DEF Types, handle_read_body

LEMMA AppendRight ==
  ASSUME NEW s \in Seq(Nat \ {0}), NEW t \in Seq(Nat \ {0}), NEW n \in Nat \ {0}
  PROVE  s \o Append(t, n) = Append(s \o t, n) /\ s \o t \in Seq(Nat \ {0})
OBVIOUS

LEMMA AppendLeft ==
  ASSUME NEW s \in Seq(Nat \ {0}), NEW n \in Nat \ {0}
  PROVE  Append(s, n) \o <<>> = Append(s \o <<>>, n)
OBVIOUS

(* A reply that was written is the next answer, on its way or received.    *)
LEMMA AnswerKeeps ==
  ASSUME IInv, NEW c \in Clients, "write" \in pending[c],
         Continue(c, "write", {"header"}),
         UNCHANGED <<service, accepting, writebuf, executed, toServer, sent, left>>,
         \/ /\ toClient' = [toClient EXCEPT ![c] = Append(@, writebuf[c])]
            /\ received' = received
         \/ /\ received' = [received EXCEPT ![c] = Append(@, writebuf[c])]
            /\ toClient' = toClient /\ toClient[c] = <<>>
  PROVE  /\ IInv'
         /\ link[c] = "open" /\ Len(Answers(c)) < sent[c]
         /\ Answers(c)' = Append(Answers(c), Len(Answers(c)) + 1)
<1>0. /\ Types /\ Counted /\ ClientInv(c) /\ pending[c] = {"write"} /\ link[c] = "open"
      /\ Stream(c) /\ "write" \in pending[c]
  BY DEF IInv, ClientInv, Lifetime
<1>1. /\ pending' = [pending EXCEPT ![c] = {"header"}] /\ Counted' /\ cnx' \in Nat
      /\ link' = link
  BY <1>0, Continues DEF ClientInv
<1>2. /\ link'[c] = "open" /\ pending'[c] = {"header"} /\ writebuf' = writebuf
      /\ executed' = executed /\ toServer' = toServer /\ sent' = sent
  BY <1>0, <1>1 DEF Types
<1>3. /\ Answers(c) \in Seq(Nat \ {0}) /\ Len(Answers(c)) \in Nat
      /\ executed[c] = Len(Answers(c)) + 1 /\ writebuf[c] = executed[c]
      /\ \A i \in 1..Len(Answers(c)) : Answers(c)[i] = i
      /\ executed[c] <= sent[c] /\ sent[c] \in Nat
  <2>1. Answers(c) \in Seq(Nat \ {0})
    BY <1>0, AppendRight DEF Types, Answers
  <2> QED
    BY <1>0, <2>1 DEF ClientInv, Answered, Bounded, Types
<1>4. Answers(c)' = Append(Answers(c), Len(Answers(c)) + 1)
  <2>1. /\ received[c] \in Seq(Nat \ {0}) /\ toClient[c] \in Seq(Nat \ {0})
        /\ writebuf[c] \in Nat \ {0}
    BY <1>0, <1>3 DEF Types
  <2>2. CASE toClient' = [toClient EXCEPT ![c] = Append(@, writebuf[c])] /\ received' = received
    <3>1. Answers(c)' = received[c] \o Append(toClient[c], writebuf[c])
      BY <1>0, <2>2 DEF Types, Answers
    <3> QED
      <4>1. received[c] \o Append(toClient[c], writebuf[c])
              = Append(received[c] \o toClient[c], writebuf[c])
        BY <2>1, AppendRight
      <4>2. writebuf[c] = Len(Answers(c)) + 1
        BY <1>3
      <4> QED
        BY <3>1, <4>1, <4>2, Zenon DEF Answers
  <2>3. CASE /\ received' = [received EXCEPT ![c] = Append(@, writebuf[c])]
             /\ toClient' = toClient /\ toClient[c] = <<>>
    <3>1. Answers(c)' = Append(received[c], writebuf[c]) \o <<>>
      BY <1>0, <2>3 DEF Types, Answers
    <3>2. Answers(c) = received[c] \o <<>>
      BY <2>3 DEF Answers
    <3> QED
      BY <1>3, <2>1, <3>1, <3>2, AppendLeft
  <2> QED
    BY <2>2, <2>3
<1>5. Types'
  <2>1. /\ toClient' \in [Clients -> Seq(Nat \ {0})]
        /\ received' \in [Clients -> Seq(Nat \ {0})]
    <3>1. /\ Append(toClient[c], writebuf[c]) \in Seq(Nat \ {0})
          /\ Append(received[c], writebuf[c]) \in Seq(Nat \ {0})
      BY <1>0, <1>3 DEF Types
    <3> QED
      BY <1>0, <3>1 DEF Types
  <2> QED
    BY <1>0, <1>1, <2>1 DEF Types, Operations
<1>6. Position(c)' = Position(c)
  BY <1>0, <1>2 DEF Position
<1>7. Lifetime(c)' /\ Fresh(c)' /\ Bounded(c)' /\ Stream(c)'
  BY <1>0, <1>2, <1>6 DEF ClientInv, Lifetime, Fresh, Bounded, Stream
<1>8. Answered(c)'
  <2> DEFINE a == Answers(c)
             b == Answers(c)'
  <2>1. Len(b) = Len(a) + 1 /\ \A i \in 1..Len(b) : b[i] = i
    BY <1>3, <1>4
  <2>2. {"header"} # {"write"}
    OBVIOUS
  <2>3. executed'[c] = Len(Answers(c)') /\ executed'[c] - Len(Answers(c)') = 0
    BY <1>2, <1>3, <2>1
  <2> HIDE DEF a, b
  <2> QED
    BY <1>2, <2>1, <2>2, <2>3 DEF Answered, b
<1>9. ClientInv(c)'
  BY <1>7, <1>8 DEF ClientInv
<1>10. IInv'
  <2>1. ASSUME NEW d \in Clients \ {c}
        PROVE  toClient'[d] = toClient[d] /\ received'[d] = received[d]
    BY <1>0 DEF Types
  <2> QED
    BY <1>0, <1>1, <1>2, <1>5, <1>9, <2>1, OnlyOne DEF Types
<1> QED
  BY <1>0, <1>3, <1>4, <1>10

LEMMA WriteKeeps ==
  ASSUME IInv, NEW c \in Clients, handle_write(c) \/ TakeWrite(c)
  PROVE  /\ IInv'
         /\ link[c] = "open" /\ Len(Answers(c)) < sent[c]
         /\ Answers(c)' = Append(Answers(c), Len(Answers(c)) + 1)
BY AnswerKeeps DEF handle_write, TakeWrite, clientVars

-----------------------------------------------------------------------------
(* The ways in which a session ends: one operation finds nothing to follow *)
(* it, or the process or the server goes and takes every session along.    *)
LEMMA OneEnds ==
  ASSUME IInv, NEW c \in Clients, NEW op \in pending[c], Continue(c, op, {}),
         toServer' \in [Clients -> Seq(Parts)],
         \A d \in Clients \ {c} : toServer'[d] = toServer[d],
         UNCHANGED <<service, accepting, writebuf, executed, toClient, clientVars>>
  PROVE  IInv' /\ link' = [link EXCEPT ![c] = "closed"]
<1>0. Types /\ Counted /\ ClientInv(c) /\ link[c] = "open"
  BY DEF IInv, ClientInv, Lifetime
<1>1. /\ pending' = [pending EXCEPT ![c] = {}] /\ Counted' /\ cnx' \in Nat
      /\ link' = [link EXCEPT ![c] = "closed"]
  BY <1>0, Continues DEF ClientInv
<1>2. pending'[c] = {} /\ link'[c] = "closed"
  BY <1>0, <1>1 DEF Types
<1>3. Types'
  BY <1>0, <1>1 DEF Types, clientVars, Operations
<1>4. ClientInv(c)'
  BY <1>0, <1>2, Closed DEF clientVars
<1> QED
  BY <1>0, <1>1, <1>3, <1>4, OnlyOne DEF Types, clientVars

LEMMA UnpackFailsKeeps ==
  ASSUME IInv, NEW c \in Clients, unpack_fails(c)
  PROVE  IInv' /\ link' = [link EXCEPT ![c] = "closed"]
<1>1. "body" \in pending[c]
  BY DEF unpack_fails, Arrived
<1>2. toServer' \in [Clients -> Seq(Parts)]
  <2>1. toServer[c] \in Seq(Parts) /\ Tail(toServer[c]) \in Seq(Parts)
    BY Next_part DEF unpack_fails
  <2> QED
    BY <2>1 DEF IInv, Types, unpack_fails
<1>3. \A d \in Clients \ {c} : toServer'[d] = toServer[d]
  BY DEF IInv, Types, unpack_fails
<1> QED
  BY <1>1, <1>2, <1>3, OneEnds DEF unpack_fails

LEMMA ReadFailsKeeps ==
  ASSUME IInv, NEW c \in Clients, read_fails(c)
  PROVE  IInv' /\ link' = [link EXCEPT ![c] = "closed"]
<1>1. PICK op \in pending[c] : Continue(c, op, {})
  BY DEF read_fails
<1> QED
  BY <1>1, OneEnds DEF read_fails, IInv, Types

LEMMA WriteFailsKeeps ==
  ASSUME IInv, NEW c \in Clients, write_fails(c)
  PROVE  IInv' /\ link' = [link EXCEPT ![c] = "closed"]
BY OneEnds DEF write_fails, IInv, Types

LEMMA ProcessEndsKeeps ==
  ASSUME IInv, NEW c \in Clients, NEW part \in {"header", "body"}, Arrived(c, part),
         ProcessEnds(c)
  PROVE  IInv'
<1>0. Types /\ \A d \in Clients : ClientInv(d)
  BY DEF IInv
<1>1. Counted'
  BY CountedNone DEF ProcessEnds
<1>2. Types'
  <2>1. toServer' \in [Clients -> Seq(Parts)]
    <3>1. toServer[c] \in Seq(Parts) /\ Tail(toServer[c]) \in Seq(Parts)
      BY Next_part
    <3> QED
      BY <1>0, <3>1 DEF Types, ProcessEnds
  <2> QED
    BY <1>0, <2>1 DEF Types, ProcessEnds, clientVars, Operations
<1>3. ASSUME NEW d \in Clients PROVE ClientInv(d)'
  <2>1. link'[d] = "none" => toServer'[d] = toServer[d]
    <3>1. link[c] # "none"
      BY Next_part
    <3>2. CASE d = c
      BY <3>1, <3>2 DEF ProcessEnds
    <3>3. CASE d # c
      BY <1>0, <3>3 DEF ProcessEnds, Types
    <3> QED
      BY <3>2, <3>3
  <2> QED
    BY <1>0, <2>1, Closed DEF ProcessEnds, clientVars
<1> QED
  BY <1>1, <1>2, <1>3 DEF IInv

LEMMA DeathKeeps ==
  ASSUME IInv, NEW c \in Clients, header_ends(c) \/ execute_ends(c)
  PROVE  IInv'
BY ProcessEndsKeeps DEF header_ends, execute_ends

LEMMA ServerReturnsKeeps ==
  ASSUME IInv, server_returns
  PROVE  IInv'
<1>0. Types /\ Counted /\ \A d \in Clients : ClientInv(d)
  BY DEF IInv
<1>1. Types' /\ Counted'
  <2>1. Open' = Open
    BY DEF server_returns, Open
  <2> QED
    BY <1>0, <2>1, SameCount DEF Types, server_returns, clientVars
<1>2. ASSUME NEW d \in Clients PROVE ClientInv(d)'
  <2>1. CASE link[d] = "backlog"
    <3>1. pending[d] = {}
      BY <1>0, <2>1 DEF ClientInv, Lifetime
    <3> QED
      BY <1>0, <2>1, <3>1, Closed DEF server_returns, clientVars
  <2>2. CASE link[d] # "backlog"
    BY <1>0, <2>2, Elsewhere DEF server_returns, clientVars
  <2> QED
    BY <2>1, <2>2
<1> QED
  BY <1>1, <1>2 DEF IInv

(* The sessions go with the io_service and count themselves out.           *)
LEMMA DestroyKeeps ==
  ASSUME IInv, destroy
  PROVE  IInv'
<1>0. Types /\ Counted /\ \A d \in Clients : ClientInv(d)
  BY DEF IInv
<1>1. cnx' = 0
  BY <1>0, OpenIsFinite DEF destroy, Counted, CountIsOpen
<1>2. Types' /\ Counted'
  BY <1>0, <1>1, CountedNone DEF Types, destroy, clientVars, Operations
<1>3. ASSUME NEW d \in Clients PROVE ClientInv(d)'
  <2>1. CASE d \in Open
    <3>1. link[d] = "open" /\ link'[d] = "closed"
      BY <1>0, <2>1 DEF Open, ClientInv, Lifetime, destroy
    <3> QED
      BY <1>0, <3>1, Closed DEF destroy, clientVars
  <2>2. CASE d \notin Open
    <3>1. pending[d] = {} /\ link'[d] = link[d]
      BY <2>2 DEF Open, destroy
    <3> QED
      BY <1>0, <3>1, Elsewhere DEF destroy, clientVars
  <2> QED
    BY <2>1, <2>2
<1> QED
  BY <1>2, <1>3 DEF IInv

-----------------------------------------------------------------------------
LEMMA StartIsFresh == Init => IInv
<1> SUFFICES ASSUME Init PROVE IInv
  OBVIOUS
<1>1. Types
  BY DEF Init, ServerInit, SessionsInit, Types, Operations
<1>2. Counted
  <2>1. Open = {}
    BY DEF Init, SessionsInit, Open
  <2> QED
    BY <2>1, FS_EmptySet, MaxOpenAssumption DEF Counted, CountIsOpen, Init, ServerInit
<1>3. ASSUME NEW c \in Clients PROVE ClientInv(c)
  <2>1. /\ link[c] = "none" /\ pending[c] = {} /\ writebuf[c] = 0 /\ executed[c] = 0
        /\ toServer[c] = <<>> /\ toClient[c] = <<>> /\ sent[c] = 0 /\ received[c] = <<>>
        /\ MaxRequests[c] \in Nat
    BY MaxRequestsAssumption DEF Init, SessionsInit
  <2>2. Lifetime(c) /\ Fresh(c) /\ Bounded(c)
    BY <2>1 DEF Lifetime, Fresh, Bounded
  <2>3. Stream(c)
    BY <2>1 DEF Stream, Rest, Position
  <2>4. Answered(c)
    <3>1. Answers(c) = <<>>
      BY <2>1 DEF Answers
    <3>2. Len(Answers(c)) = 0
      BY <3>1
    <3> QED
      BY <2>1, <3>2 DEF Answered
  <2> QED
    BY <2>2, <2>3, <2>4 DEF ClientInv
<1> QED
  BY <1>1, <1>2, <1>3 DEF IInv

LEMMA StepKeeps == IInv /\ [Next]_vars => IInv'
<1> SUFFICES ASSUME IInv, [Next]_vars PROVE IInv'
  OBVIOUS
<1>1. ASSUME NEW c \in Clients, Handler(c) PROVE IInv'
  BY <1>1, AcceptKeeps, AcceptFailsKeeps, HeaderKeeps, BodyKeeps, DeathKeeps,
     UnpackFailsKeeps, ReadFailsKeeps, WriteKeeps, WriteFailsKeeps DEF Handler
<1>2. ASSUME NEW c \in Clients, Client(c) PROVE IInv'
  BY <1>2, ConnectKeeps, SendHeaderKeeps, SendBodyKeeps, TakeReplyKeeps, WriteKeeps,
     LeaveKeeps
  DEF Client, Reads
<1>3. CASE stop
  <2>1. Open' = Open
    BY <1>3 DEF stop, sessionVars, Open
  <2>2. Types' /\ Counted'
    BY <1>3, <2>1, SameCount DEF IInv, Types, stop, sessionVars, clientVars
  <2> QED
    BY <1>3, <2>2, Elsewhere DEF IInv, stop, sessionVars, clientVars
<1>4. CASE UNCHANGED vars
  <2>1. Open' = Open
    BY <1>4 DEF vars, sessionVars, Open
  <2>2. Types' /\ Counted'
    BY <1>4, <2>1, SameCount DEF IInv, Types, vars, sessionVars, clientVars
  <2> QED
    BY <1>4, <2>2, Elsewhere DEF IInv, vars, sessionVars, clientVars
<1> QED
  BY <1>1, <1>2, <1>3, <1>4, ServerReturnsKeeps, DestroyKeeps DEF Next

(* In every state of a server its sessions stand where the stream says.    *)
THEOREM Invariance == Spec => []IInv
BY StartIsFresh, StepKeeps, PTL DEF Spec

(* The variables keep their ranges; the connection count of STATUS is      *)
(* between zero and the number of sockets.                                 *)
THEOREM TypeCorrect == Spec => []TypeOK
<1>1. IInv => TypeOK
  <2> SUFFICES ASSUME IInv PROVE TypeOK
    OBVIOUS
  <2>1. cnx \in 0..MaxOpen
    BY MaxOpenAssumption DEF IInv, Types, Counted
  <2>2. ASSUME NEW c \in Clients
        PROVE  {writebuf[c], executed[c], sent[c]} \subseteq 0..MaxRequests[c]
    <3>1. /\ writebuf[c] \in Nat /\ executed[c] \in Nat /\ sent[c] \in Nat
          /\ MaxRequests[c] \in Nat
      BY MaxRequestsAssumption DEF IInv, Types
    <3>2. /\ executed[c] <= sent[c] /\ sent[c] <= MaxRequests[c]
          /\ writebuf[c] <= sent[c]
      BY DEF IInv, ClientInv, Bounded
    <3> QED
      BY <3>1, <3>2
  <2> QED
    BY <2>1, <2>2 DEF IInv, Types, TypeOK
<1> QED
  BY <1>1, Invariance, PTL

(* The number of connections that STATUS reports is the number of sessions *)
(* that exist, however many there are and however they end.                *)
THEOREM ConnectionsAreCounted == Spec => []CountIsOpen
<1>1. IInv => CountIsOpen
  BY DEF IInv, Counted
<1> QED
  BY <1>1, Invariance, PTL

(* A session never has two operations on its socket and buffers at once.   *)
THEOREM NeverTwoOperations == Spec => []OneOperation
<1>1. IInv => OneOperation
  <2> SUFFICES ASSUME IInv, NEW c \in Clients PROVE Cardinality(pending[c]) <= 1
    BY DEF OneOperation
  <2>1. \/ pending[c] = {} \/ pending[c] = {"header"}
        \/ pending[c] = {"body"} \/ pending[c] = {"write"}
    BY DEF IInv, ClientInv, Lifetime
  <2> QED
    <3>1. CASE pending[c] = {}
      BY <3>1, FS_EmptySet
    <3>2. ASSUME NEW op, pending[c] = {op} PROVE Cardinality(pending[c]) = 1
      BY <3>2, FS_Singleton
    <3> QED
      BY <2>1, <3>1, <3>2
<1> QED
  BY <1>1, Invariance, PTL

(* At most one request of a connection was executed and not answered, no   *)
(* matter when the connection or the server ends.                          *)
THEOREM OneAnswerMissing == Spec => []AtMostOneUnanswered
<1>1. IInv => AtMostOneUnanswered
  BY DEF IInv, ClientInv, Answered, Answers, AtMostOneUnanswered
<1> QED
  BY <1>1, Invariance, PTL

-----------------------------------------------------------------------------
(* The conversation that a connection is.                                  *)
Told == [c \in Clients |-> Answers(c)]
Gone == {c \in Clients : link[c] = "closed"}

LEMMA AsPromised ==
  /\ Promised!vars = <<sent, Told, Gone>>
  /\ Promised!Init <=> /\ sent = [c \in Clients |-> 0]
                       /\ Told = [c \in Clients |-> <<>>]
                       /\ Gone = {}
BY DEF Promised!vars, Promised!Init, Told, Gone, Answers

(* Steps that neither ask nor answer end conversations, or none.           *)
LEMMA Ends ==
  ASSUME sent' = sent, \A c \in Clients : Answers(c)' = Answers(c),
         \A c \in Clients : link[c] = "closed" => link'[c] = "closed"
  PROVE  Promised!Next
<1>1. Told' = Told
  BY DEF Told
<1>2. Gone' = Gone \cup Gone' /\ Gone' \in SUBSET Clients
  BY DEF Gone
<1>3. PICK C \in SUBSET Clients : C = Gone'
  BY <1>2
<1>4. Promised!End(C)
  BY <1>1, <1>2, <1>3 DEF Promised!End, Told, Gone, Answers
<1> QED
  BY <1>4 DEF Promised!Next

LEMMA Asks ==
  ASSUME NEW c \in Clients, sent[c] < MaxRequests[c], sent' = [sent EXCEPT ![c] = @ + 1],
         UNCHANGED <<link, received, toClient>>
  PROVE  Promised!Next
<1>1. Promised!Ask(c)
  BY DEF Promised!Ask
<1> QED
  BY <1>1 DEF Promised!Next

LEMMA Replies ==
  ASSUME IInv, NEW c \in Clients, handle_write(c) \/ TakeWrite(c)
  PROVE  Promised!Next
<1>1. /\ link[c] = "open" /\ Len(Answers(c)) < sent[c]
      /\ Answers(c)' = Append(Answers(c), Len(Answers(c)) + 1)
  BY WriteKeeps
<1>2. link' = link
  <2>1. Types /\ Counted /\ Lifetime(c) /\ "write" \in pending[c]
    BY DEF IInv, ClientInv, handle_write, TakeWrite
  <2> QED
    BY <2>1, Continues DEF handle_write, TakeWrite
<1>3. sent' = sent
  BY DEF handle_write, TakeWrite, clientVars
<1>4. \A d \in Clients \ {c} : Answers(d)' = Answers(d)
  BY DEF handle_write, TakeWrite, clientVars, Answers, IInv, Types
<1>5. Told' = [Told EXCEPT ![c] = Append(Told[c], Len(Told[c]) + 1)]
  BY <1>1, <1>4 DEF Told
<1>6. Promised!Answer(c)
  BY <1>1, <1>2, <1>3, <1>5 DEF Promised!Answer, Told, Answers
<1> QED
  BY <1>6 DEF Promised!Next

LEMMA Stutters ==
  ASSUME UNCHANGED vars
  PROVE  UNCHANGED Promised!vars
BY DEF vars, sessionVars, clientVars, Promised!vars

LEMMA StepPromised == IInv /\ [Next]_vars => [Promised!Next]_Promised!vars
<1> SUFFICES ASSUME IInv, [Next]_vars PROVE [Promised!Next]_Promised!vars
  OBVIOUS
<1>0. Types /\ \A c \in Clients : ClientInv(c)
  BY DEF IInv
<1>1. CASE \E c \in Clients : SendBody(c)
  BY <1>1, Asks DEF SendBody, sessionVars
<1>2. CASE \E c \in Clients : handle_write(c) \/ TakeWrite(c)
  BY <1>2, Replies
<1>3. ASSUME NEW c \in Clients, TakeReply(c) PROVE Promised!Next
  <2>1. received'[c] \o toClient'[c] = received[c] \o toClient[c]
    BY <1>0, <1>3, HeadMoves DEF TakeReply, Types
  <2>2. \A d \in Clients : Answers(d)' = Answers(d)
    BY <1>0, <1>3, <2>1 DEF TakeReply, Types, Answers
  <2> QED
    BY <1>3, <2>2, Ends DEF TakeReply, sessionVars
<1>4. ASSUME NEW c \in Clients, Connect(c) \/ SendHeader(c) \/ Leave(c)
      PROVE  Promised!Next
  <2>1. UNCHANGED <<sent, received, toClient>>
    BY <1>4 DEF Connect, SendHeader, Leave, clientVars
  <2>2. \A d \in Clients : link[d] = "closed" => link'[d] = "closed"
    BY <1>0, <1>4 DEF Connect, SendHeader, Leave, sessionVars, Types
  <2> QED
    BY <2>1, <2>2, Ends DEF Answers
<1>5. ASSUME NEW c \in Clients, Accept(c) \/ AcceptFails(c) \/ handle_read_header(c)
                                  \/ handle_read_body(c)
      PROVE  Promised!Next
  <2>1. UNCHANGED <<sent, received, toClient>>
    BY <1>5 DEF Accept, AcceptFails, handle_read_header, handle_read_body, clientVars
  <2>2. \A d \in Clients : link[d] = "closed" => link'[d] = "closed"
    <3>1. ASSUME handle_read_header(c) PROVE link' = link
      <4>1. "header" \in pending[c] /\ Counted /\ Lifetime(c)
        BY <3>1 DEF handle_read_header, Arrived, IInv, ClientInv
      <4> QED
        BY <1>0, <3>1, <4>1, Continues DEF handle_read_header
    <3>2. ASSUME handle_read_body(c) PROVE link' = link
      <4>1. "body" \in pending[c] /\ Counted /\ Lifetime(c)
        BY <3>2 DEF handle_read_body, Arrived, IInv, ClientInv
      <4> QED
        BY <1>0, <3>2, <4>1, Continues DEF handle_read_body
    <3>3. ASSUME Accept(c) \/ AcceptFails(c)
          PROVE  \A d \in Clients : link[d] = "closed" => link'[d] = "closed"
      BY <1>0, <3>3 DEF Accept, AcceptFails, Start, Types
    <3> QED
      BY <1>5, <3>1, <3>2, <3>3
  <2> QED
    BY <2>1, <2>2, Ends DEF Answers
<1>6. ASSUME NEW c \in Clients, unpack_fails(c) \/ read_fails(c) \/ write_fails(c)
      PROVE  Promised!Next
  <2>1. UNCHANGED <<sent, received, toClient>>
    BY <1>6 DEF unpack_fails, read_fails, write_fails, clientVars
  <2>2. link' = [link EXCEPT ![c] = "closed"]
    BY <1>6, UnpackFailsKeeps, ReadFailsKeeps, WriteFailsKeeps
  <2> QED
    BY <1>0, <2>1, <2>2, Ends DEF Answers, Types
<1>7. ASSUME (\E c \in Clients : header_ends(c) \/ execute_ends(c)) \/ stop \/ server_returns \/ destroy
      PROVE  Promised!Next
  <2>1. UNCHANGED <<sent, received, toClient>>
    BY <1>7 DEF header_ends, execute_ends, ProcessEnds, stop, server_returns, destroy,
                clientVars
  <2>2. \A d \in Clients : link[d] = "closed" => link'[d] = "closed"
    BY <1>0, <1>7 DEF header_ends, execute_ends, ProcessEnds, stop, server_returns, destroy,
                      sessionVars, Types
  <2> QED
    BY <2>1, <2>2, Ends DEF Answers
<1>8. CASE UNCHANGED vars
  BY <1>8, Stutters
<1> QED
  BY <1>1, <1>2, <1>3, <1>4, <1>5, <1>6, <1>7, <1>8 DEF Next, Handler, Client, Reads

(* Whatever the clients send and whenever connections, sessions and the    *)
(* server end, the replies of each connection are those to its requests,   *)
(* in their order: the server implements the conversation it promises.     *)
THEOREM ServerConverses == Spec => KeepsConversation
<1>1. Init => Promised!Init
  BY AsPromised DEF Init, SessionsInit, Told, Gone, Answers
<1> QED
  BY <1>1, Invariance, StepPromised, PTL DEF Spec, KeepsConversation, Promised!Spec

=============================================================================
