------------------------------- MODULE Server -------------------------------
(***************************************************************************)
(* A server and its sessions: TcpServer and UnixSocketServer, which differ *)
(* in the sockets only.  All completion handlers of a server run on its    *)
(* one IO thread, one after the other, until stop().                       *)
(*                                                                         *)
(* A session is kept alive by the handlers of its outstanding operations,  *)
(* which hold a shared pointer to it, and by nothing else.                 *)
(***************************************************************************)
EXTENDS Naturals, FiniteSets, SequencesExt

CONSTANTS
  Clients,      \* the connections that clients open, each once
  MaxRequests,  \* bound: MaxRequests[c] is how many requests c sends
  Window,       \* Window[c]: how many replies find room between the session
                \* and a c that does not read; 0 if none fits whole
  MaxOpen       \* how many sockets the process may have open

ASSUME ClientsAssumption == IsFiniteSet(Clients)
ASSUME MaxRequestsAssumption == MaxRequests \in [Clients -> Nat]
ASSUME WindowAssumption == Window \in [Clients -> Nat]
ASSUME MaxOpenAssumption == MaxOpen \in Nat \ {0}

VARIABLES
  service,   \* the io_service
  accepting, \* whether an async_accept is outstanding
  link,      \* link[c]: the connection of c, as the server's kernel sees it
  pending,   \* pending[c]: the operations outstanding in the session of c
  writebuf,  \* m_writebuf: the request that the reply in it answers
  cnx,       \* TcpServer::cnx
  executed,  \* executed[c]: how many requests of c were executed
  toServer,  \* toServer[c]: the parts of requests on their way
  toClient,  \* toClient[c]: the replies on their way
  sent,      \* sent[c]: how many requests c has sent
  received,  \* received[c]: the replies that c has got
  left       \* the clients that closed their end

sessionVars == <<accepting, link, pending, writebuf, cnx, executed>>
clientVars == <<sent, received, left>>
vars == <<service, sessionVars, toServer, toClient, clientVars>>

Operations == {"header", "body", "write"}

Parts == [part : {"header", "body"}, request : Nat \ {0}, good : BOOLEAN]

Open == {c \in Clients : pending[c] # {}}

ServerInit ==
  /\ service = "running"
  /\ accepting = TRUE
  /\ cnx = 0

(* No session yet, for any of the connections.                             *)
SessionsInit ==
  /\ link = [c \in Clients |-> "none"]
  /\ pending = [c \in Clients |-> {}]
  /\ writebuf = [c \in Clients |-> 0]
  /\ executed = [c \in Clients |-> 0]

Init ==
  /\ ServerInit
  /\ SessionsInit
  /\ toServer = [c \in Clients |-> <<>>]
  /\ toClient = [c \in Clients |-> <<>>]
  /\ sent = [c \in Clients |-> 0]
  /\ received = [c \in Clients |-> <<>>]
  /\ left = {}

-----------------------------------------------------------------------------
(* Clients, of any make: they may send without waiting for replies, leave  *)
(* replies unread, send a header with a length no buffer can have or a     *)
(* body that does not unpack, and close at any time.                       *)
Connect(c) ==
  /\ link[c] = "none"
  /\ service = "running"
  /\ link' = [link EXCEPT ![c] = "backlog"]
  /\ UNCHANGED <<service, accepting, pending, writebuf, cnx, executed,
                 toServer, toClient, clientVars>>

Connected(c) == link[c] # "none" /\ c \notin left

(* The last that c sent is a header, which may have been read already.     *)
OwesBody(c) ==
  IF toServer[c] = <<>> THEN "body" \in pending[c]
                        ELSE Last(toServer[c]).part = "header"

SendHeader(c) ==
  /\ Connected(c)
  /\ sent[c] < MaxRequests[c]
  /\ ~OwesBody(c)
  /\ \E g \in BOOLEAN :
       toServer' = [toServer EXCEPT ![c] =
         Append(@, [part |-> "header", request |-> sent[c] + 1, good |-> g])]
  /\ UNCHANGED <<service, sessionVars, toClient, clientVars>>

SendBody(c) ==
  /\ Connected(c)
  /\ sent[c] < MaxRequests[c]
  /\ OwesBody(c)
  /\ \E g \in BOOLEAN :
       toServer' = [toServer EXCEPT ![c] =
         Append(@, [part |-> "body", request |-> sent[c] + 1, good |-> g])]
  /\ sent' = [sent EXCEPT ![c] = @ + 1]
  /\ UNCHANGED <<service, sessionVars, toClient, received, left>>

TakeReply(c) ==
  /\ c \notin left
  /\ toClient[c] # <<>>
  /\ received' = [received EXCEPT ![c] = Append(@, Head(toClient[c]))]
  /\ toClient' = [toClient EXCEPT ![c] = Tail(@)]
  /\ UNCHANGED <<service, sessionVars, toServer, sent, left>>

Leave(c) ==
  /\ Connected(c)
  /\ left' = left \cup {c}
  /\ UNCHANGED <<service, sessionVars, toServer, toClient, sent, received>>

-----------------------------------------------------------------------------
(* Handlers, on the IO thread.                                             *)

(* Mutant of Continue: the last handler keeps the session, and its socket. *)
ContinueUnclosed(c, op, next) ==
  /\ pending' = [pending EXCEPT ![c] = (@ \ {op}) \cup next]
  /\ UNCHANGED <<cnx, link>>

(* The end of a handler of c: operation op is done, those in next are      *)
(* started, and if none is outstanding the session is destroyed, which     *)
(* counts it out and closes its socket.                                    *)
Continue(c, op, next) ==
  LET rest == (pending[c] \ {op}) \cup next IN
  /\ pending' = [pending EXCEPT ![c] = rest]
  /\ IF rest = {}
       THEN /\ cnx' = cnx - 1
            /\ link' = [link EXCEPT ![c] = "closed"]
       ELSE UNCHANGED <<cnx, link>>

(* A session is counted in, and reads a header.                            *)
Start(c) ==
  /\ link' = [link EXCEPT ![c] = "open"]
  /\ cnx' = cnx + 1
  /\ pending' = [pending EXCEPT ![c] = {"header"}]

Accept(c) ==
  /\ service = "running"
  /\ accepting
  /\ link[c] = "backlog"
  /\ Cardinality(Open) < MaxOpen
  /\ Start(c)
  /\ accepting' = TRUE
  /\ UNCHANGED <<service, writebuf, executed, toServer, toClient, clientVars>>

(* Mutant of AcceptFails: only a success accepts again.                    *)
AcceptFailsForGood(c) ==
  /\ service = "running"
  /\ accepting
  /\ link[c] = "backlog"
  /\ Cardinality(Open) = MaxOpen
  /\ accepting' = FALSE
  /\ UNCHANGED <<service, link, pending, writebuf, cnx, executed,
                 toServer, toClient, clientVars>>

(* No socket is left for the connection, which stays in the backlog; the   *)
(* handler accepts again all the same.                                     *)
AcceptFails(c) ==
  /\ service = "running"
  /\ accepting
  /\ link[c] = "backlog"
  /\ Cardinality(Open) = MaxOpen
  /\ accepting' = TRUE
  /\ UNCHANGED <<service, link, pending, writebuf, cnx, executed,
                 toServer, toClient, clientVars>>

Arrived(c, part) ==
  /\ service = "running"
  /\ part \in pending[c]
  /\ toServer[c] # <<>> /\ Head(toServer[c]).part = part

handle_read_header(c) ==
  /\ Arrived(c, "header")
  /\ Head(toServer[c]).good
  /\ toServer' = [toServer EXCEPT ![c] = Tail(@)]
  /\ Continue(c, "header", {"body"})
  /\ UNCHANGED <<service, accepting, writebuf, executed, toClient, clientVars>>

(* The end of the process in a handler of c, and of all its sockets.       *)
ProcessEnds(c) ==
  /\ toServer' = [toServer EXCEPT ![c] = Tail(@)]
  /\ service' = "destroyed"
  /\ accepting' = FALSE
  /\ cnx' = 0
  /\ pending' = [d \in Clients |-> {}]
  /\ link' = [d \in Clients |-> IF link[d] = "none" THEN "none" ELSE "closed"]
  /\ UNCHANGED <<writebuf, executed, toClient, clientVars>>

(* The length asks for more memory than there is, which nothing catches,   *)
(* or it wraps when the header's is added.                                 *)
header_ends(c) ==
  /\ Arrived(c, "header")
  /\ ~Head(toServer[c]).good
  /\ ProcessEnds(c)

(* Mutant of handle_read_body: the next header is read during the write.   *)
handle_read_body_eagerly(c) ==
  /\ Arrived(c, "body")
  /\ Head(toServer[c]).good
  /\ toServer' = [toServer EXCEPT ![c] = Tail(@)]
  /\ executed' = [executed EXCEPT ![c] = @ + 1]
  /\ writebuf' = [writebuf EXCEPT ![c] = Head(toServer[c]).request]
  /\ Continue(c, "body", {"write", "header"})
  /\ UNCHANGED <<service, accepting, toClient, clientVars>>

(* The statements of the request are executed, and the reply is packed.    *)
handle_read_body(c) ==
  /\ Arrived(c, "body")
  /\ Head(toServer[c]).good
  /\ toServer' = [toServer EXCEPT ![c] = Tail(@)]
  /\ executed' = [executed EXCEPT ![c] = @ + 1]
  /\ writebuf' = [writebuf EXCEPT ![c] = Head(toServer[c]).request]
  /\ Continue(c, "body", {"write"})
  /\ UNCHANGED <<service, accepting, toClient, clientVars>>

(* A statement throws, or it is QUIT: the process ends in the handler.     *)
execute_ends(c) ==
  /\ Arrived(c, "body")
  /\ Head(toServer[c]).good
  /\ ProcessEnds(c)

(* A body that does not unpack starts nothing, and nobody is told.         *)
unpack_fails(c) ==
  /\ Arrived(c, "body")
  /\ ~Head(toServer[c]).good
  /\ toServer' = [toServer EXCEPT ![c] = Tail(@)]
  /\ Continue(c, "body", {})
  /\ UNCHANGED <<service, accepting, writebuf, executed, toClient, clientVars>>

(* The client closed or reset the connection.                              *)
read_fails(c) ==
  /\ service = "running"
  /\ c \in left
  /\ \E op \in pending[c] \cap {"header", "body"} : Continue(c, op, {})
  /\ UNCHANGED <<service, accepting, writebuf, executed, toServer, toClient,
                 clientVars>>

(* The reply found room on its way, all of it.                             *)
handle_write(c) ==
  /\ service = "running"
  /\ "write" \in pending[c]
  /\ Len(toClient[c]) < Window[c]
  /\ toClient' = [toClient EXCEPT ![c] = Append(@, writebuf[c])]
  /\ Continue(c, "write", {"header"})
  /\ UNCHANGED <<service, accepting, writebuf, executed, toServer, clientVars>>

(* The client has read what came before, and reads the reply while it is   *)
(* written, which completes the write whatever the room.                   *)
TakeWrite(c) ==
  /\ service = "running"
  /\ "write" \in pending[c]
  /\ c \notin left
  /\ toClient[c] = <<>>
  /\ received' = [received EXCEPT ![c] = Append(@, writebuf[c])]
  /\ Continue(c, "write", {"header"})
  /\ UNCHANGED <<service, accepting, writebuf, executed, toServer, toClient,
                 sent, left>>

write_fails(c) ==
  /\ service = "running"
  /\ c \in left
  /\ "write" \in pending[c]
  /\ Continue(c, "write", {})
  /\ UNCHANGED <<service, accepting, writebuf, executed, toServer, toClient,
                 clientVars>>

-----------------------------------------------------------------------------
(* The main thread stops the io_service, after which no handler starts.    *)
(* server() returns and closes the acceptor.  The main thread deletes the  *)
(* server, whose io_service destroys the handlers it still holds and with  *)
(* them their sessions.                                                    *)
stop ==
  /\ service = "running"
  /\ service' = "stopped"
  /\ UNCHANGED <<sessionVars, toServer, toClient, clientVars>>

server_returns ==
  /\ service = "stopped"
  /\ accepting
  /\ accepting' = FALSE
  /\ link' = [c \in Clients |-> IF link[c] = "backlog" THEN "closed"
                                                      ELSE link[c]]
  /\ UNCHANGED <<service, pending, writebuf, cnx, executed,
                 toServer, toClient, clientVars>>

destroy ==
  /\ service = "stopped"
  /\ ~accepting
  /\ service' = "destroyed"
  /\ cnx' = cnx - Cardinality(Open)
  /\ pending' = [c \in Clients |-> {}]
  /\ link' = [c \in Clients |-> IF c \in Open THEN "closed" ELSE link[c]]
  /\ UNCHANGED <<accepting, writebuf, executed, toServer, toClient, clientVars>>

Handler(c) ==
  \/ Accept(c)
  \/ AcceptFails(c)
  \/ handle_read_header(c)
  \/ header_ends(c)
  \/ handle_read_body(c)
  \/ execute_ends(c)
  \/ unpack_fails(c)
  \/ read_fails(c)
  \/ handle_write(c)
  \/ write_fails(c)

Reads(c) == TakeReply(c) \/ TakeWrite(c)

Client(c) ==
  \/ Connect(c)
  \/ SendHeader(c)
  \/ SendBody(c)
  \/ Reads(c)
  \/ Leave(c)

Next ==
  \/ \E c \in Clients : Handler(c) \/ Client(c)
  \/ stop
  \/ server_returns
  \/ destroy

(* The IO thread runs the handlers that are ready, and epoll starves none; *)
(* clients need not do anything, and a write waits for them when there is  *)
(* no room.                                                                *)
Fairness == \A c \in Clients : WF_vars(Handler(c))

Spec == Init /\ [][Next]_vars

FairSpec == Spec /\ Fairness

-----------------------------------------------------------------------------
(* Every variable keeps to its range; in particular the connection count   *)
(* never becomes negative, nor larger than the sockets there are.          *)
TypeOK ==
  /\ service \in {"running", "stopped", "destroyed"}
  /\ accepting \in BOOLEAN
  /\ link \in [Clients -> {"none", "backlog", "open", "closed"}]
  /\ pending \in [Clients -> SUBSET Operations]
  /\ cnx \in 0..MaxOpen
  /\ toServer \in [Clients -> Seq(Parts)]
  /\ toClient \in [Clients -> Seq(Nat \ {0})]
  /\ received \in [Clients -> Seq(Nat \ {0})]
  /\ \A c \in Clients : {writebuf[c], executed[c], sent[c]} \subseteq 0..MaxRequests[c]
  /\ left \subseteq Clients

(* The connections that STATUS reports are the sessions that exist, no     *)
(* matter which of the ways a session can end each of them took.           *)
CountIsOpen == cnx = Cardinality(Open)

(* A session uses its buffers for one operation at a time, although the    *)
(* client may have sent several requests.                                  *)
OneOperation == \A c \in Clients : Cardinality(pending[c]) <= 1

(* Whatever breaks a connection, at most one request was executed whose    *)
(* answer is lost.                                                         *)
AtMostOneUnanswered ==
  \A c \in Clients :
    executed[c] - Len(received[c] \o toClient[c]) \in {0, 1}

Promised == INSTANCE Conversation WITH
  asked <- sent,
  answers <- [c \in Clients |-> received[c] \o toClient[c]],
  over <- {c \in Clients : link[c] = "closed"}

(* The replies of a connection are those to its requests, in their order.  *)
KeepsConversation == Promised!Spec

(* No request of a client that goes on reading is left without an answer   *)
(* while the connection lasts, whatever the other clients read.            *)
RequestsEnd ==
  \A c \in Clients :
    WF_vars(Reads(c)) => \A n \in 1..MaxRequests[c] :
      (sent[c] = n /\ link[c] # "backlog") ~>
        \/ Len(received[c] \o toClient[c]) >= n
        \/ link[c] = "closed"
        \/ service # "running"

(* No session outlives its client, so that its socket is free again.       *)
SessionsEnd ==
  \A c \in Clients :
    (c \in left /\ link[c] = "open") ~>
      link[c] = "closed" \/ service # "running"

(* A connection that found the process out of sockets is accepted once the *)
(* others are gone, without another connection to wake the acceptor.       *)
BacklogEnds ==
  \A c \in Clients :
    (link[c] = "backlog" /\ Clients \ {c} \subseteq left) ~>
      link[c] # "backlog" \/ service # "running"
=============================================================================
