-------------------------------- MODULE Shell --------------------------------
(***************************************************************************)
(* One connection, byte by byte: the shell with its client, TcpClient or   *)
(* UnixSocketClient, or another client that sends ahead; the two streams,  *)
(* which deliver in pieces and may end anywhere; and the session of the    *)
(* server that reads requests and writes replies.                          *)
(*                                                                         *)
(* Both ends ask for exactly a header and then for exactly the body that   *)
(* the header announces.  The session stops at an error.  The client looks *)
(* at the error of its write, which throws, and at none of its reads: what *)
(* was not read is zeros in its buffer.                                    *)
(***************************************************************************)
EXTENDS PackedMessage

CONSTANTS
  MaxStatements,   \* bound: the requests on the connection
  Window           \* how many bytes of replies the client's end takes unread

ASSUME MaxStatementsAssumption == MaxStatements \in Nat
ASSUME WindowAssumption == Window \in Nat \ {0}

VARIABLES
  kind,       \* the client: tcp, unix or other
  stage,      \* of the shell: start, prompt, header, body, exited, crashed
  sent,       \* the requests that the client packed
  shown,      \* the results that the shell printed
  readbuf,    \* m_readbuf of the client, as far as it is filled
  toServer,   \* the bytes on their way, in either direction
  toClient,
  open,       \* whether the client has its end open
  link,       \* whether the server has its end: up, or down for good
  reading,    \* what the session waits for: header, body, write or none
  sessionbuf, \* m_readbuf of the session, as far as it is filled
  writebuf,   \* m_writebuf of the session, as far as it is not written
  unpacked,   \* the requests that the session unpacked, and executed
  replies     \* the responses that it packed

clientVars == <<kind, stage, sent, shown, readbuf, open>>
sessionVars == <<link, reading, sessionbuf, writebuf, unpacked, replies>>
vars == <<clientVars, toServer, toClient, sessionVars>>

(* The result of a reply that was unpacked, and of memory that was never   *)
(* written.                                                                *)
Reply(body) == [from |-> "buffer", body |-> body]
Garbage == [from |-> "memory", body |-> <<>>]

(* The two clients of the shell; any other is not ours.                    *)
ClientKinds == {"tcp", "unix"}

(* The size of the buffer that an outstanding read fills.                  *)
BufferSize(read, buf) ==
  IF read = "header" THEN HEADER_SIZE ELSE HEADER_SIZE + decode_header(buf)

Full(read, buf) == Len(buf) = BufferSize(read, buf)

Init ==
  /\ kind \in ClientKinds \cup {"other"}
  /\ stage = IF kind = "other" THEN "prompt" ELSE "start"
  /\ sent = <<>> /\ shown = <<>> /\ readbuf = <<>>
  /\ toServer = <<>> /\ toClient = <<>>
  /\ open = TRUE
  /\ link \in {"up", "down"}
  /\ reading = "header"
  /\ sessionbuf = <<>> /\ writebuf = <<>> /\ unpacked = <<>> /\ replies = <<>>

-----------------------------------------------------------------------------
(* The client's constructor connects, or ends the process.                 *)
Connected == IF link = "up" THEN "prompt" ELSE "exited"

Construct ==
  /\ stage = "start"
  /\ stage' = Connected
  /\ UNCHANGED <<kind, sent, shown, readbuf, open, toServer, toClient, sessionVars>>

(* The table of command names has no end for the generator to find: it     *)
(* reads on behind it, until it meets a null or something worse.           *)
my_completion ==
  /\ stage = "prompt" /\ kind \in ClientKinds
  /\ stage' \in {"prompt", "crashed"}
  /\ UNCHANGED <<kind, sent, shown, readbuf, open, toServer, toClient, sessionVars>>

(* The client's destructor closes a socket whose io_service was destroyed  *)
(* with the constructor, and a shutdown that fails throws out of it.       *)
Destructor == stage' \in {"exited", "crashed"}

(* QUIT, or the end of the input, ends the shell and not the server.  A    *)
(* client that is killed may leave a part of a request on the stream.      *)
Leave ==
  /\ open /\ stage # "start"
  /\ open' = FALSE
  /\ Destructor
  /\ \E n \in 0..Len(toServer) :
       /\ n = Len(toServer) \/ stage # "prompt" \/ kind = "other"
       /\ toServer' = SubSeq(toServer, 1, n)
  /\ UNCHANGED <<kind, sent, shown, readbuf, toClient, sessionVars>>

(* A write to a connection that is down may still go through.              *)
Send(body) ==
  /\ sent' = Append(sent, body)
  /\ toServer' = IF link = "up" THEN toServer \o pack(body) ELSE toServer

(* connect() writes a request for a statement whose first word is a        *)
(* command; others stay in the shell.                                      *)
Write ==
  /\ stage = "prompt"
  /\ Len(sent) < MaxStatements
  /\ \E body \in Messages : Send(body)
  /\ stage' = IF kind = "other" THEN "prompt" ELSE "header"
  /\ readbuf' = <<>>
  /\ UNCHANGED <<kind, shown, open, toClient, sessionVars>>

(* The result is printed, and the prompt again.                            *)
printQueryResult(result) ==
  /\ shown' = Append(shown, result)
  /\ stage' = "prompt"

(* connect() runs off its end without a response to return.                *)
NoReturn ==
  \/ stage' = "crashed" /\ UNCHANGED shown
  \/ printQueryResult(Garbage)

WriteThrows ==
  /\ stage = "prompt" /\ kind # "other"
  /\ Len(sent) < MaxStatements
  /\ link = "down"
  /\ \E body \in Messages : sent' = Append(sent, body)
  /\ NoReturn
  /\ UNCHANGED <<kind, readbuf, open, toServer, toClient, sessionVars>>

unpack_fails ==
  IF kind = "tcp" THEN stage' = "exited" /\ UNCHANGED shown
                  ELSE NoReturn

-----------------------------------------------------------------------------
(* A piece of the reply; the read goes on while its buffer has room.       *)
ClientReads ==
  /\ stage \in {"header", "body"}
  /\ \E n \in 1..Len(toClient) :
       /\ Len(readbuf) + n <= BufferSize(stage, readbuf)
       /\ readbuf' = readbuf \o SubSeq(toClient, 1, n)
       /\ toClient' = SubSeq(toClient, n + 1, Len(toClient))
  /\ UNCHANGED <<kind, stage, sent, shown, open, toServer, sessionVars>>

(* Mutant of ReadEnds: a read that got nothing is tried again.             *)
ReadEndsFull == Full(stage, readbuf)

(* A read of the client returns: its buffer is full, or the stream ended,  *)
(* and then the buffer has zeros for the rest.                             *)
ReadEnds == Full(stage, readbuf) \/ (link = "down" /\ toClient = <<>>)

HeaderRead ==
  /\ stage = "header"
  /\ ReadEnds
  /\ readbuf' = Padded(readbuf, HEADER_SIZE)
  /\ stage' = "body"
  /\ UNCHANGED <<kind, sent, shown, open, toServer, toClient, sessionVars>>

(* Mutant of BodyRead: the shell does not wait for the body.               *)
BodyReadEarly ==
  /\ stage = "body"
  /\ printQueryResult(Reply(unpack(readbuf)))
  /\ readbuf' = <<>>
  /\ UNCHANGED <<kind, sent, open, toServer, toClient, sessionVars>>

BodyRead ==
  /\ stage = "body"
  /\ ReadEnds
  /\ LET body == unpack(Padded(readbuf, BufferSize(stage, readbuf))) IN
       IF body \in Messages THEN printQueryResult(Reply(body)) ELSE unpack_fails
  /\ readbuf' = <<>>
  /\ UNCHANGED <<kind, sent, open, toServer, toClient, sessionVars>>

(* A client that is not ours may read replies, only to forget them.        *)
Discards ==
  /\ kind = "other" /\ open
  /\ \E n \in 1..Len(toClient) : toClient' = SubSeq(toClient, n + 1, Len(toClient))
  /\ UNCHANGED <<clientVars, toServer, sessionVars>>

-----------------------------------------------------------------------------
(* The session of the server.                                              *)
Receives == link = "up" /\ reading \in {"header", "body"}

SessionReads ==
  /\ Receives
  /\ \E n \in 1..Len(toServer) :
       /\ Len(sessionbuf) + n <= BufferSize(reading, sessionbuf)
       /\ sessionbuf' = sessionbuf \o SubSeq(toServer, 1, n)
       /\ toServer' = SubSeq(toServer, n + 1, Len(toServer))
  /\ UNCHANGED <<clientVars, toClient, link, reading, writebuf, unpacked, replies>>

(* The header is complete: m_readbuf grows by the body.                    *)
parseMessage ==
  /\ link = "up" /\ reading = "header"
  /\ Full(reading, sessionbuf)
  /\ reading' = "body"
  /\ UNCHANGED <<clientVars, toServer, toClient, link, sessionbuf, writebuf,
                 unpacked, replies>>

(* The body is complete: the request is unpacked and executed, the reply   *)
(* packed, and its write started.                                          *)
handle_read_body ==
  /\ link = "up" /\ reading = "body"
  /\ Full(reading, sessionbuf)
  /\ unpacked' = Append(unpacked, unpack(sessionbuf))
  /\ \E body \in Messages :
       /\ replies' = Append(replies, body)
       /\ writebuf' = pack(body)
  /\ reading' = "write"
  /\ UNCHANGED <<clientVars, toServer, toClient, link, sessionbuf>>

(* As much of the reply as finds room on its way to the client.            *)
SessionWrites ==
  /\ link = "up" /\ reading = "write"
  /\ writebuf # <<>> /\ Len(toClient) < Window
  /\ LET n == Min({Len(writebuf), Window - Len(toClient)}) IN
       /\ toClient' = toClient \o SubSeq(writebuf, 1, n)
       /\ writebuf' = SubSeq(writebuf, n + 1, Len(writebuf))
  /\ UNCHANGED <<clientVars, toServer, link, reading, sessionbuf, unpacked, replies>>

Written == link = "up" /\ reading = "write" /\ writebuf = <<>>

(* Mutant of handle_write: m_readbuf is not resized for the next read.     *)
handle_write_stale ==
  /\ Written
  /\ reading' = "header"
  /\ UNCHANGED <<clientVars, toServer, toClient, link, sessionbuf, writebuf,
                 unpacked, replies>>

(* The reply is written: the next header is read into a buffer of its size. *)
handle_write ==
  /\ Written
  /\ reading' = "header"
  /\ sessionbuf' = <<>>
  /\ UNCHANGED <<clientVars, toServer, toClient, link, writebuf, unpacked, replies>>

(* The session is destroyed, and what it had not read or written is lost.  *)
SessionEnds ==
  /\ link = "up"
  /\ link' = "down"
  /\ reading' = "none"
  /\ writebuf' = <<>>
  /\ toServer' = <<>>
  /\ UNCHANGED <<clientVars, sessionbuf, unpacked, replies>>

(* The stream ended before the buffer was full.                            *)
ReadFails ==
  /\ Receives
  /\ ~open /\ toServer = <<>>
  /\ ~Full(reading, sessionbuf)
  /\ SessionEnds
  /\ UNCHANGED toClient

(* The client closed its end before the reply was written.                 *)
WriteFails ==
  /\ reading = "write" /\ writebuf # <<>>
  /\ ~open
  /\ SessionEnds
  /\ UNCHANGED toClient

(* The server dies, perhaps in the middle of a reply.                      *)
Break ==
  /\ SessionEnds
  /\ \E n \in 0..Len(toClient) : toClient' = SubSeq(toClient, 1, n)

Client ==
  \/ Construct
  \/ my_completion
  \/ Leave
  \/ Write
  \/ WriteThrows
  \/ Discards

Reads == ClientReads \/ HeaderRead \/ BodyRead

Session ==
  \/ SessionReads
  \/ parseMessage
  \/ handle_read_body
  \/ SessionWrites
  \/ handle_write
  \/ ReadFails
  \/ WriteFails

Next == Client \/ Reads \/ Session \/ Break

(* Bytes arrive, and a read or a write that is complete or has failed      *)
(* returns.  The user need not type anything, the server need not die, and *)
(* a client that is not ours need not read.                                *)
Fairness == WF_vars(Reads) /\ WF_vars(Session)

Spec == Init /\ [][Next]_vars

FairSpec == Spec /\ Fairness

-----------------------------------------------------------------------------
(* What is on the streams and in the buffers stays bytes, and the shell    *)
(* has at most one request without a result.                               *)
TypeOK ==
  /\ kind \in ClientKinds \cup {"other"}
  /\ stage \in {"start", "prompt", "header", "body", "exited", "crashed"}
  /\ {toServer, toClient, readbuf, sessionbuf, writebuf} \subseteq Seq(Byte)
  /\ {sent, unpacked, replies} \subseteq Seq(Messages)
  /\ shown \in Seq([from : {"buffer"}, body : Messages] \cup {Garbage})
  /\ kind # "other" => Len(sent) - Len(shown) \in {0, 1}
  /\ link \in {"up", "down"} /\ open \in BOOLEAN
  /\ reading \in {"header", "body", "write", "none"}

(* However the streams are cut into pieces, and wherever they end, the     *)
(* session unpacks the requests that were sent, whole and in order.        *)
MessagesKept == IsPrefix(unpacked, sent)

(* Every request of a client that goes on reading, as ours do, is executed *)
(* unless one of the two ends goes away.                                   *)
MessagesArrive ==
  WF_vars(Discards) => \A n \in 1..MaxStatements :
    Len(sent) = n ~> Len(unpacked) >= n \/ ~open \/ link = "down"

(* The result printed for a statement is the reply to that very statement. *)
(* Once the connection is down it may be a beginning of that reply, filled *)
(* up with zeros, or garbage, but never the reply to another one.          *)
ResultBelongs ==
  \A n \in DOMAIN shown :
    \/ n <= Len(replies) /\ shown[n] = Reply(replies[n])
    \/ link = "down" /\ shown[n] = Garbage
    \/ LET reply == IF n <= Len(replies) THEN replies[n] ELSE <<>> IN
       /\ link = "down"
       /\ \E k \in 0..Len(reply) :
            shown[n].body = Padded(SubSeq(reply, 1, k), Len(shown[n].body))

(* A shell that waits for a reply comes back: it does not wait for a       *)
(* server that is gone.                                                    *)
PromptReturns == stage \in {"header", "body"} ~> stage \notin {"header", "body"}
=============================================================================
