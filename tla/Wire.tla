--------------------------------- MODULE Wire ---------------------------------
(***************************************************************************)
(* What a session and its client make of the bytes of their messages: the  *)
(* client serialises a QueryRequest, the session parses it into the one    *)
(* message that it keeps for all of its requests, the reply is a new       *)
(* QueryResponse, and the client parses a buffer of zeros in which the     *)
(* reply, or what arrived of it, was read.                                 *)
(***************************************************************************)
EXTENDS Integers, SequencesExt

CONSTANTS Statements,  \* what a client may ask
          Times,       \* timestamps and durations, as text
          Rows,        \* rows of three terms that a statement may give
          MaxRows,     \* the rows of one reply
          Strange,     \* what other clients send behind a request
          MaxAccesses  \* accessors that they call on a message

ASSUME TextsAssumption ==
  /\ Statements \cup Times \cup Strange \subseteq Seq(Nat)
  /\ Rows \subseteq Seq(Nat) \X Seq(Nat) \X Seq(Nat)

ASSUME MaxRowsAssumption == MaxRows \in Nat

Req == INSTANCE QueryRequest
Res == INSTANCE QueryResponse

VARIABLES asked,      \* the request, as the client has it
          sent,       \* its bytes
          m_request,  \* the message of the session
          rows,       \* what its statements gave
          reply,      \* the bytes that the client has in its buffer
          shown,      \* the response that the client returns
          accesses,   \* the accessors that were called on a message
          stage

vars == <<asked, sent, m_request, rows, reply, shown, accesses, stage>>

Init ==
  /\ asked = Req!New /\ sent = <<>>
  /\ m_request = Req!New
  /\ rows = <<>> /\ reply = <<>> /\ shown = Res!New
  /\ accesses = 0
  /\ stage = "idle"

-----------------------------------------------------------------------------
(* The shell: one statement and a timestamp in a new message.              *)
Ask ==
  /\ stage = "idle"
  /\ \E statement \in Statements, time \in Times :
       asked' = Req!set_timestamp(Req!add_query(Req!New, statement), time)
  /\ sent' = Req!SerializeWithCachedSizes(asked')
  /\ stage' = "asked"
  /\ UNCHANGED <<m_request, rows, reply, shown, accesses>>

(* Another client changes its message as it likes, ...                     *)
Prepare ==
  /\ stage \in {"idle", "prepared"}
  /\ accesses < MaxAccesses
  /\ asked' \in Req!Accesses(asked, Statements, Times)
                  \cup {Req!Swap(asked, Req!add_query(Req!New, text))[1] : text \in Statements}
  /\ accesses' = accesses + 1
  /\ stage' = "prepared"
  /\ UNCHANGED <<sent, m_request, rows, reply, shown>>

(* ... and sends it, with fields that the server does not know, or bytes   *)
(* that are no message, behind it.                                         *)
AskOtherwise ==
  /\ stage \in {"idle", "prepared"}
  /\ \E strange \in Strange :
       /\ sent' = Req!SerializeWithCachedSizes(asked) \o strange
       /\ asked' = IF strange = <<>> THEN asked ELSE Req!ParseFromArray(Req!New, sent').msg
  /\ stage' = "asked"
  /\ UNCHANGED <<m_request, rows, reply, shown, accesses>>

(* A session whose message does not parse ends.                            *)
Unpack ==
  /\ stage = "asked"
  /\ LET parsed == Req!ParseFromArray(m_request, sent) IN
       /\ m_request' = parsed.msg
       /\ stage' = IF parsed.ok THEN "unpacked" ELSE "closed"
  /\ UNCHANGED <<asked, sent, rows, reply, shown, accesses>>

Record(row) ==
  Res!Record!set_object(Res!Record!set_predicate(Res!Record!set_subject(
    Res!Record!New, row[1]), row[2]), row[3])

Response(result, time) ==
  LET resp[n \in 0..Len(result)] ==
        IF n = 0 THEN Res!set_timestamp(Res!New, time)
        ELSE Res!add_data(resp[n - 1], Record(result[n]))
  IN resp[Len(result)]

(* The statements are executed; the client is done with its request.       *)
Respond ==
  /\ stage = "unpacked"
  /\ rows' \in SeqOf(Rows, MaxRows)
  /\ \E time \in Times : reply' = Res!SerializeWithCachedSizes(Response(rows', time))
  /\ asked' = Req!New /\ sent' = <<>> /\ accesses' = 0
  /\ stage' = "answered"
  /\ UNCHANGED <<m_request, shown>>

(* The server dies while it answers: the rest of the buffer stays zero.    *)
Cut ==
  /\ stage = "answered"
  /\ \E k \in 0..Len(reply) - 1 :
       reply' = SubSeq(reply, 1, k) \o [i \in 1..Len(reply) - k |-> 0]
  /\ stage' = "cut"
  /\ UNCHANGED <<asked, sent, m_request, rows, shown, accesses>>

(* Not even a header came: the buffer is as long as a header of zeros says.*)
Lose ==
  /\ stage = "answered"
  /\ reply' = <<>>
  /\ stage' = "lost"
  /\ UNCHANGED <<asked, sent, m_request, rows, shown, accesses>>

(* connect returns a copy of the message; when it does not parse, the      *)
(* client exits.                                                           *)
Read ==
  /\ stage \in {"answered", "cut", "lost"}
  /\ LET parsed == Res!ParseFromArray(Res!New, reply) IN
       /\ shown' = IF parsed.ok THEN Res!MergeFrom(Res!New, parsed.msg) ELSE shown
       /\ stage' = CASE ~parsed.ok -> "closed"
                     [] parsed.ok /\ stage = "answered" -> "read"
                     [] parsed.ok /\ stage = "cut" -> "read cut"
                     [] OTHER -> "read nothing"
  /\ UNCHANGED <<asked, sent, m_request, rows, reply, accesses>>

(* A client that goes on with the response as its own.                     *)
Adapt ==
  /\ stage \in {"read", "adapted"}
  /\ accesses < MaxAccesses
  /\ shown' \in Res!Accesses(shown, Times)
                  \cup {Res!Swap(shown, Response(<<>>, time))[1] : time \in Times}
  /\ accesses' = accesses + 1
  /\ stage' = "adapted"
  /\ UNCHANGED <<asked, sent, m_request, rows, reply>>

Finish ==
  /\ asked' = Req!New /\ sent' = <<>> /\ accesses' = 0
  /\ rows' = <<>> /\ reply' = <<>> /\ shown' = Res!New
  /\ stage' = "idle"

Continue ==
  /\ stage \in {"read", "adapted"}
  /\ Finish
  /\ UNCHANGED m_request

(* Another connection, with a session and a message of its own.            *)
Reconnect ==
  /\ stage \in {"closed", "read cut", "read nothing"}
  /\ Finish
  /\ m_request' = Req!New

Next ==
  \/ Ask \/ Prepare \/ AskOtherwise \/ Unpack \/ Respond
  \/ Cut \/ Lose \/ Read \/ Adapt \/ Continue \/ Reconnect

Spec == Init /\ [][Next]_vars

-----------------------------------------------------------------------------
(* Every field that is not set reads as the empty string, after Clear as in*)
(* a new message, and the empty string that all messages share is empty.   *)
TypeOK ==
  /\ stage \in {"idle", "prepared", "asked", "unpacked", "answered", "cut", "lost",
                "read", "read cut", "read nothing", "adapted", "closed"}
  /\ rows \in SeqOf(Rows, MaxRows)
  /\ Req!IsRequest(asked) /\ Req!IsRequest(m_request) /\ Res!IsResponse(shown)

(* The session reads from a request what was asked, whatever the message   *)
(* held before: the statements of one request are never executed in the    *)
(* next.                                                                   *)
RequestArrives == stage = "unpacked" => Req!Read(m_request) = Req!Read(asked)

(* A response that the client takes for good has the rows that the         *)
(* statement gave, even if it was cut on its way; only without a header is *)
(* it the empty response.                                                  *)
RowsArrive ==
  /\ stage \in {"read", "read cut"} =>
       shown.data = [i \in DOMAIN rows |-> Record(rows[i])]
  /\ stage = "read nothing" => shown = Res!New

(* pack makes the buffer as long as ByteSize says, and the serialisation   *)
(* writes into it without looking at its end.                              *)
SizeIsRight ==
  /\ \A msg \in {asked, m_request} :
       Req!ByteSize(msg) = Len(Req!SerializeWithCachedSizes(msg))
  /\ Res!ByteSize(shown) = Len(Res!SerializeWithCachedSizes(shown))

(* Two requests in one buffer parse as the merge of the two, and a copy    *)
(* over a message that was used before is the message it is a copy of.     *)
ConcatenationMerges ==
  stage = "unpacked" =>
    /\ Req!Read(Req!ParseFromArray(Req!New, sent \o sent).msg)
         = Req!Read(Req!MergeFrom(asked, asked))
    /\ Req!Read(Req!CopyFrom(m_request, asked)) = Req!Read(asked)
=============================================================================
