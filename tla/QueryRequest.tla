----------------------------- MODULE QueryRequest -----------------------------
(***************************************************************************)
(* The generated class QueryRequest:                                       *)
(* repeated string query = 1; optional string timestamp = 2.               *)
(***************************************************************************)
EXTENDS StringField

New == [query |-> <<>>, timestamp |-> Unset, unknown |-> <<>>]

add_query(msg, text) == [msg EXCEPT !.query = Append(@, text)]

set_timestamp(msg, text) == [msg EXCEPT !.timestamp = set(text)]

(* The message after any one of its accessors.                             *)
Accesses(msg, queries, times) ==
  {add_query(msg, text) : text \in queries}
    \cup {[msg EXCEPT !.query[i] = text] : i \in DOMAIN msg.query, text \in queries}
    \cup {[msg EXCEPT !.query = <<>>]}
    \cup {[msg EXCEPT !.timestamp = field] : field \in Accessed(msg.timestamp, times)}

(* An object of the class: its statements are texts, its timestamp a field.*)
IsRequest(msg) == IsField(msg.timestamp)

(* What the getters of a message say.                                      *)
Read(msg) == <<msg.query, Value(msg.timestamp), msg.unknown>>

(* Mutant of Clear: the statements stay.                                   *)
ClearTimestamp(msg) == [msg EXCEPT !.timestamp = Cleared(@), !.unknown = <<>>]

Clear(msg) == [query |-> <<>>, timestamp |-> Cleared(msg.timestamp), unknown |-> <<>>]

(* One turn of the loop: a field whose number or wire type is not expected *)
(* is kept as unknown.                                                     *)
Take(msg, field) ==
  CASE field.number = 1 /\ field.wire = LENGTH_DELIMITED -> add_query(msg, field.body)
    [] field.number = 2 /\ field.wire = LENGTH_DELIMITED -> set_timestamp(msg, field.body)
    [] OTHER -> [msg EXCEPT !.unknown = Append(@, field)]

TakeAll(msg, fields) ==
  LET after[n \in 0..Len(fields)] == IF n = 0 THEN msg ELSE Take(after[n - 1], fields[n])
  IN after[Len(fields)]

MergePartialFromCodedStream(msg, bytes) ==
  LET read == ReadFields(bytes) IN
  [msg |-> TakeAll(msg, read.fields), ok |-> read.ok, entire |-> read.entire]

IsInitialized(msg) == TRUE

(* MessageLite, which calls the generated methods.                         *)
ParseFromArray(msg, bytes) ==
  LET parsed == MergePartialFromCodedStream(Clear(msg), bytes) IN
  [msg |-> parsed.msg, ok |-> parsed.ok /\ parsed.entire /\ IsInitialized(parsed.msg)]

SerializeWithCachedSizes(msg) ==
  FlattenSeq([i \in DOMAIN msg.query |-> WriteString(1, msg.query[i])])
    \o WriteField(2, msg.timestamp)
    \o SerializeUnknownFields(msg.unknown)

ByteSize(msg) ==
  FieldSize(msg.timestamp)
    + Len(msg.query)
    + Total([i \in DOMAIN msg.query |-> StringSize(msg.query[i])])
    + Len(SerializeUnknownFields(msg.unknown))

(* Mutant of MergeFrom: the statements of the other replace one's own.     *)
MergeFromReplacing(msg, from) ==
  [query     |-> from.query,
   timestamp |-> Merged(msg.timestamp, from.timestamp),
   unknown   |-> msg.unknown \o from.unknown]

MergeFrom(msg, from) ==
  [query     |-> msg.query \o from.query,
   timestamp |-> Merged(msg.timestamp, from.timestamp),
   unknown   |-> msg.unknown \o from.unknown]

CopyFrom(msg, from) == MergeFrom(Clear(msg), from)

(* Both messages afterwards.                                               *)
Swap(msg, other) == <<other, msg>>
=============================================================================
