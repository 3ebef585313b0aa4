----------------------------- MODULE QueryResponse -----------------------------
(***************************************************************************)
(* The generated class QueryResponse:                                      *)
(* repeated Record data = 1; optional string timestamp = 2.                *)
(***************************************************************************)
EXTENDS StringField

Record == INSTANCE QueryResponse_Record

New == [data |-> <<>>, timestamp |-> Unset, unknown |-> <<>>]

add_data(msg, record) == [msg EXCEPT !.data = Append(@, record)]

set_timestamp(msg, text) == [msg EXCEPT !.timestamp = set(text)]

OfRecord(record, texts) ==
  Record!Accesses(record, texts) \cup {Record!Swap(record, Record!New)[1]}

(* The message after any one of its accessors, or one of a record's.       *)
Accesses(msg, texts) ==
  {add_data(msg, Record!New), [msg EXCEPT !.data = <<>>]}
    \cup (UNION {{[msg EXCEPT !.data[i] = record] : record \in OfRecord(msg.data[i], texts)} :
                 i \in DOMAIN msg.data})
    \cup {[msg EXCEPT !.timestamp = field] : field \in Accessed(msg.timestamp, texts)}

(* An object of the class: records, and a field for the timestamp.         *)
IsResponse(msg) ==
  /\ IsField(msg.timestamp)
  /\ \A i \in DOMAIN msg.data : Record!IsRecord(msg.data[i])

Clear(msg) == [data |-> <<>>, timestamp |-> Cleared(msg.timestamp), unknown |-> <<>>]

(* A record must parse, and up to the end of its body.                     *)
TakeRecord(read, body) ==
  LET record == Record!MergePartialFromCodedStream(Record!New, body) IN
  [msg |-> add_data(read.msg, record.msg), ok |-> record.ok /\ record.entire]

Take(read, field) ==
  CASE ~read.ok -> read
    [] read.ok /\ field.number = 1 /\ field.wire = LENGTH_DELIMITED ->
         TakeRecord(read, field.body)
    [] read.ok /\ field.number = 2 /\ field.wire = LENGTH_DELIMITED ->
         [read EXCEPT !.msg = set_timestamp(@, field.body)]
    [] OTHER -> [read EXCEPT !.msg.unknown = Append(@, field)]

TakeAll(msg, fields) ==
  LET after[n \in 0..Len(fields)] ==
        IF n = 0 THEN [msg |-> msg, ok |-> TRUE] ELSE Take(after[n - 1], fields[n])
  IN after[Len(fields)]

MergePartialFromCodedStream(msg, bytes) ==
  LET read == ReadFields(bytes)
      taken == TakeAll(msg, read.fields)
  IN [msg |-> taken.msg, ok |-> taken.ok /\ read.ok, entire |-> read.entire]

(* Mutant of IsInitialized: the records are not looked at.                 *)
IsInitializedItself(msg) == TRUE

IsInitialized(msg) == \A i \in DOMAIN msg.data : Record!IsInitialized(msg.data[i])

ParseFromArray(msg, bytes) ==
  LET parsed == MergePartialFromCodedStream(Clear(msg), bytes) IN
  [msg |-> parsed.msg, ok |-> parsed.ok /\ parsed.entire /\ IsInitialized(parsed.msg)]

(* Mutant of SerializeWithCachedSizes: the timestamp comes first.          *)
SerializeTimestampFirst(msg) ==
  WriteField(2, msg.timestamp)
    \o FlattenSeq([i \in DOMAIN msg.data |->
         WriteString(1, Record!SerializeWithCachedSizes(msg.data[i]))])

SerializeWithCachedSizes(msg) ==
  FlattenSeq([i \in DOMAIN msg.data |->
       WriteString(1, Record!SerializeWithCachedSizes(msg.data[i]))])
    \o WriteField(2, msg.timestamp)
    \o SerializeUnknownFields(msg.unknown)

(* Mutant of ByteSize: the length bytes of the records are left out.       *)
ByteSizeOfBodies(msg) ==
  FieldSize(msg.timestamp)
    + Len(msg.data)
    + Total([i \in DOMAIN msg.data |-> Record!ByteSize(msg.data[i])])
    + Len(SerializeUnknownFields(msg.unknown))

ByteSize(msg) ==
  FieldSize(msg.timestamp)
    + Len(msg.data)
    + Total([i \in DOMAIN msg.data |-> 1 + Record!ByteSize(msg.data[i])])
    + Len(SerializeUnknownFields(msg.unknown))

MergeFrom(msg, from) ==
  [data      |-> msg.data \o from.data,
   timestamp |-> Merged(msg.timestamp, from.timestamp),
   unknown   |-> msg.unknown \o from.unknown]

CopyFrom(msg, from) == MergeFrom(Clear(msg), from)

(* Both messages afterwards.                                               *)
Swap(msg, other) == <<other, msg>>
=============================================================================
