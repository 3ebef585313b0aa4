------------------------- MODULE QueryResponse_Record -------------------------
(***************************************************************************)
(* The generated class QueryResponse::Record: three required strings,      *)
(* subject = 1, predicate = 2 and object = 3.                              *)
(***************************************************************************)
EXTENDS StringField

Fields == <<"subject", "predicate", "object">>

New == [subject |-> Unset, predicate |-> Unset, object |-> Unset, unknown |-> <<>>]

set_subject(msg, text) == [msg EXCEPT !.subject = set(text)]
set_predicate(msg, text) == [msg EXCEPT !.predicate = set(text)]
set_object(msg, text) == [msg EXCEPT !.object = set(text)]

subject(msg) == msg.subject.text
predicate(msg) == msg.predicate.text
object(msg) == msg.object.text

(* The message after any one of the accessors of a field, and of all.      *)
SubjectAccesses(msg, texts) ==
  {[msg EXCEPT !.subject = field] : field \in Accessed(msg.subject, texts)}

PredicateAccesses(msg, texts) ==
  {[msg EXCEPT !.predicate = field] : field \in Accessed(msg.predicate, texts)}

ObjectAccesses(msg, texts) ==
  {[msg EXCEPT !.object = field] : field \in Accessed(msg.object, texts)}

Accesses(msg, texts) ==
  SubjectAccesses(msg, texts) \cup PredicateAccesses(msg, texts) \cup ObjectAccesses(msg, texts)

(* An object of the class: three fields.                                   *)
IsRecord(msg) == \A i \in DOMAIN Fields : IsField(msg[Fields[i]])

Clear(msg) ==
  [subject |-> Cleared(msg.subject), predicate |-> Cleared(msg.predicate),
   object |-> Cleared(msg.object), unknown |-> <<>>]

Take(msg, field) ==
  IF field.number \in DOMAIN Fields /\ field.wire = LENGTH_DELIMITED
    THEN [msg EXCEPT ![Fields[field.number]] = set(field.body)]
    ELSE [msg EXCEPT !.unknown = Append(@, field)]

TakeAll(msg, fields) ==
  LET after[n \in 0..Len(fields)] == IF n = 0 THEN msg ELSE Take(after[n - 1], fields[n])
  IN after[Len(fields)]

MergePartialFromCodedStream(msg, bytes) ==
  LET read == ReadFields(bytes) IN
  [msg |-> TakeAll(msg, read.fields), ok |-> read.ok, entire |-> read.entire]

IsInitialized(msg) == \A i \in DOMAIN Fields : msg[Fields[i]].has

SerializeWithCachedSizes(msg) ==
  FlattenSeq([i \in DOMAIN Fields |-> WriteField(i, msg[Fields[i]])])
    \o SerializeUnknownFields(msg.unknown)

ByteSize(msg) ==
  FieldSize(msg.subject) + FieldSize(msg.predicate) + FieldSize(msg.object)
    + Len(SerializeUnknownFields(msg.unknown))

MergeFrom(msg, from) ==
  [subject   |-> Merged(msg.subject, from.subject),
   predicate |-> Merged(msg.predicate, from.predicate),
   object    |-> Merged(msg.object, from.object),
   unknown   |-> msg.unknown \o from.unknown]

CopyFrom(msg, from) == MergeFrom(Clear(msg), from)

(* Both messages afterwards.                                               *)
Swap(msg, other) == <<other, msg>>
=============================================================================
