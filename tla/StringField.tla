----------------------------- MODULE StringField -----------------------------
(***************************************************************************)
(* A string field of a generated message: its has-bit, and a pointer to a  *)
(* string of its own or, before there was one, to the string kEmptyString  *)
(* that all messages of the process share.                                 *)
(***************************************************************************)
EXTENDS WireFormat

Unset == [has |-> FALSE, own |-> FALSE, text |-> <<>>]

set(text) == [has |-> TRUE, own |-> TRUE, text |-> text]

mutable(field) == [field EXCEPT !.has = TRUE, !.own = TRUE]

cleared(field) == [field EXCEPT !.has = FALSE, !.text = <<>>]

(* The caller has the string now, if there was one.                        *)
release(field) == Unset

(* NULL, or a string that the field owns from now on.                      *)
set_allocated(texts) == {Unset} \cup {set(text) : text \in texts}

Accessed(field, texts) ==
  {set(text) : text \in texts} \cup set_allocated(texts)
    \cup {mutable(field), cleared(field), release(field)}

(* Mutant of Cleared: the string stays, as a number might.                 *)
ClearedBit(field) == [field EXCEPT !.has = FALSE]

(* Clear of the message looks at the has-bit before it clears the string.  *)
Cleared(field) == IF field.has THEN cleared(field) ELSE field

WriteField(number, field) == IF field.has THEN WriteString(number, field.text) ELSE <<>>

FieldSize(field) == IF field.has THEN 1 + StringSize(field.text) ELSE 0

Merged(to, from) == IF from.has THEN set(from.text) ELSE to

(* What has_ and the getter say.                                           *)
Value(field) == [has |-> field.has, text |-> field.text]

(* Nobody wrote into the shared string, and a field that is not set reads  *)
(* as the empty string: the getter does not look at the has-bit.           *)
IsField(field) ==
  /\ ~field.own => ~field.has /\ field.text = <<>>
  /\ ~field.has => field.text = <<>>
=============================================================================
