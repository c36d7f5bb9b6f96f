-------------------------------- MODULE Fields --------------------------------
(***************************************************************************)
(* One field of a compiled description (descriptor.go FieldModel) and what *)
(* is asked of it.  shape is what a leaf's Go type holds, and for an       *)
(* opaque subtree "any", "object" or "array"; former are the paths a field *)
(* had before, movedTo the path a shadow stands for; rejects are the       *)
(* values its constraints refuse, badKeys the subscripts its map key type  *)
(* cannot hold.  called, aliases and skip are what a nesting source was    *)
(* told of it, flat what a source with one name per value was; number is   *)
(* the Go type of an integer, or the unit of a duration; decoder says that *)
(* the field reads the shapes it accepts itself.                           *)
(***************************************************************************)
EXTENDS Paths, Merge

\* SourceProjection: an own segment, further names, a text that erases.
noProjection == [skip |-> FALSE, name |-> "", aliases |-> <<>>, null |-> <<>>]

noNumber == [kind |-> "none", unit |-> 0]

leafField(name) ==
  [name |-> name, kind |-> "leaf", shape |-> "scalar", merge |-> "replace",
   key |-> "", scalarOr |-> FALSE, members |-> <<>>, variants |-> <<>>,
   tag |-> "", former |-> <<>>, movedTo |-> <<>>, path |-> <<>>,
   presence |-> "required", zero |-> TRUE, required |-> FALSE,
   default |-> NoValue, rejects |-> {}, badKeys |-> {},
   called |-> "", aliases |-> <<>>, skip |-> FALSE,
   secret |-> FALSE, deprecated |-> FALSE, decoder |-> FALSE, accepts |-> {},
   flat |-> noProjection, number |-> noNumber]

structured(kind, name, members) ==
  [leafField(name) EXCEPT !.kind = kind, !.members = members, !.zero = FALSE]

isGroup(f)      == f.kind = "group"
hasMembers(f)   == f.kind \in {"object", "group", "section"}
isCollection(f) == f.kind \in {"list", "map"}
Moved(f)        == f.movedTo # <<>>

\* Where the paths below a field start.
below(f, path) == IF isCollection(f) THEN Append(path, AnySeg) ELSE path

\* What is a list or a map in Go, of described objects or of values.
listOrMap(f) == isCollection(f) \/ f.shape \in {"list", "map"}

\* FieldModel.Required.
Required(f) ==
  /\ f.presence = "required"
  /\ f.default = NoValue
  /\ ~f.zero
  /\ listOrMap(f) => f.required

\* FieldModel.ZeroDefault.
ZeroDefault(f) == f.zero /\ f.default = NoValue
==============================================================================
