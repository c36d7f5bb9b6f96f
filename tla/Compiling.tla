-------------------------------- MODULE Compiling --------------------------------
(***************************************************************************)
(* The fields that compilation makes of registrations and what it asks of  *)
(* them (builder.go compileContainer, validateField, checkCompleteness;    *)
(* moved.go placeShadow).                                                  *)
(*                                                                         *)
(* Models live in a heap, because descriptors share them: objects[o] is an *)
(* ObjectModel [go, fields, within, ignored], and a field refers to others *)
(* by number.  within is the object whose builder made it (a group's is    *)
(* the object it opens a level of); ignored are the Go fields that builder *)
(* was told are not configuration.                                         *)
(***************************************************************************)
EXTENDS Fields, Naturals, Sequences, FiniteSets

NoObject == 0

emptyObject(go, within) == [go |-> go, fields |-> <<>>, within |-> within, ignored |-> {}]

\* A field of the heap: what it binds in Go, the object it refers to, the field
\* it is the former path of, whether that object encloses it.
boundField(f, name, go, kind, object) ==
  upon(f, [name |-> name, go |-> go, kind |-> kind, object |-> object,
           movedTo |-> <<>>, recursive |-> FALSE])

\* isGroup: a level with no Go field of its own.
isLevel(f) == f.object # NoObject /\ f.go = <<>> /\ ~isCollection(f)

fieldNamed(object, name) ==
  {i \in DOMAIN object.fields : object.fields[i].name = name}

\* The objects a field refers to.
referred(f) ==
  IF f.kind = "union" THEN [v \in DOMAIN f.variants |-> f.variants[v].object]
  ELSE IF f.object = NoObject THEN <<>> ELSE <<f.object>>

------------------------------------------------------------------------------
(* Registrations.                                                          *)

\* fallback: what absence resolves to is refused by the field's own rules.
fallbackRefused(f) ==
  /\ f.presence = "required" /\ ~Required(f) /\ f.default = NoValue
  /\ listOrMap(f) \/ ZeroDefault(f)
  /\ "nothing" \in f.rejects

\* resolveMergeKey
keyRefused(objects, f) ==
  /\ f.key # ""
  /\ \/ f.kind # "list"
     \/ f.object = NoObject
     \/ LET at == fieldNamed(objects[f.object], f.key)
        IN at = {} \/ \E i \in at : LET k == objects[f.object].fields[i]
                                    IN k.presence # "required" \/ k.kind # "leaf" \/ k.shape # "scalar"

\* MergePolicy.Applies, and a keyed list.
mergeApplies(f) ==
  CASE f.merge = "append" -> f.kind = "list" \/ f.shape = "list"
    [] f.merge = "bykey"  -> f.kind = "map" \/ f.shape = "map" \/ f.key # ""
    [] OTHER              -> TRUE

\* validateField.  (Which kinds of type a constraint is about is left out.)
validateField(objects, f) ==
  (IF fallbackRefused(f) \/ keyRefused(objects, f) \/ ~mergeApplies(f)
   THEN {<<"constraint.mismatch", f.name>>} ELSE {})
    \cup (IF f.default # NoValue /\ f.default[1] # f.shape
          THEN {<<"default.mismatch", f.name>>} ELSE {})
    \cup (IF \/ ~f.settable
             \/ /\ f.object = NoObject /\ f.kind \in {"object", "section", "list", "map"}
                /\ ~f.decoder
          THEN {<<"missing_definition", f.name>>} ELSE {})

------------------------------------------------------------------------------
(* Completeness.                                                           *)

\* covered, by whatever encloses the path.
coveredAbove(leaf, handled, trees) == \E t \in handled : t[1] = leaf[1]

\* The walk of checkCompleteness stops above a value that a registration covers.
covered(leaf, handled, trees) ==
  \E n \in 1 .. Len(leaf) :
    SubSeq(leaf, 1, n) \in handled \/ (n < Len(leaf) /\ SubSeq(leaf, 1, n) \in trees)

------------------------------------------------------------------------------
(* Former paths.  A field is named by its object and its position there.   *)

\* The shadow of the field f, which ref names.
shadowField(f, ref, name) ==
  upon(leafField(name),
       [name |-> name, go |-> <<>>, kind |-> f.kind, object |-> f.object, movedTo |-> ref,
        recursive |-> FALSE, shape |-> f.shape, variants |-> f.variants, tag |-> f.tag,
        merge |-> f.merge, presence |-> "optional", zero |-> FALSE, settable |-> TRUE])

\* A level that is gone, rebuilt as the object o.
levelField(name, o) ==
  upon(structured("group", name, <<>>),
       [name |-> name, go |-> <<>>, kind |-> "group", object |-> o, movedTo |-> <<>>,
        recursive |-> FALSE, presence |-> "optional", settable |-> TRUE])
==============================================================================
