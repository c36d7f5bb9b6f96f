--------------------------------- MODULE Schema ---------------------------------
(***************************************************************************)
(* The JSON Schema emitted for a description (schema/jsonschema), and what *)
(* a validator makes of a document by it.                                  *)
(*                                                                         *)
(* A schema is a record of the keywords used: types (none: any value),     *)
(* properties and required members of an object that is closed or not, the *)
(* schema of items (of an array, or of an open object's members), refused  *)
(* values, the one value admitted, and alternatives.  All scalar types are *)
(* one.                                                                    *)
(***************************************************************************)
EXTENDS TreeBind

CONSTANT NoElements  \* an empty list, as constraints see it

Anything ==
  [types |-> {}, properties |-> <<>>, required |-> {}, closed |-> FALSE,
   items |-> <<>>, refused |-> {}, const |-> {}, oneOf |-> <<>>]

typed(type) == [Anything EXCEPT !.types = {type}]

\* FieldModel.Required: an optional section and a shadow are not.
requiredField(f) == Required(f) /\ f.kind # "section" /\ ~Moved(f)

\* demanded, of a nested object never: it is always materialized.
demandedFlat(f) == ~hasMembers(f)

\* demanded, of a nested object whatever is in it.
demandedAnyway(f) == TRUE

RECURSIVE demanded(_)

\* demanded: a nested object is missed only for what has to be written in it.
demanded(f) ==
  \/ ~hasMembers(f)
  \/ \E i \in DOMAIN f.members : requiredField(f.members[i]) /\ demanded(f.members[i])

\* erasable: a null leaves the field something to fall back on.
erasable(f) == f.presence # "required" \/ f.default # NoValue \/ ZeroDefault(f)

\* types: a null is spelled only where a source is asked about.
nullType(f, source) == IF source /\ erasable(f) THEN {"null"} ELSE {}

jsonType(f) ==
  CASE f.kind = "list" \/ f.shape = "list" -> "array"
    [] f.kind = "map" \/ f.shape = "map"   -> "object"
    [] OTHER                               -> "scalar"

\* types: what the source was told to accept, or what the Go type implies.
types(f, source) ==
  (IF source /\ f.accepts # {} THEN f.accepts ELSE {jsonType(f)}) \cup nullType(f, source)

RECURSIVE objectBody(_, _)

scalar(f, source) ==
  [Anything EXCEPT
     !.types = types(f, source),
     !.items = IF isCollection(f) THEN <<objectBody(f.members, source)>>
               ELSE IF f.shape = "scalar" THEN <<>> ELSE <<typed("scalar")>>,
     !.refused = f.rejects]

\* union: each variant's object, with its tag.
tagged(f, v, source) ==
  LET body == objectBody(v.members, source)
  IN [body EXCEPT !.properties = (f.tag :> [typed("scalar") EXCEPT !.const = {Scalar(v.tag)}]) @@ @,
                  !.required = @ \cup {f.tag}]

field(f, source) ==
  CASE f.kind = "opaque" -> IF f.shape = "any" THEN Anything ELSE typed(f.shape)
    [] f.kind = "union"  -> [Anything EXCEPT !.oneOf =
                               [i \in DOMAIN f.variants |-> tagged(f, f.variants[i], source)]]
    [] hasMembers(f) /\ f.scalarOr ->
         [Anything EXCEPT !.oneOf = <<typed("scalar"), objectBody(f.members, source)>>]
    [] hasMembers(f)     -> objectBody(f.members, source)
    [] OTHER             -> scalar(f, source)

objectBody(o, source) ==
  [typed("object") EXCEPT
     !.closed = TRUE,
     !.properties = [n \in {o[i].name : i \in DOMAIN o} |->
                       field(o[CHOOSE i \in DOMAIN o : o[i].name = n], source)],
     !.required = {o[i].name : i \in {i \in DOMAIN o : requiredField(o[i]) /\ demanded(o[i])}}]

\* allowSchemaKey: the root, which is closed, takes a reference to its schema.
allowSchemaKey(root) ==
  [root EXCEPT !.properties = @ @@ (SchemaKey :> typed("scalar"))]

\* Generate
Generate(o, source) == allowSchemaKey(objectBody(o, source))

------------------------------------------------------------------------------
(* JSON Schema validation.                                                 *)

values(node) ==
  CASE node[1] = "scalar" -> {Scalar(node[2])}
    [] node[1] = "array" /\ node[2] = <<>> -> {NoElements}
    [] OTHER -> {}

RECURSIVE valid(_, _)
valid(schema, node) ==
  /\ schema.types # {} => node[1] \in schema.types
  /\ schema.oneOf # <<>> =>
       Cardinality({i \in DOMAIN schema.oneOf : valid(schema.oneOf[i], node)}) = 1
  /\ values(node) \cap schema.refused = {}
  /\ schema.const # {} => values(node) = schema.const
  /\ node[1] = "array" /\ schema.items # <<>> =>
       \A i \in DOMAIN node[2] : valid(schema.items[1], node[2][i])
  /\ node[1] = "object" =>
       /\ \A n \in schema.required : has(node, n)
       /\ \A n \in {node[2][i].key : i \in DOMAIN node[2]} :
            IF n \in DOMAIN schema.properties THEN valid(schema.properties[n], Field(node, n))
            ELSE IF schema.items # <<>> THEN valid(schema.items[1], Field(node, n))
            ELSE ~schema.closed
==============================================================================
