------------------------------- MODULE TreeBind -------------------------------
(***************************************************************************)
(* Binding a parsed document to a description (internal/tree): the         *)
(* assignments a nesting source delivers, in the order it delivers them,   *)
(* and the diagnostics it raises.                                          *)
(*                                                                         *)
(* A node is a pair <<kind, content>>: a scalar's value, an array's items, *)
(* or an object's members, a sequence of [key, node] in document order.    *)
(* The scalar Garbage stands for text the field's decoder refuses.         *)
(***************************************************************************)
EXTENDS Model

CONSTANTS
  AllowNull,        \* the format has a null literal
  DisallowUnknown,  \* report members no field claims
  Garbage           \* a scalar no field decodes

Null        == <<"null", "">>
Text(v)     == <<"scalar", v>>
Array(s)    == <<"array", s>>
Object(s)   == <<"object", s>>
M(key, node) == [key |-> key, node |-> node]

\* What a layer carries: assignments, and the paths in error.
present(path, value) == [path |-> path, state |-> "present", value |-> value]
erase(path)          == [path |-> path, state |-> "null", value |-> NoValue]
fault(path)          == [path |-> path, state |-> "error", value |-> NoValue]

\* Every null outside a format that has one is an error.
nullAt(path) == IF AllowNull THEN <<erase(path)>> ELSE <<fault(path)>>

------------------------------------------------------------------------------
(* Reading members.                                                        *)

\* Node.Field: the last duplicate wins.
Positions(node, key) ==
  IF node[1] # "object" THEN {} ELSE {i \in DOMAIN node[2] : node[2][i].key = key}

has(node, key)   == Positions(node, key) # {}
Field(node, key) == node[2][CHOOSE i \in Positions(node, key) :
                             \A j \in Positions(node, key) : j <= i].node

\* memberNames: the primary name, which may be this source's own, then the
\* aliases; none when the source skips it.
memberNames(f) ==
  IF f.skip THEN <<>> ELSE <<IF f.called # "" THEN f.called ELSE f.name>> \o f.aliases

\* member: the first of the names the document has.
claims(node, f) == SelectSeq(memberNames(f), LAMBDA name : has(node, name))

------------------------------------------------------------------------------
(* Leaves.                                                                 *)

isScalar(node) == node[1] = "scalar" /\ node[2] # Garbage

\* accepted: a decoder of the field's own sees the shapes the field declares.
accepted(f, node) == f.accepts = {} \/ node[1] \in f.accepts

RECURSIVE Raw(_)

\* Raw: what such a decoder is handed. A member's last spelling is the one left.
Raw(node) ==
  CASE node[1] = "array"  -> <<"array", [i \in DOMAIN node[2] |-> Raw(node[2][i])]>>
    [] node[1] = "object" -> <<"map", [k \in {node[2][i].key : i \in DOMAIN node[2]} |->
                                         Raw(Field(node, k))]>>
    [] OTHER              -> node

\* A decoder of the application's: a text, or a carrier that names one.
DecodeValue(raw) ==
  CASE raw[1] = "map" /\ "env" \in DOMAIN raw[2] -> raw[2]["env"]
    [] raw[1] = "scalar"                          -> raw
    [] OTHER                                      -> Text(Garbage)

\* decode: the declared shapes decide, then the decoder.
takes(f, node) == accepted(f, node) /\ DecodeValue(Raw(node)) # Text(Garbage)

\* value: the shape a leaf's type decodes; its items are scalars here.  A
\* decoder of the field's own comes before whatever its type is.
decodes(f, node) ==
  CASE f.decoder            -> takes(f, node)
    [] f.kind = "opaque"    -> TRUE
    [] f.shape = "list"     -> node[1] = "array" /\ \A i \in DOMAIN node[2] : isScalar(node[2][i])
    [] f.shape = "map"      -> node[1] = "object" /\ \A i \in DOMAIN node[2] : isScalar(node[2][i].node)
    [] OTHER                -> isScalar(node)

decoded(f, node) ==
  CASE f.decoder         -> DecodeValue(Raw(node))
    [] f.kind = "opaque" -> <<"opaque", node>>
    [] f.shape = "list"  -> List([i \in DOMAIN node[2] |-> node[2][i][2]])
    [] f.shape = "map"   -> Map([k \in {node[2][i].key : i \in DOMAIN node[2]} |-> Field(node, k)[2]])
    [] OTHER             -> Scalar(node[2])

leaf(f, node, path) ==
  CASE node[1] = "null"   -> nullAt(path)
    [] decodes(f, node)   -> <<present(path, decoded(f, node))>>
    [] OTHER              -> <<fault(path)>>

------------------------------------------------------------------------------
(* Objects, unions and collections.  Each is bound at its path in the      *)
(* model, with the place it has in the document by the names used there.   *)

\* The subscript of an element: its key, or its position.
elementKey(f, item, index) ==
  IF f.key = "" THEN index - 1 ELSE Field(item, f.key)[2]

keyed(f, item) ==
  f.key = "" \/ (has(item, f.key) /\ Field(item, f.key)[1] = "scalar")

\* An item is bound when it is an object with a key no earlier item claimed.
bindable(f, items, i) ==
  /\ items[i][1] = "object"
  /\ keyed(f, items[i])

repeats(f, items, i) ==
  \E j \in 1 .. i - 1 :
    bindable(f, items, j) /\ elementKey(f, items[j], j) = elementKey(f, items[i], i)

RECURSIVE object(_, _, _, _, _)

elements(f, node, path, where) ==
  CASE node[1] = "null"  -> nullAt(path)
    [] node[1] # "array" -> <<fault(path)>>
    [] OTHER ->
      <<present(path, Collection)>> \o
      FlattenSeq([i \in DOMAIN node[2] |->
        LET item == node[2][i]
            elem == ElementPath(path, elementKey(f, item, i))
        IN CASE ~bindable(f, node[2], i)     -> <<fault(path)>>
             [] repeats(f, node[2], i)       -> <<fault(elem)>>
             [] OTHER -> <<present(elem, Element)>>
                           \o object(f.members, item, elem, ElementPath(where, i - 1), {})])

\* entries walks the members themselves, so every duplicate key is bound.
entries(f, node, path, where) ==
  CASE node[1] = "null"   -> nullAt(path)
    [] node[1] # "object" -> <<fault(path)>>
    [] OTHER ->
      <<present(path, Collection)>> \o
      FlattenSeq([i \in DOMAIN node[2] |->
        LET entry == node[2][i]
            elem  == ElementPath(path, entry.key)
        IN CASE entry.node[1] = "null"   -> nullAt(elem)
             [] entry.node[1] # "object" -> <<fault(elem)>>
             [] OTHER -> <<present(elem, Element)>>
                           \o object(f.members, entry.node, elem, Append(where, NameSeg(entry.key)), {})])

union(f, node, path, where) ==
  LET tagPath == Append(path, NameSeg(f.tag))
  IN CASE node[1] # "object"                     -> <<fault(path)>>
       [] ~has(node, f.tag)                      -> <<fault(tagPath)>>
       [] ~isScalar(Field(node, f.tag))          -> <<fault(tagPath)>>
       [] OTHER ->
         LET tag  == Field(node, f.tag)[2]
             vs   == SelectSeq(f.variants, LAMBDA v : v.tag = tag)
         IN <<present(tagPath, Scalar(tag))>> \o
            (IF vs = <<>> THEN <<fault(tagPath)>>
             ELSE object(Head(vs).members, node, path, where, {f.tag}))

\* A nested object, a group, or an optional section with its marker.
nested(f, node, path, where) ==
  CASE f.kind = "section" /\ node[1] = "null" -> nullAt(path)
    [] node[1] = "object" ->
         (IF f.kind = "section" THEN <<present(path, Section)>> ELSE <<>>)
           \o object(f.members, node, path, where, {})
    [] f.scalarOr -> leaf(leafField(f.name), node, path)
    [] OTHER      -> <<fault(path)>>

bindField(f, node, path, where) ==
  CASE f.decoder                        -> leaf(f, node, path)
    [] ~f.decoder /\ f.kind = "union"   -> union(f, node, path, where)
    [] ~f.decoder /\ hasMembers(f)      -> nested(f, node, path, where)
    [] ~f.decoder /\ f.kind = "list"    -> elements(f, node, path, where)
    [] ~f.decoder /\ f.kind = "map"     -> entries(f, node, path, where)
    [] OTHER                            -> leaf(f, node, path)

\* The member by which a document names its schema: at its root, never unknown.
SchemaKey == "$schema"

object(o, node, base, where, claimed) ==
  LET bound(i) == claims(node, o[i]) # <<>>
      named(i) == Head(claims(node, o[i]))
      taken    == claimed \cup {named(i) : i \in {j \in DOMAIN o : bound(j)}}
                    \cup (IF where = <<>> THEN {SchemaKey} ELSE {})
      unknown  == IF DisallowUnknown
                  THEN SelectSeq(node[2], LAMBDA m : m.key \notin taken) ELSE <<>>
  IN FlattenSeq([i \in DOMAIN o |->
       IF bound(i)
       THEN bindField(o[i], Field(node, named(i)), Append(base, NameSeg(o[i].name)),
                      Append(where, NameSeg(named(i))))
       ELSE <<>>])
     \o [i \in DOMAIN unknown |-> fault(Append(where, NameSeg(unknown[i].key)))]

\* Bind: the layer a document becomes.
Bind(root, doc) ==
  LET items == IF doc[1] = "object" THEN object(root, doc, <<>>, <<>>, {}) ELSE <<fault(<<>>)>>
  IN [assignments |-> SelectSeq(items, LAMBDA x : x.state # "error"),
      faults      |-> {items[i].path : i \in {j \in DOMAIN items : items[j].state = "error"}}]
==============================================================================
