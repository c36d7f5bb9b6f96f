-------------------------------- MODULE Overlay --------------------------------
(***************************************************************************)
(* What layering promises, stated on trees and without paths: a later      *)
(* document is laid over what the earlier ones left, field by field, and   *)
(* each field's policy says how (README, "Layered sources" and "Merging";  *)
(* the doc comments of merge.go, element.go, section.go and scalaror.go).  *)
(*                                                                         *)
(* A tree is a pair <<kind, content>>: a leaf's value, <<"object",         *)
(* members>>, <<"items", elements>> with elements [sub, members], or       *)
(* NoValue where no layer said anything.                                   *)
(***************************************************************************)
EXTENDS TreeBind

Members(ms) == <<"object", ms>>
Items(es)   == <<"items", es>>

named(o, n)  == o[CHOOSE i \in DOMAIN o : o[i].name = n]
names(o)     == {o[i].name : i \in DOMAIN o}

variant(f, tag) == f.variants[CHOOSE v \in DOMAIN f.variants : f.variants[v].tag = tag]

\* A field before any layer.
RECURSIVE blank(_)
blank(f) ==
  IF f.kind \in {"object", "group"}
  THEN Members([n \in names(f.members) |-> blank(named(f.members, n))])
  ELSE NoValue

blankMembers(o) == [n \in names(o) |-> blank(named(o, n))]

\* The elements of es with the one at sub replaced, or added at the end.
upsert(es, sub, update(_), initial) ==
  IF \E i \in DOMAIN es : es[i].sub = sub
  THEN [i \in DOMAIN es |->
          IF es[i].sub = sub THEN [es[i] EXCEPT !.members = update(@)] ELSE es[i]]
  ELSE Append(es, [sub |-> sub, members |-> update(initial)])

RECURSIVE overlay(_, _, _)

overlayMembers(o, old, node) ==
  [n \in DOMAIN old |->
     LET spelled == claims(node, named(o, n))
     IN IF spelled = <<>> THEN old[n]
        ELSE overlay(named(o, n), old[n], Field(node, Head(spelled)))]

\* What the policy leaves of the elements earlier layers provided.
kept(f, old) == IF old = NoValue \/ f.merge = "replace" THEN <<>> ELSE old[2]

overlayList(f, old, node) ==
  LET fresh == blankMembers(f.members)
      add(es, i) ==
        LET item == node[2][i]
            lay(ms) == overlayMembers(f.members, ms, item)
        IN upsert(es, IF f.key = "" THEN Len(es) ELSE Field(item, f.key)[2], lay, fresh)
  IN Items(FoldLeft(add, kept(f, old), [i \in DOMAIN node[2] |-> i]))

\* An object's members as Node.Field reads them: the last duplicate wins.
lastMembers(node) ==
  LET last(i) == \A j \in DOMAIN node[2] : node[2][j].key = node[2][i].key => j <= i
  IN [k \in 1 .. Cardinality({i \in DOMAIN node[2] : last(i)}) |->
        node[2][SetToSortSeq({i \in DOMAIN node[2] : last(i)}, <)[k]]]

overlayMap(f, old, node) ==
  LET fresh == blankMembers(f.members)
      add(es, entry) ==
        LET lay(ms) == overlayMembers(f.members, ms, entry.node)
        IN IF entry.node = Null
           THEN SelectSeq(es, LAMBDA e : e.sub # entry.key)
           ELSE upsert(es, entry.key, lay, fresh)
  IN Items(FoldLeft(add, kept(f, old), lastMembers(node)))

\* The scalar spelling of an object and its members replace one another.
overlayShorthand(f, old, node) ==
  CASE node = Null          -> blank(f)
    [] node[1] = "object"   ->
         Members(overlayMembers(f.members,
                   IF old[1] = "object" THEN old[2] ELSE blank(f)[2], node))
    [] OTHER                -> Scalar(node[2])

\* The discriminator selects; what was said of the other variants is kept.
overlayUnion(f, old, node) ==
  LET tag  == Field(node, f.tag)[2]
      seen == IF old # NoValue THEN old[2].members
              ELSE [t \in {f.variants[v].tag : v \in DOMAIN f.variants} |->
                      blankMembers(variant(f, t).members)]
  IN <<"union", [tag |-> tag,
                 members |-> [seen EXCEPT ![tag] =
                                overlayMembers(variant(f, tag).members, @, node)]]>>

overlay(f, old, node) ==
  CASE f.scalarOr -> overlayShorthand(f, old, node)
    [] f.kind \in {"object", "group"} -> Members(overlayMembers(f.members, old[2], node))
    [] ~f.scalarOr /\ node = Null -> NoValue
    [] f.kind = "union" /\ node # Null -> overlayUnion(f, old, node)
    [] f.kind = "section" /\ node # Null ->
         Members(overlayMembers(f.members,
                   IF old = NoValue THEN blankMembers(f.members) ELSE old[2], node))
    [] f.kind = "list" /\ node # Null -> overlayList(f, old, node)
    [] f.kind = "map" /\ node # Null  -> overlayMap(f, old, node)
    [] f.kind \in {"leaf", "opaque"} /\ node # Null ->
         IF ~decodes(f, node) THEN old
         ELSE IF old = NoValue THEN decoded(f, node)
         ELSE combine(f.merge, old, decoded(f, node))

\* The configuration a sequence of documents describes.
Layered(root, docs) ==
  FoldLeft(LAMBDA old, doc : overlayMembers(root, old, doc), blankMembers(root), docs)
==============================================================================
