---------------------------------- MODULE Yaml ----------------------------------
(***************************************************************************)
(* What a YAML document says once its anchors and merge keys are resolved  *)
(* (source/yaml/decode.go convertNode).                                    *)
(*                                                                         *)
(* A node as written is a scalar, a null, <<"alias", anchor>>, <<"sequence", *)
(* nodes>>, or <<"mapping", pairs>> of [key, merge, value], where merge    *)
(* says that the key is "<<".  anchors gives the node each anchor marks;   *)
(* none of them encloses an alias to itself.                               *)
(***************************************************************************)
EXTENDS TreeBind

Refused == <<"refused", "">>

\* One node out of several, when none of them was refused.
unlessRefused(nodes, node) == IF Refused \in Range(nodes) THEN Refused ELSE node

\* Mutant of unclaimed: the last of several merged fields of a key.
lastMerged(own, fields) ==
  LET news == {i \in DOMAIN fields :
                 /\ \A j \in DOMAIN own : own[j].key # fields[i].key
                 /\ \A j \in i + 1 .. Len(fields) : fields[j].key # fields[i].key}
      order == SetToSortSeq(news, <)
  IN [k \in DOMAIN order |-> fields[order[k]]]

\* The first of the merged fields of each key, unless the mapping has its own.
unclaimed(own, fields) ==
  LET news == {i \in DOMAIN fields :
                 /\ \A j \in DOMAIN own : own[j].key # fields[i].key
                 /\ \A j \in 1 .. i - 1 : fields[j].key # fields[i].key}
      order == SetToSortSeq(news, <)
  IN [k \in DOMAIN order |-> fields[order[k]]]

RECURSIVE convertNode(_, _), mergeFields(_, _)

convertAll(anchors, nodes) ==
  FoldLeft(LAMBDA done, n : Append(done, convertNode(anchors, n)), <<>>, nodes)
mergeAll(anchors, nodes) ==
  FoldLeft(LAMBDA done, n : Append(done, mergeFields(anchors, n)), <<>>, nodes)

allFields(objects) == FlattenSeq([i \in DOMAIN objects |-> objects[i][2]])

nodesOf(pairs) == [i \in DOMAIN pairs |-> pairs[i].value]

mapping(anchors, pairs) ==
  LET own    == SelectSeq(pairs, LAMBDA p : ~p.merge)
      values == convertAll(anchors, nodesOf(own))
      fields == [i \in DOMAIN own |-> M(own[i].key, values[i])]
      merges == mergeAll(anchors, nodesOf(SelectSeq(pairs, LAMBDA p : p.merge)))
  IN unlessRefused(values \o merges, Object(fields \o unclaimed(fields, allFields(merges))))

convertNode(anchors, n) ==
  CASE n[1] = "alias"    -> IF n[2] \in DOMAIN anchors THEN convertNode(anchors, anchors[n[2]])
                            ELSE Refused
    [] n[1] = "sequence" -> LET items == convertAll(anchors, n[2])
                            IN unlessRefused(items, Array(items))
    [] n[1] = "mapping"  -> mapping(anchors, n[2])
    [] OTHER             -> n

\* mergeFields: a merge key refers to a mapping, or to several in a sequence.
mergeFields(anchors, n) ==
  IF n[1] = "sequence"
  THEN LET parts == mergeAll(anchors, n[2])
       IN unlessRefused(parts, Object(allFields(parts)))
  ELSE LET node == convertNode(anchors, n)
       IN IF node[1] = "object" THEN node ELSE Refused
=============================================================================
