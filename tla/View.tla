--------------------------------- MODULE View ---------------------------------
(***************************************************************************)
(* The tree that materialize reads out of the folded paths, defaults and   *)
(* Go types left aside (resolve.go, section.go): which members, sections   *)
(* and elements are there, with which values.                              *)
(***************************************************************************)
EXTENDS Overlay

isSet(values, path) == path \in DOMAIN values /\ values[path].set

\* sectionPresent: a marker, a value inside, or a collection provided inside.
sectionPresent(path, values, collections) ==
  \/ isSet(values, path)
  \/ \E p \in DOMAIN values : values[p].set /\ Inside(path, p)
  \/ \E p \in DOMAIN collections : collections[p].provided /\ Inside(path, p)

RECURSIVE materialize(_, _, _, _)

materializeCollection(f, path, values, collections) ==
  IF path \notin DOMAIN collections \/ ~collections[path].provided
  THEN NoValue
  ELSE LET order == collections[path].order
       IN Items([i \in DOMAIN order |->
            [sub |-> order[i],
             members |-> materialize(f.members, ElementPath(path, order[i]),
                                     values, collections)]])

materializeField(f, path, values, collections) ==
  CASE f.kind \in {"list", "map"} -> materializeCollection(f, path, values, collections)
    [] f.kind = "section" ->
         IF sectionPresent(path, values, collections)
         THEN Members(materialize(f.members, path, values, collections)) ELSE NoValue
    [] f.kind \in {"object", "group"} ->
         IF isSet(values, path) THEN values[path].value
         ELSE Members(materialize(f.members, path, values, collections))
    [] OTHER -> IF isSet(values, path) THEN values[path].value ELSE NoValue

materialize(o, base, values, collections) ==
  [n \in names(o) |->
     materializeField(named(o, n), Append(base, NameSeg(n)), values, collections)]
==============================================================================
