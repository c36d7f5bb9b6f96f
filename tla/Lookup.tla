--------------------------------- MODULE Lookup ---------------------------------
(***************************************************************************)
(* Finding the field a path names in a published descriptor (descriptor.go *)
(* fieldAt, element.go walkPath): in the index, under the path or its      *)
(* canonical spelling, and else by walking the objects, since a recursive  *)
(* description has more paths than an index can hold.                      *)
(*                                                                         *)
(* What is found is a set: one reference to a field, or none.              *)
(***************************************************************************)
EXTENDS Publishing

\* The objects that may hold the rest of a path, short of cycles.
enteredOnce(f, subscripted) ==
  IF f.recursive \/ isCollection(f) # subscripted THEN <<>> ELSE referred(f)

\* A subscript descends into the elements of a collection, nothing else does;
\* a union's variants are searched in order.
entered(f, subscripted) ==
  IF isCollection(f) # subscripted THEN <<>> ELSE referred(f)

RECURSIVE walkPath(_, _, _)
walkPath(objects, o, path) ==
  LET at          == fieldNamed(objects[o], Head(path)[2])
      subscripted == Len(path) > 1 /\ path[2][1] # "name"
      rest        == SubSeq(path, IF subscripted THEN 3 ELSE 2, Len(path))
      within(f)   == [k \in DOMAIN entered(f, subscripted) |->
                        walkPath(objects, entered(f, subscripted)[k], rest)]
      found(f)    == SelectSeq(within(f), LAMBDA refs : refs # {})
  IN IF at = {} THEN {}
     ELSE IF Len(path) = 1 THEN {<<o, i>> : i \in at}
     ELSE IF rest = <<>> THEN {}
     ELSE LET f == objects[o].fields[CHOOSE i \in at : TRUE]
          IN IF found(f) = <<>> THEN {} ELSE Head(found(f))

\* fieldAt: the field, and whether the path is that field's own.
fieldAt(objects, d, path) ==
  LET known == {p \in {path, CanonicalPath(path)} : p \in DOMAIN d.byPath}
      at    == IF path \in known THEN path ELSE CanonicalPath(path)
      ref   == d.byPath[at]
  IN IF known # {}
     THEN [refs |-> {ref}, own |-> objects[ref[1]].fields[ref[2]].path = at]
     ELSE LET refs == walkPath(objects, d.root, path) IN [refs |-> refs, own |-> refs # {}]
==============================================================================
