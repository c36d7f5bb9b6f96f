------------------------------ MODULE Publishing ------------------------------
(***************************************************************************)
(* Publication: the paths of a compiled description and the index of them  *)
(* (builder.go prefixPaths, descriptor.go reindex).                        *)
(***************************************************************************)
EXTENDS Compiling, SequencesExt

\* walked, into what a shadow borrows as well.
walkedAll(f) == referred(f)

\* What the walk that assigns paths goes into.
walked(f) == IF Moved(f) THEN <<>> ELSE referred(f)

\* prefixPaths: the paths below o, in place; a field whose object encloses it
\* is marked, and the walk stops there.
RECURSIVE prefixPaths(_, _, _, _)
prefixPaths(objects, o, prefix, enclosing) ==
  LET within == enclosing \cup {o}
      pathOf(objs, i) ==
        LET f    == objs[o].fields[i]
            path == Append(prefix, NameSeg(f.name))
            named == [objs EXCEPT ![o].fields[i].path = path]
        IN FoldLeft(LAMBDA os, inner :
             IF inner \in within THEN [os EXCEPT ![o].fields[i].recursive = TRUE]
             ELSE prefixPaths(os, inner, below(f, path), within), named, walked(f))
  IN FoldLeft(pathOf, objects, [i \in DOMAIN objects[o].fields |-> i])

\* borrowedPrefix, of a list as of an object.
unsubscripted(f, path) == path

borrowedPrefix(f, path) == below(f, path)

\* indexShadow: what a shadow borrows, under the former path.
RECURSIVE borrowed(_, _, _)
borrowed(objects, o, prefix) ==
  FlattenSeq([i \in DOMAIN objects[o].fields |->
    LET f    == objects[o].fields[i]
        path == Append(prefix, NameSeg(f.name))
    IN <<<<path, <<o, i>>>>>>
         \o (IF f.recursive THEN <<>>
             ELSE FlattenSeq([k \in DOMAIN referred(f) |->
                                borrowed(objects, referred(f)[k], borrowedPrefix(f, path))]))])

RECURSIVE indexed(_, _)
indexed(objects, o) ==
  FlattenSeq([i \in DOMAIN objects[o].fields |->
    LET f == objects[o].fields[i]
    IN <<<<f.path, <<o, i>>>>>>
         \o (IF Moved(f)
             THEN FlattenSeq([k \in DOMAIN referred(f) |->
                                borrowed(objects, referred(f)[k], borrowedPrefix(f, f.path))])
             ELSE IF f.recursive THEN <<>>
             ELSE FlattenSeq([k \in DOMAIN referred(f) |-> indexed(objects, referred(f)[k])]))])

\* reindex
byPathOf(objects, o) ==
  FoldLeft(LAMBDA index, e : (e[1] :> e[2]) @@ index, <<>>, indexed(objects, o))

\* The walk of what a shadow borrows stops at a field that closes a cycle; the
\* shadow of such a field is none, and has no end.
RECURSIVE walkEnds(_, _, _)
walkEnds(objects, o, above) ==
  /\ o \notin above
  /\ \A i \in DOMAIN objects[o].fields :
       LET f == objects[o].fields[i]
       IN f.recursive \/ \A k \in DOMAIN referred(f) :
                            walkEnds(objects, referred(f)[k], above \cup {o})

RECURSIVE indexEnds(_, _)
indexEnds(objects, o) ==
  \A i \in DOMAIN objects[o].fields :
    LET f == objects[o].fields[i]
    IN f.recursive \/ \A k \in DOMAIN referred(f) :
                         IF Moved(f) THEN walkEnds(objects, referred(f)[k], {})
                         ELSE indexEnds(objects, referred(f)[k])

\* What publication finds out of the object o: where every field is, the index,
\* and whether making it comes to an end.
publish(objects, o) ==
  LET placed == prefixPaths(objects, o, <<>>, {})
      ends   == indexEnds(placed, o)
      place(f) == [path |-> f.path, recursive |-> f.recursive]
  IN [ends |-> ends,
      byPath |-> IF ends THEN byPathOf(placed, o) ELSE <<>>,
      places |-> [x \in DOMAIN placed |->
                    [i \in DOMAIN placed[x].fields |-> place(placed[x].fields[i])]]]
==============================================================================
