--------------------------------- MODULE Model ---------------------------------
(***************************************************************************)
(* The compiled description of a configuration (descriptor.go, moved.go,   *)
(* builder.go): a tree of fields, the canonical path of each, the shadows  *)
(* former paths leave, and the index sources and the fold look paths up in.*)
(*                                                                         *)
(* A description is a sequence of fields.  Recursive descriptors, whose    *)
(* paths are unbounded, are outside this module.                           *)
(***************************************************************************)
EXTENDS Fields, Paths, Merge, Naturals, Sequences, FiniteSets

------------------------------------------------------------------------------
(* Derivation's last steps: paths, shadows, index.                         *)

\* prefixPaths: every field gets its canonical path; a union's variants share
\* the level of their tag.
RECURSIVE prefixPaths(_, _)
prefixPaths(o, prefix) ==
  [i \in DOMAIN o |->
     LET f    == o[i]
         path == Append(prefix, NameSeg(f.name))
     IN [f EXCEPT
           !.path = path,
           !.members = prefixPaths(@, below(f, path)),
           !.variants = [v \in DOMAIN @ |->
              [@[v] EXCEPT !.members = prefixPaths(@, path)]]]]

\* placeMoved's collect: the fields with former paths, through groups only.
RECURSIVE movedTargets(_)
movedTargets(o) ==
  FlattenSeq([i \in DOMAIN o |->
    (IF o[i].former = <<>> THEN <<>> ELSE <<o[i]>>)
      \o (IF isGroup(o[i]) THEN movedTargets(o[i].members) ELSE <<>>)])

\* A shadow is its target's type under another name; a section it borrows has
\* no Go field to be absent from, so the shadow of one is a group.
shadowOf(target, name, path) ==
  [leafField(name) EXCEPT
     !.path = path, !.movedTo = target.path, !.presence = "optional", !.zero = FALSE,
     !.kind = IF hasMembers(target) THEN "group" ELSE target.kind,
     !.shape = target.shape, !.merge = target.merge, !.scalarOr = target.scalarOr,
     !.members = target.members, !.variants = target.variants, !.tag = target.tag,
     !.skip = target.skip, !.flat.skip = target.flat.skip, !.deprecated = TRUE]

\* placeShadow: rebuild the levels of the former path that are gone.  A path that
\* something is in the way of is refused by Derive, and is in no description here.
RECURSIVE placeShadow(_, _, _, _)
placeShadow(o, target, old, prefix) ==
  LET name == Head(old)
      path == Append(prefix, NameSeg(name))
      at   == {i \in DOMAIN o : o[i].name = name}
  IN CASE Len(old) = 1 -> Append(o, shadowOf(target, name, path))
       [] Len(old) > 1 /\ at = {} ->
            Append(o, [structured("group", name,
                         placeShadow(<<>>, target, Tail(old), path))
                       EXCEPT !.path = path, !.deprecated = TRUE])
       [] OTHER ->
            [o EXCEPT ![CHOOSE i \in at : TRUE].members =
               placeShadow(@, target, Tail(old), path)]

placeMoved(o) ==
  LET place(acc, t) ==
        FoldLeft(LAMBDA acc2, old : placeShadow(acc2, t, old, <<>>), acc, t.former)
  IN FoldLeft(place, o, movedTargets(o))

\* Compiling a description.
Compile(o) == placeMoved(prefixPaths(o, <<>>))

\* reindex's walk, in order: m.fields.  A shadow is listed, not walked.
RECURSIVE fieldsOf(_)
fieldsOf(o) ==
  FlattenSeq([i \in DOMAIN o |->
    <<o[i]>> \o (IF Moved(o[i]) THEN <<>>
                 ELSE fieldsOf(o[i].members)
                        \o FlattenSeq([v \in DOMAIN o[i].variants |->
                                         fieldsOf(o[i].variants[v].members)]))])

\* indexShadow: the borrowed members under the former path.
RECURSIVE borrowed(_, _)
borrowed(o, prefix) ==
  FlattenSeq([i \in DOMAIN o |->
    LET path == Append(prefix, NameSeg(o[i].name))
    IN <<<<path, o[i]>>>>
         \o borrowed(o[i].members, below(o[i], path))
         \o FlattenSeq([v \in DOMAIN o[i].variants |->
                          borrowed(o[i].variants[v].members, path)])])

\* reindex: a later entry of the walk replaces an earlier one at the same path.
reindex(o) ==
  LET entries == FlattenSeq([i \in DOMAIN fieldsOf(o) |->
        LET f == fieldsOf(o)[i]
        IN <<<<f.path, f>>>>
             \o (IF Moved(f)
                 THEN borrowed(f.members, below(f, f.path))
                        \o FlattenSeq([v \in DOMAIN f.variants |->
                                         borrowed(f.variants[v].members, f.path)])
                 ELSE <<>>)])
  IN FoldLeft(LAMBDA index, e : (e[1] :> e[2]) @@ index, <<>>, entries)
==============================================================================
