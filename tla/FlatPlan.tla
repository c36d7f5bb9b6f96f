-------------------------------- MODULE FlatPlan --------------------------------
(***************************************************************************)
(* The plan of a source with one name per value and no nesting: the        *)
(* environment (source/env), a directory of files (source/file).  Which    *)
(* fields it reads, and the names it tries for each.                       *)
(*                                                                         *)
(* A name is the sequence of its parts: the words "_" separates in a       *)
(* variable's, the segments "." separates in a file's.  A source is a      *)
(* record [kind, prefix, naming, ...]; both kinds were told the same of a  *)
(* field (FieldModel's flat).                                              *)
(***************************************************************************)
EXTENDS Model

CONSTANT Words(_)   \* the words derive finds in one segment, in upper case

\* segmentOf: Name replaces the field's own segment, not its parents'.
segmentOf(f) == IF f.flat.name # "" THEN f.flat.name ELSE f.name

derive(segments) == FlattenSeq([i \in DOMAIN segments |-> Words(segments[i])])

\* DefaultNaming of each kind, or one an application installs: the last segment
\* alone, or the default and what it was in an older version.
naming(src, segments) ==
  LET spelled(named) == IF src.kind = "env" THEN derive(named) ELSE named
  IN CASE src.naming = "last" -> <<spelled(<<Last(segments)>>)>>
       [] src.naming = "both" -> <<spelled(segments), spelled(<<"old">> \o segments)>>
       [] OTHER               -> <<spelled(segments)>>

prefixed(src, all) == [i \in DOMAIN all |-> src.prefix \o all[i]]

\* names, with the prefix on the derived names only.
namesPrefixedOnce(src, f, segments) ==
  prefixed(src, naming(src, segments)) \o f.flat.aliases

\* The primary name first; aliases are names in full, and get the prefix too.
names(src, f, segments) == prefixed(src, naming(src, segments) \o f.flat.aliases)

entry(path, ns, f, discriminator) ==
  [path |-> path, names |-> ns, field |-> f, discriminator |-> discriminator]

RECURSIVE planned(_, _, _)

\* The switch of planner.object: a union comes before the test for a former
\* path; objects, lists and maps have no name, but what is inside an object does.
plannedField(src, f, own) ==
  LET here == entry(f.path, names(src, f, own), f, FALSE)
      tag  == entry(Append(f.path, NameSeg(f.tag)), names(src, f, Append(own, f.tag)), f, TRUE)
  IN IF f.kind = "union"
     THEN <<tag>> \o FlattenSeq([v \in DOMAIN f.variants |-> planned(src, f.variants[v].members, own)])
     ELSE IF Moved(f) \/ f.kind = "opaque" \/ isCollection(f) THEN <<>>
     ELSE IF hasMembers(f)
     THEN (IF f.scalarOr THEN <<here>> ELSE <<>>) \o planned(src, f.members, own)
     ELSE <<here>>

\* planner.object.  (A field that closes a cycle is skipped too: these trees
\* have none.)
planned(src, o, segments) ==
  FlattenSeq([i \in DOMAIN o |->
    IF o[i].flat.skip THEN <<>>
    ELSE plannedField(src, o[i], Append(segments, segmentOf(o[i])))])

\* One name of an entry: taken, the whole entry is dropped and reported, but
\* the names it has claimed so far stay claimed.
claim(plan, e, n) ==
  IF plan.taken THEN plan
  ELSE IF n \in DOMAIN plan.byName
  THEN [plan EXCEPT !.taken = TRUE, !.collisions = @ \cup {[name |-> n, path |-> e.path]}]
  ELSE [plan EXCEPT !.byName = (n :> e.path) @@ @]

add(plan, e) ==
  LET claimed == FoldLeft(LAMBDA p, n : claim(p, e, n), [plan EXCEPT !.taken = FALSE], e.names)
  IN IF claimed.taken THEN claimed ELSE [claimed EXCEPT !.out = Append(@, e)]

\* source.plan
Plan(src, o) ==
  FoldLeft(add, [byName |-> <<>>, out |-> <<>>, collisions |-> {}, taken |-> FALSE],
           planned(src, o, <<>>))
==============================================================================
