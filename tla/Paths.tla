-------------------------------- MODULE Paths --------------------------------
(***************************************************************************)
(* Canonical configuration paths (element.go).                             *)
(*                                                                         *)
(* The code keeps a path as text, "sites[name=docs].max_bytes".  Here it   *)
(* is the sequence of its segments, each a pair of a tag and a text: the   *)
(* name of a member, the subscript of an element, or the empty subscript   *)
(* the model's own paths carry.  A subscript is a position (a number) or a *)
(* key; strconv.Itoa is injective, so positions stay numbers.              *)
(***************************************************************************)
EXTENDS Naturals, Sequences, SequencesExt

NameSeg(name)   == <<"name", name>>
ElemSeg(sub)    == <<"elem", sub>>
AnySeg          == <<"any", "">>

IsElem(seg) == seg[1] = "elem"

\* "path.": q names something inside the object at p.
Inside(p, q) ==
  /\ IsStrictPrefix(p, q)
  /\ q[Len(p) + 1][1] = "name"

\* "path[": q names an element of the collection at p, or something inside one.
WithinElements(p, q) ==
  /\ IsStrictPrefix(p, q)
  /\ q[Len(p) + 1][1] = "elem"

ElementPath(path, sub) == Append(path, ElemSeg(sub))

HasElement(path) == \E i \in DOMAIN path : IsElem(path[i])

\* ElementKey's ok result: the path ends in a subscript.
IsElementPath(path) == path # <<>> /\ IsElem(path[Len(path)])

CanonicalPath(path) ==
  [i \in DOMAIN path |-> IF IsElem(path[i]) THEN AnySeg ELSE path[i]]

\* p with its leading segments "from" replaced by "to".
ReRoot(p, from, to) == to \o SubSeq(p, Len(from) + 1, Len(p))
==============================================================================
