-------------------------------- MODULE Merge --------------------------------
(***************************************************************************)
(* How one path combines what several layers assign to it (merge.go).      *)
(*                                                                         *)
(* A value is a pair <<kind, payload>>.  Only the kinds the merge tells    *)
(* apart are kept: a Go slice <<"list", sequence>>, a Go map               *)
(* <<"map", function>>, a marker a source writes for structure             *)
(* (Section{}, Collection{}, Element{}), and anything else, <<"scalar",    *)
(* v>>.  An origin is the number of the layer that wrote the value; 0 is   *)
(* the nil origin.                                                         *)
(***************************************************************************)
EXTENDS Naturals, Sequences, TLC

Scalar(v)  == <<"scalar", v>>
List(s)    == <<"list", s>>
Map(f)     == <<"map", f>>
Section    == <<"marker", "Section">>
Collection == <<"marker", "Collection">>
Element    == <<"marker", "Element">>
NoValue    == <<"none", "">>

\* The zero value &merged{}.
Unset == [set |-> FALSE, value |-> NoValue, origin |-> 0, erased |-> 0]

merged(value, origin) ==
  [set |-> TRUE, value |-> value, origin |-> origin, erased |-> 0]

erasedBy(origin) ==
  [set |-> FALSE, value |-> NoValue, origin |-> 0, erased |-> origin]

\* What f says, and else what g does.
upon(g, f) ==
  [x \in DOMAIN f \cup DOMAIN g |-> IF x \in DOMAIN f THEN f[x] ELSE g[x]]

\* combine reports an error when the two values are not both what the policy joins.
Combines(policy, previous, next) ==
  \/ policy = "replace"
  \/ policy = "append" /\ previous[1] = "list" /\ next[1] = "list"
  \/ policy = "bykey" /\ previous[1] = "map" /\ next[1] = "map"

combine(policy, previous, next) ==
  CASE policy = "append" -> List(previous[2] \o next[2])
    [] policy = "bykey"  -> Map(upon(previous[2], next[2]))
    [] OTHER             -> next

\* mergeSet fails only where a value is combined; the state is then left alone.
MergeFails(st, a, policy) ==
  a.state = "present" /\ st.set /\ ~Combines(policy, st.value, a.value)

mergeSetKeepingValue(st, a, policy, origin) ==
  IF a.state = "null" THEN [st EXCEPT !.erased = origin]
  ELSE IF a.state = "present" THEN merged(a.value, origin) ELSE st

mergeSetKeepingOrigin(st, a, policy, origin) ==
  CASE a.state = "missing" -> st
    [] a.state = "null"    -> erasedBy(origin)
    [] a.state = "present" /\ (~st.set \/ policy = "replace") -> merged(a.value, origin)
    [] MergeFails(st, a, policy) -> st
    [] OTHER -> merged(combine(policy, st.value, a.value), st.origin)

mergeSetBlamingWriter(st, a, policy, origin) ==
  IF a.state = "null" THEN erasedBy(st.origin)
  ELSE IF a.state = "present" THEN merged(a.value, origin) ELSE st

mergeSet(st, a, policy, origin) ==
  CASE a.state = "missing" -> st
    [] a.state = "null"    -> erasedBy(origin)
    [] a.state = "present" /\ (~st.set \/ policy = "replace") -> merged(a.value, origin)
    [] MergeFails(st, a, policy) -> st
    [] OTHER -> merged(combine(policy, st.value, a.value), origin)
==============================================================================
