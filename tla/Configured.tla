------------------------------ MODULE Configured ------------------------------
(***************************************************************************)
(* The configuration a tree of layered documents stands for, once defaults *)
(* fill what no document said, and the errors it holds instead (README:    *)
(* "Defaults", "Required fields", "Optional sections", "Constraints").     *)
(* Stated on trees, field by field; Resolve computes it from paths.        *)
(***************************************************************************)
EXTENDS Overlay

\* What a field resolves to when no document says anything of it.
emptied(f)   == IF isCollection(f) THEN Items(<<>>) ELSE <<f.shape, <<>>>>

inherited(f) ==
  CASE f.default # NoValue              -> {f.default}
    [] f.default = NoValue /\ listOrMap(f) ->
         IF f.presence = "required" /\ ~f.required THEN {emptied(f)} ELSE {}
    [] OTHER                            -> IF f.zero THEN {<<"zero", "">>} ELSE {}

demanded(f) == f.presence = "required" /\ inherited(f) = {}

Written(path, values) == [p \in {path : v \in values} |-> CHOOSE v \in values : TRUE]
Fault(code, path)     == [code |-> code, path |-> path]

RECURSIVE config(_, _, _), problems(_, _, _)

over(fields, tree, path, Of(_, _, _)) ==
  {Of(fields[i], tree[fields[i].name], Append(path, NameSeg(fields[i].name)))
     : i \in DOMAIN fields}

joined(functions) == FoldSet(LAMBDA g, h : g @@ h, <<>>, functions)

subscripts(items) == <<"items", [i \in DOMAIN items[2] |-> items[2][i].sub]>>

elementPath(tree, i, path) == ElementPath(path, tree[2][i].sub)

config(f, tree, path) ==
  CASE tree[1] = "object" ->
         (IF f.kind = "section" THEN Written(path, {<<"struct", "">>}) ELSE <<>>)
           @@ joined(over(f.members, tree[2], path, config))
    [] f.kind \in {"object", "group"} /\ tree[1] = "scalar" ->
         Written(path, {<<"widened", tree>>})
    [] f.kind = "section" /\ tree = NoValue -> <<>>
    [] tree[1] = "items" ->
         Written(path, {subscripts(tree)})
           @@ joined({joined(over(f.members, tree[2][i].members,
                                  elementPath(tree, i, path), config)) : i \in DOMAIN tree[2]})
    [] tree[1] = "union" ->
         Written(Append(path, NameSeg(f.tag)), {Scalar(tree[2].tag)})
           @@ joined(over(variant(f, tree[2].tag).members, tree[2].members[tree[2].tag],
                          path, config))
    [] f.kind \notin {"object", "group", "section"} /\ tree = NoValue ->
         Written(path, inherited(f))
    [] OTHER -> Written(path, {tree})

problems(f, tree, path) ==
  CASE tree[1] = "object" -> UNION over(f.members, tree[2], path, problems)
    [] tree[1] = "items" ->
         (IF subscripts(tree) \in f.rejects
             \/ \E i \in DOMAIN tree[2] : tree[2][i].sub \in f.badKeys
          THEN {Fault("constraint.type_mismatch", path)} ELSE {})
           \cup UNION {UNION over(f.members, tree[2][i].members,
                                  elementPath(tree, i, path), problems) : i \in DOMAIN tree[2]}
    [] tree[1] = "union" ->
         UNION over(variant(f, tree[2].tag).members, tree[2].members[tree[2].tag],
                    path, problems)
    [] f.kind = "union" /\ tree = NoValue ->
         {Fault("field.missing_definition", Append(path, NameSeg(f.tag)))}
    [] f.kind \notin {"object", "group", "section", "union"} /\ tree = NoValue ->
         IF demanded(f) THEN {Fault("field.missing_definition", path)} ELSE {}
    [] tree # NoValue /\ tree[1] \notin {"object", "items", "union"} ->
         IF \/ f.kind = "leaf" /\ tree \in f.rejects
            \/ f.kind = "opaque" /\ f.shape \notin {"any", tree[2][1]}
         THEN {Fault("constraint.type_mismatch", path)} ELSE {}
    [] OTHER -> {}

\* A whole description.
root(fields)        == structured("group", "", fields)
Configuration(o, t) == config(root(o), Members(t), <<>>)
Problems(o, t)      == problems(root(o), Members(t), <<>>)
==============================================================================
