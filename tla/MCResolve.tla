------------------------------- MODULE MCResolve -------------------------------
(***************************************************************************)
(* Resolving a description that has every kind of field, from all          *)
(* sequences of a few documents.                                           *)
(***************************************************************************)
EXTENDS Resolve

CONSTANTS AllowNull, DisallowUnknown, Garbage

Nowhere == <<"nowhere", "">>

Doc == INSTANCE Configured

leaf(name)        == leafField(name)
explicit(name)    == [leafField(name) EXCEPT !.zero = FALSE, !.required = TRUE]
defaulted(name, v) == [leafField(name) EXCEPT !.default = Scalar(v)]

Root == <<
  [defaulted("level", "info") EXCEPT !.rejects = {Scalar("loud")}],
  [leaf("mode") EXCEPT !.zero = FALSE, !.presence = "optional", !.deprecated = TRUE],
  [leaf("tags") EXCEPT !.shape = "list", !.merge = "append"],
  [leaf("token") EXCEPT !.decoder = TRUE, !.accepts = {"scalar", "object"}],
  [leaf("extra") EXCEPT !.kind = "opaque", !.shape = "object"],
  structured("group", "db", <<
    [explicit("dsn") EXCEPT !.secret = TRUE, !.former = <<<<"database_dsn">>>>],
    [defaulted("password", "changeme") EXCEPT !.secret = TRUE]>>),
  [structured("object", "auth", <<leaf("value"), leaf("file")>>)
     EXCEPT !.scalarOr = TRUE, !.secret = TRUE, !.former = <<<<"legacy", "auth">>>>],
  [structured("section", "s3", <<explicit("bucket"), defaulted("region", "eu")>>)
     EXCEPT !.former = <<<<"archive">>>>],
  [structured("object", "limits", <<leaf("burst"), structured("list", "rules", <<leaf("match")>>)>>)
     EXCEPT !.former = <<<<"quota">>>>],
  [structured("list", "sites", <<leaf("name"), [leaf("size") EXCEPT !.aliases = <<"bytes">>],
      structured("section", "tls", <<explicit("cert")>>)>>)
     EXCEPT !.merge = "bykey", !.key = "name", !.former = <<<<"locations">>>>],
  [structured("map", "shards", <<[explicit("host") EXCEPT !.secret = TRUE]>>) EXCEPT !.badKeys = {"x"}],
  [structured("list", "hooks", <<leaf("url")>>)
     EXCEPT !.required = TRUE, !.rejects = {Elements(<<>>)}],
  [structured("union", "sink", <<>>) EXCEPT !.tag = "type",
     !.variants = <<[tag |-> "file", members |-> <<explicit("path")>>],
                    [tag |-> "term", members |-> <<defaulted("color", "auto")>>]>>] >>

Compiled == Doc!Compile(Root)
Emitted  == INSTANCE Schema WITH NoElements <- Elements(<<>>)
SourceSchemaOf == Emitted!Generate(Compiled, TRUE)
SourceSchema == SourceSchemaOf
Described_ == Doc!prefixPaths(Root, <<>>)
Listed   == SelectSeq(Doc!fieldsOf(Compiled), LAMBDA g : Moved(g))
Index    == Doc!reindex(Compiled)

MCDescribed == Compiled
MCShadows   == Listed
MCByPath    == Index

\* What the theorems about the report are of.
AllFields == Range(Doc!fieldsOf(Compiled))
ASSUME DescribedBy(AllFields) /\ CredentialsAreValues(AllFields) /\ MovedOnce

\* One cross-field rule: the debug level and an archive exclude one another.
MCViolated(c) ==
  IF <<NameSeg("s3")>> \in DOMAIN c /\ c[<<NameSeg("level")>>] = Scalar("debug")
  THEN {<<NameSeg("level")>>} ELSE {}

------------------------------------------------------------------------------
(* Documents.                                                              *)

T(v)     == Doc!Text(v)
K(k, v)  == Doc!M(k, v)
O(ms)    == Doc!Object(ms)
A(items) == Doc!Array(items)

Base == O(<<
  K("level", T("debug")), K("tags", A(<<T("a")>>)), K("extra", O(<<K("k", Doc!Null)>>)),
  K("token", O(<<K("env", T("A"))>>)),
  K("db", O(<<K("dsn", T("d1"))>>)), K("auth", T("token")),
  K("sites", A(<<O(<<K("name", T("docs")), K("tls", O(<<K("cert", T("pem"))>>))>>)>>)),
  K("shards", O(<<K("one", O(<<K("host", T("h"))>>))>>)),
  K("hooks", A(<<O(<<>>)>>)), K("sink", O(<<K("type", T("file")), K("path", T("p"))>>))>>)

Former == O(<<
  K("level", T("warn")), K("database_dsn", T("d2")),
  K("legacy", O(<<K("auth", O(<<K("file", T("f"))>>))>>)),
  K("archive", O(<<K("bucket", T("b"))>>)),
  K("quota", O(<<K("burst", T("9"))>>))>>)

Override == O(<<
  K("mode", T("m")), K("token", T("t")),
  K("sites", A(<<O(<<K("name", T("docs")), K("bytes", T("2"))>>)>>)),
  K("hooks", A(<<O(<<K("url", T("u"))>>)>>)), K("sink", O(<<K("type", T("term"))>>))>>)

Erasing == O(<<
  K("level", Doc!Null), K("tags", Doc!Null), K("token", Doc!Null), K("db", O(<<K("dsn", Doc!Null)>>)),
  K("auth", Doc!Null), K("s3", Doc!Null), K("sites", Doc!Null), K("shards", Doc!Null),
  K("hooks", Doc!Null)>>)

Faulty == O(<<
  K("level", T("loud")), K("s3", O(<<>>)), K("hooks", A(<<>>)),
  K("shards", O(<<K("x", O(<<>>))>>)), K("auth", O(<<K("value", T("v"))>>))>>)

Undecodable == O(<<K("db", O(<<K("dsn", T(Garbage))>>)), K("tags", A(<<T("b")>>))>>)

\* What has to be written, and nulls where defaults are.
Minimal == O(<<
  K("level", Doc!Null), K("mode", Doc!Null), K("tags", Doc!Null), K("db", O(<<K("dsn", T("d1"))>>)),
  K("s3", O(<<K("bucket", T("b"))>>)),
  K("hooks", A(<<O(<<>>)>>)), K("sink", O(<<K("type", T("term"))>>))>>)

\* Lists under former paths: of the list itself, and of an object around one.
FormerLists == O(<<
  K("db", O(<<K("dsn", T("d1"))>>)), K("hooks", A(<<O(<<>>)>>)),
  K("sink", O(<<K("type", T("term"))>>)),
  K("locations", A(<<O(<<K("name", T("docs"))>>)>>)),
  K("quota", O(<<K("rules", A(<<O(<<K("match", T("x"))>>), O(<<>>)>>))>>))>>)

Docs == {Base, Former, Override, Erasing, Faulty, Undecodable, Minimal}

(* The documents a member, at the top or one level below, away from d:     *)
(* without one it has, with one no field claims or the root alone may      *)
(* have, with a field the descriptor says little of, written every way.    *)
Short(node, i) == O(RemoveAt(node[2], i))
Long(node, k, v) == O(Append(node[2], K(k, v)))
Tokens == {T("t"), O(<<K("env", T("A")), K("env", T("B"))>>), A(<<T("a")>>)}
Unclaimed == {Doc!SchemaKey, "other"}
Around(node) ==
  {Short(node, i) : i \in DOMAIN node[2]} \cup {Long(node, k, T("k")) : k \in Unclaimed}
Near(d) ==
  {d} \cup {Long(d, k, t) : k \in {"token", "extra"}, t \in Tokens} \cup Around(d)
    \cup UNION {IF d[2][i].node[1] # "object" THEN {}
               ELSE {O([d[2] EXCEPT ![i].node = n]) : n \in Around(d[2][i].node)} :
               i \in DOMAIN d[2]}
NearDocs == {FormerLists} \cup UNION {Near(d) : d \in Docs}

\* Base as it is written: in YAML, sharing what it repeats.
Yaml       == INSTANCE Yaml
Pair(k, v) == [key |-> k, merge |-> FALSE, value |-> v]
Splice(v)  == [key |-> "", merge |-> TRUE, value |-> v]
Mapping(ps)   == <<"mapping", ps>>
Alias(a)   == <<"alias", a>>

Anchors ==
  "cert" :> Mapping(<<Pair("cert", T("pem"))>>)
  @@ "site" :> Mapping(<<Pair("name", T("other")), Pair("tls", Alias("cert"))>>)
  @@ "tuned" :> Mapping(<<Splice(Alias("site")), Pair("tls", Doc!Null)>>)
  @@ "h" :> T("h")

Shared ==
  "sites" :> <<"sequence", <<Mapping(<<Splice(<<"sequence", <<Alias("site"), Alias("tuned")>>>>),
                                   Pair("name", T("docs"))>>)>>>>
  @@ "shards" :> Mapping(<<Pair("one", Mapping(<<Pair("host", Alias("h"))>>))>>)

\* The rest of it as mappings and sequences.
RECURSIVE plain(_)
plain(node) ==
  CASE node[1] = "object" ->
         Mapping([i \in DOMAIN node[2] |-> Pair(node[2][i].key, plain(node[2][i].node))])
    [] node[1] = "array"  -> <<"sequence", [i \in DOMAIN node[2] |-> plain(node[2][i])]>>
    [] OTHER              -> node

Written ==
  Mapping([i \in DOMAIN Base[2] |->
          LET m == Base[2][i]
          IN Pair(m.key, IF m.key \in DOMAIN Shared THEN Shared[m.key] ELSE plain(m.node))])

WrittenBase == Yaml!convertNode(Anchors, Written)

\* What no document can be read from: no such anchor, a scalar merged.
Unreadable ==
  {Mapping(<<Pair("db", Mapping(<<Splice(Alias("elsewhere"))>>))>>),
   Mapping(<<Splice(<<"sequence", <<Alias("site"), Alias("h")>>>>), Pair("mode", T("m"))>>)}

Bound(ds) == {("doc" :> d) @@ Doc!Bind(Compiled, d) : d \in ds}
Delivered == Bound(Docs)
MCLayers  == Delivered
FaultsOf  == [d \in NearDocs |-> Doc!Bind(Compiled, d).faults]

------------------------------------------------------------------------------
(* The reference: the same documents, their former spellings renamed.      *)

nodeAt(doc, path) ==
  FoldLeft(LAMBDA node, seg : IF Doc!has(node, seg[2]) THEN Doc!Field(node, seg[2])
                              ELSE Nowhere, doc, path)

wrapped(node, path) ==
  FoldRight(LAMBDA seg, inner : O(<<K(seg[2], inner)>>), path, node)

\* What a document says under former paths, said under the current ones.
renamed(doc, moves) ==
  LET used == SelectSeq(moves, LAMBDA s : nodeAt(doc, s.path) # Nowhere)
  IN [i \in DOMAIN used |-> wrapped(nodeAt(doc, used[i].path), used[i].movedTo)]

docs == [i \in DOMAIN sources |-> sources[i].doc]

Current(ds, moves) == FlattenSeq([i \in DOMAIN ds |-> <<ds[i]>> \o renamed(ds[i], moves)])
OnlyFormer(ds, moves) == FlattenSeq([i \in DOMAIN ds |-> renamed(ds[i], moves)])

\* A document in force says something of a field or of anything below it.
RECURSIVE said(_, _)
said(f, tree) ==
  IF f.kind \in {"object", "group"} /\ tree[1] = "object"
  THEN \E i \in DOMAIN f.members : said(f.members[i], tree[2][f.members[i].name])
  ELSE tree # NoValue

saidAt(members, path) ==
  said(Index[CanonicalPath(path)],
       FoldLeft(LAMBDA t, seg : t[2][seg[2]], Doc!Members(members), path))

conflicts(ds) ==
  {i \in DOMAIN Listed :
     /\ saidAt(Doc!Layered(Described_, ds), Listed[i].movedTo)
     /\ saidAt(Doc!Layered(Described_, OnlyFormer(ds, <<Listed[i]>>)), Listed[i].movedTo)}

Tree(ds) == Doc!Layered(Described_, Current(ds, Listed))

\* The errors that end each stage; a stage is reached when none came before.
LoadErrors(ds) ==
  UNION {{Error("source", p) : p \in FaultsOf[ds[i]]} : i \in DOMAIN ds}
    \cup {Error("field.moved_conflict", Listed[i].path) : i \in conflicts(ds)}
FieldErrors(ds) == Doc!Problems(Described_, Tree(ds))
RuleErrors(ds)  ==
  {Error("invariant.violated", p) : p \in MCViolated(Doc!Configuration(Described_, Tree(ds)))}

Expected(ds) ==
  IF LoadErrors(ds) # {} THEN LoadErrors(ds)
  ELSE IF FieldErrors(ds) # {} THEN FieldErrors(ds) ELSE RuleErrors(ds)

\* An erase is the last word on a field: no former spelling follows it.
ErasedLast(ds) ==
  \A i, j \in DOMAIN ds : i < j => ~(ds[i] = Erasing /\ ds[j] = Former)

\* Load returned an error: nothing was redirected, let alone materialized.
LoadFailed == phase = "done" /\ redirected = 0

RightAnswer(ds, a) ==
  ErasedLast(ds) =>
    /\ a.errors = Expected(ds)
    /\ IF Expected(ds) = {}
       THEN a.outcome = "config" /\ a.config = Doc!Configuration(Described_, Tree(ds))
       ELSE a.outcome = "error" /\ a.config = <<>>

answered ==
  IF phase # "done" THEN [outcome |-> "none", config |-> <<>>, errors |-> {}]
  ELSE [outcome |-> IF LoadFailed THEN "refused" ELSE outcome,
        config |-> config, errors |-> diagnostics]

Call == INSTANCE Promise
  WITH Documents <- Docs, MaxDocuments <- MaxLayers, Answers <- RightAnswer,
       given <- docs, answer <- answered

(* Resolve implements its promise: it returns once, with the configuration *)
(* the layered documents stand for and the defaults of what none of them   *)
(* says, or else with every error of the first stage that has one and the  *)
(* zero configuration (resolve.go ResolveContext, materialize,             *)
(* applyDefault; moved.go applyMoved).                                     *)
ResolvesAsLayered == Call!Spec

\* The layers whose document says anything of a path, and what it says.
parts(i)    == <<docs[i]>> \o renamed(docs[i], Listed)
nodes(i, p) == {nodeAt(parts(i)[k], p) : k \in DOMAIN parts(i)} \ {Nowhere}
Instead(i, p) ==   \* an enclosing object is erased, or spelled as a scalar
  \E n \in 1 .. Len(p) - 1 : \E node \in nodes(i, SubSeq(p, 1, n)) : node[1] # "object"
LastWord(p) ==
  Max({0} \cup {i \in DOMAIN docs : nodes(i, p) # {} \/ Instead(i, p)})

\* The layer in force at p: 0, the defaults, when the last word took it back.
InForce(p) ==
  LET i == LastWord(p)
  IN IF i = 0 \/ Instead(i, p) \/ Doc!Null \in nodes(i, p) THEN 0 ELSE i

(* OriginOf names the layer that had the last word on a value, under its   *)
(* current name or a former one, or the defaults when none had; ErasedBy   *)
(* names a layer whose last word was null (resolve.go Report, moved.go).   *)
OriginsAreLastWords ==
  outcome = "config" /\ ErasedLast(docs) =>
    /\ \A p \in DOMAIN origins : ~HasElement(p) => origins[p] = InForce(p)
    /\ \A p \in DOMAIN erased :
         ~HasElement(p) => erased[p] = LastWord(p) /\ InForce(p) = 0

SchemaAdmitted == [d \in NearDocs |-> Emitted!valid(SourceSchema, d)]
ExpectedAlone  == [d \in NearDocs |-> Expected(<<d>>)]

\* The error is a field's own decoder's, of a shape that field accepts.
OwnVerdict(doc, x) ==
  /\ x.code = "source" /\ CanonicalPath(x.path) \in DOMAIN Index
  /\ Index[CanonicalPath(x.path)].decoder
  /\ Doc!accepted(Index[CanonicalPath(x.path)], nodeAt(doc, x.path))

(* The schema emitted for a source agrees with resolving a document of     *)
(* that source alone, and any document a member short of it (jsonschema.go *)
(* objectBody, demanded, types).  What it admits is in error only for what *)
(* it cannot express: text a decoder refuses, both spellings of a field, a *)
(* cross-field rule.                                                       *)
SchemaCatches ==
  \A d \in Docs \ {Undecodable} : docs = <<d>> /\ phase = "done" =>
    \A e \in Near(d) : SchemaAdmitted[e] =>
      \A x \in ExpectedAlone[e] :
        x.code \in {"field.moved_conflict", "invariant.violated"} \/ OwnVerdict(e, x)

(* It admits every document that resolves, if that has current names only  *)
(* and no null but for values that fall back on a default.                 *)
SchemaAdmits ==
  \A d \in {Base, Minimal, Faulty, Undecodable} : docs = <<d>> /\ phase = "done" =>
    \A e \in Near(d) : ExpectedAlone[e] = {} => SchemaAdmitted[e]

(* A YAML document that shares what it repeats through anchors and merge   *)
(* keys, some of them overridden, resolves to what it says written out: a  *)
(* mapping's own keys win over what it merges, and the first of several    *)
(* mappings merged over the next (yaml/decode.go convertNode, mergeFields).*)
SharedReadsAlike ==
  docs = <<Base>> /\ outcome = "config" =>
    /\ config = Doc!Configuration(Described_, Doc!Layered(Described_, <<WrittenBase>>))
    /\ \A n \in Unreadable : Yaml!convertNode(Anchors, n) = Yaml!Refused

(* Resolve always returns: every source is loaded once, every shadow and   *)
(* every frame is visited once (resolve.go ResolveContext).                *)
Returns == <>(phase = "done")

------------------------------------------------------------------------------
(* Statements of the documentation that do not hold.                       *)

(* "Secret reports whether the value at the canonical path is a            *)
(* credential", for "a consumer walking Report.Origins" (secret.go:55).    *)
SecretsReported ==
  outcome = "config" => \A p \in DOMAIN origins : Secret(p) => p \in secrets

ElementLayers == {l \in Delivered : l.doc = Base}
SecretLayers  == ElementLayers

(* "the old spelling still resolves" (README.md:698), setting both being   *)
(* the error: a value the last document writes under a former path, with   *)
(* none under the current one, is not missing.                             *)
FormerSpellingResolves ==
  (/\ phase = "done" /\ ~LoadFailed
   /\ conflicts(docs) = {}
   /\ docs # <<>> /\ Last(docs) = Former) =>
    Error("field.missing_definition", <<NameSeg("db"), NameSeg("dsn")>>) \notin diagnostics

MovedDelivered == {l \in Delivered : l.doc \in {Erasing, Former}}
MovedLayers    == MovedDelivered

(* "a former path that carried a list hands over its elements and their    *)
(* order" (element.go:228): the list under the former path resolves to     *)
(* what it resolves to under the current one.                              *)
FormerListsResolve ==
  outcome = "config" => config = Doc!Configuration(Described_, Tree(docs))

ListsDelivered == Bound({FormerLists})
ListLayers     == ListsDelivered
==============================================================================
