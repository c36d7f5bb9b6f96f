-------------------------------- MODULE MCDerive --------------------------------
(***************************************************************************)
(* Derivations of a few Go types: a server that refers to itself, an       *)
(* application whose list elements refer back to it, rules two levels      *)
(* down, and one that nests a descriptor derived before it, in groups,     *)
(* unions and former paths.                                                *)
(***************************************************************************)
EXTENDS Derive

goField(name, go, nested, exported) ==
  [name |-> name, go |-> go, nested |-> nested, exported |-> exported]

leafOf(name) == goField(name, "", FALSE, TRUE)

MCGoFields(go) ==
  CASE go = "Server" ->
         {leafOf("Port"), leafOf("Peer"), leafOf("Next"), goField("seen", "", FALSE, FALSE)}
    [] go = "Endpoint" -> {leafOf("Port"), leafOf("Host")}
    [] go = "Node"     -> {leafOf("Name"), leafOf("App")}
    [] go = "Cluster"  -> {goField("Main", "Endpoint", TRUE, TRUE), leafOf("Nodes")}
    [] go = "Hub"      -> {goField("Main", "Endpoint", TRUE, TRUE)}
    [] go = "Site"     -> {leafOf("Hub")}
    [] go = "Gateway"  ->
         {goField("Main", "Endpoint", TRUE, TRUE), leafOf("Pool"),
          goField("Store", "Backend", TRUE, TRUE)}
    [] go = "Backend"  -> {leafOf("S3"), leafOf("Local")}

RECURSIVE MCGoLeaves(_)
MCGoLeaves(go) ==
  UNION {IF ~f.exported THEN {}
         ELSE IF f.nested THEN {<<f.name>> \o p : p \in MCGoLeaves(f.go)}
         ELSE {<<f.name>>} : f \in MCGoFields(go)}

P == INSTANCE Lookup

MCpublish(objs, o) == P!publish(objs, o)

------------------------------------------------------------------------------
(* Statements.                                                             *)

stmt(op, name, go, f) ==
  [op |-> op, name |-> name, go |-> go, f |-> upon(f, [settable |-> TRUE]),
   unfit |-> "", pointer |-> FALSE, elem |-> "", by |-> <<"none", "">>,
   variants |-> <<>>, body |-> <<>>, reason |-> ""]

\* Value, and a value that may be missing from nothing.
plain(name, go)    == stmt("plain", name, go, leafField(name))
explicit(name, go) == stmt("plain", name, go, [leafField(name) EXCEPT !.zero = FALSE, !.required = TRUE])
ignoring(op, go)   == stmt(op, "", go, leafField(""))
rule(name)         == stmt("rule", name, <<>>, leafField(name))
grouping(name, body) ==
  [stmt("group", name, <<>>, structured("group", name, <<>>)) EXCEPT !.body = body]

\* A field holding what a function or a descriptor describes.
holding(op, name, go, elem, by, presence) ==
  [stmt(op, name, go, [structured(op, name, <<>>) EXCEPT !.presence = presence])
   EXCEPT !.elem = elem, !.by = by]

s3 == [tag |-> "s3", go |-> "Endpoint", own |-> TRUE]

oneOf(name, go, variants) ==
  [stmt("union", name, go, [structured("union", name, <<>>) EXCEPT !.tag = "type"])
   EXCEPT !.variants = variants]

moved(s, former) ==
  [s EXCEPT !.f.former = [i \in DOMAIN former |-> former[i]]]

Bodies ==
  [ server |->
      << rule("bounded"), explicit("port", <<"Port">>),
         holding("section", "peer", <<"Peer">>, "Server", <<"function", "server">>, "optional"),
         [holding("object", "next", <<"Next">>, "Server", <<"function", "server">>, "required")
          EXCEPT !.pointer = TRUE],
         ignoring("ignore", <<"Next">>), rule("bounded") >>,
    \* Every registrar misused, once.
    careless |->
      << [plain("port", <<"Port">>) EXCEPT !.unfit = "foreign_pointer"],
         [plain("peer", <<"Peer">>) EXCEPT !.f.presence = "optional"],
         holding("object", "peer", <<"Peer">>, "Server", <<"function", "server">>, "optional"),
         [stmt("opaque", "next", <<"Next">>, [leafField("next") EXCEPT !.kind = "opaque"]) EXCEPT !.pointer = TRUE],
         plain("", <<"Next">>), grouping("", <<>>),
         [plain("seen", <<"seen">>) EXCEPT !.f.settable = FALSE, !.f.default = List(<<>>)],
         oneOf("next", <<"Next">>, <<s3, [s3 EXCEPT !.tag = ""], [s3 EXCEPT !.own = FALSE]>>),
         ignoring("ignoreRecursive", <<"Next">>), [explicit("port", <<"Port">>) EXCEPT !.f.merge = "append"],
         grouping("port", <<>>) >>,
    endpoint |->
      << moved(explicit("port", <<"Port">>), <<<<"listen">>>>), plain("host", <<"Host">>), rule("bounded") >>,
    inner |->
      << explicit("port", <<"Port">>), plain("host", <<"Host">>), rule("bounded") >>,
    cluster |->
      << grouping("http", << holding("object", "main", <<"Main">>, "Endpoint", <<"function", "inner">>, "required"),
                             plain("port", <<"Main", "Port">>) >>),
         ignoring("ignore", <<"Main", "Host">>), plain("http", <<"Main", "Port">>),
         moved([holding("list", "nodes", <<"Nodes">>, "Node", <<"function", "node">>, "required")
                EXCEPT !.f.key = "name", !.f.merge = "bykey"], <<<<"peers">>>>),
         rule("apart") >>,
    hub |->
      << rule("apart"),
         holding("object", "main", <<"Main">>, "Endpoint", <<"function", "inner">>, "required") >>,
    site |->
      << holding("section", "hub", <<"Hub">>, "Hub", <<"function", "hub">>, "optional") >>,
    node |->
      << explicit("name", <<"Name">>),
         holding("section", "cluster", <<"App">>, "Cluster", <<"function", "cluster">>, "optional"),
         ignoring("ignore", <<"App">>) >>,
    gateway |->
      << holding("object", "main", <<"Main">>, "Endpoint", <<"descriptor", "Endpoint">>, "required"),
         moved(explicit("port", <<"Main", "Port">>), <<<<"http", "port">>, <<"main", "old">>>>),
         ignoring("ignoreRecursive", <<"Main">>),
         moved(holding("list", "pool", <<"Pool">>, "Endpoint", <<"descriptor", "Endpoint">>, "required"),
               <<<<"http", "pool">>>>),
         ignoring("ignore", <<"Pool">>),
         oneOf("store", <<"Store">>, <<s3>>),
         ignoring("ignoreRecursive", <<"Store">>) >> ,
    ring |->
      << explicit("port", <<"Port">>), ignoring("ignore", <<"Next">>),
         moved(holding("section", "peer", <<"Peer">>, "Server", <<"function", "ring">>, "optional"),
               <<<<"buddy">>>>) >> ]

MCBody(fn) == Bodies[fn]

Library     == {<<<<"Server", "server">>>>, 
                <<<<"Endpoint", "endpoint">>, <<"Server", "careless">>>>,
                <<<<"Cluster", "cluster">>>>, <<<<"Node", "node">>>>, <<<<"Site", "site">>>>,
                <<<<"Endpoint", "endpoint">>, <<"Gateway", "gateway">>>>}
SharedOne   == {<<<<"Endpoint", "endpoint">>, <<"Gateway", "gateway">>>>}
MovedRing   == {<<<<"Server", "ring">>>>}

------------------------------------------------------------------------------
(* What a reader of a descriptor counts on.                                *)

RECURSIVE Described(_, _, _, _)
Described(o, prefix, bare, above) ==
  UNION {LET f    == objects[o].fields[i]
             path == Append(prefix, NameSeg(f.name))
             own  == IF f.kind = "group" THEN bare ELSE Append(bare, NameSeg(f.name))
             refs == referred(f)
         IN {[path |-> path, bare |-> own, ref |-> <<o, i>>]}
              \cup IF Moved(f) THEN {}
                   ELSE UNION {Described(refs[k], below(f, path), own, above \cup {o}) :
                                 k \in {k \in DOMAIN refs : refs[k] \notin above \cup {o}}}
         : i \in DOMAIN objects[o].fields}

FieldsOf(d) == Described(published[d].root, <<>>, <<>>, {})
FieldAt(ref) == objects[ref[1]].fields[ref[2]]

\* An object nested at one place, and a name no variant shares.
Alone(e, all) == ~\E e2 \in all : e2 # e /\ (e2.ref = e.ref \/ e2.path = e.path)

FoundWhereDescribed(d) ==
  LET all == FieldsOf(d)
  IN \A e \in all : Alone(e, all) =>
       /\ e.path \in DOMAIN published[d].byPath
       /\ published[d].byPath[e.path] = e.ref
       /\ FieldAt(e.ref).path = e.path

\* (prefixPaths, reindex) A descriptor just derived finds every field it
\* describes under the path of that field, whatever groups, variants, elements
\* and former names are on the way, and each field knows that path: sources and
\* resolution look values up by it.
FieldsAreFound == published # <<>> => FoundWhereDescribed(Len(published))

\* ("Descriptor is an immutable compiled configuration description",
\* descriptor.go:321) So does every descriptor derived before.
DescriptorsImmutable == \A d \in DOMAIN published : FoundWhereDescribed(d)

\* The fields below an object, each object entered once more than it encloses
\* itself, elements with a key of their own.
RECURSIVE Unrolled(_, _, _)
Unrolled(o, prefix, above) ==
  UNION {LET f    == objects[o].fields[i]
             path == Append(prefix, NameSeg(f.name))
             refs == referred(f)
             often(r) == Cardinality({n \in DOMAIN above : above[n] = r})
         IN {[path |-> path, ref |-> <<o, i>>]}
              \cup IF Moved(f) THEN {}
                   ELSE UNION {Unrolled(refs[k], IF isCollection(f) THEN ElementPath(path, "k") ELSE path,
                                        Append(above, o)) :
                                 k \in {k \in DOMAIN refs : often(refs[k]) < 2}}
         : i \in DOMAIN objects[o].fields}

\* (fieldAt, walkPath) Every path a document can reach leads to the field that
\* describes it: through elements, variants and groups, through an object inside
\* itself, and in a descriptor nested at several places or in another one since.
\* In the descriptor just derived it is the field's own path, so that a list
\* there is folded as one, at whatever depth.
LookupsFollow ==
  \A d \in DOMAIN published :
    LET all == Unrolled(published[d].root, <<>>, <<>>)
    IN \A e \in all : (\A e2 \in all : e2.path = e.path => e2 = e) =>
         LET found == P!fieldAt(objects, published[d], e.path)
         IN /\ found.refs = {e.ref}
            /\ d = Len(published) => found.own

\* (indexShadow) What a former path borrows is found below it: a lookup under
\* the old path of a list or an object answers the field that the same lookup
\* under the current one does.
FormerMembersFound ==
  published # <<>> =>
    LET index == published[Len(published)].byPath
    IN \A p \in DOMAIN index :
         Moved(FieldAt(index[p])) /\ FieldAt(index[p]).path = p =>
           LET now == FieldAt(FieldAt(index[p]).movedTo).path
           IN \A q \in DOMAIN index : IsPrefix(now, q) /\ q # now =>
                /\ ReRoot(q, now, p) \in DOMAIN index
                /\ index[ReRoot(q, now, p)] = index[q]

\* The places of an object in a descriptor; bare are the names of the levels
\* that are fields of Go structs.
PlacesOf(d, o) ==
  (IF o = published[d].root THEN {[path |-> <<>>, bare |-> <<>>]} ELSE {})
    \cup {[path |-> e.path, bare |-> e.bare] : e \in {e \in FieldsOf(d) : FieldAt(e.ref).object = o}}

ReportsAt(r, path) == path = [i \in DOMAIN r.prefix |-> NameSeg(r.prefix[i])]

\* (lift) A rule reports under the object whose values it checks, however deep
\* that is nested: its violations are prefixed with a path of that object, every
\* level that lifted it included. (Not where a group is on the way: no builder
\* lifts a rule through a group.)
RulesLead ==
  \A d \in DOMAIN published : \A r \in published[d].rules :
    LET places == PlacesOf(d, r.checks)
    IN (\A e \in places : e.path = e.bare) => \E e \in places : ReportsAt(r, e.path)

\* ("A configuration type is allowed to refer to itself", builder.go:162)
\* Recursion of the Go types is not recursion of the walks over them.
WalksEnd == ~overflown
=================================================================================
