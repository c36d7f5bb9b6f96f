-------------------------------- MODULE MCFold --------------------------------
(***************************************************************************)
(* Folding the layers that documents of one description bind to.           *)
(*                                                                         *)
(* Every document touches every kind of field, so all sequences of         *)
(* documents bring all sequences of what may be said of each field.        *)
(***************************************************************************)
EXTENDS Fold, View

Root == <<
  leafField("level"),
  [leafField("tags") EXCEPT !.shape = "list", !.merge = "append"],
  [leafField("limits") EXCEPT !.shape = "map", !.merge = "bykey"],
  structured("section", "tls", <<[leafField("cert") EXCEPT !.called = "certificate"]>>),
  [structured("object", "auth", <<leafField("value"), leafField("file")>>)
     EXCEPT !.scalarOr = TRUE],
  [structured("list", "sites", <<leafField("name"), leafField("size")>>)
     EXCEPT !.merge = "bykey", !.key = "name"],
  [structured("list", "hooks", <<leafField("url")>>) EXCEPT !.merge = "append"],
  structured("list", "rules", <<leafField("match"),
     structured("list", "hosts", <<leafField("addr")>>)>>),
  [structured("map", "proxies", <<leafField("url")>>) EXCEPT !.merge = "bykey"],
  [structured("list", "zones", <<leafField("name"),
      [structured("list", "mirrors", <<leafField("addr")>>) EXCEPT !.merge = "append"]>>)
     EXCEPT !.merge = "bykey", !.key = "name"] >>

Compiled == Compile(Root)
DescribedPaths == reindex(Compiled)
MCByPath == DescribedPaths

T(v) == Text(v)
Rule(m, addrs) ==
  Object(<<M("match", T(m)),
           M("hosts", Array([i \in DOMAIN addrs |-> Object(<<M("addr", T(addrs[i]))>>)]))>>)
Zone(n, addrs) ==
  Object(<<M("name", T(n)),
           M("mirrors", Array([i \in DOMAIN addrs |-> Object(<<M("addr", T(addrs[i]))>>)]))>>)
Site(n, s) == Object(<<M("name", T(n)), M("size", T(s))>>)
Bare(n)    == Object(<<M("name", T(n))>>)
Url(u)     == Object(<<M("url", T(u))>>)
Empty      == Object(<<>>)

Docs == {
  Empty,
  Object(<<M("level", T("debug")), M("tags", Array(<<T("a"), T("b")>>)),
           M("limits", Object(<<M("cpu", T("1")), M("mem", T("1"))>>)),
           M("tls", Empty), M("auth", T("token")),
           M("sites", Array(<<Site("docs", "1"), Bare("blog")>>)),
           M("hooks", Array(<<Url("u"), Empty>>)),
           M("rules", Array(<<Rule("m", <<"x">>), Rule("n", <<>>)>>)),
           M("proxies", Object(<<M("git", Url("g")), M("hub", Empty), M("lab", Empty)>>)),
           M("zones", Array(<<Zone("eu", <<"m">>), Zone("us", <<"n">>)>>))>>),
  Object(<<M("level", T("warn")), M("tags", Array(<<T("c")>>)),
           M("limits", Object(<<M("mem", T("2"))>>)),
           M("tls", Object(<<M("certificate", T("pem"))>>)),
           M("auth", Object(<<M("file", T("f"))>>)),
           M("sites", Array(<<Bare("wiki"), Site("blog", "2")>>)),
           M("hooks", Array(<<Url("v")>>)),
           M("rules", Array(<<Rule("o", <<"y", "z">>)>>)),
           M("proxies", Object(<<M("hub", Url("h")), M("git", Null)>>)),
           M("zones", Array(<<Zone("us", <<"o", "p">>), Bare("eu")>>))>>),
  Object(<<M("level", Null), M("tags", Null), M("limits", Null), M("tls", Null),
           M("auth", Object(<<M("value", T("v"))>>)), M("sites", Null),
           M("hooks", Null), M("rules", Null), M("proxies", Null)>>),
  Object(<<M("level", T(Garbage)), M("tags", Array(<<>>)),
           M("limits", Object(<<>>)), M("tls", Object(<<M("certificate", Null)>>)),
           M("auth", Null), M("sites", Array(<<>>)), M("hooks", Array(<<>>)),
           M("rules", Array(<<>>)), M("proxies", Object(<<M("git", Url("k"))>>))>>)
}

layerOf(doc) == ("doc" :> doc) @@ Bind(Compiled, doc)

\* A source with no nesting has no marker to write an optional section with.
Flat == [doc |-> Object(<<M("tls", Object(<<M("certificate", T("env"))>>))>>),
         assignments |-> <<present(<<NameSeg("tls"), NameSeg("cert")>>, Scalar("env"))>>,
         faults |-> {}]

\* A programmatic source may hand over a value of another type, or none.
Mistyped == [doc |-> Empty, faults |-> {},
             assignments |-> <<[present(<<NameSeg("level")>>, NoValue) EXCEPT !.state = "missing"],
                               present(<<NameSeg("tags")>>, Scalar("a"))>>]

DeliveredLayers == {layerOf(doc) : doc \in Docs} \cup {Flat, Mistyped}
MCLayers == DeliveredLayers

\* No document repeats a key, so the theorems about slots speak of these layers.
ASSUME DocumentsOrderly == \A layer \in DeliveredLayers : Orderly(layer)

------------------------------------------------------------------------------
MCView == materialize(Root, <<>>, values, collections)
docsSoFar == [i \in DOMAIN sources |-> sources[i].doc]

(* What the fold leaves, read the way materialize reads it, is the overlay *)
(* of the documents: no path arithmetic, slot allocation or marker loses,  *)
(* adds or reorders anything (resolve.go fold, element.go, section.go).    *)
LayersOverlay ==
  ~Folding /\ Mistyped \notin Range(sources) => MCView = Layered(Root, docsSoFar)
==============================================================================
