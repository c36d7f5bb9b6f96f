-------------------------------- MODULE MCGaps --------------------------------
(***************************************************************************)
(* Statements of the documentation that the fold does not keep.  Each is   *)
(* one property, with the few documents that bring it about.               *)
(***************************************************************************)
EXTENDS Fold, View

Root == <<
  structured("list", "rules", <<leafField("match"),
    structured("list", "hosts", <<leafField("addr")>>)>>),
  [structured("map", "proxies", <<leafField("url"),
      [structured("object", "auth", <<leafField("file")>>) EXCEPT !.scalarOr = TRUE]>>)
     EXCEPT !.merge = "bykey"] >>

Compiled == Compile(Root)
DescribedPaths == reindex(Compiled)
MCByPath == DescribedPaths

T(v)      == Text(v)
Rules(rs) == Object(<<M("rules", Array(rs))>>)
Git(node) == Object(<<M("proxies", Object(<<M("git", node)>>))>>)
Url(u)    == Object(<<M("url", T(u))>>)
Auth(a)   == Object(<<M("auth", a)>>)

Bound(docs) == {("doc" :> d) @@ Bind(Compiled, d) : d \in docs}

Hosts(addrs) ==
  Object(<<M("hosts", Array([i \in DOMAIN addrs |-> Object(<<M("addr", T(addrs[i]))>>)]))>>)

NestedDelivered == Bound({Rules(<<Hosts(<<"a", "b">>), Hosts(<<"c">>)>>),
                          Rules(<<Object(<<M("match", T("m"))>>)>>)})
NestedLayers == NestedDelivered

SpellingDelivered == Bound({Git(Auth(T("token"))), Git(Auth(Object(<<M("file", T("f"))>>))),
                            Git(Url("u"))})
SpellingLayers == SpellingDelivered

ErasedDelivered == Bound({Git(Url("u")), Git(Null), Git(Url("v"))})
ErasedLayers == ErasedDelivered

------------------------------------------------------------------------------
(* "clear drops a collection and everything under it" (element.go:151): a  *)
(* list that is replaced keeps nothing of the lists nested in the elements *)
(* it had.                                                                 *)
ReplacedListIsOneLayer ==
  ~Folding =>
    \A c, d \in DOMAIN collections :
      /\ WithinElements(c, d) /\ byPath[CanonicalPath(c)].merge = "replace"
      /\ collections[c].provided /\ collections[d].provided
      => collections[d].origin = collections[c].origin

(* "The two spellings never half-merge across layers" (README.md:797): a   *)
(* scalar spelling and a member of the same object are never both in force.*)
SpellingsNeverMix ==
  \A p, q \in DOMAIN values :
    values[p].set /\ values[q].set /\ Inside(p, q) =>
      ~(CanonicalPath(p) \in DOMAIN byPath /\ byPath[CanonicalPath(p)].scalarOr)

(* ErasedBy "returns the layer that erased the value" (resolve.go:108), "as *)
(* OriginOf names the one that set it" (README.md:514): it does not name an *)
(* erasure that a later layer has already undone.                          *)
ErasedElementsAreAbsent ==
  ~Folding =>
    \A p \in DOMAIN erased :
      LET c == Front(p)
      IN c \in DOMAIN collections => ~Contains(collections[c].order, Last(p)[2])
==============================================================================
