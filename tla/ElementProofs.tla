----------------------------- MODULE ElementProofs -----------------------------
(***************************************************************************)
(* Theorems about the elements of lists and maps (element.go): how a       *)
(* document's subscripts become slots, and that no value is left where no  *)
(* element is.  They speak of layers that are Orderly.                     *)
(***************************************************************************)
EXTENDS OriginProofs

\* What is inside an object is inside it all the way down.
LEMMA InsideDown ==
  ASSUME NEW p, NEW q, NEW r, IsSeq(p), IsSeq(q), IsSeq(r), Inside(p, q), IsPrefix(q, r)
  PROVE  Inside(p, r)
<1>1. IsPrefix(p, q) /\ p # q /\ q[Len(p) + 1][1] = "name"
  BY DEF Inside, IsStrictPrefix
<1>2. Len(p) \in Nat /\ Len(q) \in Nat /\ Len(r) \in Nat
  BY SeqOfElements
<1>3. Len(p) <= Len(q) /\ p = SubSeq(q, 1, Len(p)) /\ Len(q) <= Len(r) /\ q = SubSeq(r, 1, Len(q))
  BY <1>1, PrefixIsHead
<1>4. Len(p) < Len(q)
  BY <1>1, <1>2, <1>3, WholeHead
<1>5. q[Len(p) + 1] = r[Len(p) + 1]
  BY <1>2, <1>3, <1>4, HeadOf
<1>6. IsPrefix(p, r)
  BY <1>1, PrefixOfPrefix
<1>7. p # r
  BY <1>2, <1>3, <1>4
<1> QED BY <1>1, <1>5, <1>6, <1>7 DEF Inside, IsStrictPrefix
------------------------------------------------------------------------------
(* A document's own paths, and what they become.                           *)

\* The slot q names where p, as the document has it, has a subscript.
Slots(cols, p, q, k) ==
  \E c \in DOMAIN cols : \E sub \in DOMAIN cols[c].remap :
    /\ c = SubSeq(q, 1, k - 1)
    /\ p[k] = ElemSeg(sub)
    /\ q[k] = ElemSeg(cols[c].remap[sub])

LEMMA SlotAt ==
  ASSUME NEW cols, NEW p, NEW q, NEW k, Slots(cols, p, q, k), NEW c, SubSeq(q, 1, k - 1) = c
  PROVE  c \in DOMAIN cols /\ \E sub \in DOMAIN cols[c].remap :
           p[k] = ElemSeg(sub) /\ q[k] = ElemSeg(cols[c].remap[sub])
BY DEF Slots

\* q is p with every subscript translated as this layer's have been.
Translates(cols, p, q) ==
  /\ IsPath(p) /\ IsPath(q) /\ Len(p) = Len(q)
  /\ \A k \in 1 .. Len(q) : (~IsElem(q[k]) /\ p[k] = q[k]) \/ Slots(cols, p, q, k)

\* The elements q goes through are in their collections.
Listed(cols, q) ==
  \A k \in 1 .. Len(q) :
    IsElem(q[k]) =>
      /\ SubSeq(q, 1, k - 1) \in DOMAIN cols
      /\ q[k][2] \in Range(cols[SubSeq(q, 1, k - 1)].order)

LEMMA Segments ==
  /\ \A sub : IsElem(ElemSeg(sub)) /\ ElemSeg(sub)[2] = sub
  /\ \A name : ~IsElem(NameSeg(name)) /\ NameSeg(name)[1] = "name"
  /\ \A s, t : ElemSeg(s) = ElemSeg(t) => s = t
BY DEF IsElem, ElemSeg, NameSeg

LEMMA NothingTranslated ==
  ASSUME NEW cols PROVE Translates(cols, <<>>, <<>>) /\ Listed(cols, <<>>)
<1>1. IsSeq(<<>>) /\ DOMAIN <<>> = {} /\ Len(<<>>) = 0
  BY EmptyOrder, EmptySeq
<1> QED BY <1>1 DEF Translates, Listed, IsPath

\* A translation changes subscripts and nothing else.
LEMMA TranslatedRewrites ==
  ASSUME NEW cols, NEW p, NEW q, Translates(cols, p, q)
  PROVE  /\ IsSeq(p) /\ IsSeq(q) /\ Len(p) \in Nat
         /\ Rewrites(q, p)
         /\ CanonicalPath(q) = CanonicalPath(p)
         /\ \A k \in 1 .. Len(p) : IsElem(p[k]) <=> IsElem(q[k])
<1>1. IsSeq(p) /\ IsSeq(q) /\ Len(p) = Len(q) /\ Len(p) \in Nat
  BY SeqOfElements DEF Translates, IsPath
<1>2. \A k \in 1 .. Len(q) : p[k] = q[k] \/ (IsElem(p[k]) /\ IsElem(q[k]))
  BY Segments DEF Translates, Slots
<1>3. Rewrites(q, p)
  BY <1>1, <1>2 DEF Rewrites
<1>4. \A k \in 1 .. Len(p) : IsElem(p[k]) <=> IsElem(q[k])
  BY <1>1, <1>2
<1> QED BY <1>1, <1>3, <1>4, SameCanonically

\* A head translates as the whole does.
LEMMA TranslatedHead ==
  ASSUME NEW cols, NEW p, NEW q, Translates(cols, p, q), NEW n \in 0 .. Len(q)
  PROVE  Translates(cols, SubSeq(p, 1, n), SubSeq(q, 1, n))
<1> DEFINE hp == SubSeq(p, 1, n)
           hq == SubSeq(q, 1, n)
<1>1. /\ IsPath(p) /\ IsPath(q) /\ Len(p) = Len(q) /\ Len(p) \in Nat
      /\ DOMAIN p = 1 .. Len(p) /\ DOMAIN q = 1 .. Len(q)
  BY SeqOfElements DEF Translates, IsPath
<1>2. /\ IsSeq(hp) /\ Len(hp) = n /\ \A i \in 1 .. n : hp[i] = p[i]
      /\ IsSeq(hq) /\ Len(hq) = n /\ \A i \in 1 .. n : hq[i] = q[i]
  BY <1>1, HeadOf DEF IsPath
<1>3. \A k \in 1 .. n : SubSeq(hq, 1, k - 1) = SubSeq(q, 1, k - 1)
  BY <1>1, HeadOfHead DEF IsPath
<1> HIDE DEF hp, hq
<1>4. DOMAIN hp = 1 .. n /\ DOMAIN hq = 1 .. n
  BY <1>2, SeqOfElements
<1>5. IsPath(hp) /\ IsPath(hq)
  BY <1>1, <1>2, <1>4 DEF IsPath
<1>6. ASSUME NEW k \in 1 .. n
      PROVE  (~IsElem(hq[k]) /\ hp[k] = hq[k]) \/ Slots(cols, hp, hq, k)
  <2>1. (~IsElem(q[k]) /\ p[k] = q[k]) \/ Slots(cols, p, q, k)
    BY <1>1 DEF Translates
  <2>2. Slots(cols, p, q, k) => Slots(cols, hp, hq, k)
    BY <1>2, <1>3 DEF Slots
  <2> QED BY <1>2, <2>1, <2>2
<1> QED BY <1>2, <1>5, <1>6 DEF Translates, hp, hq

\* No two of a document's paths become one.
LEMMA TranslatedOnce ==
  ASSUME NEW cols, \A c \in DOMAIN cols : IsInjective(cols[c].remap),
         NEW p, NEW q, NEW r, Translates(cols, p, q), Translates(cols, r, q)
  PROVE  p = r
<1>1. IsSeq(p) /\ IsSeq(r) /\ Len(p) = Len(q) /\ Len(r) = Len(q)
  BY DEF Translates, IsPath
<1>2. ASSUME NEW k \in 1 .. Len(q) PROVE p[k] = r[k]
  <2>1. /\ (~IsElem(q[k]) /\ p[k] = q[k]) \/ Slots(cols, p, q, k)
        /\ (~IsElem(q[k]) /\ r[k] = q[k]) \/ Slots(cols, r, q, k)
    BY DEF Translates
  <2>2. CASE ~IsElem(q[k])
    BY <2>1, <2>2, Segments DEF Slots
  <2>3. CASE IsElem(q[k])
    <3>0. PICK c \in DOMAIN cols : \E s \in DOMAIN cols[c].remap :
            /\ c = SubSeq(q, 1, k - 1) /\ p[k] = ElemSeg(s)
            /\ q[k] = ElemSeg(cols[c].remap[s])
      BY <2>1, <2>3 DEF Slots
    <3>1. PICK s \in DOMAIN cols[c].remap :
            /\ c = SubSeq(q, 1, k - 1) /\ p[k] = ElemSeg(s)
            /\ q[k] = ElemSeg(cols[c].remap[s])
      BY <3>0
    <3>2. PICK t \in DOMAIN cols[c].remap :
            r[k] = ElemSeg(t) /\ q[k] = ElemSeg(cols[c].remap[t])
      BY <2>1, <2>3, <3>1 DEF Slots
    <3>3. s = t
      BY <3>1, <3>2, Segments DEF IsInjective
    <3> QED BY <3>1, <3>2, <3>3
  <2> QED BY <2>2, <2>3
<1> QED BY <1>1, <1>2, SameSeq

\* One subscript more, in a collection that translates it.
LEMMA TranslatedElement ==
  ASSUME NEW cols, NEW p, NEW q, Translates(cols, p, q), q \in DOMAIN cols,
         NEW sub \in DOMAIN cols[q].remap
  PROVE  Translates(cols, Append(p, ElemSeg(sub)), ElementPath(q, cols[q].remap[sub]))
<1> DEFINE ep == Append(p, ElemSeg(sub))
           eq == ElementPath(q, cols[q].remap[sub])
           n  == Len(q)
<1>1. /\ IsPath(p) /\ IsPath(q) /\ Len(p) = n /\ n \in Nat
      /\ DOMAIN p = 1 .. n /\ DOMAIN q = 1 .. n
  BY SeqOfElements DEF Translates, IsPath
<1>2. /\ IsSeq(ep) /\ Len(ep) = n + 1 /\ \A i \in 1 .. n : ep[i] = p[i]
      /\ ep[n + 1] = ElemSeg(sub)
      /\ IsSeq(eq) /\ Len(eq) = n + 1 /\ \A i \in 1 .. n : eq[i] = q[i]
      /\ eq[n + 1] = ElemSeg(cols[q].remap[sub])
  BY <1>1, AppendToSeq DEF IsPath, ElementPath
<1> HIDE DEF ep, eq
<1>3. DOMAIN ep = 1 .. n + 1 /\ DOMAIN eq = 1 .. n + 1
  BY <1>2, SeqOfElements
<1>4. \A k \in 1 .. n + 1 : SubSeq(eq, 1, k - 1) = SubSeq(q, 1, k - 1)
  <2> TAKE k \in 1 .. n + 1
  <2>1. /\ IsSeq(SubSeq(eq, 1, k - 1)) /\ Len(SubSeq(eq, 1, k - 1)) = k - 1
        /\ \A i \in 1 .. k - 1 : SubSeq(eq, 1, k - 1)[i] = eq[i]
    BY <1>1, <1>2, HeadOf
  <2>2. /\ IsSeq(SubSeq(q, 1, k - 1)) /\ Len(SubSeq(q, 1, k - 1)) = k - 1
        /\ \A i \in 1 .. k - 1 : SubSeq(q, 1, k - 1)[i] = q[i]
    BY <1>1, HeadOf DEF IsPath
  <2>3. \A i \in 1 .. k - 1 : SubSeq(eq, 1, k - 1)[i] = SubSeq(q, 1, k - 1)[i]
    BY <1>1, <1>2, <2>1, <2>2
  <2> QED BY <2>1, <2>2, <2>3, SameSeq
<1>5. IsPath(ep) /\ IsPath(eq)
  <2>1. ASSUME NEW i \in 1 .. n + 1
        PROVE  /\ ep[i] = NameSeg(ep[i][2]) \/ ep[i] = ElemSeg(ep[i][2])
               /\ eq[i] = NameSeg(eq[i][2]) \/ eq[i] = ElemSeg(eq[i][2])
    <3>1. CASE i = n + 1
      BY <1>2, <3>1, Segments
    <3>2. CASE i \in 1 .. n
      BY <1>1, <1>2, <3>2 DEF IsPath
    <3> QED BY <1>1, <3>1, <3>2
  <2> QED BY <1>2, <1>3, <2>1 DEF IsPath
<1>6. ASSUME NEW k \in 1 .. n + 1
      PROVE  (~IsElem(eq[k]) /\ ep[k] = eq[k]) \/ Slots(cols, ep, eq, k)
  <2>1. CASE k = n + 1
    <3>1. SubSeq(eq, 1, k - 1) = q
      BY <1>1, <1>4, <2>1, WholeHead DEF IsPath
    <3> QED BY <1>2, <2>1, <3>1 DEF Slots
  <2>2. CASE k \in 1 .. n
    <3>1. (~IsElem(q[k]) /\ p[k] = q[k]) \/ Slots(cols, p, q, k)
      BY <2>2 DEF Translates
    <3>2. Slots(cols, p, q, k) => Slots(cols, ep, eq, k)
      BY <1>2, <1>4, <2>2 DEF Slots
    <3> QED BY <1>2, <2>2, <3>1, <3>2
  <2> QED BY <1>1, <2>1, <2>2
<1> QED BY <1>2, <1>5, <1>6 DEF Translates, ep, eq

\* And it is then listed, where the collection lists its slot.
LEMMA ListedElement ==
  ASSUME NEW cols, NEW q, IsSeq(q), Listed(cols, q), q \in DOMAIN cols,
         NEW sub \in Range(cols[q].order)
  PROVE  Listed(cols, ElementPath(q, sub))
<1> DEFINE eq == ElementPath(q, sub)
           n  == Len(q)
<1>1. n \in Nat
  BY SeqOfElements
<1>2. /\ IsSeq(eq) /\ Len(eq) = n + 1 /\ \A i \in 1 .. n : eq[i] = q[i]
      /\ eq[n + 1] = ElemSeg(sub)
  BY <1>1, AppendToSeq DEF ElementPath
<1>3. SubSeq(eq, 1, n) = q
  <2>1. IsSeq(SubSeq(eq, 1, n)) /\ Len(SubSeq(eq, 1, n)) = n
        /\ \A i \in 1 .. n : SubSeq(eq, 1, n)[i] = eq[i]
    BY <1>1, <1>2, HeadOf
  <2> QED BY <1>2, <2>1, SameSeq
<1> HIDE DEF eq
<1>4. ASSUME NEW k \in 1 .. n + 1, IsElem(eq[k])
      PROVE  /\ SubSeq(eq, 1, k - 1) \in DOMAIN cols
             /\ eq[k][2] \in Range(cols[SubSeq(eq, 1, k - 1)].order)
  <2>1. CASE k = n + 1
    <3>1. SubSeq(eq, 1, k - 1) = q
      <4>1. k - 1 = n
        BY <1>1, <2>1
      <4> QED BY <1>3, <4>1
    <3>2. eq[k][2] = sub
      BY <1>2, <2>1, Segments
    <3> QED BY <3>1, <3>2
  <2>2. CASE k \in 1 .. n
    <3>1. SubSeq(SubSeq(eq, 1, n), 1, k - 1) = SubSeq(eq, 1, k - 1)
      BY <1>1, <1>2, <2>2, HeadOfHead
    <3>2. SubSeq(eq, 1, k - 1) = SubSeq(q, 1, k - 1)
      BY <1>3, <3>1
    <3> QED BY <1>2, <1>4, <2>2, <3>2 DEF Listed
  <2> QED BY <1>1, <2>1, <2>2
<1>5. Listed(cols, eq)
  BY <1>2, <1>4 DEF Listed
<1> QED BY <1>5 DEF eq

\* Members that follow are copied as they are.
LEMMA TranslatedFurther ==
  ASSUME NEW cols, NEW q, NEW r, IsPath(q), Len(r) <= Len(q),
         Translates(cols, SubSeq(q, 1, Len(r)), r), Listed(cols, r),
         NEW i \in Len(r) + 1 .. Len(q) + 1, \A k \in Len(r) + 1 .. i - 1 : ~IsElem(q[k])
  PROVE  LET l == r \o SubSeq(q, Len(r) + 1, i - 1)
         IN /\ Len(l) = i - 1
            /\ Translates(cols, SubSeq(q, 1, i - 1), l) /\ Listed(cols, l)
<1> DEFINE l == r \o SubSeq(q, Len(r) + 1, i - 1)
           h == SubSeq(q, 1, Len(r))
           g == SubSeq(q, 1, i - 1)
<1>1. /\ IsSeq(q) /\ Len(q) \in Nat /\ DOMAIN q = 1 .. Len(q)
      /\ IsPath(r) /\ IsSeq(r) /\ Len(r) \in Nat /\ DOMAIN r = 1 .. Len(r)
  BY SeqOfElements DEF IsPath, Translates
<1>2. i \in Nat /\ i - 1 \in 0 .. Len(q) /\ Len(r) \in 0 .. i - 1 /\ Len(r) \in 0 .. Len(q)
  BY <1>1
<1>3. /\ IsSeq(h) /\ Len(h) = Len(r) /\ \A k \in 1 .. Len(r) : h[k] = q[k]
      /\ IsSeq(g) /\ Len(g) = i - 1 /\ \A k \in 1 .. i - 1 : g[k] = q[k]
  BY <1>1, <1>2, HeadOf
<1>4. Rewrites(r, q)
  <2>1. Rewrites(r, h)
    BY TranslatedRewrites
  <2> HIDE DEF h
  <2> QED BY <1>1, <1>3, <2>1 DEF Rewrites
<1>5. /\ Len(l) = i - 1 /\ IsSeq(l)
      /\ \A k \in 1 .. i - 1 : l[k] = IF k <= Len(r) THEN r[k] ELSE q[k]
  BY <1>1, <1>4, RewrittenUpTo DEF Rewrites
<1>6. SubSeq(l, 1, Len(r)) = r
  <2>1. /\ IsSeq(SubSeq(l, 1, Len(r))) /\ Len(SubSeq(l, 1, Len(r))) = Len(r)
        /\ \A k \in 1 .. Len(r) : SubSeq(l, 1, Len(r))[k] = l[k]
    BY <1>2, <1>5, HeadOf
  <2>2. \A k \in 1 .. Len(r) : SubSeq(l, 1, Len(r))[k] = r[k]
    BY <1>2, <1>5, <2>1
  <2> QED BY <1>1, <2>1, <2>2, SameSeq
<1>7. \A k \in 1 .. Len(r) : SubSeq(l, 1, k - 1) = SubSeq(r, 1, k - 1)
  <2> TAKE k \in 1 .. Len(r)
  <2>1. SubSeq(SubSeq(l, 1, Len(r)), 1, k - 1) = SubSeq(l, 1, k - 1)
    BY <1>1, <1>2, <1>5, HeadOfHead
  <2> QED BY <1>6, <2>1
<1> HIDE DEF l, h, g
<1>8. DOMAIN l = 1 .. i - 1 /\ DOMAIN g = 1 .. i - 1
  BY <1>3, <1>5, SeqOfElements
<1>9. IsPath(g)
  BY <1>1, <1>2, <1>3, <1>8 DEF IsPath
<1>10. IsPath(l)
  <2>1. ASSUME NEW k \in 1 .. i - 1
        PROVE  l[k] = NameSeg(l[k][2]) \/ l[k] = ElemSeg(l[k][2])
    <3>1. CASE k <= Len(r)
      <4>1. l[k] = r[k] /\ k \in 1 .. Len(r)
        BY <1>1, <1>5, <3>1
      <4> QED BY <1>1, <4>1 DEF IsPath
    <3>2. CASE ~(k <= Len(r))
      <4>1. l[k] = q[k] /\ k \in 1 .. Len(q)
        BY <1>1, <1>2, <1>5, <3>2
      <4> QED BY <1>1, <4>1 DEF IsPath
    <3> QED BY <3>1, <3>2
  <2> QED BY <1>5, <1>8, <2>1 DEF IsPath
<1>11. ASSUME NEW k \in 1 .. i - 1
       PROVE  /\ (~IsElem(l[k]) /\ g[k] = l[k]) \/ Slots(cols, g, l, k)
              /\ IsElem(l[k]) =>
                   /\ SubSeq(l, 1, k - 1) \in DOMAIN cols
                   /\ l[k][2] \in Range(cols[SubSeq(l, 1, k - 1)].order)
  <2>1. CASE k \in 1 .. Len(r)
    <3>1. l[k] = r[k] /\ g[k] = h[k] /\ SubSeq(l, 1, k - 1) = SubSeq(r, 1, k - 1)
      BY <1>1, <1>2, <1>3, <1>5, <1>7, <2>1
    <3>2. (~IsElem(r[k]) /\ h[k] = r[k]) \/ Slots(cols, h, r, k)
      BY <2>1 DEF Translates, h
    <3>3. Slots(cols, h, r, k) => Slots(cols, g, l, k)
      BY <3>1 DEF Slots
    <3> QED BY <2>1, <3>1, <3>2, <3>3 DEF Listed
  <2>2. CASE k \notin 1 .. Len(r)
    <3>1. k \in Len(r) + 1 .. i - 1 /\ ~(k <= Len(r))
      BY <1>1, <1>2, <2>2
    <3>2. l[k] = q[k] /\ g[k] = q[k] /\ ~IsElem(q[k])
      BY <1>3, <1>5, <3>1
    <3> QED BY <3>2
  <2> QED BY <2>1, <2>2
<1>12. Translates(cols, g, l) /\ Listed(cols, l)
  BY <1>3, <1>5, <1>9, <1>10, <1>11 DEF Translates, Listed
<1> QED BY <1>5, <1>12 DEF l, g

\* The slots a record has given are still given.
Keeps(old, new) ==
  \A sub \in DOMAIN old.remap :
    sub \in DOMAIN new.remap /\ new.remap[sub] = old.remap[sub]

\* A translation holds as long as the records it went through do.
LEMMA TranslatesStays ==
  ASSUME NEW cols, NEW new, NEW p, NEW q, Translates(cols, p, q),
         \A c \in DOMAIN cols :
           IsPrefix(c, q) => c \in DOMAIN new /\ Keeps(cols[c], new[c])
  PROVE  Translates(new, p, q)
<1>1. IsSeq(q) /\ Len(q) \in Nat
  BY SeqOfElements DEF Translates, IsPath
<1>2. ASSUME NEW k \in 1 .. Len(q) PROVE IsPrefix(SubSeq(q, 1, k - 1), q)
  <2>1. k - 1 \in 0 .. Len(q)
    BY <1>1
  <2>2. IsSeq(SubSeq(q, 1, k - 1)) /\ Len(SubSeq(q, 1, k - 1)) = k - 1
    BY <1>1, <2>1, HeadOf
  <2>3. PICK h : h = SubSeq(q, 1, k - 1)
    OBVIOUS
  <2>4. IsSeq(h) /\ Len(h) = k - 1 /\ h = SubSeq(q, 1, Len(h))
    BY <2>2, <2>3
  <2>5. IsPrefix(h, q)
    BY <1>1, <2>1, <2>4, PrefixIsHead
  <2> QED BY <2>3, <2>5
<1>3. ASSUME NEW k \in 1 .. Len(q), Slots(cols, p, q, k) PROVE Slots(new, p, q, k)
  <2>1. PICK c \in DOMAIN cols : \E sub \in DOMAIN cols[c].remap :
          /\ c = SubSeq(q, 1, k - 1)
          /\ p[k] = ElemSeg(sub)
          /\ q[k] = ElemSeg(cols[c].remap[sub])
    BY <1>3 DEF Slots
  <2>2. c \in DOMAIN new /\ Keeps(cols[c], new[c])
    BY <1>2, <2>1
  <2> QED BY <2>1, <2>2 DEF Slots, Keeps
<1> QED BY <1>3 DEF Translates
------------------------------------------------------------------------------
(* The inductive invariant.                                                *)

AllOrderly == \A layer \in Layers : Orderly(layer)

\* The path p, as the document has it, names the element sub of the collection at c.
Names(cols, p, c, sub) ==
  /\ Len(c) < Len(p)
  /\ p[Len(c) + 1] = ElemSeg(sub)
  /\ Translates(cols, SubSeq(p, 1, Len(c)), c)

\* A subscript has a slot because the current layer has mentioned it.
Mentioned(c, sub) ==
  \E i \in DOMAIN Layer(Origin) :
    i <= folded + 1 /\ Names(collections, Layer(Origin)[i].path, c, sub)

\* The current layer has erased the element itself.
ErasedAgain(c, sub) ==
  \E i \in DOMAIN Layer(Origin) :
    /\ i <= folded
    /\ Layer(Origin)[i].state = "null"
    /\ Len(Layer(Origin)[i].path) = Len(c) + 1
    /\ Names(collections, Layer(Origin)[i].path, c, sub)

\* A record stands at a list or a map, and gives each subscript a slot of its own.
RecordsNamed ==
  \A c \in DOMAIN collections :
    /\ IsPath(c) /\ CanonicalPath(c) \in DOMAIN byPath
    /\ IF Unkeyed(c) THEN IsInjective(collections[c].remap)
       ELSE \A sub \in DOMAIN collections[c].remap : collections[c].remap[sub] = sub

\* What has a slot was mentioned, and is in the order unless it was erased.
SlotsListed ==
  \A c \in DOMAIN collections : \A sub \in DOMAIN collections[c].remap :
    /\ sources # <<>> /\ Mentioned(c, sub)
    /\ \/ collections[c].remap[sub] \in Range(collections[c].order)
       \/ ErasedAgain(c, sub)

\* The part of the current path that is resolved leads to a listed element.
ResolvedListed ==
  Folding =>
    /\ Translates(collections, SubSeq(current.path, 1, Len(resolved)), resolved)
    /\ Listed(collections, resolved)

\* Every value, in force or not, is within elements that are listed.
ValuesListed ==
  \A p \in DOMAIN values : IsPath(p) /\ Listed(collections, p)

ElementInv == RecordsNamed /\ SlotsListed /\ ResolvedListed /\ ValuesListed

LEMMA SlotsApart ==
  ASSUME RecordsNamed
  PROVE  \A c \in DOMAIN collections : IsInjective(collections[c].remap)
BY DEF RecordsNamed, IsInjective

------------------------------------------------------------------------------
(* What the invariant says of the current assignment.                      *)

\* resolveElements: the subscript it turns to, and the list it is in.
at     == Min(Subscripts)
listAt == resolved \o SubSeq(current.path, Len(resolved) + 1, at - 1)
named  == current.path[at][2]

LEMMA CurrentPath ==
  ASSUME TypeOK, Folding
  PROVE  /\ IsPath(current.path) /\ IsSeq(current.path) /\ Len(current.path) \in Nat
         /\ DOMAIN current.path = 1 .. Len(current.path)
         /\ Len(resolved) \in Nat /\ Len(resolved) <= Len(current.path)
<1>1. AssignmentOK(current) /\ Rewrites(resolved, current.path)
  BY CurrentOK DEF TypeOK
<1> QED BY <1>1, SeqOfElements DEF AssignmentOK, IsPath, Rewrites

LEMMA ListReached ==
  ASSUME TypeOK, ResolvedListed, Folding, Subscripts # {}
  PROVE  /\ at \in Len(resolved) + 1 .. Len(current.path) /\ Len(listAt) = at - 1
         /\ current.path[at] = ElemSeg(named)
         /\ Translates(collections, SubSeq(current.path, 1, at - 1), listAt)
         /\ Listed(collections, listAt)
<1>1. /\ IsPath(current.path) /\ Len(current.path) \in Nat
      /\ DOMAIN current.path = 1 .. Len(current.path)
      /\ Len(resolved) \in Nat /\ Len(resolved) <= Len(current.path)
  BY CurrentPath
<1>2. Subscripts \in SUBSET Nat
  BY <1>1 DEF Subscripts
<1>3. at \in Subscripts /\ \A i \in Subscripts : at <= i
  BY <1>2, MinOfNats DEF at
<1>4. at \in Len(resolved) + 1 .. Len(current.path) /\ IsElem(current.path[at])
  BY <1>3 DEF Subscripts
<1>5. at \in Len(resolved) + 1 .. Len(current.path) + 1 /\ at \in DOMAIN current.path
  BY <1>1, <1>4
<1>6. \A k \in Len(resolved) + 1 .. at - 1 : ~IsElem(current.path[k])
  BY <1>1, <1>3, <1>4 DEF Subscripts
<1>7. current.path[at] = ElemSeg(named)
  BY <1>1, <1>4, <1>5, Segments DEF IsPath, named
<1>8. /\ Len(listAt) = at - 1
      /\ Translates(collections, SubSeq(current.path, 1, at - 1), listAt)
      /\ Listed(collections, listAt)
  <2> HIDE DEF at
  <2> QED BY <1>1, <1>5, <1>6, TranslatedFurther DEF ResolvedListed, listAt
<1> QED BY <1>4, <1>7, <1>8

LEMMA TargetReached ==
  ASSUME TypeOK, ResolvedListed, Ready
  PROVE  Translates(collections, current.path, target) /\ Listed(collections, target)
<1>1. /\ IsPath(current.path) /\ IsSeq(current.path) /\ Len(current.path) \in Nat
      /\ Len(resolved) \in Nat /\ Len(resolved) <= Len(current.path)
  BY CurrentPath DEF Ready
<1> DEFINE n == Len(current.path) + 1
<1>2. n \in Len(resolved) + 1 .. Len(current.path) + 1 /\ n - 1 = Len(current.path)
  BY <1>1
<1>3. \A k \in Len(resolved) + 1 .. n - 1 : ~IsElem(current.path[k])
  BY <1>2 DEF Ready, Subscripts
<1>4. target = resolved \o SubSeq(current.path, Len(resolved) + 1, n - 1)
  BY <1>1 DEF target
<1>5. SubSeq(current.path, 1, n - 1) = current.path
  BY <1>1, <1>2, WholeHead
<1> HIDE DEF n
<1>6. /\ Translates(collections, SubSeq(current.path, 1, n - 1), target)
      /\ Listed(collections, target)
  BY <1>1, <1>2, <1>3, <1>4, TranslatedFurther DEF ResolvedListed, Ready
<1> QED BY <1>5, <1>6

------------------------------------------------------------------------------
(* What an orderly document rules out.                                     *)

\* The current assignment's place in its layer.
LEMMA CurrentPlace ==
  ASSUME TypeOK, Folding
  PROVE  /\ folded \in Nat /\ folded + 1 \in DOMAIN Layer(Origin)
         /\ current = Layer(Origin)[folded + 1]
         /\ DOMAIN Layer(Origin) = 1 .. Len(Layer(Origin)) /\ Len(Layer(Origin)) \in Nat
         /\ \A i \in DOMAIN Layer(Origin) : AssignmentOK(Layer(Origin)[i])
         /\ AllOrderly => Orderly(sources[Origin])
<1>1. Origin \in Nat \ {0} /\ sources[Origin] \in Layers /\ folded + 1 \in 1 .. Len(Layer(Origin))
  BY CurrentOK
<1>2. PICK n \in 1 .. Origin : n = Origin
  BY <1>1
<1>3. /\ DOMAIN Layer(Origin) = 1 .. Len(Layer(Origin)) /\ Len(Layer(Origin)) \in Nat
      /\ \A i \in DOMAIN Layer(Origin) : AssignmentOK(Layer(Origin)[i])
  BY <1>2, LayerOK
<1> QED BY <1>1, <1>3 DEF TypeOK, current, Layer, AllOrderly

\* A list or a map is mentioned before its elements are.
LEMMA NoneMentioned ==
  ASSUME TypeOK, ElementInv, AllOrderly, Ready, AtCollection, target \in DOMAIN collections
  PROVE  DOMAIN collections[target].remap = {}
<1> SUFFICES ASSUME NEW s \in DOMAIN collections[target].remap PROVE FALSE
  OBVIOUS
<1> DEFINE p(i) == Layer(Origin)[i].path
<1>1. PICK i \in DOMAIN Layer(Origin) :
        i <= folded + 1 /\ Names(collections, p(i), target, s)
  BY DEF ElementInv, SlotsListed, Mentioned
<1>2. Translates(collections, current.path, target) /\ Len(target) \in Nat
  BY TargetReached, TargetOK DEF ElementInv
<1>3. /\ Len(target) < Len(p(i)) /\ p(i)[Len(target) + 1] = ElemSeg(s)
      /\ SubSeq(p(i), 1, Len(target)) = current.path
  BY <1>1, <1>2, SlotsApart, TranslatedOnce DEF Names, ElementInv
<1>4. /\ folded \in Nat /\ folded + 1 \in DOMAIN Layer(Origin) /\ i \in Nat
      /\ current = Layer(Origin)[folded + 1] /\ AssignmentOK(Layer(Origin)[i])
      /\ Orderly(sources[Origin])
  BY CurrentPlace DEF Ready
<1>5. IsSeq(p(i)) /\ IsSeq(current.path) /\ Len(current.path) = Len(target)
  BY <1>2, <1>4, TargetOK DEF AssignmentOK, IsPath
<1>6. IsCollectionAt(current.path)
  BY AtCollectionOf
<1> HIDE DEF p
<1>7. WithinElements(current.path, p(i))
  <2>1. IsPrefix(current.path, p(i)) /\ current.path # p(i)
    BY <1>2, <1>3, <1>5, SeqOfElements, PrefixIsHead
  <2> QED BY <1>3, <1>5, <2>1 DEF WithinElements, IsStrictPrefix, ElemSeg
<1>8. i # folded + 1
  BY <1>3, <1>4, <1>5, SeqOfElements DEF p
<1>9. i < folded + 1
  BY <1>1, <1>4, <1>8
<1> QED BY <1>4, <1>6, <1>7, <1>9 DEF Orderly, Layer, p

\* Of an element that is erased the document says nothing else.
LEMMA KnownIsListed ==
  ASSUME TypeOK, ElementInv, AllOrderly, Folding, Subscripts # {},
         listAt \in DOMAIN collections, named \in DOMAIN collections[listAt].remap
  PROVE  collections[listAt].remap[named] \in Range(collections[listAt].order)
<1> SUFFICES ASSUME ErasedAgain(listAt, named) PROVE FALSE
  BY DEF ElementInv, SlotsListed
<1> DEFINE p(i) == Layer(Origin)[i].path
           n    == Len(listAt)
<1>1. PICK i \in DOMAIN Layer(Origin) :
        /\ i <= folded /\ Layer(Origin)[i].state = "null" /\ Len(p(i)) = n + 1
        /\ Names(collections, p(i), listAt, named)
  BY DEF ErasedAgain
<1>2. /\ at \in Len(resolved) + 1 .. Len(current.path) /\ n = at - 1
      /\ current.path[at] = ElemSeg(named)
      /\ Translates(collections, SubSeq(current.path, 1, at - 1), listAt)
  BY ListReached DEF ElementInv
<1>3. SubSeq(p(i), 1, n) = SubSeq(current.path, 1, n) /\ p(i)[n + 1] = ElemSeg(named)
  BY <1>1, <1>2, SlotsApart, TranslatedOnce DEF Names, ElementInv
<1>4. /\ folded \in Nat /\ folded + 1 \in DOMAIN Layer(Origin) /\ i \in Nat
      /\ current = Layer(Origin)[folded + 1] /\ AssignmentOK(Layer(Origin)[i])
      /\ Orderly(sources[Origin])
  BY CurrentPlace
<1>5. /\ IsSeq(p(i)) /\ IsSeq(current.path)
      /\ Len(resolved) \in Nat /\ Len(current.path) \in Nat
  BY <1>4, CurrentPath DEF AssignmentOK, IsPath
<1>6. n \in Nat /\ n + 1 = at /\ n + 1 \in 0 .. Len(current.path) /\ n \in 0 .. Len(p(i))
      /\ n \in 0 .. Len(current.path)
  BY <1>1, <1>2, <1>5
<1> HIDE DEF p, n, at
<1>7. p(i) = SubSeq(current.path, 1, n + 1)
  <2>1. /\ IsSeq(SubSeq(current.path, 1, n + 1)) /\ Len(SubSeq(current.path, 1, n + 1)) = n + 1
        /\ \A k \in 1 .. n + 1 : SubSeq(current.path, 1, n + 1)[k] = current.path[k]
    BY <1>5, <1>6, HeadOf
  <2>2. /\ \A k \in 1 .. n : SubSeq(p(i), 1, n)[k] = p(i)[k]
        /\ \A k \in 1 .. n : SubSeq(current.path, 1, n)[k] = current.path[k]
    BY <1>5, <1>6, HeadOf
  <2>3. ASSUME NEW k \in 1 .. n + 1 PROVE p(i)[k] = SubSeq(current.path, 1, n + 1)[k]
    <3>1. CASE k = n + 1
      BY <1>2, <1>3, <1>6, <2>1, <3>1
    <3>2. CASE k \in 1 .. n
      <4>1. p(i)[k] = current.path[k]
        BY <1>3, <2>2, <3>2
      <4> QED BY <2>1, <4>1
    <3> QED BY <1>6, <3>1, <3>2
  <2> QED BY <1>1, <1>5, <2>1, <2>3, SameSeq
<1>8. IsPrefix(p(i), current.path)
  <2>1. PICK h : h = p(i)
    OBVIOUS
  <2>2. IsSeq(h) /\ Len(h) <= Len(current.path) /\ h = SubSeq(current.path, 1, Len(h))
    BY <1>1, <1>5, <1>6, <1>7, <2>1
  <2>3. IsPrefix(h, current.path)
    BY <1>5, <2>2, PrefixIsHead
  <2> QED BY <2>1, <2>3
<1>9. IsElementPath(p(i))
  BY <1>1, <1>3, <1>6, Segments, EmptySeq DEF IsElementPath
<1>10. i # folded + 1
  BY <1>1, <1>4
<1> QED BY <1>1, <1>4, <1>8, <1>9, <1>10 DEF Orderly, Layer, p

\* No null erases an element of a list without a key, so its slots are in its order.
LEMMA UnkeyedListed ==
  ASSUME TypeOK, SlotsListed, NEW c \in DOMAIN collections, Unkeyed(c), IsPath(c),
         NEW s \in DOMAIN collections[c].remap
  PROVE  collections[c].remap[s] \in Range(collections[c].order)
<1> SUFFICES ASSUME ErasedAgain(c, s) PROVE FALSE
  BY DEF SlotsListed
<1> DEFINE p(i) == Layer(Origin)[i].path
           n    == Len(c)
<1>1. PICK i \in DOMAIN Layer(Origin) :
        /\ Layer(Origin)[i].state = "null" /\ Len(p(i)) = n + 1
        /\ Names(collections, p(i), c, s)
  BY DEF ErasedAgain
<1>2. AssignmentOK(Layer(Origin)[i])
  <2>1. sources # <<>> /\ Origin \in Nat \ {0}
    BY EmptySeq, LenProperties DEF TypeOK, Origin, SlotsListed
  <2> QED BY <2>1, LayerOK
<1>3. /\ IsSeq(p(i)) /\ IsSeq(c) /\ n \in Nat
      /\ p(i)[n + 1] = ElemSeg(s)
      /\ CanonicalPath(c) = CanonicalPath(SubSeq(p(i), 1, n))
  BY <1>1, <1>2, TranslatedRewrites, SeqOfElements DEF AssignmentOK, IsPath, Names
<1> HIDE DEF p, n
<1>4. IsElementPath(p(i)) /\ Front(p(i)) = SubSeq(p(i), 1, n)
  BY <1>1, <1>3, Segments, EmptySeq DEF IsElementPath, Front
<1>5. ~Unkeyed(Front(p(i)))
  BY <1>1, <1>2, <1>4 DEF AssignmentOK, p
<1> QED BY <1>3, <1>4, <1>5 DEF Unkeyed

------------------------------------------------------------------------------
(* What the steps do to the records.                                       *)

\* One more subscript: its slot, and the record that now gives it.
Takes(final, record) ==
  LET c     == collectionAt(collections, listAt)
      known == named \in DOMAIN c.remap
  IN /\ CanonicalPath(listAt) \in DOMAIN byPath
     /\ collections' = put(collections, listAt, record)
     /\ resolved' = ElementPath(listAt, final) /\ UNCHANGED <<sources, folded>>
     /\ record.remap = put(c.remap, named, final)
     /\ Range(c.order) \subseteq Range(record.order)
     /\ known => final = c.remap[named]
     /\ ~known => /\ final = IF Unkeyed(listAt) THEN Len(c.order) ELSE named
                  /\ final \in Range(record.order)

LEMMA AppendedRange ==
  ASSUME NEW s, NEW e, IsSeq(s)
  PROVE  Range(s) \subseteq Range(Append(s, e)) /\ e \in Range(Append(s, e))
<1>1. /\ IsSeq(Append(s, e)) /\ Len(Append(s, e)) = Len(s) + 1 /\ Len(s) \in Nat
      /\ \A i \in 1 .. Len(s) : Append(s, e)[i] = s[i]
      /\ Append(s, e)[Len(s) + 1] = e
  BY AppendToSeq, SeqOfElements
<1>2. DOMAIN s = 1 .. Len(s) /\ DOMAIN Append(s, e) = 1 .. Len(s) + 1
  BY <1>1, SeqOfElements
<1> QED BY <1>1, <1>2 DEF Range

LEMMA ElementTaken ==
  ASSUME TypeOK, resolveElements
  PROVE  (Consume /\ UNCHANGED collections) \/ \E final, record : Takes(final, record)
<1> DEFINE c     == collectionAt(collections, listAt)
           known == named \in DOMAIN c.remap
           final == IF known THEN c.remap[named]
                    ELSE slot(c, byPath[CanonicalPath(listAt)], named)
           order == IF known \/ Contains(c.order, final) THEN c.order
                    ELSE Append(c.order, final)
           remap == put(c.remap, named, final)
           record == [c EXCEPT !.remap = remap, !.order = order]
<1> SUFFICES ASSUME CanonicalPath(listAt) \in DOMAIN byPath
             PROVE  \E f, r : Takes(f, r)
  BY DEF resolveElements, listAt, at
<1>1. /\ collections' = put(collections, listAt, record)
      /\ resolved' = ElementPath(listAt, final) /\ UNCHANGED <<sources, folded>>
  BY DEF resolveElements, listAt, at, named
<1>2. CollectionOK(c, Origin) /\ IsSeq(c.order)
  BY CollectionAtOK, LenProperties DEF TypeOK, Origin, CollectionOK
<1>3. record.remap = remap /\ record.order = order
  <2> HIDE DEF c, remap, order
  <2> QED BY <1>2 DEF CollectionOK
<1>4. slot(c, byPath[CanonicalPath(listAt)], named) = IF Unkeyed(listAt) THEN Len(c.order) ELSE named
  BY DEF slot, Unkeyed
<1>5. Range(c.order) \subseteq Range(order)
  BY <1>2, AppendedRange
<1>6. ~known => final \in Range(order)
  <2>1. ASSUME Contains(c.order, final) PROVE final \in Range(c.order)
    BY <2>1 DEF Contains, Range
  <2> HIDE DEF c
  <2> QED BY <1>2, <2>1, AppendedRange
<1>7. Takes(final, record)
  <2>1. record.remap = put(c.remap, named, final) /\ Range(c.order) \subseteq Range(record.order)
    BY <1>3, <1>5
  <2>2. known => final = c.remap[named]
    OBVIOUS
  <2>3. ~known => /\ final = IF Unkeyed(listAt) THEN Len(c.order) ELSE named
                  /\ final \in Range(record.order)
    BY <1>3, <1>4, <1>6
  <2> HIDE DEF record, final
  <2> QED BY <1>1, <2>1, <2>2, <2>3 DEF Takes
<1> QED BY <1>7

\* What dropSubtree drops.
Dropped(q) ==
  fold /\ current.state = "null" /\ OptionalSection /\ Inside(target, q)

\* A collection that is erased, or provided anew, before its elements are.
Emptied == eraseCollection \/ (provideCollection /\ field.merge = "replace")

\* A fold step keeps the slots of every record but those it drops.
LEMMA SlotsKept ==
  ASSUME TypeOK, FoldNext, ~startLayer, ~resolveElements, NEW c
  PROVE  /\ Consume
         /\ c \in DOMAIN collections' =>
              /\ collections'[c].remap = collectionAt(collections, c).remap
              /\ ~Dropped(c)
              /\ c \in DOMAIN collections
                   \/ (c = target /\ (eraseCollection \/ provideCollection))
         /\ c \in DOMAIN collections /\ ~Dropped(c) => c \in DOMAIN collections'
<1>1. CASE skipMissing \/ elementMarker
  BY <1>1 DEF skipMissing, elementMarker, Dropped, fold, collectionAt, Ready
<1>2. CASE fold
  BY <1>2 DEF fold, dropSubtree, Dropped, Without, Restrict, collectionAt
<1>3. CASE clearElement
  <2>1. Consume /\ ~fold /\ collections' = removeFrom(collections, Front(target), Last(target)[2])
    BY <1>3 DEF clearElement, fold
  <2> DEFINE path   == Front(target)
             old    == collections[path]
             new    == [old EXCEPT !.order = RemoveAt(@, index(@, Last(target)[2]))]
  <2>2. collections' = collections \/ (path \in DOMAIN collections /\ collections' = put(collections, path, new))
    BY <2>1 DEF removeFrom
  <2>3. path \in DOMAIN collections => new.remap = old.remap
    <3> SUFFICES ASSUME path \in DOMAIN collections PROVE new.remap = old.remap
      OBVIOUS
    <3>1. CollectionOK(old, Origin)
      BY DEF TypeOK
    <3> HIDE DEF old
    <3> QED BY <3>1 DEF CollectionOK
  <2> HIDE DEF new
  <2> QED BY <2>1, <2>2, <2>3 DEF put, collectionAt, Dropped
<1>4. CASE eraseCollection \/ provideCollection
  <2>1. PICK cols \in {collections, clear(collections, target)} :
          \/ collections' = put(cols, target, erasedNow(collectionAt(cols, target)))
          \/ collections' = put(cols, target, providedNow(collectionAt(cols, target)))
    BY <1>4 DEF eraseCollection, provideCollection
  <2>2. /\ DOMAIN cols = DOMAIN collections
        /\ collectionAt(cols, c).remap = collectionAt(collections, c).remap
    <3>1. CASE cols = collections
      BY <3>1
    <3>2. CASE cols = clear(collections, target) /\ target \in DOMAIN collections
      <4> DEFINE old == collections[target]
                 new == [old EXCEPT !.order = <<>>]
      <4>1. cols = put(collections, target, new)
        BY <3>2 DEF clear
      <4>2. CollectionOK(old, Origin)
        BY <3>2 DEF TypeOK
      <4>3. new.remap = old.remap
        <5> HIDE DEF old
        <5> QED BY <4>2 DEF CollectionOK
      <4> HIDE DEF new
      <4> QED BY <3>2, <4>1, <4>3 DEF put, collectionAt
    <3>3. CASE cols = clear(collections, target) /\ target \notin DOMAIN collections
      BY <3>3 DEF clear
    <3> QED BY <3>1, <3>2, <3>3
  <2>3. ~fold /\ Consume
    BY <1>4 DEF fold, eraseCollection, provideCollection
  <2>4. DOMAIN collections' = DOMAIN cols \cup {target}
    BY <2>1 DEF put
  <2>5. c \in DOMAIN collections' => collections'[c].remap = collectionAt(cols, c).remap
    <3>1. CASE c = target
      BY <2>1, <3>1 DEF put, erasedNow, providedNow
    <3>2. CASE c # target
      BY <2>1, <3>2 DEF put, collectionAt
    <3> QED BY <3>1, <3>2
  <2> QED BY <1>4, <2>2, <2>3, <2>4, <2>5 DEF Dropped
<1> QED BY <1>1, <1>2, <1>3, <1>4 DEF FoldNext

LEMMA RemovedRange ==
  ASSUME NEW s, IsSeq(s), NEW e, Contains(s, e), NEW d \in Range(s), d # e
  PROVE  d \in Range(RemoveAt(s, index(s, e)))
<1> DEFINE n == index(s, e)
           r == RemoveAt(s, n)
<1>1. Len(s) \in Nat /\ DOMAIN s = 1 .. Len(s)
  BY SeqOfElements
<1>2. n \in 1 .. Len(s) /\ s[n] = e
  BY IndexOf
<1>3. PICK i \in 1 .. Len(s) : s[i] = d
  BY <1>1 DEF Range
<1> HIDE DEF n
<1>4. /\ IsSeq(r) /\ Len(r) = Len(s) - 1
      /\ \A j \in 1 .. Len(s) - 1 : r[j] = IF j < n THEN s[j] ELSE s[j + 1]
  BY <1>2, RemoveAtFromSeq
<1>5. DOMAIN r = 1 .. Len(s) - 1
  BY <1>4, SeqOfElements
<1> HIDE DEF r
<1>6. \E j \in 1 .. Len(s) - 1 : r[j] = d
  <2>1. CASE i < n
    <3>1. i \in 1 .. Len(s) - 1 /\ r[i] = s[i]
      BY <1>1, <1>2, <1>4, <2>1
    <3> QED BY <1>3, <3>1
  <2>2. CASE n < i
    <3>1. i - 1 \in 1 .. Len(s) - 1 /\ ~(i - 1 < n) /\ i - 1 + 1 = i
      BY <1>1, <1>2, <2>2
    <3>2. r[i - 1] = s[i]
      BY <1>4, <3>1
    <3> QED BY <1>3, <3>1, <3>2
  <2> QED BY <1>2, <1>3, <2>1, <2>2
<1> QED BY <1>5, <1>6 DEF Range, r, n

\* An element leaves an order because its collection is emptied or it is erased.
LEMMA OrdersKept ==
  ASSUME TypeOK, FoldNext,
         NEW c \in DOMAIN collections \cap DOMAIN collections',
         NEW e \in Range(collections[c].order)
  PROVE  \/ e \in Range(collections'[c].order)
         \/ Emptied /\ c = target
         \/ clearElement /\ c = Front(target) /\ e = Last(target)[2]
<1> DEFINE old == collections[c].order
<1>0. CollectionOK(collections[c], Origin) /\ IsSeq(old)
  BY DEF TypeOK, CollectionOK
<1>1. CASE startLayer
  <2>1. collections'[c] = forget(collections[c])
    BY <1>1 DEF startLayer
  <2> QED BY <1>0, <2>1 DEF forget, CollectionOK
<1>2. CASE resolveElements
  <2>1. CASE UNCHANGED collections
    BY <2>1
  <2>2. ASSUME NEW final, NEW record, Takes(final, record)
        PROVE  e \in Range(collections'[c].order)
    <3>1. CASE c = listAt
      BY <2>2, <3>1 DEF Takes, put, collectionAt
    <3>2. CASE c # listAt
      BY <2>2, <3>2 DEF Takes, put
    <3> QED BY <3>1, <3>2
  <2> QED BY <1>2, <2>1, <2>2, ElementTaken
<1>3. CASE fold
  BY <1>3 DEF fold, dropSubtree, Without, Restrict
<1>4. CASE clearElement
  <2> DEFINE path == Front(target)
             el   == Last(target)[2]
             now  == RemoveAt(old, index(old, el))
             new  == [collections[c] EXCEPT !.order = now]
  <2>1. collections' = removeFrom(collections, path, el)
    BY <1>4 DEF clearElement
  <2>2. CASE c = path /\ Contains(old, el) /\ e # el
    <3>1. collections'[c] = new
      BY <2>1, <2>2 DEF removeFrom, put
    <3>2. e \in Range(now)
      BY <1>0, <2>2, RemovedRange
    <3> HIDE DEF now
    <3>3. new.order = now
      BY <1>0 DEF CollectionOK
    <3> QED BY <3>1, <3>2, <3>3
  <2>3. CASE ~(c = path /\ Contains(old, el))
    BY <2>1, <2>3 DEF removeFrom, put
  <2> QED BY <1>4, <2>2, <2>3
<1>5. CASE eraseCollection \/ provideCollection
  <2>1. PICK cols \in {collections, clear(collections, target)} :
          /\ \/ collections' = put(cols, target, erasedNow(collectionAt(cols, target)))
             \/ collections' = put(cols, target, providedNow(collectionAt(cols, target)))
          /\ cols = collections \/ Emptied
    BY <1>5 DEF eraseCollection, provideCollection, Emptied
  <2>2. CASE c = target /\ ~Emptied
    BY <2>1, <2>2 DEF put, erasedNow, providedNow, collectionAt
  <2>3. CASE c # target
    BY <2>1, <2>3 DEF put, clear
  <2> QED BY <2>2, <2>3
<1>6. CASE skipMissing \/ elementMarker
  BY <1>6 DEF skipMissing, elementMarker
<1> QED BY <1>1, <1>2, <1>3, <1>4, <1>5, <1>6 DEF FoldNext

------------------------------------------------------------------------------
(* What a step leaves as it was.                                           *)

\* What is inside something dropped is dropped with it.
LEMMA DroppedDown ==
  ASSUME TypeOK, NEW c, NEW q, IsSeq(c), IsSeq(q), IsPrefix(c, q), Dropped(c)
  PROVE  Dropped(q)
<1>1. fold /\ IsSeq(target)
  BY TargetOK DEF Dropped, fold, Rewrites
<1> QED BY <1>1, InsideDown DEF Dropped

LEMMA TranslationsKept ==
  ASSUME TypeOK, RecordsNamed, FoldNext, ~startLayer,
         NEW p, NEW q, Translates(collections, p, q), ~Dropped(q)
  PROVE  Translates(collections', p, q)
<1> SUFFICES ASSUME NEW c \in DOMAIN collections, IsPrefix(c, q)
             PROVE  c \in DOMAIN collections' /\ Keeps(collections[c], collections'[c])
  BY TranslatesStays
<1>1. CASE resolveElements
  <2>1. CASE UNCHANGED collections
    BY <2>1 DEF Keeps
  <2>2. ASSUME NEW final, NEW record, Takes(final, record)
        PROVE  c \in DOMAIN collections' /\ Keeps(collections[c], collections'[c])
    <3>1. collections' = put(collections, listAt, record)
      BY <2>2 DEF Takes
    <3>2. CASE c # listAt
      BY <3>1, <3>2 DEF put, Keeps
    <3>3. CASE c = listAt
      <4>1. c \in DOMAIN collections' /\ collections'[c] = record
        BY <3>1, <3>3 DEF put
      <4>2. /\ record.remap = put(collections[c].remap, named, final)
            /\ named \in DOMAIN collections[c].remap => final = collections[c].remap[named]
        BY <2>2, <3>3 DEF Takes, collectionAt
      <4> QED BY <4>1, <4>2 DEF put, Keeps
    <3> QED BY <3>2, <3>3
  <2> QED BY <1>1, <2>1, <2>2, ElementTaken
<1>2. CASE ~resolveElements
  <2>1. ~Dropped(c)
    BY DroppedDown DEF RecordsNamed, Translates, IsPath
  <2>2. c \in DOMAIN collections' /\ collections'[c].remap = collections[c].remap
    BY <1>2, <2>1, SlotsKept DEF collectionAt
  <2> QED BY <2>2 DEF Keeps
<1> QED BY <1>1, <1>2

\* A listing holds but for what is emptied, erased or dropped.
LEMMA ListingsKept ==
  ASSUME TypeOK, RecordsNamed, ResolvedListed, FoldNext,
         NEW q, IsPath(q), Listed(collections, q), ~Dropped(q),
         ~(Emptied /\ WithinElements(target, q)),
         ~(clearElement /\ IsPrefix(target, q))
  PROVE  Listed(collections', q)
<1>1. IsSeq(q) /\ Len(q) \in Nat /\ DOMAIN q = 1 .. Len(q)
  BY SeqOfElements DEF IsPath
<1> SUFFICES ASSUME NEW k \in 1 .. Len(q), IsElem(q[k]), NEW c, c = SubSeq(q, 1, k - 1)
             PROVE  c \in DOMAIN collections' /\ q[k][2] \in Range(collections'[c].order)
  BY DEF Listed
<1>2. c \in DOMAIN collections /\ q[k][2] \in Range(collections[c].order)
  BY DEF Listed
<1>3. /\ k - 1 \in 0 .. Len(q) /\ IsSeq(c) /\ Len(c) = k - 1
      /\ \A i \in 1 .. k - 1 : c[i] = q[i]
  BY <1>1, HeadOf
<1>4. IsPrefix(c, q)
  <2>1. Len(c) <= Len(q) /\ c = SubSeq(q, 1, Len(c))
    BY <1>1, <1>3
  <2> QED BY <1>1, <1>3, <2>1, PrefixIsHead
<1>5. c \in DOMAIN collections'
  <2>1. CASE startLayer
    BY <1>2, <2>1 DEF startLayer
  <2>2. CASE resolveElements
    BY <1>2, <2>2, ElementTaken DEF Takes, put
  <2>3. CASE ~startLayer /\ ~resolveElements
    BY <1>1, <1>2, <1>3, <1>4, <2>3, DroppedDown, SlotsKept
  <2> QED BY <2>1, <2>2, <2>3
<1>6. q[k] = ElemSeg(q[k][2])
  BY <1>1, Segments DEF IsPath
<1>7. CASE Emptied /\ c = target
  <2>1. c # q /\ q[Len(c) + 1] = ElemSeg(q[k][2])
    BY <1>1, <1>3, <1>6
  <2>2. q[Len(c) + 1][1] = "elem"
    BY <2>1 DEF ElemSeg
  <2>3. WithinElements(c, q)
    BY <1>4, <2>1, <2>2 DEF WithinElements, IsStrictPrefix
  <2> QED BY <1>7, <2>3
<1>8. CASE clearElement /\ c = Front(target) /\ q[k][2] = Last(target)[2]
  <2>1. IsPath(target) /\ IsSeq(target) /\ DOMAIN target = 1 .. Len(target)
    BY <1>8, TargetReached, SeqOfElements DEF clearElement, Translates, IsPath
  <2>2. target # <<>> /\ IsElem(target[Len(target)])
    BY <1>8 DEF clearElement, IsElementPath
  <2>3. /\ Len(target) \in Nat \ {0} /\ DOMAIN c = 1 .. Len(target) - 1
        /\ \A i \in 1 .. Len(target) - 1 : c[i] = target[i]
    BY <1>8, <2>1, <2>2, FrontOfSeq
  <2>4. Len(target) = k
    <3>1. DOMAIN c = 1 .. k - 1 /\ k - 1 \in Nat
      BY <1>1, <1>3, SeqOfElements
    <3> QED BY <2>3, <3>1
  <2>5. target[k] = q[k]
    <3>1. target[k] = ElemSeg(target[k][2])
      BY <2>1, <2>2, <2>3, <2>4, Segments DEF IsPath
    <3>2. Last(target) = target[k]
      BY <2>4 DEF Last
    <3> QED BY <1>6, <1>8, <3>1, <3>2
  <2>6. /\ IsSeq(SubSeq(q, 1, k)) /\ Len(SubSeq(q, 1, k)) = k
        /\ \A i \in 1 .. k : SubSeq(q, 1, k)[i] = q[i]
    BY <1>1, HeadOf
  <2>7. \A i \in 1 .. k : target[i] = SubSeq(q, 1, k)[i]
    <3> TAKE i \in 1 .. k
    <3>1. CASE i = k
      BY <2>5, <2>6, <3>1
    <3>2. CASE i \in 1 .. k - 1
      <4>1. c[i] = q[i] /\ c[i] = target[i]
        BY <1>3, <2>3, <2>4, <3>2
      <4> QED BY <2>6, <4>1
    <3> QED BY <1>1, <3>1, <3>2
  <2>8. target = SubSeq(q, 1, k)
    BY <2>1, <2>4, <2>6, <2>7, SameSeq
  <2>9. Len(target) <= Len(q) /\ target = SubSeq(q, 1, Len(target))
    BY <1>1, <2>4, <2>8
  <2> QED BY <1>1, <1>8, <2>1, <2>9, PrefixIsHead
<1>9. PICK e : e = q[k][2]
  OBVIOUS
<1>10. \/ e \in Range(collections'[c].order)
       \/ Emptied /\ c = target
       \/ clearElement /\ c = Front(target) /\ e = Last(target)[2]
  <2>1. c \in DOMAIN collections \cap DOMAIN collections'
    BY <1>2, <1>5
  <2>2. e \in Range(collections[c].order)
    BY <1>2, <1>9
  <2> QED BY <2>1, <2>2, OrdersKept
<1> QED BY <1>5, <1>7, <1>8, <1>9, <1>10

------------------------------------------------------------------------------
(* The invariant is kept.                                                  *)

\* One subscript more gets a slot of its own.
LEMMA TakenApart ==
  ASSUME TypeOK, SlotsDense, ElementInv, NEW final, NEW record, Takes(final, record)
  PROVE  IF Unkeyed(listAt) THEN IsInjective(record.remap)
         ELSE \A s \in DOMAIN record.remap : record.remap[s] = s
<1> DEFINE c     == collectionAt(collections, listAt)
           known == named \in DOMAIN c.remap
<1>1. /\ record.remap = put(c.remap, named, final)
      /\ known => final = c.remap[named]
      /\ ~known => final = IF Unkeyed(listAt) THEN Len(c.order) ELSE named
  BY DEF Takes
<1>2. listAt \notin DOMAIN collections => DOMAIN c.remap = {} /\ c.order = <<>>
  BY EmptyOrder DEF collectionAt, newCollection
<1>3. CASE ~Unkeyed(listAt)
  <2>1. \A s \in DOMAIN c.remap : c.remap[s] = s
    BY <1>2, <1>3 DEF ElementInv, RecordsNamed, collectionAt
  <2> HIDE DEF c
  <2> QED BY <1>1, <1>3, <2>1 DEF put
<1>4. CASE Unkeyed(listAt)
  <2>1. IsInjective(c.remap)
    BY <1>2, <1>4 DEF ElementInv, RecordsNamed, collectionAt, IsInjective
  <2>2. \A s \in DOMAIN c.remap : c.remap[s] \in Range(c.order)
    BY <1>2, <1>4, UnkeyedListed DEF ElementInv, RecordsNamed, collectionAt
  <2>3. Len(c.order) \notin Range(c.order)
    <3>1. /\ Len(c.order) \in Nat /\ DOMAIN c.order = 1 .. Len(c.order)
          /\ c.order = [i \in 1 .. Len(c.order) |-> i - 1]
      <4>1. CASE listAt \in DOMAIN collections
        <5>1. IsSeq(c.order)
          BY <4>1 DEF TypeOK, CollectionOK, collectionAt
        <5> QED BY <1>4, <4>1, <5>1, SeqOfElements DEF SlotsDense, collectionAt
      <4>2. CASE listAt \notin DOMAIN collections
        <5>1. c.order = <<>> /\ Len(<<>>) = 0 /\ <<>> = [i \in 1 .. 0 |-> i - 1]
          BY <1>2, <4>2, EmptySeq
        <5> QED BY <5>1, EmptyOrder
      <4> QED BY <4>1, <4>2
    <3> HIDE DEF c
    <3>2. \A i \in DOMAIN c.order : c.order[i] # Len(c.order)
      BY <3>1
    <3> QED BY <3>2 DEF Range
  <2> HIDE DEF c
  <2>4. ASSUME known PROVE IsInjective(record.remap)
    BY <1>1, <2>1, <2>4 DEF put, IsInjective
  <2>5. ASSUME ~known PROVE IsInjective(record.remap)
    <3>1. \A s \in DOMAIN c.remap : c.remap[s] # final
      BY <1>1, <1>4, <2>2, <2>3, <2>5
    <3> QED BY <1>1, <2>1, <2>5, <3>1 DEF put, IsInjective
  <2> QED BY <1>4, <2>4, <2>5
<1> QED BY <1>3, <1>4

LEMMA RecordsNext ==
  ASSUME TypeOK, SlotsDense, ElementInv, FoldNext
  PROVE  RecordsNamed'
<1> SUFFICES ASSUME NEW c \in DOMAIN collections'
             PROVE  /\ IsPath(c) /\ CanonicalPath(c) \in DOMAIN byPath
                    /\ IF Unkeyed(c) THEN IsInjective(collections'[c].remap)
                       ELSE \A s \in DOMAIN collections'[c].remap : collections'[c].remap[s] = s
  BY DEF RecordsNamed, Unkeyed
<1>1. CASE UNCHANGED collections
  BY <1>1 DEF ElementInv, RecordsNamed
<1>2. CASE startLayer
  <2>1. c \in DOMAIN collections /\ collections'[c] = forget(collections[c])
    BY <1>2 DEF startLayer
  <2>2. DOMAIN collections'[c].remap = {}
    <3>1. CollectionOK(collections[c], Origin)
      BY <2>1 DEF TypeOK
    <3>2. forget(collections[c]).remap = <<>>
      BY <3>1 DEF forget, CollectionOK
    <3> QED BY <2>1, <3>2, EmptyOrder
  <2> QED BY <2>1, <2>2 DEF ElementInv, RecordsNamed, IsInjective
<1>3. ASSUME resolveElements, NEW final, NEW record, Takes(final, record)
      PROVE  /\ IsPath(c) /\ CanonicalPath(c) \in DOMAIN byPath
             /\ IF Unkeyed(c) THEN IsInjective(collections'[c].remap)
                ELSE \A s \in DOMAIN collections'[c].remap : collections'[c].remap[s] = s
  <2>1. CASE c # listAt
    <3>1. c \in DOMAIN collections /\ collections'[c] = collections[c]
      BY <1>3, <2>1 DEF Takes, put
    <3> QED BY <3>1 DEF ElementInv, RecordsNamed
  <2>2. CASE c = listAt
    <3>1. collections'[c] = record /\ CanonicalPath(c) \in DOMAIN byPath
      BY <1>3, <2>2 DEF Takes, put
    <3>2. IsPath(c)
      BY <1>3, <2>2, ListReached DEF ElementInv, resolveElements, Translates
    <3> QED BY <1>3, <2>2, <3>1, <3>2, TakenApart
  <2> QED BY <2>1, <2>2
<1>4. CASE ~startLayer /\ ~resolveElements
  <2>1. /\ collections'[c].remap = collectionAt(collections, c).remap
        /\ c \in DOMAIN collections
             \/ (c = target /\ (eraseCollection \/ provideCollection))
    BY <1>4, SlotsKept
  <2>2. CASE c \in DOMAIN collections
    BY <2>1, <2>2 DEF ElementInv, RecordsNamed, collectionAt
  <2>3. CASE c \notin DOMAIN collections
    <3>1. DOMAIN collections'[c].remap = {}
      BY <2>1, <2>3, EmptyOrder DEF collectionAt, newCollection
    <3>2. c = target /\ Ready /\ AtCollection
      BY <2>1, <2>3 DEF eraseCollection, provideCollection
    <3>3. IsPath(c) /\ CanonicalPath(c) \in DOMAIN byPath
      BY <3>2, TargetReached, TargetOK DEF ElementInv, Translates, AtCollection, found
    <3> QED BY <3>1, <3>3 DEF IsInjective
  <2> QED BY <2>2, <2>3
<1> QED BY <1>1, <1>2, <1>3, <1>4, ElementTaken

\* But for a new layer, the place in the layer only moves on.
LEMMA PlaceKept ==
  ASSUME TypeOK, FoldNext, ~startLayer
  PROVE  /\ sources' = sources /\ sources # <<>> /\ Folding
         /\ Layer(Origin)' = Layer(Origin)
         /\ folded' \in {folded, folded + 1} /\ folded \in Nat
         /\ DOMAIN Layer(Origin) \subseteq Nat
<1>1. sources' = sources /\ Folding
  BY SourcesKept
<1>2. folded' \in {folded, folded + 1}
  BY DEF FoldNext, skipMissing, resolveElements, eraseCollection, provideCollection,
         elementMarker, clearElement, fold, Consume
<1> QED BY <1>1, <1>2, CurrentPlace DEF Layer, Origin, Folding

\* What the layer has said of an element it has said.
LEMMA MentionsKept ==
  ASSUME TypeOK, RecordsNamed, FoldNext, ~startLayer, NEW c, NEW s, ~Dropped(c)
  PROVE  /\ Mentioned(c, s) => Mentioned(c, s)'
         /\ ErasedAgain(c, s) => ErasedAgain(c, s)'
<1>1. /\ Layer(Origin)' = Layer(Origin)
      /\ folded' \in {folded, folded + 1} /\ folded \in Nat
      /\ DOMAIN Layer(Origin) \subseteq Nat
  BY PlaceKept
<1>2. ASSUME NEW p, Names(collections, p, c, s) PROVE Names(collections', p, c, s)
  BY <1>2, TranslationsKept DEF Names
<1>3. ASSUME Mentioned(c, s) PROVE Mentioned(c, s)'
  <2>1. PICK i \in DOMAIN Layer(Origin) :
          i <= folded + 1 /\ Names(collections, Layer(Origin)[i].path, c, s)
    BY <1>3 DEF Mentioned
  <2>2. i <= folded' + 1 /\ Names(collections', Layer(Origin)[i].path, c, s)
    BY <1>1, <1>2, <2>1
  <2> QED BY <1>1, <2>2 DEF Mentioned
<1>4. ASSUME ErasedAgain(c, s) PROVE ErasedAgain(c, s)'
  <2>1. PICK i \in DOMAIN Layer(Origin) :
          /\ i <= folded /\ Layer(Origin)[i].state = "null"
          /\ Len(Layer(Origin)[i].path) = Len(c) + 1
          /\ Names(collections, Layer(Origin)[i].path, c, s)
    BY <1>4 DEF ErasedAgain
  <2>2. i <= folded' /\ Names(collections', Layer(Origin)[i].path, c, s)
    BY <1>1, <1>2, <2>1
  <2> QED BY <1>1, <2>1, <2>2 DEF ErasedAgain
<1> QED BY <1>3, <1>4

\* The null being folded is what erases an element of a collection's order.
LEMMA ErasedNow ==
  ASSUME TypeOK, ElementInv, clearElement, NEW c \in DOMAIN collections, c = Front(target),
         NEW s \in DOMAIN collections[c].remap, collections[c].remap[s] = Last(target)[2]
  PROVE  ErasedAgain(c, s)'
<1> DEFINE n == Len(c)
           p == current.path
<1>1. /\ Ready /\ Folding /\ current.state = "null" /\ Consume /\ ~startLayer
      /\ target # <<>> /\ IsElem(target[Len(target)])
  BY DEF clearElement, Ready, IsElementPath, startLayer
<1>2. Translates(collections, p, target)
  BY <1>1, TargetReached DEF ElementInv
<1>3. IsPath(target) /\ IsSeq(target) /\ IsSeq(p) /\ IsSeq(c) /\ Len(p) = Len(target)
  BY <1>2, SeqOfElements DEF Translates, IsPath, ElementInv, RecordsNamed
<1>4. /\ Len(target) \in Nat \ {0} /\ DOMAIN c = 1 .. Len(target) - 1
      /\ DOMAIN target = 1 .. Len(target)
      /\ \A i \in 1 .. Len(target) - 1 : c[i] = target[i]
  BY <1>1, <1>3, FrontOfSeq, SeqOfElements
<1>5. n \in Nat /\ Len(target) = n + 1 /\ n \in 0 .. Len(target) /\ n \in 0 .. Len(p)
      /\ n + 1 - 1 = n
  <2>1. n \in Nat /\ DOMAIN c = 1 .. n
    BY <1>3, SeqOfElements
  <2>2. PICK m \in Nat : Len(target) = m + 1
    <3>1. Len(target) - 1 \in Nat /\ Len(target) = Len(target) - 1 + 1
      BY <1>4
    <3> QED BY <3>1
  <2>3. 1 .. n = 1 .. m
    BY <1>4, <2>1, <2>2
  <2>4. m = n
    BY <2>1, <2>3, SameInterval
  <2> HIDE DEF n
  <2> QED BY <1>3, <2>1, <2>2, <2>4
<1>6. c = SubSeq(target, 1, n)
  BY <1>5 DEF Front
<1>7. Translates(collections, SubSeq(p, 1, n), c)
  BY <1>2, <1>5, <1>6, TranslatedHead
<1>8. p[n + 1] = ElemSeg(s)
  <2>1. Slots(collections, p, target, n + 1)
    BY <1>1, <1>2, <1>5 DEF Translates
  <2>2. PICK t \in DOMAIN collections[c].remap :
          p[n + 1] = ElemSeg(t) /\ target[n + 1] = ElemSeg(collections[c].remap[t])
    <3>1. SubSeq(target, 1, n + 1 - 1) = c
      BY <1>5, <1>6
    <3> QED BY <2>1, <3>1, SlotAt
  <2>3. collections[c].remap[t] = collections[c].remap[s]
    BY <1>5, <2>2, Segments DEF Last
  <2>4. t = s
    BY <2>3, SlotsApart DEF IsInjective, ElementInv
  <2> QED BY <2>2, <2>4
<1>9. Names(collections, p, c, s)
  BY <1>3, <1>5, <1>7, <1>8 DEF Names
<1>10. Names(collections', p, c, s)
  <2>1. ~Dropped(c) /\ FoldNext
    BY DEF Dropped, fold, clearElement, FoldNext
  <2> QED BY <1>1, <1>9, <2>1, TranslationsKept DEF Names, ElementInv
<1>11. /\ folded' = folded + 1 /\ Layer(Origin)' = Layer(Origin)
       /\ folded \in Nat /\ folded + 1 \in DOMAIN Layer(Origin)
       /\ current = Layer(Origin)[folded + 1]
  BY <1>1, CurrentPlace DEF Consume, Layer, Origin
<1>12. PICK i \in DOMAIN Layer(Origin) : i = folded + 1 /\ current = Layer(Origin)[i]
  BY <1>11
<1> QED BY <1>1, <1>3, <1>5, <1>10, <1>11, <1>12 DEF ErasedAgain

\* A slot the record had already is still mentioned, and listed or erased.
LEMMA OldSlot ==
  ASSUME TypeOK, ElementInv, AllOrderly, FoldNext, ~startLayer,
         NEW c \in DOMAIN collections \cap DOMAIN collections', ~Dropped(c),
         NEW s \in DOMAIN collections[c].remap
  PROVE  /\ Mentioned(c, s)'
         /\ \/ collections[c].remap[s] \in Range(collections'[c].order)
            \/ ErasedAgain(c, s)'
<1>1. /\ Mentioned(c, s)
      /\ collections[c].remap[s] \in Range(collections[c].order) \/ ErasedAgain(c, s)
  BY DEF ElementInv, SlotsListed
<1>2. /\ Mentioned(c, s)'
      /\ ErasedAgain(c, s) => ErasedAgain(c, s)'
  BY <1>1, MentionsKept DEF ElementInv
<1>3. CASE collections[c].remap[s] \in Range(collections[c].order)
  <2>1. PICK e : e = collections[c].remap[s]
    OBVIOUS
  <2>2. e \in Range(collections[c].order)
    BY <1>3, <2>1
  <2>3. \/ e \in Range(collections'[c].order)
        \/ Emptied /\ c = target
        \/ clearElement /\ c = Front(target) /\ e = Last(target)[2]
    BY <2>2, OrdersKept
  <2>4. ~(Emptied /\ c = target)
    BY NoneMentioned DEF Emptied, eraseCollection, provideCollection
  <2>5. ASSUME clearElement, c = Front(target), e = Last(target)[2] PROVE ErasedAgain(c, s)'
    BY <2>1, <2>5, ErasedNow
  <2> QED BY <1>2, <2>1, <2>3, <2>4, <2>5
<1> QED BY <1>1, <1>2, <1>3

LEMMA SlotsListedNext ==
  ASSUME TypeOK, ElementInv, AllOrderly, FoldNext
  PROVE  SlotsListed'
<1> SUFFICES ASSUME NEW c \in DOMAIN collections', NEW s \in DOMAIN collections'[c].remap
             PROVE  /\ sources' # <<>> /\ Mentioned(c, s)'
                    /\ \/ collections'[c].remap[s] \in Range(collections'[c].order)
                       \/ ErasedAgain(c, s)'
  BY DEF SlotsListed
<1>1. CASE startLayer
  <2>1. c \in DOMAIN collections /\ collections'[c] = forget(collections[c])
    BY <1>1 DEF startLayer
  <2>2. CollectionOK(collections[c], Origin)
    BY <2>1 DEF TypeOK
  <2>3. forget(collections[c]).remap = <<>>
    BY <2>2 DEF forget, CollectionOK
  <2> QED BY <2>1, <2>3, EmptyOrder
<1>2. CASE ~startLayer
  <2>1. sources' = sources /\ sources # <<>> /\ Folding
    BY <1>2, PlaceKept
  <2>2. ASSUME c \in DOMAIN collections, ~Dropped(c), s \in DOMAIN collections[c].remap,
               collections'[c].remap[s] = collections[c].remap[s]
        PROVE  /\ Mentioned(c, s)'
               /\ \/ collections'[c].remap[s] \in Range(collections'[c].order)
                  \/ ErasedAgain(c, s)'
    <3>1. c \in DOMAIN collections \cap DOMAIN collections'
      BY <2>2
    <3> QED BY <1>2, <2>2, <3>1, OldSlot
  <2>3. CASE ~resolveElements
    <3>1. collections'[c].remap = collectionAt(collections, c).remap /\ ~Dropped(c)
      BY <1>2, <2>3, SlotsKept
    <3>2. c \in DOMAIN collections
      BY <3>1, EmptyOrder DEF collectionAt, newCollection
    <3>3. s \in DOMAIN collections[c].remap /\ collections'[c].remap[s] = collections[c].remap[s]
      BY <3>1, <3>2 DEF collectionAt
    <3> QED BY <2>1, <2>2, <3>1, <3>2, <3>3
  <2>4. CASE resolveElements /\ UNCHANGED collections
    BY <2>1, <2>2, <2>4 DEF Dropped, fold, resolveElements, Ready
  <2>5. ASSUME resolveElements, NEW final, NEW record, Takes(final, record)
        PROVE  /\ sources' # <<>> /\ Mentioned(c, s)'
               /\ \/ collections'[c].remap[s] \in Range(collections'[c].order)
                  \/ ErasedAgain(c, s)'
    <3>1. ~Dropped(c) /\ ~Dropped(listAt)
      BY <2>5 DEF Dropped, fold, resolveElements, Ready
    <3>2. CASE c # listAt
      <4>1. c \in DOMAIN collections /\ collections'[c] = collections[c]
        BY <2>5, <3>2 DEF Takes, put
      <4> QED BY <2>1, <2>2, <3>1, <4>1
    <3> DEFINE was == collectionAt(collections, listAt)
    <3>3. /\ record.remap = put(was.remap, named, final)
          /\ named \in DOMAIN was.remap => final = was.remap[named]
          /\ named \notin DOMAIN was.remap => final \in Range(record.order)
          /\ collections' = put(collections, listAt, record)
          /\ UNCHANGED <<sources, folded>>
      BY <2>5 DEF Takes
    <3>4. CASE c = listAt /\ s \in DOMAIN was.remap
      <4>1. c \in DOMAIN collections /\ was = collections[c]
        BY <3>4, EmptyOrder DEF collectionAt, newCollection
      <4>2. collections'[c].remap[s] = was.remap[s]
        BY <3>3, <3>4 DEF put
      <4> QED BY <2>1, <2>2, <3>1, <3>4, <4>1, <4>2
    <3>5. CASE c = listAt /\ s \notin DOMAIN was.remap
      <4>1. collections'[c] = record
        BY <3>3, <3>5 DEF put
      <4>2. s = named /\ record.remap[s] = final /\ final \in Range(record.order)
        BY <3>3, <3>5, <4>1 DEF put
      <4>3. /\ at \in Len(resolved) + 1 .. Len(current.path) /\ Len(listAt) = at - 1
            /\ current.path[at] = ElemSeg(named)
            /\ Translates(collections, SubSeq(current.path, 1, at - 1), listAt)
            /\ Len(resolved) \in Nat /\ Len(current.path) \in Nat
        BY <2>1, <2>5, ListReached, CurrentPath DEF ElementInv, resolveElements
      <4>4. Translates(collections', SubSeq(current.path, 1, at - 1), listAt)
        BY <1>2, <3>1, <4>3, TranslationsKept DEF ElementInv
      <4>5. Names(collections', current.path, c, s)
        <5>1. Len(listAt) < Len(current.path) /\ Len(listAt) + 1 = at
          BY <4>3
        <5> QED BY <3>5, <4>2, <4>3, <4>4, <5>1 DEF Names
      <4>6. PICK i \in DOMAIN Layer(Origin) : i = folded + 1 /\ current = Layer(Origin)[i]
        BY <2>1, CurrentPlace
      <4>7. Layer(Origin)' = Layer(Origin) /\ folded' = folded /\ folded \in Nat
        BY <1>2, <3>3, PlaceKept
      <4>8. Mentioned(c, s)'
        BY <4>5, <4>6, <4>7 DEF Mentioned
      <4> QED BY <2>1, <4>1, <4>2, <4>8
    <3> QED BY <3>2, <3>4, <3>5
  <2> QED BY <2>3, <2>4, <2>5, ElementTaken
<1> QED BY <1>1, <1>2

\* The subscript that was resolved leads to an element its list holds.
LEMMA TakenListed ==
  ASSUME TypeOK, ElementInv, AllOrderly, resolveElements,
         NEW final, NEW record, Takes(final, record)
  PROVE  /\ Translates(collections', SubSeq(current.path, 1, Len(resolved')), resolved')
         /\ Listed(collections', resolved')
<1> DEFINE p    == current.path
           head == SubSeq(p, 1, at - 1)
           long == ElementPath(listAt, final)
<1>1. /\ FoldNext /\ ~startLayer /\ Folding /\ Subscripts # {}
      /\ \A q : ~Dropped(q)
      /\ ~Emptied /\ ~clearElement
  BY DEF FoldNext, resolveElements, startLayer, Dropped, fold, Emptied, eraseCollection,
         provideCollection, clearElement, Ready
<1>2. /\ at \in Len(resolved) + 1 .. Len(p) /\ Len(listAt) = at - 1
      /\ p[at] = ElemSeg(named)
      /\ Translates(collections, head, listAt) /\ Listed(collections, listAt)
      /\ IsSeq(p) /\ Len(p) \in Nat /\ Len(resolved) \in Nat
  BY <1>1, ListReached, CurrentPath DEF ElementInv
<1>3. /\ Translates(collections', head, listAt) /\ Listed(collections', listAt)
      /\ IsSeq(listAt)
  BY <1>1, <1>2, TranslationsKept, ListingsKept DEF ElementInv, Translates, IsPath
<1>4. /\ listAt \in DOMAIN collections' /\ collections'[listAt] = record
      /\ named \in DOMAIN record.remap /\ record.remap[named] = final
      /\ resolved' = long
  BY DEF Takes, put
<1>5. final \in Range(record.order)
  <2> DEFINE c == collectionAt(collections, listAt)
  <2>1. CASE named \in DOMAIN c.remap
    <3>1. listAt \in DOMAIN collections /\ c = collections[listAt]
      BY <2>1, EmptyOrder DEF collectionAt, newCollection
    <3>2. c.remap[named] \in Range(c.order)
      BY <1>1, <2>1, <3>1, KnownIsListed
    <3>3. final = c.remap[named] /\ Range(c.order) \subseteq Range(record.order)
      BY <2>1 DEF Takes
    <3> QED BY <3>2, <3>3
  <2>2. CASE named \notin DOMAIN c.remap
    BY <2>2 DEF Takes
  <2> QED BY <2>1, <2>2
<1>6. Listed(collections', long)
  BY <1>3, <1>4, <1>5, ListedElement
<1>7. Translates(collections', Append(head, ElemSeg(named)), long)
  BY <1>3, <1>4, TranslatedElement
<1>8. at \in Nat /\ at \in 0 .. Len(p) /\ at - 1 \in 0 .. Len(p)
  BY <1>2
<1>9. Len(long) = at
  BY <1>2, <1>3, <1>8, AppendToSeq DEF ElementPath
<1>10. Append(head, ElemSeg(named)) = SubSeq(p, 1, at)
  <2>1. /\ IsSeq(head) /\ Len(head) = at - 1 /\ \A i \in 1 .. at - 1 : head[i] = p[i]
        /\ IsSeq(SubSeq(p, 1, at)) /\ Len(SubSeq(p, 1, at)) = at
        /\ \A i \in 1 .. at : SubSeq(p, 1, at)[i] = p[i]
    BY <1>2, <1>8, HeadOf
  <2> DEFINE more == Append(head, ElemSeg(named))
  <2> HIDE DEF head
  <2>2. /\ IsSeq(more) /\ Len(more) = at - 1 + 1
        /\ \A i \in 1 .. at - 1 : more[i] = head[i]
        /\ more[at - 1 + 1] = ElemSeg(named)
    BY <2>1, AppendToSeq
  <2> HIDE DEF more, p, at
  <2>3. Len(more) = at /\ more[at] = ElemSeg(named)
    BY <1>8, <2>2
  <2>4. ASSUME NEW i \in 1 .. at PROVE more[i] = SubSeq(p, 1, at)[i]
    <3>1. CASE i = at
      BY <1>2, <1>8, <2>1, <2>3, <3>1
    <3>2. CASE i \in 1 .. at - 1
      BY <1>8, <2>1, <2>2, <3>2
    <3> QED BY <1>8, <3>1, <3>2
  <2> QED BY <2>1, <2>2, <2>3, <2>4, SameSeq DEF more
<1> QED BY <1>4, <1>6, <1>7, <1>9, <1>10

LEMMA ResolvedNext ==
  ASSUME TypeOK, ElementInv, AllOrderly, FoldNext
  PROVE  ResolvedListed'
<1> SUFFICES ASSUME Folding'
             PROVE  /\ Translates(collections', SubSeq(current.path', 1, Len(resolved')), resolved')
                    /\ Listed(collections', resolved')
  BY DEF ResolvedListed
<1>1. CASE resolved' = <<>>
  <2>1. sources' \in Seq(Layers) /\ folded' \in Nat
    BY SourcesOK
  <2>2. AssignmentOK(current')
    BY <2>1, AssignmentAt DEF Folding, Origin, current
  <2>3. IsSeq(current.path') /\ 0 \in 0 .. Len(current.path')
    BY <2>2, SeqOfElements DEF AssignmentOK, IsPath
  <2>4. SubSeq(current.path', 1, 0) = <<>> /\ Len(<<>>) = 0
    BY <2>3, HeadOf, EmptySeqOf, EmptySeq
  <2> QED BY <1>1, <2>4, NothingTranslated
<1>2. ASSUME resolveElements, NEW final, NEW record, Takes(final, record)
      PROVE  /\ Translates(collections', SubSeq(current.path', 1, Len(resolved')), resolved')
             /\ Listed(collections', resolved')
  <2>1. current' = current
    BY <1>2 DEF Takes, current, Origin
  <2> QED BY <1>2, <2>1, TakenListed
<1>3. resolved' = <<>> \/ (resolveElements /\ ~Consume)
  BY DEF FoldNext, startLayer, skipMissing, resolveElements, eraseCollection, provideCollection,
         elementMarker, clearElement, fold, Consume, TypeOK
<1> QED BY <1>1, <1>2, <1>3, ElementTaken

\* No element is itself a list: what is inside one is a member of it.
LEMMA MembersOnly ==
  ASSUME RecordsNamed, NEW p, NEW q, IsPath(p), IsPath(q), Listed(collections, q),
         IsElementPath(p), IsPrefix(p, q), p # q
  PROVE  Inside(p, q)
<1> DEFINE n == Len(p)
<1>1. /\ IsSeq(p) /\ IsSeq(q) /\ n \in Nat /\ Len(q) \in Nat
      /\ DOMAIN p = 1 .. n /\ DOMAIN q = 1 .. Len(q)
      /\ p # <<>> /\ IsElem(p[n])
  BY SeqOfElements DEF IsPath, IsElementPath
<1>2. n <= Len(q) /\ p = SubSeq(q, 1, n)
  BY <1>1, PrefixIsHead
<1>3. n # Len(q)
  BY <1>1, <1>2, WholeHead
<1>4. n + 1 \in 1 .. Len(q) /\ n + 1 - 1 = n
  <2>1. n \in Nat /\ Len(q) \in Nat /\ n <= Len(q) /\ n # Len(q)
    BY <1>1, <1>2, <1>3
  <2> HIDE DEF n
  <2> QED BY <2>1
<1>5. CASE IsElem(q[n + 1])
  <2>1. SubSeq(q, 1, n) \in DOMAIN collections
    BY <1>4, <1>5 DEF Listed
  <2>2. CanonicalPath(p) \in DOMAIN byPath
    BY <1>2, <2>1 DEF RecordsNamed
  <2>3. n \in 1 .. n
    BY <1>1, EmptySeqOf
  <2>4. CanonicalPath(p) = [i \in 1 .. n |-> IF IsElem(p[i]) THEN AnySeg ELSE p[i]]
    BY <1>1 DEF CanonicalPath
  <2>5. Len(CanonicalPath(p)) = n /\ CanonicalPath(p)[n] = AnySeg
    BY <1>1, <2>3, <2>4
  <2>6. CanonicalPath(p)[n][1] = "name"
    BY <2>2, <2>5, ByPathOK
  <2>7. AnySeg[1] # "name"
    BY DEF AnySeg
  <2> QED BY <2>5, <2>6, <2>7
<1>6. CASE ~IsElem(q[n + 1])
  <2>1. q[n + 1][1] = "name"
    BY <1>1, <1>4, <1>6, Segments DEF IsPath
  <2> QED BY <2>1 DEF Inside, IsStrictPrefix
<1> QED BY <1>5, <1>6

LEMMA ValuesNext ==
  ASSUME TypeOK, ElementInv, FoldNext
  PROVE  ValuesListed'
<1> SUFFICES ASSUME NEW p \in DOMAIN values' PROVE IsPath(p) /\ Listed(collections', p)
  BY DEF ValuesListed
<1>1. CASE fold /\ p = target
  <2>1. IsPath(target) /\ Listed(collections, target)
    BY <1>1, TargetReached DEF ElementInv, fold, Translates
  <2>2. ~Dropped(p)
    BY <1>1 DEF Dropped, Inside, IsStrictPrefix
  <2>3. ~Emptied /\ ~clearElement
    BY <1>1 DEF fold, Emptied, eraseCollection, provideCollection, clearElement
  <2> QED BY <1>1, <2>1, <2>2, <2>3, ListingsKept DEF ElementInv
<1>2. CASE p \in DOMAIN values /\ ~(fold /\ p = target)
  <2>1. IsPath(p) /\ Listed(collections, p)
    BY <1>2 DEF ElementInv, ValuesListed
  <2>2. ~Dropped(p)
    <3> SUFFICES ASSUME Dropped(p) PROVE FALSE
      OBVIOUS
    <3> DEFINE vals == dropOtherSpelling(dropSubtree(values), target)
    <3>1. p \notin DOMAIN dropSubtree(values)
      BY DEF Dropped, dropSubtree, Without, Restrict
    <3>2. PICK S : vals = dropSubtree(values) \/ vals = Without(dropSubtree(values), S)
      BY DEF dropOtherSpelling
    <3>3. p \notin DOMAIN vals
      BY <3>1, <3>2 DEF Without, Restrict
    <3>4. DOMAIN values' = DOMAIN vals \cup {target}
      BY DEF Dropped, fold, put
    <3> QED BY <1>2, <3>3, <3>4 DEF Dropped
  <2>3. ~(Emptied /\ WithinElements(target, p))
    BY DEF Emptied, eraseCollection, provideCollection, clearValues, Without, Restrict
  <2>4. ~(clearElement /\ IsPrefix(target, p))
    <3> SUFFICES ASSUME clearElement, IsPrefix(target, p) PROVE FALSE
      OBVIOUS
    <3>1. p # target /\ ~Inside(target, p)
      BY DEF clearElement, Without, Restrict
    <3>2. IsPath(target) /\ IsElementPath(target)
      BY TargetReached DEF clearElement, ElementInv, Translates
    <3> QED BY <2>1, <3>1, <3>2, MembersOnly DEF ElementInv
  <2> QED BY <2>1, <2>2, <2>3, <2>4, ListingsKept DEF ElementInv
<1>3. p \in DOMAIN values \/ (fold /\ p = target)
  BY ValuesMove
<1> QED BY <1>1, <1>2, <1>3

LEMMA ElementInit ==
  ASSUME Init PROVE ElementInv
<1>1. sources = <<>> /\ DOMAIN values = {} /\ DOMAIN collections = {}
  BY EmptyOrder DEF Init
<1>2. ~Folding
  BY <1>1 DEF Folding
<1> QED BY <1>1, <1>2 DEF ElementInv, RecordsNamed, SlotsListed, ResolvedListed, ValuesListed

LEMMA ElementNext ==
  ASSUME TypeOK, SlotsDense, ElementInv, AllOrderly, [FoldNext]_foldVars
  PROVE  ElementInv'
<1>1. CASE UNCHANGED foldVars
  BY <1>1 DEF ElementInv, RecordsNamed, SlotsListed, ResolvedListed, ValuesListed, foldVars,
     Mentioned, ErasedAgain, Layer, Origin, Folding, current, Unkeyed
<1>2. CASE FoldNext
  BY <1>2, RecordsNext, SlotsListedNext, ResolvedNext, ValuesNext DEF ElementInv
<1> QED BY <1>1, <1>2

LEMMA ElementsAlways ==
  ASSUME AllOrderly PROVE Spec => []ElementInv
<1>1. Init => ElementInv
  BY ElementInit
<1>2. TypeOK /\ SlotsDense /\ ElementInv /\ [FoldNext]_foldVars => ElementInv'
  BY ElementNext
<1> QED BY <1>1, <1>2, TypeCorrect, SlotsAreDense, PTL DEF Spec

(* Two elements of one document never share a slot, and an element of a    *)
(* list without a key keeps the slot its document gave it: for every       *)
(* description and every sequence of documents that repeat no key          *)
(* (Fold, SlotsNotShared).                                                 *)
THEOREM ElementsKeepApart ==
  ASSUME \A layer \in Layers : Orderly(layer)
  PROVE  Spec => []SlotsNotShared
<1>1. Spec => []ElementInv
  BY ElementsAlways DEF AllOrderly
<1>2. TypeOK /\ ElementInv => SlotsNotShared
  <2> SUFFICES ASSUME TypeOK, ElementInv, NEW c \in DOMAIN collections
               PROVE  LET remap == collections[c].remap
                      IN /\ IsInjective(remap)
                         /\ Unkeyed(c) => Range(remap) \subseteq Range(collections[c].order)
    BY DEF SlotsNotShared
  <2>1. IsInjective(collections[c].remap)
    BY SlotsApart DEF ElementInv
  <2>2. ASSUME Unkeyed(c)
        PROVE  Range(collections[c].remap) \subseteq Range(collections[c].order)
    <3>1. \A s \in DOMAIN collections[c].remap :
            collections[c].remap[s] \in Range(collections[c].order)
      BY <2>2, UnkeyedListed DEF ElementInv, RecordsNamed
    <3> QED BY <3>1, Zenon DEF Range
  <2> QED BY <2>1, <2>2
<1> QED BY <1>1, <1>2, TypeCorrect, PTL

(* No value is kept below an element its collection no longer lists, for   *)
(* every description and every sequence of documents that repeat no key    *)
(* (Fold, ValuesReachable).                                                *)
THEOREM NothingIsOrphaned ==
  ASSUME \A layer \in Layers : Orderly(layer)
  PROVE  Spec => []ValuesReachable
<1>1. Spec => []ElementInv
  BY ElementsAlways DEF AllOrderly
<1>2. ElementInv => ValuesReachable
  <2> SUFFICES ASSUME ElementInv, NEW p \in DOMAIN values, NEW i \in DOMAIN p, IsElem(p[i])
               PROVE  LET c == SubSeq(p, 1, i - 1)
                      IN c \in DOMAIN collections /\ p[i][2] \in Range(collections[c].order)
    BY DEF ValuesReachable
  <2>1. IsPath(p) /\ Listed(collections, p)
    BY DEF ElementInv, ValuesListed
  <2>2. i \in 1 .. Len(p)
    BY <2>1, SeqOfElements DEF IsPath
  <2> QED BY <2>1, <2>2 DEF Listed
<1> QED BY <1>1, <1>2, PTL
==============================================================================
