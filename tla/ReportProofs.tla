------------------------------ MODULE ReportProofs ------------------------------
(***************************************************************************)
(* Theorems about the report a configuration comes with (resolve.go        *)
(* Report): the origins and the credentials it names, for every            *)
(* description, every set of layers and every number of sources.           *)
(***************************************************************************)
EXTENDS Resolve, OriginProofs

------------------------------------------------------------------------------
(* The frames materialize has still to run.                                *)

\* One sequence after another gives a sequence of what they hold.
LEMMA FlattenedSeq ==
  ASSUME NEW S, NEW ss, IsSeq(ss), \A i \in 1 .. Len(ss) : ss[i] \in Seq(S)
  PROVE  FlattenSeq(ss) \in Seq(S)
<1> DEFINE n == Len(ss)
           joins(f, k) == f = [i \in 1 .. k |-> IF i = 1 THEN ss[i] ELSE f[i - 1] \o ss[i]]
           unjoined == {k \in 1 .. n : ~ \E f : joins(f, k)}
<1>1. n \in Nat
  BY SeqOfElements
<1>2. CASE n = 0
  <2>1. ss = <<>>
    BY <1>2, EmptySeqOf
  <2> QED BY <1>2, <2>1 DEF FlattenSeq
<1>3. CASE n # 0
  <2>1. unjoined = {}
    <3> SUFFICES ASSUME unjoined # {} PROVE FALSE
      OBVIOUS
    <3>1. unjoined \in SUBSET Nat
      <4> HIDE DEF joins
      <4> QED BY <1>1
    <3>2. PICK k \in unjoined : \A l \in unjoined : k <= l
      <4> HIDE DEF unjoined
      <4> QED BY <3>1, MinOfNats
    <3>3. k \in 1 .. n /\ ~ \E f : joins(f, k)
      OBVIOUS
    <3>4. CASE k = 1
      <4> DEFINE g == [i \in 1 .. 1 |-> ss[i]]
      <4>1. joins(g, 1)
        OBVIOUS
      <4> QED BY <3>3, <3>4, <4>1
    <3>5. CASE k # 1
      <4>1. k - 1 \in 1 .. n /\ k - 1 \notin unjoined
        <5>1. k \in Nat /\ k - 1 \in 1 .. n
          BY <1>1, <3>3, <3>5
        <5> HIDE DEF unjoined
        <5> QED BY <3>2, <5>1
      <4>2. PICK f : joins(f, k - 1)
        BY <4>1
      <4> DEFINE g == [i \in 1 .. k |-> IF i = k THEN f[k - 1] \o ss[k] ELSE f[i]]
      <4>3. \A i \in 1 .. k : g[i] = IF i = 1 THEN ss[i] ELSE g[i - 1] \o ss[i]
        <5> SUFFICES ASSUME NEW i \in 1 .. k
                     PROVE  g[i] = IF i = 1 THEN ss[i] ELSE g[i - 1] \o ss[i]
          OBVIOUS
        <5>1. CASE i = k
          <6>1. k - 1 \in 1 .. k /\ k - 1 # k
            BY <1>1, <3>3, <3>5
          <6>2. g[k - 1] = f[k - 1] /\ g[i] = f[k - 1] \o ss[k]
            BY <5>1, <6>1
          <6> HIDE DEF g
          <6> QED BY <3>5, <5>1, <6>2
        <5>2. CASE i # k
          <6>1. i \in 1 .. k - 1 /\ g[i] = f[i]
            BY <1>1, <3>3, <5>2
          <6>2. f[i] = IF i = 1 THEN ss[i] ELSE f[i - 1] \o ss[i]
            BY <4>2, <6>1
          <6>3. i # 1 => i - 1 \in 1 .. k /\ i - 1 # k /\ g[i - 1] = f[i - 1]
            BY <1>1, <3>3, <6>1
          <6> QED BY <6>1, <6>2, <6>3
        <5> QED BY <5>1, <5>2
      <4>4. joins(g, k)
        <5>1. g = [i \in 1 .. k |-> g[i]]
          OBVIOUS
        <5> HIDE DEF g
        <5> QED BY <4>3, <5>1
      <4> QED BY <3>3, <4>4
    <3> QED BY <3>4, <3>5
  <2>2. \E f : joins(f, n)
    <3>1. n \in 1 .. n
      BY <1>1, <1>3
    <3> QED BY <2>1, <3>1
  <2> DEFINE F == CHOOSE f : joins(f, n)
  <2>3. joins(F, n)
    <3> HIDE DEF joins
    <3> QED BY <2>2
  <2>4. FlattenSeq(ss) = F[n]
    BY <1>3 DEF FlattenSeq
  <2> HIDE DEF F
  <2> DEFINE others == {k \in 1 .. n : F[k] \notin Seq(S)}
  <2>5. others = {}
    <3> SUFFICES ASSUME others # {} PROVE FALSE
      OBVIOUS
    <3>1. others \in SUBSET Nat
      BY <1>1
    <3>2. PICK k \in others : \A l \in others : k <= l
      <4> HIDE DEF others
      <4> QED BY <3>1, MinOfNats
    <3>3. k \in 1 .. n /\ F[k] \notin Seq(S) /\ ss[k] \in Seq(S)
      OBVIOUS
    <3>4. F[k] = IF k = 1 THEN ss[k] ELSE F[k - 1] \o ss[k]
      BY <2>3, <3>3
    <3>5. k # 1 /\ k - 1 \in 1 .. n /\ F[k - 1] \in Seq(S)
      <4>1. k # 1
        BY <3>3, <3>4
      <4>2. k - 1 \in 1 .. n /\ k - 1 \notin others
        BY <1>1, <3>2, <3>3, <4>1
      <4> QED BY <4>1, <4>2
    <3>6. F[k] \in Seq(S)
      BY <3>3, <3>4, <3>5, ConcatProperties
    <3> QED BY <3>3, <3>6
  <2> QED BY <1>1, <1>3, <2>4, <2>5
<1> QED BY <1>2, <1>3

\* A frame names a field there is, at its own path; one that collects the
\* elements of a list or a map names a collection somebody provided.
FrameOK(fr, fields, cols) ==
  /\ fr = [step |-> fr.step, f |-> fr.f, path |-> fr.path]
  /\ fr.f \in fields
  /\ IsSeq(fr.path) /\ CanonicalPath(fr.path) = fr.f.path
  /\ fr.step = "allocate" => fr.f.kind = "section"
  /\ fr.step = "collect" =>
       isCollection(fr.f) /\ fr.path \in DOMAIN cols /\ cols[fr.path].provided

FramesOK(frs, fields, cols) ==
  /\ IsSeq(frs)
  /\ \A i \in 1 .. Len(frs) : FrameOK(frs[i], fields, cols)

LEMMA CanonicalAppend ==
  ASSUME NEW p, IsSeq(p), NEW seg
  PROVE  /\ IsSeq(Append(p, seg))
         /\ CanonicalPath(Append(p, seg))
              = Append(CanonicalPath(p), IF IsElem(seg) THEN AnySeg ELSE seg)
<1> DEFINE q == Append(p, seg)
           c == CanonicalPath(p)
           e == IF IsElem(seg) THEN AnySeg ELSE seg
           cq == CanonicalPath(q)
           ce == Append(c, e)
<1>1. /\ IsSeq(q) /\ Len(q) = Len(p) + 1 /\ q[Len(p) + 1] = seg
      /\ \A i \in 1 .. Len(p) : q[i] = p[i]
      /\ DOMAIN q = 1 .. Len(q) /\ Len(p) \in Nat /\ DOMAIN p = 1 .. Len(p)
  BY AppendToSeq, SeqOfElements
<1>2. IsSeq(c) /\ Len(c) = Len(p) /\ \A i \in 1 .. Len(p) : c[i] = IF IsElem(p[i]) THEN AnySeg ELSE p[i]
  <2>1. c = [i \in 1 .. Len(p) |-> IF IsElem(p[i]) THEN AnySeg ELSE p[i]]
    BY <1>1 DEF CanonicalPath
  <2> HIDE DEF c
  <2> QED BY <1>1, <2>1, IsSeqOf
<1>3. IsSeq(cq) /\ Len(cq) = Len(p) + 1
      /\ \A i \in 1 .. Len(p) + 1 : cq[i] = IF IsElem(q[i]) THEN AnySeg ELSE q[i]
  <2>1. cq = [i \in 1 .. Len(p) + 1 |-> IF IsElem(q[i]) THEN AnySeg ELSE q[i]]
    BY <1>1 DEF CanonicalPath
  <2>2. Len(p) + 1 \in Nat
    BY <1>1
  <2> HIDE DEF cq, q
  <2> QED BY <2>1, <2>2, IsSeqOf
<1> HIDE DEF c, e, q, cq
<1>4. /\ IsSeq(ce) /\ Len(ce) = Len(p) + 1 /\ ce[Len(p) + 1] = e
      /\ \A i \in 1 .. Len(p) : ce[i] = c[i]
  BY <1>2, AppendToSeq
<1> HIDE DEF ce
<1>5. \A i \in 1 .. Len(p) + 1 : ce[i] = cq[i]
  <2> SUFFICES ASSUME NEW i \in 1 .. Len(p) + 1 PROVE ce[i] = cq[i]
    OBVIOUS
  <2>1. CASE i = Len(p) + 1
    BY <1>1, <1>3, <1>4, <2>1 DEF e
  <2>2. CASE i # Len(p) + 1
    <3>1. i \in 1 .. Len(p)
      BY <1>1, <2>2
    <3> QED BY <1>1, <1>2, <1>3, <1>4, <3>1
  <2> QED BY <2>1, <2>2
<1>6. ce = cq
  BY <1>3, <1>4, <1>5, SameSeq
<1> QED BY <1>1, <1>6 DEF ce, cq, q, c, e

LEMMA MemberPath ==
  ASSUME NEW base, IsSeq(base), NEW name
  PROVE  /\ IsSeq(Append(base, NameSeg(name)))
         /\ CanonicalPath(Append(base, NameSeg(name))) = Append(CanonicalPath(base), NameSeg(name))
BY CanonicalAppend DEF IsElem, NameSeg

LEMMA ElementsPath ==
  ASSUME NEW base, IsSeq(base), NEW sub
  PROVE  /\ IsSeq(ElementPath(base, sub))
         /\ CanonicalPath(ElementPath(base, sub)) = Append(CanonicalPath(base), AnySeg)
BY CanonicalAppend DEF IsElem, ElementPath, ElemSeg

\* The frames of one level of the description.
LEMMA LevelFrames ==
  ASSUME NEW fields, NEW level, NEW base, NEW cols, IsSeq(base),
         LevelOf(fields, level, CanonicalPath(base))
  PROVE  FramesOK(frames(level, base), fields, cols)
<1> DEFINE frs == frames(level, base)
<1>1. Len(level) \in Nat /\ DOMAIN level = 1 .. Len(level)
  BY SeqOfElements DEF LevelOf
<1>2. frs = [i \in 1 .. Len(level) |->
               [step |-> "field", f |-> level[i], path |-> Append(base, NameSeg(level[i].name))]]
  BY <1>1 DEF frames
<1>3. IsSeq(frs) /\ Len(frs) = Len(level)
  <2> HIDE DEF frs
  <2> QED BY <1>1, <1>2, IsSeqOf
<1>4. ASSUME NEW i \in 1 .. Len(frs) PROVE FrameOK(frs[i], fields, cols)
  <2>1. PICK f : f = level[i]
    OBVIOUS
  <2>2. f \in fields /\ f.path = Append(CanonicalPath(base), NameSeg(f.name))
    BY <1>1, <1>3, <2>1 DEF LevelOf, Range
  <2>3. frs[i] = [step |-> "field", f |-> f, path |-> Append(base, NameSeg(f.name))]
    BY <1>2, <1>3, <2>1
  <2>4. /\ IsSeq(Append(base, NameSeg(f.name)))
        /\ CanonicalPath(Append(base, NameSeg(f.name))) = Append(CanonicalPath(base), NameSeg(f.name))
    BY MemberPath
  <2> DEFINE fr == [step |-> "field", f |-> f, path |-> Append(base, NameSeg(f.name))]
  <2>5. FrameOK(fr, fields, cols)
    BY <2>2, <2>4 DEF FrameOK
  <2> HIDE DEF frs, fr
  <2> QED BY <2>3, <2>5 DEF fr
<1> QED BY <1>3, <1>4 DEF FramesOK

LEMMA FramesConcat ==
  ASSUME NEW s, NEW t, NEW fields, NEW cols, FramesOK(s, fields, cols), FramesOK(t, fields, cols)
  PROVE  FramesOK(s \o t, fields, cols)
<1>1. /\ IsSeq(s \o t) /\ Len(s \o t) = Len(s) + Len(t)
      /\ \A i \in 1 .. Len(s) : (s \o t)[i] = s[i]
      /\ \A i \in 1 .. Len(t) : (s \o t)[Len(s) + i] = t[i]
  BY ConcatOfSeqs DEF FramesOK
<1>2. Len(s) \in Nat /\ Len(t) \in Nat
  BY SeqOfElements DEF FramesOK
<1>3. ASSUME NEW i \in 1 .. Len(s) + Len(t) PROVE FrameOK((s \o t)[i], fields, cols)
  <2>1. CASE i \in 1 .. Len(s)
    BY <1>1, <2>1 DEF FramesOK
  <2>2. CASE i \notin 1 .. Len(s)
    <3>1. i - Len(s) \in 1 .. Len(t) /\ Len(s) + (i - Len(s)) = i
      BY <1>2, <2>2
    <3>2. (s \o t)[i] = t[i - Len(s)]
      BY <1>1, <3>1
    <3> QED BY <3>1, <3>2 DEF FramesOK
  <2> QED BY <2>1, <2>2
<1> QED BY <1>1, <1>3 DEF FramesOK

LEMMA FramesLeft ==
  ASSUME NEW frs, NEW fields, NEW cols, FramesOK(frs, fields, cols), frs # <<>>
  PROVE  FrameOK(Head(frs), fields, cols) /\ FramesOK(Tail(frs), fields, cols)
<1>1. /\ Len(frs) \in Nat \ {0} /\ Head(frs) = frs[1]
      /\ IsSeq(Tail(frs)) /\ Len(Tail(frs)) = Len(frs) - 1
      /\ \A i \in 1 .. Len(frs) - 1 : Tail(frs)[i] = frs[i + 1]
  BY TailOfSeq DEF FramesOK
<1>2. 1 \in 1 .. Len(frs) /\ \A i \in 1 .. Len(frs) - 1 : i + 1 \in 1 .. Len(frs)
  BY <1>1
<1> QED BY <1>1, <1>2 DEF FramesOK

LEMMA FramesAppend ==
  ASSUME NEW frs, NEW fr, NEW fields, NEW cols, FramesOK(frs, fields, cols), FrameOK(fr, fields, cols)
  PROVE  FramesOK(Append(frs, fr), fields, cols) /\ FramesOK(<<fr>>, fields, cols)
<1>1. FramesOK(Append(frs, fr), fields, cols)
  <2>1. /\ IsSeq(Append(frs, fr)) /\ Len(Append(frs, fr)) = Len(frs) + 1
        /\ \A i \in 1 .. Len(frs) : Append(frs, fr)[i] = frs[i]
        /\ Append(frs, fr)[Len(frs) + 1] = fr /\ Len(frs) \in Nat
    BY AppendToSeq, SeqOfElements DEF FramesOK
  <2>2. \A i \in 1 .. Len(frs) + 1 : i \in 1 .. Len(frs) \/ i = Len(frs) + 1
    BY <2>1
  <2> QED BY <2>1, <2>2 DEF FramesOK
<1>2. FramesOK(<<fr>>, fields, cols)
  <2>1. IsSeq(<<fr>>) /\ Len(<<fr>>) = 1 /\ <<fr>>[1] = fr
    BY DEF IsSeq
  <2> QED BY <2>1 DEF FramesOK
<1> QED BY <1>1, <1>2

\* The frames of a list's elements, one level each.
LEMMA ElementFrames ==
  ASSUME NEW fields, NEW level, NEW path, NEW order, NEW cols, IsSeq(path), IsSeq(order),
         LevelOf(fields, level, Append(CanonicalPath(path), AnySeg))
  PROVE  FramesOK(FlattenSeq([i \in DOMAIN order |-> frames(level, ElementPath(path, order[i]))]),
                  fields, cols)
<1> DEFINE ss == [i \in DOMAIN order |-> frames(level, ElementPath(path, order[i]))]
           S  == UNION {{ss[i][j] : j \in 1 .. Len(ss[i])} : i \in 1 .. Len(order)}
<1>1. Len(order) \in Nat /\ DOMAIN order = 1 .. Len(order)
  BY SeqOfElements
<1>2. IsSeq(ss) /\ Len(ss) = Len(order)
  <2>1. ss = [i \in 1 .. Len(order) |-> frames(level, ElementPath(path, order[i]))]
    BY <1>1
  <2> HIDE DEF ss
  <2> QED BY <1>1, <2>1, IsSeqOf
<1>3. ASSUME NEW i \in 1 .. Len(order) PROVE FramesOK(ss[i], fields, cols)
  <2>1. PICK base : base = ElementPath(path, order[i])
    OBVIOUS
  <2>2. IsSeq(base) /\ CanonicalPath(base) = Append(CanonicalPath(path), AnySeg)
    BY <2>1, ElementsPath
  <2>3. FramesOK(frames(level, base), fields, cols)
    BY <2>2, LevelFrames
  <2>4. ss[i] = frames(level, base)
    BY <1>1, <2>1
  <2> HIDE DEF ss
  <2> QED BY <2>3, <2>4
<1> HIDE DEF ss
<1>4. ASSUME NEW i \in 1 .. Len(order) PROVE ss[i] \in Seq(S)
  <2> DEFINE T == {ss[i][j] : j \in 1 .. Len(ss[i])}
  <2>1. ss[i] \in Seq(T)
    BY <1>3, SeqOfElements DEF FramesOK
  <2>2. T \subseteq S
    OBVIOUS
  <2> HIDE DEF S, T
  <2> QED BY <2>1, <2>2, SeqMonotonic
<1>5. \A fr \in S : FrameOK(fr, fields, cols)
  BY <1>3 DEF FramesOK
<1> HIDE DEF S
<1>6. FlattenSeq(ss) \in Seq(S)
  BY <1>2, <1>4, FlattenedSeq
<1> DEFINE frs == FlattenSeq(ss)
<1>7. IsSeq(frs) /\ \A i \in 1 .. Len(frs) : frs[i] \in S
  <2> HIDE DEF frs
  <2>1. frs \in Seq(S)
    BY <1>6 DEF frs
  <2> QED BY <2>1, SeqIsSeq, ElementOfSeq
<1>8. FramesOK(frs, fields, cols)
  BY <1>5, <1>7 DEF FramesOK
<1> QED BY <1>8 DEF ss

------------------------------------------------------------------------------
(* What a former path had goes to the current one.                         *)

LEMMA RestOf ==
  ASSUME NEW p, IsSeq(p), NEW n \in 0 .. Len(p)
  PROVE  LET r == SubSeq(p, n + 1, Len(p))
         IN IsSeq(r) /\ Len(r) = Len(p) - n /\ \A i \in 1 .. Len(p) - n : r[i] = p[n + i]
<1> DEFINE S == {p[i] : i \in 1 .. Len(p)}
           r == SubSeq(p, n + 1, Len(p))
<1>1. Len(p) \in Nat /\ n \in Nat /\ n <= Len(p)
  BY SeqOfElements
<1>2. \A i \in n + 1 .. Len(p) : p[i] \in S
  BY <1>1
<1> HIDE DEF S
<1>3. /\ r \in Seq(S) /\ Len(r) = IF n + 1 <= Len(p) THEN Len(p) - (n + 1) + 1 ELSE 0
      /\ \A i \in 1 .. Len(p) - (n + 1) + 1 : r[i] = p[n + 1 + i - 1]
  BY <1>1, <1>2, SubSeqProperties
<1> HIDE DEF r
<1>4. Len(r) = Len(p) - n /\ \A i \in 1 .. Len(p) - n : r[i] = p[n + i]
  BY <1>1, <1>3
<1>5. IsSeq(r)
  BY <1>3, SeqIsSeq
<1> QED BY <1>4, <1>5 DEF r

\* At a path, or inside the object at it.
Under(from, p) == p = from \/ Inside(from, p)

LEMMA UnderIsPrefix ==
  ASSUME NEW from, NEW p, IsSeq(from), IsSeq(p), Under(from, p)
  PROVE  /\ IsPrefix(from, p) /\ Len(from) \in 0 .. Len(p)
         /\ \A i \in 1 .. Len(from) : p[i] = from[i]
<1>1. Len(from) \in Nat /\ Len(p) \in Nat
  BY SeqOfElements
<1>2. IsPrefix(from, p)
  BY DEF Under, Inside, IsStrictPrefix, IsPrefix
<1>3. Len(from) <= Len(p) /\ from = SubSeq(p, 1, Len(from))
  BY <1>2, PrefixIsHead
<1>4. \A i \in 1 .. Len(from) : SubSeq(p, 1, Len(from))[i] = p[i]
  BY <1>1, <1>3, HeadOf
<1> QED BY <1>1, <1>2, <1>3, <1>4

\* Moving there and back again.
LEMMA ReRooted ==
  ASSUME NEW p, NEW from, NEW to, IsSeq(p), IsSeq(from), IsSeq(to), Under(from, p)
  PROVE  LET q == ReRoot(p, from, to)
         IN IsSeq(q) /\ Under(to, q) /\ ReRoot(q, to, from) = p
<1> DEFINE rest == SubSeq(p, Len(from) + 1, Len(p))
           q    == to \o rest
           back == SubSeq(q, Len(to) + 1, Len(q))
           m    == Len(p) - Len(from)
<1>1. /\ Len(p) \in Nat /\ Len(to) \in Nat /\ Len(from) \in 0 .. Len(p)
      /\ \A i \in 1 .. Len(from) : p[i] = from[i]
  BY UnderIsPrefix, SeqOfElements
<1>2. IsSeq(rest) /\ Len(rest) = m /\ \A i \in 1 .. m : rest[i] = p[Len(from) + i]
  BY <1>1, RestOf
<1> HIDE DEF rest
<1>3. /\ IsSeq(q) /\ Len(q) = Len(to) + m
      /\ \A i \in 1 .. Len(to) : q[i] = to[i]
      /\ \A i \in 1 .. m : q[Len(to) + i] = rest[i]
  <2>1. /\ IsSeq(to \o rest) /\ Len(to \o rest) = Len(to) + Len(rest)
        /\ \A i \in 1 .. Len(to) : (to \o rest)[i] = to[i]
        /\ \A i \in 1 .. Len(rest) : (to \o rest)[Len(to) + i] = rest[i]
    <3> HIDE DEF q, back, m
    <3>1. IsSeq(rest)
      BY <1>2
    <3> QED BY <3>1, ConcatOfSeqs
  <2>2. q = to \o rest
    OBVIOUS
  <2> HIDE DEF q
  <2> QED BY <1>2, <2>1, <2>2
<1>4. Len(to) \in 0 .. Len(q) /\ Len(q) - Len(to) = m
  BY <1>1, <1>3
<1> HIDE DEF q
<1>5. IsSeq(back) /\ Len(back) = m /\ \A i \in 1 .. m : back[i] = q[Len(to) + i]
  <2> HIDE DEF m
  <2>1. PICK n \in 0 .. Len(q) : n = Len(to) /\ Len(q) - n = m
    BY <1>4
  <2>2. LET r == SubSeq(q, n + 1, Len(q))
        IN IsSeq(r) /\ Len(r) = Len(q) - n /\ \A i \in 1 .. Len(q) - n : r[i] = q[n + i]
    BY <1>3, RestOf
  <2> QED BY <2>1, <2>2
<1> HIDE DEF back
<1>6. back = rest
  BY <1>2, <1>3, <1>5, SameSeq
<1>7. from \o rest = p
  <2>1. /\ IsSeq(from \o rest) /\ Len(from \o rest) = Len(from) + m
        /\ \A i \in 1 .. Len(from) : (from \o rest)[i] = from[i]
        /\ \A i \in 1 .. m : (from \o rest)[Len(from) + i] = rest[i]
    BY <1>2, ConcatOfSeqs
  <2>2. Len(from) + m = Len(p)
    BY <1>1
  <2>3. \A i \in 1 .. Len(p) : (from \o rest)[i] = p[i]
    <3> SUFFICES ASSUME NEW i \in 1 .. Len(p) PROVE (from \o rest)[i] = p[i]
      OBVIOUS
    <3>1. CASE i \in 1 .. Len(from)
      BY <1>1, <2>1, <3>1
    <3>2. CASE i \notin 1 .. Len(from)
      <4>1. PICK j \in 1 .. m : i = Len(from) + j
        <5>1. i - Len(from) \in 1 .. m /\ i = Len(from) + (i - Len(from))
          BY <1>1, <3>2
        <5> QED BY <5>1
      <4> QED BY <1>2, <2>1, <4>1
    <3> QED BY <3>1, <3>2
  <2> QED BY <2>1, <2>2, <2>3, SameSeq
<1>8. Under(to, q)
  <2>1. CASE p = from
    <3>1. m = 0
      BY <1>1, <2>1
    <3>2. Len(q) = Len(to) /\ \A i \in 1 .. Len(to) : q[i] = to[i]
      BY <1>1, <1>3, <3>1
    <3> QED BY <1>3, <3>2, SameSeq DEF Under
  <2>2. CASE Inside(from, p)
    <3>1. p # from /\ p[Len(from) + 1][1] = "name"
      BY <2>2 DEF Inside, IsStrictPrefix
    <3>2. m # 0
      <4>1. CASE m = 0
        <5>1. Len(from) = Len(p)
          BY <1>1, <4>1
        <5> QED BY <1>1, <3>1, <5>1, SameSeq
      <4> QED BY <4>1
    <3>3. 1 \in 1 .. m
      BY <1>1, <3>2
    <3>4. q[Len(to) + 1][1] = "name"
      BY <1>2, <1>3, <3>1, <3>3
    <3>5. Len(to) < Len(q)
      BY <1>1, <1>3, <3>2
    <3>6. SubSeq(q, 1, Len(to)) = to
      <4>1. /\ IsSeq(SubSeq(q, 1, Len(to))) /\ Len(SubSeq(q, 1, Len(to))) = Len(to)
            /\ \A i \in 1 .. Len(to) : SubSeq(q, 1, Len(to))[i] = q[i]
        BY <1>3, <1>4, HeadOf
      <4>2. \A i \in 1 .. Len(to) : SubSeq(q, 1, Len(to))[i] = to[i]
        BY <1>3, <4>1
      <4> QED BY <4>1, <4>2, SameSeq
    <3>7. Len(to) <= Len(q) /\ to # q
      BY <1>1, <1>3, <3>5
    <3>8. IsPrefix(to, q)
      BY <1>3, <3>6, <3>7, PrefixIsHead
    <3> QED BY <3>4, <3>7, <3>8 DEF Under, Inside, IsStrictPrefix
  <2> QED BY <2>1, <2>2 DEF Under
<1>9. ReRoot(p, from, to) = q /\ ReRoot(q, to, from) = from \o back
  BY DEF ReRoot, rest, q, back
<1> QED BY <1>3, <1>6, <1>7, <1>8, <1>9

\* What is found under the current path is its own, or what was moved there.
LEMMA ValuesRedirected ==
  ASSUME NEW vals, \A p \in DOMAIN vals : IsSeq(p),
         NEW from, NEW to, IsSeq(from), IsSeq(to),
         NEW q \in DOMAIN reRootValues(vals, from, to)
  PROVE  LET new == reRootValues(vals, from, to)[q]
         IN \/ q \in DOMAIN vals /\ new = vals[q]
            \/ \E p \in DOMAIN vals :
                 /\ vals[p].set /\ Under(from, p)
                 /\ Under(to, q) /\ IsSeq(q) /\ ReRoot(q, to, from) = p
                 /\ new = merged(vals[p].value, vals[p].origin)
<1> DEFINE moved == setUnder(vals, from)
           there == {ReRoot(p, from, to) : p \in moved}
           near  == [x \in there |-> LET p == ReRoot(x, to, from)
                                     IN merged(vals[p].value, vals[p].origin)]
           rest  == Without(vals, moved)
<1>1. reRootValues(vals, from, to) = upon(rest, near)
  BY DEF reRootValues
<1>2. DOMAIN near = there
  OBVIOUS
<1>3. CASE q \in there
  <2>1. PICK p \in DOMAIN vals : q = ReRoot(p, from, to) /\ vals[p].set /\ Under(from, p)
    BY <1>3 DEF setUnder, Under
  <2>2. IsSeq(q) /\ Under(to, q) /\ ReRoot(q, to, from) = p
    BY <2>1, ReRooted
  <2>3. near[q] = merged(vals[p].value, vals[p].origin)
    BY <1>3, <2>2
  <2> HIDE DEF near, rest, there
  <2>4. upon(rest, near)[q] = near[q]
    BY <1>2, <1>3 DEF upon
  <2> QED BY <1>1, <2>1, <2>2, <2>3, <2>4
<1>4. CASE q \notin there
  <2>1. q \in DOMAIN upon(rest, near)
    BY <1>1
  <2> HIDE DEF near, rest, there
  <2>2. q \in DOMAIN rest /\ upon(rest, near)[q] = rest[q]
    BY <1>2, <1>4, <2>1 DEF upon
  <2>3. q \in DOMAIN vals /\ rest[q] = vals[q]
    BY <2>2 DEF rest, Without, Restrict
  <2> QED BY <1>1, <2>2, <2>3
<1> QED BY <1>3, <1>4

LEMMA CollectionsRedirected ==
  ASSUME NEW cols, \A c \in DOMAIN cols : IsSeq(c),
         NEW from, NEW to, IsSeq(from), IsSeq(to),
         NEW q \in DOMAIN reRootCollections(cols, from, to)
  PROVE  LET new == reRootCollections(cols, from, to)[q]
         IN \/ q \in DOMAIN cols /\ new = cols[q]
            \/ \E c \in DOMAIN cols :
                 /\ Under(from, c)
                 /\ Under(to, q) /\ IsSeq(q) /\ ReRoot(q, to, from) = c
                 /\ new = cols[c]
<1> DEFINE moved == {c \in DOMAIN cols : c = from \/ Inside(from, c)}
           there == {ReRoot(c, from, to) : c \in moved}
           near  == [x \in there |-> cols[ReRoot(x, to, from)]]
           rest  == Without(cols, moved)
<1>1. reRootCollections(cols, from, to) = upon(rest, near)
  BY DEF reRootCollections
<1>2. DOMAIN near = there
  OBVIOUS
<1>3. CASE q \in there
  <2>1. PICK c \in DOMAIN cols : q = ReRoot(c, from, to) /\ Under(from, c)
    BY <1>3 DEF Under
  <2>2. IsSeq(q) /\ Under(to, q) /\ ReRoot(q, to, from) = c
    BY <2>1, ReRooted
  <2>3. near[q] = cols[c]
    BY <1>3, <2>2
  <2> HIDE DEF near, rest, there
  <2>4. upon(rest, near)[q] = near[q]
    BY <1>2, <1>3 DEF upon
  <2> QED BY <1>1, <2>1, <2>2, <2>3, <2>4
<1>4. CASE q \notin there
  <2>1. q \in DOMAIN upon(rest, near)
    BY <1>1
  <2> HIDE DEF near, rest, there
  <2>2. q \in DOMAIN rest /\ upon(rest, near)[q] = rest[q]
    BY <1>2, <1>4, <2>1 DEF upon
  <2>3. q \in DOMAIN cols /\ rest[q] = cols[q]
    BY <2>2 DEF rest, Without, Restrict
  <2> QED BY <1>1, <2>2, <2>3
<1> QED BY <1>3, <1>4

------------------------------------------------------------------------------
(* The fields materialize comes to.                                        *)

\* What is still to run stays well formed.
LEMMA FramesNext ==
  ASSUME NEW fields, DescribedBy(fields), TypeOK, FramesOK(todo, fields, collections),
         UNCHANGED collections, todo # <<>>,
         \/ skipMoved \/ materializeLeaf \/ materializeObject \/ materializeShorthand
         \/ materializeOptionalObject \/ allocateSection \/ materializeCollection
         \/ collectElements \/ materializeUnion
  PROVE  FramesOK(todo, fields, collections)'
<1>1. FrameOK(top, fields, collections) /\ FramesOK(Tail(todo), fields, collections)
  BY FramesLeft DEF top
<1>2. fld \in fields /\ IsSeq(at) /\ CanonicalPath(at) = fld.path
  BY <1>1 DEF FrameOK, fld, at
<1>3. ASSUME Pop PROVE FramesOK(todo, fields, collections)'
  BY <1>1, <1>3 DEF Pop
<1>4. ASSUME NEW s, Descend(s), FramesOK(s, fields, collections)
      PROVE  FramesOK(todo, fields, collections)'
  <2>1. FramesOK(s \o Tail(todo), fields, collections)
    BY <1>1, <1>4, FramesConcat
  <2> QED BY <1>4, <2>1 DEF Descend
<1>5. CASE \/ skipMoved \/ materializeLeaf \/ materializeShorthand
           \/ allocateSection \/ collectElements
  BY <1>3, <1>5 DEF skipMoved, materializeLeaf, materializeShorthand, allocateSection, collectElements
<1>6. ASSUME ~Moved(fld), fld.kind \in {"object", "group", "section"}
      PROVE  FramesOK(frames(fld.members, at), fields, collections)
  <2>1. LevelOf(fields, fld.members, below(fld, fld.path))
    BY <1>2, <1>6 DEF DescribedBy
  <2>2. below(fld, fld.path) = CanonicalPath(at)
    BY <1>2, <1>6 DEF below, isCollection
  <2> QED BY <1>2, <2>1, <2>2, LevelFrames
<1>7. CASE materializeObject
  BY <1>4, <1>6, <1>7 DEF materializeObject, AtField
<1>8. CASE materializeOptionalObject
  <2>1. FramesOK(frames(fld.members, at), fields, collections) /\ fld.kind = "section"
    BY <1>6, <1>8 DEF materializeOptionalObject, AtField
  <2>2. FrameOK([top EXCEPT !.step = "allocate"], fields, collections)
    <3>1. top = [step |-> top.step, f |-> fld, path |-> at]
      BY <1>1 DEF FrameOK, fld, at
    <3>2. [top EXCEPT !.step = "allocate"] = [step |-> "allocate", f |-> fld, path |-> at]
      BY <3>1
    <3>3. FrameOK([step |-> "allocate", f |-> fld, path |-> at], fields, collections)
      BY <1>2, <2>1 DEF FrameOK
    <3> QED BY <3>2, <3>3
  <2> DEFINE s == Append(frames(fld.members, at), [top EXCEPT !.step = "allocate"])
  <2>3. FramesOK(s, fields, collections)
    BY <2>1, <2>2, FramesAppend
  <2>4. Descend(s) \/ Pop
    BY <1>8 DEF materializeOptionalObject
  <2> HIDE DEF s
  <2> QED BY <1>3, <1>4, <2>3, <2>4
<1>9. CASE materializeCollection
  <2>1. isCollection(fld) /\ ~Moved(fld)
    BY <1>9 DEF materializeCollection, AtField
  <2>2. CASE ~(at \in DOMAIN collections /\ collections[at].provided)
    BY <1>3, <1>9, <2>2 DEF materializeCollection
  <2>3. CASE at \in DOMAIN collections /\ collections[at].provided
    <3> DEFINE order == collections[at].order
               ss == FlattenSeq([i \in DOMAIN order |-> frames(fld.members, ElementPath(at, order[i]))])
               end == [top EXCEPT !.step = "collect"]
    <3>1. Descend(ss \o <<end>>)
      BY <1>9, <2>3 DEF materializeCollection
    <3> HIDE DEF ss, end
    <3>2. FramesOK(<<end>>, fields, collections)
      <4>1. top = [step |-> top.step, f |-> fld, path |-> at]
        BY <1>1 DEF FrameOK, fld, at
      <4>2. end = [step |-> "collect", f |-> fld, path |-> at]
        BY <4>1 DEF end
      <4>3. FrameOK(end, fields, collections)
        BY <1>2, <2>1, <2>3, <4>2 DEF FrameOK
      <4> QED BY <1>1, <4>3, FramesAppend
    <3>3. FramesOK(ss, fields, collections)
      <4>1. LevelOf(fields, fld.members, Append(CanonicalPath(at), AnySeg))
        BY <1>2, <2>1 DEF DescribedBy, below
      <4>2. IsSeq(order)
        BY <2>3 DEF TypeOK, CollectionOK
      <4> QED BY <1>2, <4>1, <4>2, ElementFrames DEF ss
    <3>4. FramesOK(ss \o <<end>>, fields, collections)
      BY <3>2, <3>3, FramesConcat
    <3> QED BY <1>4, <3>1, <3>4
  <2> QED BY <2>2, <2>3
<1>10. CASE materializeUnion
  <2> DEFINE tagPath  == Append(at, NameSeg(fld.tag))
             selected == {v \in DOMAIN fld.variants : Scalar(fld.variants[v].tag) = values[tagPath].value}
             chosen   == Min(selected)
  <2>1. ~Moved(fld)
    BY <1>10 DEF materializeUnion, AtField
  <2>2. Pop \/ (selected # {} /\ Descend(frames(fld.variants[chosen].members, at)))
    BY <1>10 DEF materializeUnion
  <2>3. ASSUME selected # {} PROVE FramesOK(frames(fld.variants[chosen].members, at), fields, collections)
    <3>1. chosen \in selected
      <4>1. DOMAIN fld.variants = 1 .. Len(fld.variants) /\ Len(fld.variants) \in Nat
        BY <1>2, <2>1, SeqOfElements DEF DescribedBy
      <4>2. selected \in SUBSET Nat
        BY <4>1
      <4> HIDE DEF selected
      <4> QED BY <2>3, <4>2, MinOfNats
    <3>2. LevelOf(fields, fld.variants[chosen].members, CanonicalPath(at))
      BY <1>2, <2>1, <3>1 DEF DescribedBy
    <3> HIDE DEF chosen
    <3> QED BY <1>2, <3>2, LevelFrames
  <2> HIDE DEF selected, chosen
  <2> QED BY <1>3, <1>4, <2>2, <2>3
<1> QED BY <1>5, <1>7, <1>8, <1>9, <1>10

------------------------------------------------------------------------------
(* The records the layers left, until the configuration is returned.       *)

RecordsOK == TypeOK /\ KeysOK /\ redirected \in Nat

\* No layer is added after the last, so the records need only stay well formed.
LEMMA RecordsKept ==
  ASSUME TypeOK, UNCHANGED <<sources, folded, resolved>>,
         \A p \in DOMAIN values' : MergedOK(values'[p], Origin),
         \A c \in DOMAIN collections' : CollectionOK(collections'[c], Origin),
         \A p \in DOMAIN erased' : erased'[p] \in 1 .. Origin
  PROVE  TypeOK'
<1>1. /\ Origin' = Origin /\ Folding' = Folding
      /\ current' = current /\ Layer(Origin)' = Layer(Origin)
  BY DEF Origin, Folding, current, Layer
<1> QED BY <1>1 DEF TypeOK

\* The shadow applyMoved is at: two paths, of which the first is a former one.
LEMMA ShadowAt ==
  ASSUME redirected \in Nat, redirected < Len(Shadows)
  PROVE  shadow \in Range(Shadows) /\ IsSeq(shadow.path) /\ IsSeq(shadow.movedTo)
<1>1. DOMAIN Shadows = 1 .. Len(Shadows) /\ Len(Shadows) \in Nat
  BY ShadowsOK, SeqOfElements
<1>2. redirected + 1 \in DOMAIN Shadows
  BY <1>1
<1> QED BY <1>2, ShadowsOK DEF shadow, Range

\* What applyMoved leaves at a path was there, or at the former one.
LEMMA MovedWhole ==
  ASSUME RecordsOK, applyMoved
  PROVE  /\ \A q \in DOMAIN values' :
              \/ q \in DOMAIN values /\ values'[q] = values[q]
              \/ \E p \in DOMAIN values :
                   /\ values[p].set /\ Under(shadow.path, p)
                   /\ Under(shadow.movedTo, q) /\ IsSeq(q)
                   /\ ReRoot(q, shadow.movedTo, shadow.path) = p
                   /\ values'[q] = merged(values[p].value, values[p].origin)
         /\ \A q \in DOMAIN collections' :
              \/ q \in DOMAIN collections /\ collections'[q] = collections[q]
              \/ \E c \in DOMAIN collections :
                   /\ Under(shadow.path, c)
                   /\ Under(shadow.movedTo, q) /\ IsSeq(q)
                   /\ ReRoot(q, shadow.movedTo, shadow.path) = c
                   /\ collections'[q] = collections[c]
<1>1. PICK from, to : from = shadow.path /\ to = shadow.movedTo
  OBVIOUS
<1>2. IsSeq(from) /\ IsSeq(to)
  BY <1>1, ShadowAt DEF RecordsOK, applyMoved
<1>3. \/ values' = reRootValues(values, from, to)
         /\ collections' = reRootCollections(collections, from, to)
      \/ UNCHANGED <<values, collections>>
  BY <1>1 DEF applyMoved
<1>4. CASE UNCHANGED <<values, collections>>
  BY <1>4
<1>5. CASE values' = reRootValues(values, from, to)
           /\ collections' = reRootCollections(collections, from, to)
  <2>1. PICK vals, cols : vals = values /\ cols = collections
    OBVIOUS
  <2>2. (\A p \in DOMAIN vals : IsSeq(p)) /\ (\A c \in DOMAIN cols : IsSeq(c))
    BY <2>1 DEF RecordsOK, KeysOK
  <2>3. ASSUME NEW q \in DOMAIN reRootValues(vals, from, to)
        PROVE  LET new == reRootValues(vals, from, to)[q]
               IN \/ q \in DOMAIN vals /\ new = vals[q]
                  \/ \E p \in DOMAIN vals :
                       /\ vals[p].set /\ Under(from, p)
                       /\ Under(to, q) /\ IsSeq(q) /\ ReRoot(q, to, from) = p
                       /\ new = merged(vals[p].value, vals[p].origin)
    BY <1>2, <2>2, ValuesRedirected
  <2>4. ASSUME NEW q \in DOMAIN reRootCollections(cols, from, to)
        PROVE  LET new == reRootCollections(cols, from, to)[q]
               IN \/ q \in DOMAIN cols /\ new = cols[q]
                  \/ \E c \in DOMAIN cols :
                       /\ Under(from, c)
                       /\ Under(to, q) /\ IsSeq(q) /\ ReRoot(q, to, from) = c
                       /\ new = cols[c]
    BY <1>2, <2>2, CollectionsRedirected
  <2> QED BY <1>1, <1>5, <2>1, <2>3, <2>4
<1> QED BY <1>3, <1>4, <1>5

\* The erasures the report names are the elements', the values' and the collections'.
LEMMA Erasures ==
  ASSUME NEW p \in DOMAIN erasures
  PROVE  \/ p \in DOMAIN erased /\ erasures[p] = erased[p]
         \/ p \in DOMAIN values /\ values[p].erased # 0 /\ erasures[p] = values[p].erased
         \/ p \in DOMAIN collections /\ collections[p].erased # 0
            /\ erasures[p] = collections[p].erased
<1> DEFINE lost  == [q \in {r \in DOMAIN values : values[r].erased # 0} |-> values[q].erased]
           whole == [c \in {d \in DOMAIN collections : collections[d].erased # 0} |->
                       collections[c].erased]
           most  == upon(erased, lost)
<1>1. erasures = upon(most, whole)
  BY DEF erasures
<1>2. CASE p \in DOMAIN whole
  <2>1. whole[p] = collections[p].erased /\ p \in DOMAIN collections /\ collections[p].erased # 0
    BY <1>2
  <2> HIDE DEF whole, most
  <2>2. upon(most, whole)[p] = whole[p]
    BY <1>2 DEF upon
  <2> QED BY <1>1, <2>1, <2>2
<1>3. CASE p \notin DOMAIN whole
  <2> HIDE DEF whole
  <2>1. p \in DOMAIN most /\ erasures[p] = most[p]
    <3> HIDE DEF most
    <3> QED BY <1>1, <1>3 DEF upon
  <2>2. CASE p \in DOMAIN lost
    <3>1. lost[p] = values[p].erased /\ p \in DOMAIN values /\ values[p].erased # 0
      BY <2>2
    <3> HIDE DEF lost
    <3>2. most[p] = lost[p]
      BY <2>2 DEF upon
    <3> QED BY <2>1, <3>1, <3>2
  <2>3. CASE p \notin DOMAIN lost
    <3> HIDE DEF lost
    <3> QED BY <2>1, <2>3 DEF upon
  <2> QED BY <2>2, <2>3
<1> QED BY <1>2, <1>3

LEMMA RecordsNext ==
  ASSUME RecordsOK, [ResolveNext]_vars PROVE RecordsOK'
<1>1. CASE foldLayers
  <2>1. TypeOK' /\ KeysOK'
    BY <1>1, TypeNext, KeysNext DEF foldLayers, RecordsOK
  <2> QED BY <1>1, <2>1 DEF foldLayers, RecordsOK
<1>2. CASE applyMoved
  <2>1. /\ UNCHANGED <<sources, folded, resolved, erased>> /\ redirected' = redirected + 1
        /\ redirected \in Nat /\ TypeOK /\ KeysOK
    BY <1>2 DEF applyMoved, RecordsOK
  <2>2. ASSUME NEW q \in DOMAIN values' PROVE IsSeq(q) /\ MergedOK(values'[q], Origin)
    <3>1. CASE q \in DOMAIN values /\ values'[q] = values[q]
      BY <2>1, <3>1 DEF TypeOK, KeysOK
    <3>2. ASSUME NEW p \in DOMAIN values, values[p].set,
                 values'[q] = merged(values[p].value, values[p].origin)
          PROVE  MergedOK(values'[q], Origin)
      <4>1. MergedOK(values[p], Origin) /\ Origin \in Nat
        BY <2>1, LenProperties DEF TypeOK, Origin
      <4>2. values[p].origin \in 0 .. Origin /\ values[p].origin # 0
        BY <3>2, <4>1 DEF MergedOK
      <4>3. PICK v, o : v = values[p].value /\ o = values[p].origin
        OBVIOUS
      <4>4. MergedOK(merged(v, o), Origin)
        BY <4>1, <4>2, <4>3 DEF MergedOK, merged
      <4> QED BY <3>2, <4>3, <4>4
    <3> QED BY <1>2, <3>1, <3>2, MovedWhole
  <2>3. ASSUME NEW q \in DOMAIN collections'
        PROVE  IsSeq(q) /\ CollectionOK(collections'[q], Origin)
    <3>1. \/ q \in DOMAIN collections /\ collections'[q] = collections[q]
          \/ IsSeq(q) /\ \E c \in DOMAIN collections : collections'[q] = collections[c]
      BY <1>2, MovedWhole
    <3> QED BY <2>1, <3>1 DEF TypeOK, KeysOK
  <2>4. TypeOK'
    BY <2>1, <2>2, <2>3, RecordsKept DEF TypeOK
  <2> QED BY <2>1, <2>2, <2>3, <2>4 DEF RecordsOK, KeysOK
<1>3. CASE startMaterialize
  <2>1. /\ UNCHANGED <<values, collections, sources, folded, resolved, redirected>>
        /\ erased' \in {erased, erasures} /\ redirected \in Nat /\ TypeOK /\ KeysOK
    BY <1>3 DEF startMaterialize, RecordsOK
  <2>2. ASSUME NEW p \in DOMAIN erasures PROVE erasures[p] \in 1 .. Origin
    <3>1. Origin \in Nat
      BY <2>1, LenProperties DEF TypeOK, Origin
    <3>2. CASE p \in DOMAIN erased /\ erasures[p] = erased[p]
      BY <2>1, <3>2 DEF TypeOK
    <3>3. CASE p \in DOMAIN values /\ values[p].erased # 0 /\ erasures[p] = values[p].erased
      <4>1. MergedOK(values[p], Origin)
        BY <2>1, <3>3 DEF TypeOK
      <4>2. values[p].erased \in 0 .. Origin
        BY <4>1 DEF MergedOK
      <4> QED BY <3>1, <3>3, <4>2
    <3>4. CASE p \in DOMAIN collections /\ collections[p].erased # 0
               /\ erasures[p] = collections[p].erased
      <4>1. CollectionOK(collections[p], Origin)
        BY <2>1, <3>4 DEF TypeOK
      <4>2. collections[p].erased \in 0 .. Origin
        BY <4>1 DEF CollectionOK
      <4> QED BY <3>1, <3>4, <4>2
    <3> QED BY <3>2, <3>3, <3>4, Erasures
  <2>3. \A p \in DOMAIN erased' : erased'[p] \in 1 .. Origin
    BY <2>1, <2>2 DEF TypeOK
  <2>4. TypeOK'
    BY <2>1, <2>3, RecordsKept DEF TypeOK
  <2> QED BY <2>1, <2>4 DEF RecordsOK, KeysOK
<1>4. ASSUME UNCHANGED <<values, collections, sources, folded, resolved, erased, redirected>>
      PROVE  RecordsOK'
  <2>1. TypeOK'
    BY <1>4, RecordsKept DEF RecordsOK, TypeOK
  <2> QED BY <1>4, <2>1 DEF RecordsOK, KeysOK
<1>5. CASE loadFails \/ allFolded \/ materialized \/ checkInvariants
  BY <1>4, <1>5 DEF loadFails, allFolded, materialized, checkInvariants, foldVars
<1>6. CASE \/ skipMoved \/ materializeLeaf \/ materializeObject \/ materializeShorthand
           \/ materializeOptionalObject \/ allocateSection \/ materializeCollection
           \/ collectElements \/ materializeUnion
  <2>1. Untouched
    BY <1>6 DEF skipMoved, materializeLeaf, materializeObject, materializeShorthand,
                materializeOptionalObject, allocateSection, materializeCollection,
                collectElements, materializeUnion
  <2> QED BY <1>4, <2>1 DEF Untouched
<1>7. CASE UNCHANGED vars
  BY <1>4, <1>7 DEF vars, foldVars
<1> QED BY <1>1, <1>2, <1>3, <1>5, <1>6, <1>7 DEF ResolveNext

\* The records, and the frames while there are any.
UnderWay(fields) ==
  RecordsOK /\ (phase = "materializing" => FramesOK(todo, fields, collections))

LEMMA UnderWayInit == ASSUME NEW fields, ResolveInit PROVE UnderWay(fields)
<1>1. TypeOK /\ KeysOK
  BY TypeInit, EmptyOrder DEF ResolveInit, Init, KeysOK
<1> QED BY <1>1 DEF ResolveInit, UnderWay, RecordsOK

LEMMA UnderWayNext ==
  ASSUME NEW fields, DescribedBy(fields), UnderWay(fields), [ResolveNext]_vars
  PROVE  UnderWay(fields)'
<1>1. RecordsOK'
  BY RecordsNext DEF UnderWay
<1> SUFFICES ASSUME phase' = "materializing" PROVE FramesOK(todo, fields, collections)'
  BY <1>1 DEF UnderWay
<1>2. CASE startMaterialize
  <2>1. IsSeq(<<>>) /\ CanonicalPath(<<>>) = <<>>
    <3>1. IsSeq(<<>>) /\ DOMAIN <<>> = {}
      BY EmptyOrder
    <3>2. CanonicalPath(<<>>) = [i \in {} |-> 0] /\ <<>> = [i \in {} |-> 0]
      BY <3>1 DEF CanonicalPath
    <3> QED BY <3>1, <3>2
  <2>2. FramesOK(frames(Described, <<>>), fields, collections)
    BY <2>1, LevelFrames DEF DescribedBy
  <2> QED BY <1>2, <2>2 DEF startMaterialize
<1>3. CASE \/ skipMoved \/ materializeLeaf \/ materializeObject \/ materializeShorthand
           \/ materializeOptionalObject \/ allocateSection \/ materializeCollection
           \/ collectElements \/ materializeUnion
  <2>1. phase = "materializing" /\ todo # <<>> /\ UNCHANGED collections
    BY <1>3 DEF skipMoved, AtField, Running, materializeLeaf, materializeObject,
                materializeShorthand, materializeOptionalObject, allocateSection,
                materializeCollection, collectElements, materializeUnion, Untouched
  <2>2. TypeOK /\ FramesOK(todo, fields, collections)
    BY <2>1 DEF UnderWay, RecordsOK
  <2> QED BY <1>3, <2>1, <2>2, FramesNext
<1>4. CASE foldLayers \/ loadFails \/ allFolded \/ applyMoved \/ materialized \/ checkInvariants
  BY <1>4 DEF foldLayers, loadFails, allFolded, applyMoved, materialized, Stage, checkInvariants
<1>5. CASE UNCHANGED vars
  BY <1>5 DEF vars, foldVars, UnderWay
<1> QED BY <1>2, <1>3, <1>4, <1>5 DEF ResolveNext

(* What a fold keeps well formed stays so until the configuration is       *)
(* returned: former paths move whole records, and what is reported erased  *)
(* was erased by one of the layers (Fold, TypeOK).                         *)
THEOREM RecordsStay == ResolveSpec => []TypeOK
<1>1. ResolveInit => RecordsOK
  BY TypeInit, EmptyOrder DEF ResolveInit, Init, KeysOK, RecordsOK
<1>2. RecordsOK /\ [ResolveNext]_vars => RecordsOK'
  BY RecordsNext
<1>3. RecordsOK => TypeOK
  BY DEF RecordsOK
<1> QED BY <1>1, <1>2, <1>3, PTL DEF ResolveSpec

------------------------------------------------------------------------------
(* Credentials.                                                            *)

IsSecret(p) == CanonicalPath(p) \in DOMAIN byPath /\ byPath[CanonicalPath(p)].secret

\* The field at p has a default, which stands for what no layer says.
Defaulted(p) == byPath[CanonicalPath(p)].default # NoValue

\* The credentials among the paths with an origin are known.
Known(orgs, secs) ==
  \A p \in DOMAIN orgs :
    (orgs[p] # 0 \/ Defaulted(p)) /\ IsSecret(p) /\ ~HasElement(p) => p \in secs

LEMMA PutKnown ==
  ASSUME NEW orgs, NEW secs, NEW more, Known(orgs, secs), secs \subseteq more, NEW p, NEW n,
         (n # 0 \/ Defaulted(p)) /\ IsSecret(p) /\ ~HasElement(p) => p \in more
  PROVE  Known(put(orgs, p, n), more)
BY DEF Known, put

\* A path without elements is its own canonical spelling.
LEMMA PlainPath ==
  ASSUME NEW p, IsSeq(p), ~HasElement(p) PROVE CanonicalPath(p) = p
<1>1. DOMAIN p = 1 .. Len(p) /\ p = [i \in DOMAIN p |-> p[i]]
  BY SeqOfElements DEF IsSeq
<1>2. CanonicalPath(p) = [i \in DOMAIN p |-> p[i]]
  BY DEF CanonicalPath, HasElement
<1> QED BY <1>1, <1>2

LEMMA KnownNext ==
  ASSUME NEW fields, DescribedBy(fields), CredentialsAreValues(fields), UnderWay(fields),
         Known(origins, secrets), [ResolveNext]_vars
  PROVE  Known(origins', secrets')
<1>1. ASSUME UNCHANGED <<origins, secrets>> PROVE Known(origins', secrets')
  BY <1>1
<1>2. CASE \/ foldLayers \/ loadFails \/ allFolded \/ applyMoved \/ startMaterialize
           \/ skipMoved \/ materializeObject \/ materializeOptionalObject
           \/ materialized \/ checkInvariants
  BY <1>1, <1>2 DEF foldLayers, loadFails, allFolded, applyMoved, startMaterialize, skipMoved,
                    materializeObject, materializeOptionalObject, materialized,
                    checkInvariants, Built
<1>3. CASE UNCHANGED vars
  BY <1>1, <1>3 DEF vars
<1>4. CASE \/ materializeLeaf \/ materializeShorthand \/ allocateSection
           \/ materializeCollection \/ collectElements \/ materializeUnion
  <2>1. /\ phase = "materializing" /\ todo # <<>>
        /\ top.step = "allocate" \/ top.step = "collect" \/ (top.step = "field" /\ ~Moved(fld))
    BY <1>4 DEF AtField, Running, materializeLeaf, materializeShorthand, allocateSection,
                materializeCollection, collectElements, materializeUnion
  <2>2. FrameOK(top, fields, collections)
    BY <2>1, FramesLeft DEF UnderWay, top
  <2>3. PICK p, f : p = at /\ f = fld
    OBVIOUS
  <2>4. /\ f \in fields /\ IsSeq(p) /\ CanonicalPath(p) = f.path
        /\ top.step = "allocate" => f.kind = "section"
        /\ top.step = "collect" => isCollection(f)
    BY <2>2, <2>3 DEF FrameOK, fld, at
  <2>5. /\ IsSecret(p) => f.secret /\ f.kind \notin Collections \cup {"section"}
        /\ IsSecret(p) /\ Defaulted(p) => f.default # NoValue
        /\ ~HasElement(p) => f.path = p
    BY <2>4, PlainPath DEF CredentialsAreValues, IsSecret, Defaulted
  <2>6. ASSUME NEW n, origins' = put(origins, p, n), secrets \subseteq secrets',
               (n # 0 \/ Defaulted(p)) /\ IsSecret(p) /\ ~HasElement(p) => p \in secrets'
        PROVE  Known(origins', secrets')
    <3>1. PICK orgs, secs, more : orgs = origins /\ secs = secrets /\ more = secrets'
      OBVIOUS
    <3>2. Known(put(orgs, p, n), more)
      BY <2>6, <3>1, PutKnown
    <3> QED BY <2>6, <3>1, <3>2
  <2>7. CASE applyDefault
    <3>1. CASE UNCHANGED <<origins, secrets>>
      BY <1>1, <3>1
    <3>2. CASE /\ origins' = put(origins, p, 0)
               /\ secrets' = IF f.secret THEN secrets \cup {p} ELSE secrets
      BY <2>5, <2>6, <3>2
    <3>3. CASE f.default = NoValue /\ origins' = put(origins, p, 0) /\ UNCHANGED secrets
      BY <2>5, <2>6, <3>3
    <3>4. Fallback(f) = "zero" => f.default = NoValue
      BY DEF Fallback
    <3> QED BY <2>3, <2>7, <3>1, <3>2, <3>3, <3>4 DEF applyDefault, Store, Credential, Fail, Built
  <2>8. CASE materializeLeaf
    <3>1. CASE UNCHANGED <<origins, secrets>>
      BY <1>1, <3>1
    <3>2. CASE /\ origins' = put(origins, p, values[p].origin)
               /\ secrets' = IF f.secret THEN secrets \cup {f.path} ELSE secrets
      <4>1. PICK n : n = values[p].origin
        OBVIOUS
      <4> QED BY <2>5, <2>6, <3>2, <4>1
    <3> QED BY <2>3, <2>7, <2>8, <3>1, <3>2 DEF materializeLeaf, Store, Credential, Fail, Built
  <2>9. CASE materializeShorthand
    <3>1. CASE UNCHANGED <<origins, secrets>>
      BY <1>1, <3>1
    <3>2. CASE /\ origins' = put(origins, p, values[p].origin)
               /\ secrets' = IF f.secret THEN secrets \cup {p} ELSE secrets
      <4>1. PICK n : n = values[p].origin
        OBVIOUS
      <4> QED BY <2>5, <2>6, <3>2, <4>1
    <3> QED BY <2>3, <2>9, <3>1, <3>2 DEF materializeShorthand, Store, Credential, Fail, Built
  <2>10. CASE allocateSection
    <3>1. CASE UNCHANGED <<origins, secrets>>
      BY <1>1, <3>1
    <3>2. CASE origins' = put(origins, p, values[p].origin) /\ UNCHANGED secrets
      <4>1. PICK n : n = values[p].origin
        OBVIOUS
      <4>2. ~IsSecret(p)
        BY <2>4, <2>5, <2>10 DEF allocateSection, Running
      <4> QED BY <2>6, <3>2, <4>1, <4>2
    <3> QED BY <2>3, <2>10, <3>1, <3>2 DEF allocateSection
  <2>11. CASE materializeCollection
    BY <1>1, <2>7, <2>11 DEF materializeCollection, Built
  <2>12. CASE collectElements
    <3>1. CASE UNCHANGED <<origins, secrets>>
      BY <1>1, <3>1
    <3>2. CASE origins' = put(origins, p, collections[p].origin) /\ UNCHANGED secrets
      <4>1. PICK n : n = collections[p].origin
        OBVIOUS
      <4>2. ~IsSecret(p)
        BY <2>4, <2>5, <2>12 DEF collectElements, Running, isCollection, Collections
      <4> QED BY <2>6, <3>2, <4>1, <4>2
    <3> QED BY <2>3, <2>12, <3>1, <3>2 DEF collectElements, Store
  <2>13. CASE materializeUnion
    <3>1. PICK tagPath : tagPath = Append(p, NameSeg(f.tag))
      OBVIOUS
    <3>2. CASE UNCHANGED <<origins, secrets>>
      BY <1>1, <3>2
    <3>3. CASE origins' = put(origins, tagPath, values[tagPath].origin) /\ UNCHANGED secrets
      <4>1. PICK n, orgs, secs : n = values[tagPath].origin /\ orgs = origins /\ secs = secrets
        OBVIOUS
      <4>2. CanonicalPath(tagPath) = Append(f.path, NameSeg(f.tag)) /\ f.kind = "union"
        BY <2>3, <2>4, <2>13, <3>1, MemberPath DEF materializeUnion
      <4>3. ~IsSecret(tagPath)
        BY <2>4, <4>2 DEF CredentialsAreValues, IsSecret
      <4>4. Known(put(orgs, tagPath, n), secs)
        BY <4>1, <4>3, PutKnown
      <4> QED BY <3>3, <4>1, <4>4
    <3> QED BY <2>3, <2>13, <3>1, <3>2, <3>3 DEF materializeUnion, Fail, Built
  <2> QED BY <1>4, <2>8, <2>9, <2>10, <2>11, <2>12, <2>13
<1> QED BY <1>2, <1>3, <1>4 DEF ResolveNext

(* A credential a layer provided, or a default filled in, is reported as   *)
(* one at the path its origin is reported at, whatever other fields,       *)
(* layers and former paths there are, where each field marked secret holds *)
(* a value (Resolve, TopSecretsReported).                                  *)
THEOREM CredentialsAreReported ==
  ASSUME NEW fields, DescribedBy(fields), CredentialsAreValues(fields)
  PROVE  ResolveSpec => []TopSecretsReported
<1>1. ResolveInit => UnderWay(fields) /\ Known(origins, secrets)
  BY UnderWayInit, EmptyOrder DEF ResolveInit, Known
<1>2. UnderWay(fields) /\ Known(origins, secrets) /\ [ResolveNext]_vars
        => (UnderWay(fields) /\ Known(origins, secrets))'
  BY UnderWayNext, KnownNext
<1>3. UnderWay(fields) /\ Known(origins, secrets) => TopSecretsReported
  BY DEF Known, IsSecret, Defaulted, TopSecretsReported, Secret
<1> QED BY <1>1, <1>2, <1>3, PTL DEF ResolveSpec

------------------------------------------------------------------------------
(* Writers.                                                                *)

\* What is attributed to a layer, be it of a value or of a collection, was
\* written by it, under this path or a former one.
ValuesSpelled ==
  \A p \in DOMAIN values : \A n : \A state \in {"present", "null"} :
    Attributed(values[p], n, state) => Spelled(n, p, state)

CollectionsSpelled ==
  \A c \in DOMAIN collections : \A n : \A state \in {"present", "null"} :
    Stamped(collections[c], n, state) => Spelled(n, c, state)

RecordsSpelled == ValuesSpelled /\ CollectionsSpelled

\* What holds while layers are folded, and nothing is reported of yet.
Faithful ==
  /\ NoValueAtCollection /\ Provenance
  /\ CollectionsTrue /\ ErasedTrue
  /\ origins = <<>>

\* Until an origin is given to it, what is written is under its own path.
LEMMA WrittenIsSpelled ==
  ASSUME NEW n, NEW p, NEW state, Wrote(n, p, state) PROVE Spelled(n, p, state)
BY DEF Spelled, Spellings

LEMMA FaithfulSpelled ==
  ASSUME Faithful PROVE RecordsSpelled /\ WritersNamed
<1>1. ValuesSpelled
  BY WrittenIsSpelled, ProvenanceIs DEF Faithful, ValuesSpelled, LastWord
<1>2. CollectionsSpelled
  BY WrittenIsSpelled DEF Faithful, CollectionsSpelled, CollectionsTrue
<1>3. WritersNamed
  BY WrittenIsSpelled, EmptyOrder DEF Faithful, WritersNamed, ErasedTrue
<1> QED BY <1>1, <1>2, <1>3 DEF RecordsSpelled

\* What no layer adds to is spelled as it was.
LEMMA StaysSpelled ==
  ASSUME UNCHANGED <<sources, folded>>, NEW n, NEW p, NEW state, Spelled(n, p, state)
  PROVE  Spelled(n, p, state)'
BY DEF Spelled, Wrote, Folded, Origin, Layer

\* Nothing has been moved to a former path.
LEMMA FormerIsOwn ==
  ASSUME MovedOnce, KeysOK, NEW s \in Range(Shadows), NEW p, IsSeq(p), Under(s.path, p),
         NEW n, NEW state, Spelled(n, p, state)
  PROVE  Wrote(n, p, state)
<1>1. PICK from : from = s.path
  OBVIOUS
<1>2. IsSeq(from) /\ IsPrefix(from, p)
  BY <1>1, ShadowsOK, UnderIsPrefix
<1>3. ASSUME NEW t \in Range(Shadows), Under(t.movedTo, p) PROVE FALSE
  <2>1. PICK to : to = t.movedTo
    OBVIOUS
  <2>2. IsSeq(to) /\ IsPrefix(to, p)
    BY <1>3, <2>1, ShadowsOK, UnderIsPrefix
  <2>3. IsPrefix(from, to) \/ IsPrefix(to, from)
    BY <1>2, <2>2, TwoPrefixes
  <2> QED BY <1>1, <2>1, <2>3 DEF MovedOnce
<1>4. Spellings(p) = {p}
  BY <1>3 DEF Spellings, Under
<1> QED BY <1>4 DEF Spelled

\* What is moved was written under the path it is moved from.
LEMMA MovedSpelled ==
  ASSUME NEW s \in Range(Shadows), NEW q, Under(s.movedTo, q),
         NEW n, NEW state, Wrote(n, ReRoot(q, s.movedTo, s.path), state)
  PROVE  Spelled(n, q, state)
BY DEF Spelled, Spellings, Under

LEMMA SpelledNext ==
  ASSUME MovedOnce, RecordsOK, RecordsSpelled, applyMoved PROVE RecordsSpelled'
<1>1. /\ UNCHANGED <<sources, folded>> /\ redirected \in Nat /\ redirected < Len(Shadows)
      /\ KeysOK /\ TypeOK
  BY DEF RecordsOK, applyMoved
<1>2. PICK s \in Range(Shadows) : s = shadow
  BY <1>1, ShadowAt
<1>3. ASSUME NEW q \in DOMAIN values', NEW n, NEW state \in {"present", "null"},
             Attributed(values'[q], n, state)
      PROVE  Spelled(n, q, state)
  <2>1. CASE q \in DOMAIN values /\ values'[q] = values[q]
    BY <1>3, <2>1 DEF RecordsSpelled, ValuesSpelled
  <2>2. ASSUME NEW p \in DOMAIN values, values[p].set, Under(s.path, p), Under(s.movedTo, q),
               ReRoot(q, s.movedTo, s.path) = p,
               values'[q] = merged(values[p].value, values[p].origin)
        PROVE  Spelled(n, q, state)
    <3>1. Attributed(values[p], n, state)
      BY <1>3, <2>2 DEF Attributed, merged
    <3>2. Spelled(n, p, state) /\ IsSeq(p)
      BY <1>1, <3>1 DEF RecordsSpelled, ValuesSpelled, KeysOK
    <3>3. Wrote(n, p, state)
      BY <1>1, <2>2, <3>2, FormerIsOwn
    <3> QED BY <2>2, <3>3, MovedSpelled
  <2> QED BY <1>2, <2>1, <2>2, MovedWhole
<1>4. ASSUME NEW q \in DOMAIN collections', NEW n, NEW state \in {"present", "null"},
             Stamped(collections'[q], n, state)
      PROVE  Spelled(n, q, state)
  <2>1. CASE q \in DOMAIN collections /\ collections'[q] = collections[q]
    BY <1>4, <2>1 DEF RecordsSpelled, CollectionsSpelled
  <2>2. ASSUME NEW c \in DOMAIN collections, Under(s.path, c), Under(s.movedTo, q),
               ReRoot(q, s.movedTo, s.path) = c, collections'[q] = collections[c]
        PROVE  Spelled(n, q, state)
    <3>1. Spelled(n, c, state) /\ IsSeq(c)
      BY <1>1, <1>4, <2>2 DEF RecordsSpelled, CollectionsSpelled, KeysOK
    <3>2. Wrote(n, c, state)
      BY <1>1, <2>2, <3>1, FormerIsOwn
    <3> QED BY <2>2, <3>2, MovedSpelled
  <2> QED BY <1>2, <2>1, <2>2, MovedWhole
<1>5. ValuesSpelled' /\ CollectionsSpelled'
  BY <1>1, <1>3, <1>4, StaysSpelled DEF ValuesSpelled, CollectionsSpelled, Attributed, Stamped
<1> QED BY <1>5 DEF RecordsSpelled

\* The origins and the erasures the report names.
Named(orgs) == \A p \in DOMAIN orgs : orgs[p] # 0 => Spelled(orgs[p], p, "present")

ErasuresNamed == \A p \in DOMAIN erased : Spelled(erased[p], p, "null")

LEMMA PutNamed ==
  ASSUME NEW orgs, Named(orgs), NEW p, NEW n, n # 0 => Spelled(n, p, "present")
  PROVE  Named(put(orgs, p, n))
BY DEF Named, put

LEMMA OriginsNamed ==
  ASSUME NEW fields, UnderWay(fields), RecordsSpelled, Named(origins),
         \/ skipMoved \/ materializeLeaf \/ materializeObject \/ materializeShorthand
         \/ materializeOptionalObject \/ allocateSection \/ materializeCollection
         \/ collectElements \/ materializeUnion
  PROVE  Named(origins)'
<1>1. phase = "materializing" /\ todo # <<>> /\ UNCHANGED <<sources, folded>>
  BY DEF skipMoved, AtField, Running, materializeLeaf, materializeObject,
         materializeShorthand, materializeOptionalObject, allocateSection,
         materializeCollection, collectElements, materializeUnion, Untouched
<1>2. PICK orgs : orgs = origins'
  OBVIOUS
<1>3. SUFFICES Named(orgs)
  BY <1>1, <1>2, StaysSpelled DEF Named
<1>4. PICK p, f : p = at /\ f = fld
  OBVIOUS
<1>5. ASSUME UNCHANGED origins PROVE Named(orgs)
  BY <1>2, <1>5
<1>6. ASSUME NEW q, NEW n, orgs = put(origins, q, n), n # 0 => Spelled(n, q, "present")
      PROVE  Named(orgs)
  BY <1>6, PutNamed
<1>7. ASSUME NEW q, IsSet(q), orgs = put(origins, q, values[q].origin) PROVE Named(orgs)
  <2>1. Spelled(values[q].origin, q, "present")
    BY <1>7 DEF IsSet, RecordsSpelled, ValuesSpelled, Attributed
  <2>2. PICK n : n = values[q].origin
    OBVIOUS
  <2> QED BY <1>6, <1>7, <2>1, <2>2
<1>8. CASE skipMoved \/ materializeObject \/ materializeOptionalObject
  BY <1>5, <1>8 DEF skipMoved, materializeObject, materializeOptionalObject, Built
<1>9. CASE applyDefault
  <2>1. UNCHANGED origins \/ orgs = put(origins, p, 0)
    BY <1>2, <1>4, <1>9 DEF applyDefault, Store, Fail, Built
  <2> QED BY <1>5, <1>6, <2>1
<1>10. CASE materializeLeaf
  <2>1. applyDefault \/ UNCHANGED origins
        \/ (IsSet(p) /\ orgs = put(origins, p, values[p].origin))
    BY <1>2, <1>4, <1>10 DEF materializeLeaf, Store, Fail, Built
  <2> QED BY <1>5, <1>7, <1>9, <2>1
<1>11. CASE materializeShorthand
  <2>1. UNCHANGED origins \/ (IsSet(p) /\ orgs = put(origins, p, values[p].origin))
    BY <1>2, <1>4, <1>11 DEF materializeShorthand, Store, Fail, Built
  <2> QED BY <1>5, <1>7, <2>1
<1>12. CASE allocateSection
  <2>1. UNCHANGED origins \/ (IsSet(p) /\ orgs = put(origins, p, values[p].origin))
    BY <1>2, <1>4, <1>12 DEF allocateSection
  <2> QED BY <1>5, <1>7, <2>1
<1>13. CASE materializeCollection
  <2>1. applyDefault \/ UNCHANGED origins
    BY <1>13 DEF materializeCollection, Built
  <2> QED BY <1>5, <1>9, <2>1
<1>14. CASE collectElements
  <2>1. UNCHANGED origins \/ orgs = put(origins, p, collections[p].origin)
    BY <1>2, <1>4, <1>14 DEF collectElements, Store
  <2>2. p \in DOMAIN collections /\ collections[p].provided
    <3>1. FrameOK(top, fields, collections) /\ top.step = "collect"
      BY <1>1, <1>14, FramesLeft DEF UnderWay, top, collectElements, Running
    <3> QED BY <1>4, <3>1 DEF FrameOK, at
  <2>3. Spelled(collections[p].origin, p, "present")
    BY <2>2 DEF RecordsSpelled, CollectionsSpelled, Stamped
  <2>4. PICK n : n = collections[p].origin
    OBVIOUS
  <2> QED BY <1>5, <1>6, <2>1, <2>3, <2>4
<1>15. CASE materializeUnion
  <2>1. PICK tagPath : tagPath = Append(p, NameSeg(f.tag))
    OBVIOUS
  <2>2. UNCHANGED origins
        \/ (IsSet(tagPath) /\ orgs = put(origins, tagPath, values[tagPath].origin))
    BY <1>2, <1>4, <1>15, <2>1 DEF materializeUnion, Fail, Built
  <2> QED BY <1>5, <1>7, <2>2
<1> QED BY <1>8, <1>10, <1>11, <1>12, <1>13, <1>14, <1>15

\* While layers are folded everything is as the fold leaves it; after that
\* what has an origin is spelled by it.
Attribution(fields) ==
  /\ UnderWay(fields)
  /\ phase = "folding" => Faithful
  /\ RecordsSpelled /\ Named(origins) /\ ErasuresNamed

LEMMA AttributionInit == ASSUME NEW fields, ResolveInit PROVE Attribution(fields)
<1>1. Faithful
  BY EmptyOrder DEF ResolveInit, Init, Faithful, NoValueAtCollection, Provenance,
                    CollectionsTrue, ErasedTrue
<1> QED BY <1>1, UnderWayInit, FaithfulSpelled DEF Attribution, WritersNamed, Named, ErasuresNamed

LEMMA AttributionNext ==
  ASSUME MovedOnce, NEW fields, DescribedBy(fields), Attribution(fields), [ResolveNext]_vars
  PROVE  Attribution(fields)'
<1>1. UnderWay(fields)' /\ RecordsOK
  BY UnderWayNext DEF Attribution, UnderWay
<1>2. ASSUME UNCHANGED <<sources, folded>>, UNCHANGED <<values, collections>> PROVE RecordsSpelled'
  BY <1>2, StaysSpelled
     DEF Attribution, RecordsSpelled, ValuesSpelled, CollectionsSpelled, Attributed, Stamped
<1>3. ASSUME UNCHANGED <<sources, folded>>, UNCHANGED origins PROVE Named(origins)'
  BY <1>3, StaysSpelled DEF Attribution, Named
<1>4. ASSUME UNCHANGED <<sources, folded>>, UNCHANGED erased PROVE ErasuresNamed'
  BY <1>4, StaysSpelled DEF Attribution, ErasuresNamed
<1>5. CASE foldLayers
  <2>1. Faithful /\ [FoldNext]_foldVars /\ UNCHANGED origins
    BY <1>5 DEF foldLayers, Attribution, Built
  <2>2. Faithful'
    BY <1>1, <2>1, NoValueNext, ProvenanceNext, CollectionsTrueNext, ErasedTrueNext
       DEF RecordsOK, Faithful
  <2>3. ASSUME NEW n, NEW p, NEW state, Wrote(n, p, state)' PROVE Spelled(n, p, state)'
    BY <2>3 DEF Spelled, Spellings
  <2>4. ValuesSpelled'
    BY <2>2, <2>3 DEF Faithful, Provenance, ValuesSpelled, Attributed
  <2>5. CollectionsSpelled'
    BY <2>2, <2>3 DEF Faithful, CollectionsSpelled, CollectionsTrue
  <2>6. Named(origins)' /\ ErasuresNamed'
    BY <2>2, <2>3, EmptyOrder DEF Faithful, Named, ErasuresNamed, ErasedTrue
  <2> QED BY <1>1, <2>2, <2>4, <2>5, <2>6 DEF Attribution, RecordsSpelled
<1>6. CASE applyMoved
  <2>1. /\ UNCHANGED <<sources, folded>> /\ UNCHANGED erased /\ UNCHANGED origins
        /\ phase' = "moving"
    BY <1>6 DEF applyMoved, Built
  <2>2. RecordsSpelled'
    BY <1>1, <1>6, SpelledNext DEF Attribution
  <2> QED BY <1>1, <1>3, <1>4, <2>1, <2>2 DEF Attribution
<1>7. CASE startMaterialize
  <2>1. /\ UNCHANGED <<sources, folded>> /\ UNCHANGED <<values, collections>>
        /\ UNCHANGED origins /\ erased' \in {erased, erasures} /\ phase' # "folding"
    BY <1>7 DEF startMaterialize, Stage
  <2>2. ASSUME NEW p \in DOMAIN erasures PROVE Spelled(erasures[p], p, "null")
    <3>1. CASE p \in DOMAIN erased /\ erasures[p] = erased[p]
      BY <3>1 DEF Attribution, ErasuresNamed
    <3>2. CASE p \in DOMAIN values /\ values[p].erased # 0 /\ erasures[p] = values[p].erased
      <4>1. Attributed(values[p], values[p].erased, "null")
        BY <3>2 DEF Attributed
      <4> QED BY <3>2, <4>1 DEF Attribution, RecordsSpelled, ValuesSpelled
    <3>3. CASE p \in DOMAIN collections /\ collections[p].erased # 0
               /\ erasures[p] = collections[p].erased
      <4>1. Stamped(collections[p], collections[p].erased, "null")
        BY <3>3 DEF Stamped
      <4> QED BY <3>3, <4>1 DEF Attribution, RecordsSpelled, CollectionsSpelled
    <3> QED BY <3>1, <3>2, <3>3, Erasures
  <2>3. ErasuresNamed'
    BY <2>1, <2>2, StaysSpelled DEF Attribution, ErasuresNamed
  <2> QED BY <1>1, <1>2, <1>3, <2>1, <2>3 DEF Attribution
<1>8. CASE \/ skipMoved \/ materializeLeaf \/ materializeObject \/ materializeShorthand
           \/ materializeOptionalObject \/ allocateSection \/ materializeCollection
           \/ collectElements \/ materializeUnion
  <2>1. /\ UNCHANGED <<sources, folded>> /\ UNCHANGED <<values, collections>>
        /\ UNCHANGED erased /\ phase' # "folding"
    BY <1>8 DEF skipMoved, AtField, Running, materializeLeaf, materializeObject,
                materializeShorthand, materializeOptionalObject, allocateSection,
                materializeCollection, collectElements, materializeUnion, Untouched
  <2>2. Named(origins)'
    BY <1>8, OriginsNamed DEF Attribution
  <2> QED BY <1>1, <1>2, <1>4, <2>1, <2>2 DEF Attribution
<1>9. CASE loadFails \/ allFolded \/ materialized \/ checkInvariants
  <2>1. /\ UNCHANGED <<sources, folded>> /\ UNCHANGED <<values, collections>>
        /\ UNCHANGED origins /\ UNCHANGED erased /\ phase' # "folding"
    BY <1>9 DEF loadFails, allFolded, materialized, Stage, checkInvariants, Built, foldVars
  <2> QED BY <1>1, <1>2, <1>3, <1>4, <2>1 DEF Attribution
<1>10. CASE UNCHANGED vars
  <2>1. /\ UNCHANGED <<sources, folded>> /\ UNCHANGED <<values, collections>>
        /\ UNCHANGED origins /\ UNCHANGED erased /\ UNCHANGED phase /\ [FoldNext]_foldVars
    BY <1>10 DEF vars, foldVars
  <2>2. ASSUME phase = "folding" PROVE Faithful'
    BY <1>1, <2>1, <2>2, NoValueNext, ProvenanceNext, CollectionsTrueNext, ErasedTrueNext
       DEF RecordsOK, Attribution, Faithful
  <2> QED BY <1>1, <1>2, <1>3, <1>4, <2>1, <2>2 DEF Attribution
<1> QED BY <1>5, <1>6, <1>7, <1>8, <1>9, <1>10 DEF ResolveNext

(* The report names those who wrote, in every description, for every       *)
(* sequence of layers and every list of former paths none of which lies on *)
(* the way to a field that was moved (Resolve, WritersNamed).              *)
THEOREM ReportIsTrue ==
  ASSUME MovedOnce, NEW fields, DescribedBy(fields)
  PROVE  ResolveSpec => []WritersNamed
<1>1. ResolveInit => Attribution(fields)
  BY AttributionInit
<1>2. Attribution(fields) /\ [ResolveNext]_vars => Attribution(fields)'
  BY AttributionNext
<1>3. Attribution(fields) => WritersNamed
  BY DEF Attribution, Named, ErasuresNamed, WritersNamed
<1> QED BY <1>1, <1>2, <1>3, PTL DEF ResolveSpec
==============================================================================
