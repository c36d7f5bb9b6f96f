------------------------------ MODULE OriginProofs ------------------------------
(***************************************************************************)
(* Theorems about the origins a fold keeps (merge.go, resolve.go): whom    *)
(* a value and an erasure are attributed to, for every description and     *)
(* every sequence of layers.                                               *)
(***************************************************************************)
EXTENDS FoldProofs

------------------------------------------------------------------------------
(* The path an assignment folds under.                                     *)

\* Rewriting subscripts changes no canonical path.
LEMMA SameCanonically ==
  ASSUME NEW p, NEW q, IsSeq(q), Rewrites(p, q), Len(p) = Len(q)
  PROVE  /\ CanonicalPath(p) = CanonicalPath(q)
         /\ ~HasElement(q) => p = q
         /\ HasElement(p) <=> HasElement(q)
<1>1. DOMAIN p = 1 .. Len(q) /\ DOMAIN q = 1 .. Len(q)
  BY SeqOfElements DEF Rewrites
<1>2. \A i \in 1 .. Len(q) : p[i] = q[i] \/ (IsElem(p[i]) /\ IsElem(q[i]))
  BY DEF Rewrites
<1>3. \A i \in 1 .. Len(q) : IsElem(p[i]) <=> IsElem(q[i])
  BY <1>2
<1>4. CanonicalPath(p) = CanonicalPath(q)
  <2> DEFINE canonical(s, i) == IF IsElem(s[i]) THEN AnySeg ELSE s[i]
  <2>1. \A i \in 1 .. Len(q) : canonical(p, i) = canonical(q, i)
    BY <1>2
  <2>2. /\ CanonicalPath(p) = [i \in 1 .. Len(q) |-> canonical(p, i)]
        /\ CanonicalPath(q) = [i \in 1 .. Len(q) |-> canonical(q, i)]
    BY <1>1 DEF CanonicalPath
  <2> HIDE DEF canonical
  <2> QED BY <2>1, <2>2
<1>5. ASSUME ~HasElement(q) PROVE p = q
  <2>1. \A i \in 1 .. Len(q) : p[i] = q[i]
    BY <1>1, <1>2, <1>5 DEF HasElement
  <2>2. /\ p = [i \in 1 .. Len(q) |-> p[i]]
        /\ q = [i \in 1 .. Len(q) |-> q[i]]
    BY DEF Rewrites, IsSeq
  <2> QED BY <2>1, <2>2
<1> QED BY <1>1, <1>3, <1>4, <1>5 DEF HasElement

\* What fold acts on is the assignment's own path, its subscripts rewritten.
LEMMA TargetOK ==
  ASSUME TypeOK, Ready
  PROVE  /\ IsSeq(current.path) /\ Len(current.path) \in Nat
         /\ Rewrites(target, current.path) /\ Len(target) = Len(current.path)
         /\ CanonicalPath(target) = CanonicalPath(current.path)
         /\ ~HasElement(current.path) => target = current.path
<1>1. AssignmentOK(current) /\ Rewrites(resolved, current.path)
  BY CurrentOK DEF Ready, TypeOK
<1>2. IsSeq(current.path) /\ Len(current.path) \in Nat
  BY <1>1, SeqOfElements DEF AssignmentOK, IsPath
<1>3. Len(resolved) \in Nat /\ Len(resolved) <= Len(current.path)
  BY <1>1, SeqOfElements DEF Rewrites
<1> DEFINE n == Len(current.path) + 1
<1>4. target = resolved \o SubSeq(current.path, Len(resolved) + 1, n - 1)
  BY <1>2 DEF target
<1>5. n \in Len(resolved) + 1 .. Len(current.path) + 1 /\ n - 1 = Len(current.path)
  BY <1>2, <1>3
<1> HIDE DEF n
<1>6. Len(target) = Len(current.path) /\ Rewrites(target, current.path)
  BY <1>1, <1>2, <1>4, <1>5, RewrittenUpTo
<1> QED BY <1>2, <1>6, SameCanonically

\* A list or a map is kept as a collection: fold puts no value at its path.
NoValueAtCollection == \A p \in DOMAIN values : ~IsCollectionAt(p)

LEMMA AtCollectionOf == AtCollection <=> IsCollectionAt(current.path)
BY DEF AtCollection, IsCollectionAt, Collections, found, own, field

LEMMA NoValueNext ==
  ASSUME TypeOK, NoValueAtCollection, [FoldNext]_foldVars
  PROVE  NoValueAtCollection'
<1> SUFFICES ASSUME NEW p \in DOMAIN values' PROVE ~IsCollectionAt(p)
  BY DEF NoValueAtCollection, IsCollectionAt
<1>1. CASE p \in DOMAIN values
  BY <1>1 DEF NoValueAtCollection
<1>2. CASE fold /\ p = target
  <2>1. ~IsCollectionAt(current.path)
    BY <1>2, AtCollectionOf DEF fold
  <2>2. CanonicalPath(target) = CanonicalPath(current.path)
    BY <1>2, TargetOK DEF fold
  <2> QED BY <1>2, <2>1, <2>2 DEF IsCollectionAt
<1> QED BY <1>1, <1>2, ValuesMove

------------------------------------------------------------------------------
(* What the layers have said.                                              *)

\* Layers are only added, and an assignment stays folded.
LEMMA LayersStay ==
  ASSUME TypeOK, [FoldNext]_foldVars, NEW n \in 1 .. Origin
  PROVE  /\ Origin \in Nat /\ Origin' \in Nat /\ Origin <= Origin'
         /\ Layer(n)' = Layer(n)
         /\ \A i \in Nat : Folded(n, i) => Folded(n, i)'
<1>1. sources \in Seq(Layers) /\ Origin \in Nat /\ Origin' \in Nat /\ folded \in Nat
  BY SourcesOK, LenProperties DEF TypeOK, Origin
<1>2. CASE startLayer
  <2>1. PICK layer \in Layers : sources' = Append(sources, layer)
    BY <1>2 DEF startLayer
  <2>2. Origin' = Origin + 1 /\ sources'[n] = sources[n]
    BY <1>1, <2>1, AppendProperties DEF Origin
  <2>3. \A i \in Nat : Folded(n, i)'
    BY <1>1, <2>2 DEF Folded
  <2> QED BY <1>1, <2>2, <2>3 DEF Layer
<1>3. CASE ~startLayer
  <2>1. sources' = sources
    BY <1>3, SourcesKept DEF foldVars
  <2>2. folded' \in {folded, folded + 1}
    BY <1>3 DEF FoldNext, foldVars, skipMissing, resolveElements, eraseCollection,
                provideCollection, elementMarker, clearElement, fold, Consume
  <2>3. Origin' = Origin
    BY <2>1 DEF Origin
  <2>4. ASSUME NEW i \in Nat, Folded(n, i) PROVE Folded(n, i)'
    <3>1. CASE n < Origin
      BY <3>1, <2>3 DEF Folded
    <3>2. CASE i <= folded
      BY <1>1, <3>2, <2>2 DEF Folded
    <3> QED BY <2>4, <3>1, <3>2 DEF Folded
  <2> QED BY <1>1, <2>1, <2>3, <2>4 DEF Layer
<1> QED BY <1>2, <1>3

\* A layer is a sequence of well-formed assignments.
LEMMA LayerOK ==
  ASSUME TypeOK, NEW n \in 1 .. Origin
  PROVE  /\ IsSeq(Layer(n)) /\ Len(Layer(n)) \in Nat
         /\ DOMAIN Layer(n) = 1 .. Len(Layer(n))
         /\ \A i \in DOMAIN Layer(n) : AssignmentOK(Layer(n)[i])
<1>1. sources[n] \in Layers
  BY ElementOfSeq DEF TypeOK, Origin
<1>2. IsSeq(Layer(n)) /\ \A i \in DOMAIN Layer(n) : AssignmentOK(Layer(n)[i])
  BY <1>1, LayersOK DEF Layer
<1> QED BY <1>2, SeqOfElements

\* What a layer wrote it has written.
LEMMA StillWrote ==
  ASSUME TypeOK, [FoldNext]_foldVars, NEW n \in 1 .. Origin, NEW p, NEW state,
         Wrote(n, p, state)
  PROVE  Wrote(n, p, state)'
<1>1. PICK i \in DOMAIN Layer(n) :
        /\ Folded(n, i)
        /\ Layer(n)[i].state = state
        /\ CanonicalPath(Layer(n)[i].path) = CanonicalPath(p)
  BY DEF Wrote
<1>2. i \in Nat
  BY LayerOK
<1>3. Layer(n)' = Layer(n) /\ Folded(n, i)'
  BY <1>1, <1>2, LayersStay
<1> QED BY <1>1, <1>3 DEF Wrote

\* The assignment that is being folded is said of p, unless it is not.
Speaks(p) == current.path = p /\ ~HasElement(p) /\ current.state # "missing"

\* No layer breaks its silence but by folding an assignment at the path.
LEMMA StillSilent ==
  ASSUME TypeOK, [FoldNext]_foldVars, NEW n \in 1 .. Origin, NEW p, SilentSince(n, p),
         \/ UNCHANGED <<sources, folded>>
         \/ startLayer
         \/ /\ Folding /\ Consume
            /\ Speaks(p) => Error("constraint.type_mismatch", p) \in diagnostics'
  PROVE  SilentSince(n, p)'
<1>1. Origin \in Nat /\ Origin' \in Nat /\ Origin <= Origin'
  BY LayersStay
<1>2. diagnostics \subseteq diagnostics'
  BY DEF FoldNext, foldVars, startLayer, skipMissing, resolveElements, eraseCollection,
         provideCollection, elementMarker, clearElement, fold
<1> SUFFICES ASSUME NEW m \in n + 1 .. Origin', NEW i \in DOMAIN Layer(m)',
                    Folded(m, i)', Layer(m)'[i].path = p, ~HasElement(p),
                    Layer(m)'[i].state # "missing"
             PROVE  Error("constraint.type_mismatch", p) \in diagnostics'
  BY DEF SilentSince
<1>3. ASSUME m \in 1 .. Origin, Folded(m, i)
      PROVE  Error("constraint.type_mismatch", p) \in diagnostics'
  <2>1. Layer(m)' = Layer(m)
    BY <1>3, LayersStay
  <2> QED BY <1>1, <1>2, <1>3, <2>1 DEF SilentSince
<1>4. CASE UNCHANGED <<sources, folded>>
  BY <1>1, <1>3, <1>4 DEF Origin, Folded
<1>5. CASE startLayer
  <2>1. PICK layer \in Layers : sources' = Append(sources, layer)
    BY <1>5 DEF startLayer
  <2>2. Origin' = Origin + 1 /\ folded' = 0 /\ ~Folding /\ sources' # <<>>
    BY <1>1, <1>5, <2>1, AppendProperties DEF Origin, startLayer, TypeOK
  <2>3. TypeOK'
    BY TypeNext
  <2>4. m <= Origin
    <3> SUFFICES ASSUME m = Origin' PROVE FALSE
      BY <1>1, <2>2
    <3>1. IsSeq(Layer(m)') /\ DOMAIN Layer(m)' = 1 .. Len(Layer(m)')
      <4>1. Layer(m)' = layer.assignments
        BY <2>1, <2>2, AppendProperties DEF Layer, TypeOK, Origin
      <4> QED BY <4>1, LayersOK, SeqOfElements
    <3> QED BY <2>2, <3>1 DEF Folded
  <2>5. m \in 1 .. Origin /\ Layer(m)' = Layer(m)
    BY <1>1, <2>4, LayersStay
  <2>6. Folded(m, i)
    <3>1. DOMAIN Layer(m) = 1 .. Len(Layer(m)) /\ Len(Layer(m)) \in Nat
      BY <2>5, LayerOK
    <3>2. CASE m = Origin
      <4>1. sources # <<>> /\ ~(folded < Len(Layer(m)))
        BY <1>1, <2>2, <3>2, EmptySeq DEF Folding, Layer, Origin
      <4> QED BY <2>5, <3>1, <3>2, <4>1 DEF Folded, TypeOK
    <3> QED BY <1>1, <2>4, <3>2 DEF Folded
  <2> QED BY <1>3, <2>5, <2>6
<1>6. CASE /\ Folding /\ Consume
           /\ Speaks(p) => Error("constraint.type_mismatch", p) \in diagnostics'
  <2>1. /\ sources' = sources /\ folded' = folded + 1 /\ Origin' = Origin
        /\ m \in 1 .. Origin /\ Layer(m)' = Layer(m) /\ folded \in Nat
    BY <1>1, <1>6 DEF Consume, Origin, Layer, TypeOK
  <2>2. DOMAIN Layer(m) = 1 .. Len(Layer(m)) /\ Len(Layer(m)) \in Nat
    BY <2>1, LayerOK
  <2>3. Folded(m, i) \/ (m = Origin /\ i = folded + 1)
    <3>1. i \in Nat /\ (m < Origin \/ i <= folded + 1)
      BY <2>1, <2>2 DEF Folded
    <3> QED BY <1>1, <2>1, <3>1 DEF Folded
  <2>4. CASE m = Origin /\ i = folded + 1
    <3>1. current = Layer(m)'[i]
      BY <2>1, <2>4 DEF current, Layer
    <3> QED BY <1>6, <3>1 DEF Speaks
  <2> QED BY <1>3, <2>1, <2>3, <2>4
<1> QED BY <1>4, <1>5, <1>6
------------------------------------------------------------------------------
(* Provenance.                                                             *)

\* The layer n, present or null as it says, is the last word on p.
LastWord(n, p, state) == Wrote(n, p, state) /\ SilentSince(n, p)

\* Where nothing is done to p's value, nothing was said of p.
LEMMA KeptWord ==
  ASSUME TypeOK, NoValueAtCollection, [FoldNext]_foldVars,
         NEW p \in DOMAIN values, ~(fold /\ p = target),
         NEW n \in 1 .. Origin, NEW state, LastWord(n, p, state)
  PROVE  LastWord(n, p, state)'
<1>1. Wrote(n, p, state)'
  BY StillWrote DEF LastWord
<1>2. ASSUME Ready, ~HasElement(current.path) PROVE target = current.path
  BY <1>2, TargetOK
<1>3. CASE UNCHANGED <<sources, folded>> \/ startLayer
  BY <1>1, <1>3, StillSilent DEF LastWord
<1>4. CASE skipMissing
  <2>1. Folding /\ Consume /\ ~Speaks(p)
    BY <1>4 DEF skipMissing, Speaks
  <2> QED BY <1>1, <2>1, StillSilent DEF LastWord
<1>5. CASE resolveElements /\ Consume
  <2>1. HasElement(current.path)
    <3>1. AssignmentOK(current)
      BY <1>5, CurrentOK DEF resolveElements
    <3>2. DOMAIN current.path = 1 .. Len(current.path)
      BY <3>1, SeqOfElements DEF AssignmentOK, IsPath
    <3>3. Rewrites(resolved, current.path) /\ Len(resolved) \in Nat
      BY <1>5, SeqOfElements DEF resolveElements, TypeOK, Rewrites
    <3>4. Subscripts # {} /\ Len(current.path) \in Nat
      BY <1>5, <3>1, SeqOfElements DEF resolveElements, AssignmentOK, IsPath
    <3> QED BY <3>2, <3>3, <3>4 DEF Subscripts, HasElement
  <2>2. Folding /\ ~Speaks(p)
    BY <1>5, <2>1 DEF resolveElements, Speaks
  <2> QED BY <1>1, <1>5, <2>2, StillSilent DEF LastWord
<1>6. CASE eraseCollection \/ provideCollection
  <2>1. Folding /\ Consume /\ IsCollectionAt(current.path)
    BY <1>6, AtCollectionOf DEF eraseCollection, provideCollection, Ready
  <2>2. ~Speaks(p)
    BY <2>1 DEF Speaks, NoValueAtCollection
  <2> QED BY <1>1, <2>1, <2>2, StillSilent DEF LastWord
<1>7. CASE elementMarker \/ clearElement
  <2>1. Folding /\ Consume /\ Ready
    BY <1>7 DEF elementMarker, clearElement, Ready
  <2>2. HasElement(current.path)
    <3>1. CASE clearElement
      <4>1. HasElement(target)
        <5>1. DOMAIN target = 1 .. Len(target) /\ Len(target) \in Nat
          BY <2>1, TargetOK, SeqOfElements DEF Rewrites
        <5>2. target # <<>> /\ IsElem(target[Len(target)])
          BY <3>1 DEF clearElement, IsElementPath
        <5>3. Len(target) # 0
          BY <2>1, <5>2, TargetOK, EmptySeqOf DEF Rewrites
        <5> QED BY <5>1, <5>2, <5>3 DEF HasElement
      <4> QED BY <2>1, <4>1, TargetOK, SameCanonically
    <3> QED BY <1>7, <3>1 DEF elementMarker
  <2>3. ~Speaks(p)
    BY <2>2 DEF Speaks
  <2> QED BY <1>1, <2>1, <2>3, StillSilent DEF LastWord
<1>8. CASE fold
  <2>1. Folding /\ Consume /\ Ready /\ p # target
    BY <1>8 DEF fold, Ready
  <2>2. ~Speaks(p)
    BY <1>2, <2>1 DEF Speaks
  <2> QED BY <1>1, <2>1, <2>2, StillSilent DEF LastWord
<1> QED BY <1>3, <1>4, <1>5, <1>6, <1>7, <1>8
     DEF FoldNext, foldVars, resolveElements

\* A merge erases, sets on behalf of its layer, or fails and changes nothing.
LEMMA MergeSetCases ==
  ASSUME NEW st, NEW a, a.state \in {"null", "present"}, NEW how, NEW last
  PROVE  LET new == mergeSet(st, a, how, last)
         IN \/ a.state = "null" /\ new = erasedBy(last)
            \/ a.state = "present" /\ \E v : new = merged(v, last)
            \/ MergeFails(st, a, how) /\ st.set /\ new = st
<1> DEFINE new == mergeSet(st, a, how, last)
<1>1. CASE a.state = "null"
  BY <1>1 DEF mergeSet, MergeFails
<1>2. CASE a.state = "present" /\ (~st.set \/ how = "replace")
  <2>1. new = merged(a.value, last)
    BY <1>2 DEF mergeSet, MergeFails, Combines
  <2> QED BY <1>2, <2>1
<1>3. CASE a.state = "present" /\ st.set /\ how # "replace" /\ Combines(how, st.value, a.value)
  <2>1. new = merged(combine(how, st.value, a.value), last)
    BY <1>3 DEF mergeSet, MergeFails
  <2> QED BY <1>3, <2>1
<1>4. CASE a.state = "present" /\ st.set /\ how # "replace" /\ ~Combines(how, st.value, a.value)
  <2>1. new = st
    BY <1>4 DEF mergeSet, MergeFails
  <2> QED BY <1>4, <2>1 DEF MergeFails
<1> QED BY <1>1, <1>2, <1>3, <1>4

\* What fold puts at its target, and the error it reports where it cannot.
LEMMA FoldMerges ==
  ASSUME fold
  PROVE  \E st :
           /\ st = Unset \/ (target \in DOMAIN values /\ st = values[target])
           /\ values'[target] = mergeSet(st, current, policy, Origin)
           /\ MergeFails(st, current, policy) =>
                Error("constraint.type_mismatch", target) \in diagnostics'
<1> DEFINE vals == dropOtherSpelling(dropSubtree(values), target)
           st   == IF target \in DOMAIN vals THEN vals[target] ELSE Unset
<1>1. /\ values' = put(vals, target, mergeSet(st, current, policy, Origin))
      /\ MergeFails(st, current, policy) =>
           Error("constraint.type_mismatch", target) \in diagnostics'
  BY DEF fold
<1>2. \A q \in DOMAIN vals : q \in DOMAIN values /\ vals[q] = values[q]
  <2>1. \A q \in DOMAIN dropSubtree(values) :
          q \in DOMAIN values /\ dropSubtree(values)[q] = values[q]
    BY DEF dropSubtree, Without, Restrict
  <2>2. PICK S : vals = dropSubtree(values) \/ vals = Without(dropSubtree(values), S)
    BY DEF dropOtherSpelling
  <2> QED BY <2>1, <2>2 DEF Without, Restrict
<1>3. st = Unset \/ (target \in DOMAIN values /\ st = values[target])
  BY <1>2
<1> HIDE DEF st, vals
<1>4. values'[target] = mergeSet(st, current, policy, Origin)
  BY <1>1 DEF put
<1> QED BY <1>1, <1>3, <1>4

\* The assignment that is consumed is the last word on its path.
LEMMA NewWord ==
  ASSUME TypeOK, Folding, Consume, NEW p, NEW n, n = Origin, NEW state, current.state = state,
         CanonicalPath(current.path) = CanonicalPath(p)
  PROVE  LastWord(n, p, state)'
<1>1. /\ sources' = sources /\ folded' = folded + 1 /\ Origin' = Origin
      /\ n \in Nat \ {0} /\ Layer(n)' = Layer(n)
      /\ folded + 1 \in 1 .. Len(Layer(n)) /\ folded + 1 \in Nat
  BY CurrentOK DEF Consume, Origin, Layer
<1>2. folded + 1 \in DOMAIN Layer(n) /\ current = Layer(n)[folded + 1]
  BY <1>1, LayerOK DEF current, Layer
<1>3. Wrote(n, p, state)'
  <2>1. PICK i \in DOMAIN Layer(n) : i = folded + 1 /\ i \in Nat /\ current = Layer(n)[i]
    BY <1>1, <1>2
  <2>2. Folded(n, i)'
    BY <1>1, <2>1 DEF Folded
  <2> QED BY <1>1, <2>1, <2>2 DEF Wrote
<1>4. SilentSince(n, p)'
  BY <1>1 DEF SilentSince
<1> QED BY <1>3, <1>4 DEF LastWord

\* A value is attributed to the layer that set it, or to the one that erased it.
Attributed(st, n, state) ==
  \/ state = "present" /\ st.set /\ n = st.origin
  \/ state = "null" /\ st.erased # 0 /\ n = st.erased

LEMMA ProvenanceIs ==
  Provenance <=>
    \A p \in DOMAIN values : \A n : \A state \in {"present", "null"} :
      Attributed(values[p], n, state) => LastWord(n, p, state)
BY DEF Provenance, Attributed, LastWord

LEMMA ProvenanceNext ==
  ASSUME TypeOK, NoValueAtCollection, Provenance, [FoldNext]_foldVars
  PROVE  Provenance'
<1> SUFFICES ASSUME NEW p \in DOMAIN values', NEW n, NEW state \in {"present", "null"},
                    Attributed(values'[p], n, state)
             PROVE  LastWord(n, p, state)'
  BY ProvenanceIs DEF Provenance, Attributed, LastWord
<1>1. ASSUME p \in DOMAIN values, values'[p] = values[p]
      PROVE  n \in 1 .. Origin /\ LastWord(n, p, state)
  <2>1. LastWord(n, p, state)
    BY <1>1, ProvenanceIs
  <2>2. MergedOK(values[p], Origin) /\ Origin \in Nat
    BY <1>1, LenProperties DEF TypeOK, Origin
  <2>3. n \in 1 .. Origin
    BY <1>1, <2>2 DEF MergedOK, Attributed
  <2> QED BY <2>1, <2>3
<1>2. CASE ~(fold /\ p = target)
  <2>1. p \in DOMAIN values /\ values'[p] = values[p]
    BY <1>2, ValuesMove
  <2> QED BY <1>1, <1>2, <2>1, KeptWord
<1>3. CASE fold /\ p = target
  <2> DEFINE new == values'[p]
  <2>1. PICK st :
          /\ st = Unset \/ (p \in DOMAIN values /\ st = values[p])
          /\ new = mergeSet(st, current, policy, Origin)
          /\ MergeFails(st, current, policy) =>
               Error("constraint.type_mismatch", p) \in diagnostics'
    BY <1>3, FoldMerges
  <2>2. /\ Folding /\ Consume /\ Ready /\ current.state \in {"null", "present"}
        /\ CanonicalPath(current.path) = CanonicalPath(p)
    BY <1>3, CurrentOK, TargetOK DEF fold, Ready, AssignmentOK
  <2>3. \/ current.state = "null" /\ new = erasedBy(Origin)
        \/ current.state = "present" /\ \E v : new = merged(v, Origin)
        \/ MergeFails(st, current, policy) /\ st.set /\ new = st
    <3> HIDE DEF new
    <3> QED BY <2>1, <2>2, MergeSetCases
  <2> HIDE DEF new
  <2>4. CASE current.state = "null" /\ new = erasedBy(Origin)
    <3>1. n = Origin /\ state = current.state
      BY <2>4 DEF erasedBy, Attributed, new
    <3> QED BY <2>2, <3>1, NewWord
  <2>5. CASE current.state = "present" /\ \E v : new = merged(v, Origin)
    <3>1. n = Origin /\ state = current.state
      BY <2>5 DEF merged, Attributed, new
    <3> QED BY <2>2, <3>1, NewWord
  <2>6. CASE MergeFails(st, current, policy) /\ st.set /\ new = st
    <3>1. p \in DOMAIN values /\ values'[p] = values[p]
      BY <2>1, <2>6 DEF Unset, new
    <3>2. Error("constraint.type_mismatch", p) \in diagnostics'
      BY <2>1, <2>6
    <3>3. n \in 1 .. Origin /\ LastWord(n, p, state)
      BY <1>1, <3>1
    <3> QED BY <2>2, <3>2, <3>3, StillWrote, StillSilent DEF LastWord
  <2> QED BY <2>3, <2>4, <2>5, <2>6
<1> QED BY <1>2, <1>3

(* Whoever a value or an erasure is attributed to has written it, under    *)
(* its field's path, and is the last to have spoken of it: for every       *)
(* description and every sequence of layers (Fold, Provenance).            *)
THEOREM OriginsAreTrue == Spec => []Provenance
<1>1. Init => NoValueAtCollection /\ Provenance
  BY EmptyOrder DEF Init, NoValueAtCollection, Provenance
<1>2. TypeOK /\ NoValueAtCollection /\ Provenance /\ [FoldNext]_foldVars
        => (NoValueAtCollection /\ Provenance)'
  BY NoValueNext, ProvenanceNext
<1> QED BY <1>1, <1>2, TypeCorrect, PTL DEF Spec

------------------------------------------------------------------------------
(* Collections, and what was erased.                                       *)

SameStamp(new, old) ==
  new.provided = old.provided /\ new.origin = old.origin /\ new.erased = old.erased

\* A list or a map is known by its path, and stamped by the layer that says it.
LEMMA CollectionsMove ==
  ASSUME TypeOK, [FoldNext]_foldVars, NEW c \in DOMAIN collections'
  PROVE  LET new == collections'[c]
         IN \/ c \in DOMAIN collections /\ SameStamp(new, collections[c])
            \/ resolveElements /\ IsSeq(c) /\ SameStamp(new, newCollection)
            \/ eraseCollection /\ c = target /\ ~new.provided /\ new.erased = Origin
            \/ provideCollection /\ c = target /\ new.origin = Origin /\ new.erased = 0
<1>1. CASE UNCHANGED collections
  BY <1>1 DEF SameStamp
<1>2. CASE startLayer
  <2>1. c \in DOMAIN collections /\ collections'[c] = forget(collections[c])
    BY <1>2 DEF startLayer
  <2>2. CollectionOK(collections[c], Origin)
    BY <2>1 DEF TypeOK
  <2>3. SameStamp(forget(collections[c]), collections[c])
    BY <2>2 DEF CollectionOK, SameStamp, forget
  <2> QED BY <2>1, <2>3
<1>3. CASE fold
  <2>1. c \in DOMAIN collections /\ collections'[c] = collections[c]
    BY <1>3 DEF fold, dropSubtree, Without, Restrict
  <2> QED BY <2>1 DEF SameStamp
<1>4. CASE resolveElements
  <2> DEFINE i        == Min(Subscripts)
             listPath == resolved \o SubSeq(current.path, Len(resolved) + 1, i - 1)
  <2>1. CASE UNCHANGED collections
    BY <1>1, <2>1
  <2>2. CASE collections' # collections
    <3>1. PICK remap, order :
            collections' = put(collections, listPath,
              [collectionAt(collections, listPath) EXCEPT !.remap = remap, !.order = order])
      BY <1>4, <2>2 DEF resolveElements
    <3>2. IsSeq(listPath)
      <4>1. Folding /\ Rewrites(resolved, current.path) /\ IsSeq(current.path)
        BY <1>4, CurrentOK DEF resolveElements, TypeOK, AssignmentOK, IsPath
      <4>2. Len(resolved) \in Nat /\ Len(current.path) \in Nat
        BY <4>1, SeqOfElements DEF Rewrites
      <4>3. i \in Len(resolved) + 1 .. Len(current.path) + 1
        <5>1. Subscripts \in SUBSET Nat
          BY <4>2 DEF Subscripts
        <5>2. Subscripts # {}
          BY <1>4 DEF resolveElements
        <5>3. i \in Subscripts
          BY <5>1, <5>2, MinOfNats
        <5> QED BY <4>2, <5>3 DEF Subscripts
      <4> HIDE DEF i
      <4> QED BY <4>1, <4>3, RewrittenUpTo DEF Rewrites
    <3> HIDE DEF listPath
    <3>3. CASE c # listPath
      BY <3>1, <3>3 DEF put, SameStamp
    <3>4. CASE c = listPath
      <4> DEFINE old == collectionAt(collections, c)
                 new == [old EXCEPT !.remap = remap, !.order = order]
      <4>1. collections'[c] = new
        BY <3>1, <3>4 DEF put
      <4>2. CollectionOK(old, Origin)
        <5>1. Origin \in Nat
          BY LenProperties DEF TypeOK, Origin
        <5> QED BY <5>1, CollectionAtOK DEF TypeOK
      <4>3. old = IF c \in DOMAIN collections THEN collections[c] ELSE newCollection
        BY DEF collectionAt
      <4> HIDE DEF old
      <4>4. SameStamp(new, old)
        BY <4>2 DEF CollectionOK, SameStamp
      <4> HIDE DEF new
      <4> QED BY <1>4, <3>2, <3>4, <4>1, <4>3, <4>4
    <3> QED BY <3>3, <3>4
  <2> QED BY <2>1, <2>2
<1>5. CASE eraseCollection \/ provideCollection
  <2>1. PICK cols \in {collections, clear(collections, target)} :
          \/ /\ eraseCollection
             /\ collections' = put(cols, target, erasedNow(collectionAt(cols, target)))
          \/ /\ provideCollection
             /\ collections' = put(cols, target, providedNow(collectionAt(cols, target)))
    BY <1>5 DEF eraseCollection, provideCollection
  <2>2. CASE c = target
    <3>1. \/ eraseCollection /\ collections'[c] = erasedNow(collectionAt(cols, target))
          \/ provideCollection /\ collections'[c] = providedNow(collectionAt(cols, target))
      BY <2>1, <2>2 DEF put
    <3> QED BY <2>2, <3>1 DEF erasedNow, providedNow
  <2>3. CASE c # target
    <3>1. c \in DOMAIN cols /\ collections'[c] = cols[c]
      BY <2>1, <2>3 DEF put
    <3>2. c \in DOMAIN collections /\ cols[c] = collections[c]
      BY <2>1, <2>3, <3>1 DEF clear, put
    <3> QED BY <3>1, <3>2 DEF SameStamp
  <2> QED BY <2>2, <2>3
<1>6. CASE clearElement
  <2>1. PICK path, order :
          \/ collections' = collections
          \/ /\ path \in DOMAIN collections
             /\ collections' = put(collections, path, [collections[path] EXCEPT !.order = order])
    BY <1>6 DEF clearElement, removeFrom
  <2>2. CASE collections' = collections
    BY <1>1, <2>2
  <2>3. CASE collections' # collections /\ c = path
    <3>1. /\ c \in DOMAIN collections
          /\ collections'[c] = [collections[c] EXCEPT !.order = order]
      BY <2>1, <2>3 DEF put
    <3>2. CollectionOK(collections[c], Origin)
      BY <3>1 DEF TypeOK
    <3> QED BY <3>1, <3>2 DEF CollectionOK, SameStamp
  <2>4. CASE collections' # collections /\ c # path
    BY <2>1, <2>4 DEF put, SameStamp
  <2> QED BY <2>2, <2>3, <2>4
<1> QED BY <1>1, <1>2, <1>3, <1>4, <1>5, <1>6 DEF FoldNext, foldVars, skipMissing, elementMarker

\* Values and collections are kept under paths.
KeysOK ==
  /\ \A p \in DOMAIN values : IsSeq(p)
  /\ \A c \in DOMAIN collections : IsSeq(c)

LEMMA KeysNext ==
  ASSUME TypeOK, KeysOK, [FoldNext]_foldVars PROVE KeysOK'
<1>1. ASSUME NEW p \in DOMAIN values' PROVE IsSeq(p)
  <2>1. p \in DOMAIN values \/ (fold /\ p = target)
    BY ValuesMove
  <2> QED BY <2>1, TargetOK DEF KeysOK, fold, Rewrites
<1>2. ASSUME NEW c \in DOMAIN collections' PROVE IsSeq(c)
  <2>1. \/ c \in DOMAIN collections \/ IsSeq(c)
        \/ (eraseCollection \/ provideCollection) /\ c = target
    BY CollectionsMove
  <2> QED BY <2>1, TargetOK DEF KeysOK, eraseCollection, provideCollection, Rewrites
<1> QED BY <1>1, <1>2 DEF KeysOK

\* A list or a map is attributed to the layer that provided it, or erased it.
Stamped(c, n, state) ==
  \/ state = "present" /\ c.provided /\ n = c.origin
  \/ state = "null" /\ c.erased # 0 /\ n = c.erased

CollectionsTrue ==
  \A c \in DOMAIN collections : \A n : \A state \in {"present", "null"} :
    Stamped(collections[c], n, state) => Wrote(n, c, state)

LEMMA CollectionsTrueNext ==
  ASSUME TypeOK, CollectionsTrue, [FoldNext]_foldVars PROVE CollectionsTrue'
<1> SUFFICES ASSUME NEW c \in DOMAIN collections', NEW n, NEW state \in {"present", "null"},
                    Stamped(collections'[c], n, state)
             PROVE  Wrote(n, c, state)'
  BY DEF CollectionsTrue, Stamped
<1>1. CASE c \in DOMAIN collections /\ SameStamp(collections'[c], collections[c])
  <2>1. CollectionOK(collections[c], Origin) /\ Origin \in Nat
    BY <1>1, LenProperties DEF TypeOK, Origin
  <2>2. Stamped(collections[c], n, state)
    BY <1>1 DEF SameStamp, Stamped
  <2>3. n \in 1 .. Origin
    BY <2>1, <2>2 DEF CollectionOK, Stamped
  <2>4. Wrote(n, c, state)
    BY <1>1, <2>2 DEF CollectionsTrue
  <2> QED BY <2>3, <2>4, StillWrote
<1>2. CASE SameStamp(collections'[c], newCollection)
  BY <1>2 DEF SameStamp, newCollection, Stamped
<1>3. CASE /\ eraseCollection \/ provideCollection
           /\ c = target /\ n = Origin /\ state = current.state
  <2>1. Folding /\ Consume /\ CanonicalPath(current.path) = CanonicalPath(c)
    BY <1>3, TargetOK DEF eraseCollection, provideCollection, Ready
  <2> QED BY <1>3, <2>1, NewWord DEF LastWord
<1>4. CASE /\ eraseCollection /\ c = target
           /\ ~collections'[c].provided /\ collections'[c].erased = Origin
  <2>1. n = Origin /\ state = current.state
    BY <1>4 DEF Stamped, eraseCollection
  <2> QED BY <1>3, <1>4, <2>1
<1>5. CASE /\ provideCollection /\ c = target
           /\ collections'[c].origin = Origin /\ collections'[c].erased = 0
  <2>1. n = Origin /\ state = current.state
    BY <1>5 DEF Stamped, provideCollection
  <2> QED BY <1>3, <1>5, <2>1
<1> QED BY <1>1, <1>2, <1>4, <1>5, CollectionsMove

\* Whoever an element's erasure is attributed to has erased it.
ErasedTrue == \A p \in DOMAIN erased : Wrote(erased[p], p, "null")

LEMMA ErasedTrueNext ==
  ASSUME TypeOK, ErasedTrue, [FoldNext]_foldVars PROVE ErasedTrue'
<1> SUFFICES ASSUME NEW p \in DOMAIN erased', NEW n, n = erased'[p] PROVE Wrote(n, p, "null")'
  BY DEF ErasedTrue
<1>1. CASE p \in DOMAIN erased /\ erased'[p] = erased[p]
  BY <1>1, StillWrote DEF ErasedTrue, TypeOK
<1>2. CASE clearElement /\ p = target /\ n = Origin
  <2>1. /\ Folding /\ Consume /\ current.state = "null"
        /\ CanonicalPath(current.path) = CanonicalPath(p)
    BY <1>2, TargetOK DEF clearElement, Ready
  <2> QED BY <1>2, <2>1, NewWord DEF LastWord
<1>3. CASE clearElement
  <2>1. erased' = put(erased, target, Origin)
    BY <1>3 DEF clearElement
  <2> QED BY <1>1, <1>2, <1>3, <2>1 DEF put
<1> QED BY <1>1, <1>3
     DEF FoldNext, foldVars, startLayer, skipMissing, resolveElements, eraseCollection,
         provideCollection, elementMarker, fold
==============================================================================
