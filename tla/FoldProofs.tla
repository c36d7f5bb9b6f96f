------------------------------ MODULE FoldProofs ------------------------------
(***************************************************************************)
(* Theorems about Fold, for every description, every set of layers and     *)
(* every number of sources, and the lemmas they rest on.                   *)
(***************************************************************************)
EXTENDS Fold, SequenceLemmas, FiniteSetTheorems, TLAPS

------------------------------------------------------------------------------
(* Minima.                                                                 *)

\* A set of natural numbers has a minimum, and Min is it.
LEMMA MinOfNats ==
  ASSUME NEW S \in SUBSET Nat, S # {}
  PROVE  Min(S) \in S /\ \A y \in S : Min(S) <= y
<1> DEFINE below(n) == 1 .. n
           T == {below(n) : n \in S}
<1>1. T \subseteq FiniteSubsetsOf(Nat)
  <2> SUFFICES ASSUME NEW n \in S PROVE below(n) \in FiniteSubsetsOf(Nat)
    OBVIOUS
  <2>1. IsFiniteSet(1 .. n)
    BY FS_Interval
  <2> QED BY <2>1 DEF FiniteSubsetsOf
<1>2. PICK t \in T : \A u \in T : ~ (<<u, t>> \in StrictSubsetOrdering(Nat))
  <2>1. T # {}
    OBVIOUS
  <2>2. IsWellFoundedOn(StrictSubsetOrdering(Nat), FiniteSubsetsOf(Nat))
    BY FS_StrictSubsetOrderingWellFounded
  <2> HIDE DEF T
  <2> QED BY <1>1, <2>1, <2>2, WFMin
<1>3. PICK m \in S : t = below(m)
  OBVIOUS
<1>4. \A n \in S : m <= n
  <2> SUFFICES ASSUME NEW n \in S, n < m PROVE FALSE
    OBVIOUS
  <2>1. below(n) \subseteq below(m) /\ m \in below(m) /\ m \notin below(n)
    OBVIOUS
  <2>2. below(n) \in SUBSET Nat /\ below(m) \in SUBSET Nat
    OBVIOUS
  <2>3. <<below(n), below(m)>> \in StrictSubsetOrdering(Nat)
    BY <2>1, <2>2 DEF StrictSubsetOrdering
  <2> QED BY <1>2, <1>3, <2>3
<1> QED BY <1>4 DEF Min

\* index finds the element it is asked for.
LEMMA IndexOf ==
  ASSUME NEW order, NEW sub, IsSeq(order), Contains(order, sub)
  PROVE  index(order, sub) \in 1 .. Len(order) /\ order[index(order, sub)] = sub
<1> DEFINE S == {i \in DOMAIN order : order[i] = sub}
<1>1. S \in SUBSET Nat /\ S # {} /\ DOMAIN order = 1 .. Len(order)
  BY SeqOfElements DEF Contains
<1>2. Min(S) \in S
  BY <1>1, MinOfNats
<1> QED BY <1>1, <1>2 DEF index

------------------------------------------------------------------------------
(* The order of a collection.                                              *)

\* The ways a step may change an order: forget it, add at the end, remove.
OrderMoves(old, new) ==
  \/ new = old
  \/ new = <<>>
  \/ \E sub : ~Contains(old, sub) /\ new = Append(old, sub)
  \/ \E i \in 1 .. Len(old) : new = RemoveAt(old, i)

LEMMA EmptyOrder == IsSeq(<<>>) /\ IsInjective(<<>>) /\ DOMAIN <<>> = {}
<1>1. <<>> \in Seq({}) /\ Len(<<>>) = 0
  BY EmptySeq
<1>2. IsSeq(<<>>)
  BY <1>1, SeqIsSeq
<1> QED BY <1>1, <1>2, SeqOfElements DEF IsInjective

\* No such change repeats an element.
LEMMA OrderStaysInjective ==
  ASSUME NEW old, NEW new, IsSeq(old), IsInjective(old), OrderMoves(old, new)
  PROVE  IsSeq(new) /\ IsInjective(new)
<1>1. Len(old) \in Nat /\ DOMAIN old = 1 .. Len(old)
  BY SeqOfElements
<1>2. CASE new = old
  BY <1>2
<1>3. CASE new = <<>>
  BY <1>3, EmptyOrder
<1>4. ASSUME NEW sub, ~Contains(old, sub), new = Append(old, sub)
      PROVE  IsSeq(new) /\ IsInjective(new)
  <2>1. /\ IsSeq(new) /\ Len(new) = Len(old) + 1
        /\ \A i \in 1 .. Len(old) : new[i] = old[i]
        /\ new[Len(old) + 1] = sub
    BY <1>4, AppendToSeq
  <2>2. DOMAIN new = 1 .. Len(old) + 1
    BY <2>1, SeqOfElements
  <2>3. \A i \in 1 .. Len(old) : old[i] # sub
    BY <1>4 DEF Contains
  <2> QED BY <1>1, <2>1, <2>2, <2>3 DEF IsInjective
<1>5. ASSUME NEW i \in 1 .. Len(old), new = RemoveAt(old, i)
      PROVE  IsSeq(new) /\ IsInjective(new)
  <2>1. /\ IsSeq(new) /\ Len(new) = Len(old) - 1
        /\ \A j \in 1 .. Len(old) - 1 : new[j] = IF j < i THEN old[j] ELSE old[j + 1]
    BY <1>5, RemoveAtFromSeq
  <2>2. DOMAIN new = 1 .. Len(old) - 1
    BY <2>1, SeqOfElements
  <2>3. ASSUME NEW a \in DOMAIN new, NEW b \in DOMAIN new, new[a] = new[b]
        PROVE  a = b
    <3> DEFINE was(n) == IF n < i THEN n ELSE n + 1
    <3>1. /\ was(a) \in DOMAIN old /\ new[a] = old[was(a)]
          /\ was(b) \in DOMAIN old /\ new[b] = old[was(b)]
      BY <1>1, <2>1, <2>2
    <3>2. was(a) = was(b)
      <4> HIDE DEF was
      <4> QED BY <2>3, <3>1 DEF IsInjective
    <3> QED BY <1>1, <2>2, <3>2
  <2> QED BY <2>1, <2>3 DEF IsInjective
<1> QED BY <1>2, <1>3, <1>4, <1>5 DEF OrderMoves

\* Nor does it exchange two elements.
LEMMA OrderStaysKept ==
  ASSUME NEW old, NEW new, IsSeq(old), IsInjective(old), OrderMoves(old, new),
         NEW i \in DOMAIN old, NEW j \in DOMAIN old,
         NEW k \in DOMAIN new, NEW l \in DOMAIN new,
         i < j, old[i] = new[k], old[j] = new[l]
  PROVE  k < l
<1>1. Len(old) \in Nat /\ DOMAIN old = 1 .. Len(old)
  BY SeqOfElements
<1>2. CASE new = old
  BY <1>1, <1>2 DEF IsInjective
<1>3. CASE new = <<>>
  BY <1>3, EmptyOrder
<1>4. ASSUME NEW sub, ~Contains(old, sub), new = Append(old, sub)
      PROVE  k < l
  <2>1. /\ DOMAIN new = 1 .. Len(old) + 1
        /\ \A n \in 1 .. Len(old) : new[n] = old[n]
        /\ new[Len(old) + 1] = sub
    BY <1>4, AppendToSeq, SeqOfElements
  <2>2. \A n \in 1 .. Len(old) : old[n] # sub
    BY <1>4 DEF Contains
  <2>3. k \in 1 .. Len(old) /\ l \in 1 .. Len(old)
    BY <1>1, <2>1, <2>2
  <2>4. k = i /\ l = j
    BY <1>1, <2>1, <2>3 DEF IsInjective
  <2> QED BY <2>4
<1>5. ASSUME NEW n \in 1 .. Len(old), new = RemoveAt(old, n)
      PROVE  k < l
  <2>1. /\ IsSeq(new) /\ Len(new) = Len(old) - 1
        /\ \A m \in 1 .. Len(old) - 1 : new[m] = IF m < n THEN old[m] ELSE old[m + 1]
    BY <1>5, RemoveAtFromSeq
  <2>2. DOMAIN new = 1 .. Len(old) - 1
    BY <2>1, SeqOfElements
  <2> DEFINE was(m) == IF m < n THEN m ELSE m + 1
  <2>3. /\ was(k) \in DOMAIN old /\ new[k] = old[was(k)]
        /\ was(l) \in DOMAIN old /\ new[l] = old[was(l)]
    BY <1>1, <2>1, <2>2
  <2>4. i = was(k) /\ j = was(l)
    <3> HIDE DEF was
    <3> QED BY <2>3 DEF IsInjective
  <2> QED BY <1>1, <2>2, <2>4
<1> QED BY <1>2, <1>3, <1>4, <1>5 DEF OrderMoves

------------------------------------------------------------------------------
(* The records of collections.                                             *)

LEMMA NewCollectionOK ==
  ASSUME NEW last \in Nat
  PROVE  CollectionOK(newCollection, last)
BY EmptyOrder DEF CollectionOK, newCollection

LEMMA CollectionAtOK ==
  ASSUME NEW last \in Nat, NEW cols, NEW path,
         \A c \in DOMAIN cols : CollectionOK(cols[c], last)
  PROVE  CollectionOK(collectionAt(cols, path), last)
BY NewCollectionOK DEF collectionAt

LEMMA PutCollectionOK ==
  ASSUME NEW last \in Nat, NEW cols, NEW path, NEW record,
         \A c \in DOMAIN cols : CollectionOK(cols[c], last),
         CollectionOK(record, last)
  PROVE  \A c \in DOMAIN put(cols, path, record) :
           CollectionOK(put(cols, path, record)[c], last)
<1> TAKE c \in DOMAIN put(cols, path, record)
<1>1. CASE c = path
  BY <1>1 DEF put
<1>2. CASE c # path
  <2>1. c \in DOMAIN cols /\ put(cols, path, record)[c] = cols[c]
    BY <1>2 DEF put
  <2> QED BY <2>1
<1> QED BY <1>1, <1>2

\* A record whose order moves, or whose remap grows or is forgotten.
LEMMA ReorderedOK ==
  ASSUME NEW last \in Nat, NEW record, CollectionOK(record, last), NEW remap, NEW order,
         OrderMoves(record.order, order)
  PROVE  CollectionOK([record EXCEPT !.remap = remap, !.order = order], last)
<1>1. IsSeq(order) /\ IsInjective(order)
  BY OrderStaysInjective DEF CollectionOK
<1> QED BY <1>1 DEF CollectionOK

------------------------------------------------------------------------------
(* Loops.                                                                  *)

\* While fold loops over a layer, the layer and its assignment exist.
LEMMA AssignmentAt ==
  ASSUME NEW layers \in Seq(Layers), layers # <<>>, NEW n \in Nat,
         n < Len(layers[Len(layers)].assignments)
  PROVE  /\ Len(layers) \in Nat \ {0}
         /\ layers[Len(layers)] \in Layers
         /\ n + 1 \in 1 .. Len(layers[Len(layers)].assignments)
         /\ AssignmentOK(layers[Len(layers)].assignments[n + 1])
<1>1. Len(layers) \in Nat \ {0}
  BY EmptySeq
<1>2. layers[Len(layers)] \in Layers
  BY <1>1, ElementOfSeq
<1> DEFINE all == layers[Len(layers)].assignments
<1>3. IsSeq(all) /\ \A i \in DOMAIN all : AssignmentOK(all[i])
  BY <1>2, LayersOK
<1>4. Len(all) \in Nat /\ DOMAIN all = 1 .. Len(all)
  BY <1>3, SeqOfElements
<1>5. n + 1 \in 1 .. Len(all)
  BY <1>4
<1> QED BY <1>1, <1>2, <1>3, <1>4, <1>5

LEMMA CurrentOK ==
  ASSUME TypeOK, Folding
  PROVE  /\ Origin \in Nat \ {0}
         /\ sources[Origin] \in Layers
         /\ folded + 1 \in 1 .. Len(Layer(Origin))
         /\ AssignmentOK(current)
BY AssignmentAt DEF TypeOK, Folding, Origin, Layer, current

\* Every action but startLayer leaves the sources alone.
LEMMA SourcesKept ==
  ASSUME FoldNext, ~startLayer
  PROVE  UNCHANGED sources /\ Folding
BY DEF FoldNext, skipMissing, resolveElements, eraseCollection, provideCollection,
       elementMarker, clearElement, fold, Ready, Consume

\* The layers and the place in them.
LEMMA SourcesOK ==
  ASSUME TypeOK, [FoldNext]_foldVars
  PROVE  /\ sources' \in Seq(Layers) /\ Origin' \in Nat /\ Origin' <= MaxLayers
         /\ Origin <= Origin'
         /\ folded' \in Nat /\ (sources' # <<>> => folded' <= Len(Layer(Origin))')
<1>1. sources \in Seq(Layers) /\ Origin \in Nat /\ Origin <= MaxLayers /\ folded \in Nat
  BY LenProperties DEF TypeOK, Origin
<1>2. CASE UNCHANGED foldVars
  BY <1>1, <1>2 DEF TypeOK, Origin, Layer, foldVars
<1>3. CASE startLayer
  <2>1. PICK layer \in Layers : sources' = Append(sources, layer)
    BY <1>3 DEF startLayer
  <2>2. sources' \in Seq(Layers) /\ Len(sources') = Len(sources) + 1 /\ sources'[Len(sources')] = layer
    BY <1>1, <2>1, AppendProperties
  <2>3. folded' = 0 /\ Len(sources) < MaxLayers
    BY <1>3 DEF startLayer
  <2>4. Len(layer.assignments) \in Nat
    BY LayersOK, SeqOfElements
  <2>5. Layer(Origin)' = layer.assignments
    BY <2>2 DEF Layer, Origin
  <2> QED BY <1>1, <2>2, <2>3, <2>4, <2>5, MaxLayersOK DEF Origin
<1>4. CASE FoldNext /\ ~startLayer
  <2>1. sources' = sources /\ Folding
    BY <1>4, SourcesKept
  <2>2. folded' \in {folded, folded + 1}
    BY <1>4 DEF FoldNext, skipMissing, resolveElements, eraseCollection, provideCollection,
                elementMarker, clearElement, fold, Consume
  <2>3. folded + 1 \in 1 .. Len(Layer(Origin)) /\ folded \in Nat
    BY <1>1, <2>1, CurrentOK
  <2>4. Layer(Origin)' = Layer(Origin) /\ Origin' = Origin
    BY <2>1 DEF Layer, Origin
  <2>5. Len(Layer(Origin)) \in Nat
    BY <2>1, <2>3, CurrentOK, LayersOK, SeqOfElements DEF Layer
  <2> QED BY <1>1, <2>1, <2>2, <2>3, <2>4, <2>5
<1> QED BY <1>2, <1>3, <1>4

------------------------------------------------------------------------------
(* Values and erasures.                                                    *)

LEMMA MergeSetOK ==
  ASSUME NEW last \in Nat \ {0}, NEW st, MergedOK(st, last), NEW a, NEW how
  PROVE  MergedOK(mergeSet(st, a, how, last), last)
<1> DEFINE new == mergeSet(st, a, how, last)
<1>1. ASSUME NEW value PROVE MergedOK(merged(value, last), last)
  BY DEF MergedOK, merged
<1>2. MergedOK(erasedBy(last), last)
  BY DEF MergedOK, erasedBy
<1>3. \/ new = st
      \/ new = erasedBy(last)
      \/ new = merged(a.value, last)
      \/ new = merged(combine(how, st.value, a.value), last)
  BY DEF mergeSet
<1> HIDE DEF new
<1>4. MergedOK(new, last)
  BY <1>1, <1>2, <1>3
<1> QED BY <1>4 DEF new

LEMMA UnsetOK == ASSUME NEW last \in Nat PROVE MergedOK(Unset, last)
BY DEF MergedOK, Unset

LEMMA LaterMergedOK ==
  ASSUME NEW n \in Nat, NEW m \in Nat, n <= m, NEW st, MergedOK(st, n)
  PROVE  MergedOK(st, m)
BY DEF MergedOK

\* A step keeps a value, deletes it, or merges the current assignment into it.
LEMMA ValuesMove ==
  ASSUME [FoldNext]_foldVars, NEW p \in DOMAIN values'
  PROVE  \/ p \in DOMAIN values /\ values'[p] = values[p]
         \/ /\ fold /\ p = target
            /\ \E st : /\ st = Unset \/ (p \in DOMAIN values /\ st = values[p])
                      /\ values'[p] = mergeSet(st, current, policy, Origin)
<1>1. CASE UNCHANGED values
  BY <1>1
<1>2. CASE eraseCollection \/ provideCollection \/ clearElement
  <2>1. PICK S : values' = values \/ values' = Without(values, S)
    BY <1>2 DEF eraseCollection, provideCollection, clearElement, clearValues
  <2> QED BY <2>1 DEF Without, Restrict
<1>3. CASE fold
  <2> DEFINE vals == dropOtherSpelling(dropSubtree(values), target)
             st   == IF target \in DOMAIN vals THEN vals[target] ELSE Unset
  <2>1. values' = put(vals, target, mergeSet(st, current, policy, Origin))
    BY <1>3 DEF fold
  <2>2. \A q \in DOMAIN vals : q \in DOMAIN values /\ vals[q] = values[q]
    <3>1. \A q \in DOMAIN dropSubtree(values) :
            q \in DOMAIN values /\ dropSubtree(values)[q] = values[q]
      BY DEF dropSubtree, Without, Restrict
    <3>2. PICK S : vals = dropSubtree(values) \/ vals = Without(dropSubtree(values), S)
      BY DEF dropOtherSpelling
    <3> QED BY <3>1, <3>2 DEF Without, Restrict
  <2>3. st = Unset \/ (target \in DOMAIN values /\ st = values[target])
    BY <2>2
  <2> HIDE DEF st, vals
  <2>4. CASE p = target
    <3>1. values'[p] = mergeSet(st, current, policy, Origin)
      BY <2>1, <2>4 DEF put
    <3> QED BY <1>3, <2>3, <2>4, <3>1
  <2>5. CASE p # target
    BY <2>1, <2>2, <2>5 DEF put
  <2> QED BY <2>4, <2>5
<1> QED BY <1>1, <1>2, <1>3
     DEF FoldNext, foldVars, startLayer, skipMissing, resolveElements, elementMarker

LEMMA ValuesOK ==
  ASSUME TypeOK, [FoldNext]_foldVars
  PROVE  \A p \in DOMAIN values' : MergedOK(values'[p], Origin')
<1> TAKE p \in DOMAIN values'
<1>1. Origin \in Nat /\ Origin' \in Nat /\ Origin <= Origin'
  BY SourcesOK, LenProperties DEF TypeOK, Origin
<1>2. CASE p \in DOMAIN values /\ values'[p] = values[p]
  BY <1>1, <1>2, LaterMergedOK DEF TypeOK
<1>3. ASSUME fold,
             NEW st, st = Unset \/ (p \in DOMAIN values /\ st = values[p]),
             values'[p] = mergeSet(st, current, policy, Origin)
      PROVE  MergedOK(values'[p], Origin')
  <2>1. MergedOK(st, Origin)
    BY <1>1, <1>3, UnsetOK DEF TypeOK
  <2>2. Origin \in Nat \ {0} /\ Origin' = Origin
    BY <1>3, CurrentOK DEF fold, Ready, Consume, Origin
  <2> QED BY <1>3, <2>1, <2>2, MergeSetOK
<1> QED BY <1>2, <1>3, ValuesMove

LEMMA ErasedOK ==
  ASSUME TypeOK, [FoldNext]_foldVars
  PROVE  \A p \in DOMAIN erased' : erased'[p] \in 1 .. Origin'
<1> TAKE p \in DOMAIN erased'
<1>1. Origin \in Nat /\ Origin' \in Nat /\ Origin <= Origin'
  BY SourcesOK, LenProperties DEF TypeOK, Origin
<1>2. CASE UNCHANGED erased
  BY <1>1, <1>2 DEF TypeOK
<1>3. CASE clearElement
  <2>1. Origin \in 1 .. Origin' /\ Origin' = Origin
    BY <1>1, <1>3, CurrentOK DEF clearElement, Ready, Consume, Origin
  <2>2. erased' = put(erased, target, Origin)
    BY <1>3 DEF clearElement
  <2>3. CASE p = target
    BY <2>1, <2>2, <2>3 DEF put
  <2>4. CASE p # target
    BY <2>1, <2>2, <2>4 DEF put, TypeOK
  <2> QED BY <2>3, <2>4
<1> QED BY <1>2, <1>3
     DEF FoldNext, foldVars, startLayer, skipMissing, resolveElements, eraseCollection,
         provideCollection, elementMarker, fold
------------------------------------------------------------------------------
(* Collections.                                                            *)

\* What a step makes of a collection's record: an order moved, nothing broken.
Evolves(c, last) ==
  /\ OrderMoves(collectionAt(collections, c).order, collections'[c].order)
  /\ CollectionOK(collections'[c], last)

LEMMA LaterCollectionOK ==
  ASSUME NEW n \in Nat, NEW m \in Nat, n <= m, NEW c, CollectionOK(c, n)
  PROVE  CollectionOK(c, m)
BY DEF CollectionOK

\* One record rewritten: the rest of the map evolves by standing still.
LEMMA OneRewritten ==
  ASSUME TypeOK, NEW last \in Nat, Origin \in Nat, Origin <= last,
         NEW path, NEW record, collections' = put(collections, path, record),
         OrderMoves(collectionAt(collections, path).order, record.order),
         CollectionOK(record, last)
  PROVE  \A c \in DOMAIN collections' : Evolves(c, last)
<1> TAKE c \in DOMAIN collections'
<1>1. CASE c = path
  BY <1>1 DEF put, Evolves
<1>2. CASE c # path
  <2>1. c \in DOMAIN collections /\ collections'[c] = collections[c]
    BY <1>2 DEF put
  <2>2. CollectionOK(collections[c], last)
    BY <2>1, LaterCollectionOK DEF TypeOK
  <2> QED BY <2>1, <2>2 DEF Evolves, OrderMoves, collectionAt
<1> QED BY <1>1, <1>2

LEMMA ResolveElementsEvolves ==
  ASSUME TypeOK, resolveElements
  PROVE  \A c \in DOMAIN collections' : Evolves(c, Origin)
<1>1. Origin \in Nat
  BY LenProperties DEF TypeOK, Origin
<1>2. CASE UNCHANGED collections
  BY <1>2 DEF Evolves, OrderMoves, collectionAt, TypeOK
<1>3. ASSUME NEW path, NEW remap, NEW order, NEW final,
             LET c == collectionAt(collections, path) IN
             /\ collections' = put(collections, path, [c EXCEPT !.remap = remap, !.order = order])
             /\ order = c.order \/ (~Contains(c.order, final) /\ order = Append(c.order, final))
      PROVE  \A c \in DOMAIN collections' : Evolves(c, Origin)
  <2> DEFINE c      == collectionAt(collections, path)
             record == [c EXCEPT !.remap = remap, !.order = order]
  <2>1. CollectionOK(c, Origin)
    BY <1>1, CollectionAtOK DEF TypeOK
  <2>2. OrderMoves(c.order, order)
    BY <1>3 DEF OrderMoves
  <2>3. CollectionOK(record, Origin)
    <3> HIDE DEF c
    <3> QED BY <1>1, <2>1, <2>2, ReorderedOK
  <2>4. record.order = order
    <3> HIDE DEF c
    <3> QED BY <2>1 DEF CollectionOK
  <2>5. collections' = put(collections, path, record)
    BY <1>3
  <2> HIDE DEF record
  <2> QED BY <1>1, <2>2, <2>3, <2>4, <2>5, OneRewritten
<1> DEFINE i        == Min(Subscripts)
           listPath == resolved \o SubSeq(current.path, Len(resolved) + 1, i - 1)
           sub      == current.path[i][2]
           c        == collectionAt(collections, listPath)
           known    == sub \in DOMAIN c.remap
           final    == IF known THEN c.remap[sub]
                       ELSE slot(c, byPath[CanonicalPath(listPath)], sub)
           order    == IF known \/ Contains(c.order, final) THEN c.order
                       ELSE Append(c.order, final)
<1>4. CASE CanonicalPath(listPath) \in DOMAIN byPath
  <2>1. collections' = put(collections, listPath,
                           [c EXCEPT !.remap = put(@, sub, final), !.order = order])
    BY <1>4 DEF resolveElements
  <2>2. order = c.order \/ (~Contains(c.order, final) /\ order = Append(c.order, final))
    OBVIOUS
  <2> HIDE DEF order, final, known, sub, listPath
  <2> QED BY <1>3, <2>1, <2>2
<1>5. CASE CanonicalPath(listPath) \notin DOMAIN byPath
  BY <1>2, <1>5 DEF resolveElements
<1> QED BY <1>4, <1>5

LEMMA StampedOK ==
  ASSUME Origin \in Nat \ {0}, NEW c, CollectionOK(c, Origin)
  PROVE  \A new \in {erasedNow(c), providedNow(c)} :
           CollectionOK(new, Origin) /\ new.order = c.order
<1> DEFINE last == Origin
<1>1. /\ IsSeq(c.order) /\ IsInjective(c.order)
      /\ c.origin \in 0 .. last /\ last \in Nat \ {0}
  BY DEF CollectionOK
<1> HIDE DEF last
<1>2. ASSUME NEW new, new = [order |-> c.order, remap |-> c.remap, provided |-> FALSE,
                             origin |-> c.origin, erased |-> last]
      PROVE  CollectionOK(new, last) /\ new.order = c.order
  <2>1. new.order = c.order /\ ~new.provided
    BY <1>2
  <2>2. new \in [order : {new.order}, remap : {new.remap}, provided : BOOLEAN,
                 origin : 0 .. last, erased : 0 .. last]
    BY <1>1, <1>2
  <2> QED BY <1>1, <2>1, <2>2 DEF CollectionOK
<1>3. ASSUME NEW new, new = [order |-> c.order, remap |-> c.remap, provided |-> TRUE,
                             origin |-> last, erased |-> 0]
      PROVE  CollectionOK(new, last) /\ new.order = c.order
  <2>1. new.order = c.order /\ new.origin # 0 /\ new.erased = 0
    BY <1>1, <1>3
  <2>2. new \in [order : {new.order}, remap : {new.remap}, provided : BOOLEAN,
                 origin : 0 .. last, erased : 0 .. last]
    BY <1>1, <1>3
  <2> QED BY <1>1, <2>1, <2>2 DEF CollectionOK
<1>4. /\ CollectionOK(erasedNow(c), last) /\ erasedNow(c).order = c.order
      /\ CollectionOK(providedNow(c), last) /\ providedNow(c).order = c.order
  BY <1>2, <1>3, Zenon DEF erasedNow, providedNow, last
<1> QED BY <1>4 DEF last

LEMMA EraseCollectionEvolves ==
  ASSUME TypeOK, eraseCollection \/ provideCollection
  PROVE  \A c \in DOMAIN collections' : Evolves(c, Origin)
<1>1. Origin \in Nat \ {0}
  BY CurrentOK DEF eraseCollection, provideCollection, Ready
<1> DEFINE old == collectionAt(collections, target)
<1>2. CollectionOK(old, Origin)
  BY <1>1, CollectionAtOK DEF TypeOK
<1>3. PICK cols \in {collections, clear(collections, target)} :
        \/ collections' = put(cols, target, erasedNow(collectionAt(cols, target)))
        \/ collections' = put(cols, target, providedNow(collectionAt(cols, target)))
  BY DEF eraseCollection, provideCollection
<1> DEFINE now == collectionAt(cols, target)
<1>4. /\ now.order = old.order \/ now.order = <<>>
      /\ CollectionOK(now, Origin)
      /\ \A r : put(cols, target, r) = put(collections, target, r)
  <2>1. CASE cols = collections
    BY <1>2, <2>1
  <2>2. CASE cols = clear(collections, target) /\ target \notin DOMAIN collections
    BY <1>2, <2>2 DEF clear
  <2>3. CASE cols = clear(collections, target) /\ target \in DOMAIN collections
    <3> DEFINE record == [old EXCEPT !.order = <<>>]
    <3>1. old = collections[target] /\ cols = put(collections, target, record)
      BY <2>3 DEF clear, collectionAt
    <3>2. CollectionOK(record, Origin) /\ record.order = <<>>
      <4> HIDE DEF old
      <4> QED BY <1>2, EmptyOrder DEF CollectionOK
    <3> HIDE DEF record
    <3>3. now = record
      BY <3>1 DEF collectionAt, put
    <3>4. \A r : put(cols, target, r) = put(collections, target, r)
      <4> TAKE r
      <4>1. DOMAIN cols = DOMAIN collections \cup {target}
        BY <3>1 DEF put
      <4>2. \A c \in DOMAIN collections \ {target} : cols[c] = collections[c]
        BY <3>1 DEF put
      <4> QED BY <4>1, <4>2 DEF put
    <3> QED BY <3>2, <3>3, <3>4
  <2> QED BY <2>1, <2>2, <2>3
<1> HIDE DEF now, old
<1>5. PICK record \in {erasedNow(now), providedNow(now)} :
        collections' = put(collections, target, record)
  BY <1>3, <1>4 DEF now
<1>6. CollectionOK(record, Origin) /\ record.order = now.order
  BY <1>1, <1>4, StampedOK
<1>7. OrderMoves(old.order, record.order)
  BY <1>4, <1>6 DEF OrderMoves
<1> QED BY <1>1, <1>5, <1>6, <1>7, OneRewritten DEF old

LEMMA ClearElementEvolves ==
  ASSUME TypeOK, clearElement
  PROVE  \A c \in DOMAIN collections' : Evolves(c, Origin)
<1>1. Origin \in Nat
  BY LenProperties DEF TypeOK, Origin
<1> DEFINE path  == Front(target)
           sub   == Last(target)[2]
           old   == collections[path].order
           order == RemoveAt(old, index(old, sub))
<1>2. collections' = removeFrom(collections, path, sub)
  BY DEF clearElement
<1> HIDE DEF path, sub
<1>3. CASE path \in DOMAIN collections /\ Contains(old, sub)
  <2> DEFINE record == [collections[path] EXCEPT !.order = order]
  <2>1. CollectionOK(collections[path], Origin)
    BY <1>3 DEF TypeOK
  <2>2. collections' = put(collections, path, record)
    BY <1>2, <1>3 DEF removeFrom
  <2>3. IsSeq(old) /\ IsInjective(old)
    BY <2>1 DEF CollectionOK
  <2>4. index(old, sub) \in 1 .. Len(old)
    BY <1>3, <2>3, IndexOf
  <2>5. OrderMoves(old, order)
    BY <2>4 DEF OrderMoves
  <2>6. IsSeq(order) /\ IsInjective(order)
    BY <2>3, <2>5, OrderStaysInjective
  <2> HIDE DEF order
  <2>7. CollectionOK(record, Origin) /\ record.order = order
    BY <2>1, <2>6 DEF CollectionOK
  <2>8. collectionAt(collections, path).order = old
    BY <1>3 DEF collectionAt
  <2> HIDE DEF record, old
  <2> QED BY <1>1, <2>2, <2>5, <2>7, <2>8, OneRewritten
<1>4. CASE UNCHANGED collections
  BY <1>4 DEF Evolves, OrderMoves, collectionAt, TypeOK
<1> QED BY <1>2, <1>3, <1>4 DEF removeFrom

LEMMA CollectionsEvolve ==
  ASSUME TypeOK, [FoldNext]_foldVars
  PROVE  \A c \in DOMAIN collections' : Evolves(c, Origin')
<1>1. Origin \in Nat /\ Origin' \in Nat /\ Origin <= Origin'
  BY SourcesOK, LenProperties DEF TypeOK, Origin
<1>2. CASE UNCHANGED collections
  BY <1>1, <1>2, LaterCollectionOK DEF Evolves, OrderMoves, collectionAt, TypeOK
<1>3. CASE startLayer
  <2> TAKE c \in DOMAIN collections'
  <2>1. c \in DOMAIN collections /\ collections'[c] = forget(collections[c])
    BY <1>3 DEF startLayer
  <2>2. CollectionOK(collections[c], Origin')
    BY <1>1, <2>1, LaterCollectionOK DEF TypeOK
  <2>3. /\ CollectionOK(forget(collections[c]), Origin')
        /\ forget(collections[c]).order = collections[c].order
    BY <2>2 DEF CollectionOK, forget
  <2> QED BY <2>1, <2>3 DEF Evolves, OrderMoves, collectionAt
<1>4. CASE fold
  <2> TAKE c \in DOMAIN collections'
  <2>1. c \in DOMAIN collections /\ collections'[c] = collections[c]
    BY <1>4 DEF fold, dropSubtree, Without, Restrict
  <2>2. CollectionOK(collections[c], Origin')
    BY <1>1, <2>1, LaterCollectionOK DEF TypeOK
  <2> QED BY <2>1, <2>2 DEF Evolves, OrderMoves, collectionAt
<1>5. CASE resolveElements
  BY <1>5, ResolveElementsEvolves, SourcesKept DEF FoldNext, resolveElements, Consume, Origin
<1>6. CASE eraseCollection \/ provideCollection
  BY <1>6, EraseCollectionEvolves DEF eraseCollection, provideCollection, Consume, Origin
<1>7. CASE clearElement
  BY <1>7, ClearElementEvolves DEF clearElement, Consume, Origin
<1> QED BY <1>2, <1>3, <1>4, <1>5, <1>6, <1>7 DEF FoldNext, foldVars, skipMissing, elementMarker
------------------------------------------------------------------------------
(* The path resolveElements rewrites.                                      *)

\* The part rewritten so far, and what the layer's path has up to i.
LEMMA RewrittenUpTo ==
  ASSUME NEW p, NEW q, IsSeq(q), Rewrites(p, q), NEW i \in Len(p) + 1 .. Len(q) + 1
  PROVE  LET r == p \o SubSeq(q, Len(p) + 1, i - 1)
         IN /\ Len(r) = i - 1 /\ Rewrites(r, q)
            /\ \A k \in 1 .. i - 1 : r[k] = IF k <= Len(p) THEN p[k] ELSE q[k]
<1> DEFINE S    == {p[k] : k \in 1 .. Len(p)} \cup {q[k] : k \in 1 .. Len(q)}
           rest == SubSeq(q, Len(p) + 1, i - 1)
           r    == p \o rest
<1>1. IsSeq(p) /\ Len(p) \in Nat /\ Len(q) \in Nat /\ Len(p) <= Len(q)
  BY SeqOfElements DEF Rewrites
<1>2. p \in Seq(S)
  <2>1. p \in Seq({p[k] : k \in 1 .. Len(p)})
    BY <1>1, SeqOfElements
  <2>2. {p[k] : k \in 1 .. Len(p)} \subseteq S
    OBVIOUS
  <2> HIDE DEF S
  <2> QED BY <2>1, <2>2, SeqMonotonic
<1>3. \A k \in Len(p) + 1 .. i - 1 : q[k] \in S
  BY <1>1
<1> HIDE DEF S
<1>4. /\ rest \in Seq(S) /\ Len(rest) = i - 1 - Len(p)
      /\ \A k \in 1 .. i - 1 - Len(p) : rest[k] = q[Len(p) + k]
  BY <1>1, <1>3, SubSeqProperties
<1> HIDE DEF rest
<1>5. /\ r \in Seq(S) /\ Len(r) = Len(p) + Len(rest)
      /\ \A k \in 1 .. Len(p) + Len(rest) :
           r[k] = IF k <= Len(p) THEN p[k] ELSE rest[k - Len(p)]
  BY <1>2, <1>4, ConcatProperties
<1> HIDE DEF r
<1>6. Len(r) = i - 1 /\ IsSeq(r)
  BY <1>1, <1>4, <1>5, SeqIsSeq
<1>7. \A k \in 1 .. i - 1 : r[k] = IF k <= Len(p) THEN p[k] ELSE q[k]
  BY <1>1, <1>4, <1>5
<1>8. Rewrites(r, q)
  BY <1>1, <1>6, <1>7 DEF Rewrites
<1> QED BY <1>6, <1>7, <1>8 DEF r, rest

\* One subscript more.
LEMMA RewrittenElement ==
  ASSUME NEW p, NEW q, IsSeq(q), Rewrites(p, q), Len(p) < Len(q),
         IsElem(q[Len(p) + 1]), NEW sub
  PROVE  Rewrites(ElementPath(p, sub), q)
<1> DEFINE r == ElementPath(p, sub)
<1>1. IsSeq(p) /\ Len(p) \in Nat /\ Len(q) \in Nat
  BY SeqOfElements DEF Rewrites
<1>2. /\ IsSeq(r) /\ Len(r) = Len(p) + 1
      /\ \A i \in 1 .. Len(p) : r[i] = p[i]
      /\ r[Len(p) + 1] = ElemSeg(sub)
  BY <1>1, AppendToSeq DEF ElementPath
<1>3. IsElem(ElemSeg(sub))
  BY DEF IsElem, ElemSeg
<1> HIDE DEF r
<1>4. Rewrites(r, q)
  BY <1>1, <1>2, <1>3 DEF Rewrites
<1> QED BY <1>4 DEF r

LEMMA NothingRewritten ==
  ASSUME NEW q, IsSeq(q) PROVE Rewrites(<<>>, q)
<1>1. Len(q) \in Nat /\ Len(<<>>) = 0 /\ IsSeq(<<>>)
  BY SeqOfElements, EmptyOrder, EmptySeq
<1> QED BY <1>1 DEF Rewrites

LEMMA ResolvedOK ==
  ASSUME TypeOK, [FoldNext]_foldVars
  PROVE  IF Folding' THEN Rewrites(resolved', current.path') ELSE resolved' = <<>>
<1>1. sources' \in Seq(Layers) /\ folded' \in Nat
  BY SourcesOK
<1>2. CASE resolved' = <<>>
  <2>1. CASE Folding'
    <3>1. AssignmentOK(current')
      BY <1>1, <2>1, AssignmentAt DEF Folding, Origin, current
    <3> QED BY <1>2, <2>1, <3>1, NothingRewritten DEF AssignmentOK, IsPath
  <2> QED BY <1>2, <2>1
<1>3. CASE UNCHANGED <<sources, folded, resolved>>
  BY <1>3 DEF TypeOK, Folding, current, Origin
<1>4. CASE resolveElements /\ UNCHANGED <<sources, folded>>
  <2> DEFINE i        == Min(Subscripts)
             listPath == resolved \o SubSeq(current.path, Len(resolved) + 1, i - 1)
  <2>1. Folding /\ Rewrites(resolved, current.path) /\ IsSeq(current.path)
    BY <1>4, CurrentOK DEF resolveElements, TypeOK, AssignmentOK, IsPath
  <2>2. Len(resolved) \in Nat /\ Len(current.path) \in Nat
    BY <2>1, SeqOfElements DEF Rewrites
  <2>3. i \in Len(resolved) + 1 .. Len(current.path) /\ IsElem(current.path[i])
    <3>1. Subscripts \in SUBSET Nat
      BY <2>2 DEF Subscripts
    <3>2. Subscripts # {}
      BY <1>4 DEF resolveElements
    <3>3. i \in Subscripts
      BY <3>1, <3>2, MinOfNats
    <3> QED BY <3>3 DEF Subscripts
  <2> HIDE DEF i
  <2>4. Len(listPath) = i - 1 /\ Rewrites(listPath, current.path)
    BY <2>1, <2>2, <2>3, RewrittenUpTo
  <2> HIDE DEF listPath
  <2>5. PICK final : resolved' = <<>> \/ resolved' = ElementPath(listPath, final)
    BY <1>4 DEF resolveElements, Consume, i, listPath
  <2>6. CASE resolved' = ElementPath(listPath, final)
    <3>1. Len(listPath) < Len(current.path) /\ IsElem(current.path[Len(listPath) + 1])
      BY <2>2, <2>3, <2>4
    <3>2. Rewrites(resolved', current.path)
      BY <2>1, <2>4, <2>6, <3>1, RewrittenElement
    <3>3. Folding' /\ current' = current
      BY <1>4, <2>1 DEF Folding, current, Origin
    <3> QED BY <3>2, <3>3
  <2> QED BY <1>2, <2>5, <2>6
<1>5. CASE startLayer
  BY <1>2, <1>5 DEF startLayer, TypeOK
<1> QED BY <1>2, <1>3, <1>4, <1>5
     DEF FoldNext, foldVars, skipMissing, resolveElements, eraseCollection, provideCollection,
         elementMarker, clearElement, fold, Consume
------------------------------------------------------------------------------
(* Type correctness.                                                       *)

LEMMA TypeInit ==
  ASSUME Init
  PROVE  TypeOK
<1>1. sources = <<>> /\ Len(<<>>) = 0 /\ <<>> \in Seq(Layers)
  BY EmptySeq DEF Init
<1>2. ~Folding /\ Origin = 0
  BY <1>1 DEF Folding, Origin
<1> QED BY <1>1, <1>2, EmptyOrder, MaxLayersOK DEF Init, TypeOK

LEMMA TypeNext ==
  ASSUME TypeOK, [FoldNext]_foldVars
  PROVE  TypeOK'
<1>1. \A p \in DOMAIN values' : MergedOK(values'[p], Origin')
  BY ValuesOK
<1>2. \A c \in DOMAIN collections' : CollectionOK(collections'[c], Origin')
  BY CollectionsEvolve DEF Evolves
<1>3. /\ sources' \in Seq(Layers) /\ Origin' <= MaxLayers
      /\ folded' \in Nat /\ (sources' # <<>> => folded' <= Len(Layer(Origin))')
  BY SourcesOK
<1>4. IF Folding' THEN Rewrites(resolved', current.path') ELSE resolved' = <<>>
  BY ResolvedOK
<1>5. \A p \in DOMAIN erased' : erased'[p] \in 1 .. Origin'
  BY ErasedOK
<1> QED BY <1>1, <1>2, <1>3, <1>4, <1>5 DEF TypeOK

(* Whatever a description and its sources are, the records of the fold     *)
(* stay well formed (Fold, TypeOK).                                        *)
THEOREM TypeCorrect == Spec => []TypeOK
<1>1. Init => TypeOK
  BY TypeInit
<1>2. TypeOK /\ [FoldNext]_foldVars => TypeOK'
  BY TypeNext
<1> QED BY <1>1, <1>2, PTL DEF Spec

------------------------------------------------------------------------------
(* The order of elements.                                                  *)

(* A layer never exchanges two elements of a list or a map: what a base    *)
(* layer set keeps its order, whatever later layers add, update or erase   *)
(* (Fold, ElementsKeepOrder).                                              *)
THEOREM OrderIsKept == Spec => ElementsKeepOrder
<1>1. TypeOK /\ [FoldNext]_foldVars => OrderKept
  <2> SUFFICES ASSUME TypeOK, [FoldNext]_foldVars,
                      NEW c \in DOMAIN collections \cap DOMAIN collections',
                      NEW i \in DOMAIN collections[c].order,
                      NEW j \in DOMAIN collections[c].order,
                      NEW k \in DOMAIN collections'[c].order,
                      NEW l \in DOMAIN collections'[c].order,
                      i < j,
                      collections[c].order[i] = collections'[c].order[k],
                      collections[c].order[j] = collections'[c].order[l]
               PROVE  k < l
    BY DEF OrderKept
  <2>1. OrderMoves(collections[c].order, collections'[c].order)
    BY CollectionsEvolve DEF Evolves, collectionAt
  <2>2. IsSeq(collections[c].order) /\ IsInjective(collections[c].order)
    BY DEF TypeOK, CollectionOK
  <2> QED BY <2>1, <2>2, OrderStaysKept
<1> QED BY <1>1, TypeCorrect, PTL DEF Spec, ElementsKeepOrder
------------------------------------------------------------------------------
(* The slots of lists without a key.                                       *)

\* Rewriting subscripts changes no canonical path.
LEMMA RewrittenCanonically ==
  ASSUME NEW p, NEW q, IsSeq(q), Rewrites(p, q), Len(p) = Len(q), IsElementPath(p)
  PROVE  IsElementPath(q) /\ CanonicalPath(Front(p)) = CanonicalPath(Front(q))
<1>1. IsSeq(p) /\ p # <<>> /\ IsElem(p[Len(p)])
  BY DEF Rewrites, IsElementPath
<1>2. /\ Len(p) \in Nat \ {0} /\ DOMAIN Front(p) = 1 .. Len(p) - 1
      /\ \A i \in 1 .. Len(p) - 1 : Front(p)[i] = p[i]
  BY <1>1, FrontOfSeq
<1>3. q # <<>> /\ IsElem(q[Len(q)])
  BY <1>1, <1>2, EmptySeq DEF Rewrites
<1>4. /\ DOMAIN Front(q) = 1 .. Len(q) - 1
      /\ \A i \in 1 .. Len(q) - 1 : Front(q)[i] = q[i]
  BY <1>3, FrontOfSeq
<1>5. \A i \in 1 .. Len(p) - 1 : IsElem(p[i]) <=> IsElem(q[i])
  BY <1>2 DEF Rewrites
<1>6. \A i \in 1 .. Len(p) - 1 : p[i] = q[i] \/ (IsElem(p[i]) /\ IsElem(q[i]))
  BY <1>2 DEF Rewrites
<1> DEFINE canonical(s, i) == IF IsElem(s[i]) THEN AnySeg ELSE s[i]
<1>7. \A i \in 1 .. Len(p) - 1 : canonical(Front(p), i) = canonical(Front(q), i)
  BY <1>2, <1>4, <1>6
<1>8. /\ CanonicalPath(Front(p)) = [i \in 1 .. Len(p) - 1 |-> canonical(Front(p), i)]
      /\ CanonicalPath(Front(q)) = [i \in 1 .. Len(p) - 1 |-> canonical(Front(q), i)]
  BY <1>2, <1>4 DEF CanonicalPath
<1> HIDE DEF canonical
<1> QED BY <1>3, <1>7, <1>8 DEF IsElementPath

\* No null erases an element of a list without a key.
LEMMA KeyedElementErased ==
  ASSUME TypeOK, clearElement
  PROVE  ~Unkeyed(Front(target))
<1>1. AssignmentOK(current) /\ Rewrites(resolved, current.path)
  BY CurrentOK DEF clearElement, Ready, TypeOK
<1>2. IsSeq(current.path) /\ Len(current.path) \in Nat
  BY <1>1, SeqOfElements DEF AssignmentOK, IsPath
<1>3. Len(resolved) \in Nat /\ Len(resolved) <= Len(current.path)
  BY <1>1, SeqOfElements DEF Rewrites
<1> DEFINE n == Len(current.path) + 1
<1>4. target = resolved \o SubSeq(current.path, Len(resolved) + 1, n - 1)
  BY <1>2 DEF target
<1>5. n \in Len(resolved) + 1 .. Len(current.path) + 1 /\ n - 1 = Len(current.path)
  BY <1>2, <1>3
<1> HIDE DEF n
<1>6. Len(target) = Len(current.path) /\ Rewrites(target, current.path)
  BY <1>1, <1>2, <1>4, <1>5, RewrittenUpTo
<1>7. /\ IsElementPath(current.path)
      /\ CanonicalPath(Front(target)) = CanonicalPath(Front(current.path))
  BY <1>2, <1>6, RewrittenCanonically DEF clearElement
<1>8. ~Unkeyed(Front(current.path))
  BY <1>1, <1>7 DEF AssignmentOK, clearElement
<1> QED BY <1>7, <1>8 DEF Unkeyed

\* What a step may make of the order of a list without a key.
LEMMA UnkeyedOrders ==
  ASSUME TypeOK, [FoldNext]_foldVars, NEW c \in DOMAIN collections', Unkeyed(c)
  PROVE  LET old == collectionAt(collections, c).order
             new == collections'[c].order
         IN new = old \/ new = <<>> \/ new = Append(old, Len(old))
<1> DEFINE old == collectionAt(collections, c).order
           new == collections'[c].order
<1>0. CollectionOK(collectionAt(collections, c), Origin) /\ Origin \in Nat
  BY CollectionAtOK, LenProperties DEF TypeOK, Origin
<1>1. CASE UNCHANGED collections
  BY <1>1 DEF collectionAt
<1>2. CASE startLayer
  <2>1. c \in DOMAIN collections /\ new = forget(collections[c]).order
    BY <1>2 DEF startLayer
  <2>2. CollectionOK(collections[c], Origin)
    BY <2>1 DEF TypeOK
  <2> QED BY <2>1, <2>2 DEF forget, collectionAt, CollectionOK
<1>3. CASE fold
  BY <1>3 DEF fold, dropSubtree, Without, Restrict, collectionAt
<1>4. CASE resolveElements
  <2> DEFINE i        == Min(Subscripts)
             listPath == resolved \o SubSeq(current.path, Len(resolved) + 1, i - 1)
             sub      == current.path[i][2]
             was      == collectionAt(collections, listPath)
             known    == sub \in DOMAIN was.remap
             final    == IF known THEN was.remap[sub]
                         ELSE slot(was, byPath[CanonicalPath(listPath)], sub)
             order    == IF known \/ Contains(was.order, final) THEN was.order
                         ELSE Append(was.order, final)
  <2>1. \/ UNCHANGED collections
        \/ collections' = put(collections, listPath,
                             [was EXCEPT !.remap = put(@, sub, final), !.order = order])
    BY <1>4 DEF resolveElements
  <2>2. CASE c = listPath /\ collections' = put(collections, listPath,
                             [was EXCEPT !.remap = put(@, sub, final), !.order = order])
    <3>1. collections'[c] = [was EXCEPT !.remap = put(@, sub, final), !.order = order]
      BY <2>2 DEF put
    <3>2. CollectionOK(was, Origin) /\ old = was.order
      BY <1>0, <2>2
    <3>3. new = order
      <4> HIDE DEF was, order, final
      <4> QED BY <3>1, <3>2 DEF CollectionOK
    <3>4. slot(was, byPath[CanonicalPath(listPath)], sub) = Len(was.order)
      BY <2>2 DEF slot, Unkeyed
    <3>5. order = was.order \/ order = Append(was.order, Len(was.order))
      BY <3>4
    <3> QED BY <3>2, <3>3, <3>5
  <2>3. CASE c # listPath /\ collections' = put(collections, listPath,
                             [was EXCEPT !.remap = put(@, sub, final), !.order = order])
    BY <2>3 DEF put, collectionAt
  <2> QED BY <1>1, <2>1, <2>2, <2>3
<1>5. CASE eraseCollection \/ provideCollection
  <2>1. PICK cols \in {collections, clear(collections, target)} :
          \/ collections' = put(cols, target, erasedNow(collectionAt(cols, target)))
          \/ collections' = put(cols, target, providedNow(collectionAt(cols, target)))
    BY <1>5 DEF eraseCollection, provideCollection
  <2>2. collectionAt(cols, c).order \in {old, <<>>}
    <3>1. CASE cols = collections
      BY <3>1
    <3>2. CASE cols = clear(collections, target) /\ target \in DOMAIN collections
      <4>1. cols = put(collections, target, [collections[target] EXCEPT !.order = <<>>])
        BY <3>2 DEF clear
      <4>2. CollectionOK(collections[target], Origin)
        BY <3>2 DEF TypeOK
      <4>3. [collections[target] EXCEPT !.order = <<>>].order = <<>>
        BY <4>2 DEF CollectionOK
      <4> QED BY <4>1, <4>3 DEF put, collectionAt
    <3>3. CASE cols = clear(collections, target) /\ target \notin DOMAIN collections
      BY <3>3 DEF clear
    <3> QED BY <3>1, <3>2, <3>3
  <2>3. new = collectionAt(cols, c).order
    <3>1. CASE c = target
      BY <2>1, <3>1 DEF put, erasedNow, providedNow
    <3>2. CASE c # target
      BY <2>1, <3>2 DEF put, collectionAt
    <3> QED BY <3>1, <3>2
  <2> QED BY <2>2, <2>3
<1>6. CASE clearElement
  <2>1. c # Front(target)
    BY <1>6, KeyedElementErased
  <2>2. collections' = removeFrom(collections, Front(target), Last(target)[2])
    BY <1>6 DEF clearElement
  <2> QED BY <2>1, <2>2 DEF removeFrom, put, collectionAt
<1> QED BY <1>1, <1>2, <1>3, <1>4, <1>5, <1>6
     DEF FoldNext, foldVars, skipMissing, elementMarker

(* The slots of a list without a key are 0, 1, 2, ... in the order the     *)
(* layers named them, for every description and every sequence of layers:  *)
(* an appended element never lands on another layer's (Fold, SlotsDense).  *)
THEOREM SlotsAreDense == Spec => []SlotsDense
<1>1. Init => SlotsDense
  BY EmptyOrder DEF Init, SlotsDense
<1>2. TypeOK /\ SlotsDense /\ [FoldNext]_foldVars => SlotsDense'
  <2> SUFFICES ASSUME TypeOK, SlotsDense, [FoldNext]_foldVars,
                      NEW c \in DOMAIN collections', Unkeyed(c)
               PROVE  LET new == collections'[c].order
                      IN new = [i \in 1 .. Len(new) |-> i - 1]
    BY DEF SlotsDense, Unkeyed
  <2> DEFINE old == collectionAt(collections, c).order
             new == collections'[c].order
  <2>1. Len(<<>>) = 0 /\ <<>> = [i \in 1 .. 0 |-> i - 1]
    BY EmptySeq
  <2>2. old = [i \in 1 .. Len(old) |-> i - 1] /\ IsSeq(old)
    <3>1. CASE c \in DOMAIN collections
      BY <3>1 DEF SlotsDense, collectionAt, TypeOK, CollectionOK
    <3>2. CASE c \notin DOMAIN collections
      BY <2>1, <3>2, EmptyOrder DEF collectionAt, newCollection
    <3> QED BY <3>1, <3>2
  <2>3. new = old \/ new = <<>> \/ new = Append(old, Len(old))
    BY UnkeyedOrders
  <2> HIDE DEF old, new
  <2>4. CASE new = Append(old, Len(old))
    <3>1. /\ IsSeq(new) /\ Len(new) = Len(old) + 1 /\ Len(old) \in Nat
          /\ \A i \in 1 .. Len(old) : new[i] = old[i]
          /\ new[Len(old) + 1] = Len(old)
      BY <2>2, <2>4, AppendToSeq, SeqOfElements
    <3>2. \A i \in 1 .. Len(new) : new[i] = i - 1
      BY <2>2, <3>1
    <3>3. new = [i \in 1 .. Len(new) |-> new[i]]
      BY <3>1 DEF IsSeq
    <3> QED BY <3>2, <3>3 DEF new
  <2> QED BY <2>1, <2>2, <2>3, <2>4 DEF new
<1> QED BY <1>1, <1>2, TypeCorrect, PTL DEF Spec
==============================================================================
