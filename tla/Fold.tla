--------------------------------- MODULE Fold ---------------------------------
(***************************************************************************)
(* Folding layers of assignments into the resolution (resolve.go, merge.go,*)
(* element.go, section.go, scalaror.go).                                   *)
(*                                                                         *)
(* One step of the machine is one iteration of a loop of the code: a layer *)
(* is started, one element subscript of the current assignment is resolved *)
(* (resolveElements), or the assignment is folded at the path so reached   *)
(* (foldCollection and the rest of fold's loop body).                      *)
(***************************************************************************)
EXTENDS Paths, Merge, Sequencing, FiniteSets, FiniteSetsExt

CONSTANTS
  byPath,     \* Model.byPath: canonical path -> the field it finds
  Layers,     \* what a source may deliver: assignments and the paths in error
  MaxLayers   \* bound: how many sources one Resolve is given

\* A list whose elements have only a position to go by.
Unkeyed(path) ==
  /\ CanonicalPath(path) \in DOMAIN byPath
  /\ byPath[CanonicalPath(path)].kind = "list"
  /\ byPath[CanonicalPath(path)].key = ""

\* The path of a list or a map of objects, which is its field's own.
IsCollectionAt(path) ==
  LET canonical == CanonicalPath(path)
  IN /\ canonical \in DOMAIN byPath
     /\ byPath[canonical].path = canonical
     /\ byPath[canonical].kind \in {"list", "map"}

\* A path as a source spells it: members and elements.
IsPath(path) ==
  /\ IsSeq(path)
  /\ \A i \in DOMAIN path : path[i] = NameSeg(path[i][2]) \/ path[i] = ElemSeg(path[i][2])

(* A null names an element only where elements have names of their own: a  *)
(* binder reports a null item of a list instead of erasing it              *)
(* (internal/tree/bind.go elements).                                       *)
AssignmentOK(a) ==
  /\ IsPath(a.path)
  /\ a.state \in {"missing", "null", "present"}
  /\ a.state = "null" /\ IsElementPath(a.path) => ~Unkeyed(Front(a.path))

ASSUME LayersOK ==
  \A layer \in Layers :
    /\ IsSeq(layer.assignments)
    /\ \A i \in DOMAIN layer.assignments : AssignmentOK(layer.assignments[i])

ASSUME MaxLayersOK == MaxLayers \in Nat

\* A field is found under a path that ends in its name (descriptor.go reindex).
ASSUME ByPathOK ==
  \A path \in DOMAIN byPath : path # <<>> /\ path[Len(path)][1] = "name"

(* What a document that repeats no key binds to: a collection is provided, *)
(* or erased, before anything is said of its elements, and of an entry     *)
(* that is erased nothing else is said (internal/tree/bind.go elements and *)
(* entries).  No step depends on it; two theorems do.                      *)
Orderly(layer) ==
  \A i, j \in DOMAIN layer.assignments :
    LET a == layer.assignments[i]
        b == layer.assignments[j]
    IN /\ i < j /\ IsCollectionAt(b.path) => ~WithinElements(b.path, a.path)
       /\ i # j /\ b.state = "null" /\ IsElementPath(b.path) => ~IsPrefix(b.path, a.path)

VARIABLES
  values,       \* resolution.values: path -> merged
  collections,  \* resolution.collections: path -> collection
  sources,      \* the layers handed to fold so far, the current one last
  folded,       \* how many assignments of the current layer are folded
  resolved,     \* resolveElements' "out": the part of the current path rewritten
  erased,       \* rep.erased, as far as fold fills it: path -> origin
  diagnostics   \* rep.Diagnostics: the errors met so far, as [code, path]

foldVars ==
  <<values, collections, sources, folded, resolved, erased, diagnostics>>

------------------------------------------------------------------------------
(* The state of one list or map of objects.                                *)

newCollection ==
  [order |-> <<>>, remap |-> <<>>, provided |-> FALSE, origin |-> 0, erased |-> 0]

put(f, x, v) == [y \in DOMAIN f \cup {x} |-> IF y = x THEN v ELSE f[y]]

\* resolution.collection: the record at path, created on first use.
collectionAt(cols, path) ==
  IF path \in DOMAIN cols THEN cols[path] ELSE newCollection

\* delete the keys S of f.
Without(f, S) == Restrict(f, DOMAIN f \ S)

Collections == {"list", "map"}

Error(code, path) == [code |-> code, path |-> path]

------------------------------------------------------------------------------
(* The current assignment.                                                 *)

Origin == Len(sources)

Folding == sources # <<>> /\ folded < Len(sources[Origin].assignments)

current == sources[Origin].assignments[folded + 1]

\* The field found for the assignment, and whether the path is its own (fieldAt).
found == CanonicalPath(current.path) \in DOMAIN byPath
field == byPath[CanonicalPath(current.path)]
own == field.path = CanonicalPath(current.path)

policy == IF found THEN field.merge ELSE "replace"

\* The subscripts resolveElements has still to rewrite.
Subscripts ==
  {i \in Len(resolved) + 1 .. Len(current.path) : IsElem(current.path[i])}

\* "out + rest" once no subscript is left.
target == resolved \o SubSeq(current.path, Len(resolved) + 1, Len(current.path))

Consume == folded' = folded + 1 /\ resolved' = <<>> /\ UNCHANGED sources

------------------------------------------------------------------------------
(* fold's loop.                                                            *)

Init ==
  /\ values = <<>>
  /\ collections = <<>>
  /\ sources = <<>>
  /\ folded = 0
  /\ resolved = <<>>
  /\ erased = <<>>
  /\ diagnostics = {}

forgetNothing(c) == c

\* resolution.startLayer: positions belong to the document they came from.
forget(c) == [c EXCEPT !.remap = <<>>]

\* A source loads; what it could not decode is reported, the rest is folded.
startLayer ==
  /\ ~Folding
  /\ Len(sources) < MaxLayers
  /\ \E layer \in Layers :
       /\ sources' = Append(sources, layer)
       /\ diagnostics' = diagnostics \cup {Error("source", p) : p \in layer.faults}
  /\ collections' = [c \in DOMAIN collections |-> forget(collections[c])]
  /\ folded' = 0
  /\ UNCHANGED <<values, resolved, erased>>

skipMissing ==
  /\ Folding
  /\ current.state = "missing"
  /\ Consume
  /\ UNCHANGED <<values, collections, erased, diagnostics>>

slotFromOne(c, f, sub) ==
  IF f.kind = "list" /\ f.key = "" THEN Len(c.order) + 1 ELSE sub

\* The slot an element takes the first time its layer names it.
slot(c, f, sub) ==
  IF f.kind = "list" /\ f.key = "" THEN Len(c.order) ELSE sub

\* One turn of resolveElements: the next subscript of the path, in place.
resolveElements ==
  /\ Folding
  /\ current.state # "missing"
  /\ Subscripts # {}
  /\ LET i        == Min(Subscripts)
         listPath == resolved \o SubSeq(current.path, Len(resolved) + 1, i - 1)
         sub      == current.path[i][2]
         c        == collectionAt(collections, listPath)
     IN IF CanonicalPath(listPath) \notin DOMAIN byPath
        THEN Consume /\ UNCHANGED collections
        ELSE LET known == sub \in DOMAIN c.remap
                 final == IF known THEN c.remap[sub]
                          ELSE slot(c, byPath[CanonicalPath(listPath)], sub)
                 order == IF known \/ Contains(c.order, final) THEN c.order
                          ELSE Append(c.order, final)
             IN /\ collections' =
                     put(collections, listPath,
                         [c EXCEPT !.remap = put(@, sub, final), !.order = order])
                /\ resolved' = ElementPath(listPath, final)
                /\ UNCHANGED <<sources, folded>>
  /\ UNCHANGED <<values, erased, diagnostics>>

\* The assignment's path is fully resolved and fold may act on it.
Ready == Folding /\ current.state # "missing" /\ Subscripts = {}

AtCollection == found /\ own /\ field.kind \in Collections

\* clear: the order, and the values under the elements.
clear(cols, c) ==
  IF c \in DOMAIN cols THEN put(cols, c, [cols[c] EXCEPT !.order = <<>>]) ELSE cols

clearNoValues(vals, c) == vals

clearValues(vals, c) == Without(vals, {p \in DOMAIN vals : WithinElements(c, p)})

\* The record of a collection the current layer erases, or provides.
erasedNow(c) ==
  [order |-> c.order, remap |-> c.remap,
   provided |-> FALSE, origin |-> c.origin, erased |-> Origin]

providedNow(c) ==
  [order |-> c.order, remap |-> c.remap,
   provided |-> TRUE, origin |-> Origin, erased |-> 0]

eraseCollection ==
  /\ Ready
  /\ AtCollection
  /\ current.state = "null"
  /\ values' = clearValues(values, target)
  /\ LET cols == clear(collections, target)
     IN collections' =
          put(cols, target, erasedNow(collectionAt(cols, target)))
  /\ Consume
  /\ UNCHANGED <<erased, diagnostics>>

provideCollection ==
  /\ Ready
  /\ AtCollection
  /\ current.state = "present"
  /\ values' = IF field.merge = "replace" THEN clearValues(values, target) ELSE values
  /\ LET cols == IF field.merge = "replace" THEN clear(collections, target) ELSE collections
     IN collections' =
          put(cols, target, providedNow(collectionAt(cols, target)))
  /\ Consume
  /\ UNCHANGED <<erased, diagnostics>>

\* The marker allocated the element's slot and carries nothing further.
elementMarker ==
  /\ Ready
  /\ ~AtCollection
  /\ HasElement(current.path)
  /\ current.state = "present"
  /\ current.value = Element
  /\ Consume
  /\ UNCHANGED <<values, collections, erased, diagnostics>>

index(order, sub) == Min({i \in DOMAIN order : order[i] = sub})

removeSwapping(cols, c, sub) ==
  LET order == cols[c].order
  IN IF c \in DOMAIN cols /\ Contains(order, sub)
     THEN put(cols, c, [cols[c] EXCEPT !.order =
            Front([order EXCEPT ![index(order, sub)] = Last(order)])])
     ELSE cols

removeFrom(cols, c, sub) ==
  IF c \in DOMAIN cols /\ Contains(cols[c].order, sub)
  THEN put(cols, c, [cols[c] EXCEPT !.order = RemoveAt(@, index(@, sub))])
  ELSE cols

clearElement ==
  /\ Ready
  /\ ~AtCollection
  /\ current.state = "null"
  /\ IsElementPath(target)
  /\ collections' = removeFrom(collections, Front(target), Last(target)[2])
  /\ values' = Without(values, {p \in DOMAIN values : p = target \/ Inside(target, p)})
  /\ erased' = put(erased, target, Origin)
  /\ Consume
  /\ UNCHANGED diagnostics

------------------------------------------------------------------------------
(* An assignment that is about neither a collection nor an element itself. *)

OptionalSection == found /\ field.kind = "section"

\* dropSubtree: a null at an optional section forgets what is inside it.
dropSubtree(g) ==
  IF current.state = "null" /\ OptionalSection
  THEN Without(g, {p \in DOMAIN g : Inside(target, p)}) ELSE g

shorthand(p) == p \in DOMAIN byPath /\ byPath[p].scalarOr

\* The enclosing objects, nearest last, that byPath holds and a scalar may spell.
enclosingShorthands(p) ==
  {i \in 1 .. Len(p) - 1 : p[i + 1][1] = "name" /\ shorthand(SubSeq(p, 1, i))}

dropMembersOnly(vals, p) ==
  IF shorthand(p) THEN Without(vals, {q \in DOMAIN vals : Inside(p, q)}) ELSE vals

dropOtherSpelling(vals, p) ==
  IF shorthand(p)
  THEN Without(vals, {q \in DOMAIN vals : Inside(p, q)})
  ELSE LET up == enclosingShorthands(p)
       IN IF up = {} THEN vals ELSE Without(vals, {SubSeq(p, 1, Max(up))})

fold ==
  /\ Ready
  /\ ~AtCollection
  /\ ~(HasElement(current.path) /\ current.state = "present" /\ current.value = Element)
  /\ ~(current.state = "null" /\ IsElementPath(target))
  /\ LET vals == dropOtherSpelling(dropSubtree(values), target)
         st   == IF target \in DOMAIN vals THEN vals[target] ELSE Unset
     IN /\ values' = put(vals, target, mergeSet(st, current, policy, Origin))
        /\ diagnostics' = IF MergeFails(st, current, policy)
                         THEN diagnostics \cup {Error("constraint.type_mismatch", target)}
                         ELSE diagnostics
  /\ collections' = dropSubtree(collections)
  /\ Consume
  /\ UNCHANGED erased

FoldNext ==
  \/ startLayer
  \/ skipMissing
  \/ resolveElements
  \/ eraseCollection
  \/ provideCollection
  \/ elementMarker
  \/ clearElement
  \/ fold

Spec == Init /\ [][FoldNext]_foldVars

------------------------------------------------------------------------------
(* Properties.                                                             *)

Layer(n)      == sources[n].assignments
Folded(n, i)  == n < Origin \/ i <= folded

(* The records stay well formed, a path is never both set and erased, no   *)
(* origin is a layer that has not been loaded, no list names an element    *)
(* twice, and a rewritten path has its elements where the layer's path     *)
(* has (merge.go merged, element.go collection, resolveElements).          *)
MergedOK(st, last) ==
  /\ st \in [set : BOOLEAN, value : {st.value}, origin : 0 .. last, erased : 0 .. last]
  /\ st.set <=> st.origin # 0
  /\ st.set => st.erased = 0

CollectionOK(c, last) ==
  /\ c \in [order : {c.order}, remap : {c.remap}, provided : BOOLEAN,
            origin : 0 .. last, erased : 0 .. last]
  /\ IsSeq(c.order)
  /\ IsInjective(c.order)
  /\ c.provided => c.origin # 0 /\ c.erased = 0

Rewrites(p, q) ==
  /\ IsSeq(p)
  /\ Len(p) <= Len(q)
  /\ \A i \in 1 .. Len(p) : p[i] = q[i] \/ (IsElem(p[i]) /\ IsElem(q[i]))

TypeOK ==
  /\ \A p \in DOMAIN values : MergedOK(values[p], Origin)
  /\ \A c \in DOMAIN collections : CollectionOK(collections[c], Origin)
  /\ sources \in Seq(Layers) /\ Origin <= MaxLayers
  /\ folded \in Nat /\ (sources # <<>> => folded <= Len(Layer(Origin)))
  /\ IF Folding THEN Rewrites(resolved, current.path) ELSE resolved = <<>>
  /\ \A p \in DOMAIN erased : erased[p] \in 1 .. Origin

(* The slots of an unkeyed list are 0, 1, 2, ... in the order their layers *)
(* named them: what a later layer appends never lands on an element an     *)
(* earlier one contributed (element.go resolveElements, clear).            *)
SlotsDense ==
  \A c \in DOMAIN collections :
    LET order == collections[c].order
    IN Unkeyed(c) => order = [i \in 1 .. Len(order) |-> i - 1]

(* Two elements of one document never share a slot, and an element its     *)
(* document has named keeps one (element.go resolveElements).              *)
SlotsNotShared ==
  \A c \in DOMAIN collections :
    LET remap == collections[c].remap
    IN IsInjective(remap) /\ (Unkeyed(c) => Range(remap) \subseteq Range(collections[c].order))

(* Every value in force, and every erasure, is the doing of the layer its  *)
(* origin names: that layer wrote it, under this field's path, and no      *)
(* later layer has said anything of the path since (merge.go mergeSet,     *)
(* resolve.go OriginOf and ErasedBy).                                      *)
Wrote(n, p, state) ==
  \E i \in DOMAIN Layer(n) :
    /\ Folded(n, i)
    /\ Layer(n)[i].state = state
    /\ CanonicalPath(Layer(n)[i].path) = CanonicalPath(p)

SilentSince(n, p) ==
  \A m \in n + 1 .. Origin : \A i \in DOMAIN Layer(m) :
    Folded(m, i) /\ Layer(m)[i].path = p /\ ~HasElement(p) =>
      \/ Layer(m)[i].state = "missing"
      \/ Error("constraint.type_mismatch", p) \in diagnostics

Provenance ==
  \A p \in DOMAIN values :
    LET st == values[p] IN
    /\ st.set => Wrote(st.origin, p, "present") /\ SilentSince(st.origin, p)
    /\ st.erased # 0 => Wrote(st.erased, p, "null") /\ SilentSince(st.erased, p)

(* Every value below an element belongs to an element the collection still *)
(* lists: nothing a layer wrote is kept where no one will read it          *)
(* (element.go clear, clearElement; section.go dropSubtree).               *)
ValuesReachable ==
  \A p \in DOMAIN values : \A i \in DOMAIN p :
    values[p].set /\ IsElem(p[i]) =>
      LET c == SubSeq(p, 1, i - 1)
      IN c \in DOMAIN collections /\ p[i][2] \in Range(collections[c].order)

(* Elements that survive a step keep their relative order: a later layer   *)
(* adds after what the base layer set and never reorders it (element.go,   *)
(* the doc comment of collection.order).                                   *)
OrderKept ==
  \A c \in DOMAIN collections \cap DOMAIN collections' :
    LET old == collections[c].order
        new == collections'[c].order
    IN \A i, j \in DOMAIN old : \A k, l \in DOMAIN new :
         i < j /\ old[i] = new[k] /\ old[j] = new[l] => k < l

ElementsKeepOrder == [][OrderKept]_foldVars
==============================================================================
