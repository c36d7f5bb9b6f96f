----------------------------- MODULE DeriveProofs -----------------------------
(***************************************************************************)
(* Theorems about Derive, for every set of Go types and describe           *)
(* functions, and whatever paths and index publication makes of them.      *)
(***************************************************************************)
EXTENDS Derive, SequenceLemmas

------------------------------------------------------------------------------
(* Objects that hold one another.                                          *)

LEMMA Fewer ==
  ASSUME NEW D, NEW K, NEW L, Grounded(D, K), L \subseteq K
  PROVE  Grounded(D, L)
BY DEF Grounded

\* An object more that nothing holds.
LEMMA Crown ==
  ASSUME NEW D, NEW K, NEW z, Grounded(D, K), \A o \in K \cup {z} : z \notin always(D, o)
  PROVE  Grounded(D, K \cup {z})
<1> SUFFICES ASSUME NEW held \in SUBSET (K \cup {z}), held # {}
             PROVE  \E o \in held : always(D, o) \cap held = {}
  BY DEF Grounded
<1>1. CASE held \cap K = {}
  BY <1>1
<1>2. CASE held \cap K # {}
  <2>1. PICK o \in held \cap K : always(D, o) \cap (held \cap K) = {}
    BY <1>2 DEF Grounded
  <2>2. z \notin always(D, o)
    BY <2>1
  <2> QED BY <2>1, <2>2
<1> QED BY <1>1, <1>2

\* The objects K hold no other of K than before, but for one that holds none.
LEMMA SameBelow ==
  ASSUME NEW D, NEW E, NEW K, NEW Z, Grounded(D, K), \A z \in Z : always(E, z) = {},
         \A o \in K : always(E, o) \cap K \subseteq always(D, o) \cup Z
  PROVE  Grounded(E, K)
<1> SUFFICES ASSUME NEW held \in SUBSET K, held # {}
             PROVE  \E o \in held : always(E, o) \cap held = {}
  BY DEF Grounded
<1>1. CASE held \cap Z # {}
  BY <1>1
<1>2. CASE held \cap Z = {}
  <2>1. PICK o \in held : always(D, o) \cap held = {}
    BY DEF Grounded
  <2> QED BY <1>2, <2>1
<1> QED BY <1>1, <1>2

------------------------------------------------------------------------------
(* The heap.                                                               *)

\* What the proofs look at in a field, of a heap of n objects.
Shape(f) == {"name", "go", "kind", "object", "movedTo"} \subseteq DOMAIN f
Refers(f, n) == Shape(f) /\ f.object \in 0 .. n

IsObject(x) ==
  x = [go |-> x.go, fields |-> x.fields, within |-> x.within, ignored |-> x.ignored]

Heap(D) ==
  /\ IsSeq(D)
  /\ \A o \in DOMAIN D : /\ IsObject(D[o]) /\ IsSeq(D[o].fields)
                         /\ \A i \in DOMAIN D[o].fields : Refers(D[o].fields[i], Len(D))

OwnNames(D) ==
  \A o \in DOMAIN D : \A i, k \in DOMAIN D[o].fields :
    i # k => D[o].fields[i].name # D[o].fields[k].name

\* The objects K are accounted for.
Complete(D, K) == \A o \in K : D[o].within = o => Covers(D, o)

\* Nothing holds an object of Op: those are not made yet.
NotHeld(D, Op) == \A o \in DOMAIN D : always(D, o) \cap Op = {}

\* M are the objects of the descriptors there are, S those and the ones made
\* since, Op the ones in the making; clean says that nothing was reported since.
Sound(D, M, S, Op, clean) ==
  /\ Heap(D) /\ OwnNames(D)
  /\ M \subseteq S /\ S \subseteq DOMAIN D
  /\ Grounded(D, M) /\ Complete(D, M)
  /\ clean => Grounded(D, S) /\ Complete(D, S) /\ NotHeld(D, Op)

\* E is D further on: objects there were have what they had.
Grown(D, E) ==
  /\ Len(D) \in Nat /\ Len(E) \in Nat /\ Len(D) <= Len(E)
  /\ DOMAIN D = 1 .. Len(D) /\ DOMAIN E = 1 .. Len(E)
  /\ \A o \in DOMAIN D : E[o].within = D[o].within

LEMMA HeapDomain ==
  ASSUME NEW D, Heap(D)
  PROVE  Len(D) \in Nat /\ DOMAIN D = 1 .. Len(D)
BY SeqOfElements DEF Heap

\* What an object holds is an object.
LEMMA HoldsObjects ==
  ASSUME NEW D, Heap(D), NEW o \in DOMAIN D
  PROVE  always(D, o) \subseteq DOMAIN D
<1>1. ASSUME NEW i \in DOMAIN D[o].fields, Held(D[o].fields[i])
      PROVE  D[o].fields[i].object \in DOMAIN D
  <2>1. PICK n : n = Len(D)
    OBVIOUS
  <2>2. PICK x : x = D[o].fields[i].object
    OBVIOUS
  <2>3. x \in 0 .. n /\ x # 0 /\ n \in Nat /\ DOMAIN D = 1 .. n
    BY <1>1, <2>1, <2>2, HeapDomain DEF Heap, Refers, Held, NoObject
  <2> QED BY <2>2, <2>3
<1> QED BY <1>1 DEF always

\* Objects with the same fields hold the same.
LEMMA SameFieldsHold ==
  ASSUME NEW D, NEW E, NEW o, NEW x, E[x].fields = D[o].fields
  PROVE  always(E, x) = always(D, o)
BY DEF always
\* x is in E what it was in D, or has fields more.
Keeps(D, E, x) ==
  /\ x \in DOMAIN E /\ E[x].go = D[x].go /\ E[x].within = D[x].within /\ E[x].ignored = D[x].ignored
  /\ \A i \in DOMAIN D[x].fields : \E k \in DOMAIN E[x].fields :
       E[x].fields[k].go = D[x].fields[i].go

LEMMA CompleteStays ==
  ASSUME NEW D, NEW E, NEW K, K \subseteq DOMAIN D, Complete(D, K),
         \A x \in DOMAIN D : Keeps(D, E, x) \/ (x \notin K /\ D[x].within \notin K)
  PROVE  Complete(E, K)
<1> SUFFICES ASSUME NEW o \in K, E[o].within = o PROVE Covers(E, o)
  BY DEF Complete
<1>1. /\ Keeps(D, E, o) /\ Covers(D, o)
  BY DEF Complete, Keeps
<1>2. ASSUME NEW p \in bound(D, o) PROVE p \in bound(E, o)
  <2>1. PICK x \in {x \in DOMAIN D : D[x].within = o} :
          p \in {D[x].fields[i].go : i \in DOMAIN D[x].fields}
    BY <1>2 DEF bound
  <2>2. PICK i \in DOMAIN D[x].fields : p = D[x].fields[i].go
    BY <2>1
  <2>3. Keeps(D, E, x)
    BY <2>1
  <2>4. PICK k \in DOMAIN E[x].fields : E[x].fields[k].go = p
    BY <2>2, <2>3 DEF Keeps
  <2>5. x \in DOMAIN E /\ E[x].within = o
    BY <2>1, <2>3 DEF Keeps
  <2>6. p \in {E[x].fields[m].go : m \in DOMAIN E[x].fields}
    BY <2>4
  <2> QED BY <2>5, <2>6 DEF bound
<1> HIDE DEF bound
<1>3. E[o].go = D[o].go /\ E[o].ignored = D[o].ignored
  BY <1>1 DEF Keeps
<1> QED BY <1>1, <1>2, <1>3 DEF Covers

LEMMA SameKeeps ==
  ASSUME NEW D, NEW E, NEW x \in DOMAIN E, E[x] = D[x]
  PROVE  Keeps(D, E, x)
BY DEF Keeps

\* E is D with the object x more, z, which nothing holds.
Fresh(D, E, z, x) ==
  /\ Grown(D, E) /\ Len(E) = z /\ z \notin DOMAIN D
  /\ E[z] = x /\ \A o \in DOMAIN D : E[o] = D[o]
  /\ always(E, z) = {} /\ \A o \in DOMAIN E : z \notin always(E, o)

\* An object that is opened.
LEMMA FreshObject ==
  ASSUME NEW D, NEW M, NEW S, NEW Op, NEW clean, Sound(D, M, S, Op, clean),
         NEW g, NEW w, NEW E, E = Append(D, emptyObject(g, w)), NEW z, z = Len(D) + 1
  PROVE  Sound(E, M, S, Op \cup {z}, clean) /\ Fresh(D, E, z, emptyObject(g, w))
<1>1. Heap(D) /\ OwnNames(D) /\ S \subseteq DOMAIN D /\ M \subseteq S
  BY DEF Sound
<1>2. IsSeq(D) /\ Len(D) \in Nat /\ DOMAIN D = 1 .. Len(D)
  BY <1>1, HeapDomain DEF Heap
<1>3. PICK n : n = Len(D)
  OBVIOUS
<1>4. PICK y : y = emptyObject(g, w)
  OBVIOUS
<1>5. /\ IsSeq(E) /\ Len(E) = n + 1 /\ E[n + 1] = y /\ \A o \in 1 .. n : E[o] = D[o]
      /\ n \in Nat /\ DOMAIN E = 1 .. n + 1 /\ DOMAIN D = 1 .. n /\ z = n + 1
  <2>1. /\ IsSeq(Append(D, y)) /\ Len(Append(D, y)) = Len(D) + 1
        /\ \A i \in 1 .. Len(D) : Append(D, y)[i] = D[i]
        /\ Append(D, y)[Len(D) + 1] = y
    BY <1>2, AppendToSeq
  <2>2. E = Append(D, y)
    BY <1>4
  <2>3. IsSeq(E) /\ Len(E) = n + 1
    BY <1>3, <2>1, <2>2
  <2>4. DOMAIN E = 1 .. n + 1
    BY <2>3, SeqOfElements
  <2> QED BY <1>2, <1>3, <2>1, <2>2, <2>3, <2>4
<1>6. /\ y = [go |-> y.go, fields |-> <<>>, within |-> y.within, ignored |-> y.ignored]
      /\ y.fields = <<>> /\ DOMAIN y.fields = {} /\ y.within = w
  BY <1>4 DEF emptyObject
<1>7. IsObject(y) /\ IsSeq(y.fields)
  BY <1>6 DEF IsObject, IsSeq
<1>8. \A o \in DOMAIN E : o \in DOMAIN D \/ o = z
  BY <1>5
<1>9. \A o \in DOMAIN D : o \in DOMAIN E /\ E[o] = D[o]
  BY <1>5
<1>10. E[z] = y /\ z \in DOMAIN E /\ z \notin DOMAIN D
  BY <1>5
<1>11. Heap(E)
  <2>1. ASSUME NEW f, Refers(f, n) PROVE Refers(f, n + 1)
    <3>1. PICK x : x = f.object
      OBVIOUS
    <3>2. x \in 0 .. n
      BY <2>1, <3>1 DEF Refers
    <3>3. x \in 0 .. n + 1
      BY <1>5, <3>2
    <3> QED BY <2>1, <3>1, <3>3 DEF Refers
  <2>2. ASSUME NEW o \in DOMAIN E
        PROVE  /\ IsObject(E[o]) /\ IsSeq(E[o].fields)
               /\ \A i \in DOMAIN E[o].fields : Refers(E[o].fields[i], n + 1)
    <3>1. CASE o = z
      BY <1>6, <1>7, <1>10, <3>1
    <3>2. CASE o \in DOMAIN D
      BY <1>1, <1>3, <1>9, <2>1, <3>2 DEF Heap
    <3> QED BY <1>8, <3>1, <3>2
  <2> QED BY <1>5, <2>2 DEF Heap
<1>12. OwnNames(E)
  BY <1>1, <1>6, <1>8, <1>9, <1>10 DEF OwnNames
<1>13. \A o \in DOMAIN D : always(E, o) = always(D, o)
  BY <1>9 DEF always
<1>14. always(E, z) = {}
  BY <1>6, <1>10 DEF always
<1>15. ASSUME NEW K, K \subseteq DOMAIN D, Grounded(D, K) PROVE Grounded(E, K)
  BY <1>13, <1>15 DEF Grounded
<1>16. ASSUME NEW K, K \subseteq DOMAIN D, Complete(D, K) PROVE Complete(E, K)
  <2>1. \A x \in DOMAIN D : Keeps(D, E, x)
    BY <1>9, SameKeeps
  <2> QED BY <1>16, <2>1, CompleteStays
<1>17. \A o \in DOMAIN E : z \notin always(E, o)
  BY <1>1, <1>8, <1>10, <1>13, <1>14, HoldsObjects
<1>18. ASSUME NotHeld(D, Op) PROVE NotHeld(E, Op \cup {z})
  BY <1>8, <1>13, <1>17, <1>14, <1>18 DEF NotHeld
<1>19. Sound(E, M, S, Op \cup {z}, clean)
  <2>1. S \subseteq DOMAIN E
    BY <1>1, <1>9
  <2> QED BY <1>1, <1>11, <1>12, <1>15, <1>16, <1>18, <2>1 DEF Sound
<1>20. Grown(D, E)
  BY <1>5, <1>9 DEF Grown
<1> QED BY <1>4, <1>5, <1>9, <1>10, <1>14, <1>17, <1>19, <1>20 DEF Fresh

\* An object in the making that is made.
LEMMA Released ==
  ASSUME NEW D, NEW M, NEW S, NEW Op, NEW clean, Sound(D, M, S, Op, clean),
         NEW z \in DOMAIN D, clean => z \in Op,
         clean => (D[z].within = z => Covers(D, z))
  PROVE  Sound(D, M, S \cup {z}, Op \ {z}, clean)
<1>1. ASSUME clean PROVE Grounded(D, S \cup {z})
  <2>1. \A o \in S \cup {z} : z \notin always(D, o)
    BY <1>1 DEF Sound, NotHeld
  <2> QED BY <1>1, <2>1, Crown DEF Sound
<1>2. ASSUME clean PROVE Complete(D, S \cup {z}) /\ NotHeld(D, Op \ {z})
  BY <1>2 DEF Sound, Complete, NotHeld
<1> QED BY <1>1, <1>2 DEF Sound
\* The heap with the object x in place of the object o.
LEMMA ObjectReplaced ==
  ASSUME NEW D, Heap(D), NEW o \in DOMAIN D, NEW x, IsObject(x), IsSeq(x.fields),
         \A i \in DOMAIN x.fields : Refers(x.fields[i], Len(D)),
         NEW E, E = [D EXCEPT ![o] = x]
  PROVE  /\ Heap(E) /\ Len(E) = Len(D) /\ DOMAIN E = DOMAIN D /\ E[o] = x
         /\ \A y \in DOMAIN D \ {o} : E[y] = D[y]
<1>1. PICK n : n = Len(D)
  OBVIOUS
<1>2. n \in Nat /\ DOMAIN D = 1 .. n /\ IsSeq(D)
  BY <1>1, HeapDomain DEF Heap
<1>3. /\ DOMAIN E = 1 .. n /\ E = [i \in DOMAIN E |-> E[i]] /\ E[o] = x
      /\ \A y \in DOMAIN D \ {o} : E[y] = D[y]
  BY <1>2
<1>4. IsSeq(E) /\ Len(E) = n
  BY <1>2, <1>3, IsSeqOf
<1>5. ASSUME NEW y \in DOMAIN E
      PROVE  /\ IsObject(E[y]) /\ IsSeq(E[y].fields)
             /\ \A i \in DOMAIN E[y].fields : Refers(E[y].fields[i], n)
  <2>1. CASE y = o
    BY <1>1, <1>3, <2>1
  <2>2. CASE y # o
    <3>1. y \in DOMAIN D /\ E[y] = D[y]
      BY <1>2, <1>3, <2>2
    <3> QED BY <1>1, <3>1 DEF Heap
  <2> QED BY <2>1, <2>2
<1> QED BY <1>1, <1>2, <1>3, <1>4, <1>5 DEF Heap

\* E is D with the field f more in the object o.
Enlarged(D, E, o, f) ==
  /\ Grown(D, E) /\ Len(E) = Len(D) /\ DOMAIN E = DOMAIN D
  /\ \A y \in DOMAIN D \ {o} : E[y] = D[y]
  /\ E[o] = [go |-> D[o].go, fields |-> Append(D[o].fields, f), within |-> D[o].within,
             ignored |-> D[o].ignored]
  /\ \A x \in DOMAIN D : Keeps(D, E, x)

\* A field more, of a name of its own: what it holds is made or holds nothing.
LEMMA FieldAdded ==
  ASSUME NEW D, NEW M, NEW S, NEW Op, NEW clean, Sound(D, M, S, Op, clean),
         NEW o \in DOMAIN D, NEW f, Refers(f, Len(D)), fieldNamed(D[o], f.name) = {},
         clean /\ Held(f) => f.object \notin Op,
         Held(f) => o \notin S \/ (o # f.object /\ always(D, f.object) = {}),
         NEW E, E = appended(D, o, f)
  PROVE  Sound(E, M, S, Op, clean) /\ Enlarged(D, E, o, f)
<1>1. Heap(D) /\ OwnNames(D) /\ S \subseteq DOMAIN D /\ M \subseteq S
  BY DEF Sound
<1>2. PICK fs : fs = D[o].fields
  OBVIOUS
<1>3. PICK n : n = Len(fs)
  OBVIOUS
<1>4. IsObject(D[o]) /\ IsSeq(fs) /\ n \in Nat /\ DOMAIN fs = 1 .. n
  BY <1>1, <1>2, <1>3, SeqOfElements DEF Heap
<1>5. PICK gs : gs = Append(fs, f)
  OBVIOUS
<1>6. IsSeq(gs) /\ DOMAIN gs = 1 .. n + 1 /\ gs[n + 1] = f /\ \A i \in 1 .. n : gs[i] = fs[i]
  <2>1. /\ IsSeq(Append(fs, f)) /\ Len(Append(fs, f)) = Len(fs) + 1
        /\ \A i \in 1 .. Len(fs) : Append(fs, f)[i] = fs[i]
        /\ Append(fs, f)[Len(fs) + 1] = f
    BY <1>4, AppendToSeq
  <2>2. IsSeq(gs) /\ Len(gs) = n + 1
    BY <1>3, <1>5, <2>1
  <2>3. DOMAIN gs = 1 .. n + 1
    BY <2>2, SeqOfElements
  <2> QED BY <1>3, <1>5, <2>1, <2>2, <2>3
<1>7. PICK y : y = [go |-> D[o].go, fields |-> gs, within |-> D[o].within, ignored |-> D[o].ignored]
  OBVIOUS
<1>8. E = [D EXCEPT ![o] = y]
  <2>1. D[o] = [go |-> D[o].go, fields |-> D[o].fields, within |-> D[o].within, ignored |-> D[o].ignored]
    BY <1>4 DEF IsObject
  <2>2. [D[o] EXCEPT !.fields = gs] = y
    BY <1>7, <2>1
  <2>3. E = [D EXCEPT ![o] = [D[o] EXCEPT !.fields = gs]]
    BY <1>2, <1>5 DEF appended
  <2> QED BY <2>2, <2>3
<1>9. IsObject(y) /\ y.fields = gs
  BY <1>7 DEF IsObject
<1>10. \A i \in 1 .. n + 1 : i = n + 1 \/ i \in 1 .. n
  BY <1>4
<1>11. \A i \in DOMAIN gs : Refers(gs[i], Len(D))
  BY <1>1, <1>2, <1>4, <1>6, <1>10 DEF Heap
<1>12. /\ Heap(E) /\ Len(E) = Len(D) /\ DOMAIN E = DOMAIN D /\ E[o] = y
       /\ \A z \in DOMAIN D \ {o} : E[z] = D[z]
  <2>1. IsSeq(y.fields) /\ \A i \in DOMAIN y.fields : Refers(y.fields[i], Len(D))
    BY <1>6, <1>9, <1>11
  <2>2. PICK F : F = [D EXCEPT ![o] = y]
    OBVIOUS
  <2>3. Heap(D) /\ IsObject(y) /\ IsSeq(y.fields) /\ \A i \in DOMAIN y.fields : Refers(y.fields[i], Len(D))
    BY <1>1, <1>9, <2>1
  <2>4. Heap(F)
    BY <2>2, <2>3, ObjectReplaced
  <2>5. Len(F) = Len(D)
    BY <2>2, <2>3, ObjectReplaced
  <2>6. DOMAIN F = DOMAIN D /\ F[o] = y
    BY <2>2, <2>3, ObjectReplaced
  <2>7. \A z \in DOMAIN D \ {o} : F[z] = D[z]
    BY <2>2, <2>3, ObjectReplaced
  <2> QED BY <1>8, <2>2, <2>4, <2>5, <2>6, <2>7
<1>13. OwnNames(E)
  <2>1. ASSUME NEW i \in DOMAIN gs, NEW k \in DOMAIN gs, i # k PROVE gs[i].name # gs[k].name
    <3>1. \A m \in 1 .. n : fs[m].name # f.name
      BY <1>2, <1>4 DEF fieldNamed
    <3>2. \A m, p \in 1 .. n : m # p => fs[m].name # fs[p].name
      BY <1>1, <1>2, <1>4 DEF OwnNames
    <3> QED BY <1>6, <1>10, <2>1, <3>1, <3>2
  <2>2. ASSUME NEW x \in DOMAIN E, NEW i \in DOMAIN E[x].fields, NEW k \in DOMAIN E[x].fields, i # k
        PROVE  E[x].fields[i].name # E[x].fields[k].name
    <3>1. CASE x = o
      BY <1>9, <1>12, <2>1, <2>2, <3>1
    <3>2. CASE x # o
      BY <1>1, <1>12, <2>2, <3>2 DEF OwnNames
    <3> QED BY <3>1, <3>2
  <2> QED BY <2>2 DEF OwnNames
<1>14. \A x \in DOMAIN D : Keeps(D, E, x)
  <2>1. Keeps(D, E, o)
    <3>1. \A i \in DOMAIN fs : i \in DOMAIN gs /\ gs[i] = fs[i]
      BY <1>4, <1>6
    <3>2. E[o].go = D[o].go /\ E[o].within = D[o].within /\ E[o].ignored = D[o].ignored
      BY <1>7, <1>12
    <3> QED BY <1>2, <1>9, <1>12, <3>1, <3>2 DEF Keeps
  <2>2. ASSUME NEW x \in DOMAIN D \ {o} PROVE Keeps(D, E, x)
    BY <1>12, SameKeeps
  <2> QED BY <2>1, <2>2
<1>15. ASSUME NEW x \in DOMAIN D \ {o} PROVE always(E, x) = always(D, x)
  BY <1>12 DEF always
<1>16. always(E, o) = always(D, o) \cup IF Held(f) THEN {f.object} ELSE {}
  <2>1. always(E, o) = {gs[i].object : i \in {i \in DOMAIN gs : Held(gs[i])}}
    BY <1>9, <1>12 DEF always
  <2>2. always(D, o) = {fs[i].object : i \in {i \in DOMAIN fs : Held(fs[i])}}
    BY <1>2 DEF always
  <2>3. ASSUME NEW p PROVE p \in always(E, o) <=> p \in always(D, o) \/ (Held(f) /\ p = f.object)
    <3> HIDE DEF Held
    <3>1. n + 1 \in DOMAIN gs
      BY <1>4, <1>6
    <3>2. \A i \in DOMAIN fs : i \in DOMAIN gs /\ gs[i] = fs[i]
      BY <1>4, <1>6
    <3> QED BY <1>4, <1>6, <1>10, <2>1, <2>2, <3>1, <3>2
  <2> HIDE DEF always, Held
  <2> QED BY <2>3
<1>17. ASSUME NEW K, K \subseteq S, Grounded(D, K) PROVE Grounded(E, K)
  <2>1. CASE Held(f) /\ o \in S
    <3>1. o # f.object /\ always(D, f.object) = {}
      BY <2>1
    <3>2. f.object \in DOMAIN D
      <4>1. f.object \in 0 .. Len(D) /\ f.object # 0 /\ DOMAIN D = 1 .. Len(D) /\ Len(D) \in Nat
        BY <1>1, <2>1, HeapDomain DEF Refers, Held, NoObject
      <4>2. PICK p, m : p = f.object /\ m = Len(D)
        OBVIOUS
      <4>3. p \in 1 .. m
        BY <4>1, <4>2
      <4> QED BY <4>1, <4>2, <4>3
    <3>3. \A z \in {f.object} : always(E, z) = {}
      BY <1>15, <3>1, <3>2
    <3>4. \A x \in K : always(E, x) \cap K \subseteq always(D, x) \cup {f.object}
      BY <1>1, <1>15, <1>16, <1>17, <2>1
    <3> QED BY <1>17, <3>3, <3>4, SameBelow
  <2>2. CASE ~(Held(f) /\ o \in S)
    <3>1. \A x \in K : always(E, x) \cap K \subseteq always(D, x) \cup {}
      BY <1>1, <1>15, <1>16, <1>17, <2>2
    <3> QED BY <1>17, <3>1, SameBelow
  <2> QED BY <2>1, <2>2
<1>18. ASSUME NEW K, K \subseteq S, Complete(D, K) PROVE Complete(E, K)
  <2>1. K \subseteq DOMAIN D
    BY <1>1, <1>18
  <2> QED BY <1>14, <1>18, <2>1, CompleteStays
<1>19. ASSUME clean, NotHeld(D, Op) PROVE NotHeld(E, Op)
  <2>1. \A x \in DOMAIN D \ {o} : always(E, x) \cap Op = {}
    BY <1>15, <1>19 DEF NotHeld
  <2>2. always(E, o) \cap Op = {}
    BY <1>16, <1>19 DEF NotHeld
  <2> QED BY <1>12, <2>1, <2>2 DEF NotHeld
<1>20. Sound(E, M, S, Op, clean)
  BY <1>1, <1>12, <1>13, <1>17, <1>18, <1>19 DEF Sound
<1>21. Grown(D, E)
  <2>1. \A x \in DOMAIN D : E[x].within = D[x].within
    BY <1>14 DEF Keeps
  <2>2. PICK m : m = Len(D)
    OBVIOUS
  <2>3. m \in Nat /\ DOMAIN D = 1 .. m /\ m <= m
    BY <1>1, <2>2, HeapDomain
  <2> QED BY <1>12, <2>1, <2>2, <2>3 DEF Grown
<1> QED BY <1>2, <1>5, <1>7, <1>12, <1>14, <1>20, <1>21 DEF Enlarged
\* The heap D with the object o filled with what was made as r.
Filling(D, o, r, g, skipped) ==
  [D EXCEPT ![o] = [go |-> g, fields |-> D[r].fields, within |-> o, ignored |-> skipped]]

Filled(D, E, o, r, g, skipped) == E = Filling(D, o, r, g, skipped)

\* E has the objects D has, further on.
Same(D, E) == Grown(D, E) /\ Len(E) = Len(D)

LEMMA FillingSame ==
  ASSUME NEW D, Heap(D), NEW o \in DOMAIN D, D[o].within = o, NEW r, NEW g, NEW skipped,
         NEW E, E = Filling(D, o, r, g, skipped)
  PROVE  Same(D, E)
<1>1. PICK x : x = [go |-> g, fields |-> D[r].fields, within |-> o, ignored |-> skipped]
  OBVIOUS
<1>2. PICK n : n = Len(D)
  OBVIOUS
<1>3. n \in Nat /\ DOMAIN D = 1 .. n /\ n <= n
  BY <1>2, HeapDomain
<1>4. E = [D EXCEPT ![o] = x]
  BY <1>1 DEF Filling
<1>5. DOMAIN E = 1 .. n /\ E = [y \in DOMAIN E |-> E[y]] /\ E[o] = x /\ \A y \in DOMAIN D \ {o} : E[y] = D[y]
  BY <1>3, <1>4
<1>6. Len(E) = n
  BY <1>3, <1>5, IsSeqOf
<1>7. \A y \in DOMAIN D : E[y].within = D[y].within
  BY <1>1, <1>5
<1> QED BY <1>2, <1>3, <1>5, <1>6, <1>7 DEF Same, Grown

\* The object o is filled with what was made as r.
LEMMA ObjectFilled ==
  ASSUME NEW D, NEW M, NEW S, NEW Op, NEW clean, Sound(D, M, S, Op, clean),
         NEW o \in DOMAIN D, NEW r \in DOMAIN D, o # r, o \notin S, clean => o \in Op /\ r \in Op,
         D[o].within = o, D[r].within = NoObject,
         NEW g, NEW skipped, NEW E, E = Filling(D, o, r, g, skipped),
         clean => Covers(E, o)
  PROVE  Sound(E, M, S \cup {r, o}, Op \ {r, o}, clean)
<1>1. Heap(D) /\ OwnNames(D) /\ S \subseteq DOMAIN D /\ M \subseteq S
  BY DEF Sound
<1>2. Len(D) \in Nat /\ DOMAIN D = 1 .. Len(D)
  BY <1>1, HeapDomain
<1>3. PICK x : x = [go |-> g, fields |-> D[r].fields, within |-> o, ignored |-> skipped]
  OBVIOUS
<1>4. IsObject(x) /\ x.fields = D[r].fields /\ x.within = o
  BY <1>3 DEF IsObject
<1>5. IsSeq(x.fields) /\ \A i \in DOMAIN x.fields : Refers(x.fields[i], Len(D))
  BY <1>1, <1>4 DEF Heap
<1>6. E = [D EXCEPT ![o] = x]
  BY <1>3 DEF Filling
<1>7. Heap(E) /\ Len(E) = Len(D)
  <2>1. PICK F : F = [D EXCEPT ![o] = x]
    OBVIOUS
  <2>2. Heap(F)
    BY <1>1, <1>4, <1>5, <2>1, ObjectReplaced
  <2>3. Len(F) = Len(D)
    BY <1>1, <1>4, <1>5, <2>1, ObjectReplaced
  <2> QED BY <1>6, <2>1, <2>2, <2>3
<1>8. DOMAIN E = DOMAIN D /\ E[o] = x
  BY <1>6
<1>9. \A y \in DOMAIN D \ {o} : E[y] = D[y]
  BY <1>6
<1>10. \A y \in DOMAIN D \ {o} : always(E, y) = always(D, y)
  BY <1>9 DEF always
<1>11. always(E, o) = always(D, r)
  BY <1>4, <1>8 DEF always
<1>12. PICK K, Q : K = S \cup {r} /\ Q = Op \ {r}
  OBVIOUS
<1>13. Sound(D, M, K, Q, clean)
  <2>1. r # NoObject
    BY <1>2 DEF NoObject
  <2>2. D[r].within # r
    BY <2>1
  <2> QED BY <1>12, <2>2, Released
<1>14. K \subseteq DOMAIN D /\ o \notin K /\ M \subseteq K
  BY <1>1, <1>12
<1>15. ASSUME NEW L, L \subseteq K, Grounded(D, L) PROVE Grounded(E, L)
  <2>1. \A y \in L : y \in DOMAIN D \ {o}
    BY <1>14, <1>15
  <2>2. \A y \in L : always(E, y) = always(D, y)
    BY <1>10, <2>1
  <2> QED BY <1>15, <2>2 DEF Grounded
<1>16. ASSUME NEW L, L \subseteq K, Complete(D, L) PROVE Complete(E, L)
  <2>1. ASSUME NEW y \in DOMAIN D PROVE Keeps(D, E, y) \/ (y \notin L /\ D[y].within \notin L)
    <3>1. CASE y = o
      BY <1>14, <1>16, <3>1
    <3>2. CASE y # o
      BY <1>8, <1>9, <3>2, SameKeeps
    <3> QED BY <3>1, <3>2
  <2>2. L \subseteq DOMAIN D
    BY <1>14, <1>16
  <2> QED BY <1>16, <2>1, <2>2, CompleteStays
<1>17. ASSUME NotHeld(D, Q) PROVE NotHeld(E, Q)
  BY <1>8, <1>10, <1>11, <1>17 DEF NotHeld
<1>18. OwnNames(E)
  <2>1. ASSUME NEW y \in DOMAIN E, NEW i \in DOMAIN E[y].fields, NEW k \in DOMAIN E[y].fields, i # k
        PROVE  E[y].fields[i].name # E[y].fields[k].name
    <3>1. PICK z \in DOMAIN D : E[y].fields = D[z].fields
      BY <1>4, <1>8, <1>9
    <3> QED BY <1>1, <2>1, <3>1 DEF OwnNames
  <2> QED BY <2>1 DEF OwnNames
<1>19. Sound(E, M, K, Q, clean)
  BY <1>7, <1>8, <1>13, <1>14, <1>15, <1>16, <1>17, <1>18 DEF Sound
<1>20. Sound(E, M, K \cup {o}, Q \ {o}, clean)
  <2>1. o \in DOMAIN E /\ (clean => o \in Q) /\ (clean => (E[o].within = o => Covers(E, o)))
    BY <1>8, <1>12
  <2> QED BY <1>19, <2>1, Released
<1>21. K \cup {o} = S \cup {r, o} /\ Q \ {o} = Op \ {r, o}
  BY <1>12
<1>22. Sound(E, M, S \cup {r, o}, Op \ {r, o}, clean)
  BY <1>20, <1>21
<1> QED BY <1>22

\* Publication only says of the fields where they are.
LEMMA Stamps ==
  ASSUME NEW D, NEW M, NEW S, NEW Op, NEW clean, Sound(D, M, S, Op, clean),
         NEW places, NEW E, E = stamped(D, places)
  PROVE  Sound(E, M, S, Op, clean) /\ Same(D, E)
<1>1. Heap(D) /\ OwnNames(D) /\ S \subseteq DOMAIN D /\ M \subseteq S
  BY DEF Sound
<1>2. PICK n : n = Len(D)
  OBVIOUS
<1>3. n \in Nat /\ DOMAIN D = 1 .. n
  BY <1>1, <1>2, HeapDomain
<1>4. DOMAIN E = DOMAIN D /\ E = [o \in DOMAIN E |-> E[o]]
  BY DEF stamped
<1>5. IsSeq(E) /\ Len(E) = n
  BY <1>3, <1>4, IsSeqOf
<1>6. ASSUME NEW o \in DOMAIN D
      PROVE  /\ E[o].go = D[o].go /\ E[o].within = D[o].within /\ E[o].ignored = D[o].ignored
             /\ IsObject(E[o]) /\ IsSeq(E[o].fields) /\ DOMAIN E[o].fields = DOMAIN D[o].fields
             /\ \A i \in DOMAIN D[o].fields :
                  E[o].fields[i] = upon(D[o].fields[i],
                    [path |-> places[o][i].path, recursive |-> places[o][i].recursive])
  <2>1. PICK fs : fs = D[o].fields
    OBVIOUS
  <2>2. PICK gs : gs = [i \in DOMAIN fs |-> upon(fs[i],
                    [path |-> places[o][i].path, recursive |-> places[o][i].recursive])]
    OBVIOUS
  <2>3. D[o] = [go |-> D[o].go, fields |-> fs, within |-> D[o].within, ignored |-> D[o].ignored]
    BY <1>1, <2>1 DEF Heap, IsObject
  <2>4. E[o] = [D[o] EXCEPT !.fields = gs]
    BY <1>6, <2>1, <2>2 DEF stamped
  <2>5. E[o] = [go |-> D[o].go, fields |-> gs, within |-> D[o].within, ignored |-> D[o].ignored]
    BY <2>3, <2>4
  <2>6. IsSeq(fs) /\ Len(fs) \in Nat /\ DOMAIN fs = 1 .. Len(fs)
    BY <1>1, <2>1, SeqOfElements DEF Heap
  <2>7. PICK m : m = Len(fs)
    OBVIOUS
  <2>8. DOMAIN gs = DOMAIN fs /\ gs = [i \in DOMAIN gs |-> gs[i]]
    BY <2>2
  <2>9. IsSeq(gs)
    BY <2>6, <2>7, <2>8, IsSeqOf
  <2>10. IsObject(E[o]) /\ E[o].fields = gs
    BY <2>5 DEF IsObject
  <2>11. \A i \in DOMAIN fs : gs[i] = upon(fs[i],
                    [path |-> places[o][i].path, recursive |-> places[o][i].recursive])
    BY <2>2
  <2>12. E[o].go = D[o].go /\ E[o].within = D[o].within /\ E[o].ignored = D[o].ignored
    BY <2>5
  <2> HIDE <2>2
  <2> QED BY <2>1, <2>8, <2>9, <2>10, <2>11, <2>12
<1>7. ASSUME NEW f, Shape(f), NEW p, NEW q, NEW h, h = upon(f, [path |-> p, recursive |-> q])
      PROVE  /\ Shape(h) /\ h.name = f.name /\ h.go = f.go /\ h.kind = f.kind
             /\ h.object = f.object /\ h.movedTo = f.movedTo
  <2>1. \A x \in DOMAIN f : x \in DOMAIN h
    BY <1>7 DEF upon
  <2>2. \A x \in DOMAIN f : x \notin {"path", "recursive"} => h[x] = f[x]
    BY <1>7 DEF upon
  <2> QED BY <1>7, <2>1, <2>2 DEF Shape
<1>8. ASSUME NEW o \in DOMAIN D, NEW i \in DOMAIN D[o].fields
      PROVE  /\ Refers(E[o].fields[i], n) /\ E[o].fields[i].name = D[o].fields[i].name
             /\ E[o].fields[i].go = D[o].fields[i].go
             /\ E[o].fields[i].object = D[o].fields[i].object
             /\ Held(E[o].fields[i]) <=> Held(D[o].fields[i])
  <2>1. PICK f, h : f = D[o].fields[i] /\ h = E[o].fields[i]
    OBVIOUS
  <2>2. Refers(f, n)
    BY <1>1, <1>2, <2>1 DEF Heap
  <2>3. PICK p, q : h = upon(f, [path |-> p, recursive |-> q])
    BY <1>6, <2>1
  <2>4. /\ Shape(h) /\ h.name = f.name /\ h.go = f.go /\ h.kind = f.kind
        /\ h.object = f.object /\ h.movedTo = f.movedTo
    BY <1>7, <2>2, <2>3 DEF Refers
  <2> QED BY <2>1, <2>2, <2>4 DEF Refers, Held, Moved
<1>9. \A o \in DOMAIN D : always(E, o) = always(D, o)
  <2>1. ASSUME NEW o \in DOMAIN D, NEW x PROVE x \in always(E, o) <=> x \in always(D, o)
    <3>1. DOMAIN E[o].fields = DOMAIN D[o].fields
      BY <1>6
    <3>2. \A i \in DOMAIN D[o].fields : /\ E[o].fields[i].object = D[o].fields[i].object
                                        /\ Held(E[o].fields[i]) <=> Held(D[o].fields[i])
      BY <1>8
    <3> QED BY <3>1, <3>2 DEF always
  <2> HIDE DEF always
  <2> QED BY <2>1
<1>10. Heap(E)
  BY <1>4, <1>5, <1>6, <1>8 DEF Heap
<1>11. OwnNames(E)
  <2>1. ASSUME NEW o \in DOMAIN E, NEW i \in DOMAIN E[o].fields, NEW k \in DOMAIN E[o].fields, i # k
        PROVE  E[o].fields[i].name # E[o].fields[k].name
    <3>1. o \in DOMAIN D /\ i \in DOMAIN D[o].fields /\ k \in DOMAIN D[o].fields
      BY <1>4, <1>6, <2>1
    <3>2. D[o].fields[i].name # D[o].fields[k].name
      BY <1>1, <2>1, <3>1 DEF OwnNames
    <3> QED BY <1>8, <3>1, <3>2
  <2> QED BY <2>1 DEF OwnNames
<1>12. \A o \in DOMAIN D : Keeps(D, E, o)
  <2>1. ASSUME NEW o \in DOMAIN D PROVE Keeps(D, E, o)
    <3>1. \A i \in DOMAIN D[o].fields : i \in DOMAIN E[o].fields /\ E[o].fields[i].go = D[o].fields[i].go
      BY <1>6, <1>8
    <3>2. E[o].go = D[o].go /\ E[o].within = D[o].within /\ E[o].ignored = D[o].ignored
      BY <1>6
    <3> QED BY <1>4, <3>1, <3>2 DEF Keeps
  <2> QED BY <2>1
<1>13. ASSUME NEW K, K \subseteq DOMAIN D, Complete(D, K) PROVE Complete(E, K)
  BY <1>12, <1>13, CompleteStays
<1>14. ASSUME NEW K, K \subseteq DOMAIN D, Grounded(D, K) PROVE Grounded(E, K)
  BY <1>9, <1>14 DEF Grounded
<1>15. ASSUME NotHeld(D, Op) PROVE NotHeld(E, Op)
  BY <1>4, <1>9, <1>15 DEF NotHeld
<1>16. Sound(E, M, S, Op, clean)
  BY <1>1, <1>4, <1>10, <1>11, <1>13, <1>14, <1>15 DEF Sound
<1>17. Grown(D, E)
  <2>1. n <= n
    BY <1>3
  <2>2. \A o \in DOMAIN D : E[o].within = D[o].within
    BY <1>6
  <2> QED BY <1>2, <1>3, <1>4, <1>5, <2>1, <2>2 DEF Grown
<1> QED BY <1>2, <1>5, <1>16, <1>17 DEF Same
------------------------------------------------------------------------------
(* Builders.                                                               *)

\* What is registered: nothing that is always there is still in the making.
RegOK(r, n, k, Op, clean) ==
  /\ Refers(r.f, n)
  /\ r.op = "group" => r.group \in 1 .. k
  /\ clean /\ Held(r.f) => r.f.object \notin Op

Holds(cs, n, k, Op, clean) ==
  /\ IsSeq(cs)
  /\ \A c \in DOMAIN cs : /\ IsSeq(cs[c])
                          /\ \A i \in DOMAIN cs[c] : RegOK(cs[c][i], n, k, Op, clean)

Describes(st, k) == IsSeq(st) /\ st # <<>> /\ \A i \in DOMAIN st : st[i].in \in 1 .. k

Fit(x) ==
  {"go", "fn", "object", "caller", "containers", "stack", "rules", "diags"} \subseteq DOMAIN x

BuilderOK(x, D, Op, clean) ==
  /\ Fit(x) /\ x.object \in DOMAIN D /\ D[x.object].within = x.object
  /\ Holds(x.containers, Len(D), Len(x.containers), Op, clean)
  /\ Describes(x.stack, Len(x.containers))

\* x is the builder y further on, with the diagnostics N more.
Further(x, y, N) ==
  /\ Fit(x) /\ Key(x) = Key(y) /\ x.object = y.object /\ x.caller = y.caller
  /\ x.diags = y.diags \cup N

LEMMA FurtherOn ==
  ASSUME NEW x, NEW y, NEW z, NEW C, NEW N, Further(x, y, C), Further(z, x, N)
  PROVE  Further(z, y, C \cup N)
BY DEF Further

LEMMA FieldBound ==
  ASSUME NEW f, NEW name, NEW go, NEW kind, NEW o, NEW h, h = boundField(f, name, go, kind, o)
  PROVE  /\ Shape(h) /\ h.name = name /\ h.go = go /\ h.kind = kind /\ h.object = o
         /\ h.movedTo = <<>>
<1>1. PICK r : r = [name |-> name, go |-> go, kind |-> kind, object |-> o,
                    movedTo |-> <<>>, recursive |-> FALSE]
  OBVIOUS
<1>2. \A x \in DOMAIN r : x \in DOMAIN h /\ h[x] = r[x]
  BY <1>1 DEF boundField, upon
<1> QED BY <1>1, <1>2 DEF Shape

LEMMA Registered ==
  ASSUME NEW s, NEW f, NEW kind, NEW o, NEW n \in Nat, o \in 0 .. n, NEW m, NEW k,
         s.op = "group" => m \in 1 .. k,
         NEW Op, NEW clean, clean /\ kind \in {"object", "group"} /\ o # NoObject => o \notin Op
  PROVE  RegOK(registration(s, f, kind, o, m), n, k, Op, clean)
<1>1. PICK h : h = boundField(f, s.name, s.go, kind, o)
  OBVIOUS
<1>2. Shape(h) /\ h.kind = kind /\ h.object = o
  BY <1>1, FieldBound
<1>3. registration(s, f, kind, o, m) = [op |-> s.op, f |-> h, group |-> m]
  BY <1>1 DEF registration
<1> QED BY <1>2, <1>3 DEF RegOK, Refers, Held

\* The heap grows, objects are opened and made, diagnostics are reported.
LEMMA BuilderOn ==
  ASSUME NEW D, NEW E, Grown(D, E), NEW Op, NEW clean, NEW x, BuilderOK(x, D, Op, clean),
         NEW Q, \A o \in Q : o \in Op \/ o \in Len(D) + 1 .. Len(E),
         NEW spotless, spotless => clean
  PROVE  BuilderOK(x, E, Q, spotless)
<1>1. PICK n, m : n = Len(D) /\ m = Len(E)
  OBVIOUS
<1>2. n \in Nat /\ m \in Nat /\ n <= m /\ DOMAIN D = 1 .. n /\ DOMAIN E = 1 .. m
  BY <1>1 DEF Grown
<1>3. ASSUME NEW r, NEW k, RegOK(r, n, k, Op, clean) PROVE RegOK(r, m, k, Q, spotless)
  <2>1. PICK o : o = r.f.object
    OBVIOUS
  <2>2. o \in 0 .. n
    BY <1>3, <2>1 DEF RegOK, Refers
  <2>3. o \in 0 .. m /\ o \notin n + 1 .. m
    BY <1>2, <2>2
  <2>4. spotless /\ Held(r.f) => o \notin Q
    BY <1>1, <1>3, <2>1, <2>3 DEF RegOK
  <2> QED BY <1>3, <2>1, <2>3, <2>4 DEF RegOK, Refers
<1>4. Holds(x.containers, m, Len(x.containers), Q, spotless)
  BY <1>1, <1>3 DEF BuilderOK, Holds
<1>5. x.object \in DOMAIN E /\ E[x.object].within = x.object
  <2>1. PICK o : o = x.object
    OBVIOUS
  <2>2. o \in 1 .. n
    BY <1>2, <2>1 DEF BuilderOK
  <2>3. o \in 1 .. m
    BY <1>2, <2>2
  <2> QED BY <1>2, <2>1, <2>2, <2>3 DEF BuilderOK, Grown
<1> QED BY <1>1, <1>4, <1>5 DEF BuilderOK

LEMMA StackTop ==
  ASSUME NEW st, NEW k, Describes(st, k), NEW c, c.in \in 1 .. k
  PROVE  /\ Describes(withTop(st, c), k)
         /\ Last(st).in \in 1 .. k
         /\ Last(withTop(st, c)) = c
<1>1. IsSeq(st) /\ st # <<>>
  BY DEF Describes
<1>2. PICK n : n = Len(st)
  OBVIOUS
<1>3. /\ n \in Nat \ {0} /\ IsSeq(Front(st)) /\ Len(Front(st)) = n - 1
      /\ \A i \in 1 .. n - 1 : Front(st)[i] = st[i]
  BY <1>1, <1>2, FrontOfSeq
<1>4. DOMAIN st = 1 .. n
  BY <1>1, <1>2, SeqOfElements
<1>5. PICK h : h = Front(st)
  OBVIOUS
<1>6. PICK t : t = Append(h, c)
  OBVIOUS
<1>7. IsSeq(t) /\ Len(t) = (n - 1) + 1 /\ t[(n - 1) + 1] = c /\ \A i \in 1 .. n - 1 : t[i] = h[i]
  <2>1. /\ IsSeq(Append(h, c)) /\ Len(Append(h, c)) = Len(h) + 1
        /\ \A i \in 1 .. Len(h) : Append(h, c)[i] = h[i]
        /\ Append(h, c)[Len(h) + 1] = c
    BY <1>3, <1>5, AppendToSeq
  <2> QED BY <1>3, <1>5, <1>6, <2>1
<1>8. (n - 1) + 1 = n
  BY <1>3
<1>9. DOMAIN t = 1 .. n
  BY <1>7, <1>8, SeqOfElements
<1>10. \A i \in 1 .. n : i = n \/ i \in 1 .. n - 1
  BY <1>3
<1>11. \A i \in 1 .. n : t[i].in \in 1 .. k
  BY <1>3, <1>4, <1>5, <1>7, <1>8, <1>10 DEF Describes
<1>12. t # <<>>
  <2>1. n \in DOMAIN t
    BY <1>3, <1>9
  <2> QED BY <2>1
<1>13. withTop(st, c) = t
  BY <1>5, <1>6 DEF withTop
<1>14. Last(t) = c
  BY <1>7, <1>8 DEF Last
<1>15. n \in DOMAIN st /\ Last(st) = st[n]
  BY <1>2, <1>3, <1>4 DEF Last
<1> QED BY <1>7, <1>9, <1>11, <1>12, <1>13, <1>14, <1>15 DEF Describes

\* The containers cs with r in the container in.
With(cs, in, r) == [c \in DOMAIN cs |-> IF c = in THEN Append(cs[c], r) ELSE cs[c]]

LEMMA Declared ==
  ASSUME NEW cs, NEW n, NEW k, NEW Op, NEW clean, Holds(cs, n, k, Op, clean),
         NEW r, RegOK(r, n, k, Op, clean), NEW in,
         NEW ds, ds = With(cs, in, r)
  PROVE  Holds(ds, n, k, Op, clean) /\ Len(ds) = Len(cs)
<1>1. PICK w : w = Len(cs)
  OBVIOUS
<1>2. IsSeq(cs) /\ w \in Nat /\ DOMAIN cs = 1 .. w
  BY <1>1, SeqOfElements DEF Holds
<1>3. DOMAIN ds = 1 .. w /\ ds = [c \in DOMAIN ds |-> ds[c]]
  BY <1>2 DEF With
<1>4. IsSeq(ds) /\ Len(ds) = w
  BY <1>2, <1>3, IsSeqOf
<1>5. ASSUME NEW c \in DOMAIN ds
      PROVE  IsSeq(ds[c]) /\ \A i \in DOMAIN ds[c] : RegOK(ds[c][i], n, k, Op, clean)
  <2>1. PICK s, m : s = cs[c] /\ m = Len(s)
    OBVIOUS
  <2>2. IsSeq(s) /\ \A i \in DOMAIN s : RegOK(s[i], n, k, Op, clean)
    BY <1>2, <1>3, <2>1 DEF Holds
  <2>3. CASE c # in
    BY <1>2, <1>3, <2>1, <2>2, <2>3 DEF With
  <2>4. CASE c = in
    <3>1. PICK t : t = Append(s, r)
      OBVIOUS
    <3>2. /\ IsSeq(t) /\ Len(t) = m + 1 /\ \A i \in 1 .. m : t[i] = s[i]
          /\ t[m + 1] = r
      BY <2>1, <2>2, <3>1, AppendToSeq
    <3>3. DOMAIN s = 1 .. m /\ m \in Nat /\ DOMAIN t = 1 .. m + 1
      BY <2>1, <2>2, <3>2, SeqOfElements
    <3>4. \A i \in 1 .. m + 1 : i = m + 1 \/ i \in 1 .. m
      BY <3>3
    <3>5. \A i \in DOMAIN t : RegOK(t[i], n, k, Op, clean)
      BY <2>2, <3>2, <3>3, <3>4
    <3>6. ds[c] = t
      BY <1>2, <1>3, <2>1, <2>4, <3>1 DEF With
    <3> QED BY <3>2, <3>5, <3>6
  <2> QED BY <2>3, <2>4
<1> QED BY <1>1, <1>4, <1>5 DEF Holds

\* builder.add
LEMMA Added ==
  ASSUME NEW D, NEW Op, NEW clean, NEW x, BuilderOK(x, D, Op, clean),
         NEW r, RegOK(r, Len(D), Len(x.containers), Op, clean)
  PROVE  BuilderOK(add(x, r), D, Op, clean) /\ Further(add(x, r), x, {})
<1>1. PICK cs, k, in : cs = x.containers /\ k = Len(cs) /\ in = Last(x.stack).in
  OBVIOUS
<1>2. PICK ds : ds = With(cs, in, r)
  OBVIOUS
<1>3. add(x, r) = [x EXCEPT !.containers = ds]
  BY <1>1, <1>2 DEF add, With
<1>4. Holds(cs, Len(D), k, Op, clean) /\ RegOK(r, Len(D), k, Op, clean)
  BY <1>1 DEF BuilderOK
<1>5. Holds(ds, Len(D), k, Op, clean) /\ Len(ds) = k
  BY <1>1, <1>2, <1>4, Declared
<1>6. PICK y : y = [x EXCEPT !.containers = ds]
  OBVIOUS
<1>7. /\ DOMAIN y = DOMAIN x /\ y.containers = ds /\ y.object = x.object /\ y.stack = x.stack
      /\ y.go = x.go /\ y.fn = x.fn /\ y.caller = x.caller /\ y.diags = x.diags
  BY <1>6 DEF BuilderOK, Fit
<1>8. BuilderOK(y, D, Op, clean)
  BY <1>1, <1>5, <1>7 DEF BuilderOK, Fit
<1>9. Further(y, x, {})
  BY <1>7 DEF BuilderOK, Further, Fit, Key
<1> QED BY <1>3, <1>6, <1>8, <1>9

\* A group is declared, and its container opened.
LEMMA GroupOpened ==
  ASSUME NEW D, NEW Op, NEW clean, NEW x, BuilderOK(x, D, Op, clean),
         NEW n, n = Len(x.containers) + 1, NEW r, RegOK(r, Len(D), n, Op, clean), NEW body,
         NEW y, y = [add(x, r) EXCEPT !.containers = Append(@, <<>>),
                                      !.stack = Append(@, opened(body, n))]
  PROVE  BuilderOK(y, D, Op, clean) /\ Further(y, x, {})
<1>1. PICK cs, k, in : cs = x.containers /\ k = Len(cs) /\ in = Last(x.stack).in
  OBVIOUS
<1>2. PICK ds : ds = With(cs, in, r)
  OBVIOUS
<1>3. PICK z : z = [x EXCEPT !.containers = ds]
  OBVIOUS
<1>4. add(x, r) = z
  BY <1>1, <1>2, <1>3 DEF add, With
<1>5. /\ DOMAIN z = DOMAIN x /\ z.containers = ds /\ z.object = x.object /\ z.stack = x.stack
      /\ z.go = x.go /\ z.fn = x.fn /\ z.caller = x.caller /\ z.diags = x.diags
  BY <1>3 DEF BuilderOK, Fit
<1>6. PICK es, st : es = Append(ds, <<>>) /\ st = Append(x.stack, opened(body, n))
  OBVIOUS
<1>7. y = [z EXCEPT !.containers = es, !.stack = st]
  BY <1>4, <1>5, <1>6
<1>8. /\ DOMAIN y = DOMAIN x /\ y.containers = es /\ y.object = x.object /\ y.stack = st
      /\ y.go = x.go /\ y.fn = x.fn /\ y.caller = x.caller /\ y.diags = x.diags
  BY <1>5, <1>7 DEF BuilderOK, Fit
<1>9. k \in Nat /\ n = k + 1 /\ n \in 1 .. n /\ \A i \in 1 .. k : i \in 1 .. n
  <2>1. k \in Nat
    BY <1>1, SeqOfElements DEF BuilderOK, Holds
  <2> QED BY <1>1, <2>1
<1>10. Holds(cs, Len(D), n, Op, clean)
  BY <1>1, <1>9 DEF BuilderOK, Holds, RegOK
<1>11. Holds(ds, Len(D), n, Op, clean) /\ Len(ds) = k
  BY <1>1, <1>2, <1>10, Declared
<1>12. Holds(es, Len(D), n, Op, clean) /\ Len(es) = n
  <2>1. IsSeq(ds) /\ DOMAIN ds = 1 .. k
    BY <1>11, SeqOfElements DEF Holds
  <2>2. PICK empty : empty = <<>>
    OBVIOUS
  <2>3. /\ IsSeq(es) /\ Len(es) = k + 1 /\ es[k + 1] = empty /\ \A i \in 1 .. k : es[i] = ds[i]
    <3>1. /\ IsSeq(Append(ds, empty)) /\ Len(Append(ds, empty)) = Len(ds) + 1
          /\ Append(ds, empty)[Len(ds) + 1] = empty /\ \A i \in 1 .. Len(ds) : Append(ds, empty)[i] = ds[i]
      BY <2>1, AppendToSeq
    <3> QED BY <1>6, <1>11, <2>2, <3>1
  <2>4. DOMAIN es = 1 .. k + 1
    BY <2>3, SeqOfElements
  <2>5. \A i \in 1 .. k + 1 : i = k + 1 \/ i \in 1 .. k
    BY <1>9
  <2>6. IsSeq(empty) /\ DOMAIN empty = {}
    BY <2>2 DEF IsSeq
  <2> QED BY <1>9, <1>11, <2>1, <2>3, <2>4, <2>5, <2>6 DEF Holds
<1>13. Describes(st, n)
  <2>1. PICK ss, c, m : ss = x.stack /\ c = opened(body, n) /\ m = Len(ss)
    OBVIOUS
  <2>2. IsSeq(ss) /\ DOMAIN ss = 1 .. m /\ m \in Nat /\ \A i \in 1 .. m : ss[i].in \in 1 .. k
    BY <1>1, <2>1, SeqOfElements DEF BuilderOK, Describes
  <2>3. c.in = n
    BY <2>1 DEF opened
  <2>4. /\ IsSeq(st) /\ Len(st) = m + 1 /\ st[m + 1] = c /\ \A i \in 1 .. m : st[i] = ss[i]
    <3>1. /\ IsSeq(Append(ss, c)) /\ Len(Append(ss, c)) = Len(ss) + 1
          /\ Append(ss, c)[Len(ss) + 1] = c /\ \A i \in 1 .. Len(ss) : Append(ss, c)[i] = ss[i]
      BY <2>2, AppendToSeq
    <3> QED BY <1>6, <2>1, <3>1
  <2>5. DOMAIN st = 1 .. m + 1
    BY <2>4, SeqOfElements
  <2>6. m + 1 \in 1 .. m + 1 /\ \A i \in 1 .. m + 1 : i = m + 1 \/ i \in 1 .. m
    BY <2>2
  <2>7. st # <<>>
    BY <2>5, <2>6
  <2> QED BY <1>9, <2>2, <2>3, <2>4, <2>5, <2>6, <2>7 DEF Describes
<1>14. BuilderOK(y, D, Op, clean)
  BY <1>8, <1>12, <1>13 DEF BuilderOK, Fit
<1> QED BY <1>8, <1>14 DEF BuilderOK, Further, Fit, Key

LEMMA NotedDown ==
  ASSUME NEW D, NEW Op, NEW clean, NEW x, BuilderOK(x, D, Op, clean), NEW N
  PROVE  /\ BuilderOK(noted(x, N), D, Op, clean) /\ Further(noted(x, N), x, N)
         /\ noted(x, N).containers = x.containers
<1>1. PICK y : y = [x EXCEPT !.diags = x.diags \cup N]
  OBVIOUS
<1>2. noted(x, N) = y
  BY <1>1 DEF noted
<1>3. /\ DOMAIN y = DOMAIN x /\ y.containers = x.containers /\ y.object = x.object
      /\ y.stack = x.stack /\ y.go = x.go /\ y.fn = x.fn /\ y.caller = x.caller /\ y.diags = x.diags \cup N
  BY <1>1 DEF BuilderOK, Fit
<1> QED BY <1>2, <1>3 DEF BuilderOK, Further, Fit, Key

LEMMA WithRules ==
  ASSUME NEW D, NEW Op, NEW clean, NEW x, BuilderOK(x, D, Op, clean), NEW rules
  PROVE  /\ BuilderOK([x EXCEPT !.rules = rules], D, Op, clean)
         /\ Further([x EXCEPT !.rules = rules], x, {})
<1>1. PICK y : y = [x EXCEPT !.rules = rules]
  OBVIOUS
<1>2. /\ DOMAIN y = DOMAIN x /\ y.containers = x.containers /\ y.object = x.object
      /\ y.stack = x.stack /\ y.go = x.go /\ y.fn = x.fn /\ y.caller = x.caller /\ y.diags = x.diags
  BY <1>1 DEF BuilderOK, Fit
<1> QED BY <1>1, <1>2 DEF BuilderOK, Further, Fit, Key

LEMMA WithStack ==
  ASSUME NEW D, NEW Op, NEW clean, NEW x, BuilderOK(x, D, Op, clean),
         NEW st, Describes(st, Len(x.containers))
  PROVE  /\ BuilderOK([x EXCEPT !.stack = st], D, Op, clean)
         /\ Further([x EXCEPT !.stack = st], x, {})
         /\ [x EXCEPT !.stack = st].containers = x.containers
<1>1. PICK y : y = [x EXCEPT !.stack = st]
  OBVIOUS
<1>2. /\ DOMAIN y = DOMAIN x /\ y.containers = x.containers /\ y.object = x.object
      /\ y.stack = st /\ y.go = x.go /\ y.fn = x.fn /\ y.caller = x.caller /\ y.diags = x.diags
  BY <1>1 DEF BuilderOK, Fit
<1> QED BY <1>1, <1>2 DEF BuilderOK, Further, Fit, Key
------------------------------------------------------------------------------
(* The builders at work.                                                   *)

Apart(bs) == \A i, k \in DOMAIN bs : i # k => Key(bs[i]) # Key(bs[k])

\* Whatever was reported, a builder that is still at work has noted.
NotedIn(bs, R) == bs # <<>> => \A d \in R : \E i \in DOMAIN bs : d \in bs[i].diags

\* All but the first were opened by a statement about an object.
Called(bs) == \A i \in DOMAIN bs : i = 1 \/ bs[i].caller.op # "group"

Work(bs, D, R, Op, clean) ==
  /\ IsSeq(bs) /\ Apart(bs) /\ NotedIn(bs, R) /\ Called(bs)
  /\ \A i \in DOMAIN bs : BuilderOK(bs[i], D, Op, clean)
  /\ \A i, k \in DOMAIN bs : i < k => bs[i].object < bs[k].object

LEMMA InnermostIsLast ==
  ASSUME NEW bs, IsSeq(bs), bs # <<>>
  PROVE  /\ Len(bs) \in Nat \ {0} /\ DOMAIN bs = 1 .. Len(bs)
         /\ Last(bs) = bs[Len(bs)]
BY FrontOfSeq, SeqOfElements DEF Last

\* Become, of a sequence of builders.
LEMMA LastReplaced ==
  ASSUME NEW bs, IsSeq(bs), bs # <<>>, NEW x
  PROVE  LET cs == Append(Front(bs), x)
         IN /\ IsSeq(cs) /\ Len(cs) = Len(bs) /\ DOMAIN cs = 1 .. Len(bs) /\ cs # <<>>
            /\ cs[Len(bs)] = x /\ \A i \in 1 .. Len(bs) - 1 : cs[i] = bs[i]
<1> DEFINE n  == Len(bs)
           cs == Append(Front(bs), x)
<1>1. /\ n \in Nat \ {0} /\ IsSeq(Front(bs)) /\ Len(Front(bs)) = n - 1
      /\ \A i \in 1 .. n - 1 : Front(bs)[i] = bs[i]
  BY FrontOfSeq
<1>2. /\ IsSeq(cs) /\ Len(cs) = (n - 1) + 1 /\ cs[(n - 1) + 1] = x
      /\ \A i \in 1 .. n - 1 : cs[i] = Front(bs)[i]
  BY <1>1, AppendToSeq
<1>3. (n - 1) + 1 = n
  BY <1>1
<1>4. DOMAIN cs = 1 .. n
  BY <1>2, <1>3, SeqOfElements
<1>5. cs # <<>>
  <2> HIDE DEF cs, n
  <2>1. n \in DOMAIN cs
    BY <1>1, <1>4
  <2> QED BY <2>1
<1> HIDE DEF cs, n
<1>6. /\ IsSeq(cs) /\ Len(cs) = n /\ DOMAIN cs = 1 .. n /\ cs # <<>>
      /\ cs[n] = x /\ \A i \in 1 .. n - 1 : cs[i] = bs[i]
  BY <1>1, <1>2, <1>3, <1>4, <1>5
<1> QED BY <1>6 DEF cs, n

\* The builders cs are bs, the innermost one further on as x.
Onward(bs, cs, x) ==
  /\ cs # <<>> /\ DOMAIN cs = DOMAIN bs /\ Last(cs) = x
  /\ \A i \in DOMAIN bs : /\ cs[i].object = bs[i].object /\ Key(cs[i]) = Key(bs[i])
                          /\ cs[i].caller = bs[i].caller

LEMMA GoneOn ==
  ASSUME NEW bs, IsSeq(bs), bs # <<>>, NEW x, NEW N, Further(x, Last(bs), N),
         NEW cs, cs = Append(Front(bs), x)
  PROVE  Onward(bs, cs, x) /\ IsSeq(cs) /\ \A i \in DOMAIN bs : cs[i] = x \/ cs[i] = bs[i]
<1>1. PICK n : n = Len(bs)
  OBVIOUS
<1>2. n \in Nat \ {0} /\ DOMAIN bs = 1 .. n /\ Last(bs) = bs[n]
  BY <1>1, InnermostIsLast
<1>3. /\ IsSeq(cs) /\ Len(cs) = n /\ DOMAIN cs = 1 .. n /\ cs # <<>> /\ cs[n] = x
      /\ \A i \in 1 .. n - 1 : cs[i] = bs[i]
  <2>1. PICK y : y = Append(Front(bs), x)
    OBVIOUS
  <2>2. /\ IsSeq(y) /\ Len(y) = Len(bs) /\ DOMAIN y = 1 .. Len(bs) /\ y # <<>>
        /\ y[Len(bs)] = x /\ \A i \in 1 .. Len(bs) - 1 : y[i] = bs[i]
    BY <2>1, LastReplaced
  <2> QED BY <1>1, <2>1, <2>2
<1>4. \A i \in 1 .. n : i = n \/ i \in 1 .. n - 1
  BY <1>2
<1>5. Last(cs) = x
  BY <1>3 DEF Last
<1>6. \A i \in DOMAIN bs : /\ cs[i].object = bs[i].object /\ Key(cs[i]) = Key(bs[i])
                          /\ cs[i].caller = bs[i].caller
  BY <1>2, <1>3, <1>4 DEF Further
<1> QED BY <1>2, <1>3, <1>4, <1>5, <1>6 DEF Onward

\* The innermost builder goes on, and has noted what it reports.
LEMMA GoesOn ==
  ASSUME NEW bs, NEW D, NEW R, NEW Op, NEW clean, Work(bs, D, R, Op, clean), bs # <<>>,
         NEW x, NEW N, Further(x, Last(bs), N), NEW spotless, spotless => clean,
         BuilderOK(x, D, Op, spotless), Heap(D),
         NEW cs, cs = Append(Front(bs), x)
  PROVE  Work(cs, D, R \cup N, Op, spotless)
<1>1. IsSeq(bs)
  BY DEF Work
<1>2. Onward(bs, cs, x) /\ IsSeq(cs) /\ \A i \in DOMAIN bs : cs[i] = x \/ cs[i] = bs[i]
  BY <1>1, GoneOn
<1>3. /\ DOMAIN cs = DOMAIN bs /\ Last(cs) = cs[Len(cs)] /\ Len(cs) \in DOMAIN cs
      /\ Last(bs) = bs[Len(cs)] /\ Last(cs) = x
  <2>1. PICK n, m : n = Len(bs) /\ m = Len(cs)
    OBVIOUS
  <2>2. n \in Nat \ {0} /\ DOMAIN bs = 1 .. n /\ Last(bs) = bs[n]
    BY <1>1, <2>1, InnermostIsLast
  <2>3. m \in Nat \ {0} /\ DOMAIN cs = 1 .. m /\ Last(cs) = cs[m] /\ DOMAIN cs = DOMAIN bs
    BY <1>2, <2>1, InnermostIsLast DEF Onward
  <2>4. m = n
    BY <2>2, <2>3, SameInterval
  <2>5. m \in 1 .. m
    BY <2>3
  <2> QED BY <1>2, <2>1, <2>2, <2>3, <2>4, <2>5 DEF Onward
<1>4. \A i \in DOMAIN cs : BuilderOK(cs[i], D, Op, spotless)
  <2>1. \A i \in DOMAIN bs : BuilderOK(bs[i], D, Op, spotless)
    <3>1. ASSUME NEW i \in DOMAIN bs PROVE BuilderOK(bs[i], D, Op, spotless)
      <4>1. Grown(D, D)
        <5>1. PICK m : m = Len(D)
          OBVIOUS
        <5>2. m \in Nat /\ DOMAIN D = 1 .. m /\ m <= m
          BY <5>1, HeapDomain
        <5> QED BY <5>1, <5>2 DEF Grown
      <4>2. BuilderOK(bs[i], D, Op, clean)
        BY DEF Work
      <4> QED BY <4>1, <4>2, BuilderOn
    <3> QED BY <3>1
  <2> QED BY <1>2, <1>3, <2>1
<1>5. Apart(cs) /\ \A i, k \in DOMAIN cs : i < k => cs[i].object < cs[k].object
  BY <1>2 DEF Work, Apart, Onward
<1>6. ASSUME NEW d \in R \cup N PROVE \E i \in DOMAIN cs : d \in cs[i].diags
  <2>1. x.diags = bs[Len(cs)].diags \cup N
    BY <1>3 DEF Further
  <2>2. CASE d \in R
    <3>1. PICK i \in DOMAIN bs : d \in bs[i].diags
      BY <2>2 DEF Work, NotedIn
    <3>2. CASE cs[i] = bs[i]
      BY <1>3, <3>1, <3>2
    <3>3. CASE cs[i] = x /\ i = Len(cs)
      BY <1>3, <2>1, <3>1, <3>3
    <3>4. CASE cs[i] = x /\ i # Len(cs)
      <4>1. Key(cs[i]) # Key(cs[Len(cs)])
        BY <1>3, <1>5, <3>1, <3>4 DEF Apart
      <4> QED BY <1>3, <3>4, <4>1
    <3> QED BY <1>2, <3>1, <3>2, <3>3, <3>4
  <2>3. CASE d \in N
    BY <1>3, <2>1, <2>3
  <2> QED BY <2>2, <2>3
<1>7. Called(cs)
  BY <1>2 DEF Work, Called, Onward
<1> QED BY <1>2, <1>4, <1>5, <1>6, <1>7 DEF Work, NotedIn

\* The heap grows around the builders.
LEMMA WorkOn ==
  ASSUME NEW bs, NEW D, NEW R, NEW Op, NEW clean, Work(bs, D, R, Op, clean),
         NEW E, Grown(D, E), NEW Q, \A o \in Q : o \in Op \/ o \in Len(D) + 1 .. Len(E),
         NEW spotless, spotless => clean
  PROVE  Work(bs, E, R, Q, spotless)
<1>1. \A i \in DOMAIN bs : BuilderOK(bs[i], E, Q, spotless)
  BY BuilderOn DEF Work
<1> QED BY <1>1 DEF Work

\* A builder just opened.
LEMMA NewBuilderFits ==
  ASSUME NEW go, NEW fn, NEW o, NEW caller, NEW D, NEW Op, NEW clean,
         o \in DOMAIN D, D[o].within = o
  PROVE  /\ BuilderOK(newBuilder(go, fn, o, caller), D, Op, clean)
         /\ Key(newBuilder(go, fn, o, caller)) = <<go, fn>>
         /\ newBuilder(go, fn, o, caller).object = o
         /\ newBuilder(go, fn, o, caller).caller = caller
<1>1. PICK cs, st : cs = << <<>> >> /\ st = <<opened(Body(fn), 1)>>
  OBVIOUS
<1>2. PICK x : x = newBuilder(go, fn, o, caller)
  OBVIOUS
<1>3. x = [go |-> go, fn |-> fn, object |-> o, caller |-> caller, containers |-> cs,
           stack |-> st, rules |-> {}, diags |-> {}]
  BY <1>1, <1>2 DEF newBuilder
<1>4. Holds(cs, Len(D), 1, Op, clean) /\ Len(cs) = 1
  <2>1. IsSeq(cs) /\ DOMAIN cs = {1} /\ cs[1] = <<>> /\ Len(cs) = 1
    BY <1>1 DEF IsSeq
  <2>2. IsSeq(<<>>) /\ DOMAIN <<>> = {}
    BY DEF IsSeq
  <2> QED BY <2>1, <2>2 DEF Holds
<1>5. Describes(st, 1)
  <2>1. IsSeq(st) /\ st # <<>> /\ DOMAIN st = {1} /\ st[1] = opened(Body(fn), 1)
    BY <1>1 DEF IsSeq
  <2> QED BY <2>1 DEF Describes, opened
<1>6. /\ Fit(x) /\ x.object = o /\ x.containers = cs /\ x.stack = st /\ x.go = go /\ x.fn = fn
      /\ x.caller = caller
  BY <1>3 DEF Fit
<1> QED BY <1>2, <1>4, <1>5, <1>6 DEF BuilderOK, Key

\* A builder is opened within those at work, for what none of them describes.
LEMMA Opens ==
  ASSUME NEW bs, NEW D, NEW R, NEW Op, NEW clean, Work(bs, D, R, Op, clean), bs # <<>>,
         NEW x, BuilderOK(x, D, Op, clean), x.caller.op # "group",
         \A i \in DOMAIN bs : Key(bs[i]) # Key(x) /\ bs[i].object < x.object,
         NEW cs, cs = Append(bs, x)
  PROVE  /\ Work(cs, D, R, Op, clean) /\ cs # <<>>
         /\ cs[1] = bs[1]
         /\ {cs[i].object : i \in DOMAIN cs} = {bs[i].object : i \in DOMAIN bs} \cup {x.object}
<1>1. PICK n : n = Len(bs)
  OBVIOUS
<1>2. IsSeq(bs) /\ n \in Nat \ {0} /\ DOMAIN bs = 1 .. n
  BY <1>1, InnermostIsLast DEF Work
<1>3. /\ IsSeq(cs) /\ Len(cs) = n + 1 /\ cs[n + 1] = x
      /\ \A i \in 1 .. n : cs[i] = bs[i]
  <2>1. PICK y : y = Append(bs, x)
    OBVIOUS
  <2>2. /\ IsSeq(y) /\ Len(y) = Len(bs) + 1 /\ y[Len(bs) + 1] = x
        /\ \A i \in 1 .. Len(bs) : y[i] = bs[i]
    BY <1>2, <2>1, AppendToSeq
  <2> QED BY <1>1, <2>1, <2>2
<1>4. DOMAIN cs = 1 .. n + 1
  BY <1>3, SeqOfElements
<1>5. /\ \A i \in 1 .. n + 1 : i = n + 1 \/ i \in 1 .. n
      /\ 1 \in 1 .. n /\ n + 1 \in 1 .. n + 1 /\ \A i \in 1 .. n : i \in 1 .. n + 1 /\ ~(n + 1 < i)
  BY <1>2
<1>6. \A i \in DOMAIN cs : BuilderOK(cs[i], D, Op, clean)
  BY <1>2, <1>3, <1>4, <1>5 DEF Work
<1>7. ASSUME NEW i \in 1 .. n + 1, NEW k \in 1 .. n + 1
      PROVE  /\ i # k => Key(cs[i]) # Key(cs[k])
             /\ i < k => cs[i].object < cs[k].object
  <2>1. CASE i \in 1 .. n /\ k \in 1 .. n
    BY <1>2, <1>3, <2>1 DEF Work, Apart
  <2>2. CASE i \in 1 .. n /\ k = n + 1
    BY <1>2, <1>3, <2>2
  <2>3. CASE i = n + 1 /\ k \in 1 .. n
    BY <1>2, <1>3, <1>5, <2>3
  <2>4. CASE i = n + 1 /\ k = n + 1
    BY <1>2, <2>4
  <2> QED BY <1>5, <2>1, <2>2, <2>3, <2>4
<1>8. NotedIn(cs, R)
  <2> SUFFICES ASSUME NEW d \in R PROVE \E i \in DOMAIN cs : d \in cs[i].diags
    BY DEF NotedIn
  <2>1. PICK i \in DOMAIN bs : d \in bs[i].diags
    BY DEF Work, NotedIn
  <2>2. i \in DOMAIN cs /\ cs[i] = bs[i]
    BY <1>2, <1>3, <1>4, <1>5, <2>1
  <2> QED BY <2>1, <2>2
<1>12. Called(cs)
  BY <1>2, <1>3, <1>4, <1>5 DEF Work, Called
<1>9. Work(cs, D, R, Op, clean)
  BY <1>3, <1>4, <1>6, <1>7, <1>8, <1>12 DEF Work, Apart
<1>10. cs # <<>>
  <2>1. 1 \in DOMAIN cs
    BY <1>4, <1>5
  <2> QED BY <2>1
<1>11. ASSUME NEW o
       PROVE  o \in {cs[i].object : i \in DOMAIN cs} <=> o \in {bs[i].object : i \in DOMAIN bs} \cup {x.object}
  BY <1>2, <1>3, <1>4, <1>5
<1> QED BY <1>3, <1>5, <1>9, <1>10, <1>11

\* x is the builder y further on, which knows what the builder z and N say.
Told(x, y, z, N) ==
  /\ Key(x) = Key(y) /\ x.object = y.object /\ x.caller = y.caller
  /\ y.diags \cup z.diags \cup N \subseteq x.diags

\* There is a builder that opened the innermost.
Nested(bs) == Len(bs) > 1

Parent(bs) == bs[Len(bs) - 1]

\* The builders bs but for the innermost, whose parent is x from now on.
Handed(bs, x) == Append(SubSeq(bs, 1, Len(bs) - 2), x)

\* cs are the builders bs but for the innermost, their n-th one x.
Shorter(bs, cs, x, n) ==
  /\ n \in Nat \ {0} /\ Len(bs) = n + 1 /\ DOMAIN bs = 1 .. n + 1
  /\ Last(bs) = bs[n + 1] /\ Parent(bs) = bs[n]
  /\ IsSeq(cs) /\ DOMAIN cs = 1 .. n /\ cs[n] = x
  /\ \A i \in 1 .. n - 1 : cs[i] = bs[i]

LEMMA HandedOn ==
  ASSUME NEW bs, IsSeq(bs), Nested(bs), NEW x, NEW cs, cs = Handed(bs, x)
  PROVE  \E n : Shorter(bs, cs, x, n)
<1>1. PICK n : n = Len(bs) - 1
  OBVIOUS
<1>2. /\ n \in Nat \ {0} /\ DOMAIN bs = 1 .. n + 1 /\ Len(bs) = n + 1
      /\ Last(bs) = bs[n + 1] /\ Len(bs) - 2 = n - 1 /\ Parent(bs) = bs[n]
  BY <1>1, SeqOfElements DEF Last, Nested, Parent
<1>3. PICK h : h = SubSeq(bs, 1, n - 1)
  OBVIOUS
<1>4. IsSeq(h) /\ Len(h) = n - 1 /\ \A i \in 1 .. n - 1 : h[i] = bs[i]
  <2>1. n - 1 \in 0 .. Len(bs)
    BY <1>2
  <2> QED BY <1>3, <2>1, HeadOf
<1>5. /\ IsSeq(cs) /\ Len(cs) = (n - 1) + 1 /\ cs[(n - 1) + 1] = x
      /\ \A i \in 1 .. n - 1 : cs[i] = h[i]
  <2>1. /\ IsSeq(Append(h, x)) /\ Len(Append(h, x)) = Len(h) + 1 /\ Append(h, x)[Len(h) + 1] = x
        /\ \A i \in 1 .. Len(h) : Append(h, x)[i] = h[i]
    BY <1>4, AppendToSeq
  <2>2. cs = Append(h, x)
    BY <1>2, <1>3 DEF Handed
  <2> QED BY <1>4, <2>1, <2>2
<1>6. (n - 1) + 1 = n
  BY <1>2
<1>7. DOMAIN cs = 1 .. n
  BY <1>5, <1>6, SeqOfElements
<1>8. Shorter(bs, cs, x, n)
  BY <1>2, <1>4, <1>5, <1>6, <1>7 DEF Shorter
<1> QED BY <1>8

\* A nested builder returns: what it noted, its parent has noted since.
LEMMA Returned ==
  ASSUME NEW bs, NEW D, NEW R, NEW Op, NEW clean, Work(bs, D, R, Op, clean), Nested(bs),
         NEW x, BuilderOK(x, D, Op, clean), NEW N, Told(x, Parent(bs), Last(bs), N),
         NEW cs, cs = Handed(bs, x)
  PROVE  Work(cs, D, R \cup N, Op, clean)
<1>2. IsSeq(bs)
  BY DEF Work
<1>3. PICK n : Shorter(bs, cs, x, n)
  BY <1>2, HandedOn
<1>1. /\ n \in Nat \ {0} /\ Len(bs) = n + 1 /\ DOMAIN bs = 1 .. n + 1
      /\ Last(bs) = bs[n + 1] /\ Parent(bs) = bs[n]
      /\ IsSeq(cs) /\ DOMAIN cs = 1 .. n /\ cs[n] = x
      /\ \A i \in 1 .. n - 1 : cs[i] = bs[i]
  BY <1>3 DEF Shorter
<1>4. \A i \in 1 .. n : i \in 1 .. n + 1 /\ (i = n \/ i \in 1 .. n - 1)
  BY <1>1
<1>5. ASSUME NEW i \in 1 .. n
      PROVE  /\ BuilderOK(cs[i], D, Op, clean) /\ Key(cs[i]) = Key(bs[i])
             /\ cs[i].object = bs[i].object /\ bs[i].diags \subseteq cs[i].diags
             /\ cs[i].caller = bs[i].caller
  <2>1. CASE i = n
    BY <1>1, <2>1 DEF Told
  <2>2. CASE i \in 1 .. n - 1
    BY <1>1, <1>4, <2>2 DEF Work
  <2> QED BY <1>4, <2>1, <2>2
<1>6. Apart(cs) /\ \A i, k \in DOMAIN cs : i < k => cs[i].object < cs[k].object
  BY <1>1, <1>4, <1>5 DEF Work, Apart
<1>7. n \in DOMAIN cs /\ bs[n + 1].diags \cup N \subseteq cs[n].diags
  BY <1>1 DEF Told
<1>8. ASSUME NEW d \in R \cup N PROVE \E i \in DOMAIN cs : d \in cs[i].diags
  <2>1. CASE d \in R
    <3>1. bs # <<>>
      <4>1. n \in DOMAIN bs
        BY <1>1
      <4> QED BY <4>1
    <3>2. PICK i \in 1 .. n + 1 : d \in bs[i].diags
      BY <1>1, <2>1, <3>1 DEF Work, NotedIn
    <3>3. i = n + 1 \/ i \in 1 .. n
      BY <1>1
    <3> QED BY <1>1, <1>5, <1>7, <3>2, <3>3
  <2>2. CASE d \in N
    BY <1>7, <2>2
  <2> QED BY <2>1, <2>2
<1>9. Called(cs)
  BY <1>1, <1>4, <1>5 DEF Work, Called
<1> QED BY <1>1, <1>5, <1>6, <1>8, <1>9 DEF Work, NotedIn
------------------------------------------------------------------------------
(* A derivation.                                                           *)

\* Where the objects of this derivation start, in a heap of n.
Base(bs, n) == IF bs = <<>> THEN n + 1 ELSE bs[1].object

\* The objects that are made: of descriptors, and of this derivation but Op.
Settled(P, bs, n, Op) == made(P) \cup ((Base(bs, n) .. n) \ Op)

Descriptors(P, bs, n) ==
  /\ IsSeq(P)
  /\ \A d \in DOMAIN P : /\ P[d].root \in 1 .. P[d].last /\ P[d].last \in 1 .. n
                         /\ P[d].last < Base(bs, n)

Standing(P, D, bs, R, Op) ==
  /\ Sound(D, made(P), Settled(P, bs, Len(D), Op), Op, R = {})
  /\ Work(bs, D, R, Op, R = {})
  /\ Descriptors(P, bs, Len(D))
  /\ Op \subseteq Base(bs, Len(D)) .. Len(D)

\* The objects in the making: of the builders, of the levels, of the model.
Making(bs, Lv, rt) ==
  {bs[i].object : i \in DOMAIN bs} \cup {Lv[k].object : k \in DOMAIN Lv} \cup ({rt} \ {NoObject})

LEMMA BuildersInOrder ==
  ASSUME NEW bs, NEW D, NEW R, NEW Op, NEW clean, Work(bs, D, R, Op, clean), bs # <<>>, Heap(D)
  PROVE  /\ Base(bs, Len(D)) = bs[1].object /\ bs[1].object \in DOMAIN D /\ 1 \in DOMAIN bs
         /\ Last(bs).object \in DOMAIN D /\ BuilderOK(Last(bs), D, Op, clean)
         /\ \A i \in DOMAIN bs : bs[i].object <= Last(bs).object
         /\ \A i \in DOMAIN bs : bs[i].object \in DOMAIN D
         /\ bs[1].object <= Last(bs).object
<1>1. PICK n, m : n = Len(bs) /\ m = Len(D)
  OBVIOUS
<1>2. /\ IsSeq(bs) /\ n \in Nat \ {0} /\ DOMAIN bs = 1 .. n /\ Last(bs) = bs[n]
      /\ m \in Nat /\ DOMAIN D = 1 .. m
  BY <1>1, InnermostIsLast, HeapDomain DEF Work
<1>3. 1 \in 1 .. n /\ n \in 1 .. n /\ \A i \in 1 .. n : i = n \/ i < n
  BY <1>2
<1>4. \A i \in 1 .. n : BuilderOK(bs[i], D, Op, clean) /\ bs[i].object \in 1 .. m
  BY <1>2 DEF Work, BuilderOK
<1>5. ASSUME NEW i \in 1 .. n PROVE bs[i].object <= bs[n].object
  <2>1. PICK p, q : p = bs[i].object /\ q = bs[n].object
    OBVIOUS
  <2>2. p \in 1 .. m /\ q \in 1 .. m /\ (i = n \/ p < q)
    BY <1>2, <1>3, <1>4, <2>1 DEF Work
  <2>3. p <= q
    BY <1>2, <2>1, <2>2
  <2> QED BY <2>1, <2>3
<1>6. Base(bs, Len(D)) = bs[1].object
  BY DEF Base
<1> QED BY <1>2, <1>3, <1>4, <1>5, <1>6

\* What is in the making is not made.
LEMMA MakingNotMade ==
  ASSUME NEW P, NEW D, NEW bs, NEW R, NEW Op, Standing(P, D, bs, R, Op)
  PROVE  Settled(P, bs, Len(D), Op) \cap Op = {}
<1>1. PICK n, h : n = Len(D) /\ h = Base(bs, n)
  OBVIOUS
<1>2. n \in Nat
  BY <1>1, HeapDomain DEF Standing, Sound
<1>4. h \in Nat
  <2>1. CASE bs = <<>>
    BY <1>1, <1>2, <2>1 DEF Base
  <2>2. CASE bs # <<>>
    <3>1. h \in DOMAIN D
      BY <1>1, <2>2, BuildersInOrder DEF Standing, Sound
    <3> QED BY <1>1, <1>2, <3>1, HeapDomain DEF Standing, Sound
  <2> QED BY <2>1, <2>2
<1>3. ASSUME NEW x \in made(P), x \in Op PROVE FALSE
  <2>1. PICK d \in DOMAIN P : x \in P[d].root .. P[d].last
    BY <1>3 DEF made
  <2>2. PICK p, q : p = P[d].root /\ q = P[d].last
    OBVIOUS
  <2>3. p \in 1 .. q /\ q \in 1 .. n /\ q < h /\ x \in h .. n /\ x \in p .. q
    BY <1>1, <1>3, <2>1, <2>2 DEF Standing, Descriptors
  <2> QED BY <1>2, <1>4, <2>3
<1> QED BY <1>3 DEF Settled

LEMMA SameHeap ==
  ASSUME NEW D, Heap(D) PROVE Grown(D, D)
<1>1. PICK n : n = Len(D)
  OBVIOUS
<1>2. n \in Nat /\ DOMAIN D = 1 .. n /\ n <= n
  BY <1>1, HeapDomain
<1> QED BY <1>1, <1>2 DEF Grown

LEMMA OnwardMakes ==
  ASSUME NEW bs, NEW cs, NEW x, Onward(bs, cs, x), NEW Lv, NEW rt
  PROVE  Making(cs, Lv, rt) = Making(bs, Lv, rt)
<1>1. {cs[i].object : i \in DOMAIN cs} = {bs[i].object : i \in DOMAIN bs}
  BY DEF Onward
<1> QED BY <1>1 DEF Making

\* The innermost builder goes on.
LEMMA BuilderGoes ==
  ASSUME NEW P, NEW D, NEW bs, NEW R, NEW Op, Standing(P, D, bs, R, Op), bs # <<>>,
         NEW x, NEW N, Further(x, Last(bs), N), NEW spotless, spotless = (R \cup N = {}),
         BuilderOK(x, D, Op, spotless),
         NEW cs, cs = Append(Front(bs), x)
  PROVE  Standing(P, D, cs, R \cup N, Op)
<1>1. PICK clean : clean = (R = {})
  OBVIOUS
<1>2. Sound(D, made(P), Settled(P, bs, Len(D), Op), Op, clean) /\ Work(bs, D, R, Op, clean)
  BY <1>1 DEF Standing, Sound, Work, BuilderOK, Holds, RegOK
<1>3. spotless => clean
  BY <1>1
<1>4. Work(cs, D, R \cup N, Op, spotless) /\ Onward(bs, cs, x)
  <2>1. Heap(D) /\ Work(bs, D, R, Op, clean)
    BY <1>2 DEF Sound
  <2>2. Work(cs, D, R \cup N, Op, spotless)
    BY <1>3, <2>1, GoesOn
  <2>3. Onward(bs, cs, x)
    BY <2>1, GoneOn DEF Work
  <2> QED BY <2>2, <2>3
<1>5. cs[1].object = bs[1].object
  BY <1>2, <1>4, BuildersInOrder DEF Sound, Onward
<1>6. Base(cs, Len(D)) = Base(bs, Len(D))
  BY <1>4, <1>5 DEF Base, Onward
<1>7. Sound(D, made(P), Settled(P, cs, Len(D), Op), Op, spotless)
  BY <1>2, <1>3, <1>6 DEF Sound, Settled
<1>8. Standing(P, D, cs, R \cup N, Op)
  <2>1. Sound(D, made(P), Settled(P, cs, Len(D), Op), Op, R \cup N = {})
    BY <1>7 DEF Sound
  <2>2. Work(cs, D, R \cup N, Op, R \cup N = {})
    <3>1. spotless = (R \cup N = {})
      OBVIOUS
    <3> QED BY <1>4, <3>1
  <2> QED BY <1>6, <2>1, <2>2 DEF Standing, Descriptors
<1> QED BY <1>8

\* An object more is opened.
LEMMA HeapOpens ==
  ASSUME NEW P, NEW D, NEW bs, NEW R, NEW Op, Standing(P, D, bs, R, Op), bs # <<>>,
         NEW g, NEW w, NEW E, E = Append(D, emptyObject(g, w)), NEW z, z = Len(D) + 1
  PROVE  Standing(P, E, bs, R, Op \cup {z}) /\ Fresh(D, E, z, emptyObject(g, w))
<1>1. PICK clean : clean = (R = {})
  OBVIOUS
<1>2. PICK M, S, n : M = made(P) /\ S = Settled(P, bs, Len(D), Op) /\ n = Len(D)
  OBVIOUS
<1>3. Sound(D, M, S, Op, clean)
  BY <1>1, <1>2 DEF Standing, Sound
<1>4. Sound(E, M, S, Op \cup {z}, clean) /\ Fresh(D, E, z, emptyObject(g, w))
  BY <1>3, FreshObject
<1>13. Grown(D, E) /\ Len(E) = z
  BY <1>4 DEF Fresh
<1>5. PICK h : h = Base(bs, n)
  OBVIOUS
<1>6. n \in Nat /\ DOMAIN D = 1 .. n /\ h \in 1 .. n /\ Base(bs, z) = h /\ z = n + 1
  <2>1. Heap(D)
    BY <1>3 DEF Sound
  <2>2. h \in DOMAIN D /\ Base(bs, z) = h
    BY <1>2, <1>5, <2>1, BuildersInOrder DEF Standing, Base
  <2> QED BY <1>2, <2>1, <2>2, HeapDomain
<1>7. S = Settled(P, bs, Len(E), Op \cup {z})
  <2>1. h .. z = (h .. n) \cup {z} /\ z \notin h .. n
    BY <1>6
  <2> QED BY <1>2, <1>5, <1>6, <1>13, <2>1 DEF Settled
<1>8. Work(bs, E, R, Op \cup {z}, R = {})
  <2>1. \A o \in Op \cup {z} : o \in Op \/ o \in Len(D) + 1 .. Len(E)
    BY <1>2, <1>6, <1>13
  <2> QED BY <1>13, <2>1, WorkOn DEF Standing
<1>9. Descriptors(P, bs, Len(E))
  <2>1. \A q \in 1 .. n : q \in 1 .. z
    BY <1>6
  <2> QED BY <1>2, <1>5, <1>6, <1>13, <2>1 DEF Standing, Descriptors
<1>10. Op \cup {z} \subseteq Base(bs, Len(E)) .. Len(E)
  <2>1. Op \subseteq h .. n
    BY <1>2, <1>5 DEF Standing
  <2>2. h .. n \subseteq h .. z /\ z \in h .. z
    BY <1>6
  <2> QED BY <1>6, <1>13, <2>1, <2>2
<1>11. Sound(E, made(P), Settled(P, bs, Len(E), Op \cup {z}), Op \cup {z}, R = {})
  BY <1>1, <1>2, <1>4, <1>7 DEF Sound
<1>12. Standing(P, E, bs, R, Op \cup {z})
  BY <1>8, <1>9, <1>10, <1>11 DEF Standing
<1> QED BY <1>4, <1>12

\* A field more.
LEMMA HeapField ==
  ASSUME NEW P, NEW D, NEW bs, NEW R, NEW Op, Standing(P, D, bs, R, Op),
         NEW o \in DOMAIN D, NEW f, Refers(f, Len(D)), fieldNamed(D[o], f.name) = {},
         R = {} /\ Held(f) => f.object \notin Op,
         Held(f) => \/ o \notin Settled(P, bs, Len(D), Op)
                    \/ o # f.object /\ always(D, f.object) = {},
         NEW E, E = appended(D, o, f)
  PROVE  Standing(P, E, bs, R, Op) /\ Enlarged(D, E, o, f)
<1>1. PICK clean : clean = (R = {})
  OBVIOUS
<1>2. PICK M, S, n : M = made(P) /\ S = Settled(P, bs, Len(D), Op) /\ n = Len(D)
  OBVIOUS
<1>3. Sound(D, M, S, Op, clean)
  BY <1>1, <1>2 DEF Standing, Sound
<1>4. (clean /\ Held(f) => f.object \notin Op)
      /\ (Held(f) => o \notin S \/ (o # f.object /\ always(D, f.object) = {}))
  BY <1>1, <1>2
<1> HIDE DEF Held, always
<1>5. Sound(E, M, S, Op, clean) /\ Enlarged(D, E, o, f)
  BY <1>3, <1>4, FieldAdded
<1>9. Grown(D, E) /\ Len(E) = Len(D)
  BY <1>5 DEF Enlarged
<1>6. Work(bs, E, R, Op, R = {})
  BY <1>9, WorkOn DEF Standing
<1>7. Sound(E, made(P), Settled(P, bs, Len(E), Op), Op, R = {})
  BY <1>1, <1>2, <1>5, <1>9 DEF Sound
<1>8. Standing(P, E, bs, R, Op)
  BY <1>6, <1>7, <1>9 DEF Standing
<1> QED BY <1>5, <1>8

\* An object that is made, and is a level of another or not described at all.
LEMMA HeapReleases ==
  ASSUME NEW P, NEW D, NEW bs, NEW R, NEW Op, Standing(P, D, bs, R, Op),
         NEW z \in Op, D[z].within # z, bs # <<>>
  PROVE  Standing(P, D, bs, R, Op \ {z})
<1>1. PICK clean : clean = (R = {})
  OBVIOUS
<1>2. PICK M, S, n : M = made(P) /\ S = Settled(P, bs, Len(D), Op) /\ n = Len(D)
  OBVIOUS
<1>3. Sound(D, M, S, Op, clean) /\ Heap(D)
  BY <1>1, <1>2 DEF Standing, Sound
<1>4. PICK h : h = Base(bs, n)
  OBVIOUS
<1>5. n \in Nat /\ DOMAIN D = 1 .. n /\ h \in 1 .. n /\ z \in h .. n
  <2>1. h \in DOMAIN D
    BY <1>2, <1>3, <1>4, BuildersInOrder DEF Standing
  <2> QED BY <1>2, <1>3, <1>4, <2>1, HeapDomain DEF Standing
<1>6. z \in DOMAIN D
  BY <1>5
<1>7. Sound(D, M, S \cup {z}, Op \ {z}, clean)
  BY <1>3, <1>6, Released
<1>8. S \cup {z} = Settled(P, bs, n, Op \ {z})
  BY <1>2, <1>4, <1>5 DEF Settled
<1>9. Sound(D, made(P), Settled(P, bs, Len(D), Op \ {z}), Op \ {z}, R = {})
  BY <1>1, <1>2, <1>7, <1>8 DEF Sound
<1>10. Work(bs, D, R, Op \ {z}, R = {})
  BY <1>3, SameHeap, WorkOn DEF Standing
<1> QED BY <1>9, <1>10 DEF Standing
------------------------------------------------------------------------------
(* A builder returns.                                                      *)

\* The Go fields that are bound so far: in the model, and in the levels of o.
BoundIn(D, o, rt) ==
  UNION {{D[x].fields[i].go : i \in DOMAIN D[x].fields} :
           x \in {x \in DOMAIN D : x = rt \/ (D[x].within = o /\ x # o)}}

\* What was handled is in the description that is filled in.
LEMMA CoversFilled ==
  ASSUME NEW D, NEW o \in DOMAIN D, NEW r \in DOMAIN D, r # o,
         NEW H, NEW I, NEW T, H \subseteq I \cup T \cup BoundIn(D, o, r),
         NEW g, \A leaf \in GoLeaves(g) : covered(leaf, H, T),
         NEW E, E = Filling(D, o, r, g, I \cup T)
  PROVE  Covers(E, o)
<1>1. PICK x : x = [go |-> g, fields |-> D[r].fields, within |-> o, ignored |-> I \cup T]
  OBVIOUS
<1>2. /\ DOMAIN E = DOMAIN D /\ \A y \in DOMAIN D \ {o} : E[y] = D[y]
      /\ E[o].go = g /\ E[o].fields = D[r].fields /\ E[o].within = o /\ E[o].ignored = I \cup T
  <2>1. E = [D EXCEPT ![o] = x]
    BY <1>1 DEF Filling
  <2>2. DOMAIN E = DOMAIN D /\ (\A y \in DOMAIN D \ {o} : E[y] = D[y]) /\ E[o] = x
    BY <2>1
  <2> QED BY <1>1, <2>2
<1>3. ASSUME NEW p \in BoundIn(D, o, r) PROVE p \in bound(E, o)
  <2>1. PICK y \in {y \in DOMAIN D : y = r \/ (D[y].within = o /\ y # o)} :
          p \in {D[y].fields[i].go : i \in DOMAIN D[y].fields}
    BY <1>3 DEF BoundIn
  <2>2. PICK z \in DOMAIN E : E[z].within = o /\ E[z].fields = D[y].fields
    BY <1>2, <2>1
  <2>3. p \in {E[z].fields[i].go : i \in DOMAIN E[z].fields}
    BY <2>1, <2>2
  <2> QED BY <2>2, <2>3 DEF bound
<1> HIDE DEF bound, BoundIn
<1>4. ASSUME NEW leaf \in GoLeaves(E[o].go)
      PROVE  \E n \in 1 .. Len(leaf) : SubSeq(leaf, 1, n) \in bound(E, o) \cup E[o].ignored
  <2>1. PICK n \in 1 .. Len(leaf) : SubSeq(leaf, 1, n) \in H \cup T
    BY <1>2, <1>4 DEF covered
  <2>2. SubSeq(leaf, 1, n) \in bound(E, o) \cup E[o].ignored
    BY <1>2, <1>3, <2>1
  <2> QED BY <2>2
<1> QED BY <1>4 DEF Covers

LEMMA HeapFilled ==
  ASSUME NEW P, NEW D, NEW bs, NEW R, NEW Op, Standing(P, D, bs, R, Op), bs # <<>>,
         NEW o \in Op, NEW r \in Op, o # r, D[o].within = o, D[r].within = NoObject,
         NEW g, NEW skipped, NEW E, Filled(D, E, o, r, g, skipped),
         NEW clean, clean => R = {} /\ Covers(E, o), NEW Q, Q = Op \ {r, o}
  PROVE  Sound(E, made(P), Settled(P, bs, Len(E), Q), Q, clean)
<1>2. PICK M, S, n : M = made(P) /\ S = Settled(P, bs, Len(D), Op) /\ n = Len(D)
  OBVIOUS
<1>3. Sound(D, M, S, Op, clean) /\ Heap(D)
  BY <1>2 DEF Standing, Sound
<1>4. n \in Nat /\ DOMAIN D = 1 .. n /\ Base(bs, n) \in 1 .. n /\ o \in DOMAIN D
  <2>1. n \in Nat /\ DOMAIN D = 1 .. n
    BY <1>2, <1>3, HeapDomain
  <2>2. Base(bs, n) \in 1 .. n /\ Op \subseteq Base(bs, n) .. n
    BY <1>2, <1>3, <2>1, BuildersInOrder DEF Standing
  <2>3. PICK h : h = Base(bs, n)
    OBVIOUS
  <2>4. o \in h .. n /\ h \in 1 .. n
    BY <2>2, <2>3
  <2>5. o \in 1 .. n
    BY <2>1, <2>4
  <2> QED BY <2>1, <2>2, <2>5
<1>5. PICK h : h = Base(bs, n)
  OBVIOUS
<1>6. o \in h .. n /\ r \in h .. n /\ r \in DOMAIN D /\ h \in 1 .. n
  <2>1. Op \subseteq h .. n /\ h \in 1 .. n
    BY <1>2, <1>4, <1>5 DEF Standing
  <2>2. h .. n \subseteq 1 .. n
    BY <1>4, <2>1
  <2> QED BY <1>4, <2>1, <2>2
<1>7. o \notin S
  BY <1>2, MakingNotMade
<1>8. clean => o \in Op /\ r \in Op
  OBVIOUS
<1>10. Sound(E, M, S \cup {r, o}, Op \ {r, o}, clean)
  <2>1. E = Filling(D, o, r, g, skipped)
    BY DEF Filled
  <2> QED BY <1>3, <1>4, <1>6, <1>7, <1>8, <2>1, ObjectFilled
<1>11. Same(D, E)
  BY <1>3, <1>4, FillingSame DEF Filled
<1>12. Len(E) = Len(D)
  BY <1>11 DEF Same
<1>13. S \cup {r, o} = Settled(P, bs, n, Op \ {r, o})
  BY <1>2, <1>5, <1>6 DEF Settled
<1> QED BY <1>2, <1>10, <1>12, <1>13

\* A nested builder returns to its parent.
LEMMA NestedStands ==
  ASSUME NEW P, NEW D, NEW bs, NEW R, NEW Op, Standing(P, D, bs, R, Op), Nested(bs),
         NEW Q, Q \in SUBSET Op, NEW E,
         Sound(E, made(P), Settled(P, bs, Len(E), Q), Q, R = {}), Same(D, E),
         Q \subseteq Base(bs, Len(E)) .. Len(E),
         NEW x, NEW N, NEW spotless, spotless = (R \cup N = {}), BuilderOK(x, E, Q, spotless),
         Told(x, Parent(bs), Last(bs), N), NEW cs, cs = Handed(bs, x)
  PROVE  Standing(P, E, cs, R \cup N, Q)
<1>1. PICK clean : clean = (R = {})
  OBVIOUS
<1>2. Work(bs, D, R, Op, clean) /\ (spotless => clean) /\ Grown(D, E) /\ Len(E) = Len(D)
  BY <1>1 DEF Standing, Same
<1>3. Work(cs, E, R \cup N, Q, spotless)
  <2>1. Work(bs, E, R, Q, spotless)
    BY <1>2, WorkOn
  <2> QED BY <2>1, Returned
<1>4. bs # <<>> /\ cs # <<>> /\ cs[1].object = bs[1].object
  <2>3. IsSeq(bs)
    BY <1>2 DEF Work
  <2>1. PICK n : Shorter(bs, cs, x, n)
    BY <2>3, HandedOn
  <2>2. 1 \in 1 .. n /\ 1 \in 1 .. n + 1 /\ (1 = n \/ 1 \in 1 .. n - 1)
    BY <2>1 DEF Shorter
  <2> QED BY <2>1, <2>2 DEF Told, Shorter
<1>5. Base(cs, Len(E)) = Base(bs, Len(E))
  BY <1>4 DEF Base
<1>6. Sound(E, made(P), Settled(P, cs, Len(E), Q), Q, R \cup N = {})
  BY <1>5 DEF Sound, Settled
<1>7. Work(cs, E, R \cup N, Q, R \cup N = {})
  BY <1>3
<1>8. Descriptors(P, cs, Len(E))
  BY <1>2, <1>4 DEF Standing, Descriptors, Base
<1> QED BY <1>5, <1>6, <1>7, <1>8 DEF Standing

\* A derivation ends and publishes nothing.
LEMMA EndsUnpublished ==
  ASSUME NEW P, NEW D, NEW bs, NEW R, NEW Op, Standing(P, D, bs, R, Op),
         NEW E, Same(D, E),
         NEW S, NEW Q, NEW clean, Sound(E, made(P), S, Q, clean), NEW C
  PROVE  Standing(P, E, <<>>, C, {})
<1>1. PICK n, h : n = Len(D) /\ h = Base(bs, n)
  OBVIOUS
<1>2. n \in Nat /\ Len(E) = n
  BY <1>1 DEF Same, Grown
<1>3. h <= n + 1 /\ h \in Nat
  <2>1. CASE bs = <<>>
    BY <1>1, <1>2, <2>1 DEF Base
  <2>2. CASE bs # <<>>
    <3>1. h \in DOMAIN D
      BY <1>1, <2>2, BuildersInOrder DEF Standing, Sound
    <3>2. h \in 1 .. n
      BY <1>1, <3>1 DEF Same, Grown
    <3> QED BY <1>2, <3>2
  <2> QED BY <2>1, <2>2
<1>4. Descriptors(P, <<>>, Len(E))
  <2>1. ASSUME NEW d \in DOMAIN P
        PROVE  P[d].root \in 1 .. P[d].last /\ P[d].last \in 1 .. n /\ P[d].last < n + 1
    <3>1. PICK q : q = P[d].last
      OBVIOUS
    <3>2. P[d].root \in 1 .. q /\ q \in 1 .. n
      BY <1>1, <3>1 DEF Standing, Descriptors
    <3> QED BY <1>2, <3>1, <3>2
  <2> QED BY <1>1, <1>2, <2>1 DEF Standing, Descriptors, Base
<1>5. Settled(P, <<>>, Len(E), {}) = made(P)
  <2>1. (n + 1 .. n) = {}
    BY <1>2
  <2> QED BY <1>1, <1>2, <2>1 DEF Settled, Base
<1>6. Sound(E, made(P), Settled(P, <<>>, Len(E), {}), {}, C = {})
  BY <1>5 DEF Sound, NotHeld
<1>7. Work(<<>>, E, C, {}, C = {})
  BY DEF Work, Apart, NotedIn, Called, IsSeq
<1> QED BY <1>4, <1>6, <1>7 DEF Standing

\* A derivation ends, and nothing was reported.
LEMMA EndsPublished ==
  ASSUME NEW P, NEW D, NEW bs, Standing(P, D, bs, {}, {}), bs # <<>>, Len(bs) = 1,
         NEW y, y.root = bs[1].object, y.last = Len(D)
  PROVE  Standing(Append(P, y), D, <<>>, {}, {})
<1>1. PICK n, o : n = Len(D) /\ o = bs[1].object
  OBVIOUS
<1>2. n \in Nat /\ o \in 1 .. n /\ Base(bs, n) = o
  BY <1>1, BuildersInOrder, HeapDomain DEF Standing, Sound
<1>3. PICK Q, m : Q = Append(P, y) /\ m = Len(P)
  OBVIOUS
<1>4. /\ IsSeq(Q) /\ DOMAIN Q = 1 .. m + 1 /\ DOMAIN P = 1 .. m /\ m \in Nat
      /\ Q[m + 1] = y /\ \A d \in 1 .. m : Q[d] = P[d]
  <2>1. IsSeq(P)
    BY DEF Standing, Descriptors
  <2>2. /\ IsSeq(Append(P, y)) /\ Len(Append(P, y)) = Len(P) + 1 /\ Append(P, y)[Len(P) + 1] = y
        /\ \A d \in 1 .. Len(P) : Append(P, y)[d] = P[d]
    BY <2>1, AppendToSeq
  <2> QED BY <1>3, <2>1, <2>2, SeqOfElements
<1>5. \A d \in 1 .. m + 1 : d = m + 1 \/ d \in 1 .. m
  BY <1>4
<1>6. made(Q) = made(P) \cup (o .. n)
  <2>1. ASSUME NEW x PROVE x \in made(Q) <=> x \in made(P) \cup (o .. n)
    <3>1. m + 1 \in DOMAIN Q /\ \A d \in 1 .. m : d \in DOMAIN Q
      BY <1>4
    <3> QED BY <1>1, <1>4, <1>5, <3>1 DEF made
  <2> QED BY <2>1
<1>7. Settled(P, bs, n, {}) = made(Q)
  BY <1>2, <1>6 DEF Settled
<1>8. Settled(Q, <<>>, n, {}) = made(Q)
  <2>1. (n + 1 .. n) = {}
    BY <1>2
  <2> QED BY <2>1 DEF Settled, Base
<1>9. Sound(D, made(Q), Settled(Q, <<>>, n, {}), {}, {} = {})
  BY <1>1, <1>7, <1>8 DEF Standing, Sound
<1>10. Descriptors(Q, <<>>, n)
  <2>1. ASSUME NEW d \in 1 .. m
        PROVE  P[d].root \in 1 .. P[d].last /\ P[d].last \in 1 .. n /\ P[d].last < n + 1
    <3>1. PICK q : q = P[d].last
      OBVIOUS
    <3>2. P[d].root \in 1 .. q /\ q \in 1 .. n
      BY <1>1, <1>4, <3>1 DEF Standing, Descriptors
    <3> QED BY <1>2, <3>1, <3>2
  <2>2. o \in 1 .. n /\ n \in 1 .. n /\ n < n + 1
    BY <1>2
  <2>3. Base(<<>>, n) = n + 1
    BY DEF Base
  <2> QED BY <1>1, <1>4, <1>5, <2>1, <2>2, <2>3 DEF Descriptors
<1>11. Work(<<>>, D, {}, {}, {} = {})
  BY DEF Work, Apart, NotedIn, Called, IsSeq
<1> QED BY <1>1, <1>3, <1>9, <1>10, <1>11 DEF Standing
------------------------------------------------------------------------------
(* The invariant.                                                          *)

\* m is the call of compileContainer for a group of l's level, of a name free there.
Within(D, l, m, o) ==
  Shape(m.f) /\ fieldNamed(D[l.object], m.f.name) = {} /\ D[m.object].within = o

\* The calls of compileContainer, each for a group of the one around it.
LevelsOK(Lv, D, rt, k, o) ==
  /\ IsSeq(Lv) /\ Lv # <<>> /\ Lv[1].object = rt
  /\ \A i \in DOMAIN Lv : Lv[i].object \in DOMAIN D /\ Lv[i].in \in 1 .. k /\ Lv[i].at \in Nat
  /\ \A i, j \in DOMAIN Lv : i < j => Lv[i].object < Lv[j].object
  /\ \A i, j \in DOMAIN Lv : j = i + 1 => Within(D, Lv[i], Lv[j], o)

TargetsOK(T, n) ==
  IsSeq(T) /\ \A m \in DOMAIN T : Refers(T[m].f, n) /\ T[m].ref # <<>>

\* A model is being made: what is handled is in it so far.
ModelOK(D, bs, R, rt, H, skipped) ==
  /\ bs # <<>> /\ rt \in DOMAIN D /\ Last(bs).object < rt /\ D[rt].within = NoObject
  /\ R = {} => H \subseteq skipped \cup BoundIn(D, Last(bs).object, rt)

NoModel == levels = <<>> /\ targets = <<>> /\ root = NoObject /\ handled = {}

DeriveInv ==
  /\ Standing(published, objects, builders, reported, Making(builders, levels, root))
  /\ phase \in {"describing", "compiling", "moving"}
  /\ phase = "describing" => NoModel
  /\ phase # "describing" => ModelOK(objects, builders, reported, root, handled, ignored \cup trees)
  /\ phase = "compiling" => LevelsOK(levels, objects, root, Len(b.containers), b.object)
  /\ phase = "moving" =>
       /\ levels = <<>> /\ obj \in DOMAIN objects
       /\ reported = {} => \A leaf \in GoLeaves(b.go) : covered(leaf, handled, trees)
  /\ TargetsOK(targets, Len(objects))

Made == Making(builders, levels, root)

LEMMA Innermost ==
  ASSUME DeriveInv, Working, NEW clean, clean => reported = {}
  PROVE  /\ BuilderOK(b, objects, Made, clean)
         /\ Heap(objects) /\ b.object \in DOMAIN objects /\ b.object \in Made
<1>1. PICK spotless : spotless = (reported = {})
  OBVIOUS
<1>2. /\ Heap(objects) /\ Work(builders, objects, reported, Made, spotless)
      /\ builders # <<>>
  BY <1>1 DEF DeriveInv, Standing, Sound, Made, Working
<1>3. BuilderOK(Last(builders), objects, Made, spotless) /\ Last(builders).object \in DOMAIN objects
  BY <1>2, BuildersInOrder
<1>4. BuilderOK(b, objects, Made, clean)
  <2>1. BuilderOK(b, objects, Made, spotless) /\ Grown(objects, objects)
    BY <1>2, <1>3, SameHeap DEF b
  <2> QED BY <1>1, <2>1, BuilderOn
<1>5. b.object \in Made
  <2>1. PICK n : n = Len(builders)
    OBVIOUS
  <2>2. n \in DOMAIN builders /\ b = builders[n]
    BY <1>2, <2>1, InnermostIsLast DEF Work, b
  <2> QED BY <2>2 DEF Made, Making
<1> QED BY <1>2, <1>3, <1>4, <1>5 DEF b

LEMMA PassedOn ==
  ASSUME NEW j, NEW D, NEW Op, NEW clean, BuilderOK(b, D, Op, clean)
  PROVE  /\ BuilderOK(passed(j), D, Op, clean) /\ Further(passed(j), b, {})
         /\ passed(j).containers = b.containers
<1>1. PICK c : c = [body |-> open.body, in |-> open.in, at |-> j]
  OBVIOUS
<1>2. PICK x, st : x = b /\ st = withTop(b.stack, c)
  OBVIOUS
<1>3. passed(j) = [x EXCEPT !.stack = st]
  BY <1>1, <1>2 DEF passed
<1>4. BuilderOK(x, D, Op, clean) /\ Describes(x.stack, Len(x.containers))
  BY <1>2 DEF BuilderOK
<1>5. Last(x.stack).in \in 1 .. Len(x.containers)
  BY <1>4, InnermostIsLast DEF Describes
<1>6. c.in \in 1 .. Len(x.containers)
  BY <1>1, <1>2, <1>5 DEF open
<1>7. Describes(st, Len(x.containers))
  BY <1>2, <1>4, <1>6, StackTop
<1> QED BY <1>2, <1>3, <1>4, <1>7, WithStack

\* One statement of the innermost describe function, whatever it is.
LEMMA StatementKeeps ==
  ASSUME DeriveInv, Describing, NEW x, NEW N, NEW clean, clean = (reported \cup N = {}),
         BuilderOK(x, objects, Made, clean), Further(x, b, N),
         Become(x), Report(N), UNCHANGED <<objects, published, locals>>
  PROVE  DeriveInv'
<1>1. PICK P, D, bs, R, Op : P = published /\ D = objects /\ bs = builders /\ R = reported /\ Op = Made
  OBVIOUS
<1>2. PICK cs, Lv, rt : cs = Append(Front(bs), x) /\ Lv = levels /\ rt = root
  OBVIOUS
<1>3. /\ Standing(P, D, bs, R, Op) /\ bs # <<>> /\ Further(x, Last(bs), N)
      /\ clean = (R \cup N = {}) /\ BuilderOK(x, D, Op, clean)
  BY <1>1 DEF DeriveInv, Describing, Working, b, Made
<1>4. /\ Standing(P, D, cs, R \cup N, Op) /\ Onward(bs, cs, x)
      /\ Making(cs, Lv, rt) = Making(bs, Lv, rt)
  <2>1. Standing(P, D, cs, R \cup N, Op)
    BY <1>2, <1>3, BuilderGoes
  <2>2. Onward(bs, cs, x)
    <3>1. IsSeq(bs)
      BY <1>3 DEF Standing, Work
    <3> QED BY <1>2, <1>3, <3>1, GoneOn
  <2>3. Making(cs, Lv, rt) = Making(bs, Lv, rt)
    BY <2>2, OnwardMakes
  <2> QED BY <2>1, <2>2, <2>3
<1>5. /\ builders' = cs /\ reported' = R \cup N /\ objects' = D /\ published' = P
      /\ levels' = Lv /\ root' = rt /\ phase' = phase /\ targets' = targets /\ handled' = handled
  BY <1>1, <1>2 DEF Become, Report, locals
<1>6. Op = Making(bs, Lv, rt)
  BY <1>1, <1>2 DEF Made
<1>7. Standing(published, objects, builders, reported, Making(builders, levels, root))'
  BY <1>4, <1>5, <1>6
<1> QED BY <1>5, <1>7 DEF DeriveInv, Describing, NoModel, locals

\* A declaration.
LEMMA DeclarationKeeps ==
  ASSUME DeriveInv, Describing, NEW j, NEW r, NEW N, NEW clean, clean = (reported \cup N = {}),
         RegOK(r, Len(objects), Len(b.containers), Made, clean),
         Become(noted(add(passed(j), r), N)), Report(N), UNCHANGED <<objects, published, locals>>
  PROVE  DeriveInv'
<1>1. BuilderOK(b, objects, Made, clean)
  BY Innermost DEF Describing
<1>2. PICK x : x = passed(j)
  OBVIOUS
<1>3. BuilderOK(x, objects, Made, clean) /\ Further(x, b, {}) /\ x.containers = b.containers
  BY <1>1, <1>2, PassedOn
<1>4. PICK y : y = add(x, r)
  OBVIOUS
<1>5. BuilderOK(y, objects, Made, clean) /\ Further(y, x, {})
  <2>1. RegOK(r, Len(objects), Len(x.containers), Made, clean)
    BY <1>3
  <2> QED BY <1>3, <1>4, <2>1, Added
<1>6. PICK z : z = noted(y, N)
  OBVIOUS
<1>7. BuilderOK(z, objects, Made, clean) /\ Further(z, y, N)
  BY <1>5, <1>6, NotedDown
<1>8. Further(z, b, N)
  BY <1>3, <1>5, <1>7 DEF Further
<1>9. Become(z)
  BY <1>2, <1>4, <1>6
<1> QED BY <1>7, <1>8, <1>9, StatementKeeps

\* A statement that declares nothing.
LEMMA NoteKeeps ==
  ASSUME DeriveInv, Describing, NEW j, NEW N,
         Become(noted(passed(j), N)), Report(N), UNCHANGED <<objects, published, locals>>
  PROVE  DeriveInv'
<1>1. PICK clean : clean = (reported \cup N = {})
  OBVIOUS
<1>2. BuilderOK(b, objects, Made, clean)
  BY <1>1, Innermost DEF Describing
<1>3. PICK x : x = passed(j)
  OBVIOUS
<1>4. BuilderOK(x, objects, Made, clean) /\ Further(x, b, {})
  BY <1>2, <1>3, PassedOn
<1>5. PICK z : z = noted(x, N)
  OBVIOUS
<1>6. BuilderOK(z, objects, Made, clean) /\ Further(z, x, N)
  BY <1>4, <1>5, NotedDown
<1>7. Further(z, b, N)
  BY <1>4, <1>6 DEF Further
<1>8. Become(z)
  BY <1>3, <1>5
<1> QED BY <1>1, <1>6, <1>7, <1>8, StatementKeeps

\* The objects in the making come after those of the descriptors.
LEMMA DescribedNotMaking ==
  ASSUME NEW P, NEW D, NEW bs, NEW R, NEW Op, Standing(P, D, bs, R, Op), bs # <<>>,
         NEW d \in DOMAIN P
  PROVE  P[d].root \in DOMAIN D /\ P[d].root \notin Op
<1>1. PICK n, h, p, q : n = Len(D) /\ h = Base(bs, n) /\ p = P[d].root /\ q = P[d].last
  OBVIOUS
<1>2. n \in Nat /\ DOMAIN D = 1 .. n
  BY <1>1, HeapDomain DEF Standing, Sound
<1>3. p \in 1 .. q /\ q \in 1 .. n /\ q < h /\ Op \subseteq h .. n
  BY <1>1 DEF Standing, Descriptors
<1>4. h \in 1 .. n
  <2>1. h \in DOMAIN D
    BY <1>1, BuildersInOrder DEF Standing, Sound
  <2> QED BY <1>2, <2>1
<1>5. p \in 1 .. n /\ p \notin h .. n
  BY <1>2, <1>3, <1>4
<1> QED BY <1>1, <1>2, <1>3, <1>5

LEMMA DeclarationsKeep ==
  ASSUME DeriveInv, Describing, NEW j,
         \/ RegisterValue(j) \/ RegisterDescribed(j) \/ RegisterRunning(j)
         \/ RegisterMismatched(j) \/ OneOf(j)
  PROVE  DeriveInv'
<1>1. PICK s, n, k, Op : s = open.body[j] /\ n = Len(objects) /\ k = Len(b.containers) /\ Op = Made
  OBVIOUS
<1>2. n \in Nat /\ 0 \in 0 .. n /\ DOMAIN objects = 1 .. n
  BY <1>1, HeapDomain, Innermost DEF Describing
<1>3. ASSUME NEW r, NEW N, NEW clean, clean = (reported \cup N = {}), RegOK(r, n, k, Op, clean),
             Become(noted(add(passed(j), r), N)), Report(N), UNCHANGED <<objects, published, locals>>
      PROVE  DeriveInv'
  BY <1>1, <1>3, DeclarationKeeps
<1>4. CASE RegisterValue(j)
  <2>1. PICK r, N : r = registration(s, s.f, s.f.kind, NoObject, 0) /\ N = misused(s)
    OBVIOUS
  <2>2. PICK clean : clean = (reported \cup N = {})
    OBVIOUS
  <2>3. s.op # "group"
    BY <1>1, <1>4 DEF RegisterValue, Accepted
  <2>4. RegOK(r, n, k, Op, clean)
    BY <1>2, <2>1, <2>3, Registered DEF NoObject
  <2>5. Become(noted(add(passed(j), r), N)) /\ Report(N) /\ UNCHANGED <<objects, published, locals>>
    BY <1>1, <1>4, <2>1 DEF RegisterValue
  <2> QED BY <1>3, <2>2, <2>4, <2>5
<1>5. CASE RegisterDescribed(j)
  <2>1. PICK mine, N : /\ mine = {d \in DOMAIN published : published[d].go = s.by[2]}
                       /\ N = IF wrongPresence(s) # {} THEN wrongPresence(s)
                              ELSE when(mine = {}, "missing_definition", s.name)
    OBVIOUS
  <2>2. PICK clean : clean = (reported \cup N = {})
    OBVIOUS
  <2>3. /\ s.op # "group" /\ UNCHANGED <<objects, published, locals>> /\ Report(N)
        /\ \E o \in IF N = {} THEN {published[d].root : d \in mine} ELSE {NoObject} :
             Become(noted(add(passed(j), referring(s, o)), N))
    BY <1>1, <1>5, <2>1 DEF RegisterDescribed, Accepted, Objects
  <2>4. PICK o \in IF N = {} THEN {published[d].root : d \in mine} ELSE {NoObject} :
          Become(noted(add(passed(j), referring(s, o)), N))
    BY <2>3
  <2>5. o \in 0 .. n /\ (o = NoObject \/ o \notin Op)
    <3>1. CASE o = NoObject
      BY <1>2, <3>1 DEF NoObject
    <3>2. CASE o # NoObject
      <4>1. PICK d \in DOMAIN published : o = published[d].root
        BY <2>1, <2>4, <3>2
      <4>2. o \in DOMAIN objects /\ o \notin Op
        BY <1>1, <4>1, DescribedNotMaking DEF DeriveInv, Describing, Working, Made
      <4>3. o \in 0 .. n
        BY <1>2, <4>2
      <4> QED BY <4>2, <4>3
    <3> QED BY <3>1, <3>2
  <2>6. PICK r : r = registration(s, s.f, s.op, o, 0)
    OBVIOUS
  <2>7. RegOK(r, n, k, Op, clean)
    BY <1>2, <2>3, <2>5, <2>6, Registered
  <2>8. Become(noted(add(passed(j), r), N))
    BY <2>4, <2>6 DEF referring
  <2> QED BY <1>3, <2>2, <2>3, <2>7, <2>8
<1>6. CASE RegisterRunning(j)
  <2>1. PICK N : N = endless(s)
    OBVIOUS
  <2>2. PICK clean : clean = (reported \cup N = {})
    OBVIOUS
  <2>3. /\ s.op \in Objects /\ UNCHANGED <<objects, published, locals>> /\ Report(N)
        /\ \E i \in Opened(s.elem, s.by[2]) :
             Become(noted(add(passed(j), referring(s, builders[i].object)), N))
    BY <1>1, <1>6, <2>1 DEF RegisterRunning, Accepted
  <2>4. PICK o : o \in DOMAIN objects /\ Become(noted(add(passed(j), referring(s, o)), N))
    <3>1. PICK i \in DOMAIN builders :
            Become(noted(add(passed(j), referring(s, builders[i].object)), N))
      BY <2>3 DEF Opened
    <3>2. builders[i].object \in DOMAIN objects
      BY BuildersInOrder DEF DeriveInv, Standing, Sound, Describing, Working
    <3> QED BY <3>1, <3>2
  <2>5. o \in 0 .. n
    BY <1>2, <2>4
  <2>6. s.op # "group" /\ (clean => s.op # "object")
    BY <2>1, <2>2, <2>3 DEF endless, when, Objects
  <2>7. PICK r : r = registration(s, s.f, s.op, o, 0)
    OBVIOUS
  <2>8. RegOK(r, n, k, Op, clean)
    BY <1>2, <2>5, <2>6, <2>7, Registered
  <2>9. Become(noted(add(passed(j), r), N))
    BY <2>4, <2>7 DEF referring
  <2> QED BY <1>3, <2>2, <2>3, <2>8, <2>9
<1>7. CASE RegisterMismatched(j)
  <2>1. PICK r, N : r = registration(s, s.f, s.op, NoObject, 0) /\ N = wrongPresence(s)
    OBVIOUS
  <2>2. PICK clean : clean = (reported \cup N = {})
    OBVIOUS
  <2>3. s.op # "group"
    BY <1>1, <1>7 DEF RegisterMismatched, Accepted, Objects
  <2>4. RegOK(r, n, k, Op, clean)
    BY <1>2, <2>1, <2>3, Registered DEF NoObject
  <2>5. Become(noted(add(passed(j), r), N)) /\ Report(N) /\ UNCHANGED <<objects, published, locals>>
    BY <1>1, <1>7, <2>1 DEF RegisterMismatched, referring
  <2> QED BY <1>3, <2>2, <2>4, <2>5
<1>8. CASE OneOf(j)
  <2>1. PICK f, kind, N :
          /\ Become(noted(add(passed(j), registration(s, f, kind, NoObject, 0)), N))
          /\ Report(N)
    BY <1>1, <1>8 DEF OneOf
  <2>2. PICK r, clean : r = registration(s, f, kind, NoObject, 0) /\ clean = (reported \cup N = {})
    OBVIOUS
  <2>3. s.op # "group" /\ UNCHANGED <<objects, published, locals>>
    BY <1>1, <1>8 DEF OneOf, Accepted
  <2>4. RegOK(r, n, k, Op, clean)
    BY <1>2, <2>2, <2>3, Registered DEF NoObject
  <2> QED BY <1>3, <2>1, <2>2, <2>3, <2>4
<1> QED BY <1>4, <1>5, <1>6, <1>7, <1>8
LEMMA GroupsKeep ==
  ASSUME DeriveInv, Describing, NEW j, OpenGroup(j) \/ CloseGroup
  PROVE  DeriveInv'
<1>1. PICK s, n, k : s = open.body[j] /\ n = Len(objects) /\ k = Len(b.containers) + 1
  OBVIOUS
<1>2. n \in Nat /\ 0 \in 0 .. n
  BY <1>1, HeapDomain, Innermost DEF Describing
<1>3. CASE OpenGroup(j)
  <2>1. UNCHANGED <<objects, published, locals>>
    BY <1>3 DEF OpenGroup
  <2>2. CASE s.name = ""
    <3>1. PICK N : N = {<<"missing_definition", "">>}
      OBVIOUS
    <3>2. Become(noted(passed(j), N)) /\ Report(N)
      BY <1>1, <1>3, <2>2, <3>1 DEF OpenGroup, when
    <3> QED BY <2>1, <3>2, NoteKeeps
  <2>3. CASE s.name # ""
    <3>1. PICK r, x : r = registration(s, s.f, "group", NoObject, k) /\ x = passed(j)
      OBVIOUS
    <3>2. PICK clean : clean = (reported \cup {} = {})
      OBVIOUS
    <3>3. PICK y : y = [add(x, r) EXCEPT !.containers = Append(@, <<>>),
                                         !.stack = Append(@, opened(s.body, k))]
      OBVIOUS
    <3>4. Become(y) /\ Report({})
      BY <1>1, <1>3, <2>3, <3>1, <3>3 DEF OpenGroup, when
    <3>5. BuilderOK(b, objects, Made, clean)
      BY <3>2, Innermost DEF Describing
    <3>6. /\ BuilderOK(x, objects, Made, clean) /\ Further(x, b, {})
          /\ x.containers = b.containers
      BY <3>1, <3>5, PassedOn
    <3>7. k \in 1 .. k /\ k = Len(x.containers) + 1
      <4>1. PICK m : m = Len(b.containers)
        OBVIOUS
      <4>2. m \in Nat
        BY <3>5, <4>1, SeqOfElements DEF BuilderOK, Holds
      <4> QED BY <1>1, <3>6, <4>1, <4>2
    <3>8. RegOK(r, Len(objects), k, Made, clean)
      BY <1>1, <1>2, <3>1, <3>7, Registered DEF NoObject
    <3>9. BuilderOK(y, objects, Made, clean) /\ Further(y, x, {})
      BY <3>3, <3>6, <3>7, <3>8, GroupOpened
    <3>10. Further(y, b, {})
      BY <3>6, <3>9 DEF Further
    <3> QED BY <2>1, <3>2, <3>4, <3>9, <3>10, StatementKeeps
  <2> QED BY <2>2, <2>3
<1>4. CASE CloseGroup
  <2>1. PICK clean : clean = (reported \cup {} = {})
    OBVIOUS
  <2>2. BuilderOK(b, objects, Made, clean)
    BY <2>1, Innermost DEF Describing
  <2>3. PICK x, st : x = b /\ st = Front(x.stack)
    OBVIOUS
  <2>4. Describes(st, Len(x.containers))
    <3>1. PICK m : m = Len(x.stack)
      OBVIOUS
    <3>2. /\ IsSeq(x.stack) /\ x.stack # <<>> /\ m > 1
          /\ \A i \in DOMAIN x.stack : x.stack[i].in \in 1 .. Len(x.containers)
      BY <1>4, <2>2, <2>3, <3>1 DEF BuilderOK, Describes, CloseGroup
    <3>3. /\ m \in Nat /\ IsSeq(st) /\ DOMAIN st = 1 .. m - 1
          /\ \A i \in 1 .. m - 1 : st[i] = x.stack[i]
      BY <2>3, <3>1, <3>2, FrontOfSeq
    <3>4. DOMAIN x.stack = 1 .. m /\ 1 \in 1 .. m - 1 /\ \A i \in 1 .. m - 1 : i \in 1 .. m
      BY <3>1, <3>2, <3>3, SeqOfElements
    <3>5. st # <<>>
      BY <3>3, <3>4
    <3> QED BY <3>2, <3>3, <3>4, <3>5 DEF Describes
  <2>5. PICK y : y = [x EXCEPT !.stack = st]
    OBVIOUS
  <2>6. BuilderOK(x, objects, Made, clean)
    BY <2>2, <2>3
  <2>7. BuilderOK(y, objects, Made, clean) /\ Further(y, x, {})
    BY <2>4, <2>5, <2>6, WithStack
  <2>8. Become(y) /\ Report({}) /\ UNCHANGED <<objects, published, locals>>
    BY <1>4, <2>3, <2>5 DEF CloseGroup, Report
  <2>9. Further(y, b, {})
    BY <2>3, <2>7
  <2> QED BY <2>1, <2>7, <2>8, <2>9, StatementKeeps
<1> QED BY <1>3, <1>4

LEMMA RuleKeeps ==
  ASSUME DeriveInv, Describing, NEW j, Invariant(j)
  PROVE  DeriveInv'
<1>1. PICK rules, N : Become(noted([passed(j) EXCEPT !.rules = rules], N)) /\ Report(N)
  BY DEF Invariant
<1>2. PICK clean : clean = (reported \cup N = {})
  OBVIOUS
<1>3. BuilderOK(b, objects, Made, clean)
  BY <1>2, Innermost DEF Describing
<1>4. PICK x : x = passed(j)
  OBVIOUS
<1>5. BuilderOK(x, objects, Made, clean) /\ Further(x, b, {})
  BY <1>3, <1>4, PassedOn
<1>6. PICK y : y = [x EXCEPT !.rules = rules]
  OBVIOUS
<1>7. BuilderOK(y, objects, Made, clean) /\ Further(y, x, {})
  BY <1>5, <1>6, WithRules
<1>8. PICK z : z = noted(y, N)
  OBVIOUS
<1>9. BuilderOK(z, objects, Made, clean) /\ Further(z, y, N)
  BY <1>7, <1>8, NotedDown
<1>10. Further(z, b, N)
  BY <1>5, <1>7, <1>9 DEF Further
<1>11. Become(z) /\ UNCHANGED <<objects, published, locals>>
  BY <1>1, <1>4, <1>6, <1>8 DEF Invariant
<1> QED BY <1>1, <1>2, <1>9, <1>10, <1>11, StatementKeeps

\* The builders cs are bs and one of the object z.
OneMore(bs, cs, z) ==
  {cs[i].object : i \in DOMAIN cs} = {bs[i].object : i \in DOMAIN bs} \cup {z}

LEMMA OneMoreMakes ==
  ASSUME NEW bs, NEW cs, NEW z, OneMore(bs, cs, z), NEW Lv, NEW rt
  PROVE  Making(cs, Lv, rt) = Making(bs, Lv, rt) \cup {z}
BY DEF OneMore, Making

LEMMA OneIsMore ==
  ASSUME NEW bs, IsSeq(bs), NEW x, NEW cs, cs = Append(bs, x), NEW z, z = x.object
  PROVE  OneMore(bs, cs, z)
<1>1. PICK n : n = Len(bs)
  OBVIOUS
<1>2. n \in Nat /\ DOMAIN bs = 1 .. n
  BY <1>1, SeqOfElements
<1>3. IsSeq(cs) /\ Len(cs) = n + 1 /\ cs[n + 1] = x /\ \A i \in 1 .. n : cs[i] = bs[i]
  <2>1. PICK y : y = Append(bs, x)
    OBVIOUS
  <2>2. /\ IsSeq(y) /\ Len(y) = Len(bs) + 1 /\ y[Len(bs) + 1] = x
        /\ \A i \in 1 .. Len(bs) : y[i] = bs[i]
    BY <2>1, AppendToSeq
  <2> QED BY <1>1, <2>1, <2>2
<1>4. DOMAIN cs = 1 .. n + 1
  BY <1>3, SeqOfElements
<1>5. /\ \A i \in 1 .. n + 1 : i = n + 1 \/ i \in 1 .. n
      /\ n + 1 \in 1 .. n + 1 /\ \A i \in 1 .. n : i \in 1 .. n + 1
  BY <1>2
<1>6. ASSUME NEW o
      PROVE  o \in {cs[i].object : i \in DOMAIN cs} <=> o \in {bs[i].object : i \in DOMAIN bs} \cup {z}
  BY <1>2, <1>3, <1>4, <1>5
<1> QED BY <1>6 DEF OneMore

\* A builder is opened for an object that is.
LEMMA BuilderOpens ==
  ASSUME NEW P, NEW D, NEW bs, NEW R, NEW Op, Standing(P, D, bs, R, Op), bs # <<>>,
         NEW g, NEW fn, NEW z, z \in DOMAIN D, D[z].within = z, NEW s, s.op # "group",
         NEW x, x = newBuilder(g, fn, z, s),
         \A i \in DOMAIN bs : Key(bs[i]) # <<g, fn>> /\ bs[i].object < z,
         NEW cs, cs = Append(bs, x)
  PROVE  Standing(P, D, cs, R, Op)
<1>1. PICK clean : clean = (R = {})
  OBVIOUS
<1>2. BuilderOK(x, D, Op, clean) /\ Key(x) = <<g, fn>> /\ x.object = z /\ x.caller = s
  BY NewBuilderFits
<1>3. Work(bs, D, R, Op, clean)
  BY <1>1 DEF Standing
<1>4. \A i \in DOMAIN bs : Key(bs[i]) # Key(x) /\ bs[i].object < x.object
  BY <1>2
<1>5. Work(cs, D, R, Op, clean)
  BY <1>2, <1>3, <1>4, Opens
<1>6. cs # <<>> /\ cs[1] = bs[1]
  BY <1>2, <1>3, <1>4, Opens
<1>8. Base(cs, Len(D)) = Base(bs, Len(D))
  BY <1>6 DEF Base
<1>9. Standing(P, D, cs, R, Op)
  <2>1. Settled(P, cs, Len(D), Op) = Settled(P, bs, Len(D), Op)
    BY <1>8 DEF Settled
  <2>2. Descriptors(P, cs, Len(D))
    BY <1>8 DEF Standing, Descriptors
  <2> QED BY <1>1, <1>5, <1>8, <2>1, <2>2 DEF Standing
<1> QED BY <1>9

LEMMA DescribeKeeps ==
  ASSUME DeriveInv, Describing, NEW j, Describe(j)
  PROVE  DeriveInv'
<1>1. PICK P, D, bs, R, Op : P = published /\ D = objects /\ bs = builders /\ R = reported /\ Op = Made
  OBVIOUS
<1>2. PICK s, z, x : s = open.body[j] /\ z = Len(D) + 1 /\ x = passed(j)
  OBVIOUS
<1>3. PICK E, es, y, cs : /\ E = Append(D, emptyObject(s.elem, z))
                          /\ es = Append(Front(bs), x)
                          /\ y = newBuilder(s.elem, s.by[2], z, s)
                          /\ cs = Append(es, y)
  OBVIOUS
<1>4. /\ Standing(P, D, bs, R, Op) /\ bs # <<>> /\ Op = Making(bs, levels, root)
      /\ Opened(s.elem, s.by[2]) = {} /\ s.op # "group"
      /\ objects' = E /\ builders' = cs /\ UNCHANGED <<published, reported, locals>>
  BY <1>1, <1>2, <1>3 DEF DeriveInv, Describing, Working, Describe, Made, Accepted, Objects
<1>5. PICK Q, e : Q = Op \cup {z} /\ e = emptyObject(s.elem, z)
  OBVIOUS
<1>6. Standing(P, E, bs, R, Q) /\ Fresh(D, E, z, e)
  BY <1>2, <1>3, <1>4, <1>5, HeapOpens
<1>7. z \in DOMAIN E /\ E[z].within = z /\ z \notin DOMAIN D
  <2>1. E[z] = e /\ DOMAIN E = 1 .. z /\ z \in Nat /\ z \notin DOMAIN D /\ Len(D) \in Nat
    BY <1>6 DEF Fresh, Grown
  <2>2. z \in 1 .. z
    BY <1>2, <2>1
  <2> QED BY <1>5, <2>1, <2>2 DEF emptyObject
<1>8. PICK clean : clean = (R \cup {} = {})
  OBVIOUS
<1>9. BuilderOK(x, E, Q, clean) /\ Further(x, Last(bs), {})
  <2>1. Heap(E) /\ Work(bs, E, R, Q, clean)
    BY <1>6, <1>8 DEF Standing, Sound
  <2>2. BuilderOK(b, E, Q, clean)
    BY <1>1, <1>4, <2>1, BuildersInOrder DEF b
  <2>3. BuilderOK(x, E, Q, clean) /\ Further(x, b, {})
    BY <1>2, <2>2, PassedOn
  <2> QED BY <1>1, <2>3 DEF b
<1>10. Standing(P, E, es, R, Q)
  <2>1. Standing(P, E, es, R \cup {}, Q)
    BY <1>3, <1>4, <1>6, <1>8, <1>9, BuilderGoes
  <2>2. R \cup {} = R
    OBVIOUS
  <2> QED BY <2>1, <2>2
<1>11. Onward(bs, es, x)
  <2>1. IsSeq(bs)
    BY <1>4 DEF Standing, Work
  <2> QED BY <1>3, <1>4, <1>9, <2>1, GoneOn
<1>12. \A i \in DOMAIN es : Key(es[i]) # <<s.elem, s.by[2]>> /\ es[i].object < z
  <2> SUFFICES ASSUME NEW i \in DOMAIN bs
               PROVE  Key(es[i]) # <<s.elem, s.by[2]>> /\ es[i].object < z
    BY <1>11 DEF Onward
  <2>1. Key(bs[i]) # <<s.elem, s.by[2]>>
    BY <1>1, <1>4 DEF Opened
  <2>2. bs[i].object \in DOMAIN D
    BY <1>4, BuildersInOrder DEF Standing, Sound
  <2>3. PICK o, n : o = bs[i].object /\ n = Len(D)
    OBVIOUS
  <2>4. n \in Nat /\ DOMAIN D = 1 .. n
    BY <1>4, <2>3, HeapDomain DEF Standing, Sound
  <2>5. o < z
    BY <1>2, <2>2, <2>3, <2>4
  <2> QED BY <1>11, <2>1, <2>3, <2>5 DEF Onward
<1>13. Standing(P, E, cs, R, Q)
  <2>1. PICK g, fn : g = s.elem /\ fn = s.by[2]
    OBVIOUS
  <2>2. /\ y = newBuilder(g, fn, z, s) /\ es # <<>>
        /\ \A i \in DOMAIN es : Key(es[i]) # <<g, fn>> /\ es[i].object < z
    BY <1>3, <1>11, <1>12, <2>1 DEF Onward
  <2> QED BY <1>3, <1>4, <1>7, <1>10, <2>2, BuilderOpens
<1>14. Making(cs, levels, root) = Q
  <2>1. Making(es, levels, root) = Making(bs, levels, root)
    BY <1>11, OnwardMakes
  <2>2. IsSeq(es) /\ y.object = z
    BY <1>3, <1>10 DEF Standing, Work, newBuilder
  <2>3. PICK Lv, rt : Lv = levels /\ rt = root
    OBVIOUS
  <2>4. Making(cs, Lv, rt) = Making(es, Lv, rt) \cup {z}
    <3>1. OneMore(es, cs, z)
      BY <1>3, <2>2, OneIsMore
    <3> QED BY <3>1, OneMoreMakes
  <2> QED BY <1>4, <1>5, <2>1, <2>3, <2>4
<1>15. Standing(published, objects, builders, reported, Making(builders, levels, root))'
  BY <1>1, <1>4, <1>13, <1>14 DEF locals
<1>16. TargetsOK(targets, Len(objects))'
  <2>1. targets = <<>> /\ targets' = targets
    BY <1>4 DEF DeriveInv, Describing, NoModel, locals
  <2> QED BY <2>1 DEF TargetsOK, IsSeq
<1> QED BY <1>4, <1>15, <1>16 DEF DeriveInv, Describing, NoModel, locals

LEMMA StatementsKeep ==
  ASSUME DeriveInv, Statement
  PROVE  DeriveInv'
<1>1. PICK j \in Coming :
        \/ Refuse(j) \/ RegisterValue(j)
        \/ RegisterDescribed(j) \/ RegisterRunning(j) \/ Describe(j) \/ RegisterMismatched(j)
        \/ OneOf(j) \/ OpenGroup(j) \/ Invariant(j)
  BY DEF Statement
<1>2. Describing
  BY DEF Statement
<1>3. CASE Refuse(j)
  <2>1. PICK N : N = refusal(open.body[j])
    OBVIOUS
  <2>2. Become(noted(passed(j), N)) /\ Report(N) /\ UNCHANGED <<objects, published, locals>>
    BY <1>3, <2>1 DEF Refuse
  <2> QED BY <1>2, <2>2, NoteKeeps
<1>4. CASE RegisterValue(j) \/ RegisterDescribed(j) \/ RegisterRunning(j)
           \/ RegisterMismatched(j) \/ OneOf(j)
  BY <1>2, <1>4, DeclarationsKeep
<1>5. CASE Describe(j)
  BY <1>2, <1>5, DescribeKeeps
<1>6. CASE OpenGroup(j)
  BY <1>2, <1>6, GroupsKeep
<1>7. CASE Invariant(j)
  BY <1>2, <1>7, RuleKeeps
<1> QED BY <1>1, <1>3, <1>4, <1>5, <1>6, <1>7

LEMMA StartKeeps ==
  ASSUME DeriveInv, StartDerive
  PROVE  DeriveInv'
<1>1. PICK P, D, z, g, fn : /\ P = published /\ D = objects /\ z = Len(D) + 1
                            /\ g = Head(program)[1] /\ fn = Head(program)[2]
  OBVIOUS
<1>2. PICK E, x, cs : /\ E = Append(D, emptyObject(g, z)) /\ x = newBuilder(g, fn, z, <<>>)
                      /\ cs = <<x>>
  OBVIOUS
<1>3. /\ objects' = E /\ builders' = cs /\ reported' = {} /\ published' = P
      /\ UNCHANGED locals /\ builders = <<>>
  BY <1>1, <1>2 DEF StartDerive, Working
<1>4. phase = "describing" /\ NoModel
  BY <1>3 DEF DeriveInv, ModelOK
<1>5. PICK M, n : M = made(P) /\ n = Len(D)
  OBVIOUS
<1>6. PICK clean : clean = TRUE
  OBVIOUS
<1>7. Sound(D, M, M, {}, clean)
  BY <1>1, <1>5 DEF DeriveInv, Standing, Sound, NotHeld
<1>8. PICK e, Q, none : e = emptyObject(g, z) /\ none = {} /\ Q = none \cup {z}
  OBVIOUS
<1>9. Sound(E, M, M, Q, clean) /\ Fresh(D, E, z, e)
  <2>1. Sound(D, M, M, none, clean)
    BY <1>7, <1>8
  <2>2. Sound(E, M, M, none \cup {z}, clean)
    BY <1>1, <1>2, <2>1, FreshObject
  <2>3. Fresh(D, E, z, emptyObject(g, z))
    BY <1>1, <1>2, <2>1, FreshObject
  <2> QED BY <1>8, <2>2, <2>3
<1>10. /\ n \in Nat /\ z = n + 1 /\ Len(E) = z /\ z \in DOMAIN E /\ E[z].within = z
  <2>1. E[z] = e /\ Len(E) = z /\ DOMAIN E = 1 .. z /\ Len(D) \in Nat
    BY <1>9 DEF Fresh, Grown
  <2>2. z \in 1 .. z
    BY <1>1, <2>1
  <2> QED BY <1>1, <1>5, <1>8, <2>1, <2>2 DEF emptyObject
<1>11. BuilderOK(x, E, Q, clean) /\ x.object = z
  <2>1. PICK caller : caller = <<>>
    OBVIOUS
  <2>2. x = newBuilder(g, fn, z, caller)
    BY <1>2, <2>1
  <2>3. BuilderOK(x, E, Q, clean)
    BY <1>10, <2>2, NewBuilderFits
  <2> QED BY <2>2, <2>3 DEF newBuilder
<1>12. cs # <<>> /\ IsSeq(cs) /\ DOMAIN cs = {1} /\ cs[1] = x
  BY <1>2 DEF IsSeq
<1>13. Work(cs, E, {}, Q, clean)
  BY <1>11, <1>12 DEF Work, Apart, NotedIn, Called
<1>14. Base(cs, Len(E)) = z /\ Q = z .. z
  BY <1>8, <1>10, <1>11, <1>12 DEF Base
<1>15. Settled(P, cs, Len(E), Q) = M
  BY <1>5, <1>10, <1>14 DEF Settled
<1>16. Descriptors(P, cs, Len(E))
  <2>1. ASSUME NEW d \in DOMAIN P
        PROVE  P[d].root \in 1 .. P[d].last /\ P[d].last \in 1 .. z /\ P[d].last < z
    <3>1. PICK q : q = P[d].last
      OBVIOUS
    <3>2. P[d].root \in 1 .. q /\ q \in 1 .. n
      BY <1>1, <1>5, <3>1 DEF DeriveInv, Standing, Descriptors
    <3>3. q \in 1 .. z /\ q < z
      BY <1>10, <3>2
    <3> QED BY <3>1, <3>2, <3>3
  <2> QED BY <1>1, <1>10, <1>14, <2>1 DEF DeriveInv, Standing, Descriptors
<1>17. Standing(P, E, cs, {}, Q)
  <2>1. Sound(E, made(P), Settled(P, cs, Len(E), Q), Q, {} = {})
    BY <1>5, <1>6, <1>9, <1>15 DEF Sound
  <2>2. Work(cs, E, {}, Q, {} = {})
    BY <1>6, <1>13
  <2> QED BY <1>10, <1>14, <1>16, <2>1, <2>2 DEF Standing
<1>18. Making(cs, levels, root) = Q
  BY <1>4, <1>8, <1>11, <1>12 DEF Making, NoModel
<1>19. Standing(published, objects, builders, reported, Making(builders, levels, root))'
  BY <1>3, <1>17, <1>18 DEF locals
<1>20. TargetsOK(targets, Len(objects))'
  <2>1. targets = <<>> /\ targets' = targets
    BY <1>3, <1>4 DEF NoModel, locals
  <2> QED BY <2>1 DEF TargetsOK, IsSeq
<1> QED BY <1>3, <1>4, <1>19, <1>20 DEF DeriveInv, NoModel, locals
------------------------------------------------------------------------------
(* What is compiled.                                                       *)

LEMMA BoundGrows ==
  ASSUME NEW D, NEW E, \A x \in DOMAIN D : Keeps(D, E, x), NEW o, NEW rt
  PROVE  BoundIn(D, o, rt) \subseteq BoundIn(E, o, rt)
<1> SUFFICES ASSUME NEW g \in BoundIn(D, o, rt) PROVE g \in BoundIn(E, o, rt)
  OBVIOUS
<1>1. PICK x \in DOMAIN D : /\ x = rt \/ (D[x].within = o /\ x # o)
                            /\ g \in {D[x].fields[i].go : i \in DOMAIN D[x].fields}
  BY DEF BoundIn
<1>2. x \in DOMAIN E /\ (x = rt \/ (E[x].within = o /\ x # o))
  BY <1>1 DEF Keeps
<1>3. g \in {E[x].fields[i].go : i \in DOMAIN E[x].fields}
  BY <1>1 DEF Keeps
<1> QED BY <1>2, <1>3 DEF BoundIn

\* The model grows with what is handled.
LEMMA ModelGrows ==
  ASSUME NEW D, NEW bs, NEW R, NEW rt, NEW H, NEW A, ModelOK(D, bs, R, rt, H, A),
         NEW E, \A x \in DOMAIN D : Keeps(D, E, x),
         NEW cs, cs # <<>>, Last(cs).object = Last(bs).object,
         NEW Q, R \subseteq Q, NEW I, NEW B, A \subseteq B,
         Q = {} => I \subseteq H \cup B \cup BoundIn(E, Last(bs).object, rt)
  PROVE  ModelOK(E, cs, Q, rt, I, B)
<1>1. PICK o : o = Last(bs).object
  OBVIOUS
<1>2. rt \in DOMAIN E /\ o < rt /\ E[rt].within = NoObject
  BY <1>1 DEF ModelOK, Keeps
<1>3. BoundIn(D, o, rt) \subseteq BoundIn(E, o, rt)
  BY BoundGrows
<1>4. Q = {} => H \subseteq A \cup BoundIn(D, o, rt)
  BY <1>1 DEF ModelOK
<1>5. Q = {} => I \subseteq B \cup BoundIn(E, o, rt)
  BY <1>1, <1>3, <1>4
<1> QED BY <1>1, <1>2, <1>5 DEF ModelOK

LEMMA NothingLost ==
  ASSUME NEW D PROVE \A x \in DOMAIN D : Keeps(D, D, x)
BY DEF Keeps

LEMMA FreshKeeps ==
  ASSUME NEW D, NEW E, NEW z, NEW x, Fresh(D, E, z, x)
  PROVE  \A y \in DOMAIN D : Keeps(D, E, y) /\ y < z
<1>1. PICK n : n = Len(D)
  OBVIOUS
<1>2. n \in Nat /\ z \in Nat /\ n <= z /\ DOMAIN D = 1 .. n /\ DOMAIN E = 1 .. z /\ z \notin 1 .. n
  BY <1>1 DEF Fresh, Grown
<1>3. \A y \in 1 .. n : y \in 1 .. z /\ y < z
  BY <1>2
<1> QED BY <1>2, <1>3, SameKeeps DEF Fresh

LEMMA BoundMore ==
  ASSUME NEW D, Heap(D), NEW x \in DOMAIN D, NEW f, NEW E, Enlarged(D, E, x, f),
         NEW o, NEW rt, x = rt \/ (D[x].within = o /\ x # o)
  PROVE  f.go \in BoundIn(E, o, rt)
<1>1. PICK s, m, t : s = D[x].fields /\ m = Len(s) /\ t = Append(s, f)
  OBVIOUS
<1>2. IsSeq(s)
  BY <1>1 DEF Heap
<1>3. m \in Nat /\ IsSeq(t) /\ Len(t) = m + 1 /\ t[m + 1] = f
  BY <1>1, <1>2, AppendToSeq, SeqOfElements
<1>4. m + 1 \in DOMAIN t
  <2>1. m + 1 \in 1 .. m + 1
    BY <1>3
  <2> QED BY <1>3, <2>1, SeqOfElements
<1>5. x \in DOMAIN E /\ E[x].fields = t /\ E[x].within = D[x].within
  BY <1>1 DEF Enlarged
<1>6. f.go \in {E[x].fields[i].go : i \in DOMAIN E[x].fields}
  BY <1>3, <1>4, <1>5
<1> QED BY <1>5, <1>6 DEF BoundIn

\* Only the last level grows.
LEMMA LevelsGrow ==
  ASSUME NEW Lv, NEW D, NEW rt, NEW k, NEW o, LevelsOK(Lv, D, rt, k, o), Heap(D),
         NEW E, \A x \in DOMAIN D : Keeps(D, E, x),
         \A x \in DOMAIN D : E[x] = D[x] \/ x = Last(Lv).object
  PROVE  LevelsOK(Lv, E, rt, k, o)
<1>1. PICK n : n = Len(Lv)
  OBVIOUS
<1>2. n \in Nat /\ DOMAIN Lv = 1 .. n /\ Last(Lv) = Lv[n]
  BY <1>1, InnermostIsLast DEF LevelsOK
<1>3. \A i \in DOMAIN Lv : Lv[i].object \in DOMAIN E
  BY DEF LevelsOK, Keeps
<1>4. ASSUME NEW i \in DOMAIN Lv, NEW j \in DOMAIN Lv, j = i + 1
      PROVE  Within(E, Lv[i], Lv[j], o)
  <2>1. Within(D, Lv[i], Lv[j], o)
    BY <1>4 DEF LevelsOK
  <2>2. i < n /\ n \in DOMAIN Lv
    BY <1>2, <1>4
  <2>3. Lv[i].object # Lv[n].object /\ Lv[i].object \in DOMAIN D /\ Lv[j].object \in DOMAIN D
    <3>1. PICK p, q : p = Lv[i].object /\ q = Lv[n].object
      OBVIOUS
    <3>2. p < q
      BY <2>2, <3>1 DEF LevelsOK
    <3>3. p \in DOMAIN D /\ q \in DOMAIN D
      BY <1>2, <2>2, <3>1 DEF LevelsOK
    <3>4. p # q
      <4>1. PICK m : m = Len(D)
        OBVIOUS
      <4>2. p \in 1 .. m /\ q \in 1 .. m
        BY <3>3, <4>1, HeapDomain
      <4> QED BY <3>2, <4>2
    <3>5. Lv[j].object \in DOMAIN D
      BY DEF LevelsOK
    <3> QED BY <3>1, <3>3, <3>4, <3>5
  <2>4. E[Lv[i].object] = D[Lv[i].object]
    BY <1>2, <2>3
  <2> QED BY <2>1, <2>3, <2>4 DEF Keeps, Within
<1> QED BY <1>3, <1>4 DEF LevelsOK
\* The levels Mv are Lv, the last of them further on.
SameLevels(Lv, Mv) ==
  /\ IsSeq(Mv) /\ Mv # <<>> /\ DOMAIN Mv = DOMAIN Lv /\ Last(Mv).object = Last(Lv).object
  /\ \A i \in DOMAIN Lv : Mv[i].object = Lv[i].object /\ Mv[i].in = Lv[i].in /\ Mv[i].f = Lv[i].f
  /\ \A i \in DOMAIN Lv : Mv[i].at \in Nat

LEMMA SameLevelsMake ==
  ASSUME NEW Lv, NEW Mv, SameLevels(Lv, Mv), NEW bs, NEW rt
  PROVE  Making(bs, Mv, rt) = Making(bs, Lv, rt)
<1>1. {Mv[i].object : i \in DOMAIN Mv} = {Lv[i].object : i \in DOMAIN Lv}
  BY DEF SameLevels
<1> QED BY <1>1 DEF Making

LEMMA LevelsOn ==
  ASSUME NEW Lv, NEW D, NEW rt, NEW k, NEW o, LevelsOK(Lv, D, rt, k, o),
         NEW Mv, SameLevels(Lv, Mv)
  PROVE  LevelsOK(Mv, D, rt, k, o)
<1>1. PICK n : n = Len(Lv)
  OBVIOUS
<1>2. n \in Nat \ {0} /\ DOMAIN Lv = 1 .. n
  BY <1>1, InnermostIsLast DEF LevelsOK
<1>3. 1 \in DOMAIN Lv
  BY <1>2
<1>4. Mv[1].object = rt
  BY <1>3 DEF LevelsOK, SameLevels
<1>5. \A i \in DOMAIN Mv : Mv[i].object \in DOMAIN D /\ Mv[i].in \in 1 .. k /\ Mv[i].at \in Nat
  BY DEF LevelsOK, SameLevels
<1>6. \A i, j \in DOMAIN Mv : i < j => Mv[i].object < Mv[j].object
  BY DEF LevelsOK, SameLevels
<1>7. ASSUME NEW i \in DOMAIN Mv, NEW j \in DOMAIN Mv, j = i + 1
      PROVE  Within(D, Mv[i], Mv[j], o)
  <2>1. Within(D, Lv[i], Lv[j], o)
    BY <1>7 DEF LevelsOK, SameLevels
  <2> QED BY <2>1 DEF SameLevels, Within
<1> QED BY <1>4, <1>5, <1>6, <1>7 DEF LevelsOK, SameLevels

\* GoOn
LEMMA OnTheSameLevel ==
  ASSUME NEW Lv, IsSeq(Lv), Lv # <<>>, \A i \in DOMAIN Lv : Lv[i].at \in Nat,
         NEW c, c = [object |-> Last(Lv).object, in |-> Last(Lv).in, f |-> Last(Lv).f,
                     at |-> Last(Lv).at + 1],
         NEW Mv, Mv = withTop(Lv, c)
  PROVE  SameLevels(Lv, Mv) /\ Last(Mv) = c
<1>1. PICK n, l : n = Len(Lv) /\ l = Last(Lv)
  OBVIOUS
<1>2. n \in Nat \ {0} /\ DOMAIN Lv = 1 .. n /\ l = Lv[n]
  BY <1>1, InnermostIsLast
<1>3. /\ IsSeq(Mv) /\ Len(Mv) = n /\ DOMAIN Mv = 1 .. n /\ Mv # <<>> /\ Mv[n] = c
      /\ \A i \in 1 .. n - 1 : Mv[i] = Lv[i]
  <2>1. PICK y : y = Append(Front(Lv), c)
    OBVIOUS
  <2>2. /\ IsSeq(y) /\ Len(y) = Len(Lv) /\ DOMAIN y = 1 .. Len(Lv) /\ y # <<>>
        /\ y[Len(Lv)] = c /\ \A i \in 1 .. Len(Lv) - 1 : y[i] = Lv[i]
    BY <2>1, LastReplaced
  <2> QED BY <1>1, <2>1, <2>2 DEF withTop
<1>4. \A i \in 1 .. n : i = n \/ i \in 1 .. n - 1
  BY <1>2
<1>5. Last(Mv) = c
  BY <1>3 DEF Last
<1>6. c.object = l.object /\ c.in = l.in /\ c.f = l.f /\ c.at \in Nat
  <2>1. n \in DOMAIN Lv
    BY <1>2
  <2>2. PICK p : p = l.at
    OBVIOUS
  <2>3. p + 1 \in Nat
    BY <1>2, <2>1, <2>2
  <2> QED BY <1>1, <2>2, <2>3
<1>7. \A i \in DOMAIN Lv : /\ Mv[i].object = Lv[i].object /\ Mv[i].in = Lv[i].in
                           /\ Mv[i].f = Lv[i].f /\ Mv[i].at \in Nat
  BY <1>2, <1>3, <1>4, <1>6
<1> QED BY <1>1, <1>2, <1>3, <1>5, <1>6, <1>7 DEF SameLevels

\* What the levels make is in the model, or made of it.
LEMMA LevelInModel ==
  ASSUME NEW Lv, NEW D, NEW rt, NEW k, NEW o, LevelsOK(Lv, D, rt, k, o), Heap(D),
         o < rt, o \in DOMAIN D
  PROVE  \A i \in DOMAIN Lv : /\ o # Lv[i].object
                              /\ Lv[i].object = rt \/ (D[Lv[i].object].within = o /\ rt < Lv[i].object)
<1>1. PICK n, m : n = Len(Lv) /\ m = Len(D)
  OBVIOUS
<1>2. /\ n \in Nat \ {0} /\ DOMAIN Lv = 1 .. n /\ 1 \in DOMAIN Lv
      /\ m \in Nat /\ DOMAIN D = 1 .. m /\ o \in 1 .. m
  <2>1. n \in Nat \ {0} /\ DOMAIN Lv = 1 .. n
    BY <1>1, InnermostIsLast DEF LevelsOK
  <2>2. 1 \in 1 .. n
    BY <2>1
  <2> QED BY <1>1, <2>1, <2>2, HeapDomain
<1>3. rt = Lv[1].object /\ rt \in DOMAIN D
  BY <1>2 DEF LevelsOK
<1> SUFFICES ASSUME NEW i \in DOMAIN Lv
             PROVE  /\ o # Lv[i].object
                    /\ Lv[i].object = rt \/ (D[Lv[i].object].within = o /\ rt < Lv[i].object)
  OBVIOUS
<1>4. PICK x : x = Lv[i].object
  OBVIOUS
<1>5. x \in 1 .. m /\ rt \in 1 .. m
  BY <1>2, <1>3, <1>4 DEF LevelsOK
<1>6. CASE i = 1
  BY <1>2, <1>3, <1>4, <1>5, <1>6
<1>7. CASE i # 1
  <2>1. 1 < i /\ i - 1 \in DOMAIN Lv /\ i = (i - 1) + 1
    BY <1>2, <1>7
  <2>2. D[x].within = o
    BY <1>4, <2>1 DEF LevelsOK, Within
  <2>3. rt < x
    BY <1>2, <1>3, <1>4, <2>1 DEF LevelsOK
  <2>4. o # x
    BY <1>2, <1>5, <2>3
  <2> QED BY <1>4, <2>2, <2>3, <2>4
<1> QED BY <1>6, <1>7

LEMMA OnALevel ==
  ASSUME DeriveInv, InLevels
  PROVE  /\ IsSeq(levels) /\ levels # <<>> /\ Len(levels) \in Nat \ {0}
         /\ DOMAIN levels = 1 .. Len(levels) /\ Len(levels) \in DOMAIN levels
         /\ current = levels[Len(levels)]
         /\ current.object \in DOMAIN objects /\ current.object \in Made
         /\ current.at \in Nat /\ current.in \in 1 .. Len(b.containers)
         /\ \A i \in DOMAIN levels : levels[i].at \in Nat
<1>1. LevelsOK(levels, objects, root, Len(b.containers), b.object)
  BY DEF DeriveInv, InLevels
<1>2. PICK Lv, n : Lv = levels /\ n = Len(Lv)
  OBVIOUS
<1>3. IsSeq(Lv) /\ Lv # <<>> /\ n \in Nat \ {0} /\ DOMAIN Lv = 1 .. n /\ Last(Lv) = Lv[n]
  BY <1>1, <1>2, InnermostIsLast DEF LevelsOK
<1>4. n \in DOMAIN Lv
  BY <1>3
<1>5. current = Lv[n]
  BY <1>2, <1>3 DEF current
<1>6. /\ \A i \in DOMAIN Lv : Lv[i].object \in DOMAIN objects
      /\ \A i \in DOMAIN Lv : Lv[i].in \in 1 .. Len(b.containers)
      /\ \A i \in DOMAIN Lv : Lv[i].at \in Nat
  BY <1>1, <1>2 DEF LevelsOK
<1>7. current.object \in Made
  BY <1>2, <1>4, <1>5 DEF Made, Making
<1> QED BY <1>2, <1>3, <1>4, <1>5, <1>6, <1>7

\* The registration that is next.
LEMMA NextRegistration ==
  ASSUME DeriveInv, MoreRegs, NEW clean, clean => reported = {}
  PROVE  RegOK(reg, Len(objects), Len(b.containers), Made, clean)
<1>1. current.at \in Nat /\ current.in \in 1 .. Len(b.containers) /\ current.at < Len(regs)
  BY OnALevel DEF MoreRegs
<1>2. BuilderOK(b, objects, Made, clean)
  BY Innermost DEF MoreRegs, InLevels
<1>3. PICK cs, n, k, Op, in, p :
        /\ cs = b.containers /\ n = Len(objects) /\ k = Len(cs) /\ Op = Made
        /\ in = current.in /\ p = current.at
  OBVIOUS
<1>4. Holds(cs, n, k, Op, clean)
  BY <1>2, <1>3 DEF BuilderOK
<1>5. PICK rs, m : rs = cs[in] /\ m = Len(rs)
  OBVIOUS
<1>6. IsSeq(rs) /\ \A i \in DOMAIN rs : RegOK(rs[i], n, k, Op, clean)
  <2>1. in \in DOMAIN cs
    BY <1>1, <1>3, <1>4, SeqOfElements DEF Holds
  <2> QED BY <1>4, <1>5, <2>1 DEF Holds
<1>7. p + 1 \in DOMAIN rs
  <2>1. m \in Nat /\ DOMAIN rs = 1 .. m /\ p \in Nat /\ p < m
    BY <1>1, <1>3, <1>5, <1>6, SeqOfElements DEF regs
  <2> QED BY <2>1
<1> QED BY <1>3, <1>5, <1>6, <1>7 DEF reg, regs
------------------------------------------------------------------------------
(* The steps of compile.                                                   *)

\* The builders cs are bs, the innermost one with diagnostics more.
Noting(bs, cs) ==
  /\ Onward(bs, cs, Last(cs))
  /\ Last(cs).object = Last(bs).object /\ Last(cs).go = Last(bs).go
  /\ Last(cs).containers = Last(bs).containers

LEMMA Complains ==
  ASSUME NEW P, NEW D, NEW bs, NEW R, NEW Op, Standing(P, D, bs, R, Op), bs # <<>>,
         NEW N, NEW x, x = noted(Last(bs), N), NEW cs, cs = Append(Front(bs), x)
  PROVE  Standing(P, D, cs, R \cup N, Op)
<1>1. PICK spotless, clean : spotless = (R \cup N = {}) /\ clean = (R = {})
  OBVIOUS
<1>2. Heap(D) /\ Work(bs, D, R, Op, clean)
  BY <1>1 DEF Standing, Sound
<1>3. PICK y : y = Last(bs)
  OBVIOUS
<1>4. BuilderOK(y, D, Op, spotless)
  <2>1. BuilderOK(y, D, Op, clean)
    BY <1>2, <1>3, BuildersInOrder
  <2>2. Grown(D, D)
    BY <1>2, SameHeap
  <2>3. spotless => clean
    BY <1>1
  <2>4. \A o \in Op : o \in Op \/ o \in Len(D) + 1 .. Len(D)
    OBVIOUS
  <2> QED BY <2>1, <2>2, <2>3, <2>4, BuilderOn
<1>5. BuilderOK(x, D, Op, spotless) /\ Further(x, y, N)
  BY <1>3, <1>4, NotedDown
<1>6. Further(x, Last(bs), N)
  BY <1>3, <1>5
<1> QED BY <1>1, <1>5, <1>6, BuilderGoes

LEMMA Notices ==
  ASSUME NEW bs, IsSeq(bs), bs # <<>>, Fit(Last(bs)), NEW N,
         NEW cs, cs = Append(Front(bs), noted(Last(bs), N))
  PROVE  Noting(bs, cs)
<1>1. PICK y, x : y = Last(bs) /\ x = [y EXCEPT !.diags = @ \cup N]
  OBVIOUS
<1>2. Fit(x) /\ Key(x) = Key(y) /\ x.object = y.object /\ x.diags = y.diags \cup N /\ x.go = y.go
      /\ x.containers = y.containers /\ x.caller = y.caller
  BY <1>1 DEF Fit, Key
<1>3. noted(y, N) = x
  BY <1>1 DEF noted
<1>4. Further(x, Last(bs), N)
  BY <1>1, <1>2 DEF Further
<1>5. cs = Append(Front(bs), x)
  BY <1>1, <1>3
<1>6. Onward(bs, cs, x)
  BY <1>4, <1>5, GoneOn
<1>7. Last(cs) = x
  BY <1>6 DEF Onward
<1> QED BY <1>1, <1>2, <1>6, <1>7 DEF Noting

LEMMA NothingNoted ==
  ASSUME NEW bs, bs # <<>>
  PROVE  Noting(bs, bs)
BY DEF Noting, Onward

LEMMA ComplaintStands ==
  ASSUME DeriveInv, Working, NEW N, Complain(N)
  PROVE  /\ Standing(published, objects, builders', reported \cup N, Made)
         /\ Noting(builders, builders') /\ reported' = reported \cup N
<1>1. PICK P, D, bs, R, Op : P = published /\ D = objects /\ bs = builders /\ R = reported /\ Op = Made
  OBVIOUS
<1>2. PICK x, cs : x = noted(Last(bs), N) /\ cs = Append(Front(bs), x)
  OBVIOUS
<1>3. Standing(P, D, bs, R, Op) /\ bs # <<>>
  BY <1>1 DEF DeriveInv, Working, Made
<1>4. Standing(P, D, cs, R \cup N, Op)
  BY <1>2, <1>3, Complains
<1>5. Noting(bs, cs)
  <2>1. IsSeq(bs)
    BY <1>3 DEF Standing, Work
  <2>2. Fit(Last(bs))
    BY <1>1, Innermost DEF BuilderOK, b
  <2> QED BY <1>2, <1>3, <2>1, <2>2, Notices
<1>6. builders' = cs /\ reported' = R \cup N
  BY <1>1, <1>2 DEF Complain, Become, Report, b
<1> QED BY <1>1, <1>4, <1>5, <1>6

LEMMA LevelGoesOn ==
  ASSUME DeriveInv, InLevels, NEW Lv, Lv = levels, NEW Mv, Mv = withTop(Lv, onward)
  PROVE  SameLevels(Lv, Mv)
<1>1. PICK c : c = onward
  OBVIOUS
<1>2. IsSeq(Lv) /\ Lv # <<>> /\ \A i \in DOMAIN Lv : Lv[i].at \in Nat
  BY OnALevel
<1>3. c = [object |-> Last(Lv).object, in |-> Last(Lv).in, f |-> Last(Lv).f,
           at |-> Last(Lv).at + 1]
  BY <1>1 DEF onward, current
<1>4. Mv = withTop(Lv, c)
  BY <1>1
<1> QED BY <1>2, <1>3, <1>4, OnTheSameLevel

\* A registration that adds nothing to the model.
LEMMA GoesPast ==
  ASSUME DeriveInv, MoreRegs, NEW cs, NEW N,
         Standing(published, objects, cs, reported \cup N, Made), Noting(builders, cs),
         builders' = cs, reported' = reported \cup N, GoOn,
         UNCHANGED <<objects, published, root, phase, targets>>,
         ignored \cup trees \subseteq ignored' \cup trees',
         reported' = {} => handled' \subseteq handled \cup ignored' \cup trees'
  PROVE  DeriveInv'
<1>1. PICK Lv, Mv : Lv = levels /\ Mv = withTop(Lv, onward)
  OBVIOUS
<1>2. levels' = Mv
  BY <1>1 DEF GoOn
<1>3. SameLevels(Lv, Mv)
  BY <1>1, LevelGoesOn DEF MoreRegs
<1>4. PICK D, bs, R, rt, k, o, H, A :
        /\ D = objects /\ bs = builders /\ R = reported /\ rt = root /\ k = Len(b.containers)
        /\ o = b.object /\ H = handled /\ A = ignored \cup trees
  OBVIOUS
<1>5. /\ ModelOK(D, bs, R, rt, H, A) /\ LevelsOK(Lv, D, rt, k, o)
  BY <1>1, <1>4 DEF DeriveInv, MoreRegs, InLevels
<1>6. LevelsOK(Mv, D, rt, k, o)
  BY <1>3, <1>5, LevelsOn
<1>7. Making(cs, Mv, rt) = Made
  <2>1. PICK x : Onward(bs, cs, x)
    BY <1>4 DEF Noting
  <2>2. Making(cs, Mv, rt) = Making(bs, Mv, rt)
    BY <2>1, OnwardMakes
  <2>3. Making(bs, Mv, rt) = Making(bs, Lv, rt)
    BY <1>3, SameLevelsMake
  <2> QED BY <1>1, <1>4, <2>2, <2>3 DEF Made
<1>8. PICK Q, I, B : Q = R \cup N /\ I = handled' /\ B = ignored' \cup trees'
  OBVIOUS
<1>9. ModelOK(D, cs, Q, rt, I, B)
  <2>1. /\ \A x \in DOMAIN D : Keeps(D, D, x)
        /\ cs # <<>> /\ Last(cs).object = Last(bs).object /\ R \subseteq Q /\ A \subseteq B
        /\ Q = {} => I \subseteq H \cup B \cup BoundIn(D, Last(bs).object, rt)
    BY <1>4, <1>8, NothingLost DEF Noting, Onward
  <2> QED BY <1>5, <2>1, ModelGrows
<1>10. b' = Last(cs) /\ Last(cs).object = o /\ Last(cs).containers = b.containers
  BY <1>4 DEF b, Noting
<1>11. Standing(published, objects, builders, reported, Making(builders, levels, root))'
  BY <1>2, <1>4, <1>7
<1>12. LevelsOK(levels, objects, root, Len(b.containers), b.object)'
  BY <1>2, <1>4, <1>6, <1>10
<1>13. ModelOK(objects, builders, reported, root, handled, ignored \cup trees)'
  BY <1>4, <1>8, <1>9
<1>14. phase' = "compiling" /\ TargetsOK(targets, Len(objects))'
  BY DEF DeriveInv, MoreRegs, InLevels
<1> QED BY <1>11, <1>12, <1>13, <1>14 DEF DeriveInv

LEMMA PastKeeps ==
  ASSUME DeriveInv, CompileAgain \/ CompileTaken \/ CompileIgnored
  PROVE  DeriveInv'
<1>1. PICK cs : cs = builders'
  OBVIOUS
<1>2. CASE CompileAgain \/ CompileTaken
  <2>1. PICK N : N # {} /\ Complain(N)
    BY <1>2 DEF CompileAgain, CompileTaken
  <2>2. MoreRegs /\ Working /\ GoOn /\ UNCHANGED <<objects, published, root, phase, targets, ignored, trees>>
    BY <1>2 DEF CompileAgain, CompileTaken, MoreRegs, InLevels
  <2>3. /\ Standing(published, objects, cs, reported \cup N, Made)
        /\ Noting(builders, cs) /\ reported' = reported \cup N
    BY <1>1, <2>1, <2>2, ComplaintStands
  <2>4. reported' # {}
    BY <2>1, <2>3
  <2> QED BY <1>1, <2>2, <2>3, <2>4, GoesPast
<1>3. CASE CompileIgnored
  <2>1. PICK N : N = {}
    OBVIOUS
  <2>2. /\ MoreRegs /\ Working /\ GoOn /\ UNCHANGED <<objects, published, root, phase, targets>>
        /\ builders' = builders /\ reported' = reported \cup N
        /\ ignored \cup trees \subseteq ignored' \cup trees'
        /\ handled' \subseteq handled \cup ignored' \cup trees'
    BY <1>3, <2>1 DEF CompileIgnored, MoreRegs, InLevels
  <2>3. Noting(builders, cs)
    BY <1>1, <2>2, NothingNoted DEF Working
  <2>4. Standing(published, objects, cs, reported \cup N, Made)
    <3>1. reported \cup N = reported
      BY <2>1
    <3> QED BY <1>1, <2>2, <3>1 DEF DeriveInv, Made
  <2> QED BY <1>1, <2>2, <2>3, <2>4, GoesPast
<1> QED BY <1>2, <1>3
LEMMA MoreLevelsMake ==
  ASSUME NEW Lv, NEW Mv, NEW z, OneMore(Lv, Mv, z), NEW bs, NEW rt
  PROVE  Making(bs, Mv, rt) = Making(bs, Lv, rt) \cup {z}
BY DEF OneMore, Making

\* A level is opened within the last.
LEMMA LevelOpened ==
  ASSUME NEW Lv, NEW D, NEW rt, NEW k, NEW o, LevelsOK(Lv, D, rt, k, o),
         NEW E, NEW z, NEW x, Fresh(D, E, z, x), x.within = o,
         NEW c, c.object = z, c.in \in 1 .. k, c.at \in Nat, Shape(c.f),
         fieldNamed(D[Last(Lv).object], c.f.name) = {},
         NEW Mv, Mv = Append(Lv, c)
  PROVE  LevelsOK(Mv, E, rt, k, o)
<1>1. PICK n : n = Len(Lv)
  OBVIOUS
<1>2. IsSeq(Lv) /\ n \in Nat \ {0} /\ DOMAIN Lv = 1 .. n /\ Last(Lv) = Lv[n]
  BY <1>1, InnermostIsLast DEF LevelsOK
<1>3. IsSeq(Mv) /\ Len(Mv) = n + 1 /\ Mv[n + 1] = c /\ \A i \in 1 .. n : Mv[i] = Lv[i]
  <2>1. PICK y : y = Append(Lv, c)
    OBVIOUS
  <2>2. /\ IsSeq(y) /\ Len(y) = Len(Lv) + 1 /\ y[Len(Lv) + 1] = c
        /\ \A i \in 1 .. Len(Lv) : y[i] = Lv[i]
    BY <1>2, <2>1, AppendToSeq
  <2> QED BY <1>1, <2>1, <2>2
<1>4. DOMAIN Mv = 1 .. n + 1
  BY <1>3, SeqOfElements
<1>5. /\ \A i \in 1 .. n + 1 : i = n + 1 \/ i \in 1 .. n
      /\ 1 \in 1 .. n /\ n + 1 \in 1 .. n + 1 /\ \A i \in 1 .. n : i \in 1 .. n + 1 /\ ~(n + 1 < i)
      /\ \A i \in 1 .. n : n + 1 = i + 1 => i = n
  BY <1>2
<1>6. Mv # <<>>
  <2>1. n + 1 \in DOMAIN Mv
    BY <1>4, <1>5
  <2> QED BY <2>1
<1>7. /\ \A y \in DOMAIN D : E[y] = D[y] /\ y < z /\ y \in DOMAIN E
      /\ E[z] = x /\ z \in DOMAIN E
  <2>1. \A y \in DOMAIN D : Keeps(D, E, y) /\ y < z
    BY FreshKeeps
  <2>2. z \in 1 .. z
    <3>1. PICK m, d : m = Len(E) /\ d = Len(D)
      OBVIOUS
    <3>2. m = z /\ m \in Nat /\ d \in Nat /\ d <= m /\ DOMAIN D = 1 .. d /\ z \notin 1 .. d
      BY <3>1 DEF Fresh, Grown
    <3>3. Lv[1].object \in DOMAIN D
      BY <1>2, <1>5 DEF LevelsOK
    <3>4. PICK p : p = Lv[1].object
      OBVIOUS
    <3>5. p \in 1 .. d
      BY <3>2, <3>3, <3>4
    <3> QED BY <3>2, <3>5
  <2> QED BY <2>1, <2>2 DEF Fresh, Grown, Keeps
<1>8. \A i \in 1 .. n + 1 : Mv[i].object \in DOMAIN E /\ Mv[i].in \in 1 .. k /\ Mv[i].at \in Nat
  BY <1>2, <1>3, <1>5, <1>7 DEF LevelsOK
<1>9. \A i \in 1 .. n : Lv[i].object \in DOMAIN D
  BY <1>2 DEF LevelsOK
<1>10. ASSUME NEW i \in 1 .. n + 1, NEW j \in 1 .. n + 1
       PROVE  (i < j => Mv[i].object < Mv[j].object) /\ (j = i + 1 => Within(E, Mv[i], Mv[j], o))
  <2>1. CASE i \in 1 .. n /\ j \in 1 .. n
    <3>1. Mv[i] = Lv[i] /\ Mv[j] = Lv[j]
      BY <1>3, <2>1
    <3>2. i < j => Lv[i].object < Lv[j].object
      BY <1>2, <2>1 DEF LevelsOK
    <3>3. j = i + 1 => Within(D, Lv[i], Lv[j], o)
      BY <1>2, <2>1 DEF LevelsOK
    <3>4. j = i + 1 => Within(E, Lv[i], Lv[j], o)
      BY <1>7, <1>9, <2>1, <3>3 DEF Within
    <3> QED BY <3>1, <3>2, <3>4
  <2>2. CASE i \in 1 .. n /\ j = n + 1
    <3>1. Mv[i].object < Mv[j].object
      BY <1>2, <1>3, <1>7, <1>9, <2>2
    <3>2. CASE j = i + 1
      <4>1. i = n /\ Mv[i] = Lv[n] /\ Lv[n].object \in DOMAIN D /\ Mv[j] = c
        BY <1>3, <1>5, <1>9, <2>2, <3>2
      <4> QED BY <1>2, <1>7, <3>1, <4>1 DEF Within
    <3> QED BY <3>1, <3>2
  <2>3. CASE i = n + 1 /\ j \in 1 .. n
    BY <1>2, <1>5, <2>3
  <2>4. CASE i = n + 1 /\ j = n + 1
    BY <1>2, <2>4
  <2> QED BY <1>5, <2>1, <2>2, <2>3, <2>4
<1>11. Mv[1].object = rt
  BY <1>3, <1>5 DEF LevelsOK
<1>12. /\ \A i, j \in DOMAIN Mv : i < j => Mv[i].object < Mv[j].object
       /\ \A i, j \in DOMAIN Mv : j = i + 1 => Within(E, Mv[i], Mv[j], o)
  BY <1>4, <1>10
<1> QED BY <1>3, <1>4, <1>6, <1>8, <1>11, <1>12 DEF LevelsOK

\* The levels but for the last.
LEMMA LevelClosed ==
  ASSUME NEW Lv, NEW D, NEW rt, NEW k, NEW o, LevelsOK(Lv, D, rt, k, o), Len(Lv) > 1,
         NEW Mv, Mv = Front(Lv)
  PROVE  /\ LevelsOK(Mv, D, rt, k, o)
         /\ Last(Mv).object = Lv[Len(Lv) - 1].object /\ OneMore(Mv, Lv, Last(Lv).object)
<1>1. PICK n, l : n = Len(Lv) - 1 /\ l = Last(Lv)
  OBVIOUS
<1>2. /\ IsSeq(Lv) /\ n \in Nat \ {0} /\ DOMAIN Lv = 1 .. n + 1 /\ l = Lv[n + 1]
      /\ Len(Lv) = n + 1
  <2>1. Len(Lv) \in Nat
    BY SeqOfElements DEF LevelsOK
  <2> QED BY <1>1, <2>1, InnermostIsLast DEF LevelsOK
<1>3. IsSeq(Mv) /\ DOMAIN Mv = 1 .. n /\ Len(Mv) = n /\ \A i \in 1 .. n : Mv[i] = Lv[i]
  <2>1. (n + 1) - 1 = n
    BY <1>2
  <2>2. Lv # <<>>
    BY DEF LevelsOK
  <2> QED BY <1>2, <2>1, <2>2, FrontOfSeq
<1>4. \A i \in 1 .. n : i \in 1 .. n + 1
  BY <1>2
<1>5. 1 \in 1 .. n /\ n \in 1 .. n /\ n + 1 \in 1 .. n + 1 /\ \A i \in 1 .. n + 1 : i = n + 1 \/ i \in 1 .. n
  BY <1>2
<1>6. Mv # <<>>
  BY <1>3, <1>5
<1>7. \A i \in 1 .. n : Mv[i].object \in DOMAIN D /\ Mv[i].in \in 1 .. k /\ Mv[i].at \in Nat
  BY <1>2, <1>3, <1>4 DEF LevelsOK
<1>8. ASSUME NEW i \in 1 .. n, NEW j \in 1 .. n
      PROVE  (i < j => Mv[i].object < Mv[j].object) /\ (j = i + 1 => Within(D, Mv[i], Mv[j], o))
  <2>1. i \in DOMAIN Lv /\ j \in DOMAIN Lv /\ Mv[i] = Lv[i] /\ Mv[j] = Lv[j]
    BY <1>2, <1>3, <1>4
  <2> QED BY <2>1 DEF LevelsOK
<1>9. LevelsOK(Mv, D, rt, k, o)
  <2>1. Mv[1].object = rt
    BY <1>3, <1>5 DEF LevelsOK
  <2> QED BY <1>3, <1>6, <1>7, <1>8, <2>1 DEF LevelsOK
<1>10. Last(Mv) = Lv[n] /\ Len(Lv) - 1 = n
  BY <1>1, <1>3, <1>5 DEF Last
<1>11. ASSUME NEW y
       PROVE  y \in {Lv[i].object : i \in DOMAIN Lv} <=> y \in {Mv[i].object : i \in DOMAIN Mv} \cup {l.object}
  BY <1>2, <1>3, <1>4, <1>5
<1> QED BY <1>1, <1>9, <1>10, <1>11 DEF OneMore

LEMMA TargetsGrow ==
  ASSUME NEW T, NEW n \in Nat, NEW m \in Nat, n <= m, TargetsOK(T, n)
  PROVE  TargetsOK(T, m)
<1>1. ASSUME NEW f, Refers(f, n) PROVE Refers(f, m)
  <2>1. PICK o : o = f.object
    OBVIOUS
  <2>2. o \in 0 .. m
    BY <1>1, <2>1 DEF Refers
  <2> QED BY <1>1, <2>1, <2>2 DEF Refers
<1> QED BY <1>1 DEF TargetsOK

LEMMA TargetMore ==
  ASSUME NEW T, NEW n, TargetsOK(T, n), NEW t, Refers(t.f, n), t.ref # <<>>
  PROVE  TargetsOK(Append(T, t), n)
<1>1. PICK m, U : m = Len(T) /\ U = Append(T, t)
  OBVIOUS
<1>2. IsSeq(T) /\ m \in Nat /\ DOMAIN T = 1 .. m
  BY <1>1, SeqOfElements DEF TargetsOK
<1>3. IsSeq(U) /\ Len(U) = m + 1 /\ U[m + 1] = t /\ \A i \in 1 .. m : U[i] = T[i]
  BY <1>1, <1>2, AppendToSeq
<1>4. DOMAIN U = 1 .. m + 1 /\ \A i \in 1 .. m + 1 : i = m + 1 \/ i \in 1 .. m
  BY <1>2, <1>3, SeqOfElements
<1> QED BY <1>1, <1>2, <1>3, <1>4 DEF TargetsOK
LEMMA StartsCompiling ==
  ASSUME DeriveInv, StartCompile
  PROVE  DeriveInv'
<1>1. PICK P, D, bs, R, Op, z, g, none :
        /\ P = published /\ D = objects /\ bs = builders /\ R = reported /\ Op = Made
        /\ z = Len(D) + 1 /\ g = b.go /\ none = NoObject
  OBVIOUS
<1>2. PICK E, Q, e, k, o :
        /\ e = emptyObject(g, none) /\ E = Append(D, e) /\ Q = Op \cup {z}
        /\ k = Len(b.containers) /\ o = b.object
  OBVIOUS
<1>3. PICK l, Mv : l = level(z, 1, <<>>) /\ Mv = <<l>>
  OBVIOUS
<1>4. /\ Standing(P, D, bs, R, Op) /\ bs # <<>> /\ NoModel /\ Describing
      /\ objects' = E /\ phase' = "compiling" /\ root' = z /\ levels' = Mv
      /\ UNCHANGED <<builders, published, reported, handled, ignored, trees, targets>>
  BY <1>1, <1>2, <1>3 DEF StartCompile, Describing, Working, DeriveInv, Made
<1>5. Standing(P, E, bs, R, Q) /\ Fresh(D, E, z, e)
  BY <1>1, <1>2, <1>4, HeapOpens
<1>6. /\ z \in Nat \ {0} /\ z \in DOMAIN E /\ E[z].within = none /\ o \in DOMAIN D /\ o < z
      /\ Len(E) = z
  <2>1. PICK n : n = Len(D)
    OBVIOUS
  <2>2. n \in Nat /\ Len(E) = z /\ DOMAIN E = 1 .. z /\ E[z] = e
    BY <1>5, <2>1 DEF Fresh, Grown
  <2>3. z = n + 1 /\ z \in 1 .. z
    BY <1>1, <2>1, <2>2
  <2>4. o \in DOMAIN D
    BY <1>1, <1>2, <1>4, Innermost DEF Describing
  <2>5. o < z
    BY <1>5, <2>4, FreshKeeps
  <2> QED BY <1>2, <2>1, <2>2, <2>3, <2>4, <2>5 DEF emptyObject
<1>7. Making(bs, Mv, z) = Q
  <2>1. Op = {bs[i].object : i \in DOMAIN bs}
    BY <1>1, <1>4 DEF Made, Making, NoModel, NoObject
  <2>2. {Mv[i].object : i \in DOMAIN Mv} = {z}
    BY <1>3 DEF level
  <2> QED BY <1>2, <1>6, <2>1, <2>2 DEF Making, NoObject
<1>8. ModelOK(E, bs, R, z, handled, ignored \cup trees)
  <2>1. handled = {}
    BY <1>4 DEF NoModel
  <2>2. Last(bs).object < z
    BY <1>1, <1>2, <1>6 DEF b
  <2> QED BY <1>1, <1>4, <1>6, <2>1, <2>2 DEF ModelOK
<1>9. LevelsOK(Mv, E, z, k, o)
  <2>1. 1 \in 1 .. k
    <3>1. PICK clean : clean = (reported = {})
      OBVIOUS
    <3>2. Describes(b.stack, k)
      BY <1>2, <1>4, <3>1, Innermost DEF Describing, BuilderOK
    <3>3. PICK i \in DOMAIN b.stack : b.stack[i].in \in 1 .. k
      BY <3>2, InnermostIsLast DEF Describes
    <3>4. PICK p : p = b.stack[i].in
      OBVIOUS
    <3>5. k \in Nat
      BY <1>2, <1>4, <3>1, Innermost, SeqOfElements DEF Describing, BuilderOK, Holds
    <3> QED BY <3>3, <3>4, <3>5
  <2>2. IsSeq(Mv) /\ Mv # <<>> /\ DOMAIN Mv = {1} /\ Mv[1] = l
    BY <1>3 DEF IsSeq
  <2>3. l.object = z /\ l.in = 1 /\ l.at = 0
    BY <1>3 DEF level
  <2> QED BY <1>6, <2>1, <2>2, <2>3 DEF LevelsOK
<1>10. TargetsOK(targets, Len(objects))'
  <2>1. targets = <<>> /\ targets' = targets
    BY <1>4 DEF NoModel
  <2> QED BY <2>1 DEF TargetsOK, IsSeq
<1>11. Standing(published, objects, builders, reported, Making(builders, levels, root))'
  BY <1>1, <1>4, <1>5, <1>7
<1>12. LevelsOK(levels, objects, root, Len(b.containers), b.object)'
  BY <1>1, <1>2, <1>4, <1>9 DEF b
<1>13. ModelOK(objects, builders, reported, root, handled, ignored \cup trees)'
  BY <1>1, <1>4, <1>8
<1> QED BY <1>4, <1>10, <1>11, <1>12, <1>13 DEF DeriveInv

LEMMA FieldKeeps ==
  ASSUME DeriveInv, CompileField
  PROVE  DeriveInv'
<1>1. PICK P, D, bs, R, Op, N : /\ P = published /\ D = objects /\ bs = builders /\ R = reported
                                /\ Op = Made /\ N = validateField(objects, reg.f)
  OBVIOUS
<1>2. PICK o, f, E, x, cs :
        /\ o = current.object /\ f = reg.f /\ E = appended(D, o, f)
        /\ x = noted(Last(bs), N) /\ cs = Append(Front(bs), x)
  OBVIOUS
<1>3. /\ MoreRegs /\ InLevels /\ Working /\ fieldNamed(D[o], f.name) = {} /\ objects' = E
      /\ builders' = cs /\ reported' = R \cup N /\ GoOn
      /\ handled' = handled \cup {f.go} /\ UNCHANGED <<published, phase, root, ignored, trees>>
  BY <1>1, <1>2 DEF CompileField, MoreRegs, InLevels, Complain, Become, Report, b, taken
<1>4. PICK clean : clean = (R = {})
  OBVIOUS
<1>5. Standing(P, D, bs, R, Op) /\ bs # <<>> /\ o \in DOMAIN D /\ o \in Op
  BY <1>1, <1>2, <1>3, OnALevel DEF DeriveInv, Working, Made
<1>6. Refers(f, Len(D)) /\ (R = {} /\ Held(f) => f.object \notin Op)
  <2>1. RegOK(reg, Len(objects), Len(b.containers), Made, clean)
    BY <1>1, <1>3, <1>4, NextRegistration
  <2> QED BY <1>1, <1>2, <1>4, <2>1 DEF RegOK
<1>7. o \notin Settled(P, bs, Len(D), Op)
  BY <1>5, MakingNotMade
<1>8. Standing(P, E, bs, R, Op) /\ Enlarged(D, E, o, f)
  <2>1. Held(f) => o \notin Settled(P, bs, Len(D), Op) \/ (o # f.object /\ always(D, f.object) = {})
    BY <1>7
  <2> QED BY <1>2, <1>3, <1>5, <1>6, <2>1, HeapField
<1>9. Standing(P, E, cs, R \cup N, Op)
  BY <1>2, <1>5, <1>8, Complains
<1>10. Noting(bs, cs)
  <2>1. IsSeq(bs)
    BY <1>5 DEF Standing, Work
  <2>2. Fit(Last(bs))
    BY <1>1, <1>3, Innermost DEF BuilderOK, b
  <2> QED BY <1>2, <1>5, <2>1, <2>2, Notices
<1>11. PICK Lv, Mv : Lv = levels /\ Mv = withTop(Lv, onward)
  OBVIOUS
<1>12. levels' = Mv
  BY <1>3, <1>11 DEF GoOn
<1>13. SameLevels(Lv, Mv)
  BY <1>3, <1>11, LevelGoesOn
<1>14. PICK rt, k, h, H, A : /\ rt = root /\ k = Len(b.containers) /\ h = b.object
                             /\ H = handled /\ A = ignored \cup trees
  OBVIOUS
<1>15. ModelOK(D, bs, R, rt, H, A) /\ LevelsOK(Lv, D, rt, k, h)
  BY <1>1, <1>3, <1>11, <1>14 DEF DeriveInv, InLevels
<1>16. Heap(D) /\ \A y \in DOMAIN D : Keeps(D, E, y)
  BY <1>5, <1>8 DEF Enlarged, Standing, Sound
<1>17. LevelsOK(Mv, E, rt, k, h)
  <2>1. LevelsOK(Mv, D, rt, k, h) /\ Last(Mv).object = o
    BY <1>2, <1>11, <1>13, <1>15, LevelsOn DEF SameLevels, current
  <2>2. \A y \in DOMAIN D : E[y] = D[y] \/ y = Last(Mv).object
    BY <1>8, <2>1 DEF Enlarged
  <2> QED BY <1>16, <2>1, <2>2, LevelsGrow
<1>18. f.go \in BoundIn(E, h, rt)
  <2>1. h \in DOMAIN D /\ h < rt
    BY <1>1, <1>3, <1>14, <1>15, Innermost DEF ModelOK, b
  <2>2. \A i \in DOMAIN Lv : /\ h # Lv[i].object
                             /\ Lv[i].object = rt \/ (D[Lv[i].object].within = h /\ rt < Lv[i].object)
    BY <1>15, <1>16, <2>1, LevelInModel
  <2>3. o = rt \/ (D[o].within = h /\ o # h)
    <3>1. PICK i \in DOMAIN Lv : o = Lv[i].object
      BY <1>2, <1>3, <1>11, OnALevel
    <3> QED BY <2>2, <3>1
  <2> QED BY <1>5, <1>8, <1>16, <2>3, BoundMore
<1>19. PICK Q, I : Q = R \cup N /\ I = handled'
  OBVIOUS
<1>20. ModelOK(E, cs, Q, rt, I, A)
  <2>1. cs # <<>> /\ Last(cs).object = Last(bs).object /\ R \subseteq Q
    BY <1>10, <1>19 DEF Noting, Onward
  <2>2. Q = {} => I \subseteq H \cup A \cup BoundIn(E, Last(bs).object, rt)
    BY <1>1, <1>3, <1>14, <1>18, <1>19 DEF b
  <2> QED BY <1>15, <1>16, <2>1, <2>2, ModelGrows
<1>21. Making(cs, Mv, rt) = Op
  <2>1. Onward(bs, cs, Last(cs))
    BY <1>10 DEF Noting
  <2>2. Making(cs, Mv, rt) = Making(bs, Mv, rt)
    BY <2>1, OnwardMakes
  <2>3. Making(bs, Mv, rt) = Making(bs, Lv, rt)
    BY <1>13, SameLevelsMake
  <2> QED BY <1>1, <1>11, <1>14, <2>2, <2>3 DEF Made
<1>22. TargetsOK(targets, Len(objects))'
  <2>1. PICK T, n : T = targets /\ n = Len(D)
    OBVIOUS
  <2>2. TargetsOK(T, n) /\ Len(E) = n
    BY <1>1, <1>8, <2>1 DEF DeriveInv, Enlarged
  <2>3. PICK t : t = [f |-> f, ref |-> <<model(o), Len(objects[o].fields) + 1>>, former |-> f.former]
    OBVIOUS
  <2>4. Refers(t.f, n) /\ t.ref # <<>>
    BY <1>6, <2>1, <2>3
  <2>5. TargetsOK(Append(T, t), n)
    BY <2>2, <2>4, TargetMore
  <2>6. targets' = T \/ targets' = Append(T, t)
    BY <1>2, <2>1, <2>3 DEF CompileField
  <2> QED BY <1>3, <2>2, <2>5, <2>6
<1>23. b' = Last(cs) /\ Last(cs).object = h /\ Last(cs).containers = b.containers
  BY <1>1, <1>3, <1>10, <1>14 DEF b, Noting
<1>24. Standing(published, objects, builders, reported, Making(builders, levels, root))'
  BY <1>1, <1>3, <1>9, <1>12, <1>14, <1>21
<1>25. LevelsOK(levels, objects, root, Len(b.containers), b.object)'
  BY <1>3, <1>12, <1>14, <1>17, <1>23
<1>26. ModelOK(objects, builders, reported, root, handled, ignored \cup trees)'
  BY <1>3, <1>14, <1>19, <1>20
<1>27. phase' = "compiling"
  BY <1>3 DEF InLevels
<1> QED BY <1>22, <1>24, <1>25, <1>26, <1>27 DEF DeriveInv
LEMMA GroupCompiles ==
  ASSUME DeriveInv, CompileGroup
  PROVE  DeriveInv'
<1>1. PICK P, D, bs, R, Op, g, h : /\ P = published /\ D = objects /\ bs = builders /\ R = reported
                                   /\ Op = Made /\ g = b.go /\ h = b.object
  OBVIOUS
<1>2. PICK o, f, z, e, E, Q : /\ o = current.object /\ f = reg.f /\ z = Len(D) + 1
                              /\ e = emptyObject(g, h) /\ E = Append(D, e) /\ Q = Op \cup {z}
  OBVIOUS
<1>3. PICK Lv, Mv, c, Nv : /\ Lv = levels /\ Mv = withTop(Lv, onward)
                           /\ c = level(z, reg.group, f) /\ Nv = Append(Mv, c)
  OBVIOUS
<1>4. PICK rt, k, H, A : rt = root /\ k = Len(b.containers) /\ H = handled /\ A = ignored \cup trees
  OBVIOUS
<1>5. /\ MoreRegs /\ InLevels /\ Working /\ reg.op = "group" /\ fieldNamed(D[o], f.name) = {}
      /\ objects' = E /\ levels' = Nv
      /\ UNCHANGED <<builders, published, reported, phase, root, handled, ignored, trees, targets>>
  BY <1>1, <1>2, <1>3 DEF CompileGroup, MoreRegs, InLevels, taken
<1>6. /\ Standing(P, D, bs, R, Op) /\ bs # <<>> /\ ModelOK(D, bs, R, rt, H, A)
      /\ LevelsOK(Lv, D, rt, k, h) /\ TargetsOK(targets, Len(D))
  BY <1>1, <1>3, <1>4, <1>5 DEF DeriveInv, Working, InLevels, Made
<1>7. Standing(P, E, bs, R, Q) /\ Fresh(D, E, z, e)
  BY <1>2, <1>6, HeapOpens
<1>8. SameLevels(Lv, Mv)
  BY <1>3, <1>5, LevelGoesOn
<1>9. LevelsOK(Mv, D, rt, k, h) /\ Last(Mv).object = o
  BY <1>2, <1>3, <1>6, <1>8, LevelsOn DEF SameLevels, current
<1>10. e.within = h
  BY <1>2 DEF emptyObject
<1>11. c.object = z /\ c.in \in 1 .. k /\ c.at \in Nat /\ Shape(c.f) /\ c.f = f
  <2>1. PICK clean : clean = (reported = {})
    OBVIOUS
  <2>2. RegOK(reg, Len(objects), k, Made, clean)
    BY <1>4, <1>5, <2>1, NextRegistration
  <2> QED BY <1>2, <1>3, <1>5, <2>2 DEF RegOK, Refers, level
<1>12. LevelsOK(Nv, E, rt, k, h)
  BY <1>3, <1>5, <1>7, <1>9, <1>10, <1>11, LevelOpened
<1>13. Making(bs, Nv, rt) = Q
  <2>1. OneMore(Mv, Nv, z)
    <3>1. IsSeq(Mv)
      BY <1>8 DEF SameLevels
    <3> QED BY <1>3, <1>11, <3>1, OneIsMore
  <2>2. Making(bs, Nv, rt) = Making(bs, Mv, rt) \cup {z}
    BY <2>1, MoreLevelsMake
  <2>3. Making(bs, Mv, rt) = Making(bs, Lv, rt)
    BY <1>8, SameLevelsMake
  <2> QED BY <1>1, <1>2, <1>3, <1>4, <2>2, <2>3 DEF Made
<1>14. ModelOK(E, bs, R, rt, H, A)
  <2>1. \A y \in DOMAIN D : Keeps(D, E, y)
    BY <1>7, FreshKeeps
  <2> QED BY <1>6, <2>1, ModelGrows
<1>15. TargetsOK(targets, Len(objects))'
  <2>1. PICK T, n, m : T = targets /\ n = Len(D) /\ m = Len(E)
    OBVIOUS
  <2>2. n \in Nat /\ m \in Nat /\ n <= m /\ TargetsOK(T, n)
    BY <1>6, <1>7, <2>1 DEF Fresh, Grown
  <2>3. TargetsOK(T, m)
    BY <2>2, TargetsGrow
  <2> QED BY <1>5, <2>1, <2>3
<1>16. Standing(published, objects, builders, reported, Making(builders, levels, root))'
  BY <1>1, <1>4, <1>5, <1>7, <1>13
<1>17. LevelsOK(levels, objects, root, Len(b.containers), b.object)'
  BY <1>1, <1>4, <1>5, <1>12 DEF b
<1>18. ModelOK(objects, builders, reported, root, handled, ignored \cup trees)'
  BY <1>1, <1>4, <1>5, <1>14
<1>19. phase' = "compiling"
  BY <1>5 DEF InLevels
<1> QED BY <1>15, <1>16, <1>17, <1>18, <1>19 DEF DeriveInv

LEMMA UponShape ==
  ASSUME NEW f, Shape(f), NEW o, NEW h, h = upon(f, [object |-> o])
  PROVE  Shape(h) /\ h.object = o /\ h.name = f.name
<1>1. PICK r : r = [object |-> o]
  OBVIOUS
<1>2. DOMAIN r = {"object"} /\ r["object"] = o
  BY <1>1
<1>3. h = [x \in DOMAIN r \cup DOMAIN f |-> IF x \in DOMAIN r THEN r[x] ELSE f[x]]
  BY <1>1 DEF upon
<1> QED BY <1>2, <1>3 DEF Shape

LEMMA LevelCloses ==
  ASSUME DeriveInv, CloseLevel
  PROVE  DeriveInv'
<1>1. PICK P, D, bs, R, Op, h : /\ P = published /\ D = objects /\ bs = builders /\ R = reported
                                /\ Op = Made /\ h = b.object
  OBVIOUS
<1>2. PICK Lv, Mv, z, w, f, Q, E :
        /\ Lv = levels /\ Mv = Front(Lv) /\ z = current.object /\ w = Lv[Len(Lv) - 1].object
        /\ f = upon(current.f, [object |-> z]) /\ Q = Op \ {z} /\ E = appended(D, w, f)
  OBVIOUS
<1>3. PICK rt, k, H, A : rt = root /\ k = Len(b.containers) /\ H = handled /\ A = ignored \cup trees
  OBVIOUS
<1>4. /\ InLevels /\ Working /\ Len(Lv) > 1 /\ objects' = E /\ levels' = Mv
      /\ UNCHANGED <<builders, published, reported, phase, root, handled, ignored, trees, targets>>
  BY <1>1, <1>2 DEF CloseLevel, InLevels
<1>5. /\ Standing(P, D, bs, R, Op) /\ bs # <<>> /\ ModelOK(D, bs, R, rt, H, A)
      /\ LevelsOK(Lv, D, rt, k, h) /\ TargetsOK(targets, Len(D)) /\ Op = Making(bs, Lv, rt)
  BY <1>1, <1>2, <1>3, <1>4 DEF DeriveInv, Working, InLevels, Made
<1>6. Heap(D) /\ z \in DOMAIN D /\ z \in Op /\ h \in DOMAIN D /\ h < rt
  BY <1>1, <1>2, <1>4, <1>5, OnALevel, Innermost DEF Standing, Sound, ModelOK, b
<1>7. PICK n : n = Len(Lv) - 1
  OBVIOUS
<1>8. /\ n \in DOMAIN Lv /\ n + 1 \in DOMAIN Lv /\ n < n + 1 /\ n # n + 1 /\ w = Lv[n].object
      /\ Last(Lv) = Lv[n + 1] /\ z = Lv[n + 1].object /\ current = Lv[n + 1] /\ 1 \in DOMAIN Lv
      /\ 1 < n + 1 /\ Len(Lv) = n + 1
  <2>1. /\ IsSeq(Lv) /\ Lv # <<>> /\ Len(Lv) \in Nat \ {0} /\ DOMAIN Lv = 1 .. Len(Lv)
        /\ Last(Lv) = Lv[Len(Lv)]
    BY <1>5, InnermostIsLast DEF LevelsOK
  <2>2. n \in Nat \ {0} /\ Len(Lv) = n + 1
    BY <1>4, <1>7, <2>1
  <2>3. n \in 1 .. n + 1 /\ n + 1 \in 1 .. n + 1 /\ 1 \in 1 .. n + 1 /\ 1 < n + 1
    BY <2>2
  <2> QED BY <1>2, <1>7, <2>1, <2>2, <2>3 DEF current
<1>9. /\ Shape(current.f) /\ fieldNamed(D[w], current.f.name) = {} /\ D[z].within = h
      /\ w \in DOMAIN D /\ w < z /\ rt < z
  <2>1. Within(D, Lv[n], Lv[n + 1], h)
    BY <1>5, <1>8 DEF LevelsOK
  <2>2. Lv[n].object \in DOMAIN D /\ Lv[n].object < Lv[n + 1].object
    BY <1>5, <1>8 DEF LevelsOK
  <2>3. rt < z
    BY <1>5, <1>8 DEF LevelsOK
  <2> QED BY <1>8, <2>1, <2>2, <2>3 DEF Within
<1>10. h # z /\ w # z /\ rt # z /\ \A i \in DOMAIN bs : bs[i].object # z
  <2>1. PICK m : m = Len(D)
    OBVIOUS
  <2>2. m \in Nat /\ DOMAIN D = 1 .. m
    BY <1>6, <2>1, HeapDomain
  <2>3. w \in 1 .. m /\ z \in 1 .. m /\ h \in 1 .. m /\ rt \in 1 .. m
    BY <1>5, <1>6, <1>9, <2>2 DEF ModelOK
  <2>4. \A i \in DOMAIN bs : bs[i].object \in DOMAIN D /\ bs[i].object <= h
    BY <1>1, <1>5, <1>6, BuildersInOrder DEF Standing, b
  <2>5. ASSUME NEW i \in DOMAIN bs PROVE bs[i].object # z
    <3>1. PICK p : p = bs[i].object
      OBVIOUS
    <3>2. p \in 1 .. m /\ p <= h
      BY <2>2, <2>4, <3>1
    <3> QED BY <1>6, <1>9, <2>2, <2>3, <3>1, <3>2
  <2> QED BY <1>6, <1>9, <2>2, <2>3, <2>5
<1>11. Standing(P, D, bs, R, Q)
  BY <1>2, <1>5, <1>6, <1>9, <1>10, HeapReleases
<1>12. Making(bs, Mv, rt) = Q
  <2>1. OneMore(Mv, Lv, z)
    BY <1>2, <1>4, <1>5, <1>8, LevelClosed
  <2>2. Making(bs, Lv, rt) = Making(bs, Mv, rt) \cup {z}
    BY <2>1, MoreLevelsMake
  <2>3. z \notin Making(bs, Mv, rt)
    <3>1. ASSUME NEW i \in DOMAIN Mv PROVE Mv[i].object # z
      <4>1. (n + 1) - 1 = n /\ n \in Nat
        BY <1>5, <1>8, SeqOfElements DEF LevelsOK
      <4>2. DOMAIN Mv = 1 .. n /\ \A j \in 1 .. n : Mv[j] = Lv[j]
        <5>1. IsSeq(Lv) /\ Lv # <<>> /\ Len(Lv) = n + 1
          BY <1>5, <1>8 DEF LevelsOK
        <5>2. IsSeq(Mv) /\ Len(Mv) = n /\ \A j \in 1 .. n : Mv[j] = Lv[j]
          BY <1>2, <4>1, <5>1, FrontOfSeq
        <5> QED BY <5>2, SeqOfElements
      <4>3. i \in DOMAIN Lv /\ i < n + 1
        BY <1>5, <1>8, <4>1, <4>2, SeqOfElements DEF LevelsOK
      <4>4. PICK p : p = Lv[i].object
        OBVIOUS
      <4>5. p < z /\ p \in DOMAIN D
        BY <1>5, <1>8, <4>3, <4>4 DEF LevelsOK
      <4>6. p # z
        BY <1>6, <4>5, HeapDomain
      <4> QED BY <4>2, <4>4, <4>6
    <3> QED BY <1>10, <3>1 DEF Making
  <2> QED BY <1>2, <1>5, <2>2, <2>3
<1>13. w \in Q
  BY <1>2, <1>5, <1>8, <1>10 DEF Making
<1>14. Shape(f) /\ f.object = z /\ f.name = current.f.name
  BY <1>2, <1>9, UponShape
<1>15. Refers(f, Len(D))
  <2>1. PICK m : m = Len(D)
    OBVIOUS
  <2>2. z \in 0 .. m
    BY <1>6, <2>1, HeapDomain
  <2> QED BY <1>14, <2>1, <2>2 DEF Refers
<1>16. Standing(P, E, bs, R, Q) /\ Enlarged(D, E, w, f)
  <2>1. w \notin Settled(P, bs, Len(D), Q)
    BY <1>11, <1>13, MakingNotMade
  <2>2. /\ fieldNamed(D[w], f.name) = {} /\ (R = {} /\ Held(f) => f.object \notin Q)
        /\ (Held(f) => w \notin Settled(P, bs, Len(D), Q) \/ (w # f.object /\ always(D, f.object) = {}))
    BY <1>2, <1>9, <1>14, <2>1
  <2> QED BY <1>2, <1>9, <1>11, <1>15, <2>2, HeapField
<1>17. \A y \in DOMAIN D : Keeps(D, E, y)
  BY <1>16 DEF Enlarged
<1>18. LevelsOK(Mv, E, rt, k, h)
  <2>1. LevelsOK(Mv, D, rt, k, h) /\ Last(Mv).object = w
    BY <1>2, <1>4, <1>5, LevelClosed
  <2>2. \A y \in DOMAIN D : E[y] = D[y] \/ y = Last(Mv).object
    BY <1>16, <2>1 DEF Enlarged
  <2> QED BY <1>6, <1>17, <2>1, <2>2, LevelsGrow
<1>19. ModelOK(E, bs, R, rt, H, A)
  BY <1>5, <1>17, ModelGrows
<1>20. TargetsOK(targets, Len(objects))'
  <2>1. Len(E) = Len(D)
    BY <1>16 DEF Enlarged
  <2> QED BY <1>4, <1>5, <2>1
<1>21. Standing(published, objects, builders, reported, Making(builders, levels, root))'
  BY <1>1, <1>3, <1>4, <1>12, <1>16
<1>22. LevelsOK(levels, objects, root, Len(b.containers), b.object)'
  BY <1>1, <1>3, <1>4, <1>18 DEF b
<1>23. ModelOK(objects, builders, reported, root, handled, ignored \cup trees)'
  BY <1>1, <1>3, <1>4, <1>19
<1>24. phase' = "compiling"
  BY <1>4 DEF InLevels
<1> QED BY <1>20, <1>21, <1>22, <1>23, <1>24 DEF DeriveInv
LEMMA CompletenessKeeps ==
  ASSUME DeriveInv, CheckCompleteness
  PROVE  DeriveInv'
<1>1. PICK cs, N : cs = builders' /\ N = {<<"missing_definition", Last(leaf)>> : leaf \in missing}
  OBVIOUS
<1>2. /\ InLevels /\ Working /\ Len(levels) = 1 /\ Complain(N) /\ phase' = "moving"
      /\ obj' = root /\ levels' = <<>>
      /\ UNCHANGED <<objects, published, root, handled, ignored, trees, targets>>
  BY <1>1 DEF CheckCompleteness, InLevels
<1>3. /\ Standing(published, objects, cs, reported \cup N, Made)
      /\ Noting(builders, cs) /\ reported' = reported \cup N
  BY <1>1, <1>2, ComplaintStands
<1>4. PICK D, bs, R, rt, H, A, Q, Lv :
        /\ D = objects /\ bs = builders /\ R = reported /\ rt = root /\ H = handled
        /\ A = ignored \cup trees /\ Q = R \cup N /\ Lv = levels
  OBVIOUS
<1>5. ModelOK(D, bs, R, rt, H, A) /\ LevelsOK(Lv, D, rt, Len(b.containers), b.object)
  BY <1>2, <1>4 DEF DeriveInv, InLevels
<1>6. ModelOK(D, cs, Q, rt, H, A)
  <2>1. cs # <<>> /\ Last(cs).object = Last(bs).object /\ R \subseteq Q
    BY <1>3, <1>4 DEF Noting, Onward
  <2>2. \A x \in DOMAIN D : Keeps(D, D, x)
    BY NothingLost
  <2> QED BY <1>5, <2>1, <2>2, ModelGrows
<1>7. Making(cs, <<>>, rt) = Made
  <2>1. Onward(bs, cs, Last(cs))
    BY <1>3, <1>4 DEF Noting
  <2>2. PICK Mv : Mv = <<>>
    OBVIOUS
  <2>3. Making(cs, Mv, rt) = Making(bs, Mv, rt)
    BY <2>1, OnwardMakes
  <2>4. Making(bs, Mv, rt) = Making(bs, Lv, rt)
    <3>1. DOMAIN Lv = {1} /\ Lv[1].object = rt
      BY <1>2, <1>4, <1>5, OnALevel DEF LevelsOK
    <3>2. rt \in DOMAIN D /\ Heap(D)
      BY <1>4, <1>5 DEF ModelOK, DeriveInv, Standing, Sound
    <3>3. rt # NoObject
      BY <3>2, HeapDomain DEF NoObject
    <3>4. DOMAIN Mv = {}
      BY <2>2
    <3> QED BY <3>1, <3>3, <3>4 DEF Making
  <2> QED BY <1>4, <2>2, <2>3, <2>4 DEF Made
<1>8. reported' = {} => \A leaf \in GoLeaves(b'.go) : covered(leaf, handled', trees')
  <2>1. b'.go = b.go
    BY <1>1, <1>3 DEF b, Noting
  <2>2. reported' = {} => missing = {}
    BY <1>1, <1>3
  <2> QED BY <1>2, <2>1, <2>2 DEF missing
<1>9. obj' \in DOMAIN objects'
  BY <1>2, <1>4, <1>5 DEF ModelOK
<1>10. Standing(published, objects, builders, reported, Making(builders, levels, root))'
  BY <1>1, <1>2, <1>3, <1>4, <1>7
<1>11. ModelOK(objects, builders, reported, root, handled, ignored \cup trees)'
  BY <1>1, <1>2, <1>3, <1>4, <1>6
<1>12. TargetsOK(targets, Len(objects))'
  BY <1>2 DEF DeriveInv
<1> QED BY <1>2, <1>8, <1>9, <1>10, <1>11, <1>12 DEF DeriveInv

------------------------------------------------------------------------------
(* The steps of placeMoved.                                                *)

LEMMA MovingKeeps ==
  ASSUME DeriveInv, Moving, NEW E, NEW cs, NEW Q,
         Standing(published, E, cs, Q, Made), Noting(builders, cs), reported \subseteq Q,
         \A x \in DOMAIN objects : Keeps(objects, E, x),
         objects' = E, builders' = cs, reported' = Q,
         TargetsOK(targets', Len(E)), obj' \in DOMAIN E,
         UNCHANGED <<published, phase, root, levels, handled, ignored, trees>>
  PROVE  DeriveInv'
<1>1. PICK D, bs, R, rt, H, A :
        /\ D = objects /\ bs = builders /\ R = reported /\ rt = root /\ H = handled
        /\ A = ignored \cup trees
  OBVIOUS
<1>2. ModelOK(D, bs, R, rt, H, A) /\ levels = <<>>
  BY <1>1 DEF DeriveInv, Moving
<1>3. ModelOK(E, cs, Q, rt, H, A)
  <2>1. cs # <<>> /\ Last(cs).object = Last(bs).object /\ R \subseteq Q
    BY <1>1 DEF Noting, Onward
  <2>2. \A x \in DOMAIN D : Keeps(D, E, x)
    BY <1>1
  <2> QED BY <1>2, <2>1, <2>2, ModelGrows
<1>4. Making(cs, levels, rt) = Made
  <2>1. Onward(bs, cs, Last(cs))
    BY <1>1 DEF Noting
  <2>2. PICK Mv : Mv = levels
    OBVIOUS
  <2>3. Making(cs, Mv, rt) = Making(bs, Mv, rt)
    BY <2>1, OnwardMakes
  <2> QED BY <1>1, <2>2, <2>3 DEF Made
<1>5. reported' = {} => \A leaf \in GoLeaves(b'.go) : covered(leaf, handled', trees')
  <2>1. b'.go = b.go
    BY DEF b, Noting
  <2>2. reported' = {} => reported = {}
    OBVIOUS
  <2> QED BY <2>1, <2>2 DEF DeriveInv, Moving
<1>6. Standing(published, objects, builders, reported, Making(builders, levels, root))'
  BY <1>1, <1>4
<1>7. ModelOK(objects, builders, reported, root, handled, ignored \cup trees)'
  BY <1>1, <1>3
<1>8. TargetsOK(targets, Len(objects))' /\ levels' = <<>> /\ obj' \in DOMAIN objects'
  BY <1>2
<1>9. phase' = "moving"
  BY DEF Moving
<1> QED BY <1>5, <1>6, <1>7, <1>8, <1>9 DEF DeriveInv

\* A target less, or one of other former paths.
LEMMA TargetsLeft ==
  ASSUME NEW T, NEW n, TargetsOK(T, n), T # <<>>, NEW t
  PROVE  /\ Refers(Head(T).f, n) /\ Head(T).ref # <<>> /\ TargetsOK(Tail(T), n)
         /\ t.f = Head(T).f /\ t.ref = Head(T).ref => TargetsOK([T EXCEPT ![1] = t], n)
<1>1. PICK m, U, V : m = Len(T) /\ U = Tail(T) /\ V = [T EXCEPT ![1] = t]
  OBVIOUS
<1>2. /\ IsSeq(T) /\ m \in Nat \ {0} /\ DOMAIN T = 1 .. m /\ Head(T) = T[1]
      /\ IsSeq(U) /\ Len(U) = m - 1 /\ \A i \in 1 .. m - 1 : U[i] = T[i + 1]
  BY <1>1, SeqOfElements, TailOfSeq DEF TargetsOK
<1>3. 1 \in DOMAIN T
  BY <1>2
<1>4. TargetsOK(U, n)
  <2>1. DOMAIN U = 1 .. m - 1 /\ \A i \in 1 .. m - 1 : i + 1 \in 1 .. m
    BY <1>2, SeqOfElements
  <2> QED BY <1>2, <2>1 DEF TargetsOK
<1>5. DOMAIN V = 1 .. m /\ V = [i \in DOMAIN V |-> V[i]] /\ V[1] = t /\ \A i \in 1 .. m : i # 1 => V[i] = T[i]
  BY <1>1, <1>2, <1>3
<1>6. IsSeq(V)
  BY <1>2, <1>5, IsSeqOf
<1>7. t.f = Head(T).f /\ t.ref = Head(T).ref => TargetsOK(V, n)
  BY <1>2, <1>3, <1>5, <1>6 DEF TargetsOK
<1> QED BY <1>1, <1>2, <1>3, <1>4, <1>7 DEF TargetsOK

LEMMA Leaves ==
  ASSUME NEW T, NEW n, TargetsOK(T, n), T # <<>>, T = targets, NEW former, leave(former)
  PROVE  TargetsOK(targets', n)
<1>1. PICK t : t = [f |-> target.f, ref |-> target.ref, former |-> former]
  OBVIOUS
<1>2. t.f = Head(T).f /\ t.ref = Head(T).ref
  BY <1>1 DEF target
<1>3. TargetsOK([T EXCEPT ![1] = t], n)
  BY <1>2, TargetsLeft
<1>4. targets' = [T EXCEPT ![1] = t]
  BY <1>1 DEF leave
<1> QED BY <1>3, <1>4

LEMMA WhileMoving ==
  ASSUME DeriveInv, Moving
  PROVE  /\ Standing(published, objects, builders, reported, Made) /\ Working /\ builders # <<>>
         /\ Heap(objects) /\ root \in DOMAIN objects /\ obj \in DOMAIN objects
         /\ TargetsOK(targets, Len(objects)) /\ Len(objects) \in Nat
         /\ Noting(builders, builders) /\ reported \cup {} = reported
         /\ \A x \in DOMAIN objects : Keeps(objects, objects, x)
<1>1. Standing(published, objects, builders, reported, Made) /\ Working /\ builders # <<>>
  BY DEF DeriveInv, Moving, Working, Made
<1>2. Heap(objects)
  BY <1>1 DEF Standing, Sound
<1>3. root \in DOMAIN objects /\ obj \in DOMAIN objects
  BY DEF DeriveInv, Moving, ModelOK
<1>4. TargetsOK(targets, Len(objects))
  BY DEF DeriveInv
<1> QED BY <1>1, <1>2, <1>3, <1>4, HeapDomain, NothingNoted, NothingLost

LEMMA MovesOn ==
  ASSUME DeriveInv, NextTarget \/ EnterLevel \/ InTheWay
  PROVE  DeriveInv'
<1>1. PICK D, T, n, cs, Q : /\ D = objects /\ T = targets /\ n = Len(D) /\ cs = builders'
                            /\ Q = reported'
  OBVIOUS
<1>2. /\ Moving /\ T # <<>> /\ objects' = D
      /\ UNCHANGED <<published, phase, root, levels, handled, ignored, trees>>
  BY <1>1 DEF NextTarget, EnterLevel, InTheWay, Placing
<1>3. TargetsOK(T, n) /\ Heap(D) /\ root \in DOMAIN D /\ obj \in DOMAIN D
  BY <1>1, <1>2, WhileMoving
<1>4. CASE NextTarget
  <2>1. targets' = Tail(T) /\ obj' = obj /\ cs = builders /\ Q = reported
    BY <1>1, <1>4 DEF NextTarget
  <2>2. TargetsOK(targets', n)
    BY <1>2, <1>3, <2>1, TargetsLeft
  <2> QED BY <1>1, <1>2, <1>3, <2>1, <2>2, WhileMoving, MovingKeeps
<1>5. CASE EnterLevel
  <2>1. PICK i \in through : NextSegment(D[obj].fields[i].object)
    BY <1>1, <1>5 DEF EnterLevel
  <2>2. PICK p : p = D[obj].fields[i].object
    OBVIOUS
  <2>3. p \in DOMAIN D
    <3>1. i \in DOMAIN D[obj].fields /\ isLevel(D[obj].fields[i])
      BY <1>1, <2>1 DEF through, fieldNamed
    <3>2. p \in 0 .. n /\ p # 0
      BY <1>1, <1>3, <2>2, <3>1 DEF isLevel, NoObject, Heap, Refers
    <3> QED BY <1>1, <1>3, <3>2, HeapDomain
  <2>4. PICK former : leave(former)
    BY <2>1 DEF NextSegment
  <2>5. TargetsOK(targets', n)
    BY <1>1, <1>2, <1>3, <2>4, Leaves
  <2>6. obj' = p /\ cs = builders /\ Q = reported
    BY <1>1, <1>5, <2>1, <2>2 DEF EnterLevel, NextSegment
  <2> QED BY <1>1, <1>2, <2>3, <2>5, <2>6, WhileMoving, MovingKeeps
<1>6. CASE InTheWay
  <2>1. PICK N : Complain(N)
    BY <1>6 DEF InTheWay
  <2>2. /\ Standing(published, D, cs, reported \cup N, Made)
        /\ Noting(builders, cs) /\ Q = reported \cup N
    BY <1>1, <1>2, <2>1, WhileMoving, ComplaintStands
  <2>3. PICK former : leave(former) /\ obj' = root
    BY <1>6 DEF InTheWay, NextFormer
  <2>4. TargetsOK(targets', n)
    BY <1>1, <1>2, <1>3, <2>3, Leaves
  <2> QED BY <1>1, <1>2, <1>3, <2>2, <2>3, <2>4, WhileMoving, MovingKeeps
<1> QED BY <1>4, <1>5, <1>6
LEMMA ShadowShape ==
  ASSUME NEW f, NEW ref, NEW name, NEW h, h = shadowField(f, ref, name)
  PROVE  Shape(h) /\ h.object = f.object /\ h.name = name /\ h.movedTo = ref
<1>1. PICK r : r = [name |-> name, go |-> <<>>, kind |-> f.kind, object |-> f.object, movedTo |-> ref,
                    recursive |-> FALSE, shape |-> f.shape, variants |-> f.variants, tag |-> f.tag,
                    merge |-> f.merge, presence |-> "optional", zero |-> FALSE, settable |-> TRUE]
  OBVIOUS
<1>2. \A x \in DOMAIN r : x \in DOMAIN h /\ h[x] = r[x]
  BY <1>1 DEF shadowField, upon
<1> QED BY <1>1, <1>2 DEF Shape

LEMMA LevelShape ==
  ASSUME NEW name, NEW o, NEW h, h = levelField(name, o)
  PROVE  Shape(h) /\ h.object = o /\ h.name = name
<1>1. PICK r : r = [name |-> name, go |-> <<>>, kind |-> "group", object |-> o, movedTo |-> <<>>,
                    recursive |-> FALSE, presence |-> "optional", settable |-> TRUE]
  OBVIOUS
<1>2. \A x \in DOMAIN r : x \in DOMAIN h /\ h[x] = r[x]
  BY <1>1 DEF levelField, upon
<1> QED BY <1>1, <1>2 DEF Shape

LEMMA ShadowKeeps ==
  ASSUME DeriveInv, PlaceShadow
  PROVE  DeriveInv'
<1>1. PICK P, D, bs, R, Op, T, n, o : /\ P = published /\ D = objects /\ bs = builders /\ R = reported
                                      /\ Op = Made /\ T = targets /\ n = Len(D) /\ o = obj
  OBVIOUS
<1>2. PICK h, E : h = shadowField(target.f, target.ref, Head(old)) /\ E = appended(D, o, h)
  OBVIOUS
<1>3. /\ Moving /\ T # <<>> /\ fieldNamed(D[o], Head(old)) = {} /\ objects' = E /\ obj' = root
      /\ UNCHANGED <<builders, published, reported, phase, root, levels, handled, ignored, trees>>
  BY <1>1, <1>2 DEF PlaceShadow, Placing, NextFormer, taken
<1>4. /\ Standing(P, D, bs, R, Op) /\ Heap(D) /\ root \in DOMAIN D /\ o \in DOMAIN D
      /\ TargetsOK(T, n)
  BY <1>1, <1>3, WhileMoving
<1>5. Refers(target.f, n) /\ target.ref # <<>>
  BY <1>1, <1>3, <1>4, TargetsLeft DEF target
<1>6. Shape(h) /\ h.object = target.f.object /\ h.name = Head(old) /\ h.movedTo # <<>>
  BY <1>2, <1>5, ShadowShape
<1>7. ~Held(h) /\ Refers(h, Len(D)) /\ fieldNamed(D[o], h.name) = {}
  BY <1>1, <1>3, <1>5, <1>6 DEF Held, Moved, Refers
<1>8. Standing(P, E, bs, R, Op) /\ Enlarged(D, E, o, h)
  BY <1>2, <1>4, <1>7, HeapField
<1>9. \A x \in DOMAIN D : Keeps(D, E, x)
  BY <1>8 DEF Enlarged
<1>10. TargetsOK(targets', Len(E))
  <2>1. PICK former : leave(former)
    BY DEF PlaceShadow, NextFormer
  <2>2. TargetsOK(targets', n)
    BY <1>1, <1>3, <1>4, <2>1, Leaves
  <2> QED BY <1>1, <1>8, <2>2 DEF Enlarged
<1>11. obj' \in DOMAIN E
  BY <1>3, <1>4, <1>8 DEF Enlarged
<1>12. Noting(builders, bs) /\ reported \subseteq R
  BY <1>1, <1>3, WhileMoving
<1> QED BY <1>1, <1>3, <1>8, <1>9, <1>10, <1>11, <1>12, MovingKeeps

LEMMA RebuiltKeeps ==
  ASSUME DeriveInv, RebuildLevel
  PROVE  DeriveInv'
<1>1. PICK P, D, bs, R, Op, T, n, o, g, w :
        /\ P = published /\ D = objects /\ bs = builders /\ R = reported
        /\ Op = Made /\ T = targets /\ n = Len(D) /\ o = obj /\ g = b.go /\ w = b.object
  OBVIOUS
<1>2. PICK z, e, F, h, E : /\ z = Len(D) + 1 /\ e = emptyObject(g, w) /\ F = Append(D, e)
                           /\ h = levelField(Head(old), z) /\ E = appended(F, o, h)
  OBVIOUS
<1>3. /\ Moving /\ T # <<>> /\ fieldNamed(D[o], Head(old)) = {} /\ objects' = E /\ NextSegment(z)
      /\ UNCHANGED <<builders, published, reported, phase, root, levels, handled, ignored, trees>>
  BY <1>1, <1>2 DEF RebuildLevel, Placing, taken
<1>4. /\ Standing(P, D, bs, R, Op) /\ Heap(D) /\ root \in DOMAIN D /\ o \in DOMAIN D /\ n \in Nat
      /\ TargetsOK(T, n) /\ bs # <<>>
  BY <1>1, <1>3, WhileMoving
<1>5. w \in DOMAIN D
  BY <1>1, <1>3, <1>4, WhileMoving, Innermost
<1>6. PICK Q : Q = Op \cup {z}
  OBVIOUS
<1>7. Standing(P, F, bs, R, Q) /\ Fresh(D, F, z, e)
  BY <1>2, <1>4, <1>6, HeapOpens
<1>8. /\ z \notin DOMAIN D /\ F[z] = e /\ e.within = w /\ always(F, z) = {}
      /\ Len(F) = z /\ z \in Nat /\ n <= z /\ DOMAIN F = 1 .. z /\ \A x \in DOMAIN D : F[x] = D[x]
  BY <1>1, <1>2, <1>7 DEF Fresh, Grown, emptyObject
<1>9. z # o /\ z # w /\ z \in DOMAIN F /\ o \in DOMAIN F /\ z \in 0 .. z
  <2>1. z \in 1 .. z
    BY <1>1, <1>2, <1>4, <1>8
  <2>2. o \in DOMAIN F
    BY <1>4, <1>7, FreshKeeps DEF Keeps
  <2> QED BY <1>4, <1>5, <1>8, <2>1, <2>2
<1>10. z \notin Op
  <2>1. Op \subseteq Base(bs, n) .. n
    BY <1>1, <1>4 DEF Standing
  <2>2. Base(bs, n) \in DOMAIN D /\ DOMAIN D = 1 .. n
    BY <1>1, <1>4, BuildersInOrder, HeapDomain DEF Standing
  <2>3. PICK p : p = Base(bs, n)
    OBVIOUS
  <2>4. p \in 1 .. n
    BY <2>2, <2>3
  <2> QED BY <1>1, <1>2, <1>4, <2>1, <2>3, <2>4
<1>11. Standing(P, F, bs, R, Op)
  <2>1. Standing(P, F, bs, R, Q \ {z})
    BY <1>4, <1>6, <1>7, <1>8, <1>9, HeapReleases
  <2>2. Q \ {z} = Op
    BY <1>6, <1>10
  <2> QED BY <2>1, <2>2
<1>12. Shape(h) /\ h.object = z /\ h.name = Head(old)
  BY <1>2, LevelShape
<1>13. /\ Refers(h, Len(F)) /\ fieldNamed(F[o], h.name) = {} /\ (R = {} /\ Held(h) => h.object \notin Op)
       /\ (Held(h) => o \notin Settled(P, bs, Len(F), Op) \/ (o # h.object /\ always(F, h.object) = {}))
  BY <1>3, <1>4, <1>8, <1>9, <1>10, <1>12 DEF Refers
<1>14. Standing(P, E, bs, R, Op) /\ Enlarged(F, E, o, h)
  <2>1. E = appended(F, o, h) /\ o \in DOMAIN F
    BY <1>2, <1>9
  <2>2. Standing(P, E, bs, R, Op)
    BY <1>11, <1>13, <2>1, HeapField
  <2>3. Enlarged(F, E, o, h)
    BY <1>11, <1>13, <2>1, HeapField
  <2> QED BY <2>2, <2>3
<1>15. \A x \in DOMAIN D : Keeps(D, E, x)
  <2>1. \A x \in DOMAIN D : Keeps(D, F, x)
    BY <1>7, FreshKeeps
  <2>2. \A x \in DOMAIN F : Keeps(F, E, x)
    BY <1>14 DEF Enlarged
  <2>3. ASSUME NEW x \in DOMAIN D PROVE Keeps(D, E, x)
    <3>1. x \in DOMAIN F /\ F[x] = D[x]
      BY <1>8, <2>1 DEF Keeps
    <3>2. Keeps(F, E, x)
      BY <2>2, <3>1
    <3> QED BY <3>1, <3>2 DEF Keeps
  <2> QED BY <2>3
<1>16. TargetsOK(targets', Len(E))
  <2>1. PICK former : leave(former)
    BY <1>3 DEF NextSegment
  <2>2. PICK U : U = targets'
    OBVIOUS
  <2>3. TargetsOK(U, n)
    BY <1>1, <1>3, <1>4, <2>1, <2>2, Leaves
  <2>4. TargetsOK(U, z)
    BY <1>4, <1>8, <2>3, TargetsGrow
  <2> QED BY <1>8, <1>14, <2>2, <2>4 DEF Enlarged
<1>17. obj' \in DOMAIN E
  BY <1>3, <1>9, <1>14 DEF Enlarged, NextSegment
<1>18. Noting(builders, bs) /\ reported \subseteq R
  BY <1>1, <1>3, WhileMoving
<1> QED BY <1>1, <1>3, <1>14, <1>15, <1>16, <1>17, <1>18, MovingKeeps
------------------------------------------------------------------------------
(* The model is made.                                                      *)

LEMMA ModelFilled ==
  ASSUME DeriveInv, Compiled, NEW E, E = filled, NEW Q, Q = Made \ {root, b.object}
  PROVE  /\ Sound(E, made(published), Settled(published, builders, Len(E), Q), Q, reported = {})
         /\ Same(objects, E)
<1>1. PICK P, D, bs, R, Op, o, r : /\ P = published /\ D = objects /\ bs = builders /\ R = reported
                                   /\ Op = Made /\ o = b.object /\ r = root
  OBVIOUS
<1>2. PICK g, H, I, T : g = b.go /\ H = handled /\ I = ignored /\ T = trees
  OBVIOUS
<1>3. /\ Standing(P, D, bs, R, Op) /\ bs # <<>> /\ Heap(D) /\ r \in DOMAIN D /\ Working
      /\ o = Last(bs).object
  BY <1>1, WhileMoving DEF Compiled, b
<1>4. /\ o < r /\ D[r].within = NoObject /\ (R = {} => H \subseteq (I \cup T) \cup BoundIn(D, o, r))
      /\ (R = {} => \A leaf \in GoLeaves(g) : covered(leaf, H, T))
  BY <1>1, <1>2 DEF DeriveInv, Compiled, Moving, ModelOK, b
<1>5. o \in DOMAIN D /\ o \in Op
  BY <1>1, <1>3, Innermost
<1>6. o # r /\ r # NoObject
  <2>1. PICK n : n = Len(D)
    OBVIOUS
  <2>2. o \in 1 .. n /\ r \in 1 .. n
    BY <1>3, <1>5, <2>1, HeapDomain
  <2> QED BY <1>4, <2>2 DEF NoObject
<1>7. r \in Op
  BY <1>1, <1>6 DEF Made, Making
<1>8. PICK skipped : skipped = I \cup T
  OBVIOUS
<1>9. E = Filling(D, o, r, g, skipped)
  BY <1>1, <1>2, <1>8 DEF filled, Filling
<1>10. PICK clean : clean = (R = {})
  OBVIOUS
<1>11. clean => Covers(E, o)
  <2> SUFFICES ASSUME clean PROVE Covers(E, o)
    OBVIOUS
  <2>1. H \subseteq I \cup T \cup BoundIn(D, o, r) /\ \A leaf \in GoLeaves(g) : covered(leaf, H, T)
    BY <1>4, <1>10
  <2>2. E = Filling(D, o, r, g, I \cup T)
    BY <1>8, <1>9
  <2> QED BY <1>3, <1>5, <1>6, <2>1, <2>2, CoversFilled
<1>12. /\ D[r].within = NoObject /\ Q = Op \ {r, o} /\ Filled(D, E, o, r, g, skipped)
       /\ clean => R = {} /\ Covers(E, o)
  BY <1>1, <1>4, <1>9, <1>10, <1>11 DEF Filled
<1>14. D[o].within = o
  BY <1>1, <1>3, Innermost DEF BuilderOK
<1>13. Sound(E, made(P), Settled(P, bs, Len(E), Q), Q, clean)
  BY <1>3, <1>5, <1>6, <1>7, <1>12, <1>14, HeapFilled
<1>15. Same(D, E)
  BY <1>3, <1>5, <1>9, <1>14, FillingSame
<1>16. Sound(E, made(P), Settled(P, bs, Len(E), Q), Q, R = {})
  BY <1>10, <1>13 DEF Sound
<1> QED BY <1>1, <1>15, <1>16

\* The builders but for the innermost make its object no more.
LEMMA ShorterMakes ==
  ASSUME NEW bs, NEW cs, NEW x, NEW n, Shorter(bs, cs, x, n), x.object = Parent(bs).object,
         NEW D, NEW R, NEW Op, NEW clean, Work(bs, D, R, Op, clean), Heap(D)
  PROVE  {cs[i].object : i \in DOMAIN cs} = {bs[i].object : i \in DOMAIN bs} \ {Last(bs).object}
<1>1. /\ n \in Nat \ {0} /\ DOMAIN bs = 1 .. n + 1 /\ Last(bs) = bs[n + 1] /\ Parent(bs) = bs[n]
      /\ DOMAIN cs = 1 .. n /\ cs[n] = x /\ \A i \in 1 .. n - 1 : cs[i] = bs[i]
  BY DEF Shorter
<1>2. /\ \A i \in 1 .. n : (i = n \/ i \in 1 .. n - 1) /\ i \in 1 .. n + 1 /\ i < n + 1
      /\ \A i \in 1 .. n + 1 : i = n + 1 \/ i \in 1 .. n
      /\ n + 1 \in 1 .. n + 1
  BY <1>1
<1>3. \A i \in 1 .. n : cs[i].object = bs[i].object
  BY <1>1, <1>2
<1>4. ASSUME NEW i \in 1 .. n PROVE bs[i].object # bs[n + 1].object
  <2>1. PICK p, q, m : p = bs[i].object /\ q = bs[n + 1].object /\ m = Len(D)
    OBVIOUS
  <2>2. p < q
    BY <1>1, <1>2, <2>1 DEF Work
  <2>3. p \in DOMAIN D /\ q \in DOMAIN D
    BY <1>1, <1>2, <2>1 DEF Work, BuilderOK
  <2>4. p \in 1 .. m /\ q \in 1 .. m
    BY <2>1, <2>3, HeapDomain
  <2>5. p # q
    BY <2>2, <2>4
  <2> QED BY <2>1, <2>5
<1>5. ASSUME NEW y
      PROVE  y \in {cs[i].object : i \in DOMAIN cs} <=>
             y \in {bs[i].object : i \in DOMAIN bs} \ {Last(bs).object}
  BY <1>1, <1>2, <1>3, <1>4
<1> QED BY <1>5

\* The parent goes on with what a nested description made.
LEMMA Inherits ==
  ASSUME NEW D, NEW Op, NEW clean, NEW y, BuilderOK(y, D, Op, clean),
         NEW r, RegOK(r, Len(D), Len(y.containers), Op, clean), NEW M, NEW N,
         NEW x, x = noted(noted(add(y, r), M), N)
  PROVE  /\ BuilderOK(x, D, Op, clean)
         /\ Key(x) = Key(y) /\ x.object = y.object /\ x.caller = y.caller
         /\ y.diags \cup M \cup N \subseteq x.diags
<1>1. PICK z, w : z = add(y, r) /\ w = noted(z, M)
  OBVIOUS
<1>2. BuilderOK(z, D, Op, clean) /\ Further(z, y, {})
  BY <1>1, Added
<1>3. BuilderOK(w, D, Op, clean) /\ Further(w, z, M)
  BY <1>1, <1>2, NotedDown
<1>4. x = noted(w, N)
  BY <1>1
<1>5. BuilderOK(x, D, Op, clean) /\ Further(x, w, N)
  BY <1>3, <1>4, NotedDown
<1> QED BY <1>2, <1>3, <1>5 DEF Further

LEMMA NestedKeeps ==
  ASSUME DeriveInv, NestedReturns
  PROVE  DeriveInv'
<1>1. PICK P, D, bs, R, Op, o : /\ P = published /\ D = objects /\ bs = builders /\ R = reported
                                /\ Op = Made /\ o = b.object
  OBVIOUS
<1>2. PICK E, Q, s, y, N :
        /\ E = filled /\ Q = Op \ {root, o} /\ s = b.caller /\ y = Parent(bs)
        /\ N = when(s.op \in {"list", "map"} /\ b.rules # {}, "missing_definition", s.name)
  OBVIOUS
<1>3. PICK spotless, clean : spotless = (R \cup N = {}) /\ clean = (R = {})
  OBVIOUS
<1>4. PICK t : t = noted(noted(add(y, referring(s, o)), b.diags), N)
  OBVIOUS
<1>5. PICK x, cs : /\ x = IF s.op \in {"list", "map"} THEN t
                          ELSE [t EXCEPT !.rules = @ \cup lift(b.rules, s.name)]
                   /\ cs = Handed(bs, x)
  OBVIOUS
<1>6. /\ Compiled /\ Nested(bs) /\ objects' = E /\ reported' = R \cup N /\ Forget /\ published' = P
      /\ builders' = cs
  BY <1>1, <1>2, <1>4, <1>5
     DEF NestedReturns, Nested, Handed, Parent, Report, inherit
<1>7. /\ Standing(P, D, bs, R, Op) /\ bs # <<>> /\ Heap(D) /\ Working /\ levels = <<>> /\ targets = <<>>
  BY <1>1, <1>6, WhileMoving DEF Compiled, DeriveInv, Moving
<1>8. /\ Sound(E, made(P), Settled(P, bs, Len(E), Q), Q, R = {}) /\ Same(D, E)
  BY <1>1, <1>2, <1>6, ModelFilled
<1>9. Work(bs, D, R, Op, clean)
  BY <1>3, <1>7 DEF Standing
<1>10. IsSeq(bs)
  BY <1>9 DEF Work
<1>11. PICK n : Shorter(bs, cs, x, n)
  BY <1>5, <1>6, <1>10, HandedOn
<1>12. /\ n \in DOMAIN bs /\ n + 1 \in DOMAIN bs /\ y = bs[n] /\ b = bs[n + 1] /\ n + 1 # 1
  <2>1. /\ n \in Nat \ {0} /\ DOMAIN bs = 1 .. n + 1 /\ Last(bs) = bs[n + 1] /\ Parent(bs) = bs[n]
    BY <1>11 DEF Shorter
  <2>2. n \in 1 .. n + 1 /\ n + 1 \in 1 .. n + 1 /\ n + 1 # 1
    BY <2>1
  <2> QED BY <1>1, <1>2, <2>1, <2>2 DEF b
<1>13. s.op # "group"
  BY <1>2, <1>9, <1>12 DEF Work, Called
<1>14. Q \subseteq Op
  BY <1>2
<1>15. BuilderOK(y, E, Q, spotless)
  <2>1. BuilderOK(y, D, Op, clean)
    BY <1>9, <1>12 DEF Work
  <2>2. Grown(D, E) /\ (spotless => clean) /\ \A p \in Q : p \in Op \/ p \in Len(D) + 1 .. Len(E)
    BY <1>3, <1>8, <1>14 DEF Same
  <2> QED BY <2>1, <2>2, BuilderOn
<1>16. PICK r : r = referring(s, o)
  OBVIOUS
<1>17. RegOK(r, Len(E), Len(y.containers), Q, spotless)
  <2>1. PICK m, k : m = Len(E) /\ k = Len(y.containers)
    OBVIOUS
  <2>2. o \in DOMAIN D
    BY <1>1, <1>7, Innermost
  <2>3. m \in Nat /\ o \in 0 .. m
    <3>1. m \in Nat /\ DOMAIN D = 1 .. m
      BY <1>8, <2>1 DEF Same, Grown
    <3> QED BY <2>2, <3>1
  <2>4. o \notin Q
    BY <1>2
  <2>5. r = registration(s, s.f, s.op, o, 0)
    BY <1>16 DEF referring
  <2>6. RegOK(r, m, k, Q, spotless)
    BY <1>13, <2>3, <2>4, <2>5, Registered
  <2> QED BY <2>1, <2>6
<1>18. /\ BuilderOK(t, E, Q, spotless)
       /\ Key(t) = Key(y) /\ t.object = y.object /\ t.caller = y.caller
       /\ y.diags \cup b.diags \cup N \subseteq t.diags
  <2>1. PICK M : M = b.diags
    OBVIOUS
  <2>2. t = noted(noted(add(y, r), M), N)
    BY <1>4, <1>16, <2>1
  <2>3. BuilderOK(t, E, Q, spotless)
    BY <1>15, <1>17, <2>2, Inherits
  <2>4. /\ Key(t) = Key(y) /\ t.object = y.object /\ t.caller = y.caller
        /\ y.diags \cup M \cup N \subseteq t.diags
    BY <1>15, <1>17, <2>2, Inherits
  <2> QED BY <2>1, <2>3, <2>4
<1>19. BuilderOK(x, E, Q, spotless) /\ Told(x, Parent(bs), Last(bs), N)
  <2>1. PICK rules : rules = t.rules \cup lift(b.rules, s.name)
    OBVIOUS
  <2>2. x = t \/ x = [t EXCEPT !.rules = rules]
    BY <1>5, <2>1
  <2>3. PICK u : u = [t EXCEPT !.rules = rules]
    OBVIOUS
  <2>4. BuilderOK(u, E, Q, spotless) /\ Further(u, t, {})
    BY <1>18, <2>3, WithRules
  <2>5. CASE x = t
    BY <1>1, <1>2, <1>18, <2>5 DEF Told, b
  <2>6. CASE x = u
    BY <1>1, <1>2, <1>18, <2>4, <2>6 DEF Told, Further, b
  <2> QED BY <2>2, <2>3, <2>5, <2>6
<1>20. Q \in SUBSET Op /\ Q \subseteq Base(bs, Len(E)) .. Len(E)
  BY <1>7, <1>8, <1>14 DEF Standing, Same
<1>21. Standing(P, E, cs, R \cup N, Q)
  BY <1>3, <1>5, <1>6, <1>7, <1>8, <1>19, <1>20, NestedStands
<1>22. Making(cs, <<>>, NoObject) = Q
  <2>1. {cs[i].object : i \in DOMAIN cs} = {bs[i].object : i \in DOMAIN bs} \ {o}
    <3>1. x.object = Parent(bs).object
      BY <1>19 DEF Told
    <3>2. o = Last(bs).object
      BY <1>1 DEF b
    <3> QED BY <1>7, <1>9, <1>11, <3>1, <3>2, ShorterMakes
  <2>2. root \notin {bs[i].object : i \in DOMAIN bs}
    <3>1. o < root /\ root \in DOMAIN D
      BY <1>1, <1>6 DEF DeriveInv, Compiled, Moving, ModelOK, b
    <3>2. \A i \in DOMAIN bs : bs[i].object \in DOMAIN D /\ bs[i].object <= o
      BY <1>1, <1>7, <1>9, BuildersInOrder DEF b
    <3>3. PICK rt, m : rt = root /\ m = Len(D)
      OBVIOUS
    <3>4. m \in Nat /\ DOMAIN D = 1 .. m /\ o \in DOMAIN D
      BY <1>1, <1>7, <3>3, HeapDomain, Innermost
    <3>5. ASSUME NEW i \in DOMAIN bs PROVE bs[i].object # rt
      <4>1. PICK p : p = bs[i].object
        OBVIOUS
      <4>2. p \in 1 .. m /\ rt \in 1 .. m /\ o \in 1 .. m /\ p <= o /\ o < rt
        BY <3>1, <3>2, <3>3, <3>4, <4>1
      <4> QED BY <4>1, <4>2
    <3> QED BY <3>3, <3>5
  <2>3. Op = {bs[i].object : i \in DOMAIN bs} \cup ({root} \ {NoObject})
    BY <1>1, <1>7 DEF Made, Making
  <2>4. Making(cs, <<>>, NoObject) = {cs[i].object : i \in DOMAIN cs}
    BY DEF Making
  <2> QED BY <1>2, <2>1, <2>2, <2>3, <2>4
<1>23. /\ levels' = <<>> /\ targets' = <<>> /\ root' = NoObject /\ handled' = {} /\ phase' = "describing"
  BY <1>6, <1>7 DEF Forget
<1>24. Standing(published, objects, builders, reported, Making(builders, levels, root))'
  BY <1>6, <1>21, <1>22, <1>23
<1>25. NoModel' /\ TargetsOK(targets, Len(objects))'
  BY <1>23 DEF NoModel, TargetsOK, IsSeq
<1> QED BY <1>23, <1>24, <1>25 DEF DeriveInv
\* The heaps a derivation that returns leaves.
LEMMA SameTwice ==
  ASSUME NEW D, NEW E, NEW F, Same(D, E), Same(E, F)
  PROVE  Same(D, F)
<1>1. PICK n : n = Len(D)
  OBVIOUS
<1>2. n \in Nat /\ Len(E) = n /\ Len(F) = n /\ DOMAIN D = 1 .. n /\ DOMAIN E = 1 .. n /\ DOMAIN F = 1 .. n
  BY <1>1 DEF Same, Grown
<1>3. n <= n /\ \A o \in DOMAIN D : F[o].within = D[o].within
  BY <1>2 DEF Same, Grown
<1> QED BY <1>1, <1>2, <1>3 DEF Same, Grown

\* Everything is made, and nothing was reported: the builder may be published.
LEMMA NothingMaking ==
  ASSUME NEW P, NEW D, NEW bs, NEW R, NEW Op, Standing(P, D, bs, R, Op), R = {},
         NEW E, Same(D, E), NEW Q, Q = {},
         Sound(E, made(P), Settled(P, bs, Len(E), Q), Q, R = {})
  PROVE  Standing(P, E, bs, {}, {})
<1>1. PICK clean, n : clean = (R = {}) /\ n = Len(D)
  OBVIOUS
<1>2. Work(bs, D, R, Op, clean) /\ Descriptors(P, bs, n)
  BY <1>1 DEF Standing
<1>3. Grown(D, E) /\ Len(E) = n
  BY <1>1 DEF Same
<1>4. Work(bs, E, R, Q, clean)
  <2>1. \A o \in Q : o \in Op \/ o \in Len(D) + 1 .. Len(E)
    OBVIOUS
  <2> QED BY <1>2, <1>3, <2>1, WorkOn
<1>5. PICK spotless : spotless = (Q = {})
  OBVIOUS
<1>6. clean = TRUE /\ spotless = TRUE
  BY <1>1, <1>5
<1>7. Work(bs, E, Q, Q, spotless)
  BY <1>1, <1>4, <1>6
<1>8. Sound(E, made(P), Settled(P, bs, Len(E), Q), Q, spotless)
  BY <1>6
<1>9. Q \subseteq Base(bs, Len(E)) .. Len(E)
  OBVIOUS
<1>10. Standing(P, E, bs, Q, Q)
  BY <1>2, <1>3, <1>5, <1>7, <1>8, <1>9 DEF Standing
<1> QED BY <1>10

\* The only builder has noted whatever was reported.
LEMMA OnlyBuilder ==
  ASSUME DeriveInv, Working, Len(builders) = 1
  PROVE  DOMAIN builders = {1} /\ b = builders[1] /\ reported \subseteq b.diags
<1>1. PICK bs, R : bs = builders /\ R = reported
  OBVIOUS
<1>2. IsSeq(bs) /\ NotedIn(bs, R) /\ bs # <<>>
  BY <1>1 DEF DeriveInv, Standing, Work, Working
<1>3. DOMAIN bs = 1 .. 1 /\ Last(bs) = bs[1]
  BY <1>1, <1>2, InnermostIsLast
<1>4. DOMAIN bs = {1}
  BY <1>3
<1>5. \A d \in R : d \in bs[1].diags
  BY <1>2, <1>4 DEF NotedIn
<1> QED BY <1>1, <1>3, <1>4, <1>5 DEF b

LEMMA ReturnKeeps ==
  ASSUME DeriveInv, DeriveReturns
  PROVE  DeriveInv'
<1>1. PICK P, D, bs, R, Op, o : /\ P = published /\ D = objects /\ bs = builders /\ R = reported
                                /\ Op = Made /\ o = b.object
  OBVIOUS
<1>2. PICK E, Q, out : E = filled /\ Q = Op \ {root, o} /\ out = Published(filled, b.object)
  OBVIOUS
<1>3. PICK F, y : /\ F = objects'
                  /\ y = [go |-> b.go, root |-> o, last |-> Len(D), byPath |-> out.byPath,
                          rules |-> b.rules]
  OBVIOUS
<1>4. /\ Compiled /\ Len(bs) = 1 /\ Forget /\ builders' = <<>> /\ reported' = R
      /\ F = (IF b.diags = {} THEN stamped(E, out.places) ELSE E)
      /\ published' = P \/ (b.diags = {} /\ published' = Append(P, y))
  BY <1>1, <1>2, <1>3 DEF DeriveReturns
<1>5. /\ Standing(P, D, bs, R, Op) /\ bs # <<>> /\ Working /\ levels = <<>> /\ targets = <<>>
  BY <1>1, <1>4, WhileMoving DEF Compiled, DeriveInv, Moving
<1>6. DOMAIN bs = {1} /\ b = bs[1] /\ R \subseteq b.diags
  BY <1>1, <1>4, <1>5, OnlyBuilder
<1>7. Q = {}
  <2>1. Op = {bs[i].object : i \in DOMAIN bs} \cup ({root} \ {NoObject})
    BY <1>1, <1>5 DEF Made, Making
  <2> QED BY <1>1, <1>2, <1>6, <2>1
<1>8. Sound(E, made(P), Settled(P, bs, Len(E), Q), Q, R = {}) /\ Same(D, E)
  BY <1>1, <1>2, <1>4, ModelFilled
<1>9. Same(D, F) /\ Sound(F, made(P), Settled(P, bs, Len(F), Q), Q, R = {})
  <2>1. PICK clean, M, S : clean = (R = {}) /\ M = made(P) /\ S = Settled(P, bs, Len(E), Q)
    OBVIOUS
  <2>2. Sound(E, M, S, Q, clean)
    BY <1>8, <2>1 DEF Sound
  <2>3. PICK places, G : places = out.places /\ G = stamped(E, places)
    OBVIOUS
  <2>4. Sound(G, M, S, Q, clean)
    BY <2>2, <2>3, Stamps
  <2>5. Same(E, G)
    BY <2>2, <2>3, Stamps
  <2>6. Same(D, G) /\ Len(G) = Len(E)
    BY <1>8, <2>5, SameTwice DEF Same
  <2>7. F = E \/ F = G
    BY <1>4, <2>3
  <2>8. Same(D, F) /\ Len(F) = Len(E) /\ Sound(F, M, S, Q, clean)
    BY <1>8, <2>2, <2>4, <2>6, <2>7
  <2>9. Sound(F, M, Settled(P, bs, Len(F), Q), Q, clean)
    BY <2>1, <2>8
  <2> QED BY <2>1, <2>8, <2>9 DEF Sound
<1>10. Standing(published', F, <<>>, R, {})
  <2>1. CASE published' = P
    <3>1. PICK clean, S : clean = (R = {}) /\ S = Settled(P, bs, Len(F), Q)
      OBVIOUS
    <3>2. Sound(F, made(P), S, Q, clean)
      BY <1>9, <3>1 DEF Sound
    <3>3. Standing(P, F, <<>>, R, {})
      BY <1>5, <1>9, <3>2, EndsUnpublished
    <3> QED BY <2>1, <3>3
  <2>2. CASE b.diags = {} /\ published' = Append(P, y)
    <3>1. R = {}
      BY <1>6, <2>2
    <3>2. Standing(P, F, bs, {}, {})
      BY <1>5, <1>7, <1>9, <3>1, NothingMaking
    <3>3. y.root = bs[1].object /\ y.last = Len(F)
      BY <1>1, <1>3, <1>6, <1>9 DEF Same
    <3>4. Standing(Append(P, y), F, <<>>, {}, {})
      BY <1>4, <1>5, <3>2, <3>3, EndsPublished
    <3> QED BY <2>2, <3>1, <3>4
  <2> QED BY <1>4, <2>1, <2>2
<1>11. /\ levels' = <<>> /\ targets' = <<>> /\ root' = NoObject /\ handled' = {} /\ phase' = "describing"
  BY <1>4, <1>5 DEF Forget
<1>12. Making(<<>>, <<>>, NoObject) = {}
  BY DEF Making
<1>13. Standing(published, objects, builders, reported, Making(builders, levels, root))'
  BY <1>3, <1>4, <1>10, <1>11, <1>12
<1>14. NoModel' /\ TargetsOK(targets, Len(objects))'
  BY <1>11 DEF NoModel, TargetsOK, IsSeq
<1> QED BY <1>11, <1>13, <1>14 DEF DeriveInv
LEMMA DeriveNext ==
  ASSUME DeriveInv, [Next]_vars
  PROVE  DeriveInv'
<1>1. CASE UNCHANGED vars
  BY <1>1 DEF vars, locals, DeriveInv, NoModel, b
<1>2. CASE StartDerive
  BY <1>2, StartKeeps
<1>3. CASE Statement
  BY <1>3, StatementsKeep
<1>4. CASE CloseGroup
  BY <1>4, GroupsKeep DEF CloseGroup
<1>5. CASE Compile
  BY <1>5, StartsCompiling, PastKeeps, FieldKeeps, GroupCompiles, LevelCloses,
     CompletenessKeeps DEF Compile
<1>6. CASE PlaceMoved
  BY <1>6, MovesOn, ShadowKeeps, RebuiltKeeps DEF PlaceMoved
<1>7. CASE Return
  BY <1>7, NestedKeeps, ReturnKeeps DEF Return
<1> QED BY <1>1, <1>2, <1>3, <1>4, <1>5, <1>6, <1>7 DEF Next

LEMMA DeriveInit == Init => DeriveInv
<1> SUFFICES ASSUME Init PROVE DeriveInv
  OBVIOUS
<1>1. /\ objects = <<>> /\ builders = <<>> /\ published = <<>> /\ reported = {}
      /\ phase = "describing" /\ NoModel
  BY DEF Init, NoModel
<1>2. PICK e : e = <<>>
  OBVIOUS
<1>3. IsSeq(e) /\ DOMAIN e = {} /\ Len(e) = 0
  BY <1>2, EmptySeqOf DEF IsSeq
<1>4. made(e) = {} /\ Making(e, e, NoObject) = {} /\ Settled(e, e, 0, {}) = {}
  <2>1. made(e) = {} /\ Making(e, e, NoObject) = {}
    BY <1>3 DEF made, Making
  <2>2. Base(e, 0) .. 0 = {}
    BY <1>2 DEF Base
  <2> QED BY <2>1, <2>2 DEF Settled
<1>5. Sound(e, {}, {}, {}, TRUE)
  BY <1>3 DEF Sound, Heap, OwnNames, Grounded, Complete, NotHeld
<1>6. Work(e, e, {}, {}, TRUE) /\ Descriptors(e, e, 0)
  BY <1>2, <1>3 DEF Work, Apart, NotedIn, Called, Descriptors
<1>7. PICK R, clean : R = {} /\ clean = (R = {})
  OBVIOUS
<1>8. clean = TRUE
  BY <1>7
<1>9. Sound(e, made(e), Settled(e, e, Len(e), R), R, R = {}) /\ Work(e, e, R, R, R = {})
  BY <1>3, <1>4, <1>5, <1>6, <1>7, <1>8
<1>10. Standing(e, e, e, R, R)
  BY <1>3, <1>6, <1>7, <1>9 DEF Standing
<1>11. TargetsOK(targets, Len(objects))
  BY <1>1, <1>2, <1>3 DEF NoModel, TargetsOK
<1>12. Standing(published, objects, builders, reported, Making(builders, levels, root))
  BY <1>1, <1>2, <1>4, <1>7, <1>10 DEF NoModel
<1> QED BY <1>1, <1>11, <1>12 DEF DeriveInv

LEMMA DeriveAlways == Spec => []DeriveInv
<1>1. DeriveInv /\ [Next]_vars => DeriveInv'
  BY DeriveNext
<1> QED BY <1>1, DeriveInit, PTL DEF Spec

------------------------------------------------------------------------------
(* The theorems.                                                           *)

(* However a Go type refers to itself, through however many others, a      *)
(* describe function is not run for a type it is being run for: the        *)
(* recursion of derivation is bounded by the pairs of a type and a         *)
(* function there are (builder.go openObject).                             *)
THEOREM DescriptionsDoNotNest == Spec => []NoneInsideItself
<1>1. DeriveInv => NoneInsideItself
  BY DEF DeriveInv, Standing, Work, Apart, NoneInsideItself
<1> QED BY <1>1, DeriveAlways, PTL

(* The names of the fields of an object tell them apart, at every level a  *)
(* group opens or a former path rebuilds, while it is compiled and ever    *)
(* after: a lookup by name finds the one field there is (builder.go place, *)
(* moved.go placeMoved).                                                   *)
THEOREM NamesTellFieldsApart == Spec => []NamesApart
<1>1. DeriveInv => NamesApart
  BY DEF DeriveInv, Standing, Sound, OwnNames, NamesApart
<1> QED BY <1>1, DeriveAlways, PTL

(* Of whatever Go types, no exported value is forgotten in a struct that a *)
(* published descriptor describes: checkCompleteness looks at what was     *)
(* handled, and what it took for handled is bound in the description or    *)
(* ignored by it, later derivations and the moved fields notwithstanding   *)
(* (builder.go checkCompleteness, compileContainer).                       *)
THEOREM NothingForgotten == Spec => []Accounted
<1>1. DeriveInv => Accounted
  BY DEF DeriveInv, Standing, Sound, Complete, Accounted
<1> QED BY <1>1, DeriveAlways, PTL

(* No object of a published descriptor holds itself through sections that  *)
(* are always there, in however many descriptors: what is bound while it   *)
(* is open is reported, what is bound later is made, and nothing is made   *)
(* of what is not (register.go openObject, group.go objectFunc).           *)
THEOREM NoEndlessInstance == Spec => []EveryInstanceFinite
<1>1. DeriveInv => EveryInstanceFinite
  BY DEF DeriveInv, Standing, Sound, EveryInstanceFinite
<1> QED BY <1>1, DeriveAlways, PTL

(* A descriptor is published only by a derivation that has reported        *)
(* nothing, at no depth and in no phase: what a describe function noted in *)
(* a builder of its own was handed on to whatever opened it                *)
(* (builder.go Derive, describeNested).                                    *)
THEOREM NothingUnsoundPublished == Spec => PublishedClean
<1>1. ASSUME DeriveInv, [Next]_vars, published' # published
      PROVE  reported' = {}
  <2>1. DeriveReturns
    BY <1>1 DEF Next, vars, StartDerive, Statement, Refuse, RegisterValue, RegisterDescribed,
                RegisterRunning, Describe, RegisterMismatched, OneOf, OpenGroup, Invariant,
                CloseGroup, Compile, StartCompile, CompileAgain, CompileIgnored, CompileTaken,
                CompileField, CompileGroup, CloseLevel, CheckCompleteness, PlaceMoved,
                NextTarget, PlaceShadow, RebuildLevel, EnterLevel, InTheWay, Return, NestedReturns
  <2>2. b.diags = {} /\ Len(builders) = 1 /\ reported' = reported /\ Working
    BY <1>1, <2>1 DEF DeriveReturns, Compiled, Moving
  <2>3. reported \subseteq b.diags
    BY <1>1, <2>2, OnlyBuilder
  <2> QED BY <2>2, <2>3
<1>2. DeriveInv /\ [Next]_vars => [published' # published => reported' = {}]_vars
  BY <1>1
<1> QED BY <1>2, DeriveAlways, PTL DEF Spec, PublishedClean
===============================================================================
