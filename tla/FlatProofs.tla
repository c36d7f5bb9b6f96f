------------------------------ MODULE FlatProofs ------------------------------
(***************************************************************************)
(* Theorems about FlatSource, for every plan, every store and every number *)
(* of rotations, and whatever the texts mean.                              *)
(***************************************************************************)
EXTENDS FlatSource, SequenceLemmas

------------------------------------------------------------------------------
(* The plan.                                                               *)

LEMMA PlanOK ==
  ASSUME source \in Sources
  PROVE  /\ IsSeq(plan) /\ Len(plan) \in Nat /\ DOMAIN plan = 1 .. Len(plan)
         /\ \A k \in DOMAIN plan : /\ IsSeq(plan[k].names) /\ Len(plan[k].names) \in Nat
                                   /\ DOMAIN plan[k].names = 1 .. Len(plan[k].names)
         /\ \A k, m \in DOMAIN plan :
              k # m => Range(plan[k].names) \cap Range(plan[m].names) = {}
<1>1. IsSeq(plan) /\ \A k \in DOMAIN plan : IsSeq(plan[k].names)
  BY PlansOK DEF plan
<1>2. \A k, m \in DOMAIN plan : k # m => Range(plan[k].names) \cap Range(plan[m].names) = {}
  BY PlansOK DEF plan
<1> QED BY <1>1, <1>2, SeqOfElements

\* A name of an entry of the plan.
LEMMA LookingAt ==
  ASSUME TypeOK, Looking
  PROVE  /\ next \in DOMAIN plan /\ tried \in DOMAIN plan[next].names
         /\ e = plan[next] /\ name = plan[next].names[tried]
         /\ tried \in Nat \ {0} /\ next \in Nat \ {0}
<1>1. source \in Sources
  BY DEF TypeOK
<1>2. next \in DOMAIN plan /\ next \in Nat \ {0}
  BY <1>1, PlanOK DEF TypeOK, Looking
<1>3. tried \in DOMAIN plan[next].names /\ tried \in Nat \ {0}
  BY <1>1, <1>2, PlanOK DEF TypeOK, Looking, e
<1> QED BY <1>2, <1>3 DEF e, name

------------------------------------------------------------------------------
(* The inductive invariant.                                                *)

\* Whatever the directory holds, it held then.
Nothing(n) == \E s \in held : ~UsableIn(s, n)

\* The names tried so far, of the entry that is looked at, had nothing.
TriedInVain ==
  next <= Len(plan) => \A u \in 1 .. tried - 1 : Nothing(plan[next].names[u])

\* What an assignment comes from.
Sourced(a) ==
  \E k \in DOMAIN plan : \E t \in DOMAIN plan[k].names :
    /\ a.path = plan[k].path /\ a.origin = plan[k].names[t]
    /\ \E s \in held : UsableIn(s, a.origin) /\ a.value \in said(plan[k], value(s[a.origin]))
    /\ \A u \in 1 .. t - 1 : Nothing(plan[k].names[u])

\* An entry is assigned, in error, or not set anywhere.
Settled(l, k) ==
  \/ \E i \in DOMAIN l.assignments : l.assignments[i].path = plan[k].path
  \/ \E f \in l.faults : f.path = plan[k].path
  \/ \A n \in Range(plan[k].names) : Nothing(n)

AllSourced(l)       == \A i \in DOMAIN l.assignments : Sourced(l.assignments[i])
AllSettled(l, upTo) == \A k \in 1 .. upTo - 1 : Settled(l, k)

LEMMA InventedParts == NothingInvented <=> AllSourced(layer) /\ AllSettled(layer, next)
BY DEF NothingInvented, AllSourced, AllSettled, Sourced, Settled, Nothing

\* The layer as Load makes it, before it reads the first entry too.
LayerOK(l) ==
  /\ IsSeq(l.assignments)
  /\ {"assignments", "faults"} \subseteq DOMAIN l

AtStart == phase = "start" => next = 1

FlatInv ==
  TypeOK /\ LayerOK(layer) /\ AtStart /\ TriedInVain /\ AllSourced(layer) /\ AllSettled(layer, next)

\* What the store says of the name that is looked at.
LEMMA NotHeld ==
  ASSUME TypeOK, Looking, ~refused(name), ~holds(name)
  PROVE  ~UsableIn(store, name)
BY DEF UsableIn, holds

LEMMA Held ==
  ASSUME TypeOK, Looking, ~refused(name), holds(name)
  PROVE  UsableIn(store, name)
<1>1. name \in DOMAIN store /\ (source.allowEmpty \/ value(store[name]) # <<>>)
  BY DEF holds
<1>2. store[name] # Unreadable
  <2>1. source \in Sources /\ store \in Stores(source) /\ source.kind \in {"env", "file"}
    BY KindsOK DEF TypeOK
  <2>2. CASE source.kind = "env"
    BY <1>1, <2>1, <2>2, TextsInEnvironment
  <2>3. CASE source.kind = "file"
    BY <1>1, <2>3 DEF refused
  <2> QED BY <2>1, <2>2, <2>3
<1> QED BY <1>1, <1>2 DEF UsableIn

------------------------------------------------------------------------------
(* What a step leaves as it was.                                           *)

LEMMA LoadKeeps ==
  ASSUME TypeOK, [Next]_vars
  PROVE  source' = source /\ held \subseteq held' /\ (LoadStep => held' = held /\ store' = store)
<1>1. CASE UNCHANGED vars
  BY <1>1 DEF vars
<1>2. CASE LoadStep
  BY <1>2 DEF LoadStep, Start, TryNext, ReadFails, Read, NotSet, Loaded, Unchanging
<1>3. CASE Rotate
  BY <1>3 DEF Rotate, LoadStep, Start, TryNext, ReadFails, Read, NotSet, Loaded, Unchanging, TypeOK
<1> QED BY <1>1, <1>2, <1>3 DEF Next

\* What held, of the plan and of the stores there were, goes on holding.
LEMMA StaysTrue ==
  ASSUME source' = source, held \subseteq held'
  PROVE  /\ plan' = plan
         /\ \A n : Nothing(n) => Nothing(n)'
         /\ \A a : Sourced(a) => Sourced(a)'
         /\ \A l, k : Settled(l, k) => Settled(l, k)'
<1>1. plan' = plan
  BY DEF plan
<1>2. \A s, n : UsableIn(s, n)' <=> UsableIn(s, n)
  BY DEF UsableIn, value
<1>3. \A entry, text : said(entry, text)' = said(entry, text) /\ value(text)' = value(text)
  BY DEF said, erases, value
<1>4. \A n : Nothing(n) => Nothing(n)'
  BY <1>2 DEF Nothing
<1>5. ASSUME NEW a, Sourced(a)
      PROVE  Sourced(a)'
  BY <1>1, <1>2, <1>3, <1>4, <1>5 DEF Sourced
<1>6. ASSUME NEW l, NEW k, Settled(l, k)
      PROVE  Settled(l, k)'
  BY <1>1, <1>4, <1>6 DEF Settled
<1> QED BY <1>1, <1>4, <1>5, <1>6

------------------------------------------------------------------------------
(* Steps.                                                                  *)

\* Nothing that was assigned or reported is lost.
Grown(l, m) ==
  /\ \A i \in DOMAIN l.assignments :
       i \in DOMAIN m.assignments /\ m.assignments[i] = l.assignments[i]
  /\ l.faults \subseteq m.faults

LEMMA SettledStays ==
  ASSUME NEW l, NEW m, Grown(l, m), NEW k, Settled(l, k)
  PROVE  Settled(m, k)
BY DEF Settled, Grown

\* Load is done with an entry and goes on to the next.
LEMMA GoesOnToNext ==
  ASSUME FlatInv, source' = source, held' = held, store' = store, phase = "reading",
         phase' = phase, rotations' = rotations, next <= Len(plan), GoOn,
         LayerOK(layer'), Grown(layer, layer'), AllSourced(layer'), Settled(layer', next),
         Len(layer'.assignments) <= Len(layer.assignments) + 1
  PROVE  FlatInv'
<1>1. /\ plan' = plan /\ source \in Sources /\ next' = next + 1 /\ tried' = 1
      /\ next \in 1 .. Len(plan) + 1 /\ Len(plan) \in Nat
  BY StaysTrue, PlanOK DEF FlatInv, TypeOK, GoOn
<1>2. IsSeq(layer.assignments) /\ Len(layer.assignments) \in Nat /\ Len(layer'.assignments) \in Nat
  BY SeqOfElements DEF FlatInv, LayerOK
<1>3. TypeOK'
  <2>1. Len(layer'.assignments) < next'
    BY <1>1, <1>2 DEF FlatInv, TypeOK
  <2>2. next' \in 1 .. Len(plan') + 1
    BY <1>1
  <2>3. next' <= Len(plan') => tried' \in 1 .. Len(e.names)' + 1
    <3>1. SUFFICES ASSUME next' <= Len(plan) PROVE Len(plan[next'].names) \in Nat
      BY <1>1 DEF e
    <3>2. next' \in DOMAIN plan
      BY <1>1, <3>1, PlanOK
    <3> QED BY <1>1, <3>2, PlanOK
  <2> QED BY <2>1, <2>2, <2>3 DEF FlatInv, TypeOK
<1>4. AtStart'
  BY DEF AtStart
<1>5. TriedInVain'
  BY <1>1 DEF TriedInVain
<1>6. AllSourced(layer)'
  BY StaysTrue DEF AllSourced
<1>7. AllSettled(layer, next)'
  <2> SUFFICES ASSUME NEW k \in 1 .. next' - 1
               PROVE  Settled(layer, k)'
    BY DEF AllSettled
  <2>1. Settled(layer', k)
    <3>1. k \in 1 .. next - 1 \/ k = next
      BY <1>1
    <3>2. CASE k \in 1 .. next - 1
      BY <3>2, SettledStays DEF FlatInv, AllSettled
    <3> QED BY <3>1, <3>2
  <2> QED BY <2>1, StaysTrue
<1>8. LayerOK(layer)'
  BY DEF LayerOK
<1> QED BY <1>3, <1>4, <1>5, <1>6, <1>7, <1>8 DEF FlatInv

LEMMA ReportGrows ==
  ASSUME LayerOK(layer), NEW code, Report(code)
  PROVE  /\ LayerOK(layer') /\ Grown(layer, layer') /\ layer'.assignments = layer.assignments
         /\ \E f \in layer'.faults : f.path = e.path
<1>1. PICK fault : fault.path = e.path /\ layer' = [layer EXCEPT !.faults = @ \cup {fault}]
  BY DEF Report
<1> QED BY <1>1 DEF LayerOK, Grown

LEMMA AssignGrows ==
  ASSUME LayerOK(layer), NEW v, Assign(v)
  PROVE  /\ LayerOK(layer') /\ Grown(layer, layer')
         /\ layer'.assignments = Append(layer.assignments, [path |-> e.path, value |-> v, origin |-> name])
         /\ Len(layer'.assignments) = Len(layer.assignments) + 1
         /\ Len(layer.assignments) + 1 \in DOMAIN layer'.assignments
         /\ layer'.assignments[Len(layer.assignments) + 1] =
              [path |-> e.path, value |-> v, origin |-> name]
         /\ \A i \in DOMAIN layer'.assignments :
              i \in DOMAIN layer.assignments \/ i = Len(layer.assignments) + 1
<1>1. PICK a, as : a = [path |-> e.path, value |-> v, origin |-> name] /\ as = layer.assignments
  OBVIOUS
<1>2. layer' = [layer EXCEPT !.assignments = Append(@, a)]
  BY <1>1 DEF Assign
<1>3. /\ IsSeq(as) /\ IsSeq(Append(as, a)) /\ Len(Append(as, a)) = Len(as) + 1
      /\ \A i \in 1 .. Len(as) : Append(as, a)[i] = as[i]
      /\ Append(as, a)[Len(as) + 1] = a
  BY <1>1, AppendToSeq DEF LayerOK
<1>4. /\ Len(as) \in Nat /\ DOMAIN as = 1 .. Len(as)
      /\ DOMAIN Append(as, a) = 1 .. Len(as) + 1
  BY <1>3, SeqOfElements
<1>5. layer'.assignments = Append(as, a) /\ layer'.faults = layer.faults
  BY <1>1, <1>2 DEF LayerOK
<1>6. /\ 1 .. Len(as) \subseteq 1 .. Len(as) + 1 /\ Len(as) + 1 \in 1 .. Len(as) + 1
      /\ \A i \in 1 .. Len(as) + 1 : i \in 1 .. Len(as) \/ i = Len(as) + 1
  <2>1. PICK n \in Nat : n = Len(as)
    BY <1>4
  <2>2. /\ 1 .. n \subseteq 1 .. n + 1 /\ n + 1 \in 1 .. n + 1
        /\ \A i \in 1 .. n + 1 : i \in 1 .. n \/ i = n + 1
    OBVIOUS
  <2> QED BY <2>1, <2>2
<1>7. LayerOK(layer')
  BY <1>2, <1>3, <1>5 DEF LayerOK
<1>8. Grown(layer, layer')
  BY <1>1, <1>3, <1>4, <1>5, <1>6 DEF Grown
<1> QED BY <1>1, <1>3, <1>4, <1>5, <1>6, <1>7, <1>8

LEMMA ReadKeeps ==
  ASSUME FlatInv, Read
  PROVE  FlatInv'
<1>1. /\ Looking /\ ~refused(name) /\ holds(name) /\ GoOn /\ TypeOK /\ LayerOK(layer)
      /\ source' = source /\ store' = store /\ held' = held /\ phase' = phase
      /\ rotations' = rotations /\ phase = "reading" /\ next <= Len(plan)
  BY DEF Read, Unchanging, FlatInv, Looking
<1>2. /\ next \in DOMAIN plan /\ tried \in DOMAIN plan[next].names
      /\ e = plan[next] /\ name = plan[next].names[tried]
  BY <1>1, LookingAt
<1>3. IsSeq(layer.assignments) /\ Len(layer.assignments) \in Nat
  BY <1>1, SeqOfElements DEF LayerOK
<1>4. CASE \E code : Report(code)
  <2>1. /\ LayerOK(layer') /\ Grown(layer, layer') /\ layer'.assignments = layer.assignments
        /\ \E f \in layer'.faults : f.path = e.path
    BY <1>1, <1>4, ReportGrows
  <2>2. Settled(layer', next) /\ AllSourced(layer')
    BY <1>2, <2>1 DEF Settled, AllSourced, FlatInv
  <2>3. Len(layer'.assignments) <= Len(layer.assignments) + 1
    BY <1>3, <2>1
  <2> QED BY <1>1, <2>1, <2>2, <2>3, GoesOnToNext
<1>5. CASE \E v \in said(e, value(store[name])) : Assign(v)
  <2>1. PICK v \in said(e, value(store[name])) : Assign(v)
    BY <1>5
  <2>2. PICK a, n : /\ a = [path |-> e.path, value |-> v, origin |-> name]
                    /\ n = Len(layer.assignments) + 1
    OBVIOUS
  <2>3. /\ LayerOK(layer') /\ Grown(layer, layer')
        /\ Len(layer'.assignments) = n /\ n \in DOMAIN layer'.assignments
        /\ layer'.assignments[n] = a
        /\ \A i \in DOMAIN layer'.assignments : i \in DOMAIN layer.assignments \/ i = n
    BY <1>1, <2>1, <2>2, AssignGrows
  <2>4. Sourced(a)
    <3>1. /\ a.path = plan[next].path /\ a.origin = plan[next].names[tried]
      BY <1>2, <2>2
    <3>2. /\ store \in held /\ UsableIn(store, a.origin)
          /\ a.value \in said(plan[next], value(store[a.origin]))
      BY <1>1, <1>2, <2>1, <2>2, Held DEF TypeOK
    <3>3. \A u \in 1 .. tried - 1 : Nothing(plan[next].names[u])
      BY <1>1 DEF FlatInv, TriedInVain
    <3> QED BY <1>2, <3>1, <3>2, <3>3 DEF Sourced
  <2>5. AllSourced(layer')
    BY <2>3, <2>4 DEF AllSourced, Grown, FlatInv
  <2>6. Settled(layer', next)
    BY <1>2, <2>2, <2>3 DEF Settled
  <2>7. Len(layer'.assignments) <= Len(layer.assignments) + 1
    BY <1>3, <2>2, <2>3
  <2> QED BY <1>1, <2>3, <2>5, <2>6, <2>7, GoesOnToNext
<1>6. \/ \E code : Report(code)
      \/ \E v \in said(e, value(store[name])) : Assign(v)
  <2>1. PICK text : text = value(store[name])
    OBVIOUS
  <2>2. \/ e.discriminator /\ Assign(<<"text", text>>)
        \/ ~e.discriminator /\ erases(e.field, text) /\ Assign(<<"null", "">>)
        \/ /\ ~e.discriminator /\ ~erases(e.field, text)
           /\ \E v \in decode(e.field, text) :
                IF v \in Failed THEN Report("undecodable") ELSE Assign(v)
    BY <2>1 DEF Read
  <2>3. CASE e.discriminator
    BY <2>1, <2>2, <2>3 DEF said
  <2>4. CASE ~e.discriminator /\ erases(e.field, text)
    BY <2>1, <2>2, <2>4 DEF said
  <2>5. CASE ~e.discriminator /\ ~erases(e.field, text)
    BY <2>1, <2>2, <2>5 DEF said
  <2> QED BY <2>3, <2>4, <2>5
<1> QED BY <1>4, <1>5, <1>6

LEMMA ReadFailsKeeps ==
  ASSUME FlatInv, ReadFails
  PROVE  FlatInv'
<1>1. /\ Looking /\ GoOn /\ LayerOK(layer) /\ TypeOK /\ Report("unreadable")
      /\ source' = source /\ store' = store /\ held' = held /\ phase' = phase
      /\ rotations' = rotations /\ phase = "reading" /\ next <= Len(plan)
  BY DEF ReadFails, Unchanging, FlatInv, Looking
<1>2. e = plan[next] /\ Len(layer.assignments) \in Nat
  BY <1>1, LookingAt, SeqOfElements DEF LayerOK
<1>3. /\ LayerOK(layer') /\ Grown(layer, layer') /\ layer'.assignments = layer.assignments
      /\ \E f \in layer'.faults : f.path = e.path
  BY <1>1, ReportGrows
<1>4. Settled(layer', next) /\ AllSourced(layer')
  BY <1>2, <1>3 DEF Settled, AllSourced, FlatInv
<1>5. Len(layer'.assignments) <= Len(layer.assignments) + 1
  BY <1>2, <1>3
<1> QED BY <1>1, <1>3, <1>4, <1>5, GoesOnToNext

LEMMA NotSetKeeps ==
  ASSUME FlatInv, NotSet
  PROVE  FlatInv'
<1>1. /\ GoOn /\ LayerOK(layer) /\ TypeOK /\ layer' = layer /\ tried > Len(e.names)
      /\ source' = source /\ store' = store /\ held' = held /\ phase' = phase
      /\ rotations' = rotations /\ phase = "reading" /\ next <= Len(plan)
  BY DEF NotSet, Unchanging, FlatInv
<1>2. next \in DOMAIN plan /\ Len(layer.assignments) \in Nat
  BY <1>1, PlanOK, SeqOfElements DEF TypeOK, LayerOK
<1>3. DOMAIN plan[next].names = 1 .. Len(plan[next].names) /\ Len(plan[next].names) \in Nat
  BY <1>1, <1>2, PlanOK DEF TypeOK
<1>4. \A u \in DOMAIN plan[next].names : u \in 1 .. tried - 1
  BY <1>1, <1>3 DEF TypeOK, e
<1>5. \A n \in Range(plan[next].names) : Nothing(n)
  BY <1>1, <1>4 DEF Range, FlatInv, TriedInVain
<1>6. Settled(layer', next) /\ AllSourced(layer') /\ Grown(layer, layer') /\ LayerOK(layer')
  BY <1>1, <1>5 DEF Settled, Grown, FlatInv
<1>7. Len(layer'.assignments) <= Len(layer.assignments) + 1
  BY <1>1, <1>2
<1> QED BY <1>1, <1>6, <1>7, GoesOnToNext

\* A step that neither goes on in the plan nor changes the layer's assignments.
LEMMA StaysAtEntry ==
  ASSUME FlatInv, source' = source, held \subseteq held', LayerOK(layer'), Grown(layer, layer'),
         layer'.assignments = layer.assignments, next' = next, TypeOK', AtStart', TriedInVain'
  PROVE  FlatInv'
<1>1. AllSourced(layer)'
  BY StaysTrue DEF AllSourced, FlatInv
<1>2. AllSettled(layer, next)'
  <2> SUFFICES ASSUME NEW k \in 1 .. next - 1
               PROVE  Settled(layer, k)'
    BY DEF AllSettled
  <2>1. Settled(layer', k)
    BY SettledStays DEF FlatInv, AllSettled
  <2> QED BY <2>1, StaysTrue
<1>3. LayerOK(layer)'
  BY DEF LayerOK
<1> QED BY <1>1, <1>2, <1>3 DEF FlatInv

LEMMA StartKeeps ==
  ASSUME FlatInv, Start
  PROVE  FlatInv'
<1>1. /\ source' = source /\ held' = held /\ store' = store /\ rotations' = rotations
      /\ next' = next /\ tried' = tried /\ phase = "start" /\ phase' \in {"reading", "loaded", "failed"}
      /\ layer' = layer \/ layer' = [layer EXCEPT !.faults = collided]
  BY DEF Start
<1>2. plan' = plan /\ e' = e
  BY <1>1 DEF plan, e
<1>3. next = 1 /\ layer'.assignments = layer.assignments /\ LayerOK(layer')
  BY <1>1 DEF FlatInv, AtStart, LayerOK
<1>4. TypeOK'
  BY <1>1, <1>2, <1>3 DEF FlatInv, TypeOK
<1>5. AtStart'
  BY <1>1, <1>3 DEF AtStart
<1>6. TriedInVain'
  BY <1>1, <1>2, StaysTrue DEF TriedInVain, FlatInv
<1>7. AllSourced(layer)'
  BY <1>1, <1>3, StaysTrue DEF AllSourced, FlatInv
<1>8. AllSettled(layer, next)' /\ LayerOK(layer)'
  BY <1>1, <1>3 DEF AllSettled, LayerOK
<1> QED BY <1>4, <1>5, <1>6, <1>7, <1>8 DEF FlatInv

LEMMA SameLayer == ASSUME layer' = layer, LayerOK(layer) PROVE LayerOK(layer') /\ Grown(layer, layer')
BY DEF Grown

LEMMA TryNextKeeps ==
  ASSUME FlatInv, TryNext
  PROVE  FlatInv'
<1>1. /\ source' = source /\ held' = held /\ store' = store /\ rotations' = rotations
      /\ phase' = phase /\ phase = "reading" /\ next' = next /\ layer' = layer
      /\ tried' = tried + 1 /\ Looking /\ ~refused(name) /\ ~holds(name)
      /\ TypeOK /\ LayerOK(layer)
  BY DEF TryNext, Unchanging, Looking, FlatInv
<1>2. plan' = plan /\ e' = e
  BY <1>1 DEF plan, e
<1>3. /\ next \in DOMAIN plan /\ tried \in DOMAIN plan[next].names
      /\ e = plan[next] /\ name = plan[next].names[tried] /\ tried \in Nat \ {0}
  BY <1>1, LookingAt
<1>4. TypeOK'
  <2>1. DOMAIN e.names = 1 .. Len(e.names) /\ Len(e.names) \in Nat
    BY <1>1, <1>3, PlanOK DEF TypeOK
  <2>2. tried + 1 \in 1 .. Len(e.names) + 1
    BY <1>3, <2>1
  <2> QED BY <1>1, <1>2, <2>2 DEF TypeOK
<1>5. AtStart'
  BY <1>1 DEF AtStart
<1>6. TriedInVain'
  <2>1. Nothing(plan[next].names[tried])
    BY <1>1, <1>3, NotHeld DEF TypeOK, Nothing
  <2>2. ASSUME NEW u \in 1 .. tried' - 1 PROVE Nothing(plan[next].names[u])
    <3>1. u \in 1 .. tried - 1 \/ u = tried
      BY <1>1, <1>3
    <3> QED BY <1>1, <2>1, <3>1 DEF FlatInv, TriedInVain, Looking
  <2> QED BY <1>1, <1>2, <2>2, StaysTrue DEF TriedInVain
<1> QED BY <1>1, <1>4, <1>5, <1>6, SameLayer, StaysAtEntry

LEMMA LoadedKeeps ==
  ASSUME FlatInv, Loaded \/ UNCHANGED vars
  PROVE  FlatInv'
<1>1. /\ source' = source /\ held' = held /\ store' = store /\ rotations' = rotations
      /\ next' = next /\ layer' = layer /\ tried' = tried
      /\ phase' \in {phase, "loaded"} /\ LayerOK(layer)
  BY DEF Loaded, vars, FlatInv
<1>2. plan' = plan /\ e' = e
  BY <1>1 DEF plan, e
<1>3. TypeOK'
  BY <1>1, <1>2 DEF FlatInv, TypeOK
<1>4. AtStart'
  BY <1>1 DEF AtStart, FlatInv
<1>5. TriedInVain'
  BY <1>1, <1>2, StaysTrue DEF TriedInVain, FlatInv
<1> QED BY <1>1, <1>3, <1>4, <1>5, SameLayer, StaysAtEntry

\* What was read before the directory changed had been there.
LEMMA RotateKeeps ==
  ASSUME FlatInv, Rotate
  PROVE  FlatInv'
<1>1. /\ source' = source /\ held' = held \cup {store'} /\ store' \in Stores(source)
      /\ rotations < MaxRotations /\ rotations' = rotations + 1
      /\ phase' = phase /\ next' = next /\ layer' = layer /\ tried' = tried /\ LayerOK(layer)
  BY DEF Rotate, FlatInv
<1>2. plan' = plan /\ e' = e /\ held \subseteq held'
  BY <1>1 DEF plan, e
<1>3. TypeOK'
  <2>1. rotations' \in 0 .. MaxRotations
    BY <1>1, MaxRotationsOK DEF FlatInv, TypeOK
  <2> QED BY <1>1, <1>2, <2>1 DEF FlatInv, TypeOK
<1>4. AtStart'
  BY <1>1 DEF AtStart, FlatInv
<1>5. TriedInVain'
  BY <1>1, <1>2, StaysTrue DEF TriedInVain, FlatInv
<1> QED BY <1>1, <1>2, <1>3, <1>4, <1>5, SameLayer, StaysAtEntry

LEMMA FlatInit == Init => FlatInv
<1> SUFFICES ASSUME Init PROVE FlatInv
  OBVIOUS
<1>1. /\ source \in Sources /\ store \in Stores(source) /\ held = {store} /\ rotations = 0
      /\ phase = "start" /\ next = 1 /\ tried = 1
      /\ layer = [assignments |-> <<>>, faults |-> {}]
  BY DEF Init
<1>2. LayerOK(layer) /\ layer.assignments = <<>>
  BY <1>1 DEF LayerOK, IsSeq
<1>3. TypeOK
  <2>1. Len(plan) \in Nat /\ (1 <= Len(plan) => Len(plan[1].names) \in Nat)
    BY <1>1, PlanOK
  <2> QED BY <1>1, <1>2, <2>1, MaxRotationsOK DEF TypeOK, e
<1>4. AtStart /\ TriedInVain /\ AllSourced(layer) /\ AllSettled(layer, next)
  BY <1>1, <1>2 DEF AtStart, TriedInVain, AllSourced, AllSettled
<1> QED BY <1>2, <1>3, <1>4 DEF FlatInv

LEMMA FlatNext ==
  ASSUME FlatInv, [Next]_vars
  PROVE  FlatInv'
BY StartKeeps, TryNextKeeps, ReadFailsKeeps, ReadKeeps, NotSetKeeps, LoadedKeeps, RotateKeeps
   DEF Next, LoadStep

LEMMA FlatAlways == Spec => []FlatInv
<1>1. FlatInv /\ [Next]_vars => FlatInv'
  BY FlatNext
<1> QED BY <1>1, FlatInit, PTL DEF Spec

(* Load never leaves its plan, and an entry of it is assigned at most once *)
(* (FlatSource, TypeOK).                                                   *)
THEOREM LoadTypeCorrect == Spec => []TypeOK
<1>1. FlatInv => TypeOK
  BY DEF FlatInv
<1> QED BY <1>1, FlatAlways, PTL

(* However often the directory is replaced under a load, each value it     *)
(* returns stood as a whole under a name of its field; a name was passed   *)
(* over, for a later one or for none, only if there was a moment with      *)
(* nothing usable under it (env.go lookup, file.go read).                  *)
THEOREM LoadInventsNothing == Spec => []NothingInvented
<1>1. FlatInv => NothingInvented
  BY InventedParts DEF FlatInv
<1> QED BY <1>1, FlatAlways, PTL

------------------------------------------------------------------------------
(* One value of a path, one path of a name.                                *)

Sets(a, k) == a.path = plan[k].path /\ a.origin \in Range(plan[k].names)

\* What is assigned is of an entry that Load is done with.
OfEarlierEntries ==
  \A i \in DOMAIN layer.assignments :
    \E k \in DOMAIN plan : k < next /\ Sets(layer.assignments[i], k)

LEMMA AssignmentsNext ==
  ASSUME FlatInv, [Next]_vars
  PROVE  \/ layer'.assignments = layer.assignments /\ next' \in {next, next + 1}
         \/ Looking /\ next' = next + 1 /\ \E v : Assign(v)
<1>1. CASE Read
  <2>1. Looking /\ next' = next + 1 /\ ((\E v : Assign(v)) \/ \E code : Report(code))
    BY <1>1 DEF Read, GoOn
  <2> QED BY <2>1, ReportGrows DEF FlatInv
<1>2. CASE ReadFails
  BY <1>2, ReportGrows DEF ReadFails, GoOn, FlatInv
<1>3. CASE Start
  BY <1>3 DEF Start, FlatInv, LayerOK
<1>4. CASE TryNext \/ NotSet \/ Loaded \/ Rotate \/ UNCHANGED vars
  BY <1>4 DEF TryNext, NotSet, GoOn, Loaded, Rotate, vars
<1> QED BY <1>1, <1>2, <1>3, <1>4 DEF Next, LoadStep

LEMMA ApartNext ==
  ASSUME FlatInv, PathsApart(source), OfEarlierEntries, OneNameOneValue, [Next]_vars
  PROVE  OfEarlierEntries' /\ OneNameOneValue'
<1>1. source' = source /\ plan' = plan /\ TypeOK /\ next \in Nat
  BY LoadKeeps, StaysTrue DEF FlatInv, TypeOK
<1>2. PICK as, bs : as = layer.assignments /\ bs = layer'.assignments
  OBVIOUS
<1>3. CASE bs = as /\ next' \in {next, next + 1}
  <2>1. OfEarlierEntries'
    <3> SUFFICES ASSUME NEW i \in DOMAIN bs
                 PROVE  \E k \in DOMAIN plan : k < next' /\ Sets(bs[i], k)
      BY <1>1, <1>2 DEF OfEarlierEntries, Sets
    <3>1. PICK k \in DOMAIN plan : k < next /\ Sets(bs[i], k)
      BY <1>2, <1>3 DEF OfEarlierEntries
    <3>2. k \in Nat
      BY <1>1, PlanOK DEF TypeOK
    <3>3. next \in Nat /\ next' \in {next, next + 1}
      BY <1>1, <1>3
    <3>4. k < next'
      BY <3>1, <3>2, <3>3
    <3> QED BY <3>1, <3>4
  <2> QED BY <1>2, <1>3, <2>1 DEF OneNameOneValue
<1>4. CASE Looking /\ next' = next + 1 /\ \E v : Assign(v)
  <2>1. PICK v : Assign(v)
    BY <1>4
  <2>2. PICK a, n : /\ a = [path |-> e.path, value |-> v, origin |-> name]
                    /\ n = Len(layer.assignments) + 1
    OBVIOUS
  <2>3. /\ \A i \in DOMAIN as : i \in DOMAIN bs /\ bs[i] = as[i]
        /\ n \in DOMAIN bs /\ bs[n] = a
        /\ \A i \in DOMAIN bs : i \in DOMAIN as \/ i = n
    BY <1>2, <2>1, <2>2, AssignGrows DEF FlatInv, Grown
  <2>4. next \in DOMAIN plan /\ Sets(a, next)
    <3>1. /\ next \in DOMAIN plan /\ tried \in DOMAIN plan[next].names
          /\ e = plan[next] /\ name = plan[next].names[tried]
      BY <1>1, <1>4, LookingAt
    <3> QED BY <2>2, <3>1 DEF Sets, Range
  <2>5. \A i \in DOMAIN bs : \/ i = n
                             \/ i \in DOMAIN as /\ \E k \in DOMAIN plan : k < next /\ Sets(bs[i], k)
    BY <1>2, <2>3 DEF OfEarlierEntries
  <2>6. OfEarlierEntries'
    <3> SUFFICES ASSUME NEW i \in DOMAIN bs
                 PROVE  \E k \in DOMAIN plan : k < next' /\ Sets(bs[i], k)
      BY <1>1, <1>2 DEF OfEarlierEntries, Sets
    <3>1. CASE i = n
      BY <1>1, <1>4, <2>3, <2>4, <3>1
    <3>2. CASE i # n
      <4>1. PICK k \in DOMAIN plan : k < next /\ Sets(bs[i], k)
        BY <2>5, <3>2
      <4>2. k \in Nat
        BY <1>1, PlanOK DEF TypeOK
      <4> QED BY <1>1, <1>4, <4>1, <4>2
    <3> QED BY <3>1, <3>2
  <2>7. ASSUME NEW i \in DOMAIN bs, i # n
        PROVE  bs[i].origin # a.origin /\ bs[i].path # a.path
    <3>1. PICK k \in DOMAIN plan : k < next /\ Sets(bs[i], k)
      BY <2>5, <2>7
    <3>2. k # next
      BY <1>1, <3>1
    <3>3. /\ plan[k].path # plan[next].path
          /\ Range(plan[k].names) \cap Range(plan[next].names) = {}
      BY <1>1, <2>4, <3>2, PlanOK DEF PathsApart, plan, TypeOK
    <3> QED BY <2>4, <3>1, <3>3 DEF Sets
  <2>8. ASSUME NEW i \in DOMAIN bs, NEW j \in DOMAIN bs,
               bs[i].origin = bs[j].origin \/ bs[i].path = bs[j].path
        PROVE  i = j
    <3>1. CASE i = n \/ j = n
      BY <2>3, <2>7, <2>8, <3>1
    <3>2. CASE i # n /\ j # n
      BY <1>2, <2>3, <2>8, <3>2 DEF OneNameOneValue
    <3> QED BY <3>1, <3>2
  <2>9. OneNameOneValue'
    BY <1>2, <2>8 DEF OneNameOneValue
  <2> QED BY <2>6, <2>9
<1> QED BY <1>2, <1>3, <1>4, AssignmentsNext

(* Where the entries of a plan are for paths of their own, a load sets no  *)
(* path twice and uses no name for two paths, whatever was tried first and *)
(* whatever changed meanwhile ("A flat pass would let a nested field       *)
(* silently claim the same variable as a top-level one", env.go plan).     *)
THEOREM LoadSetsOnce ==
  ASSUME \A src \in Sources : PathsApart(src)
  PROVE  Spec => []OneNameOneValue
<1>1. Init => OfEarlierEntries /\ OneNameOneValue
  BY DEF Init, OfEarlierEntries, OneNameOneValue
<1>2. FlatInv /\ OfEarlierEntries /\ OneNameOneValue /\ [Next]_vars
        => OfEarlierEntries' /\ OneNameOneValue'
  BY ApartNext DEF FlatInv, TypeOK
<1> QED BY <1>1, <1>2, FlatAlways, PTL DEF Spec

------------------------------------------------------------------------------
(* Numbers.                                                                *)

\* What the operator of division is, for a divisor that is no literal.
LEMMA Division ==
  ASSUME NEW a \in Int, NEW b \in Nat \ {0}
  PROVE  a \div b \in Int /\ a % b \in 0 .. b - 1 /\ a = b * (a \div b) + (a % b)
OBVIOUS

LEMMA NoMultipleBetween ==
  ASSUME NEW b \in Nat \ {0}, NEW k \in Int, -b < b * k, b * k < b
  PROVE  k = 0
<1>1. CASE k >= 1
  <2>1. PICK j \in Nat : k = 1 + j
    BY <1>1
  <2>2. b * k = b + b * j /\ b * j >= 0
    BY <2>1
  <2> QED BY <2>2
<1>2. CASE k <= -1
  <2>1. PICK j \in Nat : k = -1 - j
    BY <1>2
  <2>2. b * k = -b - b * j /\ b * j >= 0
    BY <2>1
  <2> QED BY <2>2
<1> QED BY <1>1, <1>2

\* Wrapping is off by a multiple of 2^64, and by none where nothing wraps.
LEMMA Wrapping ==
  ASSUME NEW n \in Int
  PROVE  /\ wrapped(n) \in Signed
         /\ \E k \in Int : wrapped(n) = n - (2 * Half) * k
         /\ n \in Signed => wrapped(n) = n
<1>1. Half \in Nat \ {0} /\ 2 * Half \in Nat \ {0}
  BY HalfPositive
<1>2. PICK k \in Int, r \in 0 .. 2 * Half - 1 :
        r = (n + Half) % (2 * Half) /\ n + Half = (2 * Half) * k + r
  <2>1. PICK c \in Int, b \in Nat \ {0} : c = n + Half /\ b = 2 * Half
    BY <1>1
  <2>2. c \div b \in Int /\ c % b \in 0 .. b - 1 /\ c = b * (c \div b) + (c % b)
    BY Division
  <2> QED BY <2>1, <2>2
<1>3. wrapped(n) = r - Half
  BY <1>2 DEF wrapped
<1>4. wrapped(n) \in Signed /\ wrapped(n) = n - (2 * Half) * k
  <2>1. PICK m \in Int : m = (2 * Half) * k
    BY <1>1
  <2> QED BY <1>1, <1>2, <1>3, <2>1 DEF Signed
<1>5. ASSUME n \in Signed
      PROVE  wrapped(n) = n
  <2>1. PICK m \in Int : m = (2 * Half) * k
    BY <1>1
  <2>2. -(2 * Half) < m /\ m < 2 * Half
    BY <1>1, <1>2, <1>5, <2>1 DEF Signed
  <2>3. k = 0
    BY <1>1, <2>1, <2>2, NoMultipleBetween
  <2> QED BY <1>1, <1>4, <2>3
<1> QED BY <1>4, <1>5


LEMMA NaturalQuotient ==
  ASSUME NEW c \in Nat, NEW b \in Nat \ {0}, NEW m \in Int
  PROVE  /\ c \div b = m => m * b <= c /\ c < m * b + b
         /\ c = m * b => c \div b = m
<1>1. PICK d \in Int, r \in 0 .. b - 1 : d = c \div b /\ r = c % b /\ c = b * d + r
  BY Division
<1>2. b * d = d * b
  OBVIOUS
<1>3. c \div b = m => m * b <= c /\ c < m * b + b
  BY <1>1, <1>2
<1>4. ASSUME c = m * b
      PROVE  c \div b = m
  <2>1. b * (m - d) = r
    <3>1. b * (m - d) = m * b - b * d
      OBVIOUS
    <3> QED BY <1>1, <1>4, <3>1
  <2>2. m - d = 0
    <3>1. -b < b * (m - d) /\ b * (m - d) < b
      BY <1>1, <2>1
    <3> QED BY <3>1, NoMultipleBetween
  <2> QED BY <1>1, <2>2
<1> QED BY <1>3, <1>4

LEMMA Quotient ==
  ASSUME NEW a \in Int, NEW b \in Nat \ {0}, NEW n \in Int
  PROVE  /\ quotient(a, b) = n => n * b - b < a /\ a < n * b + b
         /\ a = n * b => quotient(a, b) = n
<1>1. CASE a >= 0
  BY <1>1, NaturalQuotient DEF quotient
<1>2. CASE a < 0
  <2>1. PICK d \in Int : d = (-a) \div b
    BY <1>2, Division
  <2>2. quotient(a, b) = -d
    BY <1>2, <2>1 DEF quotient
  <2>3. (-n) * b = -(n * b)
    OBVIOUS
  <2>4. /\ d = -n => (-n) * b <= -a /\ -a < (-n) * b + b
        /\ -a = (-n) * b => d = -n
    BY <1>2, <2>1, NaturalQuotient
  <2>5. PICK p \in Int : p = n * b
    OBVIOUS
  <2> QED BY <2>2, <2>3, <2>4, <2>5
<1> QED BY <1>1, <1>2

(* A count of a unit is a duration exactly if their product is an int64,   *)
(* and then it is that product, although the check has only the product    *)
(* that wrapped ("reporting overflow rather than wrapping", scalar.go      *)
(* ScaleUnit).  A unit is positive and an int64 itself, so dividing back   *)
(* misses the count by less than what a wrap would change.                 *)
THEOREM ScalingIsExact ==
  ASSUME NEW unit \in 1 .. Half - 1, NEW n \in Signed
  PROVE  /\ ScaleUnitFits(unit, n) <=> n * unit \in Signed
         /\ ScaleUnitFits(unit, n) => ScaleUnit(unit, n) = n * unit
<1>1. Half \in Nat \ {0} /\ unit \in Nat \ {0} /\ unit < Half /\ n \in Int
  BY HalfPositive DEF Signed
<1>2. PICK p \in Int : p = n * unit
  BY <1>1
<1>3. PICK w \in Int, k \in Int : w = wrapped(p) /\ w = p - (2 * Half) * k /\ w \in Signed
  <2>1. wrapped(p) \in Signed /\ \E k \in Int : wrapped(p) = p - (2 * Half) * k
    BY Wrapping
  <2>2. wrapped(p) \in Int
    BY <1>1, <2>1 DEF Signed
  <2> QED BY <2>1, <2>2
<1>4. ASSUME n * unit \in Signed
      PROVE  ScaleUnitFits(unit, n) /\ ScaleUnit(unit, n) = n * unit
  BY <1>1, <1>2, <1>4, Wrapping, Quotient DEF ScaleUnitFits, ScaleUnit
<1>5. ASSUME ScaleUnitFits(unit, n)
      PROVE  n * unit \in Signed
  <2>1. CASE n = 0
    BY <1>1, <2>1 DEF Signed
  <2>2. CASE quotient(w, unit) = n
    <3>1. p - unit < w /\ w < p + unit
      BY <1>1, <1>2, <1>3, <2>2, Quotient
    <3>2. PICK m \in Int : m = (2 * Half) * k
      BY <1>1
    <3>3. -(2 * Half) < m /\ m < 2 * Half
      BY <1>1, <1>3, <3>1, <3>2
    <3>4. k = 0
      BY <1>1, <3>2, <3>3, NoMultipleBetween
    <3> QED BY <1>1, <1>2, <1>3, <3>4
  <2> QED BY <1>2, <1>3, <1>5, <2>1, <2>2 DEF ScaleUnitFits
<1> QED BY <1>4, <1>5

\* compareValues compares the numbers, whatever their types.
LEMMA ComparesNumbers ==
  ASSUME NEW a \in Givable, NEW b \in Givable
  PROVE  compareValues(a, b) = cmpOrdered(a[2], b[2])
<1>1. /\ a[1] \in {"int", "uint"} /\ b[1] \in {"int", "uint"} /\ a[2] \in Int /\ b[2] \in Int
      /\ a[1] = "int" => a[2] \in Signed
      /\ b[1] = "int" => b[2] \in Signed
      /\ a[1] = "uint" => a[2] \in Unsigned
      /\ b[1] = "uint" => b[2] \in Unsigned
  BY HalfPositive DEF Givable, Signed, Unsigned
<1>2. CASE a[1] = b[1]
  <2>1. ~(a[1] = "int" /\ b[1] = "uint") /\ ~(a[1] = "uint" /\ b[1] = "int")
    BY <1>2
  <2> QED BY <1>2, <2>1, Zenon DEF compareValues
<1>3. CASE a[1] = "int" /\ b[1] = "uint"
  <2>1. compareValues(a, b) =
          IF b[2] > Half - 1 THEN -1 ELSE cmpOrdered(a[2], wrapped(b[2]))
    <3>1. a[1] # b[1] /\ ~(a[1] = "uint" /\ b[1] = "int")
      BY <1>3
    <3> QED BY <1>3, <3>1, Zenon DEF compareValues
  <2>2. CASE b[2] > Half - 1
    BY <1>1, <1>3, <2>1, <2>2, HalfPositive DEF cmpOrdered, Signed
  <2>3. CASE ~(b[2] > Half - 1)
    <3>1. wrapped(b[2]) = b[2]
      BY <1>1, <1>3, <2>3, Wrapping, HalfPositive DEF Signed, Unsigned
    <3> QED BY <2>1, <2>3, <3>1
  <2> QED BY <2>2, <2>3
<1>4. CASE a[1] = "uint" /\ b[1] = "int"
  <2>1. compareValues(a, b) =
          IF a[2] > Half - 1 THEN 1 ELSE cmpOrdered(wrapped(a[2]), b[2])
    <3>1. a[1] # b[1] /\ ~(a[1] = "int" /\ b[1] = "uint")
      BY <1>4
    <3> QED BY <1>4, <3>1, Zenon DEF compareValues
  <2>2. CASE a[2] > Half - 1
    BY <1>1, <1>4, <2>1, <2>2, HalfPositive DEF cmpOrdered, Signed
  <2>3. CASE ~(a[2] > Half - 1)
    <3>1. wrapped(a[2]) = a[2]
      BY <1>1, <1>4, <2>3, Wrapping, HalfPositive DEF Signed, Unsigned
    <3> QED BY <2>1, <2>3, <3>1
  <2> QED BY <2>2, <2>3
<1> QED BY <1>1, <1>2, <1>3, <1>4

LEMMA RangeIsExact ==
  ASSUME NEW low \in Givable, NEW high \in Givable, NEW exclusive \in BOOLEAN, NEW v \in Givable,
         NEW bounds, bounds = [minimum |-> low, maximum |-> high, exclusive |-> exclusive]
  PROVE  InRange(bounds, v) <=> Within(bounds, v[2])
<1>1. v[2] \in Int /\ low[2] \in Int /\ high[2] \in Int
  BY HalfPositive DEF Givable, Signed, Unsigned
<1>2. /\ compareValues(v, low) = cmpOrdered(v[2], low[2])
      /\ compareValues(v, high) = cmpOrdered(v[2], high[2])
  BY ComparesNumbers
<1>3. InRange(bounds, v) <=>
        /\ cmpOrdered(v[2], low[2]) > 0 \/ (cmpOrdered(v[2], low[2]) = 0 /\ ~exclusive)
        /\ cmpOrdered(v[2], high[2]) < 0 \/ (cmpOrdered(v[2], high[2]) = 0 /\ ~exclusive)
  BY <1>2 DEF InRange
<1>4. Within(bounds, v[2]) <=>
        IF exclusive THEN low[2] < v[2] /\ v[2] < high[2]
        ELSE low[2] <= v[2] /\ v[2] <= high[2]
  BY DEF Within
<1>5. \A x, y \in Int : /\ cmpOrdered(x, y) > 0 <=> y < x
                        /\ cmpOrdered(x, y) < 0 <=> x < y
                        /\ cmpOrdered(x, y) = 0 <=> x = y
  BY DEF cmpOrdered
<1>6. /\ cmpOrdered(v[2], low[2]) > 0 <=> low[2] < v[2]
      /\ cmpOrdered(v[2], low[2]) = 0 <=> v[2] = low[2]
      /\ cmpOrdered(v[2], high[2]) < 0 <=> v[2] < high[2]
      /\ cmpOrdered(v[2], high[2]) = 0 <=> v[2] = high[2]
  BY <1>1, <1>5
<1> HIDE DEF InRange, Within
<1> QED BY <1>1, <1>3, <1>4, <1>6

------------------------------------------------------------------------------
(* What is read is a number of the field's type.                           *)

LEMMA NotFailed ==
  ASSUME NEW v, v[1] = "number"
  PROVE  v \notin Failed
<1> SUFFICES ASSUME v \in Failed
             PROVE  FALSE
  OBVIOUS
<1>1. v = <<"failed", "">>
  BY DEF Failed
<1>2. v[1] = "failed"
  BY <1>1
<1> QED BY <1>2

LEMMA ParsedDuration ==
  ASSUME NEW unit, NEW t
  PROVE  \/ t[1] = "duration" /\ parsedDuration(unit, t) = Number({t[2]})
         \/ t[1] = "count" /\ t[2] \in Signed
              /\ parsedDuration(unit, t) = Number({ScaleUnit(unit, t[2])})
         \/ t[1] = "count" /\ parsedDuration(unit, t) = scaledFloat(unit, 2 * t[2])
         \/ parsedDuration(unit, t) = Number({0})
         \/ t[1] = "halves" /\ parsedDuration(unit, t) = scaledFloat(unit, t[2])
         \/ parsedDuration(unit, t) = Number({-Half, 0})
         \/ parsedDuration(unit, t) = Failed
<1>1. CASE t[1] = "duration"
  <2>1. t[1] # "count" /\ t[1] # "halves" /\ t[1] # "nan"
    BY <1>1
  <2> QED BY <1>1, <2>1, Zenon DEF parsedDuration
<1>2. CASE t[1] = "count"
  <2>1. t[1] # "duration" /\ t[1] # "halves" /\ t[1] # "nan"
    BY <1>2
  <2>2. CASE unit > 0
    <3>1. unit # 0
      BY <2>2
    <3>2. parsedDuration(unit, t) =
            IF t[2] \notin Signed THEN scaledFloat(unit, 2 * t[2])
            ELSE IF ScaleUnitFits(unit, t[2]) THEN Number({ScaleUnit(unit, t[2])}) ELSE Failed
      BY <1>2, <2>1, <2>2, <3>1, Zenon DEF parsedDuration
    <3> QED BY <1>2, <3>2
  <2>3. CASE ~(unit > 0) /\ unit = 0
    BY <1>2, <2>1, <2>3, Zenon DEF parsedDuration
  <2>4. CASE ~(unit > 0) /\ unit # 0
    BY <1>2, <2>1, <2>4, Zenon DEF parsedDuration
  <2> QED BY <2>2, <2>3, <2>4
<1>3. CASE t[1] = "halves"
  <2>1. t[1] # "count" /\ t[1] # "duration" /\ t[1] # "nan"
    BY <1>3
  <2> QED BY <1>3, <2>1, Zenon DEF parsedDuration
<1>4. CASE t[1] = "nan"
  <2>1. t[1] # "count" /\ t[1] # "duration" /\ t[1] # "halves"
    BY <1>4
  <2> QED BY <1>4, <2>1, Zenon DEF parsedDuration
<1>5. CASE t[1] \notin {"count", "duration", "halves", "nan"}
  <2>1. t[1] # "count" /\ t[1] # "duration" /\ t[1] # "halves" /\ t[1] # "nan"
    BY <1>5
  <2> QED BY <2>1, Zenon DEF parsedDuration
<1> QED BY <1>1, <1>2, <1>3, <1>4, <1>5

LEMMA FloatFits ==
  ASSUME NEW unit \in 0 .. Half - 1, NEW halves \in Int, NEW v \in scaledFloat(unit, halves),
         v[1] = "number"
  PROVE  v[2] \in Signed
<1>1. Half \in Nat \ {0} /\ unit \in Nat
  BY HalfPositive
<1>2. PICK p \in Int : p = halves * unit
  BY <1>1
<1>3. ScaleUnitFloatFits(unit, halves) /\ v \in Number(ScaleUnitFloat(unit, halves))
  BY NotFailed DEF scaledFloat
<1>4. p \in -(2 * Half) .. 2 * Half
  BY <1>1, <1>2, <1>3 DEF ScaleUnitFloatFits
<1>5. v[2] \in ScaleUnitFloat(unit, halves)
  BY <1>3 DEF Number
<1>6. CASE p = 2 * Half
  BY <1>1, <1>2, <1>5, <1>6 DEF ScaleUnitFloat, Signed
<1>7. CASE p # 2 * Half
  BY <1>1, <1>2, <1>4, <1>5, <1>7 DEF ScaleUnitFloat, Signed, quotient
<1> QED BY <1>6, <1>7

LEMMA DurationFits ==
  ASSUME NEW unit \in 0 .. Half - 1, NEW token, TokenOK(token), NEW v \in ParseDuration(unit, token),
         v[1] = "number"
  PROVE  v[2] \in Signed
<1>1. Half \in Nat \ {0} /\ unit \in Nat /\ 0 \in Signed /\ -Half \in Signed
  BY HalfPositive DEF Signed
<1>2. PICK t : t = tenBased(token) /\ v \in parsedDuration(unit, t)
  BY DEF ParseDuration
<1>3. /\ t[1] \in {"count", "halves"} => t[2] \in Int
      /\ t[1] = "duration" => t[2] \in Signed
  BY <1>2 DEF tenBased, TokenOK
<1>4. \A S : v \in Number(S) => v[2] \in S
  BY DEF Number
<1>5. v \notin Failed
  BY NotFailed
<1>6. CASE t[1] = "duration" /\ parsedDuration(unit, t) = Number({t[2]})
  BY <1>2, <1>3, <1>4, <1>6
<1>7. CASE t[1] = "count" /\ t[2] \in Signed
             /\ parsedDuration(unit, t) = Number({ScaleUnit(unit, t[2])})
  <2>1. t[2] * unit \in Int
    BY <1>1, <1>3, <1>7
  <2> QED BY <1>2, <1>4, <1>7, <2>1, Wrapping DEF ScaleUnit
<1>8. CASE t[1] = "count" /\ parsedDuration(unit, t) = scaledFloat(unit, 2 * t[2])
  <2>1. 2 * t[2] \in Int
    BY <1>3, <1>8
  <2> QED BY <1>2, <1>8, <2>1, FloatFits
<1>9. CASE t[1] = "halves" /\ parsedDuration(unit, t) = scaledFloat(unit, t[2])
  BY <1>2, <1>3, <1>9, FloatFits
<1>10. CASE parsedDuration(unit, t) \in {Number({0}), Number({-Half, 0})}
  BY <1>1, <1>2, <1>4, <1>10
<1>11. CASE parsedDuration(unit, t) = Failed
  BY <1>2, <1>5, <1>11
<1> QED BY <1>6, <1>7, <1>8, <1>9, <1>10, <1>11, ParsedDuration

LEMMA IntegerFits ==
  ASSUME NEW kind, NEW token, TokenOK(token), NEW v \in integer(kind, token), v[1] = "number"
  PROVE  v[2] \in parseInteger(kind)
BY NotFailed DEF integer, Number

LEMMA ScalarFits ==
  ASSUME NEW number, number.kind \in {"int", "uint", "duration"}, number.unit \in 0 .. Half - 1,
         NEW token, TokenOK(token), NEW v \in parseScalar(number, token), v[1] = "number"
  PROVE  v[2] \in parseInteger(number.kind)
<1>1. CASE number.kind = "duration"
  <2>1. parseScalar(number, token) = ParseDuration(number.unit, token)
    BY <1>1, Zenon DEF parseScalar
  <2> QED BY <1>1, <2>1, DurationFits DEF parseInteger
<1>2. CASE number.kind \in {"int", "uint"}
  <2>1. number.kind # "none" /\ number.kind # "duration"
    BY <1>2
  <2>2. parseScalar(number, token) = integer(number.kind, tenBased(token))
    BY <2>1, Zenon DEF parseScalar
  <2>3. TokenOK(tenBased(token))
    BY DEF TokenOK, tenBased
  <2> QED BY <2>2, <2>3, IntegerFits
<1> QED BY <1>1, <1>2

LEMMA SpelledParsed ==
  ASSUME NEW token, NEW v \in Spelled(token), v[1] = "number" PROVE FALSE
<1>1. v \notin Failed
  BY NotFailed
<1>2. PICK kept : kept = token[2]
  OBVIOUS
<1>3. v = <<"parsed", kept>>
  BY <1>1, <1>2 DEF Spelled
<1> QED BY <1>3

LEMMA ParsedFits ==
  ASSUME NEW f, NEW text, f.number.kind \in NumberKinds,
         f.number.unit \in 0 .. Half - 1, \A i \in DOMAIN text : TokenOK(text[i]), IsSeq(text),
         NEW v \in ParseText(f, text), v[1] = "number"
  PROVE  <<signedness(f.number), v[2]>> \in Givable
<1>1. v \notin Failed
  BY NotFailed
<1>2. CASE f.shape = "list"
  <2>1. f.shape # "map"
    BY <1>2
  <2>2. ParseText(f, text) = parseList(f.number, text)
    BY <1>2, <2>1, Zenon DEF ParseText
  <2>3. PICK vs : v = <<"list", vs>>
    BY <1>1, <2>2 DEF parseList
  <2> QED BY <2>3
<1>3. CASE f.shape = "map"
  <2>1. f.shape # "list"
    BY <1>3
  <2>2. ParseText(f, text) = Failed
    BY <1>3, <2>1, Zenon DEF ParseText
  <2> QED BY <1>1, <2>2
<1>4. CASE f.shape \notin {"list", "map"} /\ f.number.kind = "none"
  <2>1. f.shape # "list" /\ f.shape # "map"
    BY <1>4
  <2>2. ParseText(f, text) = {<<"text", text>>}
    BY <1>4, <2>1, Zenon DEF ParseText
  <2> QED BY <2>2
<1>5. CASE f.shape \notin {"list", "map"} /\ f.number.kind # "none"
  <2>1. f.shape # "list" /\ f.shape # "map"
    BY <1>5
  <2>2. ParseText(f, text) = IF Len(text) = 1 THEN parseScalar(f.number, Head(text)) ELSE Failed
    BY <1>5, <2>1, Zenon DEF ParseText
  <2>3. Len(text) = 1 /\ v \in parseScalar(f.number, Head(text))
    BY <1>1, <2>2
  <2>4. TokenOK(Head(text))
    <3>1. 1 \in DOMAIN text
      BY <2>3, SeqOfElements
    <3>2. Head(text) = text[1]
      BY <2>3, SeqOfElements
    <3> QED BY <3>1, <3>2
  <2>5. f.number.kind # "spelled"
    <3>1. SUFFICES ASSUME f.number.kind = "spelled" PROVE FALSE
      OBVIOUS
    <3>2. parseScalar(f.number, Head(text)) = Spelled(Head(text))
      BY <3>1, Zenon DEF parseScalar
    <3> QED BY <2>3, <3>2, SpelledParsed
  <2>6. v[2] \in parseInteger(f.number.kind)
    BY <1>5, <2>3, <2>4, <2>5, ScalarFits DEF NumberKinds
  <2> QED BY <2>5, <2>6 DEF parseInteger, signedness, Givable, NumberKinds
<1> QED BY <1>2, <1>3, <1>4, <1>5

LEMMA ReadFits ==
  ASSUME NEW f, NEW text, f.number.kind \in NumberKinds,
         f.number.unit \in 0 .. Half - 1, \A i \in DOMAIN text : TokenOK(text[i]), IsSeq(text),
         NEW v \in decode(f, text), v[1] = "number"
  PROVE  <<signedness(f.number), v[2]>> \in Givable
<1>1. CASE f.decoder
  <2>1. PICK token : token = Head(text)
    OBVIOUS
  <2>2. v \in Spelled(token)
    BY <1>1, <2>1, NotFailed DEF decode
  <2> QED BY <2>2, SpelledParsed
<1>2. CASE ~f.decoder
  BY <1>2, ParsedFits DEF decode
<1> QED BY <1>1, <1>2

\* What a name holds is a text, without the newline of a file too.
LEMMA TextHeld ==
  ASSUME source \in Sources, NEW s \in Stores(source), NEW n \in DOMAIN s
  PROVE  IsSeq(value(s[n])) /\ \A i \in DOMAIN value(s[n]) : TokenOK(value(s[n])[i])
<1>1. PICK text : text = s[n]
  OBVIOUS
<1>2. IsSeq(text) /\ \A i \in DOMAIN text : TokenOK(text[i])
  BY <1>1, TextsOK
<1>3. CASE value(text) = text
  BY <1>1, <1>2, <1>3
<1>4. CASE value(text) # text
  <2>1. text # <<>> /\ value(text) = Front(text)
    BY <1>4 DEF value
  <2>2. IsSeq(Front(text)) /\ \A i \in DOMAIN Front(text) : i \in DOMAIN text /\ Front(text)[i] = text[i]
    <3>1. Len(text) \in Nat /\ DOMAIN text = 1 .. Len(text)
      BY <1>2, SeqOfElements
    <3>2. /\ IsSeq(Front(text)) /\ DOMAIN Front(text) = 1 .. Len(text) - 1
          /\ \A i \in 1 .. Len(text) - 1 : Front(text)[i] = text[i]
      BY <1>2, <2>1, FrontOfSeq
    <3> QED BY <3>1, <3>2
  <2> QED BY <1>1, <1>2, <2>1, <2>2
<1> QED BY <1>3, <1>4

(* A range bounds the number that was read, whatever Go types the number   *)
(* and the bounds are kept in (constraints.go compareValues), whatever the *)
(* width of an integer is.                                                 *)
THEOREM NumbersAreBounded == Spec => []RangesBoundNumbers
<1>1. ASSUME TypeOK, NothingInvented
      PROVE  RangesBoundNumbers
  <2> SUFFICES ASSUME NEW i \in DOMAIN layer.assignments, layer.assignments[i].value[1] = "number",
                      NEW k \in DOMAIN plan,
                      layer.assignments[i].origin \in Range(plan[k].names),
                      NEW low \in Givable, NEW high \in Givable, NEW exclusive \in BOOLEAN
               PROVE  LET v == <<signedness(plan[k].field.number), layer.assignments[i].value[2]>>
                          bounds == [minimum |-> low, maximum |-> high, exclusive |-> exclusive]
                      IN InRange(bounds, v) <=> Within(bounds, v[2])
    BY DEF RangesBoundNumbers
  <2>1. source \in Sources
    BY <1>1 DEF TypeOK
  <2>2. PICK m \in DOMAIN plan :
          /\ layer.assignments[i].origin \in Range(plan[m].names)
          /\ \E s \in held : /\ layer.assignments[i].origin \in DOMAIN s
                             /\ layer.assignments[i].value
                                  \in said(plan[m], value(s[layer.assignments[i].origin]))
    BY <1>1 DEF NothingInvented, UsableIn, Range
  <2>3. m = k
    BY <2>1, <2>2, PlanOK
  <2>4. PICK a, s : /\ a = layer.assignments[i] /\ s \in held /\ a.origin \in DOMAIN s
                    /\ a.value \in said(plan[k], value(s[a.origin])) /\ a.value[1] = "number"
    BY <2>2, <2>3
  <2>5. PICK text : text = value(s[a.origin])
    OBVIOUS
  <2>6. IsSeq(text) /\ \A j \in DOMAIN text : TokenOK(text[j])
    BY <1>1, <2>1, <2>4, <2>5, TextHeld DEF TypeOK
  <2>7. ~plan[k].discriminator /\ a.value \in decode(plan[k].field, text)
    <3>1. a.value \notin {<<"text", text>>} /\ a.value \notin {<<"null", "">>}
      <4>1. <<"text", text>>[1] # "number" /\ <<"null", "">>[1] # "number"
        OBVIOUS
      <4> QED BY <2>4, <4>1
    <3> QED BY <2>4, <2>5, <3>1 DEF said
  <2>8. PICK f : f = plan[k].field
    OBVIOUS
  <2>9. f.number.kind \in NumberKinds /\ f.number.unit \in 0 .. Half - 1
    BY <2>1, <2>7, <2>8, NumbersOK DEF plan
  <2>10. <<signedness(f.number), a.value[2]>> \in Givable
    BY <2>4, <2>6, <2>7, <2>8, <2>9, ReadFits
  <2> QED BY <2>4, <2>8, <2>10, RangeIsExact
<1> QED BY <1>1, LoadTypeCorrect, LoadInventsNothing, PTL

------------------------------------------------------------------------------
(* Formats.                                                                *)

LEMMA DurationsAlike ==
  ASSUME NEW number, number.kind = "duration", number.unit > 0, NEW token, TokenOK(token)
  PROVE  SpelledAlike(number, token)
<1>1. meant(number, token) = parseScalar(number, token)
  BY DEF meant
<1>2. \A quoted \in BOOLEAN : DecodeYAML(number, quoted, token) = parseScalar(number, token)
  <2> TAKE quoted \in BOOLEAN
  <2>1. checkTag(number.kind, tag(quoted, token)) /\ number.kind \in {"none", "duration"}
    BY DEF checkTag
  <2> QED BY <2>1, Zenon DEF DecodeYAML
<1>3. \A accepts : DecodeString(number, accepts, token) = parseScalar(number, token)
  BY DEF DecodeString
<1>4. ASSUME token[1] \in {"count", "halves"}
      PROVE  DecodeNumber(number, token) = parseScalar(number, token)
  <2>1. DecodeNumber(number, token) = scaled(number.unit, token)
    <3>1. number.kind # "none" /\ number.unit > 0
      OBVIOUS
    <3>2. DecodeNumber(number, token) =
            IF number.unit > 0 THEN scaled(number.unit, token) ELSE Failed
      BY <3>1, Zenon DEF DecodeNumber
    <3> QED BY <3>1, <3>2
  <2>2. parseScalar(number, token) = parsedDuration(number.unit, token)
    <3>1. parseScalar(number, token) = ParseDuration(number.unit, token)
      BY Zenon DEF parseScalar
    <3>2. tenBased(token) = token
      BY <1>4 DEF tenBased
    <3> QED BY <3>1, <3>2 DEF ParseDuration
  <2>3. number.unit # 0
    OBVIOUS
  <2>4. CASE token[1] = "count"
    <3>1. token[1] # "duration" /\ token[1] # "halves" /\ token[1] # "nan"
      BY <2>4
    <3>2. parsedDuration(number.unit, token) =
            IF token[2] \notin Signed THEN scaledFloat(number.unit, 2 * token[2])
            ELSE IF ScaleUnitFits(number.unit, token[2])
                 THEN Number({ScaleUnit(number.unit, token[2])}) ELSE Failed
      BY <2>3, <2>4, <3>1, Zenon DEF parsedDuration
    <3> QED BY <2>1, <2>2, <2>4, <3>2 DEF scaled
  <2>5. CASE token[1] = "halves"
    <3>1. token[1] # "duration" /\ token[1] # "count" /\ token[1] # "nan"
      BY <2>5
    <3>2. parsedDuration(number.unit, token) =
            IF number.unit > 0 THEN scaledFloat(number.unit, token[2]) ELSE Failed
      BY <2>5, <3>1, Zenon DEF parsedDuration
    <3> QED BY <2>1, <2>2, <2>5, <3>2 DEF scaled
  <2> QED BY <1>4, <2>4, <2>5
<1> QED BY <1>1, <1>2, <1>3, <1>4 DEF SpelledAlike, Unquoted, InDocuments

\* An integer of a type.
LEMMA IntegersAlike ==
  ASSUME NEW number, number.kind \in {"int", "uint"}, NEW token, TokenOK(token)
  PROVE  SpelledAlike(number, token)
<1>1. number.kind # "none" /\ number.kind # "duration"
  OBVIOUS
<1>2. \A t : parseScalar(number, t) = integer(number.kind, tenBased(t))
  BY <1>1, Zenon DEF parseScalar
<1>3. \A t : t[1] # "count" => integer(number.kind, t) = Failed
  BY DEF integer
<1>4. token[1] # "octal" => tenBased(token) = token /\ canonicalNumber(token) = token
  BY DEF tenBased, canonicalNumber
<1>5. DecodeYAML(number, TRUE, token) = Failed
  <2>1. tag(TRUE, token) = "str"
    BY Zenon DEF tag
  <2>2. ~checkTag(number.kind, tag(TRUE, token))
    BY <1>1, <2>1 DEF checkTag
  <2> QED BY <1>1, <2>2, Zenon DEF DecodeYAML
<1>6. DecodeYAML(number, FALSE, token) = meant(number, token)
  <2>1. CASE token[1] = "octal"
    <3>1. token[1] # "count" /\ token[1] # "halves"
      BY <2>1
    <3>2. tag(FALSE, token) = "int"
      BY <2>1, <3>1, Zenon DEF tag
    <3>3. DecodeYAML(number, FALSE, token) = parseScalar(number, canonicalNumber(token))
      <4>1. checkTag(number.kind, tag(FALSE, token)) /\ number.kind \notin {"none", "duration"}
        BY <1>1, <3>2 DEF checkTag
      <4> QED BY <4>1, Zenon DEF DecodeYAML
    <3>4. canonicalNumber(token) = <<"count", token[2].meant>>
      BY <2>1 DEF canonicalNumber
    <3>5. tenBased(<<"count", token[2].meant>>) = <<"count", token[2].meant>>
      BY DEF tenBased
    <3> QED BY <1>1, <1>2, <2>1, <3>3, <3>4, <3>5 DEF meant
  <2>2. CASE token[1] = "count"
    <3>1. token[1] # "octal" /\ token[1] # "halves"
      BY <2>2
    <3>2. tag(FALSE, token) = IF token[2] \in Signed \cup Unsigned THEN "int" ELSE "float"
      BY <2>2, <3>1, Zenon DEF tag
    <3>3. CASE token[2] \in Signed \cup Unsigned
      <4>1. checkTag(number.kind, tag(FALSE, token)) /\ number.kind \notin {"none", "duration"}
        BY <1>1, <3>2, <3>3 DEF checkTag
      <4>2. DecodeYAML(number, FALSE, token) = parseScalar(number, canonicalNumber(token))
        BY <4>1, Zenon DEF DecodeYAML
      <4> QED BY <1>4, <3>1, <4>2 DEF meant
    <3>4. CASE token[2] \notin Signed \cup Unsigned
      <4>1. ~checkTag(number.kind, tag(FALSE, token))
        BY <1>1, <3>2, <3>4 DEF checkTag
      <4>2. DecodeYAML(number, FALSE, token) = Failed
        BY <1>1, <4>1, Zenon DEF DecodeYAML
      <4>3. integer(number.kind, token) = Failed
        BY <3>4 DEF integer, parseInteger
      <4> QED BY <1>2, <1>4, <3>1, <4>2, <4>3 DEF meant
    <3> QED BY <3>3, <3>4
  <2>3. CASE token[1] # "octal" /\ token[1] # "count"
    <3>1. tag(FALSE, token) # "int"
      <4>1. CASE token[1] = "halves"
        <5>1. tag(FALSE, token) = "float"
          BY <2>3, <4>1, Zenon DEF tag
        <5> QED BY <5>1
      <4>2. CASE token[1] # "halves"
        <5>1. tag(FALSE, token) = "str"
          BY <2>3, <4>2, Zenon DEF tag
        <5> QED BY <5>1
      <4> QED BY <4>1, <4>2
    <3>2. ~checkTag(number.kind, tag(FALSE, token))
      BY <1>1, <3>1 DEF checkTag
    <3>3. DecodeYAML(number, FALSE, token) = Failed
      BY <1>1, <3>2, Zenon DEF DecodeYAML
    <3> QED BY <1>2, <1>3, <1>4, <2>3, <3>3 DEF meant
  <2> QED BY <2>1, <2>2, <2>3
<1>7. \A accepts : DecodeString(number, accepts, token) \in {parseScalar(number, token), Failed}
  BY DEF DecodeString
<1>8. ASSUME token[1] \in {"count", "halves"}
      PROVE  DecodeNumber(number, token) = meant(number, token)
  <2>1. DecodeNumber(number, token) = integer(number.kind, token)
    BY <1>1, Zenon DEF DecodeNumber
  <2> QED BY <1>2, <1>4, <1>8, <2>1 DEF meant
<1>9. Unquoted(number, token) = {meant(number, token)}
  BY <1>6, <1>8 DEF Unquoted
<1>10. ASSUME NEW d \in InDocuments(number, token)
       PROVE  d \in {meant(number, token), parseScalar(number, token), Failed}
  <2>1. \/ d \in Unquoted(number, token)
        \/ d = DecodeYAML(number, TRUE, token)
        \/ \E accepts \in SUBSET {"string"} : d = DecodeString(number, accepts, token)
    BY DEF InDocuments
  <2> QED BY <1>5, <1>7, <1>9, <2>1
<1> QED BY <1>9, <1>10 DEF SpelledAlike

(* A number is spelled alike in every format, whatever the width of an     *)
(* integer and whatever the unit: nobody has to know where a value comes   *)
(* from to write it (scalar.go package comment).                           *)
THEOREM OneSpellingOneNumber == Spec => []FormatsAgree
<1>1. ASSUME TypeOK
      PROVE  FormatsAgree
  <2>1. source \in Sources /\ store \in Stores(source)
    BY <1>1 DEF TypeOK
  <2>2. \A n \in DOMAIN store : \A i \in DOMAIN store[n] : TokenOK(store[n][i])
    BY <2>1, TextsOK
  <2> QED BY <2>2, DurationsAlike, IntegersAlike DEF FormatsAgree
<1> QED BY <1>1, LoadTypeCorrect, PTL
==============================================================================
