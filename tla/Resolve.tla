-------------------------------- MODULE Resolve --------------------------------
(***************************************************************************)
(* One call of Descriptor.Resolve (resolve.go): fold the layers, redirect  *)
(* what was written under former paths, materialize the configuration      *)
(* field by field, check the cross-field rules, return.                    *)
(*                                                                         *)
(* materialize's recursion is the stack "todo" of frames still to run; a   *)
(* frame that builds a section or a collection out of what is below it     *)
(* runs after those.  Go values are kept as a function from paths: a path  *)
(* absent from it was never written.                                       *)
(***************************************************************************)
EXTENDS Fold, Fields

CONSTANTS
  Described,     \* Model.Root.Fields, shadows included
  Shadows,       \* the shadows among Model.fields, in order
  Violated(_)    \* the cross-field rules: configuration -> paths they report

\* A shadow stands at a former path, for the field that is at another one.
ASSUME ShadowsOK ==
  /\ IsSeq(Shadows)
  /\ \A s \in Range(Shadows) : IsSeq(s.path) /\ IsSeq(s.movedTo)

\* No field is moved to a place that is itself a former path, or around one.
MovedOnce ==
  \A s, t \in Range(Shadows) : ~IsPrefix(s.path, t.movedTo) /\ ~IsPrefix(t.movedTo, s.path)

\* What is described at one level: fields in order, each at its own path.
LevelOf(fields, level, base) ==
  /\ IsSeq(level)
  /\ \A f \in Range(level) : f \in fields /\ f.path = Append(base, NameSeg(f.name))

(* fields is every field materialize comes to (builder.go prefixPaths): no *)
(* step depends on it.  What a shadow borrows is its target's.             *)
DescribedBy(fields) ==
  /\ LevelOf(fields, Described, <<>>)
  /\ \A f \in fields : ~Moved(f) =>
       /\ LevelOf(fields, f.members, below(f, f.path))
       /\ IsSeq(f.variants)
       /\ \A v \in DOMAIN f.variants : LevelOf(fields, f.variants[v].members, f.path)

(* Of the paths found secret, each is that of a field that holds a value   *)
(* of its own, be it spelled as an object.  Nothing enforces it: a list, a *)
(* map or a section marked secret is not reported as one.  It has a        *)
(* default of its own if the path has.                                     *)
CredentialsAreValues(fields) ==
  \A f \in fields :
    /\ f.path \in DOMAIN byPath /\ byPath[f.path].secret =>
         /\ f.secret /\ f.kind \notin Collections \cup {"section"}
         /\ byPath[f.path].default # NoValue => f.default # NoValue
    /\ f.kind = "union" =>
         LET tagPath == Append(f.path, NameSeg(f.tag))
         IN ~(tagPath \in DOMAIN byPath /\ byPath[tagPath].secret)

VARIABLES
  phase,      \* where ResolveContext is
  redirected, \* how many shadows applyMoved has handled
  todo,       \* the frames materialize has still to run
  config,     \* the destination: path -> value
  origins,    \* rep.origins; 0 is the origin named "default"
  secrets,    \* rep.secrets
  warnings,   \* the diagnostics that are no errors
  outcome     \* what the caller got: "none" yet, "config" or "error"

vars == <<foldVars, phase, redirected, todo, config, origins, secrets, warnings, outcome>>

Built    == <<config, origins, secrets>>
Reported == <<diagnostics, warnings>>

Struct       == <<"struct", "">>
Elements(subs) == <<"items", subs>>
Zero           == <<"zero", "">>
Widened(v)     == <<"widened", v>>

IsSet(path) == path \in DOMAIN values /\ values[path].set

------------------------------------------------------------------------------
(* ResolveContext's stages.                                                *)

ResolveInit ==
  /\ Init
  /\ phase = "folding" /\ redirected = 0 /\ todo = <<>>
  /\ config = <<>> /\ origins = <<>> /\ secrets = {} /\ warnings = {}
  /\ outcome = "none"

foldLayers ==
  /\ phase = "folding"
  /\ FoldNext
  /\ UNCHANGED <<phase, redirected, todo, Built, warnings, outcome>>

\* An error of Source.Load is returned at once, with the zero configuration.
loadFails ==
  /\ phase = "folding" /\ ~Folding /\ Len(sources) < MaxLayers
  /\ phase' = "done" /\ outcome' = "error"
  /\ UNCHANGED <<foldVars, redirected, todo, Built, warnings>>

allFolded ==
  /\ phase = "folding" /\ ~Folding
  /\ phase' = "moving"
  /\ UNCHANGED <<foldVars, redirected, todo, Built, warnings, outcome>>

stageKeepingBuilt(next) ==
  IF diagnostics = {}
  THEN phase' = next /\ UNCHANGED <<config, outcome>>
  ELSE phase' = "done" /\ outcome' = "error" /\ UNCHANGED config

\* Diagnostics.Err after a stage: go on, or return the zero configuration.
Stage(next) ==
  IF diagnostics = {}
  THEN phase' = next /\ UNCHANGED <<config, outcome>>
  ELSE phase' = "done" /\ outcome' = "error" /\ config' = <<>>

------------------------------------------------------------------------------
(* applyMoved, one shadow a step.                                          *)

\* setUnder: the paths carrying a value at path or below it.
setUnder(vals, path) ==
  {p \in DOMAIN vals : vals[p].set /\ (p = path \/ Inside(path, p))}

reRootStamping(vals, from, to) ==
  LET moved == setUnder(vals, from)
      there == {ReRoot(p, from, to) : p \in moved}
  IN upon(Without(vals, moved),
          [q \in there |-> merged(vals[ReRoot(q, to, from)].value, Origin)])

\* The values found under a former path, each with the origin it has.
reRootValues(vals, from, to) ==
  LET moved == setUnder(vals, from)
      there == {ReRoot(p, from, to) : p \in moved}
  IN upon(Without(vals, moved),
          [q \in there |-> LET p == ReRoot(q, to, from)
                           IN merged(vals[p].value, vals[p].origin)])

\* moveCollections.
reRootCollections(cols, from, to) ==
  LET moved == {c \in DOMAIN cols : c = from \/ Inside(from, c)}
      there == {ReRoot(c, from, to) : c \in moved}
  IN upon(Without(cols, moved), [q \in there |-> cols[ReRoot(q, to, from)]])

shadow == Shadows[redirected + 1]

applyMoved ==
  /\ phase = "moving" /\ redirected < Len(Shadows)
  /\ redirected' = redirected + 1
  /\ LET from    == shadow.path
         to      == shadow.movedTo
         written == setUnder(values, from) # {}
         both    == setUnder(values, to) # {}
         gone    == to \in DOMAIN values /\ values[to].erased # 0
     IN /\ diagnostics' = IF written /\ both
                          THEN diagnostics \cup {Error("field.moved_conflict", from)}
                          ELSE diagnostics
        /\ warnings' = IF written /\ ~both
                       THEN warnings \cup {Error("field.deprecated", from)} ELSE warnings
        /\ IF written /\ ~both /\ ~gone
           THEN /\ values' = reRootValues(values, from, to)
                /\ collections' = reRootCollections(collections, from, to)
           ELSE UNCHANGED <<values, collections>>
  /\ UNCHANGED <<sources, folded, resolved, erased, phase, todo, Built, outcome>>

------------------------------------------------------------------------------
(* materialize.                                                            *)

frames(fields, base) ==
  [i \in DOMAIN fields |->
     [step |-> "field", f |-> fields[i], path |-> Append(base, NameSeg(fields[i].name))]]

\* What erased a value or a collection is reported with what erased an element.
erasures ==
  LET lost  == [p \in {q \in DOMAIN values : values[q].erased # 0} |-> values[p].erased]
      whole == [c \in {d \in DOMAIN collections : collections[d].erased # 0} |->
                  collections[c].erased]
  IN upon(upon(erased, lost), whole)

startMaterialize ==
  /\ phase = "moving" /\ redirected = Len(Shadows)
  /\ Stage("materializing")
  /\ erased' = IF diagnostics = {} THEN erasures ELSE erased
  /\ todo' = frames(Described, <<>>)
  /\ UNCHANGED <<values, collections, sources, folded, resolved, diagnostics,
                 redirected, origins, secrets, warnings>>

top  == Head(todo)
fld  == top.f
at   == top.path

Running(step) == phase = "materializing" /\ todo # <<>> /\ top.step = step

\* A field to be written: a former spelling never reaches the Go value.
AtField == Running("field") /\ ~Moved(fld)

Untouched ==
  UNCHANGED <<values, collections, sources, folded, resolved, erased,
              phase, redirected, outcome>>

popNothing == UNCHANGED todo
Pop        == todo' = Tail(todo)
Descend(s) == todo' = s \o Tail(todo)

\* acc.set, with the origin the report keeps for it.
Store(value, origin) ==
  config' = put(config, at, value) /\ origins' = put(origins, at, origin)

credentialOfLeaf(p) ==
  secrets' = IF fld.secret /\ fld.kind = "leaf" THEN secrets \cup {p} ELSE secrets

Credential(p) == secrets' = IF fld.secret THEN secrets \cup {p} ELSE secrets

Fail(code, p) ==
  diagnostics' = diagnostics \cup {Error(code, p)} /\ UNCHANGED <<Built, warnings>>

\* emptyCollection: a list or map is empty rather than absent.
empty(g) == IF isCollection(g) THEN Elements(<<>>) ELSE <<g.shape, <<>>>>

zeroBeforeEmpty(g) ==
  IF g.default # NoValue THEN "default"
  ELSE IF g.kind = "opaque" /\ ~Required(g) THEN "unwritten"
  ELSE IF g.zero THEN "zero"
  ELSE IF listOrMap(g) /\ ~g.required /\ g.presence = "required" THEN "empty"
  ELSE IF Required(g) THEN "missing" ELSE "absent"

\* What applyDefault falls back to, in the order of its returns.
Fallback(g) ==
  IF g.default # NoValue THEN "default"
  ELSE IF listOrMap(g) /\ ~g.required /\ g.presence = "required" THEN "empty"
  ELSE IF g.kind = "opaque" /\ ~Required(g) THEN "unwritten"
  ELSE IF g.zero THEN "zero"
  ELSE IF Required(g) THEN "missing" ELSE "absent"

\* A derived field's default and its zero fit it (Compiling's validateField): the
\* errors of setting them are left out.
applyDefault ==
  \/ /\ Fallback(fld) = "default"
     /\ Store(fld.default, 0) /\ Credential(at) /\ UNCHANGED Reported
  \/ /\ Fallback(fld) = "empty"
     /\ config' = put(config, at, empty(fld)) /\ UNCHANGED <<origins, secrets, Reported>>
  \/ /\ Fallback(fld) = "unwritten"
     /\ config' = put(config, at, Zero) /\ UNCHANGED <<origins, secrets, Reported>>
  \/ Fallback(fld) = "zero" /\ Store(Zero, 0) /\ UNCHANGED <<secrets, Reported>>
  \/ Fallback(fld) = "missing" /\ Fail("field.missing_definition", at)
  \/ Fallback(fld) = "absent" /\ UNCHANGED <<Built, Reported>>

skipMoved ==
  /\ Running("field") /\ Moved(fld)
  /\ UNCHANGED <<Built, Reported>>
  /\ Pop /\ Untouched

\* convertValue: what an opaque subtree is in Go decides what fits it.
Converts(v) ==
  IF fld.kind = "opaque" THEN fld.shape \in {"any", v[2][1]} ELSE v[1] = fld.shape

materializeLeaf ==
  /\ AtField /\ fld.kind \in {"leaf", "opaque"}
  /\ IF ~IsSet(at) THEN applyDefault
     ELSE LET v == values[at].value
          IN IF ~Converts(v) \/ v \in fld.rejects
             THEN Fail("constraint.type_mismatch", at)
             ELSE /\ Store(v, values[at].origin)
                  /\ Credential(fld.path)
                  /\ warnings' = IF fld.deprecated
                                 THEN warnings \cup {Error("field.deprecated", at)} ELSE warnings
                  /\ UNCHANGED diagnostics
  /\ Pop /\ Untouched

\* A nested object: its scalar spelling stands for all of it, else its members.
materializeObject ==
  /\ AtField /\ fld.kind \in {"object", "group"} /\ ~IsSet(at)
  /\ Descend(frames(fld.members, at))
  /\ UNCHANGED <<Built, Reported>> /\ Untouched

materializeShorthand ==
  /\ AtField /\ fld.kind \in {"object", "group"} /\ IsSet(at)
  /\ LET st == values[at]
     IN IF ~fld.scalarOr THEN Fail("source.unsupported", at)
        ELSE IF st.value[1] # "scalar" THEN Fail("constraint.type_mismatch", at)
        ELSE /\ Store(Widened(st.value), st.origin)
             /\ Credential(at) /\ UNCHANGED Reported
  /\ Pop /\ Untouched

\* sectionPresent: a marker, a value inside, or a collection provided inside.
sectionPresent(p) ==
  \/ IsSet(p)
  \/ \E q \in DOMAIN values : values[q].set /\ Inside(p, q)
  \/ \E c \in DOMAIN collections : collections[c].provided /\ Inside(p, c)

materializeOptionalObject ==
  /\ AtField /\ fld.kind = "section"
  /\ IF sectionPresent(at)
     THEN Descend(Append(frames(fld.members, at), [top EXCEPT !.step = "allocate"]))
     ELSE Pop
  /\ UNCHANGED <<Built, Reported>> /\ Untouched

allocateSection ==
  /\ Running("allocate")
  /\ config' = put(config, at, Struct)
  /\ origins' = IF IsSet(at) THEN put(origins, at, values[at].origin) ELSE origins
  /\ UNCHANGED <<secrets, Reported>>
  /\ Pop /\ Untouched

materializeCollection ==
  /\ AtField /\ isCollection(fld)
  /\ IF at \in DOMAIN collections /\ collections[at].provided
     THEN LET order == collections[at].order
          IN /\ Descend(FlattenSeq([i \in DOMAIN order |->
                                      frames(fld.members, ElementPath(at, order[i]))])
                          \o <<[top EXCEPT !.step = "collect"]>>)
             /\ UNCHANGED <<Built, Reported>>
     ELSE applyDefault /\ Pop
  /\ Untouched

\* The elements are built: parse the keys, validate the whole, set it.
collectElements ==
  /\ Running("collect")
  /\ LET c    == collections[at]
         subs == SelectSeq(c.order, LAMBDA sub : sub \notin fld.badKeys)
         bad  == Len(subs) < Len(c.order)
         whole == Elements(subs)
     IN /\ diagnostics' = IF bad \/ whole \in fld.rejects
                          THEN diagnostics \cup {Error("constraint.type_mismatch", at)}
                          ELSE diagnostics
        /\ IF whole \in fld.rejects THEN UNCHANGED <<config, origins>>
           ELSE Store(whole, c.origin)
  /\ UNCHANGED <<secrets, warnings>>
  /\ Pop /\ Untouched

\* The variant the discriminator selects; its members are siblings of the tag.
materializeUnion ==
  /\ AtField /\ fld.kind = "union"
  /\ LET tagPath  == Append(at, NameSeg(fld.tag))
         selected == {v \in DOMAIN fld.variants : Scalar(fld.variants[v].tag) = values[tagPath].value}
     IN IF ~IsSet(tagPath) THEN Fail("field.missing_definition", tagPath) /\ Pop
        ELSE IF selected = {} THEN Fail("union.invalid", tagPath) /\ Pop
        ELSE /\ config' = put(config, tagPath, values[tagPath].value)
             /\ origins' = put(origins, tagPath, values[tagPath].origin)
             /\ Descend(frames(fld.variants[Min(selected)].members, at))
             /\ UNCHANGED <<secrets, Reported>>
  /\ Untouched

materialized ==
  /\ phase = "materializing" /\ todo = <<>>
  /\ Stage("checking")
  /\ UNCHANGED <<foldVars, redirected, todo, origins, secrets, warnings>>

checkInvariants ==
  /\ phase = "checking"
  /\ phase' = "done"
  /\ LET broken == {Error("invariant.violated", p) : p \in Violated(config)}
     IN /\ diagnostics' = diagnostics \cup broken
        /\ outcome' = IF broken = {} THEN "config" ELSE "error"
        /\ config' = IF broken = {} THEN config ELSE <<>>
  /\ UNCHANGED <<values, collections, sources, folded, resolved, erased,
                 redirected, todo, origins, secrets, warnings>>

ResolveNext ==
  \/ foldLayers
  \/ loadFails
  \/ allFolded
  \/ applyMoved
  \/ startMaterialize
  \/ skipMoved
  \/ materializeLeaf
  \/ materializeObject
  \/ materializeShorthand
  \/ materializeOptionalObject
  \/ allocateSection
  \/ materializeCollection
  \/ collectElements
  \/ materializeUnion
  \/ materialized
  \/ checkInvariants

\* Resolve is one sequential function: while it can take a step, it does.
ResolveSpec == ResolveInit /\ [][ResolveNext]_vars /\ WF_vars(ResolveNext)

------------------------------------------------------------------------------
(* Properties.                                                             *)

(* A caller gets a whole configuration or none: with an error, the zero    *)
(* value whatever was built before it, and no error goes unreturned        *)
(* (resolve.go ResolveContext, its four returns).                          *)
AllOrNothing ==
  /\ outcome = "config" => diagnostics = {}
  /\ outcome = "error" => config = <<>>

\* What is at p is a credential: a layer's, or the default of its field.
Secret(p) ==
  /\ CanonicalPath(p) \in DOMAIN byPath /\ byPath[CanonicalPath(p)].secret
  /\ origins[p] # 0 \/ byPath[CanonicalPath(p)].default # NoValue

(* A credential a layer provided or a default filled in is reported as     *)
(* one, at the path its origin is reported at, so that a reader of the     *)
(* origins can keep it out of a log (secret.go Report.Secret, resolve.go   *)
(* materializeLeaf, applyDefault).                                         *)
TopSecretsReported ==
  outcome = "config" => \A p \in DOMAIN origins : Secret(p) /\ ~HasElement(p) => p \in secrets

\* The paths under which what is at p now may have been written.
Spellings(p) ==
  {p} \cup {ReRoot(p, s.movedTo, s.path) :
              s \in {t \in Range(Shadows) : p = t.movedTo \/ Inside(t.movedTo, p)}}

Spelled(n, p, state) == \E q \in Spellings(p) : Wrote(n, q, state)

(* The report names those who wrote: the layer a value is attributed to    *)
(* set that path, or a former spelling of it, and the layer that is said   *)
(* to have erased a path wrote null there; elements and whole collections  *)
(* are no exception (resolve.go Report.OriginOf and ErasedBy, moved.go     *)
(* moveCollections).                                                       *)
WritersNamed ==
  /\ \A p \in DOMAIN origins : origins[p] # 0 => Spelled(origins[p], p, "present")
  /\ \A p \in DOMAIN erased : Spelled(erased[p], p, "null")
==============================================================================
