# figureout in TLA+

figureout describes a configuration once, in Go, and resolves it from layers:
files, environment variables, flags. This directory holds TLA+ modules of that
program, TLC configurations that check them on small instances, and theorems
about them that TLAPS checks for every instance. Every definition is translated
from the Go code; `PROJECT.json` gives the lines.

## The system

| Part | State it keeps | Operations | Where |
|---|---|---|---|
| Derivation | a builder per level: containers, registrations, rules, diagnostics | `Derive`, `Value`, `Explicit`, `Object`, `Group`, `List`, `Map`, `OneOf`, `Invariant`, completeness and default checks | builder.go, register.go, binding.go, collection.go, oneof.go, group.go |
| Description | `Model`: a tree of fields, the index `byPath`, shadows of former paths | `prefixPaths`, `placeMoved`, `reindex`, `FieldByPath` | descriptor.go, moved.go |
| Sources | none between calls | `Load`: text to a tree (JSON, YAML); variables (env) or one file per value (file) to a flat layer, under names planned from the description | source/*, internal/scalar |
| Tree binder | the layer being filled | `Bind`, `object`, `union`, `elements`, `entries`, `leaf` | internal/tree |
| Fold | `resolution`: path -> merged value, path -> collection (order, remap, provided, origin, erased) | `fold`, `foldCollection`, `resolveElements`, `clear`, `clearElement`, `dropSubtree`, `dropOtherSpelling`, `mergeSet` | resolve.go, element.go, section.go, scalaror.go, merge.go |
| Resolution | the destination, the report (origins, erasures, secrets, diagnostics) | `ResolveContext`, `applyMoved`, `materialize*`, `applyDefault`, `checkInvariants` | resolve.go, moved.go, invariant.go |
| Constraints, secrets | none | `Validate`, `compareValues`, `Redact` | constraints.go, secret.go |
| Targets | none | JSON Schema, documentation | schema/* |

How they interact: `Derive` compiles a description once. `ResolveContext` asks
each source in turn for a layer and folds it before it asks the next one; a layer
is a list of assignments (path, missing/null/present, value, origin) and
diagnostics. Then the former spellings are redirected, every field is
materialized into the Go value, and the cross-field rules run. All of it happens
in one goroutine. What the parts share is the textual path: the binder writes it,
the fold rewrites its subscripts and cuts prefixes off it, materialization
rebuilds it, and the report answers questions about it.

Only two things change under a running call: the directory of the file source,
which a mounted Secret rotates, and a nested descriptor, which a `Derive` of
another one re-paths. What is hard here is otherwise not scheduling but
sequences: what a third layer does to what the first left behind. Markers,
values, element orders and subscript translations are four records of one tree,
each updated by string prefix; an operation that forgets one of them is noticed a
layer later. Partial failure is the other half: errors are collected, not thrown,
so a wrong configuration is being built while the error that forbids it is
already known.

What makes each part correct:

- the fold: reading its records gives the documents laid over one another, as the
  README of the program describes layering and merging; positions of one document
  never reach the elements of another; nothing is kept that no one reads; every
  origin is the layer that had the last word
- resolution: all or nothing; defaults and demands exactly where no layer spoke;
  every error of a stage, none of a later one; every credential reported; it returns
- former paths: as if the document had been written with the current ones
- the binder: one assignment per claimed member, markers before what they hold
- derivation: every Go field accounted for, every path found again, no default the
  field's constraints refuse, nothing published after an error, nested descriptors
  left as they were
- flat sources: the first of a value's names with anything in it, no name for two
  values, nothing that no store held
- scalars and constraints: exact at the boundaries of every integer width, the same
  number from the same spelling in every format
- the schema: it admits what resolves, and what it admits resolves

## Modules

| Module | Models | Kind |
|---|---|---|
| `Paths` | canonical paths, element paths, prefixes | pure |
| `Merge` | `merged`, `mergeSet`, `combine` | pure |
| `Fields` | `FieldModel`, `Required`, `ZeroDefault` | pure |
| `Numbers` | integer widths, unit scaling, comparison across signedness | pure |
| `Scalars` | the text parser, and what JSON and YAML make of a scalar; extends `Numbers` | pure |
| `Model` | paths, shadows and the index of a description | pure, recursive |
| `TreeBind` | a document bound to a description, custom decoders included | pure, recursive |
| `Yaml` | anchors, aliases and merge keys, read into a document; extends `TreeBind` | pure, recursive |
| `FlatPlan` | which names the env and file sources try for which path; extends `Model` | pure, recursive |
| `FlatSource` | one `Load` of such a source, one name a step; extends `Scalars` | state machine |
| `Compiling` | objects that descriptors share, `validateField`, what covers a Go field, shadows | pure |
| `Publishing` | `prefixPaths` and `reindex` on shared objects; extends `Compiling` | pure, recursive |
| `Lookup` | `fieldAt` and `walkPath`; extends `Publishing` | pure, recursive |
| `Derive` | calls of `Derive`: one statement, one registration or one former path a step; extends `Compiling` | state machine |
| `Fold` | the fold of layers, one loop iteration a step | state machine |
| `Resolve` | one `ResolveContext` from the first `Load` to its return; extends `Fold` | state machine |
| `Schema` | the emitted JSON Schema of a source, and validation against it | pure, recursive |
| `View` | the tree the folded records stand for, as `materialize` reads it | pure, recursive |
| `Overlay` | abstract: documents laid over one another, on trees, without paths | reference |
| `Configured` | abstract: the configuration of a tree, with defaults, and the errors in it | reference |
| `Promise` | abstract: documents are delivered, then one answer is given | reference |
| `MCFold`, `MCGaps`, `MCResolve`, `MCFlat`, `MCDerive` | descriptions, documents, stores and programs for TLC | instances |
| `Sequencing` | `IsSeq`: a sequence, said without the set of its elements | pure |
| `SequenceLemmas` | lemmas about sequences and prefixes | proofs |
| `FoldProofs` | types, slots and order of `Fold` | proofs |
| `OriginProofs` | `Provenance` of `Fold` | proofs |
| `ElementProofs` | `SlotsNotShared` and `ValuesReachable` of `Fold` | proofs |
| `ResolveProofs` | all or nothing; the refinement of `Promise` | proofs |
| `ReportProofs` | the report of `Resolve`: secrets, origins, erasures | proofs |
| `FlatProofs` | theorems about `FlatSource`, `Numbers` and `Scalars` | proofs |
| `DeriveProofs` | theorems about `Derive` | proofs |

`Fold` and `Resolve` take the description as its index (`byPath`), its fields
(`Described`) and its shadows (`Shadows`), and the layers as a set (`Layers`).
They use no recursive operator, so they can be proved about; the recursive
`Model` and `TreeBind` compute those constants for TLC. `FlatSource` takes the
plan, and `Derive` what `Publishing` computes, as constants for the same reason; the
theorems about `Derive` hold whatever paths and index that is.

### State and code

| `Fold` | Code |
|---|---|
| `values` | `resolution.values`; `set`, `value`, `origin`, `erased` are `merged`, 0 for a nil origin |
| `collections` | `resolution.collections`: `order`, `remap`, `provided`, `origin`, `erased` |
| `sources` | the layers folded so far, the current one last; its number is the origin |
| `folded` | index of `fold`'s loop |
| `resolved` | `out` of `resolveElements`: the part of the current path already rewritten |
| `erased` | `Report.erased` as `clearElement` fills it |
| `diagnostics` | the errors, as code and path |

`startLayer` is a turn of `ResolveContext`'s loop over the sources with
`resolution.startLayer`. `resolveElements` is one turn of the loop of that name;
when the path has no subscript left, exactly one of `eraseCollection`,
`provideCollection` (`foldCollectionItself`), `elementMarker`, `clearElement` and
`fold` (the rest of the loop body) runs, chosen by the guards in the order the
code tests them.

| `Resolve` | Code |
|---|---|
| `phase` | where `ResolveContext` is: folding, moving, materializing, checking, done |
| `redirected` | index of `applyMoved`'s loop over `Model.fields` |
| `todo` | the call stack of `materialize`: frames still to run |
| `config` | the destination, by path; a path not in it was never written |
| `origins`, `secrets`, `warnings` | the `Report`; origin 0 is the one named "default" |
| `outcome` | what the caller got |

`Stage` is `Diagnostics.Err` after a stage with the return of a zero value. Each
`materialize*` is an action; `allocateSection` and `collectElements` are the parts
of theirs that run after the members.

| `FlatSource` | Code |
|---|---|
| `source` | the options of the source: prefix, naming, `AllowEmpty`, optional directory |
| `store` | the environment as copied, or the directory at this moment |
| `held` | history: every store there was during the call |
| `phase`, `next`, `tried` | where `Load` is: the entry of the plan, and which of its names |
| `layer` | the layer to return: assignments and faults |

`Start` is what `Load` does before its loop: option errors, the missing directory,
collisions in the plan. `TryNext`, `ReadFails`, `Read` and `NotSet` are the
branches of one look at one name. `Rotate` is the environment's step: the whole
directory is replaced between two reads. The environment is never rotated, since
`newSource` copies it.

| `Derive` | Code |
|---|---|
| `objects` | the `ObjectModel`s on the heap, which descriptors share by reference |
| `builders` | the call stack of builders, each with its containers, rules and diagnostics |
| `published` | the descriptors returned so far: root, index, rules |
| `program` | the calls of `Derive` the application makes next |
| `reported` | history: every diagnostic of this derivation, at whatever level |
| `overflown` | a walk without end exhausted the stack |
| `phase`, `root` | where `compile` of the innermost builder is; the model it makes |
| `levels` | the calls of `compileContainer` at work, and how far each is |
| `handled`, `ignored`, `trees` | `handled`, with what of it is ignored alone or with what is in it |
| `targets`, `obj` | what `placeMoved` has to place yet, and the `obj` of `placeShadow` |

A describe function is a sequence of statements, of which any may be left out: an
application registers what it likes, in the order it is written. One action is one
registrar: `RegisterValue`, `RegisterDescribed` (a descriptor already published),
`Describe` (a function of its own, a new builder), `RegisterRunning` (a description
that is being run already), `RegisterMismatched`, `OneOf`, `OpenGroup` and
`CloseGroup`, `Invariant`, `Refuse`. When the function has returned, `StartCompile`
begins `compile`. Each turn of the loop of `compileContainer` is one of `CompileAgain`
(the Go field is handled already), `CompileIgnored`, `CompileTaken` (the name is),
`CompileField` and `CompileGroup`, which opens a level that `CloseLevel` ends;
`CheckCompleteness` follows. `placeMoved` goes segment by segment: `EnterLevel`,
`RebuildLevel`, `PlaceShadow`, or `InTheWay`. `NestedReturns` and `DeriveReturns` fill
the object in place; the one hands rules and diagnostics to the parent, the other
publishes, with the paths and the index of `Publishing`.

A builder's model is an object of its own (`root`) until it is complete. The fields
that were bound to the object while its description ran see the one that is filled.

### What is abstracted

- A path is a sequence of segments; escaping and cutting of text is left out.
- A value is a kind and a payload. Go types are a `shape`; a conversion succeeds
  when the shapes agree, a constraint is the set of values it `rejects`, a map key
  type the subscripts it cannot parse (`badKeys`).
- A source is its layer. `loadFails` lets any `Load` return an error instead. A nil
  source and a nil layer are skipped by the code, and are sources not given here.
- A text is a sequence of tokens: words, and numbers with the spelling that matters
  (whole, in halves, with a unit, octal). `Half` stands for 2^63. The numbers a
  float conversion leaves to the machine are a choice between its outcomes.
- A document is a tree. What the YAML reader does to get it (anchors, merge keys) is
  `Yaml`; the text itself is read by libraries.
- An application's own decoder is one that takes a text or an object naming one; of
  a flat source, one that takes certain texts (a `spelled` token). So is every type
  with a spelling of its own: a flag, a float, a time, base64, a type that parses
  itself.
- A description that is resolved is one `Derive` published, so a default its field's
  type cannot hold (builder.go:575-578) is not there to fail again in `applyDefault`, and
  `placeShadow` has nothing to refuse in `Model`; what is refused is in `Derive`.
- Iteration over Go maps only ever feeds deletions of disjoint keys, or the
  existence of a key, so its order is no part of the state.

## Runs

| Run | Question | Bound | Answer |
|---|---|---|---|
| `fold` | does the fold keep its records consistent, and is it the overlay? | 7 layers, sequences of up to 3 | holds |
| `resolve` | does `Resolve` implement its promise; do schema and YAML agree with it? | 7 documents, sequences of up to 3 | holds |
| `flat` | does a flat source set what its documented names mean? | 10 sources, 1 rotation, `Half = 8` | holds |
| `derive` | does what is derived find its fields, and only if nothing was wrong? | 6 programs, every subsequence of their statements | holds |
| `nested_list` | "clear drops a collection and everything under it" | 2 documents | violated |
| `nested_shorthand` | "the two spellings never half-merge across layers" | 3 documents | violated |
| `erased_element` | `ErasedBy` names the layer that erased the value | 3 documents | violated |
| `element_secret` | `Secret` reports whether the value at a path is a credential | 1 document | violated |
| `moved_erased` | "the old spelling still resolves" | 2 documents | violated |
| `moved_list` | "a former path that carried a list hands over its elements" | 1 document | violated |
| `shared_descriptor` | a descriptor is immutable | 2 calls of `Derive` | violated |
| `moved_recursion` | a type may refer to itself | 1 call of `Derive` | violated |

`MaxLayers = 3` is the bound of the runs of layers. Three is what the interesting
interactions need: one layer to write, one to erase or replace, one to write
again; with an erase in the middle, every record has been filled, cleared and
refilled. Documents touch every kind of field at once, since fields at different
paths interact only when one is inside the other; so a sequence of three
documents is a sequence of three statements about *each* kind, not about one.

The description of `fold` has a leaf, one the source calls differently, leaves that append and merge by key, an
optional section, a scalar shorthand, keyed, appending and replaced lists, a map,
and lists nested in a replaced and in a keyed list. That of `resolve` adds
defaults, zero values, explicit and deprecated fields, an opaque field, a field
with a decoder of its own, a group with secrets (one has a
default), former paths of a leaf, a
shorthand, a section, an object and a list, a section inside a list's elements, a
map with keys its type cannot hold, a union and a cross-field rule. Its documents
are a complete configuration, former spellings, an override, an erase of
everything, values that are refused, values that cannot be decoded, and what has to
be written at least. The schema is compared on these documents, on each of them a
member short or with one that no field claims (`$schema`, which the root alone takes, or
another), and on each with every spelling of the decoded and of the opaque field.
Its sources report members nobody claims.

The description of `flat` has names of one and of several words, a name of its own,
aliases (one no file can have), a null literal, a group, a section, a shorthand, a
union, a field whose kind has a spelling of its own (a level, an address), one with
its own decoder, and fields no name reaches. Its sources differ in kind, prefix, naming,
empty texts and in what is broken or missing, and one has a naming of two names; its stores in what stands under the
primary name and the alias, and in the numbers: every one near a boundary of the
width (`-Half - 1`, `-Half`, `Half - 1`, `Half`, `2 * Half - 1`, `2 * Half`), before
and after scaling. One rotation is enough to come between any two reads; a second
one could only bring back the first store, which `held` remembers anyway.

The programs of `derive` are a server with every registrar; a careless one, where
each statement is a misuse; two descriptions that hold one another, in a group,
through an alias in a list and through a section; a descriptor nested in another
one at several places, with former paths across groups; objects in objects with
rules at each level; and the misuse again when there is a descriptor for it to name
(variants that do not fit their union). Leaving statements out in every way gives
the incomplete descriptions, too: some 81,000 states, in which every turn of the
loops of `compile` is one.

What the properties of the passing runs say, in short:

- `SlotsDense`, `SlotsNotShared`: an unkeyed list numbers its elements densely in
  the order they came, whatever was cleared before, so a fresh slot is fresh; two
  elements of one document never share one
- `Provenance`: the value in force and the erasure reported are the doing of the
  layer they name, and no later layer spoke
- `ValuesReachable`: no value is kept below an element its collection does not list
- `LayersOverlay`: the records, read as `materialize` reads them, are
  `Overlay!Layered` of the documents. This is the refinement of the abstract
  specification, stated as an equality of the two trees after each layer
- `ElementsKeepOrder`: no step reorders elements that survive it
- `AllOrNothing`: an error means the zero configuration, a configuration no error
- `ResolvesAsLayered`: `Resolve` implements `Promise`, with `given` the documents of
  the layers folded and `answer` what the caller has (`INSTANCE Promise WITH`). An
  answer is right when outcome, configuration and errors are those of `Configured`
  applied to the overlaid documents, former spellings renamed
- `OriginsAreLastWords`: every origin and erasure names the layer with the last
  word on that path, through former paths too
- `TopSecretsReported`: every credential outside collections is reported, whether a
  layer wrote it or a default filled it
- `WritersNamed`: an origin or an erasure of a field is the doing of the layer it
  names, which wrote that path or a former spelling of it
- `SchemaCatches`, `SchemaAdmits`: a document the schema admits has no error but
  those a schema cannot express; a document that resolves is admitted
- `SharedReadsAlike`: a YAML document with anchors and merge keys resolves to what
  the same one resolves to written out
- `Returns`: the call returns
- `LoadsWhatNamesSay`: without a rotation, each path gets the value, the erase or
  the error of the first of its names, as a table written by hand says
- `NothingInvented`: with a rotation, each value is still one that some store held
  under a name of that path, and a name passed over was empty in some store
- `OneNameOneValue`: no name feeds two paths
- `RangesBoundNumbers`: every number loaded fits its type, and `Range` compares it
  with bounds of either signedness as numbers, not as representations
- `FormatsAgree`: what a number is written as under a name of the field, JSON and
  YAML read as the same number, except the octals of YAML
- `LoadReturns`: `Load` returns, whatever the directory does
- `FieldsAreFound`, `LookupsFollow`, `FormerMembersFound`: every path a document can
  spell leads to the field described there: by the index, by the walk through
  recursion below it, and under former paths
- `NamesApart`, `Accounted`: no two fields of a level share a name; every exported
  Go value is bound or ignored
- `EveryInstanceFinite`, `NoneInsideItself`: recursion is only through what may be
  absent, and no description is run inside itself
- `RulesLead`: a rule of a nested object, however deep and with no group on the way,
  reports under the path of that object; with a group it does not (listed below)
- `PublishedClean`: a descriptor is published only if no level reported anything

`FieldsAreFound` speaks of fields nested at one place, under names no variant
shares: for the others the index keeps the last, by design of the union and by
the disagreement `shared_descriptor` shows. `SharedReadsAlike` has one document,
with merges in sequence, through aliases and overridden.

`ResolvesAsLayered` and `OriginsAreLastWords` leave out sequences in which an
erase precedes a former spelling: there the program disagrees with its
documentation, which is what `moved_erased` shows. `SecretsReported` is the
statement for elements too, which `element_secret` refutes. `LayersOverlay` holds
in the `fold` run because its nested lists are written anew wherever a list is
replaced; `nested_list` shows what happens when they are not.

`CHECK_DEADLOCK FALSE`: every call stops when it has returned, and the fold when it
has no more layers.

Fairness: `Resolve` is one sequential function with no wait in it, so while it
can take a step it does: `WF_vars(ResolveNext)`. Sources may fail, but `Load` is
taken to return; a context that is never cancelled and a source that blocks are
outside the model. `Load` of a flat source is one loop over the plan:
`WF_vars(LoadStep)`; nothing is assumed of `Rotate`. No fairness is assumed of `Fold`
by itself, nor of `Derive`, whose properties are safety: a describe function is the
application's, and need not return.

## Where code and documentation disagree

1. **Replacing a list** (element.go:152). `clear` drops the order and the values
   and not the records of nested collections. A new element at the same slot
   inherits the nested elements' order, now without values.
2. **Shorthands in elements** (scalaror.go:102). `dropOtherSpelling` looks up the
   path with its subscripts, which the index never has.
3. **`ErasedBy` of an element** (element.go:294) is never taken back.
4. **Secrets in elements** (resolve.go:516) are recorded under the model's path,
   origins under the value's.
5. **Former paths after an erase** (moved.go:179). Any earlier erase wins over a
   later former spelling, where the comment speaks of a later layer's.
6. **Moved lists** (moved.go:153). Under the former path of a list, or of an object
   around one, the elements are dropped: without a word in the first case, with the
   usual warning in the second.
7. **Shared descriptors** (builder.go:519). Nesting a descriptor writes the new paths
   into its own fields. The nested descriptor then finds fields that claim another
   path, and since sources and fold ask for a field's own path, loses their values
   and folds their lists as plain values.
8. **Former path of a recursive field** (descriptor.go:289). Its shadow is not marked
   as closing a cycle, and indexing it never ends.

Read in the code while modelling it, and in no run:

- a map entry repeated in one document, first null and then an object, is lost
  (bind.go:364), where "the last duplicate wins" (tree.go:134-135); one repeated with a
  list inside puts two elements in one slot, since the list's order is cleared and
  its translation is not (element.go:152). Such a document is not `Orderly`
- two variants of a union with a field of one name, read under different names, are
  two entries of a flat plan for one path (env.go:161); `PathsApart` leaves them out
- `Secret()` on a list or a map of objects or on a section is accepted, and
  `Report.Secret` never says so: only leaves, shorthands and unions record it
  (resolve.go:516). `CredentialsAreValues` leaves such descriptions out
- a former path at, around or inside the target of another lets a value move twice,
  in the order of the fields (moved.go:168-190); `MovedOnce` leaves it out
- "a later layer erased the field outright; the old spelling does not resurrect it"
  (moved.go:180-183) holds of the field with the former path alone: with a member of it
  erased under the current path, the member's old spelling does
- for a duration without a unit, the text 0 is a duration and the JSON number 0 is
  refused
- a level rebuilt for a former path passes `isGroup` (moved.go:37), so a former path
  through the former path of an object adds to the object itself, against moved.go:13-17
- `OptionalObject` says that a bare pointer holds an optional section
  (register.go:106-110), `objectPresence` refuses one (carrier.go:72-80 says why)
- the plan of env and file reads a union under its former path (env.go:217), which
  option.go:315-319 says no flat source does
- `Ignore` of a struct covers what is in it (builder.go:687), which register.go:318-319
  reserves for `IgnoreRecursive`
- a rule of an object in a group reports without the group in its path
  (register.go:280), where a violation is to have the path of the nested object
  before it (invariant.go:34-35, invariant_test.go:170-171) and a group adds a segment
  "everywhere" (group.go:20-21)
- a descriptor nested by `Object`, `List` or `OneOf` loses its own rules
  (register.go:126-148)
- an object registered and a field inside it registered apart are not a duplicate;
  `MovedFrom` and constraints on a group are dropped (builder.go:437-456)
- a default is never held against the field's own constraints (builder.go:563-565)
- the schema lists a collection as not erasable (jsonschema.go:300-306), does not
  take a former spelling for a required member, and omits aliases, merge keys and what
  a source calls a field by itself;
  a variant that holds its own union panics (jsonschema.go:374)
- a scaled count of exactly 2^63 and NaN pass the overflow check (scalar.go:138-144)
- a duration with a unit is not canonicalized in YAML: 017 is seventeen of them; an
  alias to an anchor around it is followed without end (decode.go:48)
- two headings of the documentation may get one anchor, against docs/build.go:355

## Theorems

Each holds for every value of the constants that the named assumptions admit. TLC
evaluates the assumptions on the constants of every run, and the extra hypotheses,
too, on those of the run that checks the property.

| Assumption | Says | Because |
|---|---|---|
| `MaxLayersOK`, `MaxRotationsOK`, `HalfPositive` | the bounds are numbers | |
| `LayersOK` | a layer assigns well-formed paths, and no null names an element of an unkeyed list | the binder reports such a null |
| `ByPathOK` | the index has sequences of names for paths | `prefixPaths` |
| `ShadowsOK` | so have shadows | `placeMoved` |
| `PlansOK` | within a plan, a name belongs to one entry | `claim` drops the entry that asks again |
| `TextsInEnvironment`, `KindsOK`, `TextsOK` | a store holds texts, of well-formed tokens | |
| `NumbersOK` | a unit is not negative and an int64 | `SetUnit` refuses others |

Some theorems have a hypothesis more, where the program admits input for which the
property fails:

| Hypothesis | Says | Fails for |
|---|---|---|
| `Orderly(layer)` | a document, once it is done with a collection, does not return to it | a document that repeats a key |
| `PathsApart(src)` | no two entries of a plan set one path | variants that share a field's name and not where it is read |
| `MovedOnce` | no former path is at, in or around the target of one | chains of `MovedFrom` |
| `CredentialsAreValues(fields)` | what is secret is a value, with the default its path has | `Secret()` of a collection or a section |
| `DescribedBy(fields)` | `fields` has every field, at its own path | nested descriptors shared by two places |

### The fold

- `FoldProofs!TypeCorrect`, `Spec => []TypeOK`. `TypeOK` is inductive: records are
  well formed, a path is not both set and erased, an order lists no element twice,
  and the rewritten part of a path has its elements where the layer's path has.
  The last conjunct is what makes the next subscript the right one; that orders are
  injective rests on lemmas about `Append` and `RemoveAt`.
- `FoldProofs!OrderIsKept`, `Spec => ElementsKeepOrder`. An order changes in three
  ways: it grows at the end, is emptied, or loses one element. Each keeps the
  relative order (`OrderStaysKept`); an injective order, from `TypeOK`, is what
  makes removal of one element unambiguous.
- `FoldProofs!SlotsAreDense`, `Spec => []SlotsDense`. Inductive with `TypeOK`: the
  only step that could leave a hole is the removal of an element, and its path is
  that of a null; `LayersOK` with `Rewrites` show that the list is not an unkeyed one
  (`KeyedElementErased`).
- `OriginProofs!OriginsAreTrue`, `Spec => []Provenance`. What makes it inductive is
  that it speaks of assignments already folded, the current layer's too, and not of
  whole layers: the layer named wrote the path, and nothing folded since spoke of it
  (`LastWord`). A merge gives the word to the current layer or, where it fails,
  changes nothing; values and collections keep apart (`NoValueAtCollection`), so an
  assignment speaks of one record only.
- `ElementProofs!ElementsKeepApart` and `NothingIsOrphaned`,
  `Spec => []SlotsNotShared` and `Spec => []ValuesReachable` if every layer is
  `Orderly`. The invariant (`ElementInv`) says that a record gives each subscript a
  slot of its own; that what has a slot was mentioned by the current document, and is
  in the order unless that document erased it; that the part of the current path
  already rewritten leads through listed elements; and that every value does. An
  order loses an element when its collection is emptied, which an orderly document
  does before it says anything inside, or when the element is erased, which an
  orderly document says nothing else of. So nothing listed by this document is lost
  by it.

### Resolution

- `ResolveProofs!ReturnsAllOrNothing`, `ResolveSpec => []AllOrNothing`. The property is
  not inductive: a rule is broken and the configuration is returned by one action,
  which is right only since no error was known before. `Stages` adds that nothing is
  built before materialization, that the rules are reached with no error, and that
  nothing is returned before the last phase.
- `ResolveProofs!KeepsItsPromise`, `ResolveSpec => Promised!Spec`: `Resolve` implements
  `Promise` with the answers that are sound (a configuration and no error, or the
  zero one and errors) for `Answers`. Initial states map to initial states, and each
  step to a delivery, to the answer, or to a stutter. That the answer is the one
  `Configured` gives is what TLC checks as `ResolvesAsLayered`.
- `ReportProofs!RecordsStay`, `ResolveSpec => []TypeOK`: the records of the fold stay
  well formed through `applyMoved` and materialization, which rewrite them.
- `ReportProofs!CredentialsAreReported`, `ResolveSpec => []TopSecretsReported`. While
  the call is under way, each frame on the stack is of a described field at its own
  path, so what is written is written for the field whose path it has
  (`UnderWay`); what has been written of a secret path is among the secrets (`Known`).
- `ReportProofs!ReportIsTrue`, `ResolveSpec => []WritersNamed` under `MovedOnce`.
  `Attribution` carries `Provenance` through the phases: while folding, a record is
  of a layer that wrote its path; after a shadow is redirected, of one that wrote a
  spelling; and the origins of the report are those of the records.

### Flat sources and numbers

- `FlatProofs!LoadTypeCorrect`, `LoadInventsNothing`, `LoadSetsOnce`:
  `Spec => []TypeOK`, `[]NothingInvented` and, under `PathsApart`,
  `[]OneNameOneValue`, however often the directory is rotated. The invariant says
  of every name tried of the current entry that some store had nothing under it,
  and of every earlier entry that it was assigned, reported or found nowhere.
- `FlatProofs!ScalingIsExact`: for every width (`Half`), every unit and every count,
  `ScaleUnitFits` is true exactly if the product is an int64. The product wrapped is
  off by a multiple of 2^64, and the quotient is off by less than one unit, which is
  less than that.
- `FlatProofs!NumbersAreBounded`, `Spec => []RangesBoundNumbers`: whatever was parsed
  fits the type of its field (`ReadFits`, over units, floats and octals), and
  `compareValues` of such numbers is the comparison of the numbers
  (`ComparesNumbers`).
- `FlatProofs!OneSpellingOneNumber`, `Spec => []FormatsAgree`: by cases on how a token
  is tagged and decoded, for every width and unit.

### Derivation

All five theorems come from one invariant, `DeriveInv`. It looks at three things
together: the heap, the builders at work, and how far `compile` is.

- The heap (`Sound`): references lead to objects, names are apart (`OwnNames`), and
  the objects of published descriptors are grounded and complete. As long as nothing
  was reported, so are those made since, and nothing that is always there holds an
  object in the making (`NotHeld`). That is why recursion ends: an object is made
  only when all it always holds is made, so the last one made is held by none of them.
- The builders (`Work`): no two have one key, each noted what it reported or handed it
  on (`NotedIn`), and what they registered refers to no object in the making, if
  nothing was reported (`RegOK`, from `endless`).
- The model in the making: what is handled is ignored or bound by a field of the model
  or of a group of it, opened or still open (`ModelOK`); the name of each level at work
  is free in the one around it (`LevelsOK`), since a group's field is added only when its
  level is compiled.

What has to be strengthened to be inductive is mostly about time: `Accounted` is about
a published struct, but the shadows of a later derivation may be added to its objects
(`placeShadow` through the former path of an object), so fields may only be added
(`Keeps`); and a walk through such an object may add a level that is always there, which
is harmless because it is new and holds nothing (`SameBelow`). `handled` covers fields of
a group that is not yet a field of anything.

- `DescriptionsDoNotNest`, `Spec => []NoneInsideItself`: a description is run only if
  none of the builders at work is of its own type and function.
- `NothingUnsoundPublished`, `Spec => PublishedClean`: whatever was reported in a
  derivation, a builder still at work has noted it; a nested builder hands what it noted
  to its parent when it returns. So a root that has noted nothing returns from a
  derivation in which nothing was reported.
- `NamesTellFieldsApart`, `Spec => []NamesApart`: at every moment, for published objects
  and for those in the making.
- `NothingForgotten`, `Spec => []Accounted`: from what `CheckCompleteness` found covered,
  what covers it was handled, what was handled is in the model, and the model is what the
  object is filled with (`CoversFilled`).
- `NoEndlessInstance`, `Spec => []EveryInstanceFinite`.

### Only model-checked

- `LayersOverlay`, `ResolvesAsLayered`, `OriginsAreLastWords`, `SchemaCatches`,
  `SchemaAdmits`, `SharedReadsAlike`, `LoadsWhatNamesSay`, `FieldsAreFound`,
  `LookupsFollow`, `FormerMembersFound` and `RulesLead` compare with, or are about what
  comes of, definitions that are recursive over documents and descriptions; the provers
  have no induction over data. Where an induction over a number was enough (`FlattenSeq` in
  `ReportProofs`), it is done by hand, with a least counterexample.
- `Returns` and `LoadReturns` are liveness.

## Plan

Done: every module above, and the safety of each state machine. What is left:

1. `OriginsAreLastWords` without elements: that no later layer spoke, through former
   paths; `ReportIsTrue` is the half that needs no order of layers.
2. `RulesLead` from `DeriveInv`: a rule's prefix leads to the object it checks, by an
   induction over the length of the prefix.
3. `Merge`: that merging by key never drops or repeats a key, for every value.

What could be modelled beyond that: former paths declared inside the description of
a list's elements, resolved; an empty section under a former path; a `Derive` beside
a `Resolve` of the nested descriptor, which is the data race behind
`shared_descriptor`.

## Not modelled

The text of JSON, YAML and .env files (libraries parse it), what is inside a
passthrough value, arithmetic of floats, rendering of documentation and diagnostics,
reflection and pointer arithmetic of registrars, which constraint fits which Go
type, enumerations, `nearest` (which names the field a rule is about), the
marshaling of optional carriers, and the example service. They hold no state that
the rest depends on, or are text.
