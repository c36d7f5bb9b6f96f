---------------------------- MODULE ResolveProofs ----------------------------
(***************************************************************************)
(* Theorems about Resolve, for every description, every set of layers,     *)
(* every set of cross-field rules and every number of sources.             *)
(***************************************************************************)
EXTENDS Resolve, TLAPS

Building == {"materializing", "checking"}

\* Nothing is built before the fields are, and the rules see no error.
Stages ==
  /\ phase \in {"folding", "moving", "done"} \cup Building
  /\ phase \in {"folding", "moving"} => config = <<>>
  /\ phase = "checking" => diagnostics = {}
  /\ outcome \in {"none", "config", "error"}
  /\ outcome = "none" <=> phase # "done"

\* A stage ends in the next one with no error, or in the zero configuration.
LEMMA StageEnds ==
  ASSUME Stages, AllOrNothing, NEW next \in Building, Stage(next), phase # "done",
         UNCHANGED diagnostics
  PROVE  (Stages /\ AllOrNothing)'
<1>1. CASE diagnostics = {}
  <2>1. phase' = next /\ UNCHANGED <<config, outcome>> /\ diagnostics' = {}
    BY <1>1 DEF Stage
  <2> QED BY <2>1 DEF Stages, AllOrNothing, Building
<1>2. CASE diagnostics # {}
  <2>1. phase' = "done" /\ outcome' = "error" /\ config' = <<>>
    BY <1>2 DEF Stage
  <2> QED BY <2>1 DEF Stages, AllOrNothing
<1> QED BY <1>1, <1>2

\* While fields are materialized, nothing is returned.
LEMMA FieldsReturnNothing ==
  ASSUME Stages, phase = "materializing", Untouched
  PROVE  (Stages /\ AllOrNothing)'
<1>1. phase' = "materializing" /\ outcome' = "none"
  BY DEF Stages, Untouched
<1> QED BY <1>1 DEF Stages, AllOrNothing, Building

LEMMA StagesNext ==
  ASSUME Stages, AllOrNothing, [ResolveNext]_vars
  PROVE  (Stages /\ AllOrNothing)'
<1>1. CASE UNCHANGED vars
  BY <1>1 DEF vars, foldVars, Stages, AllOrNothing
<1>2. CASE foldLayers \/ allFolded \/ applyMoved
  <2>1. /\ phase \in {"folding", "moving"} /\ phase' \in {"folding", "moving"}
        /\ config' = config /\ outcome' = outcome
    BY <1>2 DEF foldLayers, allFolded, applyMoved, Built
  <2> QED BY <2>1 DEF Stages, AllOrNothing, Building
<1>3. CASE loadFails
  <2>1. phase' = "done" /\ outcome' = "error" /\ config' = <<>>
    BY <1>3 DEF loadFails, Built, Stages
  <2> QED BY <2>1 DEF Stages, AllOrNothing
<1>4. CASE startMaterialize
  BY <1>4, StageEnds DEF startMaterialize, Building
<1>5. CASE materialized
  BY <1>5, StageEnds DEF materialized, foldVars, Building
<1>6. CASE \/ skipMoved \/ materializeLeaf \/ materializeObject
           \/ materializeShorthand \/ materializeOptionalObject \/ allocateSection \/ materializeCollection
           \/ collectElements \/ materializeUnion
  <2>1. phase = "materializing" /\ Untouched
    BY <1>6 DEF skipMoved, AtField, materializeLeaf, materializeObject, materializeShorthand, Running,
                materializeOptionalObject, allocateSection, materializeCollection,
                collectElements, materializeUnion
  <2> QED BY <2>1, FieldsReturnNothing
<1>7. CASE checkInvariants
  <2> DEFINE broken == {Error("invariant.violated", p) : p \in Violated(config)}
  <2>1. /\ phase' = "done" /\ diagnostics' = diagnostics \cup broken
        /\ outcome' = IF broken = {} THEN "config" ELSE "error"
        /\ config' = IF broken = {} THEN config ELSE <<>>
        /\ diagnostics = {}
    BY <1>7 DEF checkInvariants, Stages
  <2> HIDE DEF broken
  <2>2. CASE broken = {}
    BY <2>1, <2>2 DEF Stages, AllOrNothing
  <2>3. CASE broken # {}
    BY <2>1, <2>3 DEF Stages, AllOrNothing
  <2> QED BY <2>2, <2>3
<1> QED BY <1>1, <1>2, <1>3, <1>4, <1>5, <1>6, <1>7 DEF ResolveNext

(* A caller gets a whole configuration that no error speaks against, or    *)
(* the zero configuration and an error, never something between, wherever  *)
(* an error arises (Resolve, AllOrNothing).                                *)
THEOREM ReturnsAllOrNothing == ResolveSpec => []AllOrNothing
<1>1. ResolveInit => Stages /\ AllOrNothing
  BY DEF ResolveInit, Init, Stages, AllOrNothing, Building
<1>2. Stages /\ AllOrNothing /\ [ResolveNext]_vars => (Stages /\ AllOrNothing)'
  BY StagesNext
<1> QED BY <1>1, <1>2, PTL DEF ResolveSpec

------------------------------------------------------------------------------
(* Resolve and what it promises its caller.                                *)

\* Right of any documents: a configuration comes with no error, and an error
\* with the zero configuration.
Sound(documents, a) ==
  /\ a.outcome = "config" => a.errors = {}
  /\ a.outcome = "error" => a.errors # {} /\ a.config = <<>>

\* The answer as the promise has it: an error none of the documents has is
\* the refusal of a source.
answering ==
  IF outcome = "none" THEN [outcome |-> "none", config |-> <<>>, errors |-> {}]
  ELSE [outcome |-> IF outcome = "error" /\ diagnostics = {} THEN "refused" ELSE outcome,
        config |-> config, errors |-> diagnostics]

Promised == INSTANCE Promise
  WITH Documents <- Layers, MaxDocuments <- MaxLayers, Answers <- Sound,
       given <- sources, answer <- answering

\* Until it returns the caller has nothing, and after that nothing changes.
LEMMA NothingAnswered ==
  ASSUME outcome = "none" PROVE answering = Promised!NoAnswer
BY DEF answering, Promised!NoAnswer

LEMMA ReturnsOnce ==
  ASSUME Stages, ResolveNext PROVE outcome = "none"
<1>1. phase # "done"
  BY DEF ResolveNext, foldLayers, loadFails, allFolded, applyMoved, startMaterialize, Running,
         skipMoved, AtField, materializeLeaf, materializeObject, materializeShorthand,
         materializeOptionalObject, allocateSection, materializeCollection, collectElements,
         materializeUnion, materialized, checkInvariants
<1> QED BY <1>1 DEF Stages

\* An answer is a refusal, or right of the documents given.
LEMMA Answered ==
  ASSUME outcome = "none", outcome' \in {"config", "error"}, AllOrNothing', sources' = sources
  PROVE  Promised!Refuse \/ Promised!Answer
<1> DEFINE said == answering'
<1>1. answering = Promised!NoAnswer
  BY NothingAnswered
<1>2. /\ said.config = config' /\ said.errors = diagnostics'
      /\ said.outcome = IF outcome' = "error" /\ diagnostics' = {} THEN "refused" ELSE outcome'
  BY DEF answering
<1> HIDE DEF said
<1>3. CASE outcome' = "error" /\ diagnostics' = {}
  <2>1. said.outcome = "refused" /\ said.config = <<>>
    BY <1>2, <1>3 DEF AllOrNothing
  <2> QED BY <1>1, <2>1 DEF Promised!Refuse, said
<1>4. CASE ~(outcome' = "error" /\ diagnostics' = {})
  <2>1. said.outcome \in {"config", "error"} /\ Sound(sources, said)
    BY <1>2, <1>4 DEF AllOrNothing, Sound
  <2> QED BY <1>1, <2>1 DEF Promised!Answer, said
<1> QED BY <1>3, <1>4

LEMMA PromiseKept ==
  ASSUME Stages, (Stages /\ AllOrNothing)', [ResolveNext]_vars
  PROVE  [Promised!Next]_<<sources, answering>>
<1>1. CASE UNCHANGED vars
  BY <1>1 DEF vars, foldVars, answering
<1>2. CASE foldLayers /\ sources' # sources
  <2>1. startLayer /\ UNCHANGED outcome
    BY <1>2 DEF foldLayers, FoldNext, skipMissing, resolveElements, eraseCollection,
                provideCollection, elementMarker, clearElement, fold, Consume
  <2>2. outcome = "none" /\ outcome' = "none"
    BY <1>2, <2>1, ReturnsOnce DEF ResolveNext
  <2>3. answering = Promised!NoAnswer /\ answering' = answering
    BY <2>2 DEF answering, Promised!NoAnswer
  <2>4. Promised!Deliver
    BY <2>1, <2>3 DEF startLayer, Promised!Deliver
  <2> QED BY <2>4 DEF Promised!Next
<1>3. CASE ResolveNext /\ sources' = sources
  <2>1. outcome = "none"
    BY <1>3, ReturnsOnce
  <2>2. CASE outcome' = "none"
    BY <1>3, <2>1, <2>2 DEF answering
  <2>3. CASE outcome' \in {"config", "error"}
    BY <1>3, <2>1, <2>3, Answered DEF Promised!Next
  <2> QED BY <2>2, <2>3 DEF Stages
<1>4. ResolveNext => foldLayers \/ sources' = sources
  BY DEF ResolveNext, loadFails, allFolded, applyMoved, startMaterialize, Untouched, foldVars,
         skipMoved, materializeLeaf, materializeObject, materializeShorthand,
         materializeOptionalObject, allocateSection, materializeCollection, collectElements,
         materializeUnion, materialized, checkInvariants
<1> QED BY <1>1, <1>2, <1>3, <1>4 DEF ResolveNext

(* Resolve implements what it promises: it takes the layers one by one, in *)
(* order, and then answers once and for good, with a configuration, with   *)
(* errors or with a refusal (Promise; resolve.go ResolveContext).          *)
THEOREM KeepsItsPromise == ResolveSpec => Promised!Spec
<1>1. ResolveInit => Promised!Init
  BY DEF ResolveInit, Init, answering, Promised!Init, Promised!NoAnswer
<1>2. ResolveInit => Stages /\ AllOrNothing
  BY DEF ResolveInit, Init, Stages, AllOrNothing, Building
<1>3. Stages /\ AllOrNothing /\ [ResolveNext]_vars => (Stages /\ AllOrNothing)'
  BY StagesNext
<1>4. Stages /\ (Stages /\ AllOrNothing)' /\ [ResolveNext]_vars
        => [Promised!Next]_<<sources, answering>>
  BY PromiseKept
<1> QED BY <1>1, <1>2, <1>3, <1>4, PTL DEF ResolveSpec, Promised!Spec
==============================================================================
