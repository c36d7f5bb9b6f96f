------------------------------- MODULE FlatSource -------------------------------
(***************************************************************************)
(* One call of Load of a source with one name per value (source/env,       *)
(* source/file): check the directory and the plan, then read each entry    *)
(* from the first of its names that holds something.                       *)
(*                                                                         *)
(* A directory is read one file at a time, while a mounted Secret may be   *)
(* rotated; the environment was copied before the call.                    *)
(***************************************************************************)
EXTENDS Scalars, Sequencing

CONSTANTS
  Sources,        \* records [kind, broken, missing, optional, allowEmpty, ...]
  Planned(_),     \* the plan of a source: [out, collisions], FlatPlan's
  Stores(_),      \* what may stand under the names: name -> text or Unreadable
  InvalidNames,   \* names that are no path inside the directory
  MaxRotations    \* how often the directory changes during the call

VARIABLES
  source, store, rotations,
  phase,          \* "start", "reading", "loaded", "failed"
  next, tried,    \* the entry, and its name, that Load looks at
  layer,          \* what Load returns: [assignments, faults]
  held            \* history: the stores there were during the call

vars == <<source, store, rotations, phase, next, tried, layer, held>>

Unreadable == <<<<"directory", "">>>>

(* A plan lists the entries, each with its names in order, and a name is   *)
(* claimed by one entry alone: one that is claimed already drops the entry *)
(* that asks for it (env.go plan; FlatPlan's claim and add).               *)
ASSUME PlansOK ==
  \A src \in Sources :
    LET entries == Planned(src).out
    IN /\ IsSeq(entries) /\ \A k \in DOMAIN entries : IsSeq(entries[k].names)
       /\ \A k, m \in DOMAIN entries :
            k # m => Range(entries[k].names) \cap Range(entries[m].names) = {}

\* A variable of the environment is a text, never something that is no file.
ASSUME TextsInEnvironment ==
  \A src \in Sources : src.kind = "env" =>
    \A contents \in Stores(src) : \A n \in DOMAIN contents : contents[n] # Unreadable

\* A token that holds a number holds one, and a Go duration holds an int64.
TokenOK(token) ==
  /\ token[1] \in {"count", "halves"} => token[2] \in Int
  /\ token[1] = "duration" => token[2] \in Signed
  /\ token[1] = "octal" => token[2].written \in Int /\ token[2].meant \in Int

ASSUME TextsOK ==
  \A src \in Sources : \A contents \in Stores(src) : \A n \in DOMAIN contents :
    IsSeq(contents[n]) /\ \A i \in DOMAIN contents[n] : TokenOK(contents[n][i])

NumberKinds == {"none", "spelled", "int", "uint", "duration"}

\* What an entry reads is no number, or one of a width or of a unit in int64.
ASSUME NumbersOK ==
  \A src \in Sources : \A k \in DOMAIN Planned(src).out :
    LET entry == Planned(src).out[k]
    IN ~entry.discriminator => /\ entry.field.number.kind \in NumberKinds
                               /\ entry.field.number.unit \in 0 .. Half - 1

ASSUME KindsOK == \A src \in Sources : src.kind \in {"env", "file"}

ASSUME MaxRotationsOK == MaxRotations \in Nat

(* No two entries set one path.  A description breaks it whose union has   *)
(* two variants with a field of one name, read under different names.      *)
PathsApart(src) ==
  LET entries == Planned(src).out
  IN \A k, m \in DOMAIN entries : k # m => entries[k].path # entries[m].path

Newline == <<"newline", "">>

------------------------------------------------------------------------------
(* Load.                                                                   *)

Init ==
  /\ source \in Sources
  /\ store \in Stores(source)
  /\ held = {store}
  /\ rotations = 0
  /\ phase = "start" /\ next = 1 /\ tried = 1
  /\ layer = [assignments |-> <<>>, faults |-> {}]

collided == {[code |-> "collision", path |-> c.path] : c \in Planned(source).collisions}

\* An option that failed, a directory that is not there, names that collide.
Start ==
  /\ phase = "start"
  /\ IF source.broken \/ source.missing
     THEN /\ phase' = IF ~source.broken /\ source.optional THEN "loaded" ELSE "failed"
          /\ UNCHANGED layer
     ELSE /\ phase' = IF collided = {} THEN "reading" ELSE "loaded"
          /\ layer' = [layer EXCEPT !.faults = collided]
  /\ UNCHANGED <<source, store, rotations, next, tried, held>>

plan  == Planned(source).out
e     == plan[next]
name  == e.names[tried]

Looking == phase = "reading" /\ next <= Len(plan) /\ tried <= Len(e.names)

\* value, with the newline.
valueAsIs(text) == text

\* A file ends in a newline that is not part of its value.
value(text) ==
  IF source.kind = "file" /\ text # <<>> /\ Last(text) = Newline THEN Front(text) ELSE text

refused(n) ==
  source.kind = "file" /\ (n \in InvalidNames \/ (n \in DOMAIN store /\ store[n] = Unreadable))

\* holds, with a blank key and a blank line taken for a value.
holdsAnything(n) == n \in DOMAIN store

\* The name is set, and not to nothing.
holds(n) ==
  /\ n \in DOMAIN store
  /\ source.allowEmpty \/ value(store[n]) # <<>>

\* GoOn, coming back to an entry that has no more names.
GoOnTrying == next' = (IF tried > Len(e.names) THEN next ELSE next + 1) /\ tried' = 1

\* GoOn, once the entry has been looked up under every name it has.
GoOnToAliases ==
  IF tried < Len(e.names) THEN next' = next /\ tried' = tried + 1
  ELSE next' = next + 1 /\ tried' = 1

GoOnSkipping == next' = next + 2 /\ tried' = 1

GoOn == next' = next + 1 /\ tried' = 1

Report(code) == layer' = [layer EXCEPT !.faults = @ \cup {[code |-> code, path |-> e.path]}]

Assign(v) ==
  layer' = [layer EXCEPT !.assignments =
              Append(@, [path |-> e.path, value |-> v, origin |-> name])]

\* NullLiteral, of the environment alone: the text that erases.
erases(f, text) ==
  source.kind = "env" /\ f.flat.null # <<>> /\ text = f.flat.null

Unchanging == UNCHANGED <<source, store, rotations, phase, held>>

TryNext ==
  /\ Looking /\ ~refused(name) /\ ~holds(name)
  /\ tried' = tried + 1
  /\ UNCHANGED <<next, layer>> /\ Unchanging

ReadFails ==
  /\ Looking /\ refused(name)
  /\ Report("unreadable") /\ GoOn
  /\ Unchanging

\* A discriminator is handed over as it is read.
Read ==
  /\ Looking /\ ~refused(name) /\ holds(name)
  /\ LET text == value(store[name])
     IN \/ e.discriminator /\ Assign(<<"text", text>>)
        \/ ~e.discriminator /\ erases(e.field, text) /\ Assign(<<"null", "">>)
        \/ /\ ~e.discriminator /\ ~erases(e.field, text)
           /\ \E v \in decode(e.field, text) :
                IF v \in Failed THEN Report("undecodable") ELSE Assign(v)
  /\ GoOn /\ Unchanging

\* No name of the entry holds anything: the field is not set here.
NotSet ==
  /\ phase = "reading" /\ next <= Len(plan) /\ tried > Len(e.names)
  /\ GoOn
  /\ UNCHANGED layer /\ Unchanging

Loaded ==
  /\ phase = "reading" /\ next > Len(plan)
  /\ phase' = "loaded"
  /\ UNCHANGED <<source, store, rotations, next, tried, layer, held>>

\* The mounted directory is replaced, all of it at once, between two reads.
Rotate ==
  /\ source.kind = "file" /\ phase \in {"start", "reading"}
  /\ rotations < MaxRotations
  /\ store' \in Stores(source) \ {store}
  /\ rotations' = rotations + 1
  /\ held' = held \cup {store'}
  /\ UNCHANGED <<source, phase, next, tried, layer>>

LoadStep == Start \/ TryNext \/ ReadFails \/ Read \/ NotSet \/ Loaded

Next == LoadStep \/ Rotate

\* Load is one loop over the plan: while it can take a step, it does.
Spec == Init /\ [][Next]_vars /\ WF_vars(LoadStep)

------------------------------------------------------------------------------
(* Properties.                                                             *)

TypeOK ==
  /\ source \in Sources
  /\ held \subseteq Stores(source) /\ store \in held
  /\ rotations \in 0 .. MaxRotations
  /\ phase \in {"start", "reading", "loaded", "failed"}
  /\ next \in 1 .. Len(plan) + 1
  /\ next <= Len(plan) => tried \in 1 .. Len(e.names) + 1
  /\ Len(layer.assignments) < next

\* What an entry, read from a text, may assign.
said(entry, text) ==
  IF entry.discriminator THEN {<<"text", text>>}
  ELSE IF erases(entry.field, text) THEN {<<"null", "">>} ELSE decode(entry.field, text)

UsableIn(contents, n) ==
  /\ n \in DOMAIN contents /\ contents[n] # Unreadable
  /\ source.allowEmpty \/ value(contents[n]) # <<>>

(* What a load sets, some store it saw held: an assignment comes from a    *)
(* name of its own entry and from what was under that name, and a name is  *)
(* passed over only if there was nothing under it.  A rotation in the      *)
(* middle mixes values of two stores, never parts of two values            *)
(* (env.go lookup, file.go read).                                          *)
NothingInvented ==
  /\ \A i \in DOMAIN layer.assignments : \E k \in DOMAIN plan : \E t \in DOMAIN plan[k].names :
       LET a == layer.assignments[i]
       IN /\ a.path = plan[k].path /\ a.origin = plan[k].names[t]
          /\ \E s \in held : UsableIn(s, a.origin) /\ a.value \in said(plan[k], value(s[a.origin]))
          /\ \A u \in 1 .. t - 1 : \E s \in held : ~UsableIn(s, plan[k].names[u])
  /\ \A k \in 1 .. next - 1 :
       \/ \E i \in DOMAIN layer.assignments : layer.assignments[i].path = plan[k].path
       \/ \E f \in layer.faults : f.path = plan[k].path
       \/ \A n \in Range(plan[k].names) : \E s \in held : ~UsableIn(s, n)

(* "A flat pass would let a nested field silently claim the same variable  *)
(* as a top-level one" (env.go plan): no name feeds two values, no value   *)
(* is set twice.                                                           *)
OneNameOneValue ==
  \A i, j \in DOMAIN layer.assignments :
    LET a == layer.assignments[i]
        b == layer.assignments[j]
    IN a.origin = b.origin \/ a.path = b.path => i = j

signedness(number) == IF number.kind = "uint" THEN "uint" ELSE "int"

(* A range bounds the number that was read, whatever Go types the number   *)
(* and the bounds are kept in (constraints.go compareValues): every number *)
(* that a load sets is compared with every bound as numbers are.           *)
RangesBoundNumbers ==
  \A i \in DOMAIN layer.assignments :
    LET a == layer.assignments[i]
    IN a.value[1] = "number" =>
         \A k \in {m \in DOMAIN plan : a.origin \in Range(plan[m].names)} :
           LET n == <<signedness(plan[k].field.number), a.value[2]>>
           IN \A low, high \in Givable, exclusive \in BOOLEAN :
                LET bounds == [minimum |-> low, maximum |-> high, exclusive |-> exclusive]
                IN InRange(bounds, n) <=> Within(bounds, n[2])

(* One spelling, one number: what the environment reads a number from, a   *)
(* JSON or YAML document reads the same number from, in quotes or else     *)
(* refusing them; but an integer YAML calls octal is the number YAML says  *)
(* it is (scalar.go package comment, json/decode.go DecodeScalar,          *)
(* yaml/decode.go canonicalNumber).  A duration without a unit is a text,  *)
(* of which only 0 looks like a number.                                    *)
FormatsAgree ==
  \A k \in {m \in DOMAIN plan : ~plan[m].discriminator} :
    LET number == plan[k].field.number
    IN number.kind \in {"int", "uint"} \/ (number.kind = "duration" /\ number.unit > 0) =>
         \A n \in Range(plan[k].names) \cap DOMAIN store :
           \A i \in DOMAIN store[n] : SpelledAlike(number, store[n][i])

(* Load returns, however often the directory changes under it (env.go and  *)
(* file.go Load).                                                          *)
LoadReturns == <>(phase \in {"loaded", "failed"})
==============================================================================
