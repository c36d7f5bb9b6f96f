--------------------------------- MODULE Derive ---------------------------------
(***************************************************************************)
(* Deriving descriptors (builder.go, register.go, group.go, collection.go, *)
(* oneof.go, invariant.go, moved.go): a describe function registers the    *)
(* fields of a Go struct, through functions of its own for what is nested; *)
(* what it registered is compiled one registration and one former path at  *)
(* a time, checked and published.                                          *)
(*                                                                         *)
(* What a describe function does is a sequence of statements it may leave  *)
(* any of out; one [op, name, go, f, by, ...] stands for one call of a     *)
(* registrar for the Go field at go, f for its options.  by is the         *)
(* function that describes the object, or the Go type of the descriptor    *)
(* that does.                                                              *)
(***************************************************************************)
EXTENDS Compiling, SequencesExt

CONSTANTS
  Programs,          \* sequences of <<Go type, function>> Derive is called with
  Body(_),           \* function -> its statements
  GoLeaves(_),       \* Go struct -> the paths of its exported values
  Published(_, _)    \* module Publishing

VARIABLES
  objects,    \* the heap of object models
  builders,   \* the builders at work, innermost last; <<>> between derivations
  published,  \* the descriptors returned: [go, root, last, byPath, rules]
  program,    \* the calls of Derive that are still to come
  reported,   \* history: every diagnostic of this derivation
  overflown,  \* a walk without end has used up the stack: the process is gone
  (* compile, of the innermost builder *)
  phase,      \* "describing", "compiling" or "moving"
  root,       \* the model it makes
  levels,     \* the calls of compileContainer at work, innermost last
  handled,    \* the Go fields that are accounted for,
  ignored,    \* those of them that are not configuration,
  trees,      \* nor is what is below
  targets,    \* the fields with former paths, and those to place yet
  obj         \* the level the rest of a former path is placed in

locals == <<phase, root, levels, handled, ignored, trees, targets, obj>>

vars == <<objects, builders, published, program, reported, overflown, locals>>

Report(diags) == reported' = reported \cup diags

\* A diagnostic is its code and its subject.
when(wrong, code, name) == IF wrong THEN {<<code, name>>} ELSE {}

------------------------------------------------------------------------------
(* Builders.                                                               *)

\* An open container, by its number, and where its description is.
opened(body, in) == [body |-> body, in |-> in, at |-> 0]

newBuilder(go, fn, object, caller) ==
  [go |-> go, fn |-> fn, object |-> object, caller |-> caller, containers |-> << <<>> >>,
   stack |-> <<opened(Body(fn), 1)>>, rules |-> {}, diags |-> {}]

b     == Last(builders)
open  == Last(b.stack)
Key(builder) == <<builder.go, builder.fn>>

Working == builders # <<>>

Describing == Working /\ phase = "describing"

\* The statements that may come next: the rest of what is being described.
Coming == {j \in DOMAIN open.body : j > open.at}

withTop(stack, c) == Append(Front(stack), c)

passed(j) == [b EXCEPT !.stack = withTop(@, [body |-> open.body, in |-> open.in, at |-> j])]

\* builder.add: a declaration in the innermost open container.
add(builder, reg) ==
  [builder EXCEPT !.containers =
     [n \in DOMAIN @ |-> IF n = Last(builder.stack).in THEN Append(@[n], reg) ELSE @[n]]]

noted(builder, diags) == [builder EXCEPT !.diags = @ \cup diags]

Become(builder) == builders' = Append(Front(builders), builder)

\* What is registered of a field, and for a group the container it opens.
registration(s, f, kind, object, group) ==
  [op |-> s.op, f |-> boundField(f, s.name, s.go, kind, object), group |-> group]

\* The checks of register that keep a declaration out of the container.
refusal(s) ==
  LET code == IF s.unfit = "foreign_pointer" THEN s.unfit
              ELSE IF s.op \in {"ignore", "ignoreRecursive"} THEN ""
              ELSE IF s.name = "" THEN "missing_definition"
              ELSE IF s.op = "opaque" /\ s.f.presence # "required" THEN "unsupported_type"
              ELSE s.unfit
  IN when(code # "", code, s.name)

Refuse(j) ==
  LET s == open.body[j]
  IN /\ s.op \notin {"group", "rule"} /\ refusal(s) # {}
     /\ Become(noted(passed(j), refusal(s))) /\ Report(refusal(s))
     /\ UNCHANGED <<objects, published, program, overflown, locals>>

Accepted(j, ops) == open.body[j].op \in ops /\ refusal(open.body[j]) = {}

------------------------------------------------------------------------------
(* Statements.                                                             *)

\* registerPlain takes neither a carrier nor a pointer; Opaque asks for a reason.
misused(s) ==
  when(s.op = "plain" /\ (s.f.presence # "required" \/ s.pointer), "unsupported_type", s.name)
    \cup when(s.op = "opaque" /\ s.reason = "", "missing_definition", s.name)

RegisterValue(j) ==
  LET s == open.body[j]
  IN /\ Accepted(j, {"plain", "optional", "opaque", "ignore", "ignoreRecursive"})
     /\ Become(noted(add(passed(j), registration(s, s.f, s.f.kind, NoObject, 0)), misused(s)))
     /\ Report(misused(s))
     /\ UNCHANGED <<objects, published, program, overflown, locals>>

\* objectPresence: a section is carried and nothing else is.
wrongPresence(s) ==
  when((s.f.presence = "optional") # (s.op = "section"), "unsupported_type", s.name)

Objects == {"object", "section", "list", "map"}

\* The field holds what the object o describes.
referring(s, o) == registration(s, s.f, s.op, o, 0)

\* object, registerCollection with descriptorModel: no rule comes along.
RegisterDescribed(j) ==
  LET s    == open.body[j]
      mine == {d \in DOMAIN published : published[d].go = s.by[2]}
      wrong == IF wrongPresence(s) # {} THEN wrongPresence(s)
               ELSE when(mine = {}, "missing_definition", s.name)
  IN /\ Accepted(j, Objects) /\ s.by[1] = "descriptor"
     /\ \E o \in IF wrong = {} THEN {published[d].root : d \in mine} ELSE {NoObject} :
          Become(noted(add(passed(j), referring(s, o)), wrong))
     /\ Report(wrong)
     /\ UNCHANGED <<objects, published, program, overflown, locals>>

\* Opened, if it is the innermost description that runs.
OpenedLast(go, fn) == {i \in {Len(builders)} : Key(builders[i]) = <<go, fn>>}

Opened(go, fn) == {i \in DOMAIN builders : Key(builders[i]) = <<go, fn>>}

\* endless, of a value: a pointer could be nil.
endlessByValue(s) ==
  when(s.op = "object" /\ ~s.pointer, "unsupported_type", s.name)

\* A section that is always there and encloses itself.
endless(s) == when(s.op = "object", "unsupported_type", s.name)

\* openObject, objectFunc: a description that is already running is not run
\* again; its object is what the field refers to.
RegisterRunning(j) ==
  LET s == open.body[j]
  IN /\ Accepted(j, Objects) /\ s.by[1] = "function" /\ wrongPresence(s) = {}
     /\ \E i \in Opened(s.elem, s.by[2]) :
          Become(noted(add(passed(j), referring(s, builders[i].object)), endless(s)))
     /\ Report(endless(s))
     /\ UNCHANGED <<objects, published, program, overflown, locals>>

Describe(j) ==
  LET s == open.body[j]
      o == Len(objects) + 1
  IN /\ Accepted(j, Objects) /\ s.by[1] = "function" /\ wrongPresence(s) = {}
     /\ Opened(s.elem, s.by[2]) = {}
     /\ objects' = Append(objects, emptyObject(s.elem, o))
     /\ builders' = Append(Append(Front(builders), passed(j)), newBuilder(s.elem, s.by[2], o, s))
     /\ UNCHANGED <<published, program, reported, overflown, locals>>

RegisterMismatched(j) ==
  LET s == open.body[j]
  IN /\ Accepted(j, Objects) /\ s.by[1] = "function" /\ wrongPresence(s) # {}
     /\ Become(noted(add(passed(j), referring(s, NoObject)), wrongPresence(s)))
     /\ Report(wrongPresence(s))
     /\ UNCHANGED <<objects, published, program, overflown, locals>>

\* Variant: it has a tag, a descriptor, and a field of the union's own.
fits(v) == v.tag # "" /\ v.own /\ \E d \in DOMAIN published : published[d].go = v.go

\* OneOf: a variant that does not fit is reported and left out; tags are told apart.
OneOf(j) ==
  LET s    == open.body[j]
      fit  == SelectSeq(s.variants, fits)
      tags == {fit[v].tag : v \in DOMAIN fit}
      shapeless == s.f.tag = "" \/ fit = <<>>
      wrong == when(shapeless \/ fit # s.variants \/ Cardinality(tags) # Len(fit),
                    "union_invalid", s.name)
      variant(v, d) == [tag |-> fit[v].tag, object |-> published[d].root]
      union(ds) == upon(s.f, [variants |-> [v \in DOMAIN ds |-> variant(v, ds[v])]])
  IN /\ Accepted(j, {"union"})
     /\ \E ds \in [DOMAIN fit -> DOMAIN published] :
          /\ \A v \in DOMAIN ds : published[ds[v]].go = fit[v].go
          /\ Become(noted(add(passed(j),
               IF shapeless THEN registration(s, s.f, "object", NoObject, 0)
               ELSE registration(s, union(ds), "union", NoObject, 0)), wrong))
     /\ Report(wrong)
     /\ UNCHANGED <<objects, published, program, overflown, locals>>

\* Group: its declaration, and a container that is the innermost one from now on.
OpenGroup(j) ==
  LET s == open.body[j]
      n == Len(b.containers) + 1
      group == add(passed(j), registration(s, s.f, "group", NoObject, n))
  IN /\ s.op = "group"
     /\ Become(IF s.name = "" THEN noted(passed(j), {<<"missing_definition", "">>})
               ELSE [group EXCEPT !.containers = Append(@, <<>>),
                                  !.stack = Append(@, opened(s.body, n))])
     /\ Report(when(s.name = "", "missing_definition", ""))
     /\ UNCHANGED <<objects, published, program, overflown, locals>>

CloseGroup ==
  /\ Describing /\ Len(b.stack) > 1
  /\ Become([b EXCEPT !.stack = Front(@)])
  /\ UNCHANGED <<objects, published, program, reported, overflown, locals>>

\* Invariant: a rule is known by its name among its builder's; it checks the
\* struct that builder describes.
Invariant(j) ==
  LET s     == open.body[j]
      taken == {r \in b.rules : r.name = <<s.name>>}
      twice == when(taken # {}, "duplicate_name", s.name)
  IN /\ s.op = "rule"
     /\ Become(noted([passed(j) EXCEPT !.rules =
                        IF taken = {}
                        THEN @ \cup {[name |-> <<s.name>>, prefix |-> <<>>, checks |-> b.object]}
                        ELSE @],
                     twice))
     /\ Report(twice)
     /\ UNCHANGED <<objects, published, program, overflown, locals>>

------------------------------------------------------------------------------
(* A describe function has returned: what its builder holds is compiled.   *)

Complain(diags) == Become(noted(b, diags)) /\ Report(diags)

\* The call of compileContainer for the container in: its model is the object.
\* f is the group it is of.
level(object, in, f) == [object |-> object, in |-> in, f |-> f, at |-> 0]

\* compile; the model a field was bound to while it was open stays empty so far.
StartCompile ==
  /\ Describing /\ Len(b.stack) = 1
  /\ objects' = Append(objects, emptyObject(b.go, NoObject))
  /\ phase' = "compiling" /\ root' = Len(objects) + 1
  /\ levels' = <<level(root', 1, <<>>)>>
  /\ UNCHANGED <<builders, published, program, reported, overflown,
                 handled, ignored, trees, targets, obj>>

current == Last(levels)
regs    == b.containers[current.in]
reg     == regs[current.at + 1]

InLevels == Working /\ phase = "compiling"
MoreRegs  == InLevels /\ current.at < Len(regs)

onward == [object |-> current.object, in |-> current.in, f |-> current.f, at |-> current.at + 1]

GoOn == levels' = withTop(levels, onward)

isIgnored(r) == r.op \in {"ignore", "ignoreRecursive"}

\* Taken, if a value has the name.
takenByValue(o, name) ==
  \E i \in fieldNamed(objects[o], name) : objects[o].fields[i].kind # "group"

taken(o, name) == fieldNamed(objects[o], name) # {}

\* handled spans the levels of a builder: it is about Go fields, which a group
\* does not nest.
CompileAgain ==
  /\ MoreRegs /\ reg.op # "group" /\ reg.f.go \in handled
  /\ Complain({<<"duplicate_field", reg.f.name>>}) /\ GoOn
  /\ UNCHANGED <<objects, published, program, overflown,
                 phase, root, handled, ignored, trees, targets, obj>>

CompileIgnored ==
  /\ MoreRegs /\ isIgnored(reg) /\ reg.f.go \notin handled
  /\ handled' = handled \cup {reg.f.go}
  /\ \/ reg.op = "ignore" /\ ignored' = ignored \cup {reg.f.go} /\ UNCHANGED trees
     \/ reg.op # "ignore" /\ trees' = trees \cup {reg.f.go} /\ UNCHANGED ignored
  /\ GoOn
  /\ UNCHANGED <<objects, builders, published, program, reported, overflown,
                 phase, root, targets, obj>>

CompileTaken ==
  /\ MoreRegs /\ ~isIgnored(reg) /\ taken(current.object, reg.f.name)
  /\ \/ reg.op = "group" /\ UNCHANGED handled
     \/ reg.op # "group" /\ reg.f.go \notin handled /\ handled' = handled \cup {reg.f.go}
  /\ Complain({<<"duplicate_name", reg.f.name>>}) /\ GoOn
  /\ UNCHANGED <<objects, published, program, overflown, phase, root, ignored, trees, targets, obj>>

\* Where a field is once its object is compiled.
model(o) == IF o = root THEN b.object ELSE o

appended(objs, o, f) == [objs EXCEPT ![o].fields = Append(@, f)]

CompileField ==
  LET o   == current.object
      ref == <<model(o), Len(objects[o].fields) + 1>>
  IN /\ MoreRegs /\ reg.op # "group" /\ ~isIgnored(reg)
     /\ reg.f.go \notin handled /\ ~taken(o, reg.f.name)
     /\ handled' = handled \cup {reg.f.go}
     /\ objects' = appended(objects, o, reg.f)
     /\ targets' = IF reg.f.former = <<>> THEN targets
                   ELSE Append(targets, [f |-> reg.f, ref |-> ref, former |-> reg.f.former])
     /\ Complain(validateField(objects, reg.f)) /\ GoOn
     /\ UNCHANGED <<published, program, overflown, phase, root, ignored, trees, obj>>

CompileGroup ==
  /\ MoreRegs /\ reg.op = "group" /\ ~taken(current.object, reg.f.name)
  /\ objects' = Append(objects, emptyObject(b.go, b.object))
  /\ levels' = Append(withTop(levels, onward), level(Len(objects) + 1, reg.group, reg.f))
  /\ UNCHANGED <<builders, published, program, reported, overflown,
                 phase, root, handled, ignored, trees, targets, obj>>

\* A level is compiled: the group is a field of the level around it.
CloseLevel ==
  LET around == levels[Len(levels) - 1].object
  IN /\ InLevels /\ current.at = Len(regs) /\ Len(levels) > 1
     /\ objects' = appended(objects, around, upon(current.f, [object |-> current.object]))
     /\ levels' = Front(levels)
     /\ UNCHANGED <<builders, published, program, reported, overflown,
                    phase, root, handled, ignored, trees, targets, obj>>

\* checkCompleteness
missing == {leaf \in GoLeaves(b.go) : ~covered(leaf, handled, trees)}

CheckCompleteness ==
  /\ InLevels /\ current.at = Len(regs) /\ Len(levels) = 1
  /\ Complain({<<"missing_definition", Last(leaf)>> : leaf \in missing})
  /\ phase' = "moving" /\ obj' = root /\ levels' = <<>>
  /\ UNCHANGED <<objects, published, program, overflown, root, handled, ignored, trees, targets>>

------------------------------------------------------------------------------
(* placeMoved: for every field with former paths, for every one of them,   *)
(* for every segment of it.                                                *)

Moving == Working /\ phase = "moving"

target == Head(targets)
old    == Head(target.former)

Placing == Moving /\ targets # <<>> /\ target.former # <<>>

\* The target is left with these former paths.
leave(former) ==
  targets' = [targets EXCEPT ![1] = [f |-> target.f, ref |-> target.ref, former |-> former]]

NextFormer == leave(Tail(target.former)) /\ obj' = root
NextSegment(o) == leave(<<Tail(old)>> \o Tail(target.former)) /\ obj' = o

NextTarget ==
  /\ Moving /\ targets # <<>> /\ target.former = <<>>
  /\ targets' = Tail(targets)
  /\ UNCHANGED <<objects, builders, published, program, reported, overflown,
                 phase, root, levels, handled, ignored, trees, obj>>

PlaceShadow ==
  /\ Placing /\ Len(old) = 1 /\ ~taken(obj, Head(old))
  /\ objects' = appended(objects, obj, shadowField(target.f, target.ref, Head(old)))
  /\ NextFormer
  /\ UNCHANGED <<builders, published, program, reported, overflown,
                 phase, root, levels, handled, ignored, trees>>

RebuildLevel ==
  LET o == Len(objects) + 1
  IN /\ Placing /\ Len(old) > 1 /\ ~taken(obj, Head(old))
     /\ objects' = appended(Append(objects, emptyObject(b.go, b.object)), obj, levelField(Head(old), o))
     /\ NextSegment(o)
     /\ UNCHANGED <<builders, published, program, reported, overflown,
                    phase, root, levels, handled, ignored, trees>>

\* The level a former path passes through.
through == {i \in fieldNamed(objects[obj], Head(old)) : isLevel(objects[obj].fields[i])}

EnterLevel ==
  /\ Placing /\ Len(old) > 1
  /\ \E i \in through : NextSegment(objects[obj].fields[i].object)
  /\ UNCHANGED <<objects, builders, published, program, reported, overflown,
                 phase, root, levels, handled, ignored, trees>>

InTheWay ==
  /\ Placing /\ taken(obj, Head(old)) /\ (Len(old) = 1 \/ through = {})
  /\ Complain({<<"duplicate_name", Head(old)>>}) /\ NextFormer
  /\ UNCHANGED <<objects, published, program, overflown,
                 phase, root, levels, handled, ignored, trees>>

------------------------------------------------------------------------------
(* The model is made.                                                      *)

Compiled == Moving /\ targets = <<>>

\* The model is filled in place: whatever was bound to it while it was open is
\* bound to what has been made.
filled ==
  [objects EXCEPT ![b.object] =
     [go |-> b.go, fields |-> objects[root].fields, within |-> b.object, ignored |-> ignored \cup trees]]

Forget ==
  /\ phase' = "describing" /\ root' = NoObject /\ obj' = NoObject
  /\ handled' = {} /\ ignored' = {} /\ trees' = {}
  /\ UNCHANGED <<levels, targets>>

\* lift, of what another builder lifted already.
liftOnce(rules, name) == {[r EXCEPT !.name = <<name>> \o @, !.prefix = <<name>>] : r \in rules}

\* lift: the rules of a nested object, under its name.
lift(rules, name) ==
  {[r EXCEPT !.name = <<name>> \o @, !.prefix = <<name>> \o @] : r \in rules}

nestedDiagsDropped(parent, diags) == parent

\* What a nested builder found is the parent's too.
inherit(parent, diags) == noted(parent, diags)

\* describeNested: the parent goes on with the object, the diagnostics, the rules.
NestedReturns ==
  /\ Compiled /\ Len(builders) > 1
  /\ LET s      == b.caller
         parent == builders[Len(builders) - 1]
         inElements == s.op \in {"list", "map"}
         refused == when(inElements /\ b.rules # {}, "missing_definition", s.name)
         told == noted(inherit(add(parent, referring(s, b.object)), b.diags), refused)
     IN /\ builders' = Append(SubSeq(builders, 1, Len(builders) - 2),
                         IF inElements THEN told
                         ELSE [told EXCEPT !.rules = @ \cup lift(b.rules, s.name)])
        /\ Report(refused)
  /\ objects' = filled /\ Forget
  /\ UNCHANGED <<published, program, overflown>>

\* The fields of the heap, each where a walk found it.
stamped(objs, places) ==
  [o \in DOMAIN objs |->
     [objs[o] EXCEPT !.fields = [i \in DOMAIN @ |-> upon(@[i],
        [path |-> places[o][i].path, recursive |-> places[o][i].recursive])]]]

\* Derive returns an error, or publishes, or runs out of stack.
DeriveReturns ==
  /\ Compiled /\ Len(builders) = 1
  /\ LET out   == Published(filled, b.object)
         clean == b.diags = {}
     IN /\ objects' = IF clean THEN stamped(filled, out.places) ELSE filled
        /\ published' = IF clean /\ out.ends
                        THEN Append(published, [go |-> b.go, root |-> b.object, last |-> Len(objects),
                                                byPath |-> out.byPath, rules |-> b.rules])
                        ELSE published
        /\ overflown' = (clean /\ ~out.ends)
  /\ builders' = <<>> /\ Forget
  /\ UNCHANGED <<program, reported>>

StartDerive ==
  /\ ~Working /\ program # <<>> /\ ~overflown
  /\ LET r == Head(program)
         o == Len(objects) + 1
     IN /\ objects' = Append(objects, emptyObject(r[1], o))
        /\ builders' = <<newBuilder(r[1], r[2], o, <<>>)>>
  /\ program' = Tail(program) /\ reported' = {}
  /\ UNCHANGED <<published, overflown, locals>>

------------------------------------------------------------------------------
Init ==
  /\ objects = <<>> /\ builders = <<>> /\ published = <<>>
  /\ program \in Programs /\ reported = {} /\ overflown = FALSE
  /\ phase = "describing" /\ root = NoObject /\ obj = NoObject
  /\ levels = <<>> /\ targets = <<>> /\ handled = {} /\ ignored = {} /\ trees = {}

Statement ==
  /\ Describing
  /\ \E j \in Coming :
       \/ Refuse(j) \/ RegisterValue(j)
       \/ RegisterDescribed(j) \/ RegisterRunning(j) \/ Describe(j) \/ RegisterMismatched(j)
       \/ OneOf(j) \/ OpenGroup(j) \/ Invariant(j)

Compile ==
  \/ StartCompile \/ CompileAgain \/ CompileIgnored \/ CompileTaken
  \/ CompileField \/ CompileGroup \/ CloseLevel \/ CheckCompleteness

PlaceMoved ==
  NextTarget \/ PlaceShadow \/ RebuildLevel \/ EnterLevel \/ InTheWay

Return == NestedReturns \/ DeriveReturns

Next == StartDerive \/ Statement \/ CloseGroup \/ Compile \/ PlaceMoved \/ Return

Spec == Init /\ [][Next]_vars

------------------------------------------------------------------------------
(* Properties.                                                             *)

\* (openObject) A description is not run inside itself, through however many
\* others.
NoneInsideItself ==
  \A i, k \in DOMAIN builders : i # k => Key(builders[i]) # Key(builders[k])

\* (Derive) A descriptor is published only if no level reported anything, at
\* whatever depth and in whatever phase.
PublishedClean == [][published' # published => reported' = {}]_vars

\* (builder.place) The fields of a level have names of their own, those that
\* groups, former paths and rebuilt levels add included.
NamesApart ==
  \A o \in DOMAIN objects : \A i, k \in DOMAIN objects[o].fields :
    i # k => objects[o].fields[i].name # objects[o].fields[k].name

\* The objects made for the descriptors there are.
made(pub) == UNION {pub[d].root .. pub[d].last : d \in DOMAIN pub}

\* The Go fields bound by the description of o, whatever group they are in.
bound(objs, o) ==
  UNION {{objs[x].fields[i].go : i \in DOMAIN objs[x].fields} :
           x \in {x \in DOMAIN objs : objs[x].within = o}}

\* Each exported value is bound or ignored, itself or as part of what holds it.
Covers(objs, o) ==
  \A leaf \in GoLeaves(objs[o].go) :
    \E n \in 1 .. Len(leaf) : SubSeq(leaf, 1, n) \in bound(objs, o) \cup objs[o].ignored

\* (checkCompleteness) Nothing of a Go type is forgotten: each exported value in
\* a struct that a published descriptor describes is bound by a field of that
\* struct's description, in a group or not, or ignored there.
Accounted ==
  \A o \in made(published) : objects[o].within = o => Covers(objects, o)

\* The field holds an object that is always there.
Held(f) == f.kind \in {"object", "group"} /\ f.object # NoObject /\ ~Moved(f)

\* The objects that are always there in the object o.
always(objs, o) ==
  {objs[o].fields[i].object : i \in {i \in DOMAIN objs[o].fields : Held(objs[o].fields[i])}}

\* However some of the objects K are held in one another, one holds no other.
Grounded(objs, K) ==
  \A held \in SUBSET K : held # {} => \E o \in held : always(objs, o) \cap held = {}

\* (objectFunc, openObject) Every value of a described type is finite: no object
\* of a published descriptor, through sections that are always there, holds
\* itself.
EveryInstanceFinite == Grounded(objects, made(published))
==============================================================================
