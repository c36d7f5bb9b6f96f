--------------------------------- MODULE MCFlat ---------------------------------
(***************************************************************************)
(* Loading one description from an environment and from a mounted          *)
(* directory: prefixed and not, with names that collide, with empty texts  *)
(* that count, with numbers at the ends of their range.                    *)
(***************************************************************************)
EXTENDS FlatSource, Fields

\* The words of every segment below that is more than one word.
MCWords(segment) ==
  CASE segment = "database_dsn" -> <<"DATABASE", "DSN">>
    [] segment = "maxBytes"     -> <<"MAX", "BYTES">>
    [] segment = "level"        -> <<"LEVEL">>
    [] segment = "tags"         -> <<"TAGS">>
    [] segment = "database"     -> <<"DATABASE">>
    [] segment = "dsn"          -> <<"DSN">>
    [] segment = "timeout"      -> <<"TIMEOUT">>
    [] segment = "delay"        -> <<"DELAY">>
    [] segment = "auth"         -> <<"AUTH">>
    [] segment = "token"        -> <<"TOKEN">>
    [] segment = "file"         -> <<"FILE">>
    [] segment = "labels"       -> <<"LABELS">>
    [] segment = "hidden"       -> <<"HIDDEN">>
    [] segment = "tls"          -> <<"TLS">>
    [] segment = "crt"          -> <<"CRT">>
    [] segment = "sink"         -> <<"SINK">>
    [] segment = "type"         -> <<"TYPE">>
    [] segment = "debug"        -> <<"DEBUG">>
    [] segment = "key"          -> <<"KEY">>
    [] segment = "old"          -> <<"OLD">>
    [] OTHER                    -> <<segment>>

Flat == INSTANCE FlatPlan WITH Words <- MCWords

Width(kind)   == [kind |-> kind, unit |-> 0]
Duration(u)   == [kind |-> "duration", unit |-> u]
Told(f, flat) == [f EXCEPT !.flat = flat]

Sink == [structured("union", "sink", <<>>) EXCEPT !.tag = "type",
           !.variants = <<[tag |-> "file", members |-> <<leafField("file")>>],
                          [tag |-> "none", members |-> <<>>]>>]

Word(w)   == <<"word", w>>
Count(n)  == <<"count", n>>
Halves(h) == <<"halves", h>>
Octal     == <<"octal", [written |-> 10, meant |-> 8]>>

\* A name given as a path outside the directory, which no file can have.
Absolute == <<"/run/crt">>

RootOf(kind) == <<
  Told(leafField("level"), [skip |-> FALSE, name |-> "", aliases |-> <<<<"VERBOSITY">>>>,
                            null |-> <<Word("unset")>>]),
  [leafField("tags") EXCEPT !.shape = "list"],
  structured("group", "database", <<[leafField("dsn") EXCEPT !.former = <<<<"database_dsn">>>>]>>),
  [leafField("timeout") EXCEPT !.number = Duration(4)],
  [leafField("delay") EXCEPT !.number = Duration(1)],
  [leafField("maxBytes") EXCEPT !.number = Width("uint")],
  [structured("object", "auth", <<leafField("token"), leafField("file")>>)
     EXCEPT !.scalarOr = TRUE, !.former = <<<<"legacy">>>>],
  structured("section", "tls", <<
    Told(leafField("cert"), [noProjection EXCEPT !.name = "crt",
           !.aliases = IF kind = "file" THEN <<Absolute>> ELSE <<>>])>>),
  Sink,
  [leafField("debug") EXCEPT !.number = [noNumber EXCEPT !.kind = "spelled"]],
  [leafField("key") EXCEPT !.decoder = TRUE],
  [leafField("labels") EXCEPT !.shape = "map"],
  Told(leafField("hidden"), [noProjection EXCEPT !.skip = TRUE]),
  structured("list", "rules", <<leafField("match")>>),
  [leafField("extra") EXCEPT !.kind = "opaque"] >>

Compiled == [kind \in {"env", "file"} |-> Flat!Compile(RootOf(kind))]

------------------------------------------------------------------------------
(* The sources, and what each is told to read where.                       *)

Env == [kind |-> "env", prefix |-> <<"APP">>, naming |-> "default", root |-> Compiled["env"],
        allowEmpty |-> FALSE, broken |-> FALSE, missing |-> FALSE, optional |-> FALSE]
Dir == [Env EXCEPT !.kind = "file", !.prefix = <<>>, !.root = Compiled["file"]]

MCSources ==
  {Env, [Env EXCEPT !.prefix = <<>>, !.allowEmpty = TRUE], [Env EXCEPT !.naming = "last"],
   [Env EXCEPT !.naming = "both"],
   [Env EXCEPT !.broken = TRUE],
   Dir, [Dir EXCEPT !.allowEmpty = TRUE], [Dir EXCEPT !.naming = "last"],
   [Dir EXCEPT !.missing = TRUE], [Dir EXCEPT !.missing = TRUE, !.optional = TRUE]}

PlanOf == [s \in MCSources |-> Flat!Plan(s, s.root)]
MCPlanned(s) == PlanOf[s]

(* The names an operator reads in the documentation, written out: each     *)
(* path, its names in order for the environment and for a directory, and   *)
(* the number its text is.                                                 *)
P(texts) == [i \in DOMAIN texts |-> NameSeg(texts[i])]

Table == <<
  [path |-> P(<<"level">>), env |-> <<<<"LEVEL">>, <<"VERBOSITY">>>>,
   file |-> <<<<"level">>, <<"VERBOSITY">>>>, as |-> "text", unit |-> 0],
  [path |-> P(<<"tags">>), env |-> <<<<"TAGS">>>>, file |-> <<<<"tags">>>>,
   as |-> "list", unit |-> 0],
  [path |-> P(<<"database", "dsn">>), env |-> <<<<"DATABASE", "DSN">>>>,
   file |-> <<<<"database", "dsn">>>>, as |-> "text", unit |-> 0],
  [path |-> P(<<"timeout">>), env |-> <<<<"TIMEOUT">>>>, file |-> <<<<"timeout">>>>,
   as |-> "duration", unit |-> 4],
  [path |-> P(<<"delay">>), env |-> <<<<"DELAY">>>>, file |-> <<<<"delay">>>>,
   as |-> "duration", unit |-> 1],
  [path |-> P(<<"maxBytes">>), env |-> <<<<"MAX", "BYTES">>>>, file |-> <<<<"maxBytes">>>>,
   as |-> "uint", unit |-> 0],
  [path |-> P(<<"auth">>), env |-> <<<<"AUTH">>>>, file |-> <<<<"auth">>>>,
   as |-> "text", unit |-> 0],
  [path |-> P(<<"auth", "token">>), env |-> <<<<"AUTH", "TOKEN">>>>,
   file |-> <<<<"auth", "token">>>>, as |-> "text", unit |-> 0],
  [path |-> P(<<"auth", "file">>), env |-> <<<<"AUTH", "FILE">>>>,
   file |-> <<<<"auth", "file">>>>, as |-> "text", unit |-> 0],
  [path |-> P(<<"tls", "cert">>), env |-> <<<<"TLS", "CRT">>>>,
   file |-> <<<<"tls", "crt">>, Absolute>>, as |-> "text", unit |-> 0],
  [path |-> P(<<"sink", "type">>), env |-> <<<<"SINK", "TYPE">>>>,
   file |-> <<<<"sink", "type">>>>, as |-> "text", unit |-> 0],
  [path |-> P(<<"sink", "file">>), env |-> <<<<"SINK", "FILE">>>>,
   file |-> <<<<"sink", "file">>>>, as |-> "text", unit |-> 0],
  [path |-> P(<<"labels">>), env |-> <<<<"LABELS">>>>, file |-> <<<<"labels">>>>,
   as |-> "nothing", unit |-> 0],
  [path |-> P(<<"debug">>), env |-> <<<<"DEBUG">>>>, file |-> <<<<"debug">>>>,
   as |-> "spelled", unit |-> 0],
  [path |-> P(<<"key">>), env |-> <<<<"KEY">>>>, file |-> <<<<"key">>>>,
   as |-> "spelled", unit |-> 0] >>

Documented(row) ==
  LET told == IF source.kind = "env" THEN row.env ELSE row.file
      ns   == IF source.naming = "both"
              THEN <<Head(told), <<"OLD">> \o Head(told)>> \o Tail(told) ELSE told
  IN [i \in DOMAIN ns |-> source.prefix \o ns[i]]

------------------------------------------------------------------------------
(* The environments and directories.                                       *)

At(src, env, file) == IF src.kind = "env" THEN src.prefix \o env ELSE file

\* Unrelated values everywhere, under the fields no name reaches too.
Full(src) ==
  At(src, <<"TAGS">>, <<"tags">>) :> <<Word("a"), Word("b")>>
  @@ At(src, <<"DATABASE", "DSN">>, <<"database", "dsn">>) :> <<Word("d")>>
  @@ At(src, <<"DATABASE", "DSN">>, <<"database_dsn">>) :> <<Word("d")>>
  @@ At(src, <<"TLS", "CRT">>, <<"tls", "crt">>) :> <<Word("pem")>>
  @@ At(src, <<"TLS", "CERT">>, <<"tls", "cert">>) :> <<Word("old")>>
  @@ At(src, <<"AUTH", "FILE">>, <<"auth", "file">>) :> <<Word("f")>>
  @@ At(src, <<"SINK", "TYPE">>, <<"sink", "type">>) :> <<Word("file")>>
  @@ At(src, <<"SINK", "FILE">>, <<"sink", "file">>) :> <<Word("p"), Word("q")>>
  @@ At(src, <<"FILE">>, <<"file">>) :> <<Word("g")>>
  @@ At(src, <<"LABELS">>, <<"labels">>) :> <<Word("l")>>
  @@ At(src, <<"HIDDEN">>, <<"hidden">>) :> <<Word("h")>>
  @@ At(src, <<"RULES">>, <<"rules">>) :> <<Word("r")>>
  @@ At(src, <<"EXTRA">>, <<"extra">>) :> <<Word("x")>>
  @@ At(src, <<"LEGACY">>, <<"legacy">>) :> <<Word("y")>>

Texts(src) ==
  IF src.kind = "env" THEN {<<Word("debug")>>, <<>>, <<Word("unset")>>}
  ELSE {<<Word("debug"), Newline>>, <<>>, <<Newline>>, Unreadable}

Levels(src) ==
  {At(src, <<"LEVEL">>, <<"level">>) :> t : t \in Texts(src)} \cup {<<>>}
Aliased(src) ==
  {<<>>} \cup {src.prefix \o n :> t : t \in {<<>>, <<Word("info")>>},
                           n \in {IF src.naming = "both" THEN <<"OLD", "LEVEL">> ELSE <<"VERBOSITY">>}}

Timeouts ==
  {Count(n) : n \in {-8, -3, -2, 0, 1, 2, 4, 8}} \cup {Halves(h) : h \in {-5, 3, 4, 5}}
    \cup {<<"nan", "">>, <<"duration", 5>>, Word("soon"), Octal}

Numbers_(src) ==
  {At(src, <<"TIMEOUT">>, <<"timeout">>) :> <<t>> : t \in Timeouts}
    \cup {At(src, <<"DELAY">>, <<"delay">>) :> <<t>> :
            t \in {Count(8), Count(-8), Count(-17), Count(7)}}
    \cup {At(src, <<"MAX", "BYTES">>, <<"maxBytes">>) :> <<t>> :
            t \in {Count(-1), Count(15), Count(16), Halves(3), Word("many"), Octal}}

Others(src) ==
  {At(src, <<"AUTH">>, <<"auth">>) :> <<Word("token")>>,
   At(src, <<"AUTH", "TOKEN">>, <<"auth", "token">>) :> <<Word("t")>>,
   At(src, <<"TAGS">>, <<"tags">>) :> <<>>}
    \cup {At(src, n[1], n[2]) :> <<t>> :
            n \in {<<<<"DEBUG">>, <<"debug">>>>, <<<<"KEY">>, <<"key">>>>},
            t \in {<<"spelled", "yes">>, Word("maybe")}}

AllStores(src) ==
  IF src.kind = "env"
  THEN {l @@ a @@ Full(src) : l \in Levels(src), a \in Aliased(src)}
         \cup {x @@ Full(src) : x \in Numbers_(src) \cup Others(src)}
  ELSE IF src.allowEmpty \/ src.naming = "last" \/ src.missing
  THEN {l @@ Full(src) : l \in Levels(src)}
  ELSE {l @@ a : l \in Levels(src), a \in Aliased(src)}
         \cup {x @@ Full(src) : x \in Others(src)}

StoresOf == [s \in MCSources |-> AllStores(s)]
MCStores(s) == StoresOf[s]

MCInvalidNames == {Absolute}

ASSUME PathsAreApart == \A src \in Sources : PathsApart(src)

------------------------------------------------------------------------------
(* What a text means, as numbers rather than as their machine form.        *)

Fits(n) == IF n \in Signed THEN {<<"number", n>>} ELSE Failed

\* A float at 2^63, and one that is no number, convert to what the machine has.
Unspecified(token, unit) ==
  \/ token[1] = "nan"
  \/ token[1] = "halves" /\ token[2] * unit = 2 * Half
  \/ token[1] = "count" /\ token[2] \notin Signed /\ token[2] * unit = Half

Nanoseconds(token, unit) ==
  CASE token[1] = "duration" -> {<<"number", token[2]>>}
    [] token[1] = "count" -> Fits(token[2] * unit)
    [] token[1] = "octal" -> Fits(token[2].written * unit)
    [] token[1] = "halves" -> Fits(quotient(token[2] * unit, 2))
    [] OTHER -> Failed

Meaning(row, text) ==
  CASE row.as = "text" -> {<<"text", text>>}
    [] row.as = "list" -> {<<"list", text>>}
    [] row.as = "nothing" -> Failed
    [] row.as = "spelled" ->
         IF text = <<<<"spelled", "yes">>>> THEN {<<"parsed", "yes">>} ELSE Failed
    [] row.as = "duration" ->
         IF Unspecified(Head(text), row.unit) THEN {<<"number", n>> : n \in Signed}
         ELSE Nanoseconds(Head(text), row.unit)
    [] row.as = "uint" ->
         LET digits == tenBased(Head(text))
         IN IF digits[1] = "count" /\ digits[2] \in Unsigned
            THEN {<<"number", digits[2]>>} ELSE Failed

\* The first name that is invalid, unreadable or has a text; and that text.
Candidates(row, contents) ==
  SelectSeq(Documented(row), LAMBDA n :
    \/ source.kind = "file" /\ n \in InvalidNames
    \/ n \in DOMAIN contents
         /\ \/ contents[n] = Unreadable
            \/ source.allowEmpty
            \/ contents[n] \notin {<<>>} \cup (IF source.kind = "file" THEN {<<Newline>>} ELSE {}))

Bad(n, contents) == n \in InvalidNames \/ contents[n] = Unreadable
TextAt(n, contents) ==
  IF source.kind = "file" /\ contents[n] # <<>> /\ Last(contents[n]) = Newline
  THEN Front(contents[n]) ELSE contents[n]

Assigned(p) == {layer.assignments[i] : i \in {j \in DOMAIN layer.assignments :
                                                layer.assignments[j].path = p}}
Codes(p)    == {f.code : f \in {g \in layer.faults : g.path = p}}

AsSaid(row) ==
  LET found == Candidates(row, store)
      n     == Head(found)
      text  == TextAt(n, store)
      here  == Assigned(row.path)
  IN CASE found = <<>> -> here = {} /\ Codes(row.path) = {}
       [] found # <<>> /\ Bad(n, store) -> here = {} /\ Codes(row.path) = {"unreadable"}
       [] OTHER ->
            LET means == IF source.kind = "env" /\ row.path = P(<<"level">>)
                              /\ text = <<Word("unset")>>
                         THEN {<<"null", "">>} ELSE Meaning(row, text)
            IN IF means = Failed THEN here = {} /\ Codes(row.path) = {"undecodable"}
               ELSE Codes(row.path) = {}
                      /\ \E v \in means : here = {[path |-> row.path, value |-> v, origin |-> n]}

Plain == source.naming # "last" /\ ~source.missing

(* Read without a change under it, a source sets each field to the value,  *)
(* the erase or the error that the first of its documented names with      *)
(* anything in it means, and sets nothing else; names that collide under   *)
(* a naming are reported and nothing is read (env.go, file.go).            *)
LoadsWhatNamesSay ==
  phase = "loaded" /\ rotations = 0 =>
    CASE Plain ->
           /\ \A i \in DOMAIN Table : AsSaid(Table[i])
           /\ \A i \in DOMAIN layer.assignments :
                \E j \in DOMAIN Table : Table[j].path = layer.assignments[i].path
      [] source.missing -> layer.assignments = <<>> /\ layer.faults = {}
      [] OTHER -> /\ layer.assignments = <<>>
                  /\ layer.faults = {[code |-> "collision", path |-> P(<<"sink", "file">>)]}
==============================================================================
