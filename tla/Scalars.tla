-------------------------------- MODULE Scalars --------------------------------
(***************************************************************************)
(* What a scalar means: to the text parser every source shares             *)
(* (internal/scalar), and to the JSON and YAML decoders, which know how it *)
(* was spelled (source/json, source/yaml).                                 *)
(*                                                                         *)
(* A text is the sequence of its tokens, which the separator of lists lies *)
(* between.  A token is a word, a newline, a whole number, a number of     *)
(* halves, a duration of so many nanoseconds, the number that is none, an  *)
(* octal [written, meant]: the digits 010 are written as ten and mean      *)
(* eight, or what a type with a spelling of its own takes.  The result of  *)
(* decoding is a set: what a float outside the range converts to depends   *)
(* on the machine.                                                         *)
(***************************************************************************)
EXTENDS Numbers, Sequences, SequencesExt, Functions

Failed    == {<<"failed", "">>}
Number(S) == {<<"number", n>> : n \in S}

scaledFloat(unit, halves) ==
  IF ScaleUnitFloatFits(unit, halves) THEN Number(ScaleUnitFloat(unit, halves)) ELSE Failed

\* The text parser reads digits as base ten.
tenBased(token) == IF token[1] = "octal" THEN <<"count", token[2].written>> ELSE token

\* ParseDuration: a count of the unit, whole or not, or a Go duration.  What
\* an int64 does not hold is read as a float.
parsedDuration(unit, token) ==
  CASE token[1] = "duration" -> Number({token[2]})
    [] token[1] = "count" /\ unit > 0 ->
         IF token[2] \notin Signed THEN scaledFloat(unit, 2 * token[2])
         ELSE IF ScaleUnitFits(unit, token[2]) THEN Number({ScaleUnit(unit, token[2])})
         ELSE Failed
    [] token[1] = "count" /\ unit = 0 -> IF token[2] = 0 THEN Number({0}) ELSE Failed
    [] token[1] = "halves" -> IF unit > 0 THEN scaledFloat(unit, token[2]) ELSE Failed
    [] token[1] = "nan" -> IF unit > 0 THEN Number({-Half, 0}) ELSE Failed
    [] OTHER -> Failed

ParseDuration(unit, token) == parsedDuration(unit, tenBased(token))

\* parseInteger of the text, in the width of the type.
integer(kind, token) ==
  IF token[1] = "count" /\ token[2] \in parseInteger(kind) THEN Number({token[2]}) ELSE Failed

\* What takes some texts only: a type with a spelling (a flag, a float, a time,
\* base64, a type that parses itself), a decoder of the application's.
Spelled(token) == IF token[1] = "spelled" THEN {<<"parsed", token[2]>>} ELSE Failed

\* One scalar of a field's type.
parseScalar(number, token) ==
  CASE number.kind = "none"     -> {token}
    [] number.kind = "spelled"  -> Spelled(token)
    [] number.kind = "duration" -> ParseDuration(number.unit, token)
    [] OTHER                    -> integer(number.kind, tenBased(token))

\* parseList: every element parses, or the list does not.
parseList(number, text) ==
  LET parsed == [i \in DOMAIN text |-> parseScalar(number, text[i])]
  IN IF Failed \in Range(parsed) THEN Failed
     ELSE {<<"list", vs>> : vs \in {s \in [DOMAIN text -> UNION Range(parsed)] :
                                      \A i \in DOMAIN text : s[i] \in parsed[i]}}

\* ParseText: a string is any text; a map has no spelling.
ParseText(f, text) ==
  CASE f.shape = "list" -> parseList(f.number, text)
    [] f.shape = "map"  -> Failed
    [] f.shape \notin {"list", "map"} /\ f.number.kind = "none" -> {<<"text", text>>}
    [] OTHER -> IF Len(text) = 1 THEN parseScalar(f.number, Head(text)) ELSE Failed

\* decode: a decoder the field has for the source is handed the text as it is.
decode(f, text) ==
  IF ~f.decoder THEN ParseText(f, text)
  ELSE IF Len(text) = 1 THEN Spelled(Head(text)) ELSE Failed

------------------------------------------------------------------------------
(* The decoders of JSON and YAML, for the scalar of a field.  Quoted or    *)
(* not, a scalar is a token; JSON has no octals, and no number that is     *)
(* none.                                                                   *)

\* scaled: a JSON number as a count of the unit.
scaled(unit, token) ==
  IF token[1] = "count" /\ token[2] \in Signed
  THEN IF ScaleUnitFits(unit, token[2]) THEN Number({ScaleUnit(unit, token[2])}) ELSE Failed
  ELSE scaledFloat(unit, IF token[1] = "halves" THEN token[2] ELSE 2 * token[2])

\* JSON's DecodeScalar, of a string: an integer is one only if it was declared.
DecodeString(number, accepts, token) ==
  IF number.kind \in {"none", "duration"} \/ "string" \in accepts
  THEN parseScalar(number, token) ELSE Failed

\* JSON's DecodeScalar, of a number.
DecodeNumber(number, token) ==
  CASE number.kind = "none"     -> Failed
    [] number.kind = "duration" -> IF number.unit > 0 THEN scaled(number.unit, token) ELSE Failed
    [] OTHER                    -> integer(number.kind, token)

\* The tag YAML resolves a scalar to: a number too large for 64 bits is a float.
tag(quoted, token) ==
  CASE quoted -> "str"
    [] ~quoted /\ token[1] = "halves" -> "float"
    [] ~quoted /\ token[1] = "octal" -> "int"
    [] ~quoted /\ token[1] = "count" ->
         IF token[2] \in Signed \cup Unsigned THEN "int" ELSE "float"
    [] OTHER -> "str"

checkTag(kind, t) == kind \in {"none", "duration"} \/ t = "int"

\* canonicalNumber, of the text as it is.
asWritten(token) == tenBased(token)

\* canonicalNumber: the number YAML says an integer is, spelled in base ten.
canonicalNumber(token) ==
  IF token[1] = "octal" THEN <<"count", token[2].meant>> ELSE token

\* YAML's DecodeScalar.
DecodeYAML(number, quoted, token) ==
  CASE ~checkTag(number.kind, tag(quoted, token)) -> Failed
    [] number.kind \in {"none", "duration"} -> parseScalar(number, token)
    [] OTHER -> parseScalar(number, canonicalNumber(token))

------------------------------------------------------------------------------
(* One spelling in every format.                                           *)

\* What a document makes of the token, without quotes.
Unquoted(number, token) ==
  {DecodeYAML(number, FALSE, token)}
    \cup (IF token[1] \in {"count", "halves"} THEN {DecodeNumber(number, token)} ELSE {})

\* The same, with quotes or without.
InDocuments(number, token) ==
  Unquoted(number, token) \cup {DecodeYAML(number, TRUE, token)}
    \cup {DecodeString(number, accepts, token) : accepts \in SUBSET {"string"}}

\* The number a document means: an integer that looks octal is what YAML says.
meant(number, token) ==
  IF token[1] = "octal" /\ number.kind # "duration"
  THEN integer(number.kind, <<"count", token[2].meant>>)
  ELSE parseScalar(number, token)

SpelledAlike(number, token) ==
  /\ Unquoted(number, token) = {meant(number, token)}
  /\ InDocuments(number, token)
       \subseteq {meant(number, token), parseScalar(number, token), Failed}
=============================================================================
