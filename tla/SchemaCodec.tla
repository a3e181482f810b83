----------------------------- MODULE SchemaCodec -----------------------------
(***************************************************************************)
(* The two directions of the schema mini-language: the importer compacts   *)
(* the JSON Schema of a tool's parameters to one string for each, and the  *)
(* bridge (Go) and the adapters (Python) expand the strings again.  A      *)
(* compact string is taken apart into its word, its "[]" suffixes and its  *)
(* "?", in the order in which the code strips them; no word but that of an *)
(* enumeration ends in text of the schema's author.                        *)
(***************************************************************************)
EXTENDS Integers, Sequences, SequencesExt

CONSTANTS
  Texts,     \* what fmt.Sprint may write of a value
  Parts,     \* of a text: the texts between the bars in it
  Bare,      \* of a text that ends in "?": the text without it
  Trimmed,   \* of a text: the text without the blanks at its end
  Bracketed  \* of a text: the text with brackets behind it

ASSUME PartsAssumption == \A t \in Texts : Len(Parts[t]) > 0

(* JSON values: "1" and 1 are two of them, of one text.                    *)
Value == [kind : {"string", "number", "boolean", "null", "array", "object"}, text : Texts]

Sprint(v) == v.text

(* A parameter: its type inside "items" taken "dims" times, the values if  *)
(* it is an enumeration, and whether "required" names it.  Any text may    *)
(* stand where JSON Schema has a type.                                     *)
Parameter == [type : STRING, dims : Nat, enum : Seq(Value), required : BOOLEAN]

Param(type, dims, enum, required) ==
  [type |-> type, dims |-> dims, enum |-> enum, required |-> required]

Word == [string |-> "string", integer |-> "int", number |-> "float", boolean |-> "bool", object |-> "json"]
Meaning == [string |-> "string", int |-> "integer", float |-> "number", bool |-> "boolean", json |-> "object"]

(* An enumeration without values is none; unknown and missing types are    *)
(* strings, an array without items one of strings.                         *)
compactField(p) ==
  IF p.enum # <<>>
  THEN [word |-> "enum", texts |-> FlattenSeq([k \in DOMAIN p.enum |-> Parts[Sprint(p.enum[k])]]),
        dims |-> p.dims]
  ELSE [word |-> IF p.type \in DOMAIN Word THEN Word[p.type] ELSE "string", texts |-> <<>>,
        dims |-> p.dims + IF p.type = "array" THEN 1 ELSE 0]

(* The "?" of an optional parameter comes last, behind the brackets.       *)
compactSchema(p) == [field |-> compactField(p), optional |-> ~p.required]

Ends(c) == IF c.texts = <<>> THEN "" ELSE Last(c.texts)

(* A string ends in "?" if the parameter is optional, or if it is that of  *)
(* an enumeration whose last text does.                                    *)
Asks(s) == s.optional \/ (s.field.word = "enum" /\ s.field.dims = 0 /\ Ends(s.field) \in DOMAIN Bare)

Fragment(type, dims, enum) == [type |-> type, dims |-> dims, enum |-> enum]

ReplaceLast(texts, t) == [texts EXCEPT ![Len(texts)] = t]

(* The values are strings now.  Enumerations are looked for before         *)
(* brackets, which stay on the last value.                                 *)
Strings(texts) == [k \in DOMAIN texts |-> [kind |-> "string", text |-> texts[k]]]

Enumeration(texts, dims) ==
  Fragment("string", 0, Strings(IF dims = 0 THEN texts ELSE ReplaceLast(texts, Bracketed[Last(texts)])))

(* Deviation: the "?" is left where it is.                                 *)
compactToJSONSchema_KeepsMark(s) ==
  IF s.field.word = "enum" THEN Enumeration(s.field.texts, s.field.dims)
  ELSE IF s.optional THEN Fragment("string", 0, <<>>)
  ELSE Fragment(Meaning[s.field.word], s.field.dims, <<>>)

(* One "?" is taken off, be it the mark or the author's.                   *)
compactToJSONSchema(s) ==
  IF s.field.word = "enum"
  THEN Enumeration(IF ~s.optional /\ Asks(s) THEN ReplaceLast(s.field.texts, Bare[Last(s.field.texts)])
                   ELSE s.field.texts, s.field.dims)
  ELSE Fragment(Meaning[s.field.word], s.field.dims, <<>>)

(* What tools/list tells the client of a parameter.                        *)
toolToMCP(s) == [schema |-> compactToJSONSchema(s), required |-> ~Asks(s)]

(* expand_schema_field strips the string of its blanks, and looks for      *)
(* enumerations before it takes the "?" off, so that an optional one keeps *)
(* it on its last value ("marked").                                        *)
expand_schema_field(s) ==
  IF s.field.word = "enum"
  THEN [schema |-> Enumeration(IF s.field.dims = 0 /\ ~s.optional
                               THEN ReplaceLast(s.field.texts, Trimmed[Last(s.field.texts)])
                               ELSE s.field.texts, s.field.dims),
        marked |-> s.optional]
  ELSE [schema |-> Fragment(Meaning[s.field.word], s.field.dims, <<>>), marked |-> FALSE]

action_to_jsonschema(s) ==
  [schema |-> expand_schema_field(s).schema, marked |-> expand_schema_field(s).marked, required |-> ~Asks(s)]

-----------------------------------------------------------------------------
(* What a parameter means to those who call the tool: its type, or string  *)
(* where the language has no word for it, and its values as they are.      *)
Simplified(p) ==
  [schema |-> Fragment(IF p.type \in DOMAIN Word THEN p.type ELSE "string",
                       p.dims + IF p.type = "array" THEN 1 ELSE 0, p.enum),
   required |-> p.required]

(* The enumerations that do not survive: those inside arrays and of        *)
(* arrays, those of another type than string or with a value that is none, *)
(* those with a bar in a value, and, if required, those whose last value   *)
(* ends in "?".                                                            *)
Plain(p) ==
  p.enum # <<>> =>
    /\ p.dims = 0
    /\ p.type = "string" \/ p.type \notin DOMAIN Word \cup {"array"}
    /\ \A k \in DOMAIN p.enum :
         p.enum[k].kind = "string" /\ Parts[p.enum[k].text] = <<p.enum[k].text>>
    /\ p.required => Last(p.enum).text \notin DOMAIN Bare

(* Of those the adapters do not read the optional ones, and none whose     *)
(* last value ends in blanks.                                              *)
PlainToAdapters(p) ==
  Plain(p) /\ (p.enum # <<>> => p.required /\ Trimmed[Last(p.enum).text] = Last(p.enum).text)

(* From the string s, the bridge gives its client back what p said, but    *)
(* for those that are not plain, and so do the adapters.                   *)
Survives(p, s) ==
  /\ Plain(p) => toolToMCP(s) = Simplified(p)
  /\ PlainToAdapters(p) =>
       action_to_jsonschema(s) =
         [schema |-> Simplified(p).schema, required |-> p.required, marked |-> FALSE]
=============================================================================
