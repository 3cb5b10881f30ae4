---------------------------- MODULE BoundedSchema ----------------------------
(***************************************************************************)
(* The bounded JSON Schema of a world's surface (world-surface/schema.ts,  *)
(* schema-value.ts, authority.ts): which schemas an author may declare for *)
(* the input of an affordance, and which inputs an act may then carry,     *)
(* each refused with the first fault and the path of the field at fault.   *)
(*                                                                         *)
(* A value is [type, num, items, fields]: num is a number in halves (so    *)
(* that a number need not be an integer) or the length of a string, and    *)
(* two strings of one length are the same string; a key of an object comes *)
(* before another in KeyOrder.  A schema is [type, has, low, high, items,  *)
(* properties, required, constant, enum, closed]: has names the keywords   *)
(* that are there, low and high are the two bounds of its type.  Schemas   *)
(* and values alike are cloned first, within budgets for the whole tree    *)
(* (dynamics/canonicalJson.ts); a key or a keyword counts one code unit.   *)
(***************************************************************************)
EXTENDS Integers, Sequences, FiniteSets, SequencesExt

CONSTANTS
  RawSchemas,   \* the schemas an author may write
  Inputs,       \* the values an act may carry
  KeyOrder,     \* the keys of objects, in the order they are walked
  JsonNodes, JsonUnits, JsonDepth, JsonString  \* DYNAMICS_LIMITS

VARIABLES
  checked,      \* the schema the surface was declared with, or NoSchema
  answered      \* the last input and its verdict

schemaVars == <<checked, answered>>

NoSchema == [type |-> "none"]
NoInput == [given |-> [type |-> "none"], verdict |-> [reason |-> "none", path |-> << >>]]

SchemaTypes == {"null", "boolean", "number", "integer", "string", "array", "object"}
Reserved == {"target", "entity"}  \* two of the names only the host may set

Keywords(type) ==
  {"$schema", "const", "enum", "type"} \cup
  CASE type \in {"number", "integer"} -> {"minimum", "maximum"}
    [] type = "string" -> {"minLength", "maxLength"}
    [] type = "array" -> {"items", "minItems", "maxItems"}
    [] type = "object" -> {"additionalProperties", "properties", "required",
                           "minProperties", "maxProperties"}
    [] OTHER -> {}

Least(s, keyword) == IF keyword \in s.has THEN s.low ELSE 0

\* The most keys an object may have.
Most(s) == IF "maxProperties" \in s.has THEN s.high
           ELSE Cardinality(DOMAIN s.properties)

RequiredKeys(s) == IF "required" \in s.has THEN s.required ELSE << >>

-------------------------------------------------------------------------------
(* The budgets of a tree: every node of it, the code units of its strings  *)
(* and keys, how deep it goes and how long one string is.                  *)

Children(value) ==
  ToSet(value.items) \cup {value.fields[key] : key \in DOMAIN value.fields}

\* One number of every element and of the value of every key, together.
Together(Count(_), value) ==
  MapThenSumSet(LAMBDA i : Count(value.items[i]), DOMAIN value.items)
  + MapThenSumSet(LAMBDA key : Count(value.fields[key]), DOMAIN value.fields)

StringUnits(value) == IF value.type = "string" THEN value.num ELSE 0

RECURSIVE Nodes(_), Units(_), Depth(_), Longest(_)
Nodes(value) == 1 + Together(LAMBDA child : Nodes(child), value)

Units(value) ==
  StringUnits(value) + Cardinality(DOMAIN value.fields)
  + Together(LAMBDA child : Units(child), value)

Depth(value) == Max({0} \cup {1 + Depth(child) : child \in Children(value)})

Longest(value) ==
  Max({StringUnits(value)} \cup {Longest(child) : child \in Children(value)})

\* cloneDynamicsJson: what is beyond a budget throws.
Affordable(value) ==
  /\ Nodes(value) <= JsonNodes
  /\ Units(value) <= JsonUnits
  /\ Depth(value) <= JsonDepth
  /\ Longest(value) <= JsonString

Json(type, num, items, fields) ==
  [type |-> type, num |-> num, items |-> items, fields |-> fields]
Nothing == [k \in {} |-> 0]
Text == Json("string", 1, << >>, Nothing)

\* A schema as the JSON an author writes.
RECURSIVE Written(_)
Written(s) ==
  Json("object", 0, << >>,
    [keyword \in s.has \cup {"type"} |->
      CASE keyword = "items" -> Written(s.items)
        [] keyword = "properties" ->
             Json("object", 0, << >>,
               [key \in DOMAIN s.properties |-> Written(s.properties[key])])
        [] keyword = "required" ->
             Json("array", 0, [i \in DOMAIN s.required |-> Text], Nothing)
        [] keyword = "const" -> s.constant
        [] keyword = "enum" -> Json("array", 0, s.enum, Nothing)
        [] keyword \in {"type", "$schema"} -> Text
        [] OTHER -> Json("integer", s.low, << >>, Nothing)])

-------------------------------------------------------------------------------
(* The input of an act against a schema. *)

Fine == [reason |-> "accepted", path |-> << >>]
Fault(reason, path) == [reason |-> reason, path |-> path]

First(verdicts) ==
  LET faults == SelectSeq(verdicts, LAMBDA v : v # Fine)
  IN IF faults = << >> THEN Fine ELSE Head(faults)

Keys(value) == SelectSeq(KeyOrder, LAMBDA k : k \in DOMAIN value.fields)

HasType(s, value) ==
  \/ value.type = s.type
  \/ s.type = "number" /\ value.type = "integer"

InBounds(s, value) ==
  CASE s.type \in {"number", "integer"} -> s.low <= value.num /\ value.num <= s.high
    [] s.type = "string" ->
         Least(s, "minLength") <= value.num /\ value.num <= s.high
    [] s.type = "array" ->
         /\ Least(s, "minItems") <= Len(value.items)
         /\ Len(value.items) <= s.high
    [] s.type = "object" ->
         /\ Least(s, "minProperties") <= Cardinality(DOMAIN value.fields)
         /\ Cardinality(DOMAIN value.fields) <= Most(s)
    [] OTHER -> TRUE

\* const and enum, by the canonical bytes of the value.
Allowed(s, value) ==
  /\ "const" \in s.has => value = s.constant
  /\ "enum" \in s.has => value \in ToSet(s.enum)

\* validateBoundedJsonValue: type, bounds, what is required, every element and
\* key in turn, then const and enum; the top of a schema's own constants is
\* looked at without the last.
RECURSIVE Validate(_, _, _, _)
Validate(s, value, path, constants) ==
  IF ~HasType(s, value) THEN Fault("wrong_type", path)
  ELSE IF ~InBounds(s, value) THEN Fault("out_of_bounds", path)
  ELSE
    LET missing == SelectSeq(RequiredKeys(s), LAMBDA k : k \notin DOMAIN value.fields)
        elements ==
          CASE s.type = "array" ->
                 [i \in DOMAIN value.items |->
                   Validate(s.items, value.items[i], Append(path, "item"), TRUE)]
            [] s.type = "object" ->
                 [i \in DOMAIN Keys(value) |->
                   LET key == Keys(value)[i]
                   IN IF key \in DOMAIN s.properties
                      THEN Validate(s.properties[key], value.fields[key],
                                    Append(path, key), TRUE)
                      ELSE Fault("unknown_field", << >>)]
            [] OTHER -> << >>
    IN IF s.type = "object" /\ missing # << >>
       THEN Fault("missing_field", Append(path, Head(missing)))
       ELSE IF First(elements) # Fine THEN First(elements)
       ELSE IF constants /\ ~Allowed(s, value) THEN Fault("not_allowed_value", path)
       ELSE Fine

-------------------------------------------------------------------------------
(* The schema of an author. *)

\* Fault: an integer may lie between bounds that hold none.
FaultyNumbersParse(s) ==
  {"minimum", "maximum"} \subseteq s.has /\ s.low <= s.high

NumbersParse(s) ==
  /\ {"minimum", "maximum"} \subseteq s.has
  /\ s.low <= s.high
  /\ s.type = "integer" => \E n \in s.low..s.high : n % 2 = 0

BoundsParse(s) ==
  CASE s.type \in {"number", "integer"} -> NumbersParse(s)
    [] s.type = "string" ->
         /\ "maxLength" \in s.has /\ s.high <= JsonString
         /\ "minLength" \in s.has => s.low <= s.high
    [] s.type = "array" ->
         /\ {"items", "maxItems"} \subseteq s.has /\ s.high <= JsonNodes
         /\ "minItems" \in s.has => s.low <= s.high
    [] s.type = "object" ->
         /\ "properties" \in s.has /\ s.closed
         /\ "maxProperties" \in s.has => s.high <= Cardinality(DOMAIN s.properties)
         /\ "minProperties" \in s.has => s.low <= Most(s)
         /\ Len(RequiredKeys(s)) <= Most(s)
    [] OTHER -> TRUE

RequiredParses(s) ==
  /\ IsInjective(RequiredKeys(s))
  /\ ToSet(RequiredKeys(s)) \subseteq DOMAIN s.properties

\* validateSchemaConstants.
ConstantsParse(s) ==
  /\ "const" \in s.has => Validate(s, s.constant, << >>, FALSE) = Fine
  /\ "enum" \in s.has =>
       /\ s.enum # << >> /\ IsInjective(s.enum)
       /\ \A i \in DOMAIN s.enum : Validate(s, s.enum[i], << >>, FALSE) = Fine
  /\ {"const", "enum"} \subseteq s.has => s.constant \in ToSet(s.enum)

RECURSIVE Parses(_, _)
Parses(s, root) ==
  /\ s.type \in SchemaTypes
  /\ s.has \subseteq Keywords(s.type)
  /\ "$schema" \in s.has => root
  /\ s.type = "array" => "items" \in s.has /\ Parses(s.items, FALSE)
  /\ s.type = "object" =>
       /\ \A key \in DOMAIN s.properties : Parses(s.properties[key], FALSE)
       /\ RequiredParses(s)
  /\ BoundsParse(s)
  /\ ConstantsParse(s)

\* assertNoWorldActionSchemaAuthorityFields: at no depth a name of the host.
RECURSIVE NoAuthority(_)
NoAuthority(s) ==
  CASE s.type = "array" -> NoAuthority(s.items)
    [] s.type = "object" ->
         \A key \in DOMAIN s.properties :
           key \notin Reserved /\ NoAuthority(s.properties[key])
    [] OTHER -> TRUE

-------------------------------------------------------------------------------
Declare(s) ==
  /\ checked = NoSchema
  /\ Affordable(Written(s))
  /\ s.type = "object" /\ Parses(s, TRUE) /\ NoAuthority(s)
  /\ checked' = s
  /\ UNCHANGED answered

\* Fault: the value is judged as it is, and cloned by nobody.
FaultySubmit(value) ==
  /\ checked # NoSchema
  /\ answered' = [given |-> value, verdict |-> Validate(checked, value, << >>, TRUE)]
  /\ UNCHANGED checked

\* parseBoundedJsonValue: the clone throws before anything is looked at.
Submit(value) ==
  /\ checked # NoSchema
  /\ answered' =
       [given |-> value,
        verdict |-> IF Affordable(value) THEN Validate(checked, value, << >>, TRUE)
                    ELSE Fault("world_surface_failed", << >>)]
  /\ UNCHANGED checked

SchemaInit == checked = NoSchema /\ answered = NoInput

SchemaNext ==
  \/ \E s \in RawSchemas : Declare(s)
  \/ \E value \in Inputs : Submit(value)

-------------------------------------------------------------------------------
(* Properties. *)

\* What a JSON Schema means: a value is one of the schema's, or is not.
RECURSIVE Denotes(_, _)
Denotes(s, value) ==
  /\ HasType(s, value) /\ InBounds(s, value) /\ Allowed(s, value)
  /\ s.type = "array" => \A i \in DOMAIN value.items : Denotes(s.items, value.items[i])
  /\ s.type = "object" =>
       /\ ToSet(RequiredKeys(s)) \subseteq DOMAIN value.fields
       /\ DOMAIN value.fields \subseteq DOMAIN s.properties
       /\ \A key \in DOMAIN value.fields : Denotes(s.properties[key], value.fields[key])

RECURSIVE Clean(_)
Clean(value) ==
  /\ \A i \in DOMAIN value.items : Clean(value.items[i])
  /\ DOMAIN value.fields \cap Reserved = {}
  /\ \A key \in DOMAIN value.fields : Clean(value.fields[key])

\* The bounds of an accepted schema do not contradict each other: it denotes
\* something.  What an act may carry is what JSON Schema says, within the budgets
\* of the whole tree, and says nothing at any depth under a name that is the
\* host's.  It is not claimed that an accepted schema can be used: each of its
\* bounds is held against a limit by itself (boundedCount), so that everything it
\* denotes may be beyond a budget, and then every act is refused.
SchemaContract ==
  /\ checked # NoSchema => \E value \in Inputs : Denotes(checked, value)
  /\ answered # NoInput =>
       /\ answered.verdict = Fine <=>
            Denotes(checked, answered.given) /\ Affordable(answered.given)
       /\ answered.verdict = Fine => Clean(answered.given)
===============================================================================
