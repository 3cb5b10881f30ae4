---------------------------- MODULE MCWorldLedgers ----------------------------
(***************************************************************************)
(* The decision registry, the ledger of results, the authority of a world  *)
(* and the schemas of its surface in one run.  They share nothing: a       *)
(* behaviour uses one of them beside others that have not begun.  The      *)
(* surfaces, grants, resolvers and callbacks are small and some go wrong;  *)
(* most of the schemas have one fault.                                     *)
(***************************************************************************)
EXTENDS DecisionRegistry, ResultLedger, WorldAuthority, BoundedSchema, TLC

-------------------------------------------------------------------------------
(* Surfaces and grants. *)

E(id) == <<"entity", id>>
Ann == E("ann")
Bob == E("bob")
Look == <<"sense", "look">>
Hear == <<"sense", "hear">>
Take == <<"affordance", "take">>
Rest == <<"affordance", "rest">>

Entities == [ann |-> [address |-> Ann, dynamics |-> <<"object", "a">>],
             bob |-> [address |-> Bob, dynamics |-> <<"object", "b">>]]
Lake == [api_version |-> "simfile.world-surface.v1",
         entities |-> Entities,
         senses |-> (Look :> [dynamics |-> {<<"sense", "eye">>}, project |-> "synchronous"])
                 @@ (Hear :> [dynamics |-> {<<"sense", "ear">>}, project |-> "synchronous"]),
         affordances |->
           (Take :> [fields |-> {"amount"}, callbacks |-> "synchronous",
                     selector |-> [kind |-> "fixed", targets |-> <<Bob>>]])
        @@ (Rest :> [fields |-> {}, callbacks |-> "synchronous",
                     selector |-> [kind |-> "holder", targets |-> << >>]]),
         effects |-> (<<"effect", "splash">> :> [event |-> "splash", fields |-> {"entity"}])]
\* the other surface: anyone may be taken from
Sea == [Lake EXCEPT !.affordances[Take].selector.targets = <<Ann, Bob>>]
Torn == [Lake EXCEPT !.affordances[Take].selector.targets = <<Bob, E("cat")>>]
Grasping == [Lake EXCEPT !.affordances[Rest].fields = {"entity"}]
Doubled == [Lake EXCEPT !.entities.bob.dynamics = <<"object", "a">>]

MCSurfaces ==
  [lake |-> Lake, sea |-> Sea, torn |-> Torn, grasping |-> Grasping, doubled |-> Doubled]
Both == [ann |-> [entity |-> Ann, senses |-> <<Look>>, affordances |-> <<Rest, Take>>],
         bob |-> [entity |-> Bob, senses |-> <<Look, Hear>>, affordances |-> <<Rest>>]]
Swapped == [ann |-> Both.bob, bob |-> Both.ann]
Twice == [Both EXCEPT !.ann.senses = <<Look, Look>>]
MCAuthorings == [both |-> Both, swapped |-> Swapped, twice |-> Twice]
Organization == [principal |-> [ann |-> "p", bob |-> "q"], participant |-> [p |-> "ann", q |-> "bob"]]
Mistaken == [principal |-> [ann |-> "p", bob |-> "q"], participant |-> [p |-> "bob", q |-> "bob"]]
MCBindings == {Organization, Mistaken}
Odd(call, how) == [at |-> call, how |-> how]
Mood(callback, how) == [odd |-> Odd(callback, how), shut |-> {}]
MCMoods ==
  {[odd |-> NoOddity, shut |-> {}],
   [odd |-> NoOddity, shut |-> {<<Take, Bob>>, <<Rest, Ann>>}],
   Mood(<<"project", Hear>>, "another"), Mood(<<"project", Look>>, "touches"),
   Mood(<<"available", Take>>, "later"), Mood(<<"available", Rest>>, "touches"),
   Mood(<<"lower", Take>>, "reserved"), Mood(<<"lower", Rest>>, "touches")}

-------------------------------------------------------------------------------
(* Schemas and inputs. *)

NoFields == [k \in {} |-> 0]
V(type, num) == [type |-> type, num |-> num, items |-> << >>, fields |-> NoFields]
List(items) == [V("array", 0) EXCEPT !.items = items]
Obj(fields) == [V("object", 0) EXCEPT !.fields = fields]
Num(n) == V(IF n % 2 = 0 THEN "integer" ELSE "number", n)

Plain(type, has, low, high) ==
  [type |-> type, has |-> has, low |-> low, high |-> high, items |-> NoSchema,
   properties |-> NoFields, required |-> << >>, constant |-> V("null", 0),
   enum |-> << >>, closed |-> TRUE]
Whole(low, high) == Plain("integer", {"minimum", "maximum"}, low, high)
MCLeaves ==
  {Whole(0, 2), Whole(1, 1), Whole(1, 3), [Whole(0, 4) EXCEPT !.has = @ \cup {"enum"}, !.enum = <<Num(0), Num(4)>>],
   [Whole(0, 4) EXCEPT !.has = @ \cup {"const", "enum"}, !.constant = Num(2), !.enum = <<Num(0)>>],
   [Whole(0, 2) EXCEPT !.has = @ \cup {"const"}, !.constant = Num(4)],
   Plain("number", {"minimum", "maximum"}, 1, 1), Plain("number", {"minimum"}, 0, 2),
   Plain("string", {"maxLength"}, 0, 1), Plain("string", {"minLength", "maxLength"}, 2, 1),
   Plain("boolean", {"enum"}, 0, 0),
   [Plain("array", {"items", "maxItems", "minItems"}, 1, 2) EXCEPT !.items = Whole(0, 2)],
   [Plain("array", {"items", "maxItems"}, 1, 2) EXCEPT !.items = Whole(1, 1)]}
\* At the budgets: lists that fit alone, beside another field, or never (24 nodes);
\* a string of the longest length; lists of lists down to the last level.
Listing(low, high) == [Plain("array", {"items", "maxItems", "minItems"}, low, high) EXCEPT !.items = Whole(0, 2)]
Letters(low, high) == Plain("string", {"maxLength", "minLength"}, low, high)
ListsOf(s) == [Plain("array", {"items", "maxItems"}, 0, 2) EXCEPT !.items = s]
AtTheBudgets ==
  {Listing(22, 24), Listing(24, 24), Listing(0, 25), Letters(16, 16), Letters(0, 17),
   ListsOf(ListsOf(Listing(0, 2))), ListsOf(ListsOf(ListsOf(Listing(0, 2))))}
Zeros(n) == List([i \in 1..n |-> Num(0)])
Objects(key, leaf) ==
  LET base == Plain("object", {"additionalProperties", "properties"}, 0, 0)
      one == (key :> leaf)
      two == one @@ ("b" :> Whole(0, 2))
  IN {[base EXCEPT !.properties = one],
      [base EXCEPT !.properties = one, !.closed = FALSE],
      [base EXCEPT !.properties = two, !.has = @ \cup {"required"}, !.required = <<key, "b">>],
      [base EXCEPT !.properties = two, !.has = @ \cup {"required", "maxProperties"}, !.required = <<key, "b">>, !.high = 1],
      [base EXCEPT !.properties = two, !.has = @ \cup {"minProperties"}, !.low = 3],
      [base EXCEPT !.properties = two, !.has = @ \cup {"minProperties"}, !.low = 1],
      [base EXCEPT !.properties = one, !.has = @ \cup {"required"}, !.required = <<"b">>]}
MCSchemas ==
  UNION {Objects("a", leaf) : leaf \in MCLeaves \cup AtTheBudgets} \cup Objects("entity", Whole(0, 2)) \cup
  {[Plain("object", {"additionalProperties", "properties"}, 0, 0) EXCEPT !.properties = ("a" :> inner)] :
     inner \in Objects("a", Whole(0,2)) \cup Objects("target", Whole(0, 2))}
  \cup {[Plain("object", {"additionalProperties", "properties", "required"}, 0, 0) EXCEPT
           !.properties = [k \in {"a", "b"} |-> Letters(16, 16)], !.required = <<"a", "b">>]}
Leaves == {Num(0), Num(1), Num(2), Num(4), V("string", 0), V("string", 2), V("boolean", 0), List(<< >>), List(<<Num(2)>>), List(<<Num(0), Num(1)>>),
  Zeros(22), Zeros(23), Zeros(24), V("string", 16), List(<<List(<<Zeros(1)>>)>>)}
MCInputs ==
  {Num(0), Obj(NoFields)} \cup {Obj("a" :> v) : v \in Leaves} \cup {Obj("entity" :> Num(0)), Obj("b" :> Num(0))}
  \cup {Obj(("a" :> v) @@ ("b" :> w)) : v \in Leaves, w \in {Num(0), Num(1)}}
  \cup {Obj("a" :> v) : v \in {Obj(NoFields), Obj("a" :> Num(0)), Obj("target" :> Num(0)), Obj(("a" :> Num(2)) @@ ("b" :> Num(0)))}}
  \cup {Obj(("a" :> Num(0)) @@ ("b" :> Num(0)) @@ ("target" :> Num(0)))}
  \cup {Obj([k \in {"a", "b"} |-> V("string", 16)])}
MCKeys == <<"a", "b", "entity", "target">>

-------------------------------------------------------------------------------
(* The four beside each other.                                             *)

CONSTANTS p1, p2, t1, t2, t3

VARIABLE part

MCPrincipals == {p1, p2}
MCTokens == {t1, t2, t3}
MCSymmetry == Permutations(MCPrincipals) \cup Permutations(MCTokens)

PartInit == part \in {"registry", "ledger", "authority", "schemas"}
WorldLedgersInit == PartInit /\ Init /\ LedgerInit /\ AuthorityInit /\ SchemaInit

WorldLedgersNext ==
  /\ \/ part = "registry" /\ Next /\ UNCHANGED <<ledgerVars, authorityVars, schemaVars>>
     \/ part = "ledger" /\ LedgerNext /\ UNCHANGED <<vars, authorityVars, schemaVars>>
     \/ part = "authority" /\ AuthorityNext /\ UNCHANGED <<vars, ledgerVars, schemaVars>>
     \/ part = "schemas" /\ SchemaNext /\ UNCHANGED <<vars, ledgerVars, authorityVars>>
  /\ UNCHANGED part

WorldLedgers ==
  WorldLedgersInit
  /\ [][WorldLedgersNext]_<<vars, ledgerVars, authorityVars, schemaVars, part>>

\* What a participant may do and is told it may do are what its world granted, and
\* the schemas of its acts and senses admit what their authors meant
\* (src/world/affordances.ts, senses.ts, checkpoint.ts; src/world-surface/schema.ts).
SurfaceExact == AuthorityKept /\ ListingExact /\ SchemaContract
===============================================================================
