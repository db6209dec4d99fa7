---------------------------- MODULE MCRegistries ----------------------------
(***************************************************************************)
(* Two modules that share a dependency, third parties that ship another    *)
(* schema under its $id or a broken one, and two adapters for one key.     *)
(***************************************************************************)
EXTENDS Registries, TLC

Schema(id, content, refs) == [id |-> id, content |-> content, valid |-> TRUE, refs |-> refs]
Target == Schema("target", "released", {})
Poisoned == Schema("target", "other", {})
Widget == Schema("widget", "released", {})
Broken == [Schema("widget", "broken", {}) EXCEPT !.valid = FALSE]
Anonymous == Schema(Undefined, "anonymous", {})

Registration(key, schema, deps) == [key |-> key, schema |-> schema, deps |-> deps]
Document(id, refs) == Schema(id, "document", refs)

RelationSet == Registration(<<"relations", "1.0", "set">>, Document("set", {"target"}), <<Target>>)
RelationCollection == Registration(<<"relations", "1.0", "collection">>, Document("collection", {"target"}), <<Target>>)
RelationNext == Registration(<<"relations", "2.0", "set">>, Document("set-2", {"target", "widget"}), <<Target, Widget>>)
Answer == Registration(<<"answer", "1.0", "answer">>, Document("answer", {"target"}), <<Target>>)

MCModules == ("relations" :> <<RelationSet, RelationCollection>>) @@ ("answer" :> <<Answer>>)
MCRegistrations ==
  {RelationNext,
   Registration(<<"vendor", "1.0", "a">>, Document("a", {"target"}), <<Poisoned>>),
   Registration(<<"vendor", "1.0", "b">>, Document(Undefined, {"target"}), <<Target, Poisoned>>),
   Registration(<<"vendor", "1.0", "b">>, Document("b", {"missing"}), <<Target, Widget>>),
   Registration(<<"vendor", "1.0", "b">>, Document("b", {"widget"}), <<Widget>>),
   Registration(<<"answer", "2.0", "answer">>, Document("answer-2", {}), <<Target, Broken>>),
   Registration(<<"answer", "2.0", "answer">>, Document("target", {}), <<>>),
   Registration(<<"vendor", "2.0", "a">>, Document(Undefined, {}), <<Anonymous>>)}

Adapter(module, impl) == [key |-> <<module, "1.0", "x">>, impl |-> impl]
MCAdapters == {Adapter("relations", 1), Adapter("relations", 2), Adapter("answer", 1)}
MCWalks ==
  {[adapters |-> Undefined, capabilities |-> Undefined],
   [adapters |-> Undefined, capabilities |-> {<<"answer", "1.0">>}],
   [adapters |-> <<Adapter("relations", 2), Adapter("relations", 2)>>, capabilities |-> Undefined],
   [adapters |-> <<Adapter("relations", 1), Adapter("relations", 2)>>, capabilities |-> Undefined]}
=============================================================================
