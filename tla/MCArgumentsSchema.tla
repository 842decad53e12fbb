-------------------------- MODULE MCArgumentsSchema --------------------------
(***************************************************************************)
(* A schema with an "$id" at the top, and the arguments that reach the     *)
(* broken reference below it.                                              *)
(***************************************************************************)
EXTENDS ArgumentsSchema, TLC

Text(d) == [form |-> "text", doc |-> d]
Odd(f) == [form |-> f, doc |-> JNull]

Broken == "properties" :> JObject("x" :> JObject("$ref" :> Reference("pointer", <<"nowhere">>)))
SomeSchemas == {Text(JObject(Broken)), Text(JObject("$id" :> JString("i") @@ Broken)),
                Text(JObject("$id" :> JString("i"))), Text(JBool(TRUE)), Odd("blank")}
SomeArguments == {Text(JObject(<<>>)), Text(JObject("x" :> JNumber(1, FALSE))), Odd("garbage")}

SchemaSpec == SchemaInit({Odd("blank")}) /\ [][SchemaNext]_schemaVars
=============================================================================
