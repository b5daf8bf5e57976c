--------------------------- MODULE MCTaskCreation ---------------------------
(* A small instance of TaskCreation for TLC.                               *)
EXTENDS TaskCreation, TLC

CONSTANTS purchase, k1

(* Two contracts: a "from" that must be given as a string, and the same    *)
(* with a number instead and another set of formats.                       *)
SchemaOf(type) ==
  [type |-> "object", required |-> {"from"}, closed |-> TRUE, sound |-> TRUE,
   properties |-> [n \in {"from"} |-> type]]
SmallBodies ==
  {[schema |-> SchemaOf("string"), formats |-> {"XLSX"}],
   [schema |-> SchemaOf("number"), formats |-> {"XLSX", "ZIP"}]}

Params(kind) == [object |-> TRUE, values |-> [n \in {"from"} |-> kind]]
Request(key, kind, grants) ==
  [code |-> purchase, key |-> key, format |-> "XLSX", params |-> Params(kind),
   grants |-> grants]
SmallRequests ==
  {Request(k1, "string", "yes"), Request(k1, "number", "yes"),
   Request(NoKey, "string", "yes"), Request(k1, "string", "denied"),
   Request(NoKey, "string", "malformed")}
=============================================================================
