-------------------------- MODULE ParameterContract -------------------------
(***************************************************************************)
(* The two checks of a request's queryParams against the parameterSchema   *)
(* of its task code: the one of the task API when the task is created, and *)
(* the one of the query executor in every batch. They are written apart    *)
(* and differ: the first knows more types, the second forgives params that *)
(* are no object.                                                          *)
(*                                                                         *)
(* A schema is a record: type (none when absent), required, properties     *)
(* (from declared names to their type, any when absent), closed            *)
(* (additionalProperties is false), and sound: required is an array of     *)
(* strings and properties an object of objects. The params are a record:   *)
(* object (they are one), and the JSON kind of the value of each key;      *)
(* "number" is the kind of a number that is no integer.                    *)
(***************************************************************************)

Types == {"string", "number", "integer", "boolean", "object", "array"}
Kinds == Types \cup {"null"}

Partial(N, V) == UNION {[D -> V] : D \in SUBSET N}

Given(values, n) == n \in DOMAIN values /\ values[n] # "null"

RequiredGiven(schema, values) == \A n \in schema.required : Given(values, n)

DescribesObject(schema) == schema.type \in {"none", "object"}

(* A type the check does not know fits no value.                           *)
Fits(type, kind) == kind = type \/ (type = "number" /\ kind = "integer")

OnlyDeclared(schema, values) ==
  IF DOMAIN schema.properties = {}
    THEN schema.closed => DOMAIN values = {}
    ELSE DOMAIN values \subseteq DOMAIN schema.properties

(* Mutant: the types are left to the executor.                             *)
TypesLeftAside(schema, values) == TRUE

TypesFit(schema, values) ==
  \A n \in DOMAIN schema.properties :
    \/ ~Given(values, n)
    \/ schema.properties[n] = "any"
    \/ Fits(schema.properties[n], values[n])

(* assertRegistryParameterSchema: the check of createExportTask.           *)
AcceptedAtCreation(schema, params) ==
  /\ params.object
  /\ schema.sound
  /\ DescribesObject(schema)
  /\ RequiredGiven(schema, params.values)
  /\ OnlyDeclared(schema, params.values)
  /\ TypesFit(schema, params.values)

(* normalizeQueryParams                                                    *)
ExecutorValues(params) == IF params.object THEN params.values ELSE << >>

(* validateParameterSchema: the check of processQueryBatch. It never meets *)
(* a schema that is not sound, no task is created with one.                *)
AcceptedAtExecution(schema, params) ==
  LET values == ExecutorValues(params) IN
  /\ DescribesObject(schema)
  /\ RequiredGiven(schema, values)
  /\ \/ DOMAIN schema.properties = {}
     \/ DOMAIN values \subseteq DOMAIN schema.properties
  /\ \A n \in DOMAIN schema.properties :
       (Given(values, n) /\ schema.properties[n] = "string") => values[n] = "string"
=============================================================================
