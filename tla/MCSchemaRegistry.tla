--------------------------- MODULE MCSchemaRegistry ---------------------------
(***************************************************************************)
(* Model checking of SchemaRegistry: every schema of up to two fields over *)
(* three types, required or not, with and without an enum, in any pair of  *)
(* versions; customer_id may be renamed to customer.                       *)
(***************************************************************************)
EXTENDS SchemaRegistry, TLC

v1 == <<"v1", "">>
v2 == <<"v2", "">>
MCVersions == {v1, v2, <<"v1", ".0.0">>}
MCRegistered == {v1, v2}

Field(type, required, enum) == [type |-> type, required |-> required, enum |-> enum]
Fields ==
  { Field(t, r, {}) : t \in {"integer", "float", "string"}, r \in BOOLEAN }
  \cup { Field("string", r, en) : r \in BOOLEAN, en \in {{"a"}, {"a", "b"}} }

MCSchemas == UNION { [fs -> Fields] : fs \in SUBSET {"amount", "customer"} }
               \cup { [f \in {"customer_id"} |-> Field("string", TRUE, {})] }
MCShipped == (v1 :> [f \in {"customer_id"} |-> Field("string", TRUE, {})])
MCRenameMap == [f \in {"customer_id"} |-> "customer"]

MCValues == { [type |-> "integer", value |-> "1"], [type |-> "float", value |-> "1.5"],
              [type |-> "string", value |-> "a"], [type |-> "string", value |-> "b"],
              [type |-> "string", value |-> "c"] }
ASSUME ValuesSuffice
===============================================================================
