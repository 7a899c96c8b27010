---------------------------- MODULE MCQualityEngine ----------------------------
(***************************************************************************)
(* Model checking of QualityEngine: a sound event, every way in which one  *)
(* field can spoil it, repetitions of its id and order in other events,    *)
(* and two versions of the schema with a third that may appear.            *)
(***************************************************************************)
EXTENDS BatchQuality, TLC

v1 == <<"v1", "">>
v2 == <<"v2", "">>
v3 == <<"v3", "">>
MCVersions == {v1, v2, v3, <<"v1", ".0.0">>}
MCRegistered == {v3}

Field(type, required) == [type |-> type, required |-> required, enum |-> {}]
Base == [amount |-> Field("float", TRUE), customer_id |-> Field("string", TRUE)]
Coupon == Base @@ [coupon |-> Field("string", FALSE)]
TextAmount == [Base EXCEPT !.amount = Field("string", TRUE)]
Renamed == [amount |-> Field("float", TRUE), customer |-> Field("string", TRUE)]
MCSchemas == {Base, Coupon, TextAmount, Renamed}
MCShipped == (v1 :> Base) @@ (v2 :> Coupon)
MCRenameMap == [f \in {"customer_id"} |-> "customer"]

MCPlain == {"customer_id"}
MCListed == {"currency"}

Sound == [id |-> "e1", order |-> "o1", fields |-> [customer_id |-> "ok", currency |-> "ok"],
          amount |-> "fair", time |-> <<"at", 1>>, ingested |-> <<"absent", 0>>, version |-> v1,
          shape |-> [amount |-> "float", customer_id |-> "string"]]
Spoiled ==
  { [Sound EXCEPT !.id = "null"],             [Sound EXCEPT !.id = "e2"],
    [Sound EXCEPT !.order = "null"],          [Sound EXCEPT !.order = "o2"],
    [Sound EXCEPT !.fields.customer_id = "null"],
    [Sound EXCEPT !.fields.currency = "other"],
    [Sound EXCEPT !.time = <<"malformed", 0>>],      [Sound EXCEPT !.time = <<"null", 0>>],
    [Sound EXCEPT !.ingested = <<"at", 3>>],
    [Sound EXCEPT !.ingested = <<"malformed", 0>>],
    [Sound EXCEPT !.version = v3],            [Sound EXCEPT !.version = <<"v1", ".0.0">>],
    [Sound EXCEPT !.version = <<"null", "">>],
    [Sound EXCEPT !.version = <<"null", "">>,
                  !.shape = [amount |-> "string", customer_id |-> "string"]] }
  \cup { [Sound EXCEPT !.amount = a] :
           a \in {"null", "text", "nonpositive", "huge", "uncomparable"} }
MCEvents == {Sound} \cup Spoiled
MCRecovered == {Sound, [Sound EXCEPT !.id = "e2", !.order = "o2"]}
MCAllEvents == MCEvents \cup MCRecovered

Expect(name, expectation, column, severity, min, values) ==
  [name |-> name, expectation |-> expectation, column |-> column, severity |-> severity,
   min |-> min, max |-> {}, value_set |-> values, enabled |-> TRUE]
MCEntries ==
  << Expect("event_id_not_null", "not_null", "event_id", "CRITICAL", {}, {}),
    Expect("amount_not_null",   "not_null", "amount",   "CRITICAL", {}, {}),
    Expect("amount_positive",   "between",  "amount",   "HIGH",     {0}, {}),
    Expect("currency_valid",    "in_set",   "currency", "HIGH",     {}, {"INR", "USD", "EUR"}),
     [Expect("time_not_null", "not_null", "customer_id", "LOW", {}, {}) EXCEPT !.enabled = FALSE] >>

Batched == {[e EXCEPT !.ingested = <<"at", 1>>] : e \in
  { Sound,                             [Sound EXCEPT !.id = "null"],
    [Sound EXCEPT !.time = <<"at", 0>>, !.fields.currency = "null"],
    [Sound EXCEPT !.fields.currency = "other"] }
  \cup { [Sound EXCEPT !.amount = a] : a \in {"null", "text", "nonpositive", "numeral"} }}
Second == [Sound EXCEPT !.id = "e2", !.order = "o2", !.ingested = <<"at", 3>>]
MCBatches == {<< >>} \cup {<<e>> : e \in Batched}
  \cup {<<[Sound EXCEPT !.order = "null", !.ingested = <<"at", 1>>]>>,
        <<[Sound EXCEPT !.id = "null"], [Second EXCEPT !.id = "null"]>>}
  \cup {<<e, Second>> : e \in {b \in Batched : b.amount \in {"fair", "numeral"} /\ b.id # "null"
                                              /\ b.fields.currency # "other"}}

(* An engine shares nothing with the others but the schemas and the clock:   *)
(* batches are explored apart from the events of the stream, until two rows  *)
(* or more have been judged and a result given.                              *)
BatchesApart ==
  \/ news["hybrid"] = << >> /\ batch = NoBatch /\ unified = NoResult
  \/ news["validator"] = << >> /\ attempt = 0 /\ (unified = NoResult \/ judged <= 1)
===============================================================================
