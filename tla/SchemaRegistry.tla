----------------------------- MODULE SchemaRegistry ----------------------------
(***************************************************************************)
(* The registry of event schemas and the comparison that classifies how    *)
(* one version follows from another. A schema is a function from the names *)
(* of its fields to their definitions; an enum that is not given is {}.    *)
(* A version is a pair <<major, rest>>: "v1" is <<"v1", "">> and "v1.0.0"  *)
(* is <<"v1", ".0.0">>.                                                    *)
(***************************************************************************)
EXTENDS Integers, FiniteSets

CONSTANTS Versions,   \* version tags that are asked for
          Registered, \* those among them that somebody registers
          Schemas,    \* schemas that may be registered
          Shipped,    \* the versions loaded from the schema directory
          RenameMap   \* rename_map of the comparator

VARIABLE registry     \* _schemas: registered versions and their schemas

Init == registry = Shipped

-------------------------------------------------------------------------------
(* SchemaComparator.compare *)

PROMOTIONS == { <<"integer", "long">>, <<"integer", "float">>, <<"float", "double">> }

is_type_compatible(old, new) == old = new \/ <<old, new>> \in PROMOTIONS

Change(kind, f, severity) == [kind |-> kind, field |-> f, severity |-> severity]

TypeChange(f, old, new) ==
  IF old.type = new.type THEN {}
  ELSE { Change("TYPE_CHANGE", f, IF is_type_compatible(old.type, new.type)
                                  THEN "INFO" ELSE "CRITICAL") }

(* A deviation: becoming required is as harmless as being relaxed.           *)
RequiredChangeLenient(f, old, new) ==
  IF old.required = new.required THEN {} ELSE { Change("FIELD_REQUIRED_CHANGED", f, "INFO") }

RequiredChange(f, old, new) ==
  IF old.required = new.required THEN {}
  ELSE { Change("FIELD_REQUIRED_CHANGED", f, IF new.required THEN "CRITICAL" ELSE "INFO") }

EnumChange(f, old, new) ==
  (IF new.enum \subseteq old.enum THEN {} ELSE { Change("ENUM_VALUE_ADDED", f, "INFO") })
  \cup (IF old.enum \subseteq new.enum THEN {} ELSE { Change("ENUM_VALUE_REMOVED", f, "CRITICAL") })

Missing(f, old) ==
  { IF old.required THEN Change("MISSING_COLUMN", f, "CRITICAL")
    ELSE Change("REMOVED_COLUMN", f, "WARNING") }

(* A deviation: any new field is critical, though the old events lack it.    *)
AddedStrict(f, new) == { Change("NEW_COLUMN", f, "CRITICAL") }
Added(f, new) == { Change("NEW_COLUMN", f, IF new.required THEN "CRITICAL" ELSE "INFO") }

(* The mapped name is looked for before the field's own; of a renamed field  *)
(* only the type is compared.                                                *)
IsRenamed(f, new) == f \in DOMAIN RenameMap /\ RenameMap[f] \in DOMAIN new

FieldChanges(f, old, new) ==
  IF IsRenamed(f, new)
  THEN { Change("RENAMED_COLUMN", f, "WARNING") }
       \cup TypeChange(RenameMap[f], old[f], new[RenameMap[f]])
  ELSE IF f \in DOMAIN new
       THEN TypeChange(f, old[f], new[f]) \cup RequiredChange(f, old[f], new[f])
              \cup EnumChange(f, old[f], new[f])
       ELSE Missing(f, old[f])

Matched(old, new) == { RenameMap[f] : f \in {g \in DOMAIN old : IsRenamed(g, new)} }

compare(old, new) ==
  LET new_columns == DOMAIN new \ (DOMAIN old \cup Matched(old, new))
  IN  (UNION { FieldChanges(f, old, new) : f \in DOMAIN old })
      \cup (UNION { Added(f, new[f]) : f \in new_columns })

SeveritiesOf(changes) == { c.severity : c \in changes }

overall_severity(changes) ==
  IF "CRITICAL" \in SeveritiesOf(changes) THEN "CRITICAL"
  ELSE IF "WARNING" \in SeveritiesOf(changes) THEN "WARNING" ELSE "INFO"

compatible(old, new) == overall_severity(compare(old, new)) # "CRITICAL"

-------------------------------------------------------------------------------
(* SchemaRegistry *)

(* get: the version itself, or the one named by its major part; else KeyError. *)
Major(v) == <<v[1], "">>
Known(v) == v \in DOMAIN registry \/ (v[2] # "" /\ Major(v) \in DOMAIN registry)
get(v) == IF v \in DOMAIN registry THEN registry[v] ELSE registry[Major(v)]

register(v, s) ==
  registry' = [w \in DOMAIN registry \cup {v} |-> IF w = v THEN s ELSE registry[w]]

Next == \E v \in Registered, s \in Schemas : register(v, s)

Spec == Init /\ [][Next]_registry

-------------------------------------------------------------------------------
(* What a schema means, independently of the comparison: which events a      *)
(* reader of it accepts and which a writer of it sends. An integer is read   *)
(* by a reader of floats; fields a reader does not know are ignored.         *)

CONSTANT Values   \* the values of event fields: [type, value]

ReadableAs(t) ==
  { v \in Values : v.type = t \/ (v.type = "integer" /\ t \in {"long", "float", "double"})
                              \/ (v.type = "float" /\ t = "double") }

Accepts(s, e) ==
  \A f \in DOMAIN s :
    IF f \in DOMAIN e
    THEN e[f] \in ReadableAs(s[f].type) /\ (s[f].enum = {} \/ e[f].value \in s[f].enum)
    ELSE ~s[f].required

Sends(s) == { e \in UNION { [fs -> Values] : fs \in SUBSET DOMAIN s } : Accepts(s, e) }

Unrenamed(old, new) == \A f \in DOMAIN old : ~IsRenamed(f, new)

(* The one relaxation the comparison takes for granted: an enum is never put *)
(* on a field that had none (that is reported as added values, INFO).        *)
NoEnumIntroduced(old, new) ==
  \A f \in DOMAIN old \cap DOMAIN new : old[f].enum = {} => new[f].enum = {}

(* There are values for every field of every schema: all that its enum lists *)
(* and, of its type, one that no enum lists.                                 *)
ValuesSuffice ==
  LET schemas == Schemas \cup {Shipped[v] : v \in DOMAIN Shipped}
  IN  \A s \in schemas : \A f \in DOMAIN s :
        /\ s[f].required \in BOOLEAN
        /\ \A x \in s[f].enum : \E a \in Values : a.type = s[f].type /\ a.value = x
        /\ \E a \in Values : /\ a.type = s[f].type
                             /\ \A t \in schemas : \A g \in DOMAIN t : a.value \notin t[g].enum

(* Of any two versions get can name, if compare calls the newer one          *)
(* compatible, a reader of it accepts every event that a writer of the older *)
(* one sends. Versions not registered themselves resolve by their major part.*)
CompatibleIsReadable ==
  \A v, w \in {x \in Versions : Known(x)} :
    LET old == get(v) new == get(w)
    IN  Unrenamed(old, new) /\ NoEnumIntroduced(old, new) /\ compatible(old, new)
          => \A e \in Sends(old) : Accepts(new, e)

(* The documents call it BREAKING to remove an optional field, for the sake  *)
(* of consumers that expect it; the comparison calls it a WARNING.           *)
NoOptionalRemoved(old, new) == \A f \in DOMAIN old \ DOMAIN new : old[f].required

(* A verdict of BREAKING is never a false alarm: some event sent under one   *)
(* of the two versions is refused by the readers of the other. (On removed   *)
(* optional fields, where code and documents part, it takes no side.)        *)
BreakingIsReal ==
  \A v, w \in {x \in Versions : Known(x)} :
    LET old == get(v) new == get(w)
    IN  Unrenamed(old, new) /\ NoOptionalRemoved(old, new) /\ ~compatible(old, new)
          => \/ \E e \in Sends(old) : ~Accepts(new, e)
             \/ \E e \in Sends(new) : ~Accepts(old, e)
===============================================================================
