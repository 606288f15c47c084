------------------------------ MODULE Declaration ------------------------------
(***************************************************************************)
(* One parameter of a tool, from the signature its author wrote to the     *)
(* call that reaches the body (lamssi_tools): @tool() reads the signature, *)
(* the annotation, the default and the metadata into a ToolParameter; the  *)
(* schema the model is shown and the validator its calls pass are built    *)
(* from that, one apart from the other.                                    *)
(*                                                                         *)
(* A JSON value is its kind, a number and its items; a word's number is    *)
(* its length, and it spells neither a number nor a truth value.           *)
(***************************************************************************)
EXTENDS Naturals, Sequences, SequencesExt

CONSTANTS
  Authored,   \* what authors declare: a signature, an annotation, a default, metadata
  Values      \* the JSON values a call may carry

VARIABLES
  authored,   \* the declaration under way
  parameter,  \* the ToolParameter made of it
  argument,   \* what a call gave for it
  outcome     \* what became of the call

declarationVars == <<authored, parameter, argument, outcome>>

Value(kind, n, items) == [kind |-> kind, n |-> n, items |-> items]
Scalar(kind, n)       == Value(kind, n, <<>>)
Null    == Scalar("null", 0)
Omitted == Scalar("omitted", 0)     \* no default, or an argument that was left out
Fails   == Scalar("invalid", 0)

JsonKinds == {"null", "boolean", "integer", "half", "digits", "word", "array", "object"}
Json(v) ==
  /\ v = Value(v.kind, v.n, v.items) /\ v.kind \in JsonKinds
  /\ v.items \in Seq(ToSet(v.items)) /\ \A item \in ToSet(v.items) : item.kind \in JsonKinds
  /\ v.kind = "array" => v.n = 0

Receivers == {"self", "cls"}
Positional(p) == p.kind \in {"positional_only", "positional"}

\* A signature as Python has them, of a function, or of a method collected from its object,
\* whose receiver goes by its name; and literals as typing has them: no lists.
Declarable(a) ==
  /\ a.signature \in Seq(ToSet(a.signature))
  /\ \A i, j \in DOMAIN a.signature : a.signature[i].name = a.signature[j].name => i = j
  /\ a.bound = (a.signature # <<>> /\ a.signature[1].name \in Receivers)
  /\ a.bound => Positional(a.signature[1])
  /\ a.inject \in BOOLEAN
  /\ a.meta.enum # {} => a.meta.listed
  /\ \A e \in a.meta.enum : e.kind \in JsonKinds \ {"array"}

ASSUME DeclarationAssumption ==
  /\ \A a \in Authored : Declarable(a)
  /\ \A v \in Values : Json(v)

-------------------------------------------------------------------------------
(* Declaring.                                                              *)

\* _PYTHON_TO_JSON; an annotation it does not know is a string.
JsonType(base) ==
  CASE base = "int" -> "integer" [] base = "float" -> "number" [] base = "bool" -> "boolean"
    [] base = "list" -> "array" [] base = "dict" -> "object" [] base = "any" -> "any"
    [] OTHER -> "string"

\* _infer_from_default(), for a parameter without annotation.
InferFromDefault(default) ==
  CASE default.kind = "integer" -> "int" [] default.kind = "half" -> "float"
    [] default.kind = "boolean" -> "bool" [] default.kind = "array" -> "list"
    [] default.kind = "object" -> "dict" [] OTHER -> "str"

\* _resolve_annotation(): Optional is unwrapped, a list keeps the type of its items.
TypeOf(a) ==
  LET base == IF a.annotation.base = "none" THEN InferFromDefault(a.default) ELSE a.annotation.base
  IN  [type |-> JsonType(base),
       items |-> IF base = "list" /\ a.annotation.items # "none" THEN JsonType(a.annotation.items)
                 ELSE "any"]

\* The parameters behind the receiver and the context.
Own(sig) == IF sig # <<>> /\ sig[1].name \in Receivers THEN Tail(sig) ELSE sig

\* *args and **kwargs take what is left over.
Collects(p) == p.kind \in {"var_positional", "var_keyword"}

\* _schema_parameters(): what is left for the model to fill, by name.
SchemaParameters(a) ==
  {p \in ToSet(IF a.inject THEN Tail(Own(a.signature)) ELSE Own(a.signature)) : ~Collects(p)}

\* The parameter helpers, Str() to Object(): the type each describes.
Describes(helper) ==
  CASE helper = "Str" -> "string" [] helper = "Int" -> "integer" [] helper = "Float" -> "number"
    [] helper = "Bool" -> "boolean" [] helper = "Array" -> "array" [] helper = "Object" -> "object"

\* What @tool() refuses.
Unfit(a) ==
  \/ a.inject /\ (Own(a.signature) = <<>> \/ ~Positional(Own(a.signature)[1]))
  \/ \E p \in SchemaParameters(a) : p.kind = "positional_only"
  \/ a.meta.by \in {"both", "unknown name"}
  \/ a.meta.by = "helper" /\ Describes(a.meta.helper) # TypeOf(a).type

\* ToolParameter: a default makes it optional.
ParameterOf(a) ==
  [type |-> TypeOf(a).type, items |-> TypeOf(a).items, default |-> a.default,
   required |-> a.default = Omitted, enum |-> a.meta.enum, listed |-> a.meta.listed,
   limits |-> a.meta.limits]

-------------------------------------------------------------------------------
(* The schema.                                                             *)

\* _SCALAR_CONSTRAINTS, and unique_items: the types a constraint is about.
AppliesTo(limit) ==
  CASE limit.name \in {"min_length", "max_length"} -> {"string"}
    [] limit.name \in {"ge", "le", "gt"}           -> {"integer", "number"}
    [] OTHER                                       -> {"array"}

Limits(p) == {l \in p.limits : p.type \in AppliesTo(l)}

Length(v) == IF v.kind = "digits" THEN 1 ELSE v.n

Meets(v, limit) ==
  CASE limit.name = "ge"        -> v.n >= limit.n
    [] limit.name = "gt"        -> v.n > limit.n \/ (v.n = limit.n /\ v.kind = "half")
    [] limit.name = "le"        -> v.n < limit.n \/ (v.n = limit.n /\ v.kind # "half")
    [] limit.name = "min_length" -> Length(v) >= limit.n
    [] limit.name = "max_length" -> Length(v) <= limit.n
    [] limit.name = "min_items" -> Len(v.items) >= limit.n
    [] limit.name = "max_items" -> Len(v.items) <= limit.n
    [] OTHER                    -> IsInjective(v.items)

\* JSON Schema's types.
OfType(v, type) ==
  CASE type = "any"    -> TRUE
    [] type = "string" -> v.kind \in {"word", "digits"}
    [] type = "number" -> v.kind \in {"integer", "half"}
    [] OTHER           -> v.kind = type

\* What to_json_schema() advertises.
Advertised(p, v) ==
  /\ OfType(v, p.type) /\ (p.listed => v \in p.enum)
  /\ p.type = "array" => \A item \in ToSet(v.items) : OfType(item, p.items)
  /\ \A l \in Limits(p) : Meets(v, l)

-------------------------------------------------------------------------------
(* The validator.                                                          *)

\* The library's lax conversions; Fails for a value it refuses.
LaxScalar(v, type) ==
  IF OfType(v, type) THEN v
  ELSE IF type \in {"integer", "number"} /\ v.kind \in {"digits", "boolean"} THEN Scalar("integer", v.n)
  ELSE IF type = "boolean" /\ v.kind \in {"digits", "integer"} /\ v.n \in {0, 1} THEN Scalar("boolean", v.n)
  ELSE Fails

Lax(v, type, items) ==
  IF type # "array" THEN LaxScalar(v, type)
  ELSE LET all == [i \in 1..Len(v.items) |-> LaxScalar(v.items[i], items)]
       IN  IF v.kind # "array" \/ Fails \in ToSet(all) THEN Fails ELSE Value("array", 0, all)

\* to_python_annotation(): a list of literals stands for the type, unless it is empty.
Typed(p, v) ==
  IF p.enum # {} THEN (IF v \in p.enum THEN v ELSE Fails) ELSE Lax(v, p.type, p.items)

\* Variant: the constraints look at what came, not at what it was converted to.
ValidatedRaw(p, v) ==
  IF v = Omitted THEN (IF p.required THEN Fails ELSE p.default)
  ELSE IF v = Null /\ p.default = Null THEN Null
  ELSE IF Typed(p, v) # Fails /\ \A l \in Limits(p) : Meets(v, l) THEN Typed(p, v)
  ELSE Fails

\* _create_args_model(): conversion first, then the constraints; a default that is
\* None admits None, and no default is looked at.
Validated(p, v) ==
  IF v = Omitted THEN (IF p.required THEN Fails ELSE p.default)
  ELSE IF v = Null /\ p.default = Null THEN Null
  ELSE IF Typed(p, v) # Fails /\ \A l \in Limits(p) : Meets(Typed(p, v), l) THEN Typed(p, v)
  ELSE Fails

-------------------------------------------------------------------------------
(* The call.                                                               *)

\* A method is collected from its object and has its receiver; the context is put in
\* front of what the model gave by name.
Given(a) == (IF a.bound THEN 1 ELSE 0) + (IF a.inject THEN 1 ELSE 0)

\* Python's binding of those positions and of every name of the schema.
Binds(a) ==
  LET names == {p.name : p \in SchemaParameters(a)}
      rest  == ToSet(SubSeq(a.signature, Given(a) + 1, Len(a.signature)))
  IN  /\ Len(a.signature) >= Given(a)
      /\ \A i \in 1..Given(a) : Positional(a.signature[i]) /\ a.signature[i].name \notin names
      /\ \A p \in rest : Collects(p) \/ (p.name \in names /\ p.kind # "positional_only")
      /\ names \subseteq {p.name : p \in rest}

NoParameter == [type |-> "none"]

DeclarationInit ==
  /\ authored \in Authored /\ parameter = NoParameter
  /\ argument = Omitted /\ outcome = [kind |-> "none", value |-> Omitted]

Declare ==
  /\ parameter = NoParameter /\ outcome.kind = "none"
  /\ IF Unfit(authored)
     THEN outcome' = [outcome EXCEPT !.kind = "refused"] /\ UNCHANGED parameter
     ELSE parameter' = ParameterOf(authored) /\ UNCHANGED outcome
  /\ UNCHANGED <<authored, argument>>

\* resolve() validates, execute_binding() calls the body by names.
Call ==
  /\ parameter # NoParameter /\ outcome.kind = "none"
  /\ argument' \in Values \cup {Omitted}
  /\ LET v == Validated(parameter, argument') IN
       outcome' = [kind |-> IF v = Fails THEN "invalid"
                            ELSE IF Binds(authored) THEN "called" ELSE "type error", value |-> v]
  /\ UNCHANGED <<authored, parameter>>

DeclarationNext == Declare \/ Call

DeclarationSpec == DeclarationInit /\ [][DeclarationNext]_declarationVars

-------------------------------------------------------------------------------

\* What the model is told of a parameter is what its calls are held to.  A value the
\* schema admits reaches the body as it is; what reaches the body the schema admits,
\* after conversion and at every combination of annotation, default and constraints,
\* a default aside, which nobody looks at, and a list of literals that is empty or of
\* another type than the parameter; and a call that is valid fits the signature.
\* (models.py:122, "shared by the JSON schema and pydantic validator emitters so the
\* two cannot disagree"; models.py:421, "the validator enforces exactly what it
\* advertises".)
SchemaIsEnforced ==
  LET p == parameter
  IN  outcome.kind \in {"called", "invalid", "type error"} =>
        /\ argument # Omitted /\ Advertised(p, argument)
             => outcome.kind = "called" /\ outcome.value = argument
        /\ outcome.kind = "called"
             => \/ Advertised(p, outcome.value) \/ (~p.required /\ outcome.value = p.default)
                \/ p.listed /\ (p.enum = {} \/ \E e \in p.enum : ~OfType(e, p.type))
        /\ outcome.kind # "type error"
===============================================================================
