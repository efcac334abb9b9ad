-------------------------- MODULE Materialization --------------------------
(***************************************************************************)
(* From the selected tree to the effective one (config_materialize.go):    *)
(* admission before any provider is contacted (config_admission.go), the   *)
(* hook chain on every leaf (hook/processor.go), secret resolution as its  *)
(* last step, and validation of the result (config_validation.go).         *)
(*                                                                         *)
(* A plan is a record with the fields                                      *)
(*   hooks     the registered hooks in order, [kind, at, map]: map sends   *)
(*             the leaves a hook changes to what it makes of them          *)
(*   resolve   what the secret hook makes of each placeholder              *)
(*   casting, validate, strict, rejectUnknown   the options of that name   *)
(*   model     the struct T: [typed, kinds], kinds by top-level key        *)
(*   schema, validators   paths the JSON Schema requires, and the path     *)
(*             each custom validator insists on                            *)
(***************************************************************************)
EXTENDS Trees, SequencesExt

CONSTANTS
  Placeholders,   \* reference leaves that parse -> [provider, key], provider "" for none
  Malformed,      \* leaves with a reference that does not parse or never closes
  Numbers,        \* leaves an int field holds
  Numerals        \* string leaves that cast to a number -> that number

Unresolvable == [unresolvable |-> TRUE]

IsReference(n) == n \in DOMAIN Placeholders

(***************************************************************************)
(* References.  A list keeps the path of the key that holds it, maps       *)
(* inside lists extend it.                                                 *)
(***************************************************************************)
SecretReferenceKeys(t) ==
  LET RECURSIVE Collect(_, _)
      Collect(p, n) ==
        IF IsDict(n) THEN UNION {Collect(Append(p, k), n.map[k]) : k \in DOMAIN n.map}
        ELSE IF IsList(n) THEN UNION {Collect(p, n.list[i]) : i \in DOMAIN n.list}
        ELSE IF IsReference(n) THEN {p} ELSE {}
  IN Collect(<<>>, Dict(t))

\* The provider every reference in n is routed to; "" when there is no default.
RECURSIVE ReferenceProviders(_, _)
ReferenceProviders(n, default) ==
  IF IsDict(n) THEN UNION {ReferenceProviders(n.map[k], default) : k \in DOMAIN n.map}
  ELSE IF IsList(n) THEN UNION {ReferenceProviders(n.list[i], default) : i \in DOMAIN n.list}
  ELSE IF ~IsReference(n) THEN {}
  ELSE {IF Placeholders[n].provider = "" THEN default ELSE Placeholders[n].provider}

SensitivePathsForConfig(t, declared) == SecretReferenceKeys(t) \cup declared

(***************************************************************************)
(* Admission.                                                              *)
(***************************************************************************)
RECURSIVE AdmitSecretReferences(_)
AdmitSecretReferences(n) ==
  IF IsDict(n) THEN \A k \in DOMAIN n.map : AdmitSecretReferences(n.map[k])
  ELSE IF IsList(n) THEN \A i \in DOMAIN n.list : AdmitSecretReferences(n.list[i])
  ELSE n \notin Malformed

\* A value no model constrains is left out: what it becomes is not known yet.
RECURSIVE WithoutSecretBearingLeaves(_)
WithoutSecretBearingLeaves(n) ==
  IF IsDict(n)
  THEN Dict([k \in {j \in DOMAIN n.map : ~IsReference(n.map[j])} |-> WithoutSecretBearingLeaves(n.map[k])])
  ELSE IF IsList(n)
  THEN LET kept == SelectSeq(n.list, LAMBDA item: ~IsReference(item))
       IN List([i \in DOMAIN kept |-> WithoutSecretBearingLeaves(kept[i])])
  ELSE n

FitsKind(n, kind, casting) ==
  \/ kind = "any" \/ n = Nil
  \/ kind = "int" /\ n \in Numbers
  \/ kind = "int" /\ casting /\ n \in DOMAIN Numerals
  \/ kind = "struct" /\ IsDict(n)

Decodes(t, kinds, casting) == \A k \in DOMAIN t \cap DOMAIN kinds : FitsKind(t[k], kinds[k], casting)

AdmitTypedShape(plan, t) ==
  plan.validate /\ plan.model.typed =>
    /\ plan.rejectUnknown => DOMAIN t \subseteq DOMAIN plan.model.kinds
    /\ Decodes(WithoutSecretBearingLeaves(Dict(t)).map, plan.model.kinds, plan.casting)

AdmitBeforeResolution(plan, t) == AdmitSecretReferences(Dict(t)) /\ AdmitTypedShape(plan, t)

(***************************************************************************)
(* The hook chain of one leaf: key, value, condition and global hooks,     *)
(* then the secret hook, each on the output of the one before.             *)
(***************************************************************************)
Transform(n, h) == IF n \in DOMAIN h.map THEN h.map[n] ELSE n
HooksOf(plan, kind) == SelectSeq(plan.hooks, LAMBDA h: h.kind = kind)
ResolveSecret(plan, n) == IF IsReference(n) THEN plan.resolve[n] ELSE n

\* Mutant: the secret hook is registered before the caller's global hooks.
ProcessSecretFirst(plan, p, n) ==
  LET keyed == FoldLeft(Transform, n, SelectSeq(HooksOf(plan, "key"), LAMBDA h: h.at = p))
      valued == FoldLeft(Transform, keyed, SelectSeq(HooksOf(plan, "value"), LAMBDA h: h.at = keyed))
      conditioned == FoldLeft(LAMBDA v, h: IF v \in h.at THEN Transform(v, h) ELSE v,
                              valued, HooksOf(plan, "condition"))
  IN FoldLeft(Transform, ResolveSecret(plan, conditioned), HooksOf(plan, "global"))

Process(plan, p, n) ==
  LET keyed == FoldLeft(Transform, n, SelectSeq(HooksOf(plan, "key"), LAMBDA h: h.at = p))
      valued == FoldLeft(Transform, keyed, SelectSeq(HooksOf(plan, "value"), LAMBDA h: h.at = keyed))
      conditioned == FoldLeft(LAMBDA v, h: IF v \in h.at THEN Transform(v, h) ELSE v,
                              valued, HooksOf(plan, "condition"))
  IN ResolveSecret(plan, FoldLeft(Transform, conditioned, HooksOf(plan, "global")))

RECURSIVE MaterializeNode(_, _, _)
MaterializeNode(plan, p, n) ==
  IF IsDict(n) THEN Dict([k \in DOMAIN n.map |-> MaterializeNode(plan, Append(p, k), n.map[k])])
  ELSE IF IsList(n) THEN List([i \in DOMAIN n.list |-> MaterializeNode(plan, p, n.list[i])])
  ELSE Process(plan, p, n)

MaterializeTree(plan, t) == MaterializeNode(plan, <<>>, Dict(t)).map

\* Some leaf could not be resolved: the whole materialization fails.
RECURSIVE Fails(_)
Fails(n) ==
  IF IsDict(n) THEN \E k \in DOMAIN n.map : Fails(n.map[k])
  ELSE IF IsList(n) THEN \E i \in DOMAIN n.list : Fails(n.list[i])
  ELSE n = Unresolvable

(***************************************************************************)
(* Validation of a candidate.                                              *)
(***************************************************************************)
ValidateCandidate(plan, t) ==
  plan.validate =>
    /\ \A p \in plan.schema : Has(t, p)
    /\ \A i \in DOMAIN plan.validators : Has(t, plan.validators[i])
    /\ plan.model.typed /\ plan.strict =>
         /\ plan.rejectUnknown => DOMAIN t \subseteq DOMAIN plan.model.kinds
         /\ Decodes(t, plan.model.kinds, plan.casting)
=============================================================================
