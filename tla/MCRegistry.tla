----------------------------- MODULE MCRegistry -----------------------------
(***************************************************************************)
(* Small instances of Registry.  Each group of definitions is one instance *)
(* and belongs to the configuration that names it:                         *)
(*   Work   - jobs, claims, retries and their accounting                   *)
(*            (MCRegistryWork.cfg)                                         *)
(*   Quar   - quarantine and historical audits (MCRegistryQuarantine.cfg)  *)
(***************************************************************************)
EXTENDS Registry

CONSTANTS a1, a2, a3, a4, j1, j2, j3, k1, k2, k3, u1, u2, n1, n2

NoRefs == [a \in Artifact |-> {}]
NoCost == {[wall |-> 1]}

\* Work: two jobs for one active place, with one and two attempts, two upstream calls
\* and costs that are unknown, become known and grow a channel.
WorkInputs == [j \in Job |-> {a1}]
WorkConfiguration == [j \in Job |-> a1]
WorkAttemptLimit == [j \in Job |-> IF j = j1 THEN 1 ELSE 2]
WorkOutcome == {NoResult}
WorkReceipts == {{a1}, {a1, a2}}
WorkCosts == {[usd |-> Unknown], [usd |-> 1], [usd |-> 1, gpu |-> 1]}
WorkLimits == [events |-> 8, jobs |-> 1, artifacts |-> 2]
WorkChoices == {[events |-> 10, jobs |-> 2, artifacts |-> 2]}

\* Quar: a1 is the subject of the audit j2 and embeds a3, which the audit's scope
\* protects; j1 is an ordinary job on the configuration a2, j3 consumes the result a4.
CONSTANTS policy, subjects, protected
QuarIntrinsic ==
    [a \in Artifact |-> CASE a = policy -> {a2, subjects, protected}
                          [] a = subjects -> {a1}
                          [] a = protected -> {a3}
                          [] a = a1 -> {a3}
                          [] OTHER -> {}]
QuarExplicit == {<<a3, {}>>, <<a3, {a1}>>, <<a4, {}>>, <<a4, {a1}>>}
QuarInputs == [j \in Job |-> CASE j = j1 -> {a2} [] j = j2 -> {a1} [] j = j3 -> {a4}]
QuarConfiguration == [j \in Job |-> IF j = j2 THEN policy ELSE a2]
QuarAttemptLimit == [j \in Job |-> IF j = j1 THEN 2 ELSE 1]
QuarOutcome == {[artifacts |-> {a4}, evidence |-> {a2}], [artifacts |-> {a4}, evidence |-> {a3}]}
QuarReceipts == {{a2}}
QuarLimits == [events |-> 7, jobs |-> 3, artifacts |-> 7]
=============================================================================
