--------------------------------- MODULE Study ---------------------------------
(***************************************************************************)
(* What a study fixes before anything is measured: the partition of its    *)
(* sources (splits/closure.py), the roster and its trials                  *)
(* (evaluation/freeze.py), how its trials are summed up                    *)
(* (evaluation/statistics.py), and the audited sample with its weights     *)
(* (audits/selection.py, statistics.py).                                   *)
(***************************************************************************)
EXTENDS Integers, Sequences, FiniteSets, SequencesExt, FiniteSetsExt

--------------------------------------------------------------------------
(* splits/closure.py: components of related sources, by union and find. *)

Unassigned == "unassigned"

Root(parent, n) ==
    LET up[i \in 0..Cardinality(DOMAIN parent)] ==
            IF i = 0 THEN n ELSE parent[up[i - 1]]
    IN up[Cardinality(DOMAIN parent)]

\* The higher root is put below the lower; a dependency joins nothing.
Union(parent, r) ==
    LET roots == {Root(parent, r.left), Root(parent, r.right)}
    IN IF r.kind = "dependency" THEN parent ELSE [parent EXCEPT ![Max(roots)] = Min(roots)]

\* Relations are taken in their order: by left end, then by right end.
InOrder(relations) ==
    SetToSortSeq(relations, LAMBDA r, s : r.left < s.left \/ (r.left = s.left /\ r.right < s.right)
                                          \/ (r.left = s.left /\ r.right = s.right
                                              /\ r.kind = "dependency" /\ s.kind # r.kind))

Components(nodes, relations) ==
    LET parent == FoldLeft(Union, [n \in nodes |-> n], InOrder(relations))
    IN [n \in nodes |-> Root(parent, n)]

Explicit(requested, component, c) ==
    {requested[n] : n \in {m \in DOMAIN requested : component[m] = c}}

\* assign: a partition for each source, or a conflict (<<>>).
Assign(nodes, relations, requested) ==
    LET component == Components(nodes, relations)
        given(n) == Explicit(requested, component, component[n])
    IN IF \E n \in nodes : Cardinality(given(n)) > 1 THEN << >>
       ELSE [n \in nodes |-> IF given(n) = {} THEN Unassigned ELSE CHOOSE p \in given(n) : TRUE]

Reachable(nodes, relations, n) ==
    LET reach[i \in 0..Cardinality(nodes)] ==
            IF i = 0 THEN {n}
            ELSE reach[i - 1] \cup {m \in nodes : \E r \in relations : r.kind # "dependency"
                    /\ m \in {r.left, r.right} /\ {r.left, r.right} \cap reach[i - 1] # {}}
    IN reach[Cardinality(nodes)]

\* Related sources never lie in two partitions (splits/closure.py), however the relation
\* comes about; a source is left unassigned only when nothing related to it is assigned,
\* and a conflict is told exactly when two related sources were assigned apart.
RelatedTogether(nodes, relations, requested) ==
    LET assigned == Assign(nodes, relations, requested)
        wanted(n) == {requested[m] : m \in DOMAIN requested \cap Reachable(nodes, relations, n)}
    IN IF assigned = << >> THEN \E n \in nodes : Cardinality(wanted(n)) > 1
       ELSE \A n \in nodes : IF wanted(n) = {} THEN assigned[n] = Unassigned
                             ELSE wanted(n) = {assigned[n]}

--------------------------------------------------------------------------
(* validate_lineage_freeze: a roster is [sources, relations, locked]; a source is    *)
(* [family, lineage, partition, task].                                               *)

Linked(s, t) == s.family = t.family \/ s.lineage \cap t.lineage # {}

\* Mutant: the relations that were written down are all there are.
DeclaredRelations(roster) == roster.relations

\* Sources of one family, or of one request, are related whether or not that was declared.
RelationsOf(roster) ==
    roster.relations \cup
    {[left |-> p[1], right |-> p[2], kind |-> "closure"] :
        p \in {q \in (DOMAIN roster.sources) \X (DOMAIN roster.sources) :
                  q[1] < q[2] /\ Linked(roster.sources[q[1]], roster.sources[q[2]])}}

Frozen(roster) ==
    LET sources == roster.sources
        requested == [s \in DOMAIN sources |-> sources[s].partition]
    IN /\ \A r \in roster.relations : {r.left, r.right} \subseteq DOMAIN sources
       /\ Assign(DOMAIN sources, RelationsOf(roster), requested) # << >>
       /\ roster.locked = {sources[s].task : s \in {t \in DOMAIN sources :
                                                       sources[t].partition = "locked_test"}}

\* A frozen roster (evaluation/freeze.py validate_lineage_freeze) leaks nothing into its
\* locked tasks: none shares its family, a request or a declared kinship with a source the
\* policy may have been trained on.
LineageFrozen(roster) ==
    Frozen(roster) =>
        \A s, t \in DOMAIN roster.sources :
            LET source == roster.sources[s]
                kin == \/ Linked(source, roster.sources[t])
                       \/ \E r \in roster.relations : {r.left, r.right} = {s, t} /\ r.kind # "dependency"
            IN (kin /\ source.task \in roster.locked) => roster.sources[t].partition = "locked_test"

--------------------------------------------------------------------------
(* validate_preregistration: a plan is [tasks, seeds, episodes, trials]; a trial is  *)
(* [task, arm, seed, episode, case].                                                 *)

Arms == {"base", "feature_grpo"}

Cell(trial) == [task |-> trial.task, seed |-> trial.seed, episode |-> trial.episode]
Place(trial) == [cell |-> Cell(trial), arm |-> trial.arm]

\* Mutant: a roster as long as the product is the product.
CompleteByCount(plan) ==
    Cardinality(plan.trials) = Cardinality(plan.tasks) * Cardinality(plan.seeds) * plan.episodes
                                  * Cardinality(Arms)

\* Each task, seed and episode once for each arm.
Complete(plan) ==
    /\ {Place(t) : t \in plan.trials}
         = [cell : [task : plan.tasks, seed : plan.seeds, episode : 1..plan.episodes], arm : Arms]
    /\ Cardinality({Place(t) : t \in plan.trials}) = Cardinality(plan.trials)

\* Mutant: the cases of an arm are drawn from seeds of its own.
CasesUnpaired(plan) == TRUE

CasesPaired(plan) == \A t, u \in plan.trials : Cell(t) = Cell(u) => t.case = u.case

Preregistered(plan) == Complete(plan) /\ CasesPaired(plan)

(* summarize_trials: an outcome for each trial. *)

Episodes(plan, task, seed, arm) ==
    {t \in plan.trials : t.task = task /\ t.seed = seed /\ t.arm = arm}

\* A unit succeeds by any of its episodes; it is valid only when all of them are.
Succeeds(plan, outcome, task, seed, arm) ==
    \E t \in Episodes(plan, task, seed, arm) : outcome[t] = "resolved"
Valid(plan, outcome, task, seed, arm) ==
    \A t \in Episodes(plan, task, seed, arm) : outcome[t] # "invalid"

Value(plan, outcome, task, seed, arm) == IF Succeeds(plan, outcome, task, seed, arm) THEN 1 ELSE 0

ValidPairs(plan, outcome) ==
    {p \in plan.tasks \X plan.seeds : \A arm \in Arms : Valid(plan, outcome, p[1], p[2], arm)}

Difference(plan, outcome, pairs) ==
    MapThenSumSet(LAMBDA p : Value(plan, outcome, p[1], p[2], "feature_grpo")
                               - Value(plan, outcome, p[1], p[2], "base"), pairs)

\* A paired difference (evaluation/statistics.py summarize_trials) compares like with like:
\* arms that do equally well on each case of each seed differ by nothing, over all the
\* assigned pairs and over the valid ones, and no unit is missing from a pair.
PairsCompareLike(plan, outcome) ==
    Preregistered(plan) =>
        /\ \A task \in plan.tasks, seed \in plan.seeds, arm \in Arms :
              Cardinality(Episodes(plan, task, seed, arm)) = plan.episodes
        /\ (\A t, u \in plan.trials :
                t.task = u.task /\ t.seed = u.seed /\ t.case = u.case => outcome[t] = outcome[u])
           => /\ Difference(plan, outcome, plan.tasks \X plan.seeds) = 0
              /\ Difference(plan, outcome, ValidPairs(plan, outcome)) = 0

--------------------------------------------------------------------------
(* derive_selection_manifest: a population gives each subject its cell (unit, family,  *)
(* status and category); a plan is a sequence of strata [cell, size].                  *)

Members(population, stratum) == {s \in DOMAIN population : population[s].cell = stratum.cell}

Derivable(population, plan) ==
    /\ \A s \in DOMAIN population :
          Cardinality({i \in DOMAIN plan : plan[i].cell = population[s].cell}) = 1
    /\ \A i \in DOMAIN plan : plan[i].size <= Cardinality(Members(population, plan[i]))

\* The first of each stratum in the order of the digests.
Selected(population, plan, rank) ==
    UNION {{s \in Members(population, plan[i]) :
               Cardinality({m \in Members(population, plan[i]) : rank[m] <= rank[s]}) <= plan[i].size}
           : i \in DOMAIN plan}

\* Mutant: a subject's chance is the sample's share of the population.
WeightInPopulation(population, plan, s, scale) ==
    (scale * Cardinality(DOMAIN population)) \div MapThenSumSet(LAMBDA i : plan[i].size, DOMAIN plan)

\* The inverse of the sampling probability of its stratum, times scale.
Weight(population, plan, s, scale) ==
    LET stratum == plan[CHOOSE i \in DOMAIN plan : plan[i].cell = population[s].cell]
    IN (scale * Cardinality(Members(population, stratum))) \div stratum.size

\* The weighted sample (audits/selection.py, audits/statistics.py _weighted_metric) stands
\* for the population: whatever the digests, each stratum weighs what it holds, and over
\* all orders of the digests the weighted number of bad subjects is the true one.
SampleRepresents(population, plan, scale, ranks) ==
    Derivable(population, plan) =>
        LET Weighed(S) == MapThenSumSet(LAMBDA s : Weight(population, plan, s, scale), S)
            bad == {s \in DOMAIN population : population[s].bad}
        IN /\ \A rank \in ranks, i \in DOMAIN plan :
                Weighed(Selected(population, plan, rank) \cap Members(population, plan[i]))
                  = scale * Cardinality(Members(population, plan[i]))
           /\ MapThenSumSet(LAMBDA rank : Weighed(Selected(population, plan, rank) \cap bad), ranks)
                = Cardinality(ranks) * scale * Cardinality(bad)
=============================================================================
