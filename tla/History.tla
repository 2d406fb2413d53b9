------------------------------- MODULE History -------------------------------
(***************************************************************************)
(* history/git.py: from the commits of a pull request to the baseline and  *)
(* the reference it was integrated as.  A repository is a sequence of      *)
(* commits [parents, lines], parents before children, each with the one    *)
(* file it holds as a sequence of lines.                                   *)
(***************************************************************************)
EXTENDS Naturals, Sequences, FiniteSets, SequencesExt

Refused == [ok |-> FALSE, baseline |-> 0, implementation |-> <<>>]
Integrated(baseline, commits) == [ok |-> TRUE, baseline |-> baseline, implementation |-> commits]

--------------------------------------------------------------------------
(* Chains of commits. *)

\* The commits a revision descends from, itself included.
Ancestors(g, c) ==
    LET reach[i \in 0..Len(g)] ==
            IF i = 0 THEN {c}
            ELSE reach[i - 1] \cup UNION {Range(g[d].parents) : d \in reach[i - 1]}
    IN reach[Len(g)]

\* commits.rev-list: what the head has and the baseline has not, parents first.
CommitsNotIn(g, head, baseline) ==
    SetToSortSeq(Ancestors(g, head) \ Ancestors(g, baseline), LAMBDA c, d : c < d)

\* Mutant: only the links between the declared commits are tested.
LinearWithin(g, commits, parent) ==
    \A i \in 2..Len(commits) : g[commits[i]].parents = <<commits[i - 1]>>

\* Each declared commit has the one before it as its only parent, the first one parent.
Linear(g, commits, parent) ==
    /\ g[commits[1]].parents = <<parent>>
    /\ \A i \in 2..Len(commits) : g[commits[i]].parents = <<commits[i - 1]>>

\* The last count commits before head, when each has one parent and all exist.
FirstParentSpan(g, head, count) ==
    LET back[i \in 0..count] ==
            IF i = 0 THEN << >>
            ELSE IF i > 1 /\ back[i - 1] = << >> THEN << >>
            ELSE LET c == IF i = 1 THEN head ELSE g[Head(back[i - 1])].parents[1]
                 IN IF Len(g[c].parents) = 1 THEN <<c>> \o back[i - 1] ELSE << >>
    IN back[count]

--------------------------------------------------------------------------
(* The delta of a commit: hunks with a line of context on each side. *)

\* Diffs keep as many lines as possible, in order; which ones is git's choice.
Alignments(a, b) ==
    LET pairs == {p \in (DOMAIN a) \X (DOMAIN b) : a[p[1]] = b[p[2]]}
        ordered == {m \in SUBSET pairs : \A p, q \in m :
                       p = q \/ (p[1] < q[1] /\ p[2] < q[2]) \/ (q[1] < p[1] /\ q[2] < p[2])}
    IN {m \in ordered : \A n \in ordered : Cardinality(n) <= Cardinality(m)}

Slice(s, first, last) == SubSeq(s, first, last)
LineAt(s, i) == IF i \in DOMAIN s THEN <<s[i]>> ELSE << >>

\* Hunks of one alignment: the gaps between neighbouring kept lines.
HunksOf(a, b, m) ==
    LET kept == <<<<0, 0>>>> \o SetToSortSeq(m, LAMBDA p, q : p[1] < q[1])
                             \o <<<<Len(a) + 1, Len(b) + 1>>>>
        gaps == [i \in 1..(Len(kept) - 1) |->
                   [before |-> LineAt(a, kept[i][1]),
                    removed |-> Slice(a, kept[i][1] + 1, kept[i + 1][1] - 1),
                    added |-> Slice(b, kept[i][2] + 1, kept[i + 1][2] - 1),
                    after |-> LineAt(a, kept[i + 1][1])]]
    IN SelectSeq(gaps, LAMBDA h : h.removed # << >> \/ h.added # << >>)

OldText(h) == h.before \o h.removed \o h.after
NewText(h) == h.before \o h.added \o h.after

Occurrences(needle, lines) ==
    {i \in 1..(Len(lines) + 1 - Len(needle)) : Slice(lines, i, i + Len(needle) - 1) = needle}

\* Mutant: the context of a hunk need not be unique.
Found(needle, lines) == Occurrences(needle, lines) # {}

UniqueLocation(needle, lines) == Cardinality(Occurrences(needle, lines)) = 1

\* What may be the delta of a commit; a change that is not uniquely located has none.
Deltas(g, commit) ==
    LET a == g[g[commit].parents[1]].lines
        b == g[commit].lines
        hunks == {HunksOf(a, b, m) : m \in Alignments(a, b)}
    IN IF a = b THEN {}
       ELSE {hs \in hunks : \A h \in Range(hs) : UniqueLocation(OldText(h), a)
                                                 /\ UniqueLocation(NewText(h), b)}

Action(hunks) == [i \in DOMAIN hunks |-> <<hunks[i].removed, hunks[i].added>>]

\* One delta for every pair of a source commit and what it was rewritten to; no two
\* pairs do the same.
Mappings(g, source, integrated) ==
    {f \in [DOMAIN source -> UNION {Deltas(g, c) : c \in Range(source)}] :
        /\ \A i \in DOMAIN f : f[i] \in Deltas(g, source[i]) \cap Deltas(g, integrated[i])
        /\ \A i, j \in DOMAIN f : Action(f[i]) = Action(f[j]) => i = j}

--------------------------------------------------------------------------
(* reconstruct, one operator per way of integration. *)

Merge(g, merged, head, declared) ==
    IF Len(g[merged].parents) # 2 \/ g[merged].parents[2] # head THEN Refused
    ELSE LET baseline == g[merged].parents[1]
             commits == CommitsNotIn(g, head, baseline)
         IN IF commits = << >> THEN Refused ELSE Integrated(baseline, commits)

Squash(g, merged, head, declared) ==
    IF /\ Len(g[merged].parents) = 1 /\ Last(declared) = head
       /\ Linear(g, declared, g[merged].parents[1])
       /\ g[head].lines = g[merged].lines
    THEN Integrated(g[merged].parents[1], declared) ELSE Refused

Rebase(g, merged, head, declared) ==
    LET span == FirstParentSpan(g, merged, Len(declared))
    IN IF /\ Last(declared) = head
          /\ g[declared[1]].parents # << >>
          /\ Linear(g, declared, g[declared[1]].parents[1])
          /\ span # << >>
          /\ \A i \in DOMAIN declared : declared[i] # span[i]
          /\ Mappings(g, declared, span) # {}
       THEN Integrated(g[span[1]].parents[1], span) ELSE Refused

Span(g, merged, head, declared) ==
    IF /\ Last(declared) = merged /\ g[declared[1]].parents # << >>
       /\ Linear(g, declared, g[declared[1]].parents[1])
    THEN Integrated(g[declared[1]].parents[1], declared) ELSE Refused

\* The commits recovered from the graph must be those the pull request lists.
Reconstruct(g, method, merged, head, declared) ==
    LET found == CASE method = "merge" -> Merge(g, merged, head, declared)
                   [] method = "squash" -> Squash(g, merged, head, declared)
                   [] method = "rebase" -> Rebase(g, merged, head, declared)
                   [] method = "linear" -> Span(g, merged, head, declared)
        recovered == IF method = "rebase" THEN declared ELSE found.implementation
    IN IF head = Last(declared) /\ found.ok /\ recovered = declared THEN found ELSE Refused

--------------------------------------------------------------------------
(* Reference: the pull request, replayed on the baseline. *)

\* A hunk applied where its context is found.
Applied(h, lines) ==
    LET at == CHOOSE i \in Occurrences(OldText(h), lines) :
                  \A j \in Occurrences(OldText(h), lines) : i <= j
    IN IF Occurrences(OldText(h), lines) = {} THEN lines
       ELSE Slice(lines, 1, at - 1) \o NewText(h) \o Slice(lines, at + Len(OldText(h)), Len(lines))

Replayed(lines, hunks) == FoldLeft(LAMBDA ls, h : Applied(h, ls), lines, Reverse(hunks))

\* What history/git.py accepts as the integration of a pull request is one: of a
\* squash or a linear span the reference is what the declared commits make of the
\* baseline, of a rebase each rewritten commit is its source commit replayed, and of a
\* merge exactly the source's own commits are claimed.
ReferenceIsTheRequest(g, method, merged, head, declared) ==
    LET found == Reconstruct(g, method, merged, head, declared)
    IN found.ok =>
        CASE method \in {"squash", "linear"} ->
                /\ g[Last(declared)].lines = g[merged].lines
                /\ CommitsNotIn(g, Last(declared), found.baseline) = declared
          [] method = "rebase" ->
                \A f \in Mappings(g, declared, found.implementation) : \A i \in DOMAIN declared :
                    LET c == found.implementation[i]
                    IN Replayed(g[g[c].parents[1]].lines, f[i]) = g[c].lines
          [] method = "merge" ->
                /\ Range(declared) \cap Ancestors(g, found.baseline) = {}
                /\ \A c \in Range(declared) : Range(g[c].parents) \subseteq
                       Range(declared) \cup Ancestors(g, found.baseline)
=============================================================================
