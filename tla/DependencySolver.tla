-------------------------- MODULE DependencySolver --------------------------
(***************************************************************************)
(* environments/candidates.py and catalog.py: the dependencies of one      *)
(* request.  A backtracking search over lazily captured pages of a package *)
(* index picks one wheel per package; the pages and the choice are kept on *)
(* disk, and a later use solves again from the kept wheels alone and must  *)
(* come to the same choice.  The index changes, and the process dies, at   *)
(* any time.                                                               *)
(*                                                                         *)
(* A wheel is [name, version, pre, sound, extras, requires]; a requirement *)
(* is [name, extras, versions, pre, when] with the versions its specifier  *)
(* admits, whether that names a pre-release, and the extra its marker asks *)
(* for ("" for none).                                                      *)
(***************************************************************************)
EXTENDS Naturals, FiniteSets, SequencesExt

CONSTANTS Package,      \* names, numbered in their order
          Wheel,        \* every wheel the index may ever list
          Demand,       \* the declared requirements to choose from
          Constraints,  \* constraint files: for each package the versions they admit
          Policies,     \* artifact policies: the wheels one may use
          MaxWheels,    \* the byte budget, counted in wheels
          MaxChanges    \* releases and withdrawals of the index

VARIABLES roots,        \* the requirements of the manifest
          constraint,   \* constraint[n]: versions the constraints admit
          allowed,      \* the wheels the artifact policy admits
          listed,       \* what the index lists now, withdrawn wheels left out
          changes,
          page,         \* page[n]: the page kept for the request, <<>> when none is
          stack,        \* iterator frames: the selections each has left
          at,           \* idle, solving, verifying, freezing
          chosen,       \* the last answer: [wheels, found] or <<>>
          frozen        \* the resolution kept for the request, or <<>>

input == <<roots, constraint, allowed>>
vars == <<input, listed, changes, page, stack, at, chosen, frozen>>

Names(wheels) == {w.name : w \in wheels}

Init ==
    /\ roots \in SUBSET Demand \ {{}}
    /\ constraint \in Constraints
    /\ allowed \in Policies
    /\ listed \in SUBSET Wheel
    /\ changes = 0
    /\ page = [n \in Package |-> <<>>]
    /\ stack = <<>>
    /\ at = "idle"
    /\ chosen = <<>>
    /\ frozen = <<>>

--------------------------------------------------------------------------
(* closure: what a selection demands, and whether it serves it. *)

\* Mutant: the extras requested of a package after its first visit are not expanded.
FirstExtras(demands, n) ==
    {""} \cup UNION {d.extras : d \in {r \in demands \cap roots : r.name = n}}

Enabled(demands, n) == {""} \cup UNION {d.extras : d \in {r \in demands : r.name = n}}

\* The dependencies a package brings in under the extras requested of it.
Brings(w, demands) == {r \in w.requires : r.when \in Enabled(demands, w.name)}

RECURSIVE Demands(_, _)
Demands(selected, known) ==
    LET more == known \cup UNION {Brings(w, known) :
                      w \in {v \in selected : v.name \in {d.name : d \in known}}}
    IN IF more = known THEN known ELSE Demands(selected, more)

Needed(selected) == Demands(selected, roots)

Of(demands, n) == {d \in demands : d.name = n}

\* Mutant: the extras asked for are not compared with those the wheel provides.
AcceptsVersion(w, demands) ==
    /\ w.version \in constraint[w.name]
    /\ w \in allowed
    /\ \A d \in Of(demands, w.name) : w.version \in d.versions

Accepts(w, demands) ==
    /\ w.version \in constraint[w.name]
    /\ w \in allowed
    /\ \A d \in Of(demands, w.name) : w.version \in d.versions /\ d.extras \subseteq w.extras

Consistent(selected) ==
    LET demands == Needed(selected)
    IN \A w \in selected : w.name \in {d.name : d \in demands} => Accepts(w, demands)

Missing(selected) == {d.name : d \in Needed(selected)} \ Names(selected)

--------------------------------------------------------------------------
(* options and extend: the choices for a package, best first. *)

\* Pre-releases come last unless somebody asks for one.
Before(v, w, prefer) ==
    IF v.pre # w.pre /\ ~prefer THEN w.pre ELSE v.version > w.version

Ordered(wheels, prefer) == SetToSortSeq(wheels, LAMBDA v, w : Before(v, w, prefer))

\* A wheel whose metadata is invalid is acquired and passed over.
Branches(selected, n, offered) ==
    LET demands == Needed(selected)
        fit == {w \in offered : w.sound /\ Accepts(w, demands)}
        prefer == \E d \in Of(demands, n) : d.pre
    IN SelectSeq([i \in 1..Cardinality(fit) |-> selected \cup {Ordered(fit, prefer)[i]}],
                 LAMBDA next : Cardinality(next) <= MaxWheels)

--------------------------------------------------------------------------
(* Actions: the index, and the passes of the search loop. *)

Release(w) == changes < MaxChanges /\ listed' = listed \cup {w}
Withdraw(w) == changes < MaxChanges /\ listed' = listed \ {w}

Change ==
    /\ \E w \in Wheel : Release(w) \/ Withdraw(w)
    /\ listed' # listed
    /\ changes' = changes + 1
    /\ UNCHANGED <<input, page, stack, at, chosen, frozen>>

\* candidate_dependencies: a request already frozen is verified, any other solved.
Resolve ==
    /\ at = "idle"
    /\ at' = IF frozen = <<>> THEN "solving" ELSE "verifying"
    /\ IF frozen # <<>> /\ ~frozen.found
       THEN stack' = <<>> ELSE stack' = << << {} >> >>
    /\ chosen' = <<>>
    /\ UNCHANGED <<input, listed, changes, page, frozen>>

Top == Last(stack)
Running == at \in {"solving", "verifying"} /\ stack # <<>>
Selected == Head(Top)
Taken == Append(Front(stack), Tail(Top))

\* Mutant: a frozen request is checked against the pages instead of its own wheels.
OfferedByPages(n) == {w \in (IF at = "verifying" THEN listed ELSE page[n].wheels) : w.name = n}

\* Where the wheels of a package come from: its kept page, or the frozen choice alone.
Offered(n) == {w \in (IF at = "verifying" THEN frozen.wheels ELSE page[n].wheels) : w.name = n}

Pop ==
    /\ Running /\ Top = <<>>
    /\ stack' = Front(stack)
    /\ UNCHANGED <<input, listed, changes, page, at, chosen, frozen>>

Refute ==
    /\ Running /\ Top # <<>> /\ ~Consistent(Selected)
    /\ stack' = Taken
    /\ UNCHANGED <<input, listed, changes, page, at, chosen, frozen>>

Least(names) == CHOOSE n \in names : \A m \in names : n <= m

\* Mutant: a page that has changed since it was kept is fetched again.
Stale(n) == ~(page[n] # <<>> /\ page[n].wheels = {w \in listed : w.name = n})

Unkept(n) == page[n] = <<>>

\* The page is kept before it is read.
Capture ==
    /\ Running /\ at = "solving" /\ Top # <<>> /\ Consistent(Selected)
    /\ Missing(Selected) # {}
    /\ LET n == Least(Missing(Selected)) IN
       /\ Unkept(n)
       /\ page' = [page EXCEPT ![n] = [wheels |-> {w \in listed : w.name = n}]]
    /\ UNCHANGED <<input, listed, changes, stack, at, chosen, frozen>>

Extend ==
    /\ Running /\ Top # <<>> /\ Consistent(Selected) /\ Missing(Selected) # {}
    /\ LET n == Least(Missing(Selected)) IN
       /\ at = "verifying" \/ page[n] # <<>>
       /\ stack' = Append(Taken, Branches(Selected, n, Offered(n)))
    /\ UNCHANGED <<input, listed, changes, page, at, chosen, frozen>>

Answer(answer) ==
    /\ stack' = <<>>
    /\ chosen' = answer
    /\ at' = IF at = "solving" THEN "freezing" ELSE "idle"
    /\ UNCHANGED <<input, listed, changes, page, frozen>>

Found ==
    /\ Running /\ Top # <<>> /\ Consistent(Selected) /\ Missing(Selected) = {}
    /\ Answer([wheels |-> Selected, found |-> TRUE])

Exhausted ==
    /\ at \in {"solving", "verifying"} /\ stack = <<>>
    /\ Answer([wheels |-> {}, found |-> FALSE])

\* The snapshot and the choice are kept; from then on nobody solves the request again.
Freeze ==
    /\ at = "freezing"
    /\ frozen' = chosen
    /\ at' = "idle"
    /\ UNCHANGED <<input, listed, changes, page, stack, chosen>>

\* The process dies, its deadline passes, or a fetch fails: only what was kept remains.
GiveUp ==
    /\ at # "idle"
    /\ at' = "idle" /\ stack' = <<>> /\ chosen' = <<>>
    /\ UNCHANGED <<input, listed, changes, page, frozen>>

Next ==
    \/ Change \/ Resolve \/ Pop \/ Refute \/ Capture \/ Extend \/ Found \/ Exhausted
    \/ Freeze \/ GiveUp

Search == Pop \/ Refute \/ Capture \/ Extend \/ Found \/ Exhausted \/ Freeze

Spec == Init /\ [][Next]_vars /\ WF_vars(Search)

--------------------------------------------------------------------------
(* Properties. *)

\* What the search could have chosen from: the kept pages, and today's for the others.
Visible == {w \in Wheel : IF page[w.name] = <<>> THEN w \in listed
                          ELSE w \in page[w.name].wheels}

\* Reference: one wheel for each package demanded, directly or through another, none
\* for any other, and every demand met.
Solution(wheels) ==
    /\ wheels # {}
    /\ Cardinality(wheels) = Cardinality(Names(wheels)) /\ Cardinality(wheels) <= MaxWheels
    /\ \A w \in wheels : w.sound /\ w.version \in constraint[w.name] /\ w \in allowed
    /\ \E extras \in [Names(wheels) -> SUBSET {"x"}] :
          LET demands == roots \cup UNION {{r \in w.requires : r.when \in {""} \cup extras[w.name]} :
                                              w \in wheels}
          IN /\ Names(wheels) = {d.name : d \in demands}
             /\ \A w \in wheels : extras[w.name] = UNION {d.extras : d \in Of(demands, w.name)}
             /\ \A d \in demands, w \in wheels :
                   w.name = d.name => w.version \in d.versions /\ d.extras \subseteq w.extras

\* The search (candidates.py _solve) answers with a closure that serves every
\* requirement under the extras and constraints in force, and says there is none
\* only when no choice of wheels from the pages it saw would do.
SearchExact ==
    at = "freezing" =>
        IF chosen.found THEN Solution(chosen.wheels) /\ chosen.wheels \subseteq Visible
        ELSE \A wheels \in SUBSET Visible : ~Solution(wheels)

\* A use of a frozen request solves from the kept wheels alone and comes to exactly the
\* frozen choice (candidates.py read_dependency_resolution refuses anything else),
\* whatever the index has done meanwhile.
FrozenReproduced == (at = "idle" /\ chosen # <<>> /\ frozen # <<>>) => chosen = frozen

\* A page kept for a request is never replaced by a later one, by an interrupted
\* attempt or the next (catalog.py: retain before parsing).
PageKept == [][\A n \in Package : page[n] # <<>> => page'[n] = page[n]]_vars
=============================================================================
