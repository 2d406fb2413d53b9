---------------------------- MODULE StaticMetadata ----------------------------
(***************************************************************************)
(* environments/inference.py: metadata of a repository inferred without    *)
(* running it.  A setup.py is a sequence of statements; what the inference *)
(* makes of its setup call is compared with what running it would pass.    *)
(* Requirement files include one another.                                  *)
(*                                                                         *)
(* A statement is a record of its kind; a nested one is in body:           *)
(*   assign  name := a list of its own (from = "list"), the list another   *)
(*           name is bound to, or the result of a call (from = "call")     *)
(*   call    an expression statement whose value is a call                 *)
(*   inner   one that calls something for a part of its value (x or f())   *)
(*   augment name += something                                             *)
(*   clear   del, assert, or a target that is not a name                   *)
(*   bind    an import or def of name                                      *)
(*   setup   a call of setup with the list name is bound to: by a name it  *)
(*           was imported as, as an attribute of its package               *)
(*           (setuptools.setup), or by any other expression                *)
(*   if, main, block, class, match    an if, if __name__ == '__main__', a  *)
(*           loop, try, with or def, a class, a match or except* around    *)
(*           body                                                          *)
(***************************************************************************)
EXTENDS Integers, Sequences, FiniteSets, SequencesExt, FiniteSetsExt, Relation

CONSTANTS Name, None

Opaque == "call"
Guards == {"if", "main", "block", "class", "match"}

--------------------------------------------------------------------------
(* _setup_py: the names known to be bound to a static value. *)

\* What is known: a value is the number of the statement whose list it is.
Known(env, e) == IF e.from = "list" THEN e.value
                 ELSE IF e.from = Opaque THEN None ELSE env[e.from]

Unknown == [n \in Name |-> None]
Forget(env, n) == [env EXCEPT ![n] = None]

\* What may mutate a list, and a call that is not known as setup, leaves every name unknown.
Unguarded(env, s) ==
    CASE s.kind = "assign" -> [env EXCEPT ![s.name] = Known(Forget(env, s.name), s)]
      [] s.kind \in {"call", "augment", "clear"} -> Unknown
      [] s.kind = "setup" -> IF s.form = "other" THEN Unknown ELSE env
      [] s.kind = "bind" -> Forget(env, s.name)
      [] OTHER -> env

\* Mutant: an assignment that may not happen is taken for one that does.
VisitedAnyway(env, s, conditional) == Unguarded(env, s)

\* visit of a statement that holds no other: an assignment under a condition leaves its
\* name unknown.
Visited(env, s, conditional) ==
    IF s.kind = "assign" /\ conditional THEN Forget(env, s.name) ELSE Unguarded(env, s)

\* A loop, try, with or def: the names assigned in it are forgotten, nothing else.
VisitBlock(env, s) == IF s.body.kind \in {"assign", "augment"} THEN Forget(env, s.body.name) ELSE env

\* Nothing is looked at in a class, after which nothing is known, or in a match.
Visit(env, s) ==
    CASE s.kind \in {"if", "main"} -> Visited(env, s.body, s.kind = "if")
      [] s.kind = "block" -> VisitBlock(env, s)
      [] s.kind = "class" -> Unknown
      [] s.kind = "match" -> env
      [] OTHER -> Visited(env, s, FALSE)

\* What is known before each statement.
KnownBefore(program) ==
    LET known[i \in 1..Len(program)] ==
            IF i = 1 THEN Unknown ELSE Visit(known[i - 1], program[i - 1])
    IN known

TheCall(program, i) == IF program[i].kind \in Guards THEN program[i].body ELSE program[i]
SetupAt(program) == {i \in DOMAIN program : TheCall(program, i).kind = "setup"}
Seen(program) == {i \in SetupAt(program) : TheCall(program, i).form # "other"}

\* A call that is counted, and one for which the script is rejected: under a condition, or
\* by its name in a block.
Counted(program) == {i \in Seen(program) : program[i].kind \in {"setup", "main"}}
Refused(program) ==
    {i \in Seen(program) : \/ program[i].kind = "if"
                           \/ program[i].kind = "block" /\ TheCall(program, i).form = "name"}

\* One setup call is counted and its argument known; the value inferred, or None when the
\* script is rejected.
Inferred(program) ==
    IF Refused(program) = {} /\ Cardinality(Counted(program)) = 1
    THEN LET i == CHOOSE j \in Counted(program) : TRUE
         IN KnownBefore(program)[i][TheCall(program, i).name]
    ELSE None

--------------------------------------------------------------------------
(* External: what Python does.  A state binds names to lists and says which of the     *)
(* lists were mutated since they were made.                                            *)

Started == [bound |-> [n \in Name |-> None], mutated |-> {}]
Lists(state) == {state.bound[n] : n \in Name} \ {None}

\* A call may mutate any list that a name is bound to.
Called(state) == {[state EXCEPT !.mutated = @ \cup changed] : changed \in SUBSET Lists(state)}

Run(state, s) ==
    CASE s.kind = "assign" /\ s.from = "list" -> {[state EXCEPT !.bound[s.name] = s.value]}
      [] s.kind = "assign" /\ s.from \in Name ->
            {[state EXCEPT !.bound[s.name] = state.bound[s.from]]}
      [] s.kind = "assign" /\ s.from = Opaque ->
            {[called EXCEPT !.bound[s.name] = None] : called \in Called(state)}
      [] s.kind \in {"call", "inner", "augment", "clear"} -> Called(state)
      [] s.kind = "bind" -> {[state EXCEPT !.bound[s.name] = None]}
      [] OTHER -> {state}

\* A condition may hold or not; a block runs its body or not; a class binds names of its own.
Runs(states, s) ==
    CASE s.kind = "main" -> UNION {Run(state, s.body) : state \in states}
      [] s.kind = "class" ->
            UNION {{[after EXCEPT !.bound = state.bound] : after \in Run(state, s.body)} : state \in states}
      [] s.kind \in {"if", "block", "match"} -> states \cup UNION {Run(state, s.body) : state \in states}
      [] OTHER -> UNION {Run(state, s) : state \in states}

Before(program, i) ==
    LET after[j \in 0..i - 1] == IF j = 0 THEN {Started} ELSE Runs(after[j - 1], program[j])
    IN after[i - 1]

\* Every run of an accepted script passes the inferred value to setup.
InferredIsPassed(program) ==
    LET value == Inferred(program) IN
    value # None =>
        \A i \in SetupAt(program) : \A state \in Before(program, i) :
            state.bound[TheCall(program, i).name] = value /\ value \notin state.mutated

\* What is inferred of an accepted script was not changed since (inference.py:356).
InferredIsUnchanged(program) ==
    \A i \in Counted(program) : \A state \in Before(program, i) : Inferred(program) \notin state.mutated

\* An accepted script calls setup in no loop, try, with or def (inference.py:382).
HiddenIsRefused(program) ==
    Inferred(program) # None => \A i \in Seen(program) : program[i].kind # "block"

\* Nothing is called but by a statement, a block does nothing but assign, there is no match,
\* and each setup call is one that is counted or refused.
Quiet(program) ==
    /\ \A i \in DOMAIN program : LET s == TheCall(program, i) IN
          /\ s.kind # "inner" /\ ~(s.kind = "assign" /\ s.from = Opaque)
          /\ program[i].kind = "block" => s.kind \in {"assign", "setup"}
          /\ program[i].kind # "match"
    /\ SetupAt(program) = Counted(program) \cup Refused(program)

--------------------------------------------------------------------------
(* _Repository.requirements: a file is a sequence of lines, each a requirement or the  *)
(* inclusion of a file, as requirements ("-r") or as constraints ("-c").               *)

MaxStack == 16

RECURSIVE ReadRequirements(_, _, _, _)

Rejected == [ok |-> FALSE, requirements |-> {}, constraints |-> {}]

\* What is included below a constraint file is a constraint.
BelowConstraint(constraint, line) == constraint \/ line.kind = "-c"

ReadRequirements(files, f, constraint, stack) ==
    IF f \notin DOMAIN files \/ f \in Range(stack) \/ Len(stack) >= MaxStack THEN Rejected
    ELSE LET lines == Range(files[f])
             own == {line.of : line \in {l \in lines : l.kind = "requirement"}}
             below == {ReadRequirements(files, l.of, BelowConstraint(constraint, l),
                                        Append(stack, f)) :
                          l \in {l \in lines : l.kind \in {"-r", "-c"}}}
         IN IF \E b \in below : ~b.ok THEN Rejected
            ELSE [ok |-> TRUE,
                  requirements |-> (IF constraint THEN {} ELSE own)
                                       \cup UNION {b.requirements : b \in below},
                  constraints |-> (IF constraint THEN own ELSE {})
                                       \cup UNION {b.constraints : b \in below}]

Includes(files) == [pair \in (DOMAIN files) \X (DOMAIN files) |->
    \E line \in Range(files[pair[1]]) : line.kind \in {"-r", "-c"} /\ line.of = pair[2]]
Reached(files, from) ==
    LET reached == ReflexiveTransitiveClosure(Includes(files), DOMAIN files)
    IN {g \in DOMAIN files : \E f \in from : reached[f, g]}

\* pip reads what a line includes by the kind of that line only: "-r" in a constraint file
\* includes requirements.  What is read here is refused for a cycle, is no requirement that
\* pip would not have, gives up no line and no constraint, and is what pip reads unless "-r"
\* is met below a constraint file (inference.py:142 makes a constraint of what it includes).
RequirementsAreReached(files, f, constraint) ==
    LET read == ReadRequirements(files, f, constraint, <<>>)
        all == Reached(files, {f})
        Of(fs, kind) == {line.of : line \in {l \in UNION {Range(files[g]) : g \in fs} : l.kind = kind}}
        required == Of(Of(all, "-r") \cup (IF constraint THEN {} ELSE {f}), "requirement")
        constraining == Of(all, "-c") \cup (IF constraint THEN {f} ELSE {})
        constrained == Of(constraining, "requirement")
        cyclic == \E g, h \in all : Includes(files)[g, h] /\ g \in Reached(files, {h})
    IN /\ read.ok <=> ~cyclic
       /\ read.ok => /\ read.requirements \subseteq required
                     /\ constrained \subseteq read.constraints
                     /\ read.requirements \cup read.constraints = Of(all, "requirement")
                     /\ Of(Reached(files, constraining), "-r") = {} =>
                           read.requirements = required /\ read.constraints = constrained

--------------------------------------------------------------------------
(* Where a wheel puts the files of a repository, the Python it is run with *)
(* and the bounds of its requirements.  Paths, import names and versions   *)
(* are sequences of their components; << >> is the root.  What is empty    *)
(* where it cannot be was rejected.                                        *)

Under(path, directory) == IsPrefix(directory, path)
Suffix(path, directory) == SubSeq(path, Len(directory) + 1, Len(path))

--------------------------------------------------------------------------
(* _source_layout: a mapping sends the subtree at source to wheel. *)

Moved(path, m) == m.wheel \o Suffix(path, m.source)

\* A mapping says nothing more than one of a directory above.
Implied(m, parent) == IsStrictPrefix(parent.source, m.source) /\ m.wheel = Moved(m.source, parent)

\* Mappings are taken from the root down; one that a kept mapping implies is dropped.
Kept(mappings) ==
    LET kept[d \in 0..Max({Len(m.source) : m \in mappings} \cup {0})] ==
            LET above == IF d = 0 THEN {} ELSE kept[d - 1]
            IN above \cup {m \in mappings : Len(m.source) = d /\ ~\E k \in above : Implied(m, k)}
    IN kept[Max({Len(m.source) : m \in mappings} \cup {0})]

Overlap(m, k) ==
    IsStrictPrefix(k.source, m.source) \/ IsStrictPrefix(k.wheel, m.wheel) \/ k.wheel = m.wheel

Layout(files, mappings) ==
    IF \/ \E m \in mappings : ~\E f \in files : Under(f, m.source)
       \/ \E m, k \in mappings : m # k /\ m.source = k.source
       \/ mappings = {}
       \/ \E m, k \in Kept(mappings) : m # k /\ Overlap(m, k)
    THEN {} ELSE Kept(mappings)

Installed(f, layout) == {Moved(f, m) : m \in {k \in layout : Under(f, k.source)}}

\* An accepted layout (inference.py _source_layout) puts every file exactly where each
\* mapping that declares it says, and no two files in one place.
LayoutKept(files, mappings) ==
    LET layout == Layout(files, mappings) IN
    layout # {} =>
        /\ \A f \in files, m \in mappings :
              Under(f, m.source) => Installed(f, layout) = {Moved(f, m)}
        /\ \A f, g \in files : f # g => Installed(f, layout) \cap Installed(g, layout) = {}

--------------------------------------------------------------------------
(* Hatch's source rewrites: a prefix of the source path is replaced. *)

Ambiguous(rewrites) ==
    \E r, s \in rewrites : r # s /\ Under(r.from, s.from)

Splits(r, path) == IsStrictPrefix(path, r.from)

HatchDestination(rewrites, path) ==
    LET above == {r \in rewrites : Under(path, r.from)}
    IN IF \E r \in rewrites : Splits(r, path) THEN << >>
       ELSE IF above = {} THEN path
       ELSE LET r == CHOOSE s \in above : TRUE IN r.to \o Suffix(path, r.from)

\* Hatch rewrites each file it packs; an accepted package goes, as a subtree, where its
\* files would go one by one (inference.py hatch_destination).
RewrittenAsFiles(files, rewrites, package) ==
    LET destination == HatchDestination(rewrites, package) IN
    (~Ambiguous(rewrites) /\ destination # << >>) =>
        \A f \in {g \in files : Under(g, package)} :
            LET above == {r \in rewrites : Under(f, r.from)}
            IN destination \o Suffix(f, package)
                 = IF above = {} THEN f
                   ELSE LET r == CHOOSE s \in above : TRUE IN r.to \o Suffix(f, r.from)

--------------------------------------------------------------------------
(* Setuptools: package-dir gives some packages a directory; the others follow. *)

Nearest(prefixes) == CHOOSE p \in prefixes : \A q \in prefixes : Len(q) <= Len(p)

PackageSource(directories, name) ==
    LET prefixes == {p \in DOMAIN directories : Under(name, p)}
    IN IF prefixes = {} THEN name
       ELSE directories[Nearest(prefixes)] \o Suffix(name, Nearest(prefixes))

\* Setuptools' own walk from the package up, kept by package_source (inference.py).
SourceIsSetuptools(directories, name) ==
    LET walk[n \in 0..Len(name)] ==
            LET p == SubSeq(name, 1, n)
            IN IF p \in DOMAIN directories THEN directories[p]
               ELSE IF n = 0 THEN << >> ELSE Append(walk[n - 1], name[n])
    IN PackageSource(directories, name) = walk[Len(name)]

--------------------------------------------------------------------------
(* _python_selectors: the declared runtimes, each a release or one patch of it. *)

Compatible(preferred, s) == Under(preferred, s) \/ Under(s, preferred)
Agrees(preferred, s) == Compatible(preferred, s)

Preferred(selectors) ==
    FoldLeft(LAMBDA preferred, s :
                 IF preferred = << >> \/ ~Agrees(preferred, s) THEN << >>
                 ELSE IF Len(s) > Len(preferred) THEN s ELSE preferred,
             Head(selectors), Tail(selectors))

\* A preferred runtime satisfies every selector, and one is found whenever some runtime
\* satisfies them all.
SelectorsAgree(selectors, versions) ==
    LET preferred == Preferred(selectors)
        possible == {v \in versions : \A i \in DOMAIN selectors : Under(v, selectors[i])}
    IN IF preferred = << >> THEN possible = {}
       ELSE possible = {v \in versions : Under(v, preferred)}

--------------------------------------------------------------------------
(* _poetry_spec: a caret or a tilde as a half-open interval. *)

Below(v, w) == \E i \in 1..3 : v[i] < w[i] /\ \A j \in 1..i - 1 : v[j] = w[j]
Padded(parts) == [i \in 1..3 |-> IF i <= Len(parts) THEN parts[i] ELSE 0]

\* The component a version may not pass.
Pivot(operator, parts) ==
    LET nonzero == {i \in DOMAIN parts : parts[i] # 0}
    IN IF operator = "^" THEN (IF nonzero = {} THEN Len(parts) ELSE Min(nonzero))
       ELSE Min({2, Len(parts)})

Upper(operator, parts) ==
    LET k == Pivot(operator, parts)
    IN [i \in 1..3 |-> IF i < k THEN Padded(parts)[i] ELSE IF i = k THEN Padded(parts)[i] + 1 ELSE 0]

\* Compatible versions (inference.py _poetry_spec) change nothing to the left of, or at,
\* the first component that is not zero (caret), or the second given (tilde).
SpecIsPoetrys(operator, parts, versions) ==
    \A v \in versions :
        (~Below(v, Padded(parts)) /\ Below(v, Upper(operator, parts)))
        <=> /\ ~Below(v, Padded(parts))
            /\ \A i \in DOMAIN parts :
                  (i = 1 \/ (operator = "~" /\ i = 2)
                   \/ (operator = "^" /\ \A j \in 1..i - 1 : parts[j] = 0)) => v[i] = parts[i]
=============================================================================
