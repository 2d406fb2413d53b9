------------------------------ MODULE TaskSource ------------------------------
(***************************************************************************)
(* The trees of files of a task: how the archive of one is read            *)
(* (environments/archive.py), what of a solver's tree is submitted and     *)
(* made of it again (submission), what the solver is given of the baseline *)
(* (pipeline/packaging.py), and how the reference is told from it          *)
(* (verifiers).                                                            *)
(***************************************************************************)
EXTENDS Integers, Sequences, FiniteSets, SequencesExt

CONSTANT Rejection        \* the exception of whatever refuses

(* A path is the sequence of its components; a tree the function from the paths of its
   files to [data, executable]. *)

Has(component, path) == \E i \in DOMAIN path : path[i] = component
Under(path, roots) == \E r \in roots : IsPrefix(r, path)

\* safe_path: no traversal, history, cache or compiled code.
Unsafe == {"", ".", "..", ".git", "__pycache__"}
Compiled == {"a.pyc"}
Safe(path) == /\ path # << >> /\ \A i \in DOMAIN path : path[i] \notin Unsafe
              /\ Last(path) \notin Compiled

Entry(tree, path) == IF path \in DOMAIN tree THEN tree[path] ELSE Rejection

\* SourceArchive.read: members in order, each [path, kind, entry]; directories are dropped.
Read(members) ==
    LET files == {i \in DOMAIN members : members[i].kind = "file"} IN
    IF /\ \A i \in DOMAIN members : Safe(members[i].path) /\ members[i].kind \in {"file", "directory"}
       /\ \A i, j \in DOMAIN members : members[i].path = members[j].path => i = j
       /\ \A i, j \in files : i # j => ~IsPrefix(members[i].path, members[j].path)
    THEN [p \in {members[i].path : i \in files} |->
             members[CHOOSE i \in files : members[i].path = p].entry]
    ELSE Rejection

\* to_tar: the files in the order of their names.
ToArchive(tree) ==
    LET paths == SetToSeq(DOMAIN tree)
    IN  [i \in DOMAIN paths |-> [path |-> paths[i], kind |-> "file", entry |-> tree[paths[i]]]]

\* without_pytest_cache: what pytest leaves beside a tree that had none of it.
CacheFiles == {<<".gitignore">>, <<"CACHEDIR.TAG">>, <<"README.md">>}
Transient(path, entry, baseline) ==
    /\ path \notin DOMAIN baseline /\ ~entry.executable
    /\ \E i \in DOMAIN path : /\ path[i] = ".pytest_cache"
                              /\ \A j \in 1..(i - 1) : path[j] # ".pytest_cache"
                              /\ SubSeq(path, i + 1, Len(path)) \in CacheFiles
WithoutCache(tree, baseline) ==
    [p \in {q \in DOMAIN tree : ~Transient(q, tree[q], baseline)} |-> tree[p]]

\* validate_changes and change_path: a change is within the roots, outside what is forbidden,
\* and never of a cache.
Changed(tree, baseline) ==
    {p \in DOMAIN tree \cup DOMAIN baseline : Entry(tree, p) # Entry(baseline, p)}
MayChange(path, rules) ==
    Safe(path) /\ ~Has(".pytest_cache", path) /\ Under(path, rules.roots) /\ ~Under(path, rules.forbidden)
ChangesAllowed(tree, baseline, rules) ==
    rules.roots # {} /\ \A p \in Changed(tree, baseline) : MayChange(p, rules)

--------------------------------------------------------------------------
(* A session's saves, and the submission. *)

\* A session's source after an export (runtime.py run, command_runtime.py).
Saved(source, exported, rules) ==
    LET captured == WithoutCache(exported, source)
    IN  IF ChangesAllowed(captured, source, rules) THEN captured ELSE Rejection

\* Mutant: a file that is gone is no deletion when a directory is in its place.
DeletionsOfNames(old, new) ==
    {p \in DOMAIN old \ DOMAIN new : ~\E q \in DOMAIN new : IsPrefix(p, q)}

Deletions(old, new) == DOMAIN old \ DOMAIN new

\* from_saved: the files that differ, whole, and the names of those that are gone.
Delta(baseline, saved) ==
    LET new == WithoutCache(saved, baseline)
    IN  [changes |-> ToArchive([p \in {q \in DOMAIN new : Entry(baseline, q) # new[q]} |-> new[p]]),
         deletions |-> Deletions(baseline, new)]

\* apply_delta: a deletion is of a file of the baseline that is not also changed; the merge
\* is read, and compared with the baseline, as any other archive.
Merge(baseline, changes, deletions) ==
    [p \in (DOMAIN baseline \ deletions) \cup DOMAIN changes |->
        IF p \in DOMAIN changes THEN changes[p] ELSE baseline[p]]

ApplyDelta(baseline, delta, rules) ==
    LET archive == Read(delta.changes) IN
    IF archive = Rejection \/ \E i \in DOMAIN delta.changes : delta.changes[i].kind # "file" THEN Rejection
    ELSE LET changes == WithoutCache(archive, baseline) IN
         IF \E p \in delta.deletions : p \notin DOMAIN baseline \/ p \in DOMAIN changes THEN Rejection
         ELSE IF \E p \in delta.deletions \cup DOMAIN changes : ~MayChange(p, rules) THEN Rejection
         ELSE LET merged == Read(ToArchive(Merge(baseline, changes, delta.deletions)))
              IN  IF merged # Rejection /\ ChangesAllowed(merged, baseline, rules) THEN merged
                  ELSE Rejection

\* create and resolve: the same delta is applied when it is made and when it is graded.
Submit(baseline, saved, rules) ==
    LET delta == Delta(baseline, saved)
    IN  IF ApplyDelta(baseline, delta, rules) = Rejection THEN Rejection ELSE delta

\* A tree an export can be: no file is also a directory, no traversal.
IsTree(tree) == /\ \A p \in DOMAIN tree : Safe(p)
                /\ \A p, q \in DOMAIN tree : p # q => ~IsPrefix(p, q)

\* What a session saved, in one save or several, each within the rules of the one before, is
\* submitted, and what is graded is that source.
SubmissionIsSaved(baseline, exports, rules) ==
    LET first == Saved(baseline, exports[1], rules)
        last == IF first = Rejection THEN Rejection ELSE Saved(first, exports[2], rules)
    IN  last # Rejection =>
            LET delta == Submit(baseline, last, rules)
            IN  delta # Rejection /\ ApplyDelta(baseline, delta, rules) = WithoutCache(last, baseline)

--------------------------------------------------------------------------
(* The solver's package. *)

\* A name without its case.
Folded(component) == IF component = "SRC" THEN "src"
                     ELSE IF component = "Reference" THEN "reference" ELSE component
FoldedPath(path) == [i \in DOMAIN path |-> Folded(path[i])]

\* source_path: what a package never holds, in any case.
Excluded == {".git", ".pytest_cache", ".venv", "node_modules", "reference", "authoring_sessions"}
MayBePackaged(path) == Safe(path) /\ \A i \in DOMAIN path : Folded(path[i]) \notin Excluded

\* resolve: who is built, and that the files are listed one by one.  A candidate is
\* [assigned, screened, licensed, label, commits, unclear], the verifier what it binds.
Resolvable(inputs) ==
    /\ inputs.candidate.assigned /\ inputs.candidate.screened /\ inputs.candidate.licensed
    /\ inputs.verifier = inputs.contract
    /\ ~inputs.unclear
    /\ \A r \in inputs.rules.roots : MayBePackaged(r)
    /\ inputs.listed = DOMAIN inputs.baseline
    /\ \A p \in inputs.listed : MayBePackaged(p)
    /\ \A p, q \in inputs.listed : FoldedPath(p) = FoldedPath(q) => p = q
    /\ inputs.baseline # inputs.reference

\* public_values: the checks the contract and the verifier declare, once each, all public.
Once(s) == SelectSeq([i \in DOMAIN s |-> [item |-> s[i], again |-> \E j \in 1..(i - 1) : s[j] = s[i]]],
                     LAMBDA x : ~x.again)
Checks(inputs) == LET kept == Once(inputs.checks \o inputs.examples)
                  IN  [i \in DOMAIN kept |-> kept[i].item]
ChecksArePublic(inputs) ==
    \A i \in DOMAIN Checks(inputs) : /\ Checks(inputs)[i].kind \in {"public-check", "public-example"}
                                     /\ Checks(inputs)[i].visibility = "public"

\* package_files.
PublicCheck(i) == <<"public_checks", ToString(i)>>
PackageFiles(inputs) ==
    LET checks == Checks(inputs)
        workspace == [p \in {<<"workspace">> \o q : q \in DOMAIN inputs.baseline} |->
                         inputs.baseline[Tail(p)]]
    IN  [p \in {<<"instruction.md">>, <<"runtime_manifest.json">>} \cup DOMAIN workspace
               \cup {PublicCheck(i) : i \in DOMAIN checks} |->
            IF p \in DOMAIN workspace THEN workspace[p]
            ELSE IF \E i \in DOMAIN checks : p = PublicCheck(i)
            THEN [data |-> checks[CHOOSE i \in DOMAIN checks : p = PublicCheck(i)].data,
                  executable |-> FALSE]
            ELSE [data |-> p[1], executable |-> FALSE]]

\* assemble; inspect_package assembles once more and compares every component, the inventory
\* and the archive.
Assemble(inputs) ==
    IF ~Resolvable(inputs) \/ ~ChecksArePublic(inputs) THEN Rejection
    ELSE [files |-> PackageFiles(inputs), components |-> Checks(inputs)]
Inspect(inputs, package) == Assemble(inputs) # Rejection /\ package = Assemble(inputs)

\* A solver gets every file of the baseline, once unpacked anywhere, the checks that are
\* public, and nothing whose name is kept from it.
PackageIsPublic(inputs) ==
    LET package == Assemble(inputs) IN
    package # Rejection =>
        /\ Inspect(inputs, package)
        /\ \A q \in DOMAIN inputs.baseline :
              package.files[<<"workspace">> \o q] = inputs.baseline[q]
        /\ \A p \in DOMAIN package.files : \A i \in DOMAIN p : Folded(p[i]) \notin Excluded
        /\ \A p, q \in DOMAIN package.files : FoldedPath(p) = FoldedPath(q) => p = q
        /\ \A i \in DOMAIN package.components :
              /\ package.components[i].visibility = "public"
              /\ package.files[PublicCheck(i)].data = package.components[i].data

--------------------------------------------------------------------------
(* The reference. *)

\* repository_tests: the changed test files, run with the tests they are among; a changed
\* test outside a tree of tests is refused.
TestRoots == {"tests", "test"}
Settings == {<<"conftest.py">>, <<"setup.cfg">>}
SelectedTests(baseline, reference, tests) ==
    {p \in DOMAIN reference \cap tests : Entry(baseline, p) # reference[p]}
RepositoryTests(baseline, reference, tests) ==
    LET selected == SelectedTests(baseline, reference, tests)
        roots == {p[1] : p \in selected}
    IN  IF \E p \in selected : Len(p) < 2 \/ p[1] \notin TestRoots THEN Rejection
        ELSE [selected |-> selected,
              files |-> [p \in {q \in DOMAIN reference : q[1] \in roots \/ q \in Settings} |->
                            reference[p]]]

\* matches: tests have to pass; any other command says the same, byte for byte.
Matches(mode, actual, expected) ==
    IF mode = "tests" THEN actual.exit = 0 /\ expected.exit = 0 ELSE actual = expected

\* observe: only a command that exited, its output whole and its container gone, is one.
Observe(output) ==
    IF output.clean /\ output.category \notin {"infrastructure", "unresolved"}
       /\ output.reason \in {"completed", "command_failed"} /\ output.size <= 1
    THEN [exit |-> output.exit, text |-> output.text] ELSE Rejection

\* freeze_reference's run: every command, in a workspace of its own; tests that could not be
\* run at all are no observation.
Captured(modes, outputs, role) ==
    LET seen == [i \in DOMAIN outputs |-> Observe(outputs[i])] IN
    IF \E i \in DOMAIN seen :
          \/ seen[i] = Rejection
          \/ modes[i] = "tests" /\ seen[i].exit \notin (IF role = "reference" THEN {0} ELSE {0, 1})
    THEN Rejection ELSE seen

Repeats(modes, again, expected) ==
    \A i \in DOMAIN modes : Matches(modes[i], again[i], expected[i])

\* freeze_reference: the reference twice, then the baseline, which has to fail somewhere.
FreezeReference(modes, outputs) ==
    LET expected == Captured(modes, outputs.reference, "reference")
        again == Captured(modes, outputs.repeated, "reference")
        before == Captured(modes, outputs.baseline, "baseline")
    IN  IF expected = Rejection \/ again = Rejection THEN Rejection
        ELSE IF ~Repeats(modes, again, expected) THEN Rejection
        ELSE IF before = Rejection \/ Repeats(modes, before, expected) THEN Rejection
        ELSE [expected |-> expected, repeated |-> again, baseline |-> before,
              matches |-> [i \in DOMAIN modes |-> Matches(modes[i], before[i], expected[i])]]

\* validate_verifier_bundle and validate_reference: what is frozen is read again before it
\* grades anybody.
ValidReference(modes, proof) ==
    LET matches == [i \in DOMAIN modes |-> Matches(modes[i], proof.baseline[i], proof.expected[i])] IN
    /\ \A i \in DOMAIN modes : modes[i] = "tests" => proof.expected[i].exit = 0
    /\ \A i \in DOMAIN modes : Matches(modes[i], proof.repeated[i], proof.expected[i])
    /\ matches = proof.matches /\ \E i \in DOMAIN modes : ~matches[i]

\* A source that does as the reference did, either time, is rewarded, one that does as the
\* baseline did is not, and no failure of the machine decided it.
ReferenceDecides(modes, outputs) ==
    LET proof == FreezeReference(modes, outputs)
        rewarded(seen) == \A i \in DOMAIN modes :
            seen[i] # Rejection /\ Matches(modes[i], seen[i], proof.expected[i])
        observed(run) == [i \in DOMAIN modes |-> Observe(run[i])]
    IN  proof # Rejection =>
            /\ ValidReference(modes, proof)
            /\ rewarded(observed(outputs.reference)) /\ rewarded(observed(outputs.repeated))
            /\ ~rewarded(observed(outputs.baseline))
            /\ \A i \in DOMAIN modes : outputs.baseline[i].clean /\ outputs.reference[i].clean
=============================================================================
