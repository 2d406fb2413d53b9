---------------------------- MODULE MCPreparation ----------------------------
(***************************************************************************)
(* What a task is made from: the capture of a pull request and the search  *)
(* for its dependencies, as processes; its history, its partition, request *)
(* document and declarations, as functions of small inputs; and the plans  *)
(* of a study.  A behaviour is about one process or one input.             *)
(***************************************************************************)
EXTENDS Integers, Sequences, FiniteSets, TLC

CONSTANTS Package, MaxWheels, MaxChanges, PageSize, MaxPages, MaxEvents, MaxRuns, Name, None, Rejection
Requirement(n, extras, versions, pre, when) ==
    [name |-> n, extras |-> extras, versions |-> versions, pre |-> pre, when |-> when]
WheelOf(n, version, pre, sound, extras, requires) ==
    [name |-> n, version |-> version, pre |-> pre, sound |-> sound, extras |-> extras,
     requires |-> requires]

\* The second package asks for the third, and for an older first, when its extra is asked
\* for: as a root, or by the newer first package after it was first visited.
Wheel == {WheelOf(1, 1, FALSE, TRUE, {}, {Requirement(2, {}, {1, 2}, FALSE, "")}),
          WheelOf(1, 2, FALSE, TRUE, {}, {Requirement(2, {"x"}, {2}, FALSE, "")}),
          WheelOf(2, 1, FALSE, TRUE, {}, {}),
          WheelOf(2, 2, TRUE, TRUE, {"x"}, {Requirement(3, {}, {1, 2}, FALSE, "x"),
                                            Requirement(1, {}, {1}, FALSE, "x")}),
          WheelOf(3, 1, FALSE, TRUE, {}, {}),
          WheelOf(3, 2, FALSE, FALSE, {}, {})}
Demand == {Requirement(1, {}, {1, 2}, FALSE, ""), Requirement(2, {"x"}, {1, 2}, FALSE, ""),
           Requirement(2, {}, {1, 2}, TRUE, "")}
Constraints == {[n \in Package |-> {1, 2}], [n \in Package |-> IF n = 1 THEN {1} ELSE {1, 2}]}
Policies == {Wheel, {w \in Wheel : w.version = 1}}

VARIABLES route,
          roots, constraint, allowed, listed, changes, stack, at, chosen, frozen,
          comments, reviews, events, files, manifest, prepared, damaged, step, runs, verdict,
          page,
          input                     \* of a function

Solver == INSTANCE DependencySolver
Captured == INSTANCE Capture
History == INSTANCE History
Metadata == INSTANCE StaticMetadata
Study == INSTANCE Study
Sources == INSTANCE TaskSource
Grounding == INSTANCE Grounding

solverOwn == <<roots, constraint, allowed, listed, changes, stack, at, chosen, frozen>>
captureOwn == <<comments, reviews, events, files, manifest, prepared, damaged, step, runs, verdict>>
vars == <<route, solverOwn, captureOwn, page, input>>

NoSolver == roots = 0 /\ constraint = 0 /\ allowed = 0 /\ listed = 0 /\ changes = 0 /\ stack = 0
            /\ at = 0 /\ chosen = 0 /\ frozen = 0
NoCapture == comments = 0 /\ reviews = 0 /\ events = 0 /\ files = 0 /\ manifest = 0 /\ prepared = 0
             /\ damaged = 0 /\ step = 0 /\ runs = 0 /\ verdict = 0

Texts(S, n) == UNION {[1..k -> S] : k \in 0..n}

--------------------------------------------------------------------------
(* The inputs of the functions. *)

\* Graphs of four commits of at most one line each; or two commits side by side, the one a
\* rewrite of the other, of up to three lines.
Parents(c) == {<< >>} \cup {<<p>> : p \in 1..(c - 1)}
                      \cup {pair \in (1..(c - 1)) \X (1..(c - 1)) : pair[1] # pair[2]}
Commits(parents, lines) == [c \in 1..4 |-> [parents |-> parents[c], lines |-> lines[c]]]

AHistory ==
    \/ \E p3 \in Parents(3), p4 \in Parents(4), lines \in [1..4 -> Texts({1}, 1)],
          method \in {"merge", "squash", "linear"},
          declared \in {<<2>>, <<3>>, <<4>>, <<2, 3>>, <<3, 4>>, <<2, 4>>} :
             input = [graph |-> Commits(<<<< >>, <<1>>, p3, p4>>, lines),
                      method |-> method, declared |-> declared]
    \/ \E lines \in [1..4 -> Texts({1, 2}, 2) \cup {<<1, 2, 1>>, <<1, 1, 2>>}] :
          input = [graph |-> Commits(<<<< >>, <<1>>, <<1>>, <<3>>>>, lines),
                   method |-> "rebase", declared |-> <<2>>]

\* Relations of four sources, and what some of them were asked to be.
Kinships == {r \in [left : 1..4, right : 1..4, kind : {"fork"}] : r.left < r.right}
ASplit ==
    \E forks \in SUBSET Kinships, requested \in UNION {[d -> {"train", "test"}] : d \in SUBSET {1, 3, 4}},
       dependencies \in SUBSET {[left |-> 2, right |-> 3, kind |-> "dependency"]} :
        input = [relations |-> forks \cup dependencies, requested |-> requested]

ACapture ==
    \E label \in {"historical_request", "reconstructed_specification"}, cutoff \in 1..3,
       started \in 1..3, recorded \in 2..3, retrieved \in [{"pr", "issue"} -> 1..3],
       items \in {{}} \cup {{i} : i \in [source : {"pr", "issue"}, created : {1, 2}, updated : 1..3]} :
        input = [label |-> label, cutoff |-> cutoff, started |-> started, merged |-> 3,
                 recorded |-> recorded, retrieved |-> retrieved, items |-> items]

Symbols == {Captured!Newline, [path |-> 1, length |-> 1], [path |-> 2, length |-> 0]}
ADocument == \E paths \in SUBSET {1, 2} : input \in [paths -> Texts(Symbols, 3)]

\* Setup scripts of two statements and a call of setup.  A list is told from another by the
\* statement that makes it.
Simple == [kind : {"assign"}, name : Name, from : {"list", "call"} \cup Name, value : {0}]
          \cup [kind : {"call", "inner", "clear"}] \cup [kind : {"bind", "augment"}, name : Name]
          \cup [kind : {"setup"}, name : Name, form : {"name", "attribute", "other"}]
Statement == Simple \cup [kind : Metadata!Guards, body : Simple]
Numbered(s, i) == IF s.kind = "assign" THEN [s EXCEPT !.value = i]
                  ELSE IF s.kind \in Metadata!Guards /\ s.body.kind = "assign"
                       THEN [s EXCEPT !.body.value = i] ELSE s
Calls == {s \in Simple : s.kind = "setup" /\ s.form # "other"}
Scripts == {<<Numbered(s, 1), Numbered(t, 2), call>> :
               s \in Statement, t \in Statement,
               call \in Calls \cup [kind : {"main"}, body : Calls \cup {[kind |-> "call"]}]}
AProgram == input \in Scripts

\* Three files of at most two lines.
Lines(f) == {[kind |-> "requirement", of |-> f]} \cup [kind : {"-r", "-c"}, of : {"f", "g", "h"}]
Inclusions ==
    \E f \in Texts(Lines(1), 2), g \in Texts(Lines(2), 1), h \in Texts(Lines(3), 1) :
        input = [file \in {"f", "g", "h"} |->
                    CASE file = "f" -> f [] file = "g" -> g [] file = "h" -> h]

\* Paths of two directories; three mappings, or two rewrites.
Paths == Texts({1, 2}, 2) \ {<< >>}
Tree == {{<<1, 1>>, <<1, 2>>, <<2, 1>>}, {<<1, 1>>, <<1, 2, 1>>, <<1, 2, 2>>, <<2>>}}
Mapping == [source : Paths, wheel : Paths]
Rewrite == [from : Paths \cup {<< >>}, to : Texts({1, 2}, 1)]
ALayout ==
    \/ \E tree \in Tree, a \in Mapping, b \in Mapping, c \in Mapping :
          input = [kind |-> "mappings", tree |-> tree, mappings |-> {a, b, c}]
    \/ \E tree \in Tree, a \in Rewrite, b \in Rewrite, package \in Paths :
          input = [kind |-> "rewrites", tree |-> tree, rewrites |-> {a, b}, package |-> package]
    \/ \E named \in SUBSET Paths, package \in Paths :
          \E directories \in [named -> {<<1>>, <<3>>}] :
             input = [kind |-> "directories", directories |-> directories, package |-> package]
    \/ input \in [kind : {"selectors"},
                  selectors : Texts({<<3, 1>>, <<3, 2>>, <<3, 1, 0>>, <<3, 1, 1>>, <<3, 2, 0>>}, 3)
                                 \ {<< >>}]
    \/ input \in [kind : {"specifier"}, operator : {"^", "~"}, parts : Texts(0..2, 3) \ {<< >>}]

\* Three sources of two families.
ARoster ==
    \E family \in [1..2 -> {1, 2}], lineage \in [1..3 -> SUBSET {1}],
       partition \in [1..3 -> {"train", "locked_test"}],
       relations \in SUBSET {[left |-> 1, right |-> 2, kind |-> "fork"],
                             [left |-> 2, right |-> 3, kind |-> "fork"],
                             [left |-> 1, right |-> 3, kind |-> "dependency"]},
       locked \in SUBSET (1..3) :
        input = [sources |-> [s \in 1..3 |->
                                 [task |-> s, family |-> IF s = 3 THEN 2 ELSE family[s],
                                  lineage |-> lineage[s], partition |-> partition[s]]],
                 relations |-> relations, locked |-> locked]

\* An episode or two of one task, and each trial with one of two cases, or with both.
APlan ==
    \E cases \in [Study!Arms \X {1, 2} -> {{1}, {2}, {1, 2}}] :
        LET trials == UNION {{[task |-> 1, arm |-> place[1], seed |-> 1, episode |-> place[2],
                               case |-> c] : c \in cases[place]} : place \in DOMAIN cases}
        IN \E some \in SUBSET trials, episodes \in {1, 2} : Cardinality(some) <= 2 * episodes /\
              \E outcome \in [some -> {"resolved", "failed", "invalid"}] :
                 input = [plan |-> [tasks |-> {1}, seeds |-> {1}, episodes |-> episodes,
                                    trials |-> some],
                          outcome |-> outcome]

Ranks == {rank \in [1..4 -> 1..4] : \A i, j \in 1..4 : i # j => rank[i] # rank[j]}
AnAudit ==
    \E population \in [1..4 -> [cell : {1, 2}, bad : BOOLEAN]],
       plan \in Texts([cell : {1, 2}, size : 1..3], 2) \ {<< >>} :
        input = [population |-> population, plan |-> plan]

\* A file that may become a directory, one of a cache, and one outside what may change;
\* a baseline and two exports.
File(d) == [data |-> d, executable |-> FALSE]
FilePaths == {<<"src", "a">>, <<"src", "a", "b">>, <<"src", ".pytest_cache", "README.md">>, <<"doc">>}
TaskTrees == {t \in UNION {[paths -> {File("1"), File("2")}] : paths \in SUBSET FilePaths} :
                /\ Sources!IsTree(t)
                /\ \A p \in DOMAIN t \ {<<"src", "a">>} : t[p] = File("1")}
ASession ==
    \E baseline \in TaskTrees, first \in TaskTrees, second \in TaskTrees,
       forbidden \in {{}, {<<"src", "a", "b">>}} :
        input = [baseline |-> baseline, exports |-> <<first, second>>,
                 rules |-> [roots |-> {<<"src">>}, forbidden |-> forbidden]]

Check(id, visibility) == [kind |-> "public-check", data |-> id, visibility |-> visibility]
APackage ==
    \E paths \in SUBSET {<<"src", "a">>, <<"SRC", "a">>, <<"Reference", "a">>, <<"doc">>},
       unlisted \in {{}, {<<"doc">>}}, checks, examples \in Texts({Check("1", "public"), Check("2", "public"), Check("2", "private")}, 2),
       unclear \in BOOLEAN, screened \in BOOLEAN, verifier \in {1, 2} :
        input = [baseline |-> [p \in paths |-> File("1")], reference |-> << >>,
                 listed |-> paths \ unlisted, checks |-> checks, examples |-> examples,
                 unclear |-> unclear, contract |-> 1, verifier |-> verifier,
                 rules |-> [roots |-> {<<"src">>}, forbidden |-> {}],
                 candidate |-> [assigned |-> TRUE, screened |-> screened, licensed |-> TRUE]]

Output(clean, exit, text) ==
    [clean |-> clean, category |-> IF exit = 0 THEN "none" ELSE "candidate", exit |-> exit,
     reason |-> IF exit = 0 THEN "completed" ELSE "command_failed", text |-> text, size |-> 1]
Outputs == {Output(TRUE, 0, 1), Output(TRUE, 0, 2), Output(TRUE, 1, 1), Output(FALSE, 0, 1)}
AReference ==
    \E modes \in [1..2 -> {"tests", "output"}],
       reference, repeated, baseline \in [1..2 -> Outputs] :
        input = [modes |-> modes, outputs |-> [reference |-> reference, repeated |-> repeated,
                                               baseline |-> baseline]]

\* A long class with two methods, the first of them at one of two places, and a function;
\* and a short file of another language.
Method(name, first, last, calls) ==
    [name |-> name, first |-> first, last |-> last, class |-> FALSE, within |-> {"C"}, calls |-> calls]
Module(line, words, feeds) ==
    [path |-> 1, priority |-> 80, feeds |-> feeds,
     text |-> [i \in 1..24 |-> IF i \in DOMAIN words THEN words[i]
                               ELSE IF i = line THEN {"m", "n"} ELSE {}],
     definitions |-> {[Method("C", 1, 20, {}) EXCEPT !.class = TRUE, !.within = {}],
                      Method("m", line, line + 3, {"n"}), Method("n", 15, 17, {}),
                      [Method("g", 22, 24, {}) EXCEPT !.within = {}]}]
Other == [path |-> 2, priority |-> 0, feeds |-> {}, text |-> <<{"m", "t"}, {}>>, definitions |-> {}]
AnExcerpt ==
    \E line \in {2, 11}, symbols \in SUBSET {"m", "n", "g", "C"}, terms \in {{}, {"t"}},
       feeds \in {{}, {1}}, most \in {<<{}, 1>>, <<{Other}, 1>>, <<{Other}, 2>>}, bytes \in {6, 24} :
        input = [source |-> {Module(line, [i \in {16, 23} |-> {"t"}], feeds)} \cup most[1],
                 asked |-> [symbols |-> symbols, terms |-> terms],
                 bounds |-> [files |-> most[2], lines |-> 8, bytes |-> bytes]]

\* Sources that were made for another baseline, text or place; a proposal of one requirement,
\* a file and an ambiguity.
Held == [baseline |-> "b", discovery |-> "d", request |-> "r", checks |-> {"c"},
         label |-> "historical", source |-> {Other}, texts |-> [a \in {"d", "r", "c"} |-> <<{a}, {"w"}>>],
         installed |-> {"e"}]
Profile == [project |-> "p", entries |-> {"e"}, observables |-> {"o"}, modules |-> {"e"},
            installed |-> {"site"}]
Supplied(of, role, text, label) == Grounding!Source(of, role, of, Grounding!Whole, text, label)
Spans == {Grounding!Source("s", "baseline", "b", [path |-> 2, ranges |-> <<r>>], <<l>>, "existing_obligation") :
             r \in {<<1, 1>>, <<2, 2>>}, l \in {{"m", "t"}, {}}}
Quotes == {<<{"m", "t"}>>, <<{"w"}>>, <<{"c"}>>}
AContract ==
    \E span \in Spans, check \in {Supplied("c", "public_check", <<{"c"}, {"w"}>>, "existing_obligation"),
                                  Supplied("c", "public_check", <<{"w"}>>, "existing_obligation")},
       label \in {"historical", "existing_obligation"}, quote \in Quotes, of \in {"b", "c", "r"},
       site \in {"site", "elsewhere"}, entries \in SUBSET {"e", "f"}, changed \in SUBSET {"x", "y"},
       unresolved \in BOOLEAN :
        LET answer == [project |-> "p", entries |-> {"e"}, observables |-> {"o"},
                       modules |-> [m \in {"e"} |-> site]]
            link == [of |-> of, label |-> label, quote |-> quote,
                     locator |-> IF of = "b" THEN span.locator ELSE Grounding!Whole]
        IN input = [held |-> Held, answer |-> answer,
                    policy |-> [allowed |-> {2}, bytes |-> 8, spans |-> 4],
                    supplied |-> {span, check, Supplied("r", "request", <<{"r"}, {"w"}>>, "historical"),
                                  Supplied("d", "baseline", <<{"d"}, {"w"}>>, "existing_obligation")},
                    inputs |-> [request |-> <<{"r"}, {"w"}>>, label |-> "historical", entries |-> {"e"},
                                observables |-> {"o"}, ids |-> {1, 2}, changes |-> {"x"}],
                    proposal |-> [requirements |-> {[id |-> 1, observable |-> "o", evidence |-> {link}]},
                                  entries |-> entries, changes |-> {"x"},
                                  files |-> {[path |-> x, cites |-> {1}, evidence |-> {link}] : x \in changed},
                                  ambiguities |-> {[unresolved |-> unresolved, evidence |-> {link}]}]]

\* Two operations, of one call or of two, and some archives of the one taken for the other's.
Operation(attempt, call, worth) ==
    [attempt |-> attempt, call |-> call, config |-> attempt, worth |-> worth,
     answer |-> IF worth = "accepted" THEN attempt ELSE 0,
     usage |-> IF worth = "limited" THEN 0 ELSE attempt, run |-> IF worth = "limited" THEN 0 ELSE attempt]
ARecovery ==
    \E calls \in [1..2 -> {1, 2}], worth \in [1..2 -> {"accepted", "failed", "limited"}],
       mixed \in {S \in SUBSET Grounding!Full : Cardinality(S) <= 2}, head, tail \in 1..2 :
        input = [ops |-> [i \in 1..2 |-> Operation(i, calls[i], worth[i])],
                 mixed |-> mixed, head |-> head, tail |-> tail]

Function ==
    \/ route = "history" /\ AHistory
    \/ route = "split" /\ ASplit
    \/ route = "capture of" /\ ACapture
    \/ route = "document" /\ ADocument
    \/ route = "setup.py" /\ AProgram
    \/ route = "requirements" /\ Inclusions
    \/ route = "layout" /\ ALayout
    \/ route = "roster" /\ ARoster
    \/ route = "plan" /\ APlan
    \/ route = "audit" /\ AnAudit
    \/ route = "session" /\ ASession
    \/ route = "package" /\ APackage
    \/ route = "reference" /\ AReference
    \/ route = "excerpt" /\ AnExcerpt
    \/ route = "contract" /\ AContract
    \/ route = "recovery" /\ ARecovery

Init ==
    \/ route = "solve" /\ Solver!Init /\ NoCapture /\ input = 0
    \/ route = "capture" /\ Captured!Init /\ NoSolver /\ input = 0
    \/ Function /\ NoSolver /\ NoCapture /\ page = 0

Next ==
    /\ UNCHANGED <<route, input>>
    /\ \/ route = "solve" /\ Solver!Next /\ UNCHANGED captureOwn
       \/ route = "capture" /\ Captured!Next /\ UNCHANGED solverOwn

Spec == Init /\ [][Next]_vars

--------------------------------------------------------------------------
(* What each part promises. *)

\* environments/candidates.py, catalog.py: the search is exact, and what it froze is what
\* every later use comes to.
ResolutionExact == route = "solve" => Solver!SearchExact /\ Solver!FrozenReproduced

\* intake/prepare.py, github.py, request_document.py, history/git.py: what passes the check
\* was the discussion at one time, and an undisturbed capture passes it; the author of a
\* task reads of it what was known then, word for word; the reference is what the request
\* did.
HistoryIsFair ==
    /\ route = "capture" => Captured!VerifiedIsOneState /\ Captured!CompleteVerifies
    /\ route = "history" => History!ReferenceIsTheRequest(input.graph, input.method, 4,
                                  input.declared[Len(input.declared)], input.declared)
    /\ route = "capture of" => Captured!NoHindsight(input)
    /\ route = "document" => Captured!DocumentKeepsProse(input)

\* environments/inference.py: what is inferred from the declarations is what the program
\* they are written for makes of them: Python, of a script that is Quiet; pip, of requirement
\* files where no "-r" is below a "-c"; the build backends, of layouts and versions.
DeclarationsRead ==
    /\ route = "setup.py" => (Metadata!Quiet(input) => Metadata!InferredIsPassed(input))
    /\ route = "requirements" => \A below \in BOOLEAN :
                                    Metadata!RequirementsAreReached(input, "f", below)
    /\ route = "layout" =>
          CASE input.kind = "mappings" -> Metadata!LayoutKept(input.tree, input.mappings)
            [] input.kind = "rewrites" ->
                  Metadata!RewrittenAsFiles(input.tree, input.rewrites, input.package)
            [] input.kind = "directories" ->
                  Metadata!SourceIsSetuptools(input.directories, input.package)
            [] input.kind = "selectors" ->
                  Metadata!SelectorsAgree(input.selectors, {3} \X {1, 2} \X {0, 1})
            [] input.kind = "specifier" ->
                  Metadata!SpecIsPoetrys(input.operator, input.parts, (0..3) \X (0..3) \X (0..3))

\* environments/inference.py:356 "A call may mutate a previously defined requirements list or
\* kwargs dict. Do not retain that value as static.", of every script, whatever it calls.
ScriptIsInferred == route = "setup.py" => Metadata!InferredIsUnchanged(input)

\* splits/closure.py, evaluation/freeze.py, statistics.py, audits/statistics.py: related
\* sources stay together and nothing leaks into the locked tasks, arms are compared like
\* with like, a sample stands for its population.
StudyIsSound ==
    /\ route = "split" => Study!RelatedTogether(1..4, input.relations, input.requested)
    /\ route = "roster" => Study!LineageFrozen(input)
    /\ route = "plan" => Study!PairsCompareLike(input.plan, input.outcome)
    /\ route = "audit" => Study!SampleRepresents(input.population, input.plan, 6, Ranks)

\* pipeline/context.py, requirements: an author is shown of the baseline what the request is
\* about, a contract rests on what the store shows, and the outcome of a call that was not
\* published is made again of its own archives only.
ContractGrounded ==
    /\ route = "excerpt" =>
          /\ Grounding!ChosenIsKept(input.source, input.asked, input.bounds)
          /\ (\A f \in input.source : f.feeds = {}) =>
                 Grounding!NamedIsWhole(input.source, input.asked, input.bounds)
    /\ route = "contract" =>
          (Grounding!Discovers(Profile, input.answer, "completed") =>
              Grounding!ContractIsGrounded(
                  [discovered |-> Grounding!Discovered(Profile, input.answer, "b")] @@ input.held,
                  input.policy, input.supplied, input.inputs, input.proposal))
    /\ route = "recovery" =>
          Grounding!RecoveredIsTheCalls(1, input.ops, input.mixed, input.head, input.tail)

\* submission, pipeline/packaging.py, verifiers: the baseline a solver gets, the source that
\* is graded and the reference it is graded against are what they were frozen as.
SourceStands ==
    /\ route = "session" => Sources!SubmissionIsSaved(input.baseline, input.exports, input.rules)
    /\ route = "package" => Sources!PackageIsPublic(input)
    /\ route = "reference" => Sources!ReferenceDecides(input.modes, input.outputs)
=============================================================================
