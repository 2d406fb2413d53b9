------------------------------ MODULE Grounding ------------------------------
(***************************************************************************)
(* What the author of a contract is shown and what the contract may rest   *)
(* on: the excerpts of the baseline (pipeline/context.py), their retrieval *)
(* from its archive (requirements/retrieval.py), the evidence made of them *)
(* again from the store (evidence.py), the discovery of what is installed  *)
(* (runtime_discovery.py), the contract (finalize.py), and the outcome of  *)
(* a model's call made of its archives again (requirements/service.py).    *)
(*                                                                         *)
(* A line is the set of its words; a text a sequence of lines.  What       *)
(* may be refused is a set: of one element, or empty when it is refused.   *)
(***************************************************************************)
EXTENDS Integers, Sequences, FiniteSets, SequencesExt, FiniteSetsExt, TLC

(* A file is [path, priority, text, feeds, definitions]: feeds are those lines of its text
   that are a form feed; a definition is [first, last, name, within, class, calls], its lines
   counted as Python's parser counts them, which is as text does. *)

\* str.splitlines: a form feed ends a line, and so does the end of its line.
Lines(file) ==
    FlattenSeq([i \in DOMAIN file.text |-> IF i \in file.feeds THEN <<{}, {}>> ELSE <<file.text[i]>>])

Words(lines, range) == UNION {lines[i] : i \in range[1]..range[2]}
Height(ranges) == MapThenSumSet(LAMBDA r : r[2] - r[1] + 1, ToSet(ranges))
Excerpt(lines, ranges) ==
    FlattenSeq([i \in DOMAIN ranges |-> SubSeq(lines, ranges[i][1], ranges[i][2])])
Bytes(text) == Len(text) + FoldLeft(LAMBDA sum, line : sum + Cardinality(line), 0, text)

--------------------------------------------------------------------------
(* select_source_spans: candidates, and the choice among them. *)

Candidate(file, range, priority, relevance) ==
    [path |-> file.path, range |-> range, priority |-> priority, relevance |-> relevance]

\* The elements of a set in a strict order of them.
Ordered(S, before(_, _)) ==
    [k \in 1..Cardinality(S) |-> CHOOSE x \in S : Cardinality({y \in S : before(y, x)}) = k - 1]

Least(a, b) == IF a < b THEN a ELSE b
Greatest(a, b) == IF a < b THEN b ELSE a

\* A function the request names, what such a function calls, a member of what the request
\* names, a body with such a name in it.
Related(file, asked) ==
    UNION {d.calls : d \in {e \in file.definitions : ~e.class /\ e.name \in asked.symbols}}

Worth(d, file, asked) ==
    file.priority + (IF d.name \in asked.symbols THEN IF d.class THEN 2400 ELSE 3000
                     ELSE IF d.name \in Related(file, asked) THEN 1900
                     ELSE IF d.within \cap asked.symbols # {} THEN 1200
                     ELSE IF Words(Lines(file), <<d.first, d.last>>) \cap asked.symbols # {} THEN 1000
                     ELSE 0)

\* What is longer than two windows shows its first lines, for less.
Definition(d, file, asked, bounds) ==
    LET whole == d.last - d.first + 1 <= 2 * bounds.lines
        worth == Worth(d, file, asked)
    IN  Candidate(file,
            <<d.first, IF whole THEN d.last ELSE Least(d.last, d.first + Least(bounds.lines, 48) - 1)>>,
            IF whole THEN worth ELSE Least(worth, 1800 + file.priority),
            Cardinality(asked.terms \cap Words(Lines(file), <<d.first, d.last>>)))

\* Windows about the lines with most of the request's terms, half a window apart.
Starts(lines, asked, bounds) ==
    LET score(i) == Cardinality(asked.terms \cap lines[i])
        centers == Ordered(DOMAIN lines,
                       LAMBDA i, j : score(i) > score(j) \/ (score(i) = score(j) /\ i < j))
        start(i) == Greatest(0, Least(i - 1 - bounds.lines \div 2, Len(lines) - bounds.lines))
    IN  FoldLeft(LAMBDA starts, i :
                     IF \/ Cardinality(starts) >= 8
                        \/ \E s \in starts : start(i) - s \in (1 - bounds.lines \div 2)..(bounds.lines \div 2 - 1)
                     THEN starts ELSE starts \cup {start(i)},
                 {}, centers)

Windows(file, asked, bounds) ==
    LET lines == Lines(file)
        range(s) == <<s + 1, Least(Len(lines), s + bounds.lines)>>
    IN  {Candidate(file, range(s), file.priority, Cardinality(asked.terms \cap Words(lines, range(s)))) :
            s \in Starts(lines, asked, bounds)}

Candidates(source, asked, bounds) ==
    UNION {{Definition(d, f, asked, bounds) : d \in f.definitions} \cup Windows(f, asked, bounds) :
              f \in {g \in source : g.text # << >>}}

\* By priority, relevance, length, path and place.
Before(a, b) ==
    LET key(c) == <<-c.priority, -c.relevance, c.range[2] - c.range[1], c.path, c.range[1], c.range[2]>>
    IN  \E k \in 1..6 : key(a)[k] < key(b)[k] /\ \A m \in 1..(k - 1) : key(a)[m] = key(b)[m]

InOrder(ranges) == Ordered(ranges, LAMBDA a, b : a[1] < b[1] \/ (a[1] = b[1] /\ a[2] < b[2]))

\* Mutant: of two ranges that meet, the later ends both.
JoinedToLater(a, b) == <<a[1], b[2]>>

Joined(a, b) == <<a[1], Greatest(a[2], b[2])>>

\* _merge: ranges that overlap, or have a line or less between them.
Merged(ranges) ==
    FoldLeft(LAMBDA done, r : IF done # << >> /\ r[1] <= Last(done)[2] + 2
                              THEN Append(Front(done), Joined(Last(done), r)) ELSE Append(done, r),
             << >>, InOrder(ranges))

FileOf(source, path) == CHOOSE f \in source : f.path = path
Size(source, selected) ==
    MapThenSumSet(LAMBDA p : Bytes(Excerpt(Lines(FileOf(source, p)), selected[p])), DOMAIN selected)

\* A candidate is taken, and joined with what is taken of its file, when all bounds allow.
Taken(source, selected, c, bounds) ==
    LET previous == IF c.path \in DOMAIN selected THEN selected[c.path] ELSE << >>
        ranges == Merged(ToSet(previous) \cup {c.range})
        larger == (c.path :> ranges) @@ selected
    IN  IF /\ c.path \in DOMAIN selected \/ Cardinality(DOMAIN selected) < bounds.files
           /\ ranges # previous /\ Len(ranges) <= 4 /\ Height(ranges) <= 2 * bounds.lines
           /\ Size(source, larger) <= bounds.bytes
        THEN larger ELSE selected

\* One request for each file; none at all is refused.
Select(source, asked, bounds) ==
    LET selected == FoldLeft(LAMBDA chosen, c : Taken(source, chosen, c, bounds), << >>,
                             Ordered(Candidates(source, asked, bounds), Before))
    IN  {[id |-> p, path |-> p, ranges |-> selected[p]] : p \in DOMAIN selected}

--------------------------------------------------------------------------
(* Retrieval, and the evidence made again. *)

\* RetrievalRequest: its ranges are in order and apart.
Valid(request) ==
    /\ request.ranges # << >>
    /\ \A i \in DOMAIN request.ranges :
          LET r == request.ranges[i] IN
          r[1] >= 1 /\ r[1] <= r[2] /\ (i > 1 => request.ranges[i - 1][2] < r[1])

\* RetrievalPolicy, as FeatureWorkflow._sources makes it of what was selected.
PolicyFor(requests, bounds) ==
    [allowed |-> {q.path : q \in requests}, bytes |-> bounds.bytes, spans |-> 4 * bounds.files]

Source(id, role, of, locator, text, label) ==
    [id |-> id, role |-> role, of |-> of, locator |-> locator, text |-> text, label |-> label]

\* BaselineRetriever.retrieve: all of the requests, or nothing.
Retrieve(policy, baseline, source, requests) ==
    LET text(q) == Excerpt(Lines(FileOf(source, q.path)), q.ranges)
    IN  IF /\ requests # {} /\ \A q \in requests : Valid(q)
           /\ \A q, s \in requests : q.id = s.id => q = s
           /\ MapThenSumSet(LAMBDA q : Len(q.ranges), requests) <= policy.spans
           /\ \A q \in requests : /\ q.path \in policy.allowed /\ \E f \in source : f.path = q.path
                                  /\ Last(q.ranges)[2] <= Len(Lines(FileOf(source, q.path)))
           /\ MapThenSumSet(LAMBDA q : Bytes(text(q)), requests) <= policy.bytes
        THEN {{Source(q.id, "baseline", baseline, [path |-> q.path, ranges |-> q.ranges], text(q),
                      "existing_obligation") : q \in requests}}
        ELSE {}

Whole == [path |-> 0, ranges |-> << >>]        \* a locator of all of an artifact

\* resolve: what the store shows of the artifact that a source names.  held is what it holds:
\* [baseline, discovery, request, checks, label, source, discovered, texts].
Expected(held, s) ==
    IF s.of = held.request
    THEN {Source(s.id, "request", s.of, Whole, held.texts[s.of], held.label)}
    ELSE IF s.of = held.discovery
    THEN {Source(s.id, "baseline", s.of, Whole, held.texts[s.of], "existing_obligation") :
             b \in {held.discovered.baseline} \cap {held.baseline}}
    ELSE {Source(s.id, "public_check", s.of, Whole, held.texts[s.of], "existing_obligation") :
             c \in {s.of} \cap held.checks}

SameSources(supplied, canonical) == supplied = canonical

\* AuthoringEvidenceResolver.resolve: supplied is the set of the sources, each made again
\* from the store and compared.
Resolves(held, policy, supplied) ==
    LET spans == {s \in supplied : s.of = held.baseline}
        requests == {[id |-> s.id, path |-> s.locator.path, ranges |-> s.locator.ranges] : s \in spans}
        retrieved == IF spans = {} THEN {{}} ELSE Retrieve(policy, held.baseline, held.source, requests)
    IN  /\ supplied # {} /\ \A s, t \in supplied : s.id = t.id => s = t
        /\ \A s \in supplied \ spans : Expected(held, s) # {}
        /\ \E again \in retrieved :
              SameSources(supplied, again \cup UNION {Expected(held, s) : s \in supplied \ spans})

--------------------------------------------------------------------------
(* ContractFinalizer.finalize. *)

\* _catalog: one source for each artifact and place.
Catalogued(sources) ==
    \A s, t \in sources : s.id = t.id \/ (s.of = t.of /\ s.locator = t.locator) => s = t

Holds(text, quote) == \E i \in 0..(Len(text) - Len(quote)) : SubSeq(text, i + 1, i + Len(quote)) = quote

\* validate_link.
Links(link, sources) ==
    \E s \in sources : /\ s.of = link.of /\ s.locator = link.locator
                       /\ s.label = link.label /\ Holds(s.text, link.quote)

\* A requirement is [id, entry, observable, evidence], a feature file [path, cites, evidence].
Finalizes(held, inputs, sources, proposal) ==
    LET ids == {r.id : r \in proposal.requirements}
        request == {s \in sources : s.role = "request"}
    IN  /\ Catalogued(sources)
        /\ Cardinality(request) = 1
        /\ \A s \in request : s.text = inputs.request /\ s.label = inputs.label
        /\ Cardinality({s \in sources : s.of = held.discovery}) = 1
        /\ inputs.entries \subseteq held.discovered.entries
        /\ inputs.observables \subseteq held.discovered.observables
        /\ Cardinality(ids) = Cardinality(proposal.requirements) /\ ids \subseteq inputs.ids
        /\ proposal.entries \subseteq inputs.entries /\ proposal.changes = inputs.changes
        /\ \A r \in proposal.requirements :
              r.observable \in inputs.observables /\ \A e \in r.evidence : Links(e, sources)
        /\ \A f, g \in proposal.files : f.path = g.path => f = g
        /\ \A f \in proposal.files :
              /\ f.path \in inputs.changes /\ f.cites \subseteq ids
              /\ \A e \in f.evidence : Links(e, sources)
        /\ \A a \in proposal.ambiguities : ~a.unresolved /\ \A e \in a.evidence : Links(e, sources)
--------------------------------------------------------------------------
(* RuntimeDiscoveryService.discover: what the installed baseline answers. *)

\* The answer is of a run that ended well, and is the profile's in every part; what was
\* imported is of the modules that the profile installs.
Discovers(profile, answer, ended) ==
    /\ ended = "completed"
    /\ answer.project = profile.project /\ answer.entries = profile.entries
    /\ answer.observables = profile.observables
    /\ DOMAIN answer.modules = profile.modules
    /\ \A m \in profile.modules : answer.modules[m] \in profile.installed

Discovered(profile, answer, baseline) ==
    [baseline |-> baseline, entries |-> answer.entries, observables |-> answer.observables]

--------------------------------------------------------------------------
(* The archives of a call of the model (generation/provider.py), and the outcome that is
   made of them when it was not published (validate_recovered_generation).  An operation is
   [attempt, call, config, worth, answer, usage, run]: call is its request and schema, run
   what the process was seen to do. *)

\* What each archive shows of its operation.
Shows == [attempt |-> {"attempt", "call"}, request |-> {"call"}, retrieval |-> {"call"},
          schema |-> {"call"}, options |-> {"call", "config"}, provenance |-> {"call", "config"},
          usage |-> {"worth", "usage"}, cost |-> {"usage", "run"}, events |-> {"answer", "usage"},
          response |-> {"answer", "run"}]
Full == DOMAIN Shows
BeforeExecution == {"attempt", "cost"}

\* An operation that its limits refuse never runs.
Archives(op) ==
    [n \in IF op.worth = "limited" THEN BeforeExecution ELSE Full |-> [f \in Shows[n] |-> op[f]]]

\* The outcome that a call returns or raises, its status naming all other archives.
Outcome(op, archives) ==
    [attempt |-> op.attempt, worth |-> op.worth, answer |-> op.answer, usage |-> op.usage,
     run |-> op.run, archives |-> archives,
     status |-> [attempt |-> op.attempt, worth |-> op.worth, refs |-> Archives(op)]]

Names(status, outcome) ==
    /\ status.attempt = outcome.attempt /\ status.worth = outcome.worth
    /\ status.refs = outcome.archives

Recovers(call, outcome) ==
    LET a == outcome.archives IN
    /\ DOMAIN a \in {Full, BeforeExecution}
    /\ a["attempt"].attempt = outcome.attempt /\ a["attempt"].call = call
    /\ Names(outcome.status, outcome)
    /\ a["cost"].usage = outcome.usage /\ a["cost"].run = outcome.run
    /\ IF DOMAIN a = BeforeExecution
       THEN outcome.worth = "limited" /\ outcome.usage = 0 /\ outcome.run = 0 /\ outcome.answer = 0
       ELSE /\ outcome.worth \in {"accepted", "failed"}
            /\ \A n \in {"request", "schema", "retrieval"} : a[n].call = call
            /\ a["usage"].worth = outcome.worth /\ a["usage"].usage = outcome.usage
            /\ outcome.worth = "accepted" => a["events"].answer = outcome.answer
                                             /\ a["events"].usage = outcome.usage
            /\ outcome.answer # 0 => a["response"].answer = outcome.answer

--------------------------------------------------------------------------
(* Properties. *)

\* What is chosen of the baseline the retrieval gives, within every bound, and it is found
\* again from its locators; and no line that was taken for its worth is given up for what
\* comes after it (pipeline/context.py:150).
ChosenIsKept(source, asked, bounds) ==
    LET requests == Select(source, asked, bounds)
        policy == PolicyFor(requests, bounds)
        ordering == Ordered(Candidates(source, asked, bounds), Before)
        lines(selected, p) == IF p \in DOMAIN selected
                              THEN UNION {r[1]..r[2] : r \in ToSet(selected[p])} ELSE {}
        steps == FoldLeft(LAMBDA done, c : Append(done, Taken(source, Last(done), c, bounds)),
                          <<<< >>>>, ordering)
    IN  /\ requests # {} => \E again \in Retrieve(policy, 1, source, requests) :
                              \A s \in again : Bytes(s.text) <= bounds.bytes
        /\ \A k \in DOMAIN ordering, f \in source :
              lines(steps[k], f.path) \subseteq lines(steps[k + 1], f.path)

\* The one function that the request names is shown whole, as it is written, when it fits
\* (context.py:4 "keep complete small methods").
NamedIsWhole(source, asked, bounds) ==
    LET named == UNION {{<<f, d>> : d \in {e \in f.definitions : ~e.class /\ e.name \in asked.symbols}} :
                           f \in source}
        requests == Select(source, asked, bounds)
    IN  \A one \in named :
            LET written == SubSeq(one[1].text, one[2].first, one[2].last) IN
            /\ Cardinality(named) = 1 /\ Len(written) <= 2 * bounds.lines
            /\ Bytes(written) <= bounds.bytes
            => \E q \in requests : q.path = one[1].path
                                   /\ Holds(Excerpt(Lines(one[1]), q.ranges), written)

\* A contract rests on what the store shows: its request is the one on record, every quote is
\* in the artifact and at the place it is said to be from, every entry point is one that the
\* installed baseline answered for (requirements/evidence.py:77, finalize.py:46).
ContractIsGrounded(held, policy, supplied, inputs, proposal) ==
    LET evidence == UNION {r.evidence : r \in proposal.requirements \cup proposal.files
                                                \cup proposal.ambiguities}
    IN  Resolves(held, policy, supplied) /\ Finalizes(held, inputs, supplied, proposal) =>
            /\ inputs.request = held.texts[held.request]
            /\ proposal.entries \subseteq held.installed
            /\ \A e \in evidence :
                  Holds(IF e.of = held.baseline
                        THEN Excerpt(Lines(FileOf(held.source, e.locator.path)), e.locator.ranges)
                        ELSE held.texts[e.of], e.quote)

\* What a call left in its archives is recovered; what is recovered is of one operation, all
\* its archives and its answer with it (requirements/service.py:76).
RecoveredIsTheCalls(call, ops, mixed, head, tail) ==
    LET outcome == [Outcome(ops[head], [n \in DOMAIN Archives(ops[head]) |->
                        IF n \in mixed /\ n \in DOMAIN Archives(ops[3 - head])
                        THEN Archives(ops[3 - head])[n] ELSE Archives(ops[head])[n]])
                       EXCEPT !.answer = ops[tail].answer, !.usage = ops[tail].usage]
    IN  /\ mixed = {} /\ head = tail /\ ops[head].call = call => Recovers(call, outcome)
        /\ Recovers(call, outcome) => /\ outcome.archives = Archives(ops[head])
                                      /\ ops[head].call = call
                                      /\ outcome.worth = "accepted" => outcome.answer = ops[head].answer
=============================================================================
