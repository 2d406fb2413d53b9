------------------------------- MODULE Capture -------------------------------
(***************************************************************************)
(* intake/prepare.py and sources.py: the capture of one pull request into  *)
(* a directory, response by response, while the pull request goes on being *)
(* discussed; and the check, without network, of a directory found there.  *)
(* Responses are external; each is retained before it is looked at.  Then  *)
(* what an author may read of a capture, as one document (github.py,       *)
(* request_document.py).                                                   *)
(***************************************************************************)
EXTENDS Naturals, Sequences, FiniteSets, SequencesExt, FiniteSetsExt, TLC

CONSTANTS PageSize,
          MaxPages,
          MaxEvents,      \* comments, removals and reviews during the capture
          MaxRuns         \* calls of prepare_github

VARIABLES comments,       \* comments[v]: the discussion at version v of the pull request
          reviews,        \* listed without a count, and without a new version
          events,
          files,          \* the responses in the directory: name to body
          manifest,       \* the names sources.tsv lists with their digests, or {}
          prepared,       \* prepared.json: absent, torn or written
          damaged,        \* a response was changed after it was written
          step, page, runs,
          verdict         \* of the last check of a directory found there

server == <<comments, reviews, events>>
disk == <<files, manifest, prepared, damaged>>
vars == <<server, disk, step, page, runs, verdict>>

Init ==
    /\ comments \in {<<c>> : c \in {<< >>, <<1>>, <<1, 2>>, <<1, 2, 3>>}}
    /\ reviews \in {<< >>, <<1, 2>>}
    /\ events = 0
    /\ files = << >> /\ manifest = {} /\ prepared = "absent" /\ damaged = FALSE
    /\ step = "idle" /\ page = 1 /\ runs = 0 /\ verdict = "none"

--------------------------------------------------------------------------
(* The pull request; external. *)

Version == Len(comments)
Fresh == events + 10

Comment == comments' = Append(comments, Append(Last(comments), Fresh)) /\ UNCHANGED reviews
Withdraw == /\ Last(comments) # << >>
            /\ comments' = Append(comments, Tail(Last(comments)))
            /\ UNCHANGED reviews
Review == reviews' = Append(reviews, Fresh) /\ UNCHANGED comments

Event ==
    /\ events < MaxEvents /\ events' = events + 1
    /\ Comment \/ Withdraw \/ Review
    /\ UNCHANGED <<disk, step, page, runs, verdict>>

--------------------------------------------------------------------------
(* Responses. *)

CeilDiv(n, d) == (n + d - 1) \div d
Page(list, i) == SubSeq(list, (i - 1) * PageSize + 1,
                        IF i * PageSize < Len(list) THEN i * PageSize ELSE Len(list))

PullRequest == [version |-> Version, count |-> Len(Last(comments))]

\* What is answered for a name.
Answer(name) ==
    CASE name[1] \in {"pr", "confirmed"} -> PullRequest
      [] name[1] = "license" -> "license"
      [] name[1] = "comments" -> Page(Last(comments), name[2])
      [] name[1] = "reviews" -> Page(reviews, name[2])

ArrayNames(array) == {n \in DOMAIN files : n \in {array} \X (1..MaxPages)}
Read(array) == [i \in 1..Cardinality(ArrayNames(array)) |-> files[<<array, i>>]]
All(array) == FlattenSeq(Read(array))

\* The pages of an array of so many items: at least one.
PagesOf(count) == IF count = 0 THEN 1 ELSE CeilDiv(count, PageSize)

Count == files[<<"pr", 1>>].count
Distinct(list) == Cardinality(Range(list)) = Len(list)

\* Mutant: the confirmation compares the counts and not the version.
SameCount == files[<<"pr", 1>>].count = files[<<"confirmed", 1>>].count

\* _confirm_subjects: nothing of the pull request changed since it was first read.
Confirmed == files[<<"pr", 1>>] = files[<<"confirmed", 1>>]

--------------------------------------------------------------------------
(* prepare_github: one capture. *)

Leave == step' = "idle" /\ page' = 1

\* A call raises: what it wrote stays.
Raise == Leave /\ UNCHANGED <<server, disk, runs, verdict>>

\* A response under its deadline and byte caps, in a file of its own before it is looked
\* at; or none.
Get(name, accepted, nextStep, nextPage) ==
    \/ /\ files' = (name :> Answer(name)) @@ files
       /\ IF accepted THEN step' = nextStep /\ page' = nextPage ELSE Leave
       /\ UNCHANGED <<server, manifest, prepared, damaged, runs, verdict>>
    \/ Raise

Start ==
    /\ step = "idle" /\ runs < MaxRuns
    /\ files = << >> /\ prepared = "absent" /\ runs = 0
    /\ runs' = runs + 1 /\ step' = "pr" /\ page' = 1
    /\ UNCHANGED <<server, disk, verdict>>

FetchPullRequest ==
    /\ step = "pr"
    /\ Get(<<"pr", 1>>, PullRequest.count <= MaxPages * PageSize, "comments", 1)

\* The count says how many items each page must have.
FetchComments ==
    /\ step = "comments"
    /\ LET body == Answer(<<"comments", page>>)
           left == Count - Len(All("comments"))
           last == page = PagesOf(Count)
       IN Get(<<"comments", page>>,
              /\ Len(body) = (IF left < PageSize THEN left ELSE PageSize)
              /\ last => Distinct(All("comments") \o body),
              IF last THEN "reviews" ELSE "comments", IF last THEN 1 ELSE page + 1)

\* Without a count, the first page that is not full is the last.
FetchReviews ==
    /\ step = "reviews"
    /\ LET body == Answer(<<"reviews", page>>)
           last == Len(body) < PageSize
       IN Get(<<"reviews", page>>,
              IF last THEN Distinct(All("reviews") \o body) ELSE page < MaxPages,
              IF last THEN "confirm" ELSE "reviews", IF last THEN 1 ELSE page + 1)

Confirm ==
    /\ step = "confirm"
    /\ Get(<<"confirmed", 1>>, TRUE, "compare", 1)

Compare ==
    /\ step = "compare"
    /\ IF Confirmed THEN step' = "license" /\ UNCHANGED page ELSE Leave
    /\ UNCHANGED <<server, disk, runs, verdict>>

\* The commits are fetched, and must tell the same history; then the license.
License ==
    /\ step = "license"
    /\ Get(<<"license", 1>>, TRUE, "manifest", 1)

WriteManifest ==
    /\ step = "manifest"
    /\ manifest' = DOMAIN files /\ step' = "prepared"
    /\ UNCHANGED <<server, files, prepared, damaged, page, runs, verdict>>

\* The last file is what makes the directory a capture.
WritePrepared ==
    /\ step = "prepared"
    /\ prepared' \in {"written", "torn"} /\ Leave
    /\ UNCHANGED <<server, files, manifest, damaged, runs, verdict>>

Crash == step # "idle" /\ Raise

--------------------------------------------------------------------------
(* A directory found there. *)

Damage ==
    /\ step = "idle" /\ files # << >> /\ ~damaged
    /\ damaged' = TRUE
    /\ UNCHANGED <<server, files, manifest, prepared, step, page, runs, verdict>>

Full(array, i) == Len(files[<<array, i>>]) = PageSize

\* Mutant: nothing has no page.
FillsExactly(n, count) == n = CeilDiv(count, PageSize)

Fills(n, count) == n = IF count = 0 THEN 1 ELSE CeilDiv(count, PageSize)

\* _verify: every response is listed with its digest, none is missing, the pages are
\* full but the last, their number fits the count, and the subjects are confirmed.
Verified ==
    /\ prepared = "written" /\ ~damaged
    /\ manifest = DOMAIN files
    /\ LET n == Cardinality(ArrayNames("comments"))
           m == Cardinality(ArrayNames("reviews"))
       IN /\ manifest = ({"pr", "confirmed", "license"} \X {1}) \cup
                        ({"comments"} \X (1..n)) \cup ({"reviews"} \X (1..m))
          /\ n <= MaxPages /\ m <= MaxPages
          /\ Count <= MaxPages * PageSize
          /\ Fills(n, Count) /\ Len(All("comments")) = Count
          /\ \A i \in 1..(n - 1) : Full("comments", i)
          /\ \A i \in 1..m : Full("reviews", i) <=> i < m
          /\ Distinct(All("comments")) /\ Distinct(All("reviews"))
    /\ Confirmed

Check ==
    /\ step = "idle" /\ runs \in 1..(MaxRuns - 1)
    /\ runs' = runs + 1
    /\ verdict' = IF prepared = "absent" THEN "incomplete"
                  ELSE IF Verified THEN "verified" ELSE "refused"
    /\ UNCHANGED <<server, disk, step, page>>

Next ==
    \/ Event \/ Start \/ FetchPullRequest \/ FetchComments \/ FetchReviews \/ Confirm
    \/ Compare \/ License \/ WriteManifest \/ WritePrepared \/ Crash \/ Damage \/ Check

Spec == Init /\ [][Next]_vars

--------------------------------------------------------------------------
(* Properties. *)

\* Whatever passes the check (prepare.py _verify) is the whole discussion as it was at
\* one version of the pull request, although its pages were read one by one while it
\* changed.
VerifiedIsOneState ==
    verdict = "verified" => All("comments") = comments[files[<<"pr", 1>>].version]

\* A capture that ran to its end and was left alone always passes the check: the
\* capture and the check, written twice, agree.
CompleteVerifies == (prepared = "written" /\ ~damaged) => Verified

--------------------------------------------------------------------------
(* github.py: chronology.  A capture is [label, cutoff, started, merged,   *)
(* recorded, retrieved, items]: retrieved[s] is when source s was fetched, *)
(* an item [source, created, updated] is a text of it.                     *)

Chronological(c) ==
    /\ c.cutoff <= c.started /\ c.started <= c.merged
    /\ c.merged <= c.retrieved["pr"]
    /\ \A s \in DOMAIN c.retrieved : c.retrieved[s] <= c.recorded

Contradictory(c, item) == item.updated < item.created \/ item.updated > c.retrieved[item.source]

\* Mutant: an old text counts however late it was fetched.
AdmissibleByUpdate(c, item) ==
    c.label = "historical_request" => item.updated <= c.cutoff

\* A historical request holds only what had been fetched by the cutoff.
Admissible(c, item) ==
    c.label = "historical_request" =>
        item.updated <= c.retrieved[item.source] /\ c.retrieved[item.source] <= c.cutoff

\* The request: the texts, the paths, and whether commits and history go with them.
Request(c) == [texts |-> {i \in c.items : Admissible(c, i)},
               implementation |-> c.label # "historical_request"]

Ingested(c) ==
    /\ Chronological(c)
    /\ \A i \in c.items : ~Contradictory(c, i)
    /\ c.label = "historical_request" => Request(c).texts # {}

\* Nothing an author reads of a historical request (github.py _request_payload) was
\* written, edited or even fetched once the implementation had begun, and no commit of
\* it is shown.
NoHindsight(c) ==
    (Ingested(c) /\ c.label = "historical_request") =>
        /\ ~Request(c).implementation
        /\ \A i \in Request(c).texts :
              i.updated <= c.started /\ c.retrieved[i.source] <= c.started

--------------------------------------------------------------------------
(* request_document.py: a document is a sequence of symbols.  A header is  *)
(* a symbol [path, length]; prose is any sequence of symbols, those of     *)
(* headers and newlines included.                                          *)

Newline == [path |-> 0, length |-> 0]
Header(path, text) == [path |-> path, length |-> Len(text)]

\* A payload gives some paths a text; paths have an order.
Sections(payload) == SetToSortSeq(DOMAIN payload, LAMBDA p, q : p < q)

Render(payload) ==
    <<Sections(payload)>> \o FlattenSeq([i \in DOMAIN Sections(payload) |->
        LET p == Sections(payload)[i]
        IN <<Header(p, payload[p])>> \o payload[p] \o <<Newline>>])

\* Mutant: a section ends at its first newline.
EndAtNewline(document, offset) ==
    Min({i \in offset..Len(document) : document[i] = Newline} \cup {Len(document) + 1})

\* Where the text of the section whose header is before offset ends.
End(document, offset) == offset + document[offset - 1].length

\* The document from offset on, for the paths still to come; << >> when it is malformed.
Malformed == [ok |-> FALSE, payload |-> << >>]

Parse(document) ==
    LET paths == document[1]
        read[i \in 0..Len(paths)] ==
            IF i = 0 THEN [ok |-> TRUE, offset |-> 2, texts |-> << >>]
            ELSE LET before == read[i - 1]
                     start == before.offset + 1
                     stop == End(document, start)
                 IN IF ~before.ok \/ before.offset > Len(document)
                       \/ document[before.offset].path # paths[i] \/ stop > Len(document)
                       \/ document[stop] # Newline
                    THEN [before EXCEPT !.ok = FALSE]
                    ELSE [ok |-> TRUE, offset |-> stop + 1,
                          texts |-> Append(before.texts, SubSeq(document, start, stop - 1))]
        last == read[Len(paths)]
        payload == [p \in Range(paths) |-> last.texts[CHOOSE i \in DOMAIN paths : paths[i] = p]]
    IN IF last.ok /\ last.offset = Len(document) + 1 /\ Render(payload) = document
       THEN [ok |-> TRUE, payload |-> payload] ELSE Malformed

\* A request document (request_document.py) gives back every text as it was, whatever
\* the text quotes, headers of the document itself included.
DocumentKeepsProse(payload) == Parse(Render(payload)) = [ok |-> TRUE, payload |-> payload]
=============================================================================
