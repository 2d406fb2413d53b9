------------------------------ MODULE HostProofs ------------------------------
(***************************************************************************)
(* What each part of MCHost promises, for any processes, artifacts, cases, *)
(* images and bounds.  A part has an inductive invariant of its own,       *)
(* which holds while the route is the part's.                              *)
(***************************************************************************)
EXTENDS MCHost, Integers, Sequences, SequenceTheorems, TLAPS

(***************************************************************************)
(* The artifact store                                                      *)
(***************************************************************************)

\* A name that is given stands for whole content, which may be shown; a put whose file is
\* linked has its name, and one that is done has it for good.
StoreInv ==
    /\ put \in [Process -> Artifact \cup {Nothing}]
    /\ file \in [Process -> {"none", "written", "synced", "linked", "done"}]
    /\ named \in [Artifact -> {"absent", "whole"}]
    /\ durable \subseteq {a \in Artifact : named[a] = "whole"}
    /\ returned \subseteq durable
    /\ \A a \in Artifact : named[a] = "whole" => Store!Exposed(a)
    /\ \A p \in Process :
          /\ file[p] # "none" => put[p] \in Artifact /\ Store!Exposed(put[p])
          /\ file[p] \in {"linked", "done"} => named[put[p]] = "whole"
          /\ file[p] = "done" => put[p] \in durable
    /\ Store!ReadAsAllowed

\* A write is linked only when it is durable, so a name never shows less than all of it
\* (artifacts/store.py, _put).
LEMMA StoreWrites ==
    ASSUME StoreInv, NEW p \in Process, Store!Step(p)
    PROVE  StoreInv'
<1>1. CASE \E role \in Store!Role, a \in Artifact : Store!Put(p, role, a)
  BY <1>1 DEF StoreInv, Store!Put, Store!Exposed, Store!ReadAsAllowed
<1>2. CASE Store!Fsync(p)
  BY <1>2 DEF StoreInv, Store!Fsync, Store!Exposed, Store!ReadAsAllowed
<1>3. CASE Store!Link(p)
  <2>1. file[p] = "synced" /\ put[p] \in Artifact /\ Store!Exposed(put[p])
    BY <1>3 DEF StoreInv, Store!Link, Store!Linkable
  <2>2. named' = [named EXCEPT ![put[p]] = "whole"]
    BY <1>3, <2>1 DEF Store!Link
  <2> QED BY <1>3, <2>1, <2>2 DEF StoreInv, Store!Link, Store!Exposed, Store!ReadAsAllowed
<1>4. CASE Store!Find(p)
  BY <1>4 DEF StoreInv, Store!Find, Store!Linkable, Store!WhenFound, Store!Exposed, Store!ReadAsAllowed
<1>5. CASE Store!SyncDirectory(p)
  BY <1>5 DEF StoreInv, Store!SyncDirectory, Store!Exposed, Store!ReadAsAllowed
<1>6. CASE Store!Return(p)
  BY <1>6 DEF StoreInv, Store!Return, Store!Exposed, Store!ReadAsAllowed
<1>7. CASE Store!Crash(p)
  BY <1>7 DEF StoreInv, Store!Crash, Store!Exposed, Store!ReadAsAllowed
<1> QED BY <1>1, <1>2, <1>3, <1>4, <1>5, <1>6, <1>7 DEF Store!Step

\* What a role reads is in its access list, and so is what it may follow from there
\* (artifacts/store.py, _get, _check_exposure).
LEMMA StoreReads ==
    ASSUME StoreInv, NEW role \in Store!Role, NEW r \in Store!Ref, Store!Get(role, r)
    PROVE  StoreInv'
<1>1. /\ r.to \in Artifact /\ named[r.to] = "whole" /\ Store!Exposed(r.to)
      /\ VisibilityOf[r.to] \in Store!ACCESS[role]
      /\ got' = [by |-> role, of |-> r.to]
  BY DEF StoreInv, Store!Get, Store!Matches, Store!Ref
<1>2. role \in {"solver", "author"} => \A o \in RefsOf[r.to] : o.as \in Store!ACCESS[role]
  BY <1>1 DEF Store!ACCESS, Store!Exposed, Store!Role
<1>3. Store!ReadAsAllowed'
  BY <1>1, <1>2 DEF Store!ReadAsAllowed
<1> QED BY <1>3 DEF StoreInv, Store!Get, Store!Exposed

\* Power fails: a name whose directory was synced stays, and no content is only cached.
LEMMA StoreLosesPower == StoreInv /\ Store!PowerLoss => StoreInv'
<1> SUFFICES ASSUME StoreInv, Store!PowerLoss PROVE StoreInv' OBVIOUS
<1>1. PICK lost \in SUBSET {a \in Artifact : named[a] # "absent" /\ a \notin durable} :
          named' = [a \in Artifact |-> IF a \in lost THEN "absent"
                                       ELSE IF named[a] = "cached" THEN "torn" ELSE named[a]]
  BY DEF Store!PowerLoss
<1>2. \A a \in Artifact : named'[a] = IF a \in lost THEN "absent" ELSE named[a]
  BY <1>1 DEF StoreInv
<1>3. /\ named' \in [Artifact -> {"absent", "whole"}]
      /\ \A a \in Artifact : named'[a] = "whole" => named[a] = "whole"
      /\ \A a \in durable : named'[a] = "whole"
  BY <1>1, <1>2 DEF StoreInv
<1>4. returned' \subseteq durable' /\ durable' \subseteq {a \in Artifact : named'[a] = "whole"}
  BY <1>3 DEF StoreInv, Store!PowerLoss
<1> QED BY <1>3, <1>4 DEF StoreInv, Store!PowerLoss, Store!Exposed, Store!ReadAsAllowed

LEMMA StoreBegins == Store!Init => StoreInv
BY DEF Store!Init, StoreInv, Store!ReadAsAllowed

LEMMA StoreNext == StoreInv /\ Store!Next => StoreInv'
BY StoreWrites, StoreReads, StoreLosesPower DEF Store!Next

\* A part of MCHost that stands still keeps what it had.
LEMMA StoreStutters == StoreInv /\ UNCHANGED <<storeOwn, returned>> => StoreInv'
BY DEF StoreInv, storeOwn, Store!Exposed, Store!ReadAsAllowed

\* Whatever crashes: an object that was put stays there whole, and a role reads only what
\* its access lists (artifacts/store.py).
THEOREM StoreStaysKept == Spec => []StoreKept
<1>1. Init => (route = "store" => StoreInv)
  BY StoreBegins DEF Init
<1>2. (route = "store" => StoreInv) /\ [Next]_vars => (route = "store" => StoreInv)'
  <2> SUFFICES ASSUME route = "store" => StoreInv, [Next]_vars, route' = "store" PROVE StoreInv'
    OBVIOUS
  <2>1. CASE Next
    BY <2>1, StoreNext DEF Next
  <2>2. CASE UNCHANGED vars
    BY <2>2, StoreStutters DEF vars
  <2> QED BY <2>1, <2>2
<1>3. (route = "store" => StoreInv) => StoreKept
  BY DEF StoreInv, StoreKept, Store!ContentStands
<1> QED BY <1>1, <1>2, <1>3, PTL DEF Spec

(***************************************************************************)
(* The image of a set of declarations                                      *)
(***************************************************************************)

RunShape(r) == r = [at |-> r.at, base |-> r.base, built |-> r.built, image |-> r.image,
                    closure |-> r.closure]

\* What a run holds at each of its places.
RunTypes(r) ==
    /\ r.at \in {"idle", "pull", "build", "inspect", "push", "capture", "lock"}
    /\ r.at \in {"build", "inspect", "push", "capture", "lock"} => r.base \in Base
    /\ r.at \in {"capture", "lock"} => r.image \in Images!Image
    /\ r.at = "lock" /\ flow # "image" => r.closure = r.image

\* Where the build is locked, the tag is the run's own until it has published the image.
RunBound(p) ==
    /\ flow = "image" /\ run[p].at # "idle" => lock = p
    /\ run[p].at \in {"inspect", "push"} => lock = p /\ tag.base = run[p].base
    /\ run[p].at \in {"capture", "lock"} => run[p].image.base = run[p].base

ImagesInv ==
    /\ flow \in Images!Flow
    /\ \A p \in Process : RunShape(run[p])
    /\ run = [p \in Process |-> run[p]]
    /\ \A p \in Process : RunTypes(run[p])
    /\ \A p \in Process : run[p].at \in {"inspect", "push"} => tag \in Images!Image
    /\ flow # "command" => \A p \in Process : RunBound(p)
    /\ \A r \in returned : record # None /\ r = record
    /\ record # None => record.closure = record.image
    /\ Images!EvidenceBindsBase

LEMMA ImagesBegin == Images!Init => ImagesInv
<1> SUFFICES ASSUME Images!Init PROVE ImagesInv OBVIOUS
<1>0. /\ Images!Idle.at = "idle"
      /\ RunShape(Images!Idle)
  BY DEF Images!Idle, RunShape
<1>1. \A p \in Process : run[p] = Images!Idle
  BY DEF Images!Init
<1>2. run = [p \in Process |-> run[p]]
  BY DEF Images!Init
<1>3. record = None /\ returned = {} /\ flow \in Images!Flow
  BY DEF Images!Init
<1>4. \A p \in Process : RunTypes(run[p]) /\ RunBound(p) /\ run[p].at \notin {"inspect", "push"}
  BY <1>0, <1>1 DEF RunTypes, RunBound
<1>5. \A p \in Process : RunShape(run[p])
  BY <1>0, <1>1
<1> QED BY <1>2, <1>3, <1>4, <1>5 DEF ImagesInv, Images!EvidenceBindsBase, Images!BaseIsTheImages

\* What a step leaves to the other runs: the record and who they are; and the lock and the
\* tag, where they hold the lock.
OthersKeepRuns(p) ==
    /\ flow' = flow
    /\ run' = [q \in Process |-> run'[q]]
    /\ \A q \in Process \ {p} : run'[q] = run[q]
    /\ flow # "command" => \A q \in Process \ {p} : lock = q => lock' = q /\ tag' = tag
    /\ tag' = tag \/ tag' \in Images!Image

LEMMA ImagesKeep ==
    ASSUME ImagesInv, NEW p \in Process, OthersKeepRuns(p),
           RunShape(run'[p]),
           RunTypes(run[p])', 
           run'[p].at \in {"inspect", "push"} => tag' \in Images!Image,
           flow # "command" => RunBound(p)',
           \A r \in returned' : record' # None /\ r = record',
           record' # None => record'.closure = record'.image,
           Images!EvidenceBindsBase'
    PROVE  ImagesInv'
<1>1. ASSUME NEW q \in Process PROVE RunTypes(run[q])'
  <2>1. CASE q = p  BY <2>1
  <2>2. CASE q # p  BY <2>2 DEF ImagesInv, OthersKeepRuns, RunTypes
  <2> QED BY <2>1, <2>2
<1>2. ASSUME NEW q \in Process, run'[q].at \in {"inspect", "push"} PROVE tag' \in Images!Image
  BY <1>2 DEF ImagesInv, OthersKeepRuns
<1>3. ASSUME NEW q \in Process, flow' # "command" PROVE RunBound(q)'
  <2>1. CASE q = p  BY <2>1, <1>3 DEF OthersKeepRuns
  <2>2. CASE q # p  BY <2>2, <1>3 DEF ImagesInv, OthersKeepRuns, RunBound
  <2> QED BY <2>1, <2>2
<1>4. \A q \in Process : RunShape(run'[q])
  BY DEF ImagesInv, OthersKeepRuns
<1>5. flow' \in Images!Flow /\ run' = [q \in Process |-> run'[q]]
  BY DEF ImagesInv, OthersKeepRuns
<1> QED BY <1>1, <1>2, <1>3, <1>4, <1>5 DEF ImagesInv

\* Nobody takes or frees a lock that another holds (environments/images.py, resolution.py).
LEMMA RunsKeepApart ==
    ASSUME ImagesInv, NEW p \in Process, Images!Step(p)
    PROVE  OthersKeepRuns(p)
<1>1. run' = [q \in Process |-> run'[q]] /\ \A q \in Process \ {p} : run'[q] = run[q]
  BY DEF ImagesInv, Images!Step, Images!Look, Images!Pull, Images!Build, Images!Inspect,
       Images!Push,
         Images!Capture, Images!Lock, Images!Fail, Images!Idle
<1>2. flow' = flow
  BY DEF Images!Step, Images!Look, Images!Pull, Images!Build, Images!Inspect, Images!Push,
         Images!Capture, Images!Lock, Images!Fail
<1>3. ASSUME flow # "command", NEW q \in Process \ {p}, lock = q PROVE lock' = q /\ tag' = tag
  BY <1>3, HostAssumption DEF Images!Step, Images!Look, Images!Pull, Images!Build, Images!Inspect,
         Images!Push, Images!Capture, Images!Lock, Images!Fail, Images!Free, Images!BuildIsLocked
<1>4. tag' = tag \/ tag' \in Images!Image
  <2>1. CASE Images!Build(p)
    BY <2>1 DEF Images!Build, Images!At, ImagesInv, RunTypes, Images!Image
  <2>2. CASE ~Images!Build(p)
    BY <2>2 DEF Images!Step, Images!Look, Images!Pull, Images!Inspect, Images!Push,
         Images!Capture,
         Images!Lock, Images!Fail
  <2> QED BY <2>1, <2>2
<1> QED BY <1>1, <1>2, <1>3, <1>4 DEF OthersKeepRuns

LEMMA ImagesStep ==
    ASSUME ImagesInv, NEW p \in Process, Images!Step(p)
    PROVE  ImagesInv'
<1> USE RunsKeepApart, ImagesKeep
<1>0. /\ OthersKeepRuns(p) /\ flow \in Images!Flow /\ flow' = flow
      /\ RunTypes(run[p]) /\ (flow # "command" => RunBound(p))
      /\ RunShape(run[p])
      /\ run = [q \in Process |-> run[q]]
      /\ (run[p].at \in {"inspect", "push"} => tag \in Images!Image)
      /\ \A r \in returned : record # None /\ r = record
      /\ (record # None => record.closure = record.image)
      /\ Images!EvidenceBindsBase
  BY DEF ImagesInv, OthersKeepRuns
<1>1. CASE Images!Look(p)
  BY <1>0, <1>1 DEF Images!Look, Images!At, Images!Free, RunShape, RunTypes, RunBound,
       Images!EvidenceBindsBase, Images!BaseIsTheImages
<1>2. CASE Images!Pull(p)
  <2>1. PICK b \in Images!Bases : run' = [run EXCEPT ![p].at = "build", ![p].base = b]
    BY <1>2 DEF Images!Pull
  <2>2. b \in Base
    BY HostAssumption DEF Images!Bases
  <2> QED BY <1>0, <1>2, <2>1, <2>2 DEF Images!Pull, Images!At, RunShape, RunTypes, RunBound,
       Images!EvidenceBindsBase, Images!BaseIsTheImages
<1>3. CASE Images!Build(p)
  BY <1>0, <1>3 DEF Images!Build, Images!At, Images!BuildIsLocked, Images!Image, RunShape,
       RunTypes, RunBound, Images!EvidenceBindsBase, Images!BaseIsTheImages
<1>4. CASE Images!Inspect(p)
  BY <1>0, <1>4 DEF Images!Inspect, Images!At, RunShape, RunTypes, RunBound,
       Images!EvidenceBindsBase, Images!BaseIsTheImages
<1>5. CASE Images!Push(p)
  BY <1>0, <1>5 DEF Images!Push, Images!At, Images!Idle, RunShape, RunTypes, RunBound,
       Images!EvidenceBindsBase, Images!BaseIsTheImages
<1>6. CASE Images!Capture(p)
  BY <1>0, <1>6 DEF Images!Capture, Images!At, Images!SessionImage, RunShape, RunTypes,
       RunBound, Images!EvidenceBindsBase, Images!BaseIsTheImages
<1>7. CASE Images!Lock(p)
  <2>1. run[p].base \in Base /\ run[p].image \in Images!Image
    BY <1>0, <1>7 DEF Images!Lock, Images!At, RunTypes
  <2>2. flow # "image" => run[p].closure = run[p].image
    BY <1>0, <1>7 DEF Images!Lock, Images!At, RunTypes
  <2>3. /\ Images!Resolved(p) = [base |-> run[p].base, image |-> run[p].image,
                                 closure |-> run[p].image, by |-> p]
        /\ Images!Resolved(p) # None
    BY <2>1, <2>2, HostAssumption DEF Images!Resolved, Records
  <2>4. flow # "command" => run[p].image.base = run[p].base
    BY <1>0, <1>7 DEF Images!Lock, Images!At, RunBound
  <2>5. (\A r \in returned' : record' # None /\ r = record') /\ (record' # None => record'.closure = record'.image)
    BY <1>0, <1>7, <2>3 DEF Images!Lock, Images!Writes
  <2>6. Images!EvidenceBindsBase'
    BY <1>0, <1>7, <2>3, <2>4 DEF Images!Lock, Images!Writes, Images!EvidenceBindsBase,
         Images!BaseIsTheImages
  <2> QED BY <1>0, <1>7, <2>5, <2>6 DEF Images!Lock, Images!At, Images!Idle, RunShape,
       RunTypes, RunBound
<1>8. CASE Images!Fail(p)
  BY <1>0, <1>8 DEF Images!Fail, Images!Idle, RunShape, RunTypes, RunBound,
       Images!EvidenceBindsBase, Images!BaseIsTheImages
<1> QED BY <1>1, <1>2, <1>3, <1>4, <1>5, <1>6, <1>7, <1>8 DEF Images!Step

LEMMA ImagesNext == ImagesInv /\ Images!Next => ImagesInv'
BY ImagesStep DEF Images!Next

LEMMA ImagesStutter == ImagesInv /\ UNCHANGED <<imagesOwn, lock, returned>> => ImagesInv'
BY DEF ImagesInv, imagesOwn, RunShape, RunTypes, RunBound, Images!EvidenceBindsBase,
     Images!BaseIsTheImages

\* One resolution is returned for one set of declarations, whoever came first, and where the
\* build is locked its evidence is of its own image (environments/resolution.py, images.py).
THEOREM ResolutionStaysOne == Spec => []ResolvedOnce
<1>1. Init => (route = "images" => ImagesInv)
  BY ImagesBegin DEF Init
<1>2. (route = "images" => ImagesInv) /\ [Next]_vars => (route = "images" => ImagesInv)'
  <2> SUFFICES ASSUME route = "images" => ImagesInv, [Next]_vars, route' = "images" PROVE ImagesInv'
    OBVIOUS
  <2>1. CASE Next
    BY <2>1, ImagesNext DEF Next
  <2>2. CASE UNCHANGED vars
    BY <2>2, ImagesStutter DEF vars
  <2> QED BY <2>1, <2>2
<1>3. (route = "images" => ImagesInv) => ResolvedOnce
  BY DEF ImagesInv, ResolvedOnce, Images!ResolvedOnce
<1> QED BY <1>1, <1>2, <1>3, PTL DEF Spec

(***************************************************************************)
(* The cases of a grade                                                    *)
(***************************************************************************)

Grades == {Worker!Accepted, Worker!Rejected, Worker!NoReward("invalid"),
           Worker!NoReward("unsupported"), Worker!NoReward("infrastructure")}

\* Before the cases nothing was run; during them nothing was undecided; and a reward is
\* kept only over what was decided, by cases whose containers are gone.
WorkerInv ==
    /\ at \in {"load", "open", "build", "cases", "close", "publish", "pending", "published"}
    /\ mandatory \subseteq Worker!CaseIds
    /\ next \in Nat /\ next >= 1
    /\ status = [c \in Worker!CaseIds |-> status[c]]
    /\ grade \in Grades
    /\ at \in {"load", "open", "build"} =>
          /\ next = 1 /\ cleanup /\ \A c \in Worker!CaseIds : status[c] = "not_run"
          /\ grade = Worker!NoReward("invalid")
    /\ at = "cases" => grade \in {Worker!Accepted, Worker!Rejected}
    /\ grade \in {Worker!Accepted, Worker!Rejected} =>
          cleanup /\ \A c \in Worker!CaseIds : status[c] # "infrastructure_failure"
    /\ grade = Worker!Accepted =>
          /\ \A c \in Worker!CaseIds : c < next => status[c] \in {"passed", "failed"}
          /\ \A c \in mandatory : c < next => status[c] = "passed"
          /\ at # "cases" => next > Cases

\* What tells the grades apart.
LEMMA GradesDiffer ==
    /\ \A g \in Grades : /\ g.reward = {1} <=> g = Worker!Accepted
                         /\ g.reward = {0} <=> g = Worker!Rejected
                         /\ g.reward # {} => g \in {Worker!Accepted, Worker!Rejected}
                         /\ g.disposition = "success" <=> g = Worker!Accepted
                         /\ g.disposition = "rejected" <=> g = Worker!Rejected
    /\ Worker!Accepted # Worker!Rejected
    /\ \A d : Worker!NoReward(d) # Worker!Accepted /\ Worker!NoReward(d) # Worker!Rejected
<1>1. {1} # {0} /\ {1} # {} /\ {0} # {}
  <2>1. 1 \in {1} /\ 0 \in {0} /\ 1 \notin {0}
    OBVIOUS
  <2> QED BY <2>1
<1>2. /\ Worker!Accepted.reward = {1} /\ Worker!Accepted.disposition = "success"
      /\ Worker!Rejected.reward = {0} /\ Worker!Rejected.disposition = "rejected"
      /\ \A d : Worker!NoReward(d).reward = {} /\ Worker!NoReward(d).disposition = d
  BY DEF Worker!Accepted, Worker!Rejected, Worker!NoReward, Worker!Ended
<1> QED BY <1>1, <1>2 DEF Grades

LEMMA WorkerBegins == Worker!WorkerInit => WorkerInv
BY GradesDiffer DEF Worker!WorkerInit, WorkerInv, Grades

\* A case that decides nothing ends the grade without a reward; one that counts keeps a
\* rejection (grading/service.py, the loop over the cases).
LEMMA CaseRun ==
    ASSUME WorkerInv, Worker!RunCase
    PROVE  WorkerInv'
<1>1. next \in Worker!CaseIds /\ at = "cases" /\ next \in Nat /\ next >= 1
  BY HostAssumption DEF WorkerInv, Worker!RunCase, Worker!CaseIds
<1>2. PICK failure \in {"none", "candidate", "infrastructure", "unresolved"}, gone \in BOOLEAN :
          /\ cleanup' = gone
          /\ IF Worker!Inconclusive(failure, gone)
             THEN Worker!Stop(next, "infrastructure_failure",
                       Worker!NoReward(IF gone /\ failure = "unresolved" THEN "invalid"
                                       ELSE "infrastructure"))
             ELSE IF failure = "candidate" THEN Worker!Count(next, "candidate_failure", TRUE)
             ELSE \/ Worker!Count(next, "passed", FALSE)
                  \/ Worker!Count(next, "failed", next \in mandatory)
                  \/ Worker!Count(next, "protocol_failure", TRUE)
  BY DEF Worker!RunCase
<1>3. CASE Worker!Inconclusive(failure, gone)
  <2>1. PICK d \in {"invalid", "infrastructure"} :
            Worker!Stop(next, "infrastructure_failure", Worker!NoReward(d))
    BY <1>2, <1>3
  <2>2. grade' \in Grades /\ grade' \notin {Worker!Accepted, Worker!Rejected}
    BY <2>1, GradesDiffer DEF Worker!Stop, Grades
  <2> QED BY <1>1, <2>1, <2>2 DEF WorkerInv, Worker!Stop, Worker!RunCase
<1>4. CASE ~Worker!Inconclusive(failure, gone)
  <2>1. cleanup' = TRUE
    BY <1>2, <1>4 DEF Worker!Inconclusive
  <2>2. PICK became \in {"candidate_failure", "passed", "failed", "protocol_failure"}, failed \in BOOLEAN :
            /\ Worker!Count(next, became, failed)
            /\ ~failed => became \in {"passed", "failed"} /\ (next \in mandatory => became = "passed")
    <3>1. CASE failure = "candidate"
      BY <1>2, <1>4, <3>1
    <3>2. CASE failure # "candidate" /\ Worker!Count(next, "failed", next \in mandatory)
      <4>1. CASE next \in mandatory
        <5>1. Worker!Count(next, "failed", TRUE)
          BY <3>2, <4>1 DEF Worker!Count
        <5> QED BY <5>1
      <4>2. CASE next \notin mandatory
        <5>1. Worker!Count(next, "failed", FALSE)
          BY <3>2, <4>2 DEF Worker!Count
        <5> QED BY <4>2, <5>1
      <4> QED BY <4>1, <4>2
    <3>3. CASE failure # "candidate" /\ ~Worker!Count(next, "failed", next \in mandatory)
      BY <1>2, <1>4, <3>3
    <3> QED BY <3>1, <3>2, <3>3
  <2>3. grade' \in {Worker!Accepted, Worker!Rejected}
    BY <1>1, <2>2 DEF Worker!Count, WorkerInv
  <2>4. grade' = Worker!Accepted => grade = Worker!Accepted /\ ~failed
    BY <2>2, GradesDiffer DEF Worker!Count
  <2>5. /\ status' = [status EXCEPT ![next] = became] /\ next' = next + 1 /\ at' = "cases"
        /\ mandatory' = mandatory
    BY <1>1, <2>2 DEF Worker!Count, Worker!RunCase
  <2>6. \A c \in Worker!CaseIds : /\ status'[c] # "infrastructure_failure"
                                  /\ status'[c] = IF c = next THEN became ELSE status[c]
    BY <1>1, <2>5 DEF WorkerInv
  <2>7. \A c \in Worker!CaseIds : c < next' => c < next \/ c = next
    BY <1>1, <2>5 DEF Worker!CaseIds
  <2>8. grade' = Worker!Accepted =>
          /\ \A c \in Worker!CaseIds : c < next' => status'[c] \in {"passed", "failed"}
          /\ \A c \in mandatory : c < next' => status'[c] = "passed"
    BY <1>1, <2>2, <2>4, <2>5, <2>6, <2>7 DEF WorkerInv
  <2>9. next' \in Nat /\ next' >= 1 /\ grade' \in Grades /\ status' = [c \in Worker!CaseIds |-> status'[c]]
    BY <1>1, <2>3, <2>5 DEF WorkerInv, Grades
  <2> QED BY <1>1, <2>1, <2>3, <2>5, <2>6, <2>8, <2>9 DEF WorkerInv
<1> QED BY <1>3, <1>4

LEMMA WorkerStep == WorkerInv /\ Worker!WorkerNext => WorkerInv'
<1> SUFFICES ASSUME WorkerInv, Worker!WorkerNext PROVE WorkerInv' OBVIOUS
<1> USE GradesDiffer
<1>1. CASE Worker!Load
  BY <1>1 DEF WorkerInv, Worker!Load, Worker!Raised, Grades
<1>2. CASE Worker!Open
  BY <1>2 DEF WorkerInv, Worker!Open, Worker!Raised, Grades
<1>3. CASE Worker!Build
  <2>1. /\ at = "build" /\ next = 1 /\ cleanup /\ \A c \in Worker!CaseIds : status[c] = "not_run"
        /\ UNCHANGED <<mandatory, next, status>>
    BY <1>3 DEF WorkerInv, Worker!Build
  <2>2. \A c \in Worker!CaseIds : ~(c < next)
    BY <2>1, HostAssumption DEF Worker!CaseIds
  <2>3. \/ at' = "cases" /\ grade' = Worker!Accepted /\ cleanup' = cleanup
        \/ /\ at' = "close" /\ grade' \in Grades \ {Worker!Accepted}
           /\ grade' = Worker!Rejected => cleanup'
    <3>1. CASE at' = "cases"
      BY <1>3, <3>1 DEF Worker!Build
    <3>2. CASE at' # "cases" /\ UNCHANGED cleanup
                /\ grade' \in {Worker!Rejected, Worker!NoReward("invalid"), Worker!NoReward("infrastructure")}
      BY <1>3, <2>1, <3>2 DEF Worker!Build, Grades
    <3>3. CASE \E fault \in {"candidate", "infrastructure", "unresolved"} :
                  /\ cleanup' \in BOOLEAN
                  /\ grade' = IF ~cleanup' THEN Worker!NoReward("infrastructure")
                              ELSE IF fault = "candidate" THEN Worker!Rejected
                              ELSE IF fault = "unresolved" THEN Worker!NoReward("invalid")
                              ELSE Worker!NoReward("infrastructure")
      <4>1. grade' \in {Worker!Rejected, Worker!NoReward("invalid"), Worker!NoReward("infrastructure")}
        BY <3>3
      <4>2. ~cleanup' => grade' = Worker!NoReward("infrastructure")
        BY <3>3
      <4>3. at' \in {"cases", "close"}
        BY <1>3 DEF Worker!Build
      <4>4. CASE at' = "cases"
        BY <3>1, <4>4
      <4> QED BY <4>1, <4>2, <4>3, <4>4 DEF Grades
    <3> QED BY <1>3, <3>1, <3>2, <3>3 DEF Worker!Build
  <2>4. grade' \in Grades
    BY <2>3 DEF Grades
  <2>5. grade' = Worker!Accepted => at' = "cases" /\ cleanup'
    BY <2>1, <2>3
  <2> QED BY <2>1, <2>2, <2>3, <2>4, <2>5 DEF WorkerInv
<1>4. CASE Worker!RunCase
  BY <1>4, CaseRun
<1>5. CASE Worker!OutOfTime
  BY <1>5 DEF WorkerInv, Worker!OutOfTime, Grades
<1>6. CASE Worker!CallFails
  BY <1>6 DEF WorkerInv, Worker!CallFails, Grades
<1>7. CASE Worker!AllRun
  BY <1>7 DEF WorkerInv, Worker!AllRun
<1>8. CASE Worker!Close
  BY <1>8 DEF WorkerInv, Worker!Close, Worker!CloseFailed, Grades
<1>9. CASE Worker!Publish
  BY <1>9 DEF WorkerInv, Worker!Publish
<1>10. CASE Worker!Republish
  BY <1>10 DEF WorkerInv, Worker!Republish
<1> QED BY <1>1, <1>2, <1>3, <1>4, <1>5, <1>6, <1>7, <1>8, <1>9, <1>10 DEF Worker!WorkerNext

LEMMA WorkerStutters == WorkerInv /\ UNCHANGED <<workerOwn, status>> => WorkerInv'
BY DEF WorkerInv, workerOwn

\* A reward of one is of cases that all ran, the mandatory ones passed; no reward is given
\* over what was not decided or may still be running (grading/service.py).
THEOREM RewardStaysSound == Spec => []RewardSound
<1>1. Init => (route = "grade" => WorkerInv)
  BY WorkerBegins DEF Init
<1>2. (route = "grade" => WorkerInv) /\ [Next]_vars => (route = "grade" => WorkerInv)'
  <2> SUFFICES ASSUME route = "grade" => WorkerInv, [Next]_vars, route' = "grade" PROVE WorkerInv'
    OBVIOUS
  <2>1. CASE Next
    BY <2>1, WorkerStep DEF Next
  <2>2. CASE UNCHANGED vars
    BY <2>2, WorkerStutters DEF vars
  <2> QED BY <2>1, <2>2
<1>3. WorkerInv => Worker!RewardSound
  <2> SUFFICES ASSUME WorkerInv, at = "published" PROVE Worker!RewardSound
    BY DEF Worker!RewardSound
  <2>1. grade = Worker!Accepted => \A c \in Worker!CaseIds : c < next
    BY HostAssumption DEF WorkerInv, Worker!CaseIds
  <2>2. mandatory \subseteq Worker!CaseIds /\ grade \in Grades
    BY DEF WorkerInv
  <2>3. grade = Worker!Accepted => /\ \A c \in Worker!CaseIds : status[c] \in {"passed", "failed"}
                                   /\ \A c \in mandatory : status[c] = "passed"
    BY <2>1, <2>2 DEF WorkerInv
  <2>4. grade \in {Worker!Accepted, Worker!Rejected} =>
            cleanup /\ \A c \in Worker!CaseIds : status[c] # "infrastructure_failure"
    BY DEF WorkerInv
  <2>5. /\ grade.reward = {1} <=> grade = Worker!Accepted
        /\ grade.reward = {0} <=> grade = Worker!Rejected
        /\ grade.reward # {} => grade \in {Worker!Accepted, Worker!Rejected}
        /\ grade.disposition = "success" <=> grade = Worker!Accepted
        /\ grade.disposition = "rejected" <=> grade = Worker!Rejected
    BY <2>2, GradesDiffer
  <2> QED BY <2>3, <2>4, <2>5 DEF Worker!RewardSound
<1>4. (route = "grade" => WorkerInv) => RewardSound
  BY <1>3 DEF RewardSound
<1> QED BY <1>1, <1>2, <1>4, PTL DEF Spec

(***************************************************************************)
(* A build or execution of a candidate                                     *)
(***************************************************************************)

Early == {"stage", "install", "toolchain", "product", "setup", "services", "alive", "ready",
          "still alive", "build", "command"}
Late == {"check", "capture", "validate", "compare", "save", "export"}
Over == {"cleanup", "evidence", "unpublished", "published", "answered"}
Faults == {"monitor_failure", "storage", "cleanup"}
Errors == [reason : Reasons, category : {"candidate", "infrastructure", "unresolved"}]

\* What was done, without its order.
Did(s) == {s[i] : i \in DOMAIN s}
Owned(s) == \E r \in Did(s) : r.step \in {"build", "command"}

RunTyped ==
    /\ operation \in Run!Operations /\ (operation.kind = "build" => ~operation.saves)
    /\ step \in Early \cup Late \cup Over
    /\ receipts \in Seq([step : Early \cup Late \cup Over, end : Run!Ends \cup Faults])
    /\ error \in Errors \cup {Nothing} /\ ran \in Run!Ends \cup {Nothing}
    /\ version \in Nat /\ reported.source \in Nat
    /\ reported = [source |-> reported.source, status |-> reported.status]

\* While it runs nothing has gone wrong and nothing is saved; from the candidate's own
\* build or command on, that one is among the receipts.
RunAlong ==
    /\ step \in Early \cup Late =>
          error = Nothing /\ reported.source = 0 /\ reported.status = "last_confirmed"
    /\ step \in Early => ran = Nothing
    /\ step \in Late => ran \in {Nothing, "ok", "nonzero"}
    /\ step \in Late \/ ran # Nothing => Owned(receipts)
    /\ \A r \in Did(receipts) : r.step = "command" => r.end \in Run!Ends /\ r.end = ran

\* Who an exception is charged to: the candidate only for its budget or for what came of its
\* own code; and what failed around it is still what the operation ends with.
RunCharged ==
    /\ error # Nothing /\ error.category = "candidate" /\ error # Run!OutOfBudget => Owned(receipts)
    /\ \A r \in Did(receipts) : r.end \in Faults =>
          \/ error # Nothing /\ error.category = "infrastructure"
          \/ error = Nothing /\ ran = "monitor_failure"
    /\ error = Nothing => \A r \in Did(receipts) :
          r.end = "ok" \/ r.step = "ready" \/ (r.step = "command" /\ r.end = ran)
    /\ step \in Over \ {"cleanup"} /\ ~clean => error = Run!Infrastructure

\* What it may say is saved.
RunSaved ==
    /\ step \in Over /\ error = Nothing /\ operation.saves /\ ran \in {Nothing, "ok"} =>
          reported.status \in {"saved", "unchanged"}
    /\ reported.status = "saved" \/ operation.runtime = "python" => reported.source <= version

RunInv ==
    /\ RunTyped /\ RunAlong /\ RunCharged /\ RunSaved
    /\ result # Nothing =>
          /\ step = "answered"
          /\ result = [outcome |-> Run!Outcome, clean |-> clean, saved |-> reported]

LEMMA DidMore ==
    ASSUME NEW S, NEW s \in Seq(S), NEW e \in S
    PROVE  Append(s, e) \in Seq(S) /\ Did(Append(s, e)) = Did(s) \cup {e}
<1>1. /\ Append(s, e) \in Seq(S) /\ Len(s) \in Nat /\ Len(Append(s, e)) = Len(s) + 1
      /\ \A i \in 1..Len(s) : Append(s, e)[i] = s[i]
      /\ Append(s, e)[Len(s) + 1] = e
  OBVIOUS
<1>2. DOMAIN s = 1..Len(s) /\ DOMAIN Append(s, e) = 1..(Len(s) + 1)
  BY <1>1
<1>3. 1..(Len(s) + 1) = 1..Len(s) \cup {Len(s) + 1}
  BY <1>1
<1>4. Did(Append(s, e)) = {Append(s, e)[i] : i \in 1..Len(s)} \cup {Append(s, e)[Len(s) + 1]}
  BY <1>2, <1>3 DEF Did
<1> QED BY <1>1, <1>2, <1>4 DEF Did

\* A receipt of an end it can have.
LEMMA Received ==
    ASSUME RunTyped, NEW end \in Run!Ends \cup Faults, Run!Receipt(end)
    PROVE  /\ receipts' \in Seq([step : Early \cup Late \cup Over, end : Run!Ends \cup Faults])
           /\ Did(receipts') = Did(receipts) \cup {[step |-> step, end |-> end]}
           /\ Owned(receipts') <=> (Owned(receipts) \/ step \in {"build", "command"})
<1> DEFINE S == [step : Early \cup Late \cup Over, end : Run!Ends \cup Faults]
<1> DEFINE e == [step |-> step, end |-> end]
<1>1. receipts \in Seq(S) /\ e \in S /\ e.step = step
  BY DEF RunTyped
<1>2. receipts' = Append(receipts, e)
  BY DEF Run!Receipt
<1> HIDE DEF S, e
<1>3. receipts' \in Seq(S) /\ Did(receipts') = Did(receipts) \cup {e}
  BY <1>1, <1>2, DidMore
<1>4. Owned(receipts') <=> (Owned(receipts) \/ e.step \in {"build", "command"})
  BY <1>3 DEF Owned
<1> QED BY <1>1, <1>3, <1>4 DEF S, e

\* The exceptions of failure() and of the commands, and what they are charged to.
LEMMA ErrorsAre ==
    /\ Run!Infrastructure \in Errors /\ Run!Infrastructure.category = "infrastructure"
    /\ Run!OutOfBudget \in Errors /\ Run!OutOfBudget.category = "candidate"
    /\ Run!Refused \in Errors /\ Run!Refused.category = "candidate"
    /\ Run!Unresolved \in Errors /\ Run!Unresolved.category = "unresolved"
    /\ Run!SetupFailed \in Errors /\ Run!SetupFailed.category = "infrastructure"
    /\ Nothing \notin Errors /\ Nothing \notin Run!Ends
    /\ \A e \in Errors : e.category \in {"candidate", "infrastructure", "unresolved"}
<1>1. Nothing \notin Errors /\ Nothing \notin Run!Ends
  BY HostAssumption DEF Errors
<1> QED BY <1>1 DEF Errors, Reasons, Run!Infrastructure, Run!OutOfBudget, Run!Refused, Run!Unresolved,
               Run!SetupFailed, Run!Error, Run!Ends

LEMMA RunBegins == Run!RunInit => RunInv
<1> SUFFICES ASSUME Run!RunInit PROVE RunInv OBVIOUS
<1>1. receipts = << >> /\ Did(<< >>) = {}
  BY DEF Run!RunInit, Did
<1>2. receipts \in Seq([step : Early \cup Late \cup Over, end : Run!Ends \cup Faults])
  BY <1>1
<1>3. /\ step = "stage" /\ error = Nothing /\ ran = Nothing /\ result = Nothing /\ version = 0
      /\ reported = [source |-> 0, status |-> "last_confirmed"]
      /\ operation \in Run!Operations /\ (operation.kind = "build" => ~operation.saves)
  BY DEF Run!RunInit
<1>4. /\ reported.source = 0 /\ reported.status = "last_confirmed"
      /\ reported = [source |-> reported.source, status |-> reported.status]
  BY <1>3
<1>5. RunTyped
  BY <1>2, <1>3, <1>4 DEF RunTyped, Early
<1>6. RunAlong /\ RunCharged /\ RunSaved
  BY <1>1, <1>3, <1>4 DEF RunAlong, RunCharged, RunSaved, Owned, Early, Late, Over
<1> QED BY <1>3, <1>5, <1>6 DEF RunInv

\* A command that raises sends the session to its cleanup.
LEMMA Raises ==
    ASSUME RunInv, step \in (Early \cup Late) \ {"command"},
           NEW end \in Run!Ends \cup Faults, Run!Receipt(end),
           NEW e \in Errors, error' = e, step' = "cleanup",
           UNCHANGED <<operation, ran, version, reported, clean, result>>,
           end \in Faults => e.category = "infrastructure",
           e.category = "candidate" /\ e # Run!OutOfBudget => step \in Late \cup {"build"}
    PROVE  RunInv'
<1>1. /\ RunTyped /\ RunAlong /\ RunCharged /\ RunSaved /\ result = Nothing
      /\ error = Nothing /\ e # Nothing
  BY ErrorsAre DEF RunInv, RunAlong, Early, Late
<1>2. /\ receipts' \in Seq([step : Early \cup Late \cup Over, end : Run!Ends \cup Faults])
      /\ Did(receipts') = Did(receipts) \cup {[step |-> step, end |-> end]}
      /\ Owned(receipts') <=> (Owned(receipts) \/ step \in {"build", "command"})
  BY <1>1, Received
<1>3. RunTyped'
  BY <1>1, <1>2 DEF RunTyped, Over
<1>4. step' \notin Early \cup Late /\ step' \notin Over \ {"cleanup"}
  BY DEF Early, Late, Over
<1>5. RunAlong'
  <2>1. ran' # Nothing => Owned(receipts')
    BY <1>1, <1>2 DEF RunAlong
  <2>2. \A r \in Did(receipts') : r.step = "command" => r.end \in Run!Ends /\ r.end = ran
    BY <1>1, <1>2 DEF RunAlong
  <2> QED BY <1>4, <2>1, <2>2 DEF RunAlong
<1>6. RunCharged'
  <2>1. e.category = "candidate" /\ e # Run!OutOfBudget => Owned(receipts')
    BY <1>1, <1>2 DEF RunAlong
  <2>2. (\E r \in Did(receipts') : r.end \in Faults) => e.category = "infrastructure"
    <3>1. ran # "monitor_failure"
      BY <1>1, ErrorsAre DEF RunAlong, Run!Ends
    <3> QED BY <1>1, <1>2, <3>1 DEF RunCharged
  <2> QED BY <1>1, <1>4, <2>1, <2>2 DEF RunCharged
<1>7. RunSaved'
  BY <1>1 DEF RunSaved
<1> QED BY <1>1, <1>3, <1>5, <1>6, <1>7 DEF RunInv

\* A command that ended well, or a service not ready yet, is followed by the next one.
LEMMA GoesOn ==
    ASSUME RunInv, step \in (Early \cup Late) \ {"command"},
           NEW end \in Run!Ends, Run!Receipt(end),
           end = "ok" \/ (step = "ready" /\ end = "nonzero"),
           NEW then \in Early \cup Late, step' = then, error' = error,
           UNCHANGED <<operation, ran, version, reported, clean, result>>,
           then \in Late => step \in Late \cup {"build"},
           then \in Early => step \in Early
    PROVE  RunInv'
<1>1. /\ RunTyped /\ RunAlong /\ RunCharged /\ RunSaved /\ result = Nothing
      /\ error = Nothing
  BY DEF RunInv, RunAlong, Early, Late
<1>2. /\ receipts' \in Seq([step : Early \cup Late \cup Over, end : Run!Ends \cup Faults])
      /\ Did(receipts') = Did(receipts) \cup {[step |-> step, end |-> end]}
      /\ Owned(receipts') <=> (Owned(receipts) \/ step \in {"build", "command"})
  BY <1>1, Received
<1>3. RunTyped'
  BY <1>1, <1>2 DEF RunTyped
<1>4. end \notin Faults /\ then \notin Over
  BY DEF Faults, Early, Late, Over
<1>5. RunAlong'
  <2>1. then \in Late \/ ran # Nothing => Owned(receipts')
    BY <1>1, <1>2 DEF RunAlong
  <2>2. \A r \in Did(receipts') : r.step = "command" => r.end \in Run!Ends /\ r.end = ran
    BY <1>1, <1>2 DEF RunAlong
  <2>3. step \in {"build"} => step \in Early
    BY DEF Early
  <2>4. /\ then \in Early => ran = Nothing
        /\ then \in Late => ran \in {Nothing, "ok", "nonzero"}
    BY <1>1, <2>3 DEF RunAlong
  <2>5. reported.source = 0 /\ reported.status = "last_confirmed"
    BY <1>1 DEF RunAlong
  <2> QED BY <1>1, <2>1, <2>2, <2>4, <2>5 DEF RunAlong
<1>6. RunCharged'
  <2>1. \A r \in Did(receipts') : r.end \in Faults => r \in Did(receipts)
    BY <1>2, <1>4
  <2>2. \A r \in Did(receipts') : r.end = "ok" \/ r.step = "ready" \/ r \in Did(receipts)
    BY <1>2
  <2> QED BY <1>1, <1>4, <2>1, <2>2 DEF RunCharged
<1>7. RunSaved'
  BY <1>1, <1>4 DEF RunSaved
<1> QED BY <1>1, <1>3, <1>5, <1>6, <1>7 DEF RunInv

\* A command that has to exit with 0, by the table of its exceptions.
LEMMA CommandRuns ==
    ASSUME RunInv, NEW name \in (Early \cup Late) \ {"command"},
           NEW E, NEW then \in Early \cup Late, Run!Command(name, E, then),
           \A end \in Run!Ends \ {"ok"} : E[end] \in Errors,
           E["monitor_failure"].category = "infrastructure",
           name \notin Late \cup {"build"} => \A end \in Run!Ends \ {"ok"} :
                E[end].category = "infrastructure" \/ E[end] = Run!OutOfBudget,
           then \in Late => name \in Late \cup {"build"},
           then \in Early => name \in Early
    PROVE  RunInv'
<1>1. step = name /\ UNCHANGED <<operation, ran, version, reported, clean, result>>
  BY DEF Run!Command
<1>2. PICK end \in Run!Ends :
          /\ Run!Receipt(end)
          /\ IF end = "ok" THEN step' = then /\ UNCHANGED error
             ELSE step' = "cleanup" /\ error' = E[end]
  BY DEF Run!Command
<1>3. CASE end = "ok"
  BY <1>1, <1>2, <1>3, GoesOn
<1>4. CASE end # "ok"
  <2>1. PICK e \in Errors : e = E[end]
    BY <1>4
  <2>2. end \in Faults => e.category = "infrastructure"
    BY <2>1 DEF Run!Ends, Faults
  <2>3. e.category = "candidate" /\ e # Run!OutOfBudget => name \in Late \cup {"build"}
    BY <1>4, <2>1
  <2>4. error' = e /\ step' = "cleanup" /\ end \in Run!Ends \cup Faults
    BY <1>2, <1>4, <2>1
  <2> QED BY <1>1, <1>2, <2>2, <2>3, <2>4, Raises
<1> QED BY <1>3, <1>4

\* What a table of exceptions must say for a command that is not the candidate's own, and
\* for one that is or comes after it.
Uncharged(E) == \A end \in Run!Ends \ {"ok"} :
    E[end] \in Errors /\ (E[end].category = "infrastructure" \/ E[end] = Run!OutOfBudget)
Charging(E) == \A end \in Run!Ends \ {"ok"} : E[end] \in Errors
Watched(E) == E["monitor_failure"].category = "infrastructure"

\* environments/command_runtime.py and runtime.py, failure() and its callers.
LEMMA Tables ==
    /\ Uncharged(Run!StageError) /\ Watched(Run!StageError)
    /\ Uncharged(Run!SetupError) /\ Watched(Run!SetupError)
    /\ Uncharged(Run!TrustedError) /\ Watched(Run!TrustedError)
    /\ Uncharged(Run!InstallError) /\ Watched(Run!InstallError)
    /\ Charging(Run!BuildError) /\ Watched(Run!BuildError)
    /\ Charging(Run!CaptureError) /\ Watched(Run!CaptureError)
    /\ Charging(Run!ExportError) /\ Watched(Run!ExportError)
<1> USE ErrorsAre
<1>0. "monitor_failure" \in Run!Ends
  BY DEF Run!Ends
<1>1. Uncharged(Run!StageError) /\ Watched(Run!StageError)
  BY <1>0 DEF Uncharged, Watched, Run!StageError
<1>2. Uncharged(Run!SetupError) /\ Watched(Run!SetupError)
  BY <1>0 DEF Uncharged, Watched, Run!SetupError
<1>3. Uncharged(Run!TrustedError) /\ Watched(Run!TrustedError)
  BY <1>0 DEF Uncharged, Watched, Run!TrustedError
<1>4. Uncharged(Run!InstallError) /\ Watched(Run!InstallError)
  BY <1>0 DEF Uncharged, Watched, Run!InstallError
<1>5. \A end \in Run!Ends \cup {"command_failed"} : Run!Error(end, "candidate") \in Errors
  BY DEF Run!Error, Errors, Reasons
<1>6. Charging(Run!BuildError) /\ Watched(Run!BuildError)
  BY <1>0, <1>5 DEF Charging, Watched, Run!BuildError
<1>7. Charging(Run!CaptureError) /\ Watched(Run!CaptureError)
  BY <1>0 DEF Charging, Watched, Run!CaptureError
<1>8. Charging(Run!ExportError) /\ Watched(Run!ExportError)
  BY <1>0 DEF Charging, Watched, Run!ExportError
<1> QED BY <1>1, <1>2, <1>3, <1>4, <1>6, <1>7, <1>8

\* The commands before the candidate's own, and those from its build on.
LEMMA CommandBefore ==
    ASSUME RunInv, NEW name \in Early \ {"command", "build"}, NEW E, NEW then \in Early,
           Run!Command(name, E, then), Uncharged(E), Watched(E)
    PROVE  RunInv'
<1>1. then \notin Late
  BY DEF Early, Late
<1> QED BY <1>1, CommandRuns DEF Uncharged, Watched

LEMMA CommandAfter ==
    ASSUME RunInv, NEW name \in Late \cup {"build"}, NEW E, NEW then \in Late,
           Run!Command(name, E, then), Charging(E), Watched(E)
    PROVE  RunInv'
<1>1. name \in (Early \cup Late) \ {"command"} /\ then \notin Early
  BY DEF Early, Late
<1> QED BY <1>1, CommandRuns DEF Charging, Watched

LEMMA Commands ==
    ASSUME RunInv,
           \/ Run!Stage \/ Run!Install \/ Run!Toolchain \/ Run!Product \/ Run!Setup
           \/ Run!Launch \/ Run!Alive \/ Run!StillAlive
           \/ Run!Build \/ Run!Check \/ Run!Capture \/ Run!Export
    PROVE  RunInv'
<1>0. /\ {"stage", "install", "toolchain", "product", "setup", "services", "alive", "still alive"}
           \subseteq Early \ {"command", "build"}
      /\ {"install", "setup", "toolchain", "product", "services", "alive", "ready", "build", "command"} \subseteq Early
      /\ {"check", "capture", "validate", "export"} \subseteq Late
  BY DEF Early, Late
<1>1. ASSUME NEW name \in {"stage", "install", "toolchain", "product", "setup", "services", "alive", "still alive"},
             NEW E, NEW then \in Early, Run!Command(name, E, then), Uncharged(E), Watched(E)
      PROVE  RunInv'
  BY <1>0, <1>1, CommandBefore
<1>2. ASSUME NEW name \in {"build", "check", "capture", "export"}, NEW E, NEW then \in Late,
             Run!Command(name, E, then), Charging(E), Watched(E)
      PROVE  RunInv'
  BY <1>0, <1>2, CommandAfter
<1>3. CASE Run!Stage
  <2>1. PICK then, E : then \in Early /\ then = Run!Staged /\ E = Run!StageError
    BY <1>0 DEF Run!Staged
  <2> QED BY <1>1, <1>3, <2>1, Tables DEF Run!Stage
<1>4. CASE Run!Install
  <2>1. PICK E : E = Run!InstallError
    OBVIOUS
  <2> QED BY <1>0, <1>1, <1>4, <2>1, Tables DEF Run!Install
<1>5. CASE Run!Toolchain
  <2>1. PICK E : E = Run!InstallError
    OBVIOUS
  <2> QED BY <1>0, <1>1, <1>5, <2>1, Tables DEF Run!Toolchain
<1>6. CASE Run!Product
  <2>1. PICK E : E = Run!TrustedError
    OBVIOUS
  <2> QED BY <1>0, <1>1, <1>6, <2>1, Tables DEF Run!Product
<1>7. CASE Run!Setup
  <2>1. PICK then, E : then \in Early /\ then = Run!SetUp /\ E = Run!SetupError
    BY <1>0 DEF Run!SetUp
  <2> QED BY <1>1, <1>7, <2>1, Tables DEF Run!Setup
<1>8. CASE Run!Launch
  <2>1. PICK E : E = Run!TrustedError
    OBVIOUS
  <2> QED BY <1>0, <1>1, <1>8, <2>1, Tables DEF Run!Launch
<1>9. CASE Run!Alive
  <2>1. PICK E : E = Run!TrustedError
    OBVIOUS
  <2> QED BY <1>0, <1>1, <1>9, <2>1, Tables DEF Run!Alive
<1>10. CASE Run!StillAlive
  <2>1. PICK then, E : then \in Early /\ then = Run!Started /\ E = Run!TrustedError
    BY <1>0 DEF Run!Started
  <2> QED BY <1>1, <1>10, <2>1, Tables DEF Run!StillAlive
<1>11. CASE Run!Build
  <2>1. PICK then, E : /\ then \in Late /\ E = Run!BuildError
                       /\ then = (IF operation.runtime = "python" THEN "check" ELSE "capture")
    BY <1>0
  <2> QED BY <1>2, <1>11, <2>1, Tables DEF Run!Build
<1>12. CASE Run!Check
  <2>1. PICK E : E = Run!CaptureError
    OBVIOUS
  <2> QED BY <1>0, <1>2, <1>12, <2>1, Tables DEF Run!Check
<1>13. CASE Run!Capture
  <2>1. PICK E : E = Run!CaptureError
    OBVIOUS
  <2> QED BY <1>0, <1>2, <1>13, <2>1, Tables DEF Run!Capture
<1>14. CASE Run!Export
  <2>1. PICK E : E = Run!ExportError
    OBVIOUS
  <2> QED BY <1>0, <1>2, <1>14, <2>1, Tables DEF Run!Export
<1> QED BY <1>3, <1>4, <1>5, <1>6, <1>7, <1>8, <1>9, <1>10, <1>11, <1>12, <1>13, <1>14

LEMMA PartsOfRun == RunInv => RunTyped /\ RunAlong /\ RunCharged /\ RunSaved
BY DEF RunInv

\* Who is in the middle has given no result.
LEMMA NoResultYet == RunInv /\ step \in Early \cup Late \cup {"cleanup", "evidence"} => result = Nothing
BY DEF RunInv, Early, Late

LEMMA NoServiceStep == RunInv /\ Run!NoService => RunInv'
<1> SUFFICES ASSUME RunInv, Run!NoService PROVE RunInv' OBVIOUS
<1> USE PartsOfRun
<1>1. /\ step = "services" /\ step' \in {"build", "command"} /\ step \in Early /\ step' \in Early
      /\ UNCHANGED <<operation, receipts, error, ran, version, reported, clean, result>>
  BY DEF Run!NoService, Run!Started, Early
<1>2. step' \notin Late /\ step' \notin Over
  BY <1>1 DEF Late, Over
<1>3. RunTyped'
  BY <1>1 DEF RunTyped
<1>4. RunAlong'
  BY <1>1, <1>2 DEF RunAlong
<1>5. RunCharged' /\ RunSaved'
  BY <1>1, <1>2 DEF RunCharged, RunSaved
<1> QED BY <1>1, <1>3, <1>4, <1>5, NoResultYet DEF RunInv

\* A poll before the deadline may be repeated (environments/services.py).
LEMMA ReadyStep == RunInv /\ Run!Ready => RunInv'
<1> SUFFICES ASSUME RunInv, Run!Ready PROVE RunInv' OBVIOUS
<1>1. /\ step = "ready" /\ UNCHANGED <<operation, ran, version, reported, clean, result>>
      /\ step \in (Early \cup Late) \ {"command"} /\ step \in Early
      /\ "still alive" \in Early /\ "alive" \in Early /\ "still alive" \notin Late /\ "alive" \notin Late
  BY DEF Run!Ready, Early, Late
<1>2. PICK end \in Run!Ends :
          /\ Run!Receipt(end)
          /\ \/ end = "ok" /\ step' = "still alive" /\ UNCHANGED error
             \/ end \in {"ok", "nonzero"} /\ step' = "alive" /\ UNCHANGED error
             \/ end \in {"ok", "nonzero"} /\ step' = "cleanup" /\ error' = Run!SetupFailed
             \/ end \notin {"ok", "nonzero"} /\ step' = "cleanup" /\ error' = Run!ReadyError[end]
  BY DEF Run!Ready
<1>3. CASE step' \in {"still alive", "alive"} /\ end \in {"ok", "nonzero"} /\ UNCHANGED error
  <2>1. PICK then \in {"still alive", "alive"} : step' = then
    BY <1>3
  <2> QED BY <1>1, <1>2, <1>3, <2>1, GoesOn
<1>4. CASE end \in {"ok", "nonzero"} /\ step' = "cleanup" /\ error' = Run!SetupFailed
  <2>1. PICK e \in Errors : e = Run!SetupFailed
    BY ErrorsAre
  <2>2. e.category = "infrastructure" /\ end \in Run!Ends \cup Faults
    BY <2>1, ErrorsAre
  <2> QED BY <1>1, <1>2, <1>4, <2>1, <2>2, Raises
<1>5. CASE step' = "cleanup" /\ error' = Run!ReadyError[end]
  <2>1. /\ Run!ReadyError[end] \in Errors /\ Run!ReadyError[end].category = "infrastructure"
    BY ErrorsAre DEF Run!ReadyError, Run!Error, Errors, Reasons
  <2>2. PICK e \in Errors : e = Run!ReadyError[end]
    BY <2>1
  <2> QED BY <1>1, <1>2, <1>5, <2>1, <2>2, Raises
<1> QED BY <1>2, <1>3, <1>4, <1>5

\* What was captured is read, and refused or taken; a build saves no source.
LEMMA AcceptStep ==
    ASSUME RunInv,
           \/ Run!ReadWheel \/ Run!ReadProduct \/ Run!ReadSource
    PROVE  RunInv'
<1> USE PartsOfRun
<1>1. /\ step = "validate" /\ step \in Late /\ step' \in {"cleanup", "compare"}
      /\ UNCHANGED <<operation, receipts, ran, version, reported, clean, result>>
      /\ \/ error' = error /\ (step' = "cleanup" => operation.kind = "build")
         \/ error' = Run!Refused /\ step' = "cleanup"
  BY DEF Run!ReadWheel, Run!ReadProduct, Run!ReadSource, Run!Accept, Late
<1>2. /\ error = Nothing /\ Owned(receipts) /\ ran \in {Nothing, "ok", "nonzero"}
      /\ reported.source = 0 /\ reported.status = "last_confirmed"
  BY <1>1 DEF RunAlong
<1>3. step' \notin Early /\ (step' \in Late => step' = "compare") /\ (step' \in Over => step' = "cleanup")
  BY <1>1 DEF Early, Late, Over
<1>4. RunTyped'
  BY <1>1, ErrorsAre DEF RunTyped, Late, Over
<1>5. RunAlong'
  BY <1>1, <1>2, <1>3, ErrorsAre DEF RunAlong
<1>6. \A r \in Did(receipts) : r.end \notin Faults
  <2>1. ran # "monitor_failure"
    BY <1>2, ErrorsAre DEF Run!Ends
  <2> QED BY <1>2, <2>1 DEF RunCharged
<1>7. RunCharged'
  BY <1>1, <1>2, <1>3, <1>6, ErrorsAre DEF RunCharged
<1>8. operation.kind = "build" => ~operation.saves
  BY DEF RunTyped
<1>9. RunSaved'
  BY <1>1, <1>2, <1>3, <1>8, ErrorsAre DEF RunSaved
<1> QED BY <1>1, <1>4, <1>5, <1>7, <1>9, NoResultYet DEF RunInv

\* A source that is the one it was is not saved.
LEMMA CompareStep == RunInv /\ Run!Compare => RunInv'
<1> SUFFICES ASSUME RunInv, Run!Compare PROVE RunInv' OBVIOUS
<1> USE PartsOfRun
<1>1. /\ step = "compare" /\ step \in Late
      /\ UNCHANGED <<operation, receipts, error, ran, version, clean, result>>
      /\ \/ step' = "save" /\ UNCHANGED reported
         \/ step' = "cleanup" /\ reported' = [reported EXCEPT !.status = "unchanged"]
  BY DEF Run!Compare, Late
<1>2. reported = [source |-> reported.source, status |-> reported.status]
  BY DEF RunTyped
<1>3. /\ reported'.source = reported.source
      /\ reported' = [source |-> reported'.source, status |-> reported'.status]
      /\ \/ step' = "save" /\ reported'.status = reported.status
         \/ step' = "cleanup" /\ reported'.status = "unchanged"
  BY <1>1, <1>2
<1>4. /\ step' \notin Early /\ step' \in Late \cup Over
      /\ (step' \in Late => step' = "save") /\ (step' \in Over => step' = "cleanup")
  BY <1>1 DEF Early, Late, Over
<1>5. RunTyped'
  BY <1>1, <1>3, <1>4 DEF RunTyped
<1>6. RunAlong'
  BY <1>1, <1>3, <1>4 DEF RunAlong
<1>7. RunCharged' /\ RunSaved'
  BY <1>1, <1>3, <1>4 DEF RunCharged, RunSaved, RunAlong
<1> QED BY <1>1, <1>5, <1>6, <1>7, NoResultYet DEF RunInv

\* The requested command; however it ends, it is the candidate's own.
LEMMA RequestedStep == RunInv /\ Run!Requested => RunInv'
<1> SUFFICES ASSUME RunInv, Run!Requested PROVE RunInv' OBVIOUS
<1> USE PartsOfRun
<1>1. /\ step = "command" /\ step \in Early
      /\ UNCHANGED <<operation, error, version, reported, clean, result>>
  BY DEF Run!Requested, Early
<1>2. PICK end \in Run!Ends :
          /\ Run!Receipt(end) /\ ran' = end
          /\ step' = IF operation.saves /\ end \in {"ok", "nonzero"} THEN "export" ELSE "cleanup"
  BY DEF Run!Requested
<1>3. /\ receipts' \in Seq([step : Early \cup Late \cup Over, end : Run!Ends \cup Faults])
      /\ Did(receipts') = Did(receipts) \cup {[step |-> step, end |-> end]}
      /\ Owned(receipts')
  BY <1>1, <1>2, Received
<1>4. /\ error = Nothing /\ ran = Nothing /\ end # Nothing
      /\ reported.source = 0 /\ reported.status = "last_confirmed"
  BY <1>1, ErrorsAre DEF RunAlong
<1>5. /\ step' \notin Early /\ step' \in Late \cup Over
      /\ (step' \in Late => step' = "export" /\ operation.saves /\ end \in {"ok", "nonzero"})
      /\ (step' \in Over => step' = "cleanup" /\ ~(operation.saves /\ end \in {"ok", "nonzero"}))
  BY <1>2 DEF Early, Late, Over
<1>6. \A r \in Did(receipts) : r.step # "command" /\ r.end \notin Faults /\ (r.end = "ok" \/ r.step = "ready")
  <2>1. \A r \in Did(receipts) : r.step # "command"
    BY <1>4, ErrorsAre DEF RunAlong
  <2>2. ran # "monitor_failure"
    BY <1>4, ErrorsAre DEF Run!Ends
  <2> QED BY <1>4, <2>1, <2>2 DEF RunCharged
<1>7. RunTyped'
  BY <1>1, <1>2, <1>3, <1>5 DEF RunTyped
<1>8. RunAlong'
  <2>1. \A r \in Did(receipts') : r.step = "command" => r.end \in Run!Ends /\ r.end = end
    BY <1>3, <1>6
  <2> QED BY <1>1, <1>2, <1>3, <1>4, <1>5, <2>1 DEF RunAlong
<1>9. RunCharged'
  <2>1. end \in Faults => end = "monitor_failure"
    BY DEF Run!Ends, Faults
  <2>2. \A r \in Did(receipts') : r.end \in Faults => end = "monitor_failure"
    BY <1>3, <1>6, <2>1
  <2>3. \A r \in Did(receipts') : r.end = "ok" \/ r.step = "ready" \/ (r.step = "command" /\ r.end = end)
    BY <1>1, <1>3, <1>6
  <2> QED BY <1>1, <1>2, <1>4, <1>5, <2>2, <2>3 DEF RunCharged
<1>10. RunSaved'
  <2>1. "ok" \in {"ok", "nonzero"}
    OBVIOUS
  <2> QED BY <1>1, <1>2, <1>4, <1>5, <2>1 DEF RunSaved
<1> QED BY <1>1, <1>7, <1>8, <1>9, <1>10, NoResultYet DEF RunInv

LEMMA NoSourceStep == RunInv /\ Run!NoSource => RunInv'
<1> SUFFICES ASSUME RunInv, Run!NoSource PROVE RunInv' OBVIOUS
<1>1. /\ step \in (Early \cup Late) \ {"command"} /\ step \in Late
      /\ "nonzero" \in Run!Ends \cup Faults /\ "nonzero" \notin Faults
  BY DEF Run!NoSource, Early, Late, Run!Ends, Faults
<1>2. PICK e \in Errors : e = Run!Refused
  BY ErrorsAre
<1> QED BY <1>1, <1>2, Raises DEF Run!NoSource

\* The write of the record fails before or after it was written; the result is of a saved
\* source only when it was (environments/runtime.py, command_runtime.py).
LEMMA SaveStep == RunInv /\ Run!Save => RunInv'
<1> SUFFICES ASSUME RunInv, Run!Save PROVE RunInv' OBVIOUS
<1> USE PartsOfRun
<1>1. /\ step = "save" /\ step \in Late /\ step' = "cleanup"
      /\ UNCHANGED <<operation, ran, clean, result>>
  BY DEF Run!Save, Late
<1>2. /\ error = Nothing /\ Owned(receipts) /\ ran \in {Nothing, "ok", "nonzero"}
      /\ reported.source = 0 /\ reported.status = "last_confirmed"
      /\ reported = [source |-> reported.source, status |-> reported.status]
      /\ version \in Nat
  BY <1>1 DEF RunAlong, RunTyped
<1>3. step' \notin Early /\ step' \notin Late /\ step' \notin Over \ {"cleanup"}
  BY <1>1 DEF Early, Late, Over
<1>4. \A r \in Did(receipts) : r.end \notin Faults
  <2>1. ran # "monitor_failure"
    BY <1>2, ErrorsAre DEF Run!Ends
  <2> QED BY <1>2, <2>1 DEF RunCharged
<1>5. ASSUME NEW end \in {"ok", "nonzero", "storage"}, Run!Receipt(end),
             NEW e \in Errors \cup {Nothing}, error' = e,
             NEW v \in Nat, version' = v, NEW s, reported' = s, s.source \in Nat,
             s = [source |-> s.source, status |-> s.status],
             e = Nothing => end = "ok" /\ s.status = "saved",
             end = "storage" => e = Run!Infrastructure,
             s.status = "saved" \/ operation.runtime = "python" => s.source <= v
      PROVE  RunInv'
  <2>1. end \in Run!Ends \cup Faults
    BY DEF Run!Ends, Faults
  <2>2. /\ receipts' \in Seq([step : Early \cup Late \cup Over, end : Run!Ends \cup Faults])
        /\ Did(receipts') = Did(receipts) \cup {[step |-> step, end |-> end]}
        /\ Owned(receipts')
    BY <1>2, <1>5, <2>1, Received
  <2>3. RunTyped'
    BY <1>1, <1>5, <2>2 DEF RunTyped, Over
  <2>4. \A r \in Did(receipts') : r.step = "command" => r \in Did(receipts)
    BY <1>1, <2>2
  <2>5. RunAlong'
    BY <1>1, <1>3, <2>2, <2>4 DEF RunAlong
  <2>6. \A r \in Did(receipts') : r.end \in Faults => end = "storage"
    BY <1>4, <1>5, <2>2 DEF Faults
  <2>7. \A r \in Did(receipts') : r \in Did(receipts) \/ r.end = end
    BY <2>2
  <2>8. end = "storage" => e # Nothing /\ e.category = "infrastructure"
    BY <1>5, ErrorsAre
  <2>9. RunCharged'
    BY <1>1, <1>2, <1>3, <1>5, <2>2, <2>6, <2>7, <2>8 DEF RunCharged
  <2>10. RunSaved'
    BY <1>1, <1>5 DEF RunSaved
  <2> QED BY <1>1, <2>3, <2>5, <2>9, <2>10, NoResultYet DEF RunInv
<1>6. CASE /\ version' = version + 1 /\ UNCHANGED error
           /\ reported' = [source |-> version + 1, status |-> "saved"]
           /\ Run!Receipt("ok")
  <2>0. PICK v \in Nat : v = version + 1
    BY <1>2
  <2>1. PICK s : s = [source |-> v, status |-> "saved"]
    OBVIOUS
  <2>2. /\ s.source = v /\ s.status = "saved" /\ v <= v
        /\ s = [source |-> s.source, status |-> s.status]
    BY <2>1
  <2>3. PICK e \in {Nothing} : e = error
    BY <1>2
  <2> QED BY <1>2, <1>5, <1>6, <2>0, <2>1, <2>2, <2>3
<1>7. CASE /\ error' \in {Run!Infrastructure, Run!Refused} /\ UNCHANGED <<version, reported>>
           /\ Run!Receipt(IF error' = Run!Refused THEN "nonzero" ELSE "storage")
  <2>1. PICK e \in {Run!Infrastructure, Run!Refused} : error' = e
    BY <1>7
  <2>2. PICK end \in {"nonzero", "storage"} : /\ end = IF e = Run!Refused THEN "nonzero" ELSE "storage"
    OBVIOUS
  <2>3. e \in Errors /\ e # Nothing /\ Run!Receipt(end) /\ (end = "storage" => e = Run!Infrastructure)
    BY <1>7, <2>1, <2>2, ErrorsAre
  <2>4. PICK v, s : v \in Nat /\ v = version /\ s = reported
    BY <1>2
  <2>5. 0 <= v
    BY <2>4
  <2> QED BY <1>2, <1>5, <1>7, <2>1, <2>2, <2>3, <2>4, <2>5
<1>8. CASE /\ error' = Run!Infrastructure /\ version' \in {version, version + 1}
           /\ reported' = Run!Proposed
           /\ Run!Receipt("storage")
  <2>1. PICK v \in Nat : version' = v
    BY <1>2, <1>8
  <2>2. /\ version + 1 \in Nat
        /\ Run!Proposed = IF operation.runtime = "command"
                          THEN [source |-> version + 1, status |-> "last_confirmed"] ELSE reported
    BY <1>2 DEF Run!Proposed
  <2>3. PICK s : s = Run!Proposed
    OBVIOUS
  <2>4. /\ s = [source |-> s.source, status |-> s.status] /\ s.source \in Nat
        /\ s.status = "last_confirmed"
        /\ operation.runtime # "command" => s.source = 0
    BY <1>2, <2>2, <2>3
  <2>5. operation.runtime = "python" => s.source <= v
    <3>1. 0 <= v
      BY <2>1
    <3> QED BY <2>4, <3>1
  <2>6. PICK e \in Errors : e = Run!Infrastructure
    BY ErrorsAre
  <2> QED BY <1>5, <1>8, <2>1, <2>3, <2>4, <2>5, <2>6, ErrorsAre
<1> QED BY <1>6, <1>7, <1>8 DEF Run!Save

\* A cleanup that is not verified is nobody's but the infrastructure's.
LEMMA CleanupStep == RunInv /\ Run!Cleanup => RunInv'
<1> SUFFICES ASSUME RunInv, Run!Cleanup PROVE RunInv' OBVIOUS
<1> USE PartsOfRun
<1>1. /\ step = "cleanup" /\ step' = "evidence"
      /\ UNCHANGED <<operation, ran, version, reported, result>>
      /\ clean' \in BOOLEAN /\ error' \in (IF clean' THEN {error, Run!Infrastructure} ELSE {Run!Infrastructure})
  BY DEF Run!Cleanup
<1>2. PICK end \in {"ok", "cleanup"} : end = IF clean' /\ error' = error THEN "ok" ELSE "cleanup"
  OBVIOUS
<1>3. /\ Run!Receipt(end) /\ end \in Run!Ends \cup Faults
      /\ end = "cleanup" => error' = Run!Infrastructure
      /\ ~clean' => error' = Run!Infrastructure
      /\ error' = error \/ error' = Run!Infrastructure
  BY <1>1, <1>2 DEF Run!Cleanup, Run!Ends, Faults
<1>4. /\ receipts' \in Seq([step : Early \cup Late \cup Over, end : Run!Ends \cup Faults])
      /\ Did(receipts') = Did(receipts) \cup {[step |-> step, end |-> end]}
      /\ Owned(receipts) => Owned(receipts')
  BY <1>3, Received
<1>5. step' \notin Early /\ step' \notin Late /\ step \in Over /\ step' \in Over
  BY <1>1 DEF Early, Late, Over
<1>6. RunTyped'
  BY <1>1, <1>3, <1>4, <1>5, ErrorsAre DEF RunTyped
<1>7. RunAlong'
  <2>1. \A r \in Did(receipts') : r.step = "command" => r \in Did(receipts)
    BY <1>1, <1>4
  <2> QED BY <1>1, <1>4, <1>5, <2>1 DEF RunAlong
<1>8. RunCharged'
  <2>1. error' # Nothing /\ error'.category = "candidate" => error' = error
    BY <1>3, ErrorsAre
  <2>2. \A r \in Did(receipts') : r \in Did(receipts) \/ r.end = end
    BY <1>4
  <2>3. Run!Infrastructure # Nothing /\ Run!Infrastructure.category = "infrastructure"
    BY ErrorsAre
  <2>4. \A r \in Did(receipts') : r.end \in Faults => r \in Did(receipts) \/ error' = Run!Infrastructure
    BY <1>2, <1>3, <2>2 DEF Faults
  <2>5. error' = Nothing => error = Nothing /\ end = "ok"
    BY <1>2, <1>3, <2>3
  <2> QED BY <1>1, <1>3, <1>4, <2>1, <2>2, <2>3, <2>4, <2>5 DEF RunCharged
<1>9. RunSaved'
  BY <1>1, <1>3, <1>5, ErrorsAre DEF RunSaved
<1> QED BY <1>1, <1>6, <1>7, <1>8, <1>9, NoResultYet DEF RunInv

LEMMA PublishStep == RunInv /\ Run!Publish => RunInv'
<1> SUFFICES ASSUME RunInv, Run!Publish PROVE RunInv' OBVIOUS
<1> USE PartsOfRun
<1>1. /\ step \in {"evidence", "unpublished"} /\ step' \in {"unpublished", "published", "answered"}
      /\ UNCHANGED <<operation, receipts, error, ran, version, reported, clean>>
      /\ \/ UNCHANGED result
         \/ step' = "answered" /\ result' = [outcome |-> Run!Outcome, clean |-> clean, saved |-> reported]
  BY DEF Run!Publish
<1>2. /\ step' \notin Early \cup Late /\ step \notin Early \cup Late
      /\ step \in Over \ {"cleanup"} /\ step' \in Over \ {"cleanup"}
  BY <1>1 DEF Early, Late, Over
<1>3. RunTyped'
  BY <1>1, <1>2 DEF RunTyped
<1>4. RunAlong'
  BY <1>1, <1>2 DEF RunAlong
<1>5. RunCharged' /\ RunSaved'
  BY <1>1, <1>2 DEF RunCharged, RunSaved
<1>6. result = Nothing /\ Run!Outcome' = Run!Outcome
  BY <1>1 DEF RunInv, Run!Outcome
<1> QED BY <1>1, <1>3, <1>4, <1>5, <1>6 DEF RunInv

LEMMA RunStep == RunInv /\ Run!RunNext => RunInv'
BY Commands, NoServiceStep, ReadyStep, AcceptStep, CompareStep, RequestedStep, NoSourceStep, SaveStep,
   CleanupStep, PublishStep DEF Run!RunNext

LEMMA RunStutters == RunInv /\ UNCHANGED runOwn => RunInv'
<1> SUFFICES ASSUME RunInv, UNCHANGED runOwn PROVE RunInv' OBVIOUS
<1> USE DEF runOwn
<1>1. RunTyped' /\ RunAlong'
  BY DEF RunInv, RunTyped, RunAlong
<1>2. RunCharged' /\ RunSaved'
  BY DEF RunInv, RunCharged, RunSaved
<1>3. Run!Outcome' = Run!Outcome
  BY DEF Run!Outcome
<1> QED BY <1>1, <1>2, <1>3 DEF RunInv

LEMMA RunIsCharged == RunInv => Run!ChargedRight
<1> SUFFICES ASSUME RunInv, result # Nothing PROVE Run!ChargedRight
  BY DEF Run!ChargedRight, Run!InfrastructureIsNotCharged, Run!CompletedIsWhole, Run!SavedIsRecorded,
         Run!Charged
<1> USE PartsOfRun
<1>1. /\ step = "answered" /\ result.outcome = Run!Outcome /\ result.clean = clean /\ result.saved = reported
      /\ step \in Over /\ step \in Over \ {"cleanup"}
  BY DEF RunInv, Over
<1>2. \A i \in DOMAIN receipts : receipts[i] \in Did(receipts)
  BY DEF Did
<1>3. \A reason, category : Run!Error(reason, category).category = category
  BY DEF Run!Error
<1>4. error \in Errors \cup {Nothing} /\ ran \in Run!Ends \cup {Nothing}
  BY DEF RunTyped
<1>5. Run!InfrastructureIsNotCharged
  <2> SUFFICES ASSUME Run!Outcome.category = "candidate"
               PROVE  /\ clean /\ ~Run!Met({"monitor_failure", "storage", "cleanup"})
                      /\ \/ Run!Outcome = Run!OutOfBudget
                         \/ \E i \in DOMAIN receipts : receipts[i].step \in {"build", "command"}
    BY <1>1 DEF Run!InfrastructureIsNotCharged, Run!Charged
  <2>1. \/ error # Nothing /\ error.category = "candidate" /\ Run!Outcome = error
        \/ error = Nothing /\ ran # Nothing /\ ran # "monitor_failure"
    BY <1>3, ErrorsAre DEF Run!Outcome
  <2>2. clean
    BY <1>1, <2>1, ErrorsAre DEF RunCharged
  <2>3. \A r \in Did(receipts) : r.end \notin Faults
    BY <2>1 DEF RunCharged
  <2>4. ~Run!Met({"monitor_failure", "storage", "cleanup"})
    BY <1>2, <2>3 DEF Run!Met, Faults
  <2>5. Run!Outcome = Run!OutOfBudget \/ Owned(receipts)
    BY <2>1 DEF RunCharged, RunAlong
  <2> QED BY <2>2, <2>4, <2>5 DEF Owned, Did
<1>6. Run!CompletedIsWhole
  <2> SUFFICES ASSUME Run!Outcome.category = "none"
               PROVE  /\ clean
                      /\ \A i \in DOMAIN receipts : receipts[i].end = "ok" \/ receipts[i].step = "ready"
                      /\ operation.saves => reported.status \in {"saved", "unchanged"}
    BY <1>1 DEF Run!CompletedIsWhole, Run!Charged
  <2>1. error = Nothing /\ ran \in {Nothing, "ok"}
    BY <1>3, <1>4, ErrorsAre DEF Run!Outcome
  <2>2. clean
    BY <1>1, <2>1, ErrorsAre DEF RunCharged
  <2>3. \A r \in Did(receipts) : r.end = "ok" \/ r.step = "ready"
    BY <2>1, ErrorsAre DEF RunCharged, RunAlong
  <2> QED BY <1>1, <1>2, <2>1, <2>2, <2>3 DEF RunSaved
<1>7. Run!SavedIsRecorded
  BY <1>1 DEF Run!SavedIsRecorded, RunSaved
<1> QED BY <1>5, <1>6, <1>7 DEF Run!ChargedRight

\* Who pays for what went wrong, whatever went wrong with it, and what is called saved
\* (environments/runtime.py, command_runtime.py).
THEOREM ChargesStayRight == Spec => []ChargedRight
<1>1. Init => (route = "candidate" => RunInv)
  BY RunBegins DEF Init
<1>2. (route = "candidate" => RunInv) /\ [Next]_vars => (route = "candidate" => RunInv)'
  <2> SUFFICES ASSUME route = "candidate" => RunInv, [Next]_vars, route' = "candidate" PROVE RunInv'
    OBVIOUS
  <2>1. CASE Next
    BY <2>1, RunStep DEF Next
  <2>2. CASE UNCHANGED vars
    BY <2>2, RunStutters DEF vars
  <2> QED BY <2>1, <2>2
<1>3. (route = "candidate" => RunInv) => ChargedRight
  BY RunIsCharged DEF ChargedRight
<1> QED BY <1>1, <1>2, <1>3, PTL DEF Spec

(***************************************************************************)
(* A watched command                                                       *)
(***************************************************************************)

\* The command has ended with its group, and everything it wrote was read.
Whole == leader \in {"zombie", "reaped"} /\ others = "none" /\ read = written

\* A watch that ends by itself ends with the whole output, within the cap; a group that was
\* verified to be absent cannot write again.
CommandInv ==
    /\ runner \in Command!Runners
    /\ leader \in {"running", "doomed", "zombie", "reaped"} /\ others \in {"none", "live", "doomed"}
    /\ phase \in {"watching", "killing", "waiting", "checking", "collecting", "returned"}
    /\ written \in Nat /\ read \in Nat /\ verified \in BOOLEAN
    /\ runner # "generation" /\ phase = "watching" => read <= Cap
    /\ runner # "generation" /\ phase # "watching" /\ termination = "exited" => Whole /\ read <= Cap
    /\ verified => /\ phase \in {"collecting", "returned"} /\ leader = "reaped"
                   /\ runner # "docker" => others = "none"
    /\ runner = "generation" /\ phase = "returned" /\ verified =>
          read = written /\ (termination = "exited" => written <= Cap)

LEMMA CommandBegins == Command!Init => CommandInv
<1>1. 0 \in Nat /\ 0 <= Cap /\ FALSE \in BOOLEAN
  BY HostAssumption
<1>2. Command!Init => /\ read = 0 /\ written = 0 /\ phase = "watching" /\ verified = FALSE
                      /\ runner \in Command!Runners /\ leader = "running" /\ others = "none"
  BY DEF Command!Init
<1> QED BY <1>1, <1>2 DEF CommandInv

LEMMA ChildStep == CommandInv /\ Command!Child => CommandInv'
<1> SUFFICES ASSUME CommandInv, Command!Child PROVE CommandInv' OBVIOUS
<1>1. UNCHANGED <<runner, late, phase, read, termination, failures, verified>>
  BY DEF Command!Child, Command!callVars
<1>2. CASE Command!Fork
  BY <1>1, <1>2 DEF CommandInv, Whole, Command!Fork
<1>3. CASE Command!Write
  <2>1. /\ ~Whole /\ ~(verified /\ runner # "docker")
        /\ written' = written + 1 /\ UNCHANGED <<leader, status, others, closed>>
    BY <1>3 DEF CommandInv, Whole, Command!Write
  <2> QED BY <1>1, <2>1 DEF CommandInv, Whole, Command!Runners
<1>4. CASE Command!ClosePipes
  BY <1>1, <1>4 DEF CommandInv, Whole, Command!ClosePipes
<1>5. CASE Command!Exit
  BY <1>1, <1>5 DEF CommandInv, Whole, Command!Exit
<1>6. CASE Command!Die
  BY <1>1, <1>6 DEF CommandInv, Whole, Command!Die
<1>7. CASE Command!OthersExit
  BY <1>1, <1>7 DEF CommandInv, Whole, Command!OthersExit
<1> QED BY <1>2, <1>3, <1>4, <1>5, <1>6, <1>7 DEF Command!Child

\* What ends the watch besides the command's own end is told by its reason.
LEMMA BreachStep ==
    ASSUME CommandInv, NEW reason \in {"deadline", "output_cap", "memory_cap", "monitoring_failure",
                                       "interrupted", "monitor"},
           Command!Breached(reason), UNCHANGED <<runner, late>>
    PROVE  CommandInv'
<1>1. /\ phase = "watching" /\ phase' = "killing" /\ termination' = reason /\ reason # "exited"
      /\ UNCHANGED <<runner, leader, others, written, read, verified>>
  BY DEF Command!Breached, Command!Stop, Command!childVars
<1> QED BY <1>1 DEF CommandInv

LEMMA WatcherStep == CommandInv /\ Command!Watcher => CommandInv'
<1> SUFFICES ASSUME CommandInv, Command!Watcher PROVE CommandInv' OBVIOUS
<1>1. UNCHANGED <<runner, late>>
  BY DEF Command!Watcher
<1>2. CASE Command!Breached("deadline")
  BY <1>1, <1>2, BreachStep
<1>3. CASE Command!Read
  <2>1. /\ phase = "watching" /\ runner # "generation" /\ read < written /\ read' = read + 1
        /\ UNCHANGED <<leader, others, written, verified>>
        /\ \/ read < Cap /\ UNCHANGED <<phase, termination>>
           \/ phase' = "killing" /\ termination' = "output_cap"
    BY <1>3 DEF Command!Read, Command!Stop, Command!childVars
  <2> QED BY <1>1, <2>1, HostAssumption DEF CommandInv
<1>4. CASE Command!Finish
  <2>1. /\ phase = "watching" /\ phase' = "killing" /\ leader \in {"zombie", "reaped"}
        /\ leader' = "reaped" /\ termination' = termination
        /\ UNCHANGED <<others, written, read, verified>>
        /\ runner # "generation" => others = "none" /\ read = written
    BY <1>4 DEF Command!Finish, Command!Ended, Command!EndOfFile, Command!Reap, Command!Stop
  <2> QED BY <1>1, <2>1 DEF CommandInv, Whole
<1>5. CASE Command!Kill
  BY <1>1, <1>5 DEF CommandInv, Whole, Command!Kill, Command!KillGroup
<1>6. CASE Command!Wait
  BY <1>1, <1>6 DEF CommandInv, Whole, Command!Wait, Command!Reap
<1>7. CASE Command!Check
  <2>0. /\ phase = "checking" /\ phase' = "collecting" /\ UNCHANGED <<written, read>>
        /\ verified' = Command!GroupAbsent /\ ~verified
    BY <1>7 DEF CommandInv, Command!Check
  <2>1. CASE Command!GroupAbsent
    <3>1. /\ verified' = TRUE /\ leader = "reaped" /\ (runner # "docker" => others = "none")
          /\ UNCHANGED <<leader, others, termination>>
      BY <1>7, <2>0, <2>1 DEF Command!Check, Command!GroupAbsent
    <3> QED BY <1>1, <2>0, <3>1 DEF CommandInv, Whole
  <2>2. CASE ~Command!GroupAbsent
    <3>1. /\ verified' = FALSE /\ termination' = "cleanup_failure"
          /\ leader' \in {leader, "doomed"} /\ others' \in {others, "doomed"}
      BY <1>7, <2>0, <2>2 DEF Command!Check, Command!KillGroup
    <3> QED BY <1>1, <2>0, <3>1 DEF CommandInv
  <2> QED BY <2>1, <2>2
<1>8. CASE Command!Collect
  BY <1>1, <1>8, HostAssumption DEF CommandInv, Whole, Command!Collect, Command!childVars
<1> QED BY <1>2, <1>3, <1>4, <1>5, <1>6, <1>7, <1>8 DEF Command!Watcher

LEMMA CommandStep == CommandInv /\ Command!Next => CommandInv'
<1> SUFFICES ASSUME CommandInv, Command!Next PROVE CommandInv' OBVIOUS
<1>1. CASE Command!Time
  BY <1>1 DEF CommandInv, Whole, Command!Time, Command!childVars, Command!callVars
<1>2. CASE Command!Mishap
  BY <1>2, BreachStep DEF Command!Mishap
<1> QED BY <1>1, <1>2, ChildStep, WatcherStep DEF Command!Next

LEMMA CommandStutters == CommandInv /\ UNCHANGED <<commandOwn, phase>> => CommandInv'
BY DEF CommandInv, Whole, commandOwn

\* A command is taken for complete only with all of its output and, but for docker's client,
\* none of its group left (generation/runner.py, history/git.py, environments/docker.py).
THEOREM AcceptedStaysWhole == Spec => []AcceptedIsWhole
<1>1. Init => (route = "command" => CommandInv)
  BY CommandBegins DEF Init
<1>2. (route = "command" => CommandInv) /\ [Next]_vars => (route = "command" => CommandInv)'
  <2> SUFFICES ASSUME route = "command" => CommandInv, [Next]_vars, route' = "command" PROVE CommandInv'
    OBVIOUS
  <2>1. CASE Next
    BY <2>1, CommandStep DEF Next
  <2>2. CASE UNCHANGED vars
    BY <2>2, CommandStutters DEF vars
  <2> QED BY <2>1, <2>2
<1>3. (route = "command" => CommandInv) => AcceptedIsWhole
  BY DEF CommandInv, Whole, AcceptedIsWhole, Command!AcceptedIsWhole, Command!Accepted, Command!Runners
<1> QED BY <1>1, <1>2, <1>3, PTL DEF Spec

(***************************************************************************)
(* A workspace and its containers                                          *)
(***************************************************************************)

\* Where a process holds the lock of the state directory; where it has an operation; where
\* the session of that one is open, on record, admitted.
Admitted == {"create", "created", "start", "running", "run", "save"}
Recorded == Admitted \cup {"admit"}
Opened == Recorded \cup {"intent"}
Working == Opened \cup {"pending", "inspect", "remove", "absent", "removed", "unverified", "left"}
Holding == Working \cup {"recovering", "look up", "freeze", "point", "resolved", "unlock", "settling"}

Asked(o, what) == <<o, what>> \in asked

\* A container that does not run and cannot be started by what the daemon may still do.
Dead(o) == container[o] # "running" /\ (Asked(o, "start") => container[o] = "none" /\ ~Asked(o, "create"))

MemShape(m) == m = [kind |-> m.kind, op |-> m.op, seen |-> m.seen, resolution |-> m.resolution,
                    failed |-> m.failed, verified |-> m.verified]

DockerTyped ==
    /\ pc = [p \in Process |-> pc[p]] /\ mem = [p \in Process |-> mem[p]]
    /\ \A p \in Process : MemShape(mem[p])
    /\ phase = [o \in Docker!Ops |-> phase[o]] /\ container = [o \in Docker!Ops |-> container[o]]
    /\ asked \subseteq Docker!Ops \X {"create", "start"}

\* Before its record there is no container; after it, and once a result has told so, it is
\* dead; what was given up at its creation is never started.
RecordsHold ==
    /\ \A o \in Docker!Ops :
          /\ phase[o] = "none" => container[o] = "none" /\ ~Asked(o, "create") /\ ~Asked(o, "start")
          /\ phase[o] = "removed" \/ o \in told => Dead(o)
          /\ Asked(o, "start") => ~Asked(o, "create")
    /\ pointer # 0 => pointer = request

\* What a process knows of its operation, of the workspace and of the frozen request.
Knows(p) ==
    LET o == mem[p].op IN
    /\ pc[p] \in Holding => lock = p
    /\ pc[p] \in Working => o \in Docker!Ops
    /\ pc[p] \in {"intent", "admit", "create"} =>
          container[o] = "none" /\ ~Asked(o, "create") /\ ~Asked(o, "start")
    /\ pc[p] \in {"created", "start"} => ~Asked(o, "create")
    /\ pc[p] \in Opened => o \notin told
    /\ pc[p] \in Recorded => phase[o] \notin {"none", "removed"}
    /\ pc[p] \in Admitted => ~workspace.closed /\ workspace.generation = mem[p].seen.generation
    /\ mem[p].verified => pc[p] \in {"removed", "unverified", "left"} /\ Dead(o)
    /\ pc[p] = "removed" => mem[p].verified
    /\ pc[p] = "freeze" => request = 0 /\ pointer = 0
    /\ pc[p] = "point" => pointer = 0 /\ mem[p].resolution = request

DockerInv == DockerTyped /\ RecordsHold /\ \A p \in Process : Knows(p)

LEMMA DockerBegins == Docker!Init => DockerInv
<1> SUFFICES ASSUME Docker!Init PROVE DockerInv OBVIOUS
<1>1. MemShape(Docker!Forgotten) /\ Docker!Forgotten.verified = FALSE
  BY DEF Docker!Forgotten, MemShape
<1>2. "idle" \notin Holding /\ "idle" \notin Working
  BY DEF Holding, Working, Opened, Recorded, Admitted
<1>3. DockerTyped
  BY <1>1 DEF Docker!Init, DockerTyped
<1>4. RecordsHold
  BY DEF Docker!Init, RecordsHold, Asked, Dead
<1>5. ASSUME NEW p \in Process PROVE Knows(p)
  <2>1. pc[p] = "idle" /\ mem[p].verified = FALSE
    BY <1>1 DEF Docker!Init
  <2>2. pc[p] \notin Opened /\ pc[p] \notin Recorded /\ pc[p] \notin Admitted
    BY <1>2, <2>1 DEF Working, Opened, Recorded, Admitted
  <2> QED BY <1>2, <2>1, <2>2 DEF Knows
<1> QED BY <1>3, <1>4, <1>5 DEF DockerInv

\* A step of one process: what it does not hold the lock for it leaves as it is.
OwnStep(p) ==
    /\ pc' = [q \in Process |-> pc'[q]] /\ mem' = [q \in Process |-> mem'[q]]
    /\ \A q \in Process \ {p} : pc'[q] = pc[q] /\ mem'[q] = mem[q]
    /\ MemShape(mem'[p])
    /\ \A q \in Process \ {p} : lock = q =>
          UNCHANGED <<lock, phase, container, asked, workspace, request, pointer, told>>

LEMMA OthersKnow ==
    ASSUME DockerInv, NEW p \in Process, OwnStep(p),
           phase' = [o \in Docker!Ops |-> phase'[o]],
           container' = [o \in Docker!Ops |-> container'[o]],
           asked' \subseteq Docker!Ops \X {"create", "start"},
           RecordsHold', Knows(p)'
    PROVE  DockerInv'
<1>1. DockerTyped'
  BY DEF DockerInv, DockerTyped, OwnStep
<1>2. ASSUME NEW q \in Process \ {p} PROVE Knows(q)'
  <2>1. pc'[q] = pc[q] /\ mem'[q] = mem[q] /\ Knows(q)
    BY DEF DockerInv, OwnStep
  <2>2. CASE pc[q] \in Holding
    <3>1. UNCHANGED <<lock, phase, container, asked, workspace, request, pointer, told>>
      BY <2>1, <2>2 DEF Knows, OwnStep
    <3> QED BY <2>1, <3>1 DEF Knows, Dead, Asked
  <2>3. CASE pc[q] \notin Holding
    <3>1. /\ pc[q] \notin Working /\ pc[q] \notin Opened /\ pc[q] \notin Recorded /\ pc[q] \notin Admitted
          /\ pc[q] \notin {"intent", "admit", "create", "created", "start", "removed", "freeze",
                           "point", "unverified", "left"}
      BY <2>3 DEF Holding, Working, Opened, Recorded, Admitted
    <3>2. ~mem[q].verified
      BY <2>1, <3>1 DEF Knows
    <3> QED BY <2>1, <2>3, <3>1, <3>2 DEF Knows
  <2> QED BY <2>2, <2>3
<1> QED BY <1>1, <1>2 DEF DockerInv

Daemon == <<phase, container, asked, workspace, request, pointer, told>>

\* A step that leaves the disk and the daemon alone.
LEMMA QuietStep ==
    ASSUME DockerInv, NEW p \in Process, OwnStep(p), UNCHANGED Daemon, Knows(p)'
    PROVE  DockerInv'
<1>1. RecordsHold'
  BY DEF DockerInv, RecordsHold, Daemon, Asked, Dead
<1> QED BY <1>1, OthersKnow DEF DockerInv, DockerTyped, Daemon

\* What p does to its own place and memory.
LEMMA OwnMoves ==
    ASSUME DockerInv, NEW p \in Process, NEW l, NEW m, MemShape(m),
           pc' = [pc EXCEPT ![p] = l], mem' = [mem EXCEPT ![p] = m],
           lock = p \/ lock' = lock \/ lock = Nobody,
           lock = p \/ UNCHANGED Daemon
    PROVE  OwnStep(p) /\ pc'[p] = l /\ mem'[p] = m
<1>1. /\ pc' = [q \in Process |-> pc'[q]] /\ mem' = [q \in Process |-> mem'[q]]
      /\ \A q \in Process \ {p} : pc'[q] = pc[q] /\ mem'[q] = mem[q]
      /\ pc'[p] = l /\ mem'[p] = m
  BY DEF DockerInv, DockerTyped
<1>2. ASSUME NEW q \in Process \ {p}, lock = q
      PROVE  UNCHANGED <<lock, phase, container, asked, workspace, request, pointer, told>>
  BY <1>2, HostAssumption DEF Daemon
<1> QED BY <1>1, <1>2 DEF OwnStep

\* Who leaves its lock knows nothing any more.
LEMMA Raised ==
    ASSUME DockerInv, NEW p \in Process, Docker!Raise(p), UNCHANGED Daemon
    PROVE  DockerInv'
<1>1. MemShape(Docker!Forgotten) /\ Docker!Forgotten.verified = FALSE
  BY DEF Docker!Forgotten, MemShape
<1>2. PICK m : m = Docker!Forgotten
  OBVIOUS
<1>3. OwnStep(p) /\ pc'[p] = "idle" /\ mem'[p] = m
  BY <1>1, <1>2, OwnMoves DEF Docker!Raise, Docker!Goto
<1>4. /\ "idle" \notin Holding /\ "idle" \notin Working /\ "idle" \notin Opened
      /\ "idle" \notin Recorded /\ "idle" \notin Admitted
  BY DEF Holding, Working, Opened, Recorded, Admitted
<1>5. Knows(p)'
  BY <1>1, <1>2, <1>3, <1>4 DEF Knows
<1> QED BY <1>3, <1>5, QuietStep

\* A place without the lock, with no operation.
Outside == {"idle", "recover", "read", "resolve", "enter", "settle"}

LEMMA OutsideKnows ==
    ASSUME NEW p \in Process, pc'[p] \in Outside \cup {"recovering", "look up", "resolved", "unlock", "settling"},
           pc'[p] \in Outside \/ lock' = p, ~mem'[p].verified
    PROVE  Knows(p)'
<1>1. /\ pc'[p] \notin Working /\ pc'[p] \notin Opened /\ pc'[p] \notin Recorded /\ pc'[p] \notin Admitted
      /\ pc'[p] \notin {"intent", "admit", "create", "created", "start", "removed", "freeze", "point"}
      /\ pc'[p] \in Outside => pc'[p] \notin Holding
  BY DEF Outside, Holding, Working, Opened, Recorded, Admitted
<1> QED BY <1>1 DEF Knows

LEMMA LockStep ==
    ASSUME DockerInv, NEW p \in Process, NEW label \in Outside, NEW ok \in {"recovering", "look up", "settling"},
           Docker!Lock(p, label, ok)
    PROVE  DockerInv'
<1>1. pc[p] = label /\ UNCHANGED Daemon
  BY DEF Docker!Lock, Docker!At, Docker!disk, Docker!daemon, Daemon
<1>2. CASE lock = Nobody
  <2>1. /\ lock' = p /\ pc' = [pc EXCEPT ![p] = ok] /\ mem' = mem
    BY <1>2 DEF Docker!Lock, Docker!Goto
  <2>2. PICK m : m = mem[p]
    OBVIOUS
  <2>3. MemShape(m) /\ mem' = [mem EXCEPT ![p] = m] /\ Knows(p)
    BY <2>1, <2>2 DEF DockerInv, DockerTyped
  <2>4. OwnStep(p) /\ pc'[p] = ok /\ mem'[p] = m
    BY <1>1, <1>2, <2>1, <2>3, OwnMoves
  <2>5. ~m.verified
    BY <1>1, <2>2, <2>3 DEF Knows, Outside
  <2> QED BY <1>1, <2>1, <2>4, <2>5, OutsideKnows, QuietStep
<1>3. CASE lock # Nobody
  BY <1>1, <1>3, Raised DEF Docker!Lock
<1> QED BY <1>2, <1>3

LEMMA Own ==
    ASSUME DockerInv, NEW p \in Process
    PROVE  /\ Knows(p) /\ MemShape(mem[p]) /\ mem = [mem EXCEPT ![p] = mem[p]]
           /\ pc[p] \in Holding => lock = p
BY DEF DockerInv, DockerTyped, Knows

\* Every operation first recovers what was left.
LEMMA Asking == ASSUME DockerInv, NEW p \in Process, Docker!Asks(p) PROVE DockerInv'
<1>1. PICK kind \in {"build", "execute", "reset", "close", "recover"} : Docker!Start(p, kind)
  BY DEF Docker!Asks
<1>2. PICK m : m = [Docker!Forgotten EXCEPT !.kind = kind]
  OBVIOUS
<1>3. MemShape(m) /\ m.verified = FALSE
  BY <1>2 DEF MemShape, Docker!Forgotten
<1>4. /\ pc' = [pc EXCEPT ![p] = "recover"] /\ mem' = [mem EXCEPT ![p] = m] /\ lock' = lock
      /\ UNCHANGED Daemon
  BY <1>1, <1>2 DEF Docker!Start, Docker!Goto, Docker!disk, Docker!daemon, Daemon
<1>5. OwnStep(p) /\ pc'[p] = "recover" /\ mem'[p] = m
  BY <1>3, <1>4, OwnMoves
<1>6. "recover" \in Outside
  BY DEF Outside
<1> QED BY <1>3, <1>4, <1>5, <1>6, OutsideKnows, QuietStep

\* A record that is found owns the operation; none left, the recovery is over.
LEMMA RecoveringStep == ASSUME DockerInv, NEW p \in Process, Docker!Recovering(p) PROVE DockerInv'
<1>1. pc[p] = "recovering" /\ lock = p /\ Knows(p) /\ ~mem[p].verified /\ MemShape(mem[p]) /\ UNCHANGED Daemon
  BY Own DEF Docker!Recovering, Docker!At, Docker!disk, Docker!daemon, Daemon, Holding, Knows
<1>2. CASE Docker!Unowned # {}
  <2>1. PICK o \in Docker!Unowned : mem' = [mem EXCEPT ![p].op = o]
    BY <1>2 DEF Docker!Recovering
  <2>2. PICK m : m = [mem[p] EXCEPT !.op = o]
    OBVIOUS
  <2>3. MemShape(m) /\ m.verified = mem[p].verified /\ m.op = o /\ o \in Docker!Ops
    BY <1>1, <2>1, <2>2 DEF MemShape, Docker!Unowned
  <2>4. /\ pc' = [pc EXCEPT ![p] = "pending"] /\ mem' = [mem EXCEPT ![p] = m] /\ lock' = p
    BY <1>1, <1>2, <2>1, <2>2 DEF Docker!Recovering, Docker!Goto
  <2>5. OwnStep(p) /\ pc'[p] = "pending" /\ mem'[p] = m
    BY <1>1, <2>3, <2>4, OwnMoves
  <2>6. "pending" \notin Opened /\ "pending" \notin Recorded /\ "pending" \notin Admitted
    BY DEF Opened, Recorded, Admitted
  <2>7. Knows(p)'
    BY <1>1, <2>3, <2>4, <2>5, <2>6 DEF Knows
  <2> QED BY <1>1, <2>5, <2>7, QuietStep
<1>3. CASE Docker!Unowned = {}
  <2>0. MemShape(Docker!Forgotten) /\ Docker!Forgotten.verified = FALSE
    BY DEF Docker!Forgotten, MemShape
  <2>1. PICK l, m : /\ l \in {"idle", "read"} /\ m = IF mem[p].kind = "recover" THEN Docker!Forgotten ELSE mem[p]
                    /\ l = IF mem[p].kind = "recover" THEN "idle" ELSE "read"
    OBVIOUS
  <2>2. /\ pc' = [pc EXCEPT ![p] = l] /\ mem' = [mem EXCEPT ![p] = m]
        /\ MemShape(m) /\ ~m.verified
    BY <1>1, <1>3, <2>0, <2>1, Own DEF Docker!Recovering, Docker!Goto
  <2>3. OwnStep(p) /\ pc'[p] = l /\ mem'[p] = m
    BY <1>1, <2>2, OwnMoves
  <2>4. l \in Outside
    BY <2>1 DEF Outside
  <2> QED BY <1>1, <2>2, <2>3, <2>4, OutsideKnows, QuietStep
<1> QED BY <1>2, <1>3

\* The workspace is read before the lock is taken.
LEMMA ReadStep == ASSUME DockerInv, NEW p \in Process, Docker!Read(p) PROVE DockerInv'
<1>1. pc[p] = "read" /\ Knows(p) /\ ~mem[p].verified /\ MemShape(mem[p]) /\ UNCHANGED Daemon
  BY Own DEF Docker!Read, Docker!At, Docker!disk, Docker!daemon, Daemon, Knows
<1>2. CASE workspace.closed
  BY <1>1, <1>2, Raised DEF Docker!Read
<1>3. CASE ~workspace.closed
  <2>1. PICK s : s = [generation |-> workspace.generation, saved |-> workspace.saved]
    OBVIOUS
  <2>2. PICK m : m = [mem[p] EXCEPT !.op = 0, !.seen = s]
    OBVIOUS
  <2>3. PICK l \in {"settle", "resolve"} : l = IF mem[p].kind \in {"reset", "close"} THEN "settle" ELSE "resolve"
    OBVIOUS
  <2>4. MemShape(m) /\ m.verified = mem[p].verified
    BY <1>1, <2>2 DEF MemShape
  <2>5. mem' = [mem EXCEPT ![p] = m]
    BY <1>1, <1>3, <2>1, <2>2 DEF Docker!Read
  <2>6. pc' = [pc EXCEPT ![p] = l] /\ lock' = lock
    BY <1>3, <2>3 DEF Docker!Read, Docker!Goto
  <2>7. OwnStep(p) /\ pc'[p] = l /\ mem'[p] = m
    BY <1>1, <2>4, <2>5, <2>6, OwnMoves
  <2>8. l \in Outside
    BY DEF Outside
  <2> QED BY <1>1, <2>4, <2>7, <2>8, OutsideKnows, QuietStep
<1> QED BY <1>2, <1>3

\* A request frozen before is not solved again, a candidate's pointer is followed
\* (environments/runtime.py, candidate_dependencies).
LEMMA LookUpStep == ASSUME DockerInv, NEW p \in Process, Docker!LookUp(p) PROVE DockerInv'
<1>1. pc[p] = "look up" /\ lock = p /\ Knows(p) /\ ~mem[p].verified /\ MemShape(mem[p]) /\ UNCHANGED Daemon
  BY Own DEF Docker!LookUp, Docker!At, Docker!disk, Docker!daemon, Daemon, Holding, Knows
<1>2. CASE Docker!Unowned # {}
  BY <1>1, <1>2, Raised DEF Docker!LookUp
<1>3. ASSUME NEW l, NEW r, pc' = [pc EXCEPT ![p] = l], mem' = [mem EXCEPT ![p].resolution = r],
             \/ l = "enter"
             \/ l = "point" /\ lock' = p /\ pointer = 0 /\ r = request
             \/ l = "freeze" /\ lock' = p /\ pointer = 0 /\ request = 0
      PROVE  DockerInv'
  <2>1. PICK m : m = [mem[p] EXCEPT !.resolution = r]
    OBVIOUS
  <2>2. MemShape(m) /\ m.verified = mem[p].verified /\ m.resolution = r
    BY <1>1, <2>1 DEF MemShape
  <2>0. mem' = [mem EXCEPT ![p] = m]
    BY <1>3, <2>1
  <2>3. OwnStep(p) /\ pc'[p] = l /\ mem'[p] = m
    <3>1. pc' = [pc EXCEPT ![p] = l]
      BY <1>3
    <3>2. lock = p /\ MemShape(m)
      BY <1>1, <2>2
    <3> QED BY <2>0, <3>1, <3>2, OwnMoves
  <2>4. /\ l \notin Working /\ l \notin Opened /\ l \notin Recorded /\ l \notin Admitted
        /\ l \notin {"intent", "admit", "create", "created", "start", "removed"}
        /\ l = "enter" => l \notin Holding
    BY <1>3 DEF Holding, Working, Opened, Recorded, Admitted
  <2>5. l = "point" => pointer' = 0 /\ m.resolution = request'
    BY <1>1, <1>3, <2>2 DEF Daemon
  <2>6. l = "freeze" => pointer' = 0 /\ request' = 0
    BY <1>1, <1>3 DEF Daemon
  <2>7. Knows(p)'
    BY <1>1, <1>3, <2>2, <2>3, <2>4, <2>5, <2>6 DEF Knows
  <2> QED BY <1>1, <2>3, <2>7, QuietStep
<1>4. CASE Docker!Unowned = {}
  <2>1. CASE pointer # 0
    <3>1. PICK r : r = pointer
      OBVIOUS
    <3> QED BY <1>3, <1>4, <2>1, <3>1 DEF Docker!LookUp, Docker!Goto
  <2>2. CASE pointer = 0 /\ Docker!Frozen # 0
    <3>1. PICK r : r = request
      OBVIOUS
    <3> QED BY <1>1, <1>3, <1>4, <2>2, <3>1 DEF Docker!LookUp, Docker!Goto, Docker!Frozen
  <2>3. CASE pointer = 0 /\ Docker!Frozen = 0
    <3>1. PICK r : r = snapshots + 1
      OBVIOUS
    <3> QED BY <1>1, <1>3, <1>4, <2>3, <3>1 DEF Docker!LookUp, Docker!Goto, Docker!Frozen
  <2> QED BY <2>1, <2>2, <2>3
<1> QED BY <1>2, <1>4

LEMMA LeaveLock ==
    ASSUME DockerInv, NEW p \in Process, Docker!Resolved(p) \/ Docker!Unlock(p) \/ Docker!Crash(p)
    PROVE  DockerInv'
<1>1. UNCHANGED Daemon
  BY DEF Docker!Resolved, Docker!Unlock, Docker!Crash, Docker!disk, Docker!daemon, Daemon
<1>2. CASE Docker!Resolved(p)
  <2>1. /\ pc[p] = "resolved" /\ lock = p /\ Knows(p) /\ MemShape(mem[p]) /\ mem' = [mem EXCEPT ![p] = mem[p]]
        /\ pc' = [pc EXCEPT ![p] = "enter"] /\ ~mem[p].verified
    BY <1>2, Own DEF Docker!Resolved, Docker!At, Docker!Goto, Holding, Knows
  <2>2. PICK m : m = mem[p]
    OBVIOUS
  <2>3. OwnStep(p) /\ pc'[p] = "enter" /\ mem'[p] = m
    BY <1>1, <2>1, <2>2, OwnMoves
  <2>4. "enter" \in Outside
    BY DEF Outside
  <2> QED BY <1>1, <2>1, <2>2, <2>3, <2>4, OutsideKnows, QuietStep
<1>3. CASE Docker!Unlock(p) \/ Docker!Crash(p)
  BY <1>1, <1>3, Raised DEF Docker!Unlock, Docker!Crash
<1> QED BY <1>2, <1>3

\* The session's own, unused identifier (environments/docker.py, DockerSession).
LEMMA EnterStep == ASSUME DockerInv, NEW p \in Process, Docker!Enter(p) PROVE DockerInv'
<1>1. pc[p] = "enter" /\ Knows(p) /\ ~mem[p].verified /\ MemShape(mem[p]) /\ UNCHANGED Daemon
  BY Own DEF Docker!Enter, Docker!At, Docker!disk, Docker!daemon, Daemon, Knows
<1>2. CASE lock # Nobody \/ Docker!Fresh = {}
  BY <1>1, <1>2, Raised DEF Docker!Enter
<1>3. CASE ~(lock # Nobody \/ Docker!Fresh = {})
  <2>1. PICK o \in Docker!Fresh : o = CHOOSE q \in Docker!Fresh : TRUE
    BY <1>3
  <2>2. o \in Docker!Ops /\ phase[o] = "none" /\ o \notin told
    BY <2>1 DEF Docker!Fresh
  <2>3. PICK m : m = [mem[p] EXCEPT !.op = o]
    OBVIOUS
  <2>4. MemShape(m) /\ m.verified = mem[p].verified /\ m.op = o
    BY <1>1, <2>3 DEF MemShape
  <2>5. /\ pc' = [pc EXCEPT ![p] = "intent"] /\ lock' = p /\ lock = Nobody
        /\ mem' = [mem EXCEPT ![p] = m]
    BY <1>1, <1>3, <2>1, <2>3 DEF Docker!Enter, Docker!Goto
  <2>6. OwnStep(p) /\ pc'[p] = "intent" /\ mem'[p] = m
    BY <1>1, <2>4, <2>5, OwnMoves
  <2>7. container[o] = "none" /\ ~Asked(o, "create") /\ ~Asked(o, "start")
    BY <2>2 DEF DockerInv, RecordsHold
  <2>8. "intent" \notin Recorded /\ "intent" \notin Admitted
    BY DEF Recorded, Admitted
  <2>9. Knows(p)'
    BY <1>1, <2>2, <2>4, <2>5, <2>6, <2>7, <2>8 DEF Knows, Daemon, Asked
  <2> QED BY <1>1, <2>6, <2>9, QuietStep
<1> QED BY <1>2, <1>3

\* Under the lock the place changes, or the absence is noted; the operation is the same one.
LEMMA WorkingOn ==
    ASSUME DockerInv, NEW p \in Process, lock = p, lock' = lock, UNCHANGED Daemon,
           NEW l, pc' = [pc EXCEPT ![p] = l], NEW v \in BOOLEAN,
           mem' = IF v THEN [mem EXCEPT ![p].verified = TRUE] ELSE mem,
           pc[p] \in Working,
           \/ l = "create" /\ pc[p] = "admit" /\ Docker!Admitted(p) /\ ~v
           \/ l = "save" /\ pc[p] = "run" /\ ~v
           \/ l \in {"pending", "inspect", "remove", "absent", "unverified"} /\ ~v /\ ~mem[p].verified
           \/ l = "removed" /\ v /\ Dead(mem[p].op)
    PROVE  DockerInv'
<1>1. Knows(p) /\ MemShape(mem[p]) /\ mem = [mem EXCEPT ![p] = mem[p]]
  BY Own
<1>2. PICK m : m = IF v THEN [mem[p] EXCEPT !.verified = TRUE] ELSE mem[p]
  OBVIOUS
<1>3. /\ MemShape(m) /\ m.op = mem[p].op /\ m.seen = mem[p].seen
      /\ m.verified = IF v THEN TRUE ELSE mem[p].verified
  BY <1>1, <1>2 DEF MemShape
<1>4. mem' = [mem EXCEPT ![p] = m]
  BY <1>1, <1>2
<1>5. OwnStep(p) /\ pc'[p] = l /\ mem'[p] = m
  BY <1>3, <1>4, OwnMoves
<1>6. mem[p].op \in Docker!Ops
  BY <1>1 DEF Knows
<1>7. CASE l = "create" \/ l = "save"
  <2>1. /\ l \in Admitted /\ l \in Recorded /\ l \in Opened /\ pc[p] \in Recorded /\ pc[p] \in Opened
        /\ l = "save" => pc[p] \in Admitted
        /\ l \notin {"intent", "admit", "created", "start", "removed", "freeze", "point"}
        /\ pc[p] \notin {"removed", "unverified", "left"}
    BY <1>7 DEF Admitted, Recorded, Opened
  <2>0. l = "create" => Docker!Admitted(p)
    OBVIOUS
  <2>2. ~workspace.closed /\ workspace.generation = mem[p].seen.generation
    <3>1. CASE l = "create"
      BY <2>0, <3>1 DEF Docker!Admitted
    <3>2. CASE l = "save"
      BY <1>1, <2>1, <3>2 DEF Knows
    <3> QED BY <1>7, <3>1, <3>2
  <2> QED BY <1>1, <1>3, <1>5, <1>6, <1>7, <2>1, <2>2, QuietStep DEF Knows, Daemon, Asked
<1>8. CASE l # "create" /\ l # "save"
  <2>1. /\ l \notin Opened /\ l \notin Recorded /\ l \notin Admitted
        /\ l \notin {"intent", "admit", "create", "created", "start", "freeze", "point"}
    BY <1>8 DEF Admitted, Recorded, Opened
  <2>2. m.verified => l = "removed" /\ Dead(m.op)
    BY <1>3, <1>8
  <2>3. l = "removed" => m.verified
    BY <1>3, <1>8
  <2> QED BY <1>3, <1>5, <1>6, <2>1, <2>2, <2>3, QuietStep DEF Knows, Daemon, Asked, Dead
<1> QED BY <1>7, <1>8

LEMMA QuietWork ==
    ASSUME DockerInv, NEW p \in Process,
           Docker!Admit(p) \/ Docker!Run(p) \/ Docker!Inspect(p) \/ Docker!Absent(p)
    PROVE  DockerInv'
<1>1. UNCHANGED Daemon /\ lock' = lock
  BY DEF Docker!Admit, Docker!Run, Docker!Inspect, Docker!Absent, Docker!disk, Docker!daemon, Daemon
<1>2. pc[p] \in {"admit", "run", "inspect", "absent"} /\ Knows(p)
  BY Own DEF Docker!Admit, Docker!Run, Docker!Inspect, Docker!Absent, Docker!At
<1>3. pc[p] \in Working /\ lock = p /\ ~mem[p].verified
  BY <1>2 DEF Knows, Holding, Working, Opened, Recorded, Admitted
<1>4. ASSUME NEW l, pc' = [pc EXCEPT ![p] = l], mem' = mem,
             \/ l = "create" /\ pc[p] = "admit" /\ Docker!Admitted(p)
             \/ l = "save" /\ pc[p] = "run"
             \/ l \in {"pending", "inspect", "remove", "absent", "unverified"}
      PROVE  DockerInv'
  <2>1. PICK v \in BOOLEAN : v = FALSE
    OBVIOUS
  <2> QED BY <1>1, <1>3, <1>4, <2>1, WorkingOn
<1>5. CASE Docker!Admit(p)
  <2>1. CASE Docker!Admitted(p)
    BY <1>4, <1>5, <2>1 DEF Docker!Admit, Docker!At, Docker!Goto
  <2>2. CASE ~Docker!Admitted(p)
    BY <1>4, <1>5, <2>2 DEF Docker!Admit, Docker!Goto
  <2> QED BY <2>1, <2>2
<1>6. CASE Docker!Run(p)
  BY <1>4, <1>6 DEF Docker!Run, Docker!At, Docker!Goto
<1>7. CASE Docker!Inspect(p)
  <2>1. PICK l \in {"absent", "remove", "unverified"} : pc' = [pc EXCEPT ![p] = l]
    BY <1>7 DEF Docker!Inspect, Docker!Goto
  <2> QED BY <1>4, <1>7, <2>1 DEF Docker!Inspect
<1>8. CASE Docker!Absent(p)
  <2>0. PICK answered \in BOOLEAN :
            IF Docker!SaidAbsent(mem[p].op, answered)
            THEN pc' = [pc EXCEPT ![p] = "removed"] /\ mem' = [mem EXCEPT ![p].verified = TRUE]
            ELSE pc' = [pc EXCEPT ![p] = "unverified"] /\ mem' = mem
    BY <1>8 DEF Docker!Absent, Docker!Goto
  <2>1. CASE ~Docker!SaidAbsent(mem[p].op, answered)
    BY <1>4, <2>0, <2>1
  <2>2. CASE Docker!SaidAbsent(mem[p].op, answered)
    <3>1. container[mem[p].op] = "none"
      BY <2>2 DEF Docker!SaidAbsent
    <3>2. Dead(mem[p].op)
      BY <1>2, <1>3, <3>1 DEF DockerInv, RecordsHold, Knows, Dead
    <3>3. PICK v \in BOOLEAN : v = TRUE
      OBVIOUS
    <3> QED BY <1>1, <1>3, <2>0, <2>2, <3>2, <3>3, WorkingOn
  <2> QED BY <2>1, <2>2
<1> QED BY <1>5, <1>6, <1>7, <1>8

\* The holder of the lock writes the disk or asks the daemon.
LEMMA HolderStep ==
    ASSUME DockerInv, NEW p \in Process, lock = p, NEW l, pc' = [pc EXCEPT ![p] = l],
           NEW m, MemShape(m), mem' = [mem EXCEPT ![p] = m],
           phase' = [o \in Docker!Ops |-> phase'[o]],
           container' = [o \in Docker!Ops |-> container'[o]],
           asked' \subseteq Docker!Ops \X {"create", "start"},
           RecordsHold',
           pc'[p] = l /\ mem'[p] = m => Knows(p)'
    PROVE  DockerInv'
BY OwnMoves, OthersKnow

\* What every holder starts from.
LEMMA Holder ==
    ASSUME DockerInv, NEW p \in Process, pc[p] \in Holding
    PROVE  /\ lock = p /\ Knows(p) /\ MemShape(mem[p]) /\ mem = [mem EXCEPT ![p] = mem[p]]
           /\ phase = [o \in Docker!Ops |-> phase[o]] /\ container = [o \in Docker!Ops |-> container[o]]
           /\ asked \subseteq Docker!Ops \X {"create", "start"} /\ RecordsHold
BY Own DEF DockerInv, DockerTyped

\* The request is frozen, then the candidate is pointed at what it is frozen to
\* (environments/runtime.py, candidate_dependencies).
LEMMA FreezeSteps ==
    ASSUME DockerInv, NEW p \in Process, Docker!FreezeRequest(p) \/ Docker!Point(p)
    PROVE  DockerInv'
<1>1. pc[p] \in {"freeze", "point"} /\ pc[p] \in Holding
  BY DEF Docker!FreezeRequest, Docker!Point, Docker!At, Holding
<1>2. /\ lock = p /\ Knows(p) /\ MemShape(mem[p]) /\ mem = [mem EXCEPT ![p] = mem[p]]
      /\ ~mem[p].verified
  BY <1>1, Holder DEF Knows
<1>3. PICK l \in {"point", "resolved", "unlock"} : pc' = [pc EXCEPT ![p] = l]
  BY DEF Docker!FreezeRequest, Docker!Point, Docker!Write, Docker!Goto
<1>4. UNCHANGED <<mem, lock, phase, workspace, container, asked, told>>
  BY DEF Docker!FreezeRequest, Docker!Point, Docker!daemon
<1>5. /\ pointer' # 0 => pointer' = request'
      /\ l = "point" => pointer' = 0 /\ mem[p].resolution = request'
  <2>1. CASE Docker!FreezeRequest(p)
    BY <1>1, <1>2, <1>3, <2>1 DEF Knows, Docker!FreezeRequest, Docker!At, Docker!Write, Docker!Goto, DockerInv, DockerTyped
  <2>2. CASE Docker!Point(p)
    BY <1>1, <1>2, <1>3, <2>2 DEF Knows, Docker!Point, Docker!At, Docker!Write, Docker!Goto, DockerInv, DockerTyped
  <2> QED BY <2>1, <2>2
<1>6. RecordsHold'
  BY <1>1, <1>4, <1>5, Holder DEF RecordsHold, Dead, Asked
<1>7. /\ l \notin Working /\ l \notin Opened /\ l \notin Recorded /\ l \notin Admitted
      /\ l \notin {"intent", "admit", "create", "created", "start", "removed", "freeze"}
  BY DEF Working, Opened, Recorded, Admitted
<1>8. pc'[p] = l /\ mem'[p] = mem[p] => Knows(p)'
  BY <1>2, <1>4, <1>5, <1>7 DEF Knows
<1>9. PICK m : m = mem[p]
  OBVIOUS
<1> QED BY <1>1, <1>2, <1>3, <1>4, <1>6, <1>8, <1>9, HolderStep, Holder

\* A write of the operation's record (environments/docker.py, persist): nothing else changes.
LEMMA RecordWritten ==
    ASSUME DockerInv, NEW p \in Process, pc[p] \in Working,
           NEW l, pc' = [pc EXCEPT ![p] = l], NEW f, mem' = [mem EXCEPT ![p].failed = f],
           NEW value \in {"intent", "created", "running", "cleanup_pending", "removed"},
           phase' \in {phase, [phase EXCEPT ![mem[p].op] = value]},
           value = "removed" => Dead(mem[p].op),
           UNCHANGED <<lock, container, asked, workspace, request, pointer, told>>,
           \/ l \in {"pending", "inspect"} /\ ~mem[p].verified
           \/ l \in {"left", "unverified"}
           \/ /\ l = "admit" /\ pc[p] = "intent" /\ value = "intent"
              /\ phase' = [phase EXCEPT ![mem[p].op] = value]
           \/ l = "start" /\ pc[p] = "created" /\ value = "created"
           \/ l = "run" /\ pc[p] = "running" /\ value = "running"
    PROVE  DockerInv'
<1>1. /\ lock = p /\ Knows(p) /\ MemShape(mem[p])
      /\ phase = [o \in Docker!Ops |-> phase[o]] /\ container = [o \in Docker!Ops |-> container[o]]
      /\ asked \subseteq Docker!Ops \X {"create", "start"} /\ RecordsHold
  BY Holder DEF Holding
<1>2. PICK o \in Docker!Ops : o = mem[p].op
  BY <1>1 DEF Knows
<1>3. PICK m : m = [mem[p] EXCEPT !.failed = f]
  OBVIOUS
<1>4. /\ MemShape(m) /\ m.op = o /\ m.verified = mem[p].verified /\ m.seen = mem[p].seen
      /\ mem' = [mem EXCEPT ![p] = m]
  BY <1>1, <1>2, <1>3 DEF MemShape
<1>5. /\ phase' = [q \in Docker!Ops |-> phase'[q]]
      /\ \A q \in Docker!Ops \ {o} : phase'[q] = phase[q]
      /\ phase'[o] = phase[o] \/ phase'[o] = value
  BY <1>1, <1>2
<1>6. RecordsHold'
  <2>1. ASSUME NEW q \in Docker!Ops
        PROVE  /\ phase'[q] = "none" => phase[q] = "none"
               /\ phase'[q] = "removed" => phase[q] = "removed" \/ Dead(q)
    BY <1>2, <1>5
  <2> QED BY <1>1, <2>1 DEF RecordsHold, Dead, Asked
<1>7. CASE l \in {"pending", "inspect", "left", "unverified"}
  <2>1. /\ l \notin Opened /\ l \notin Recorded /\ l \notin Admitted
        /\ l \notin {"intent", "admit", "create", "created", "start", "removed", "freeze", "point"}
    BY <1>7 DEF Opened, Recorded, Admitted
  <2>2. m.verified => l \in {"unverified", "left"}
    BY <1>4, <1>7
  <2>3. m.verified => Dead(o)
    BY <1>1, <1>2, <1>4 DEF Knows
  <2>4. pc'[p] = l /\ mem'[p] = m => Knows(p)'
    BY <1>1, <1>2, <1>4, <2>1, <2>2, <2>3 DEF Knows, Dead, Asked
  <2> QED BY <1>1, <1>4, <1>5, <1>6, <2>4, HolderStep
<1>8. CASE l \in {"admit", "start", "run"}
  <2>1. /\ l \in Working /\ l \in Opened /\ l \in Recorded /\ pc[p] \in Opened
        /\ pc[p] \notin {"removed", "unverified", "left"}
        /\ l \in Admitted => pc[p] \in Admitted /\ pc[p] \in Recorded
        /\ l \notin {"intent", "create", "created", "removed", "freeze", "point"}
        /\ l = "admit" <=> pc[p] = "intent"
        /\ l = "start" => pc[p] = "created"
    BY <1>8 DEF Working, Opened, Recorded, Admitted
  <2>2. phase'[o] \notin {"none", "removed"}
    <3>1. CASE l = "admit"
      BY <1>1, <1>2, <3>1
    <3>2. CASE l # "admit"
      <4>1. l \in Admitted /\ value \in {"created", "running"}
        BY <1>8, <3>2 DEF Admitted
      <4> QED BY <1>1, <1>2, <1>5, <2>1, <4>1 DEF Knows
    <3> QED BY <3>1, <3>2
  <2>3. pc'[p] = l /\ mem'[p] = m => Knows(p)'
    BY <1>1, <1>2, <1>4, <2>1, <2>2 DEF Knows, Dead, Asked
  <2> QED BY <1>1, <1>4, <1>5, <1>6, <2>3, HolderStep
<1> QED BY <1>7, <1>8

LEMMA RecordSteps ==
    ASSUME DockerInv, NEW p \in Process,
           \/ Docker!Intent(p) \/ Docker!Created(p) \/ Docker!Running(p)
           \/ Docker!Pending(p) \/ Docker!Removed(p)
    PROVE  DockerInv'
<1>1. /\ pc[p] \in {"intent", "created", "running", "pending", "removed"} /\ pc[p] \in Working
      /\ pc[p] \in Holding
  BY DEF Docker!Intent, Docker!Created, Docker!Running, Docker!Persist, Docker!Pending, Docker!Removed,
         Docker!At, Holding, Working, Opened, Recorded, Admitted
<1>2. /\ Knows(p) /\ MemShape(mem[p]) /\ mem = [mem EXCEPT ![p] = mem[p]]
  BY <1>1, Holder
<1>3. UNCHANGED <<lock, container, asked, workspace, request, pointer, told>>
  BY DEF Docker!Intent, Docker!Created, Docker!Running, Docker!Persist, Docker!Pending, Docker!Removed,
         Docker!daemon
<1>4. PICK f : f = mem[p].failed
  OBVIOUS
<1>5. mem = [mem EXCEPT ![p].failed = f]
  <2>1. mem[p] = [mem[p] EXCEPT !.failed = f]
    BY <1>2, <1>4 DEF MemShape
  <2> QED BY <1>2, <2>1
<1>6. ASSUME NEW label \in {"intent", "created", "running"}, NEW ok \in {"admit", "start", "run"},
             Docker!Persist(p, label, label, ok),
             (label = "intent" /\ ok = "admit") \/ (label = "created" /\ ok = "start")
                \/ (label = "running" /\ ok = "run")
      PROVE  DockerInv'
  <2>1. /\ pc[p] = label /\ UNCHANGED mem
        /\ \/ phase' = [phase EXCEPT ![mem[p].op] = label] /\ pc' = [pc EXCEPT ![p] = ok]
           \/ phase' \in {phase, [phase EXCEPT ![mem[p].op] = label]} /\ pc' = [pc EXCEPT ![p] = "pending"]
    BY <1>6 DEF Docker!Persist, Docker!Write, Docker!At, Docker!Goto
  <2>2. ~mem[p].verified
    BY <1>2, <1>6, <2>1 DEF Knows
  <2>3. mem' = [mem EXCEPT ![p].failed = f]
    BY <1>5, <2>1
  <2>4. CASE phase' = [phase EXCEPT ![mem[p].op] = label] /\ pc' = [pc EXCEPT ![p] = ok]
    BY <1>1, <1>3, <1>6, <2>1, <2>3, <2>4, RecordWritten
  <2>5. CASE phase' \in {phase, [phase EXCEPT ![mem[p].op] = label]} /\ pc' = [pc EXCEPT ![p] = "pending"]
    BY <1>1, <1>3, <1>6, <2>2, <2>3, <2>5, RecordWritten
  <2> QED BY <2>1, <2>4, <2>5
<1>7. CASE Docker!Intent(p)
  BY <1>6, <1>7 DEF Docker!Intent
<1>8. CASE Docker!Created(p)
  BY <1>6, <1>8 DEF Docker!Created
<1>9. CASE Docker!Running(p)
  BY <1>6, <1>9 DEF Docker!Running
<1>10. CASE Docker!Pending(p)
  <2>1. /\ pc[p] = "pending" /\ pc' = [pc EXCEPT ![p] = "inspect"]
        /\ phase' \in {phase, [phase EXCEPT ![mem[p].op] = "cleanup_pending"]}
        /\ mem' = mem \/ mem' = [mem EXCEPT ![p].failed = TRUE]
    BY <1>10 DEF Docker!Pending, Docker!At, Docker!Goto
  <2>2. ~mem[p].verified
    BY <1>2, <2>1 DEF Knows
  <2>3. PICK g : mem' = [mem EXCEPT ![p].failed = g]
    BY <1>5, <2>1
  <2> QED BY <1>1, <1>3, <2>1, <2>2, <2>3, RecordWritten
<1>11. CASE Docker!Removed(p)
  <2>1. /\ pc[p] = "removed" /\ UNCHANGED mem
        /\ phase' \in {phase, [phase EXCEPT ![mem[p].op] = "removed"]}
    BY <1>11 DEF Docker!Removed, Docker!Write, Docker!At
  <2>2. PICK l \in {"left", "unverified"} : pc' = [pc EXCEPT ![p] = l]
    BY <1>11 DEF Docker!Removed, Docker!Write, Docker!Goto
  <2>3. Dead(mem[p].op)
    BY <1>2, <2>1 DEF Knows
  <2>4. mem' = [mem EXCEPT ![p].failed = f]
    BY <1>5, <2>1
  <2> QED BY <1>1, <1>3, <2>1, <2>2, <2>3, <2>4, RecordWritten
<1> QED BY <1>7, <1>8, <1>9, <1>10, <1>11

\* A container is asked for when its record is written, and started when it was created and
\* nothing else can create it any more (environments/docker.py, __enter__).
LEMMA AskSteps ==
    ASSUME DockerInv, NEW p \in Process, Docker!Create(p) \/ Docker!StartContainer(p)
    PROVE  DockerInv'
<1>1. pc[p] \in {"create", "start"} /\ pc[p] \in Admitted /\ pc[p] \in Recorded /\ pc[p] \in Opened
      /\ pc[p] \in Working /\ pc[p] \in Holding
  BY DEF Docker!Create, Docker!StartContainer, Docker!At, Holding, Working, Opened, Recorded, Admitted
<1>2. /\ lock = p /\ Knows(p) /\ MemShape(mem[p]) /\ mem = [mem EXCEPT ![p] = mem[p]]
      /\ phase = [o \in Docker!Ops |-> phase[o]] /\ container = [o \in Docker!Ops |-> container[o]]
      /\ asked \subseteq Docker!Ops \X {"create", "start"} /\ RecordsHold
      /\ UNCHANGED <<mem, lock, phase, workspace, request, pointer, told>>
  BY <1>1, Holder DEF Docker!Create, Docker!StartContainer, Docker!disk
<1>3. PICK o \in Docker!Ops : o = mem[p].op
  BY <1>1, <1>2 DEF Knows
<1>4. /\ o \notin told /\ phase[o] \notin {"none", "removed"} /\ ~mem[p].verified /\ ~Asked(o, "create")
      /\ ~workspace.closed /\ workspace.generation = mem[p].seen.generation
      /\ pc[p] = "create" => container[o] = "none" /\ ~Asked(o, "start")
  BY <1>1, <1>2, <1>3 DEF Knows
<1>5. PICK what, became, ok :
          /\ \/ what = "create" /\ became = "created" /\ ok = "created" /\ pc[p] = "create"
             \/ what = "start" /\ became = "running" /\ ok = "running" /\ pc[p] = "start"
          /\ container' \in {container, [container EXCEPT ![o] = became]}
          /\ asked' \in {asked, asked \cup {<<o, what>>}}
          /\ \/ pc' = [pc EXCEPT ![p] = ok] /\ asked' = asked
             \/ pc' = [pc EXCEPT ![p] = "pending"]
  <2>1. CASE Docker!Create(p)
    BY <1>3, <2>1 DEF Docker!Create, Docker!Ask, Docker!At, Docker!Goto, Docker!daemon
  <2>2. CASE Docker!StartContainer(p)
    BY <1>3, <2>2 DEF Docker!StartContainer, Docker!Ask, Docker!At, Docker!Goto, Docker!daemon
  <2> QED BY <2>1, <2>2
<1>6. PICK l \in {"created", "running", "pending"} :
          /\ pc' = [pc EXCEPT ![p] = l]
          /\ l # "pending" => asked' = asked /\ l = ok
  BY <1>5
<1>7. /\ container' = [q \in Docker!Ops |-> container'[q]]
      /\ \A q \in Docker!Ops \ {o} : container'[q] = container[q]
  BY <1>2, <1>3, <1>5
<1>8. /\ asked' \subseteq Docker!Ops \X {"create", "start"}
      /\ \A q, w : <<q, w>> \in asked' <=> Asked(q, w) \/ (q = o /\ w = what /\ asked' # asked)
  BY <1>2, <1>5 DEF Asked
<1>9. RecordsHold'
  <2>1. ASSUME NEW q \in Docker!Ops \ {o}
        PROVE  /\ Asked(q, "create")' <=> Asked(q, "create")
               /\ Asked(q, "start")' <=> Asked(q, "start")
               /\ container'[q] = container[q]
    BY <1>7, <1>8 DEF Asked
  <2>2. Asked(o, "start")' => ~Asked(o, "create")'
    BY <1>4, <1>5, <1>8 DEF Asked
  <2>3. ASSUME NEW q \in Docker!Ops
        PROVE  /\ phase'[q] = "none" => container'[q] = "none" /\ ~Asked(q, "create")' /\ ~Asked(q, "start")'
               /\ phase'[q] = "removed" \/ q \in told' => Dead(q)'
               /\ Asked(q, "start")' => ~Asked(q, "create")'
    <3>1. CASE q = o
      BY <1>2, <1>4, <2>2, <3>1
    <3>2. CASE q # o
      BY <1>2, <2>1, <3>2 DEF RecordsHold, Dead
    <3> QED BY <3>1, <3>2
  <2> QED BY <1>2, <2>3 DEF RecordsHold
<1>10. pc'[p] = l /\ mem'[p] = mem[p] => Knows(p)'
  <2>1. CASE l = "pending"
    <3>1. l \notin Opened /\ l \notin Recorded /\ l \notin Admitted
      BY <2>1 DEF Opened, Recorded, Admitted
    <3> QED BY <1>2, <1>3, <1>4, <2>1, <3>1 DEF Knows
  <2>2. CASE l # "pending"
    <3>1. ~Asked(o, "create")'
      BY <1>4, <1>6, <2>2 DEF Asked
    <3> QED BY <1>2, <1>3, <1>4, <2>2, <3>1 DEF Knows
  <2> QED BY <2>1, <2>2
<1>11. PICK m : m = mem[p]
  OBVIOUS
<1> QED BY <1>2, <1>6, <1>7, <1>8, <1>9, <1>10, <1>11, HolderStep

\* The source is saved by who was admitted, a container is removed by who cleans up.
LEMMA SourceSavedStep == ASSUME DockerInv, NEW p \in Process, Docker!Save(p) PROVE DockerInv'
<1>1. pc[p] = "save" /\ pc[p] \in Working /\ pc[p] \in Holding
  BY DEF Docker!Save, Docker!At, Holding, Working, Opened, Recorded, Admitted
<1>2. /\ lock = p /\ Knows(p) /\ MemShape(mem[p]) /\ mem = [mem EXCEPT ![p] = mem[p]] /\ RecordsHold
      /\ pc' = [pc EXCEPT ![p] = "pending"] /\ ~mem[p].verified
      /\ UNCHANGED <<mem, lock, phase, container, asked, request, pointer, told>>
  BY <1>1, Holder DEF Docker!Save, Docker!Write, Docker!Goto, Docker!daemon, Knows
<1>3. RecordsHold'
  BY <1>2 DEF RecordsHold, Dead, Asked
<1>4. "pending" \notin Opened /\ "pending" \notin Recorded /\ "pending" \notin Admitted
  BY DEF Opened, Recorded, Admitted
<1>5. pc'[p] = "pending" /\ mem'[p] = mem[p] => Knows(p)'
  BY <1>1, <1>2, <1>4 DEF Knows
<1>6. PICK m : m = mem[p]
  OBVIOUS
<1> QED BY <1>1, <1>2, <1>3, <1>5, <1>6, HolderStep, Holder

LEMMA RemoveStep == ASSUME DockerInv, NEW p \in Process, Docker!Remove(p) PROVE DockerInv'
<1>1. pc[p] = "remove" /\ pc[p] \in Working /\ pc[p] \in Holding
  BY DEF Docker!Remove, Docker!At, Holding, Working, Opened, Recorded, Admitted
<1>2. /\ lock = p /\ Knows(p) /\ MemShape(mem[p]) /\ mem = [mem EXCEPT ![p] = mem[p]] /\ RecordsHold
      /\ phase = [o \in Docker!Ops |-> phase[o]] /\ container = [o \in Docker!Ops |-> container[o]]
      /\ asked \subseteq Docker!Ops \X {"create", "start"}
      /\ UNCHANGED <<mem, lock, phase, asked, workspace, request, pointer, told>> /\ ~mem[p].verified
  BY <1>1, Holder DEF Docker!Remove, Docker!disk, Knows
<1>3. PICK l \in {"absent", "unverified"} : pc' = [pc EXCEPT ![p] = l]
  BY DEF Docker!Remove, Docker!Goto
<1>4. PICK o \in Docker!Ops : o = mem[p].op
  BY <1>1, <1>2 DEF Knows
<1>5. container' \in {container, [container EXCEPT ![o] = "none"]}
  BY <1>4 DEF Docker!Remove
<1>6. /\ container' = [q \in Docker!Ops |-> container'[q]]
      /\ \A q \in Docker!Ops : container'[q] = container[q] \/ container'[q] = "none"
  BY <1>2, <1>5
<1>7. RecordsHold'
  BY <1>2, <1>6 DEF RecordsHold, Dead, Asked
<1>8. l \notin Opened /\ l \notin Recorded /\ l \notin Admitted
  BY DEF Opened, Recorded, Admitted
<1>9. pc'[p] = l /\ mem'[p] = mem[p] => Knows(p)'
  BY <1>1, <1>2, <1>3, <1>8 DEF Knows
<1>10. PICK m : m = mem[p]
  OBVIOUS
<1> QED BY <1>2, <1>3, <1>6, <1>7, <1>9, <1>10, HolderStep

\* A cleanup is left: what its result tells of is dead.
LEMMA CleanupLeft ==
    ASSUME DockerInv, NEW p \in Process, pc[p] \in {"unverified", "left"},
           Docker!Tells(p), Docker!Raise(p),
           NEW value \in {"removed", "cleanup_pending"},
           value = "removed" => mem[p].verified,
           phase' \in {phase, [phase EXCEPT ![mem[p].op] = value]},
           UNCHANGED <<container, asked, workspace, request, pointer>>
    PROVE  DockerInv'
<1>1. pc[p] \in Working /\ pc[p] \in Holding
  BY DEF Holding, Working
<1>2. /\ lock = p /\ Knows(p) /\ RecordsHold
      /\ phase = [o \in Docker!Ops |-> phase[o]] /\ container = [o \in Docker!Ops |-> container[o]]
      /\ asked \subseteq Docker!Ops \X {"create", "start"}
  BY <1>1, Holder
<1>3. PICK o \in Docker!Ops : o = mem[p].op
  BY <1>1, <1>2 DEF Knows
<1>4. mem[p].verified => Dead(o)
  BY <1>2, <1>3 DEF Knows
<1>5. /\ phase' = [q \in Docker!Ops |-> phase'[q]]
      /\ \A q \in Docker!Ops \ {o} : phase'[q] = phase[q]
      /\ phase'[o] = phase[o] \/ phase'[o] = value
  BY <1>2, <1>3
<1>6. told' = told \/ (mem[p].verified /\ told' = told \cup {o})
  BY <1>3 DEF Docker!Tells
<1>7. ASSUME NEW q \in Docker!Ops
      PROVE  /\ phase'[q] = "none" => phase[q] = "none"
             /\ phase'[q] = "removed" \/ q \in told' => phase[q] = "removed" \/ q \in told \/ Dead(q)
  <2>1. CASE q = o
    BY <1>4, <1>5, <1>6, <2>1
  <2>2. CASE q # o
    BY <1>5, <1>6, <2>2
  <2> QED BY <2>1, <2>2
<1>8. RecordsHold'
  BY <1>2, <1>7 DEF RecordsHold, Dead, Asked
<1>9. MemShape(Docker!Forgotten) /\ Docker!Forgotten.verified = FALSE
  BY DEF Docker!Forgotten, MemShape
<1>10. PICK m : m = Docker!Forgotten
  OBVIOUS
<1>11. /\ "idle" \notin Holding /\ "idle" \notin Working /\ "idle" \notin Opened
       /\ "idle" \notin Recorded /\ "idle" \notin Admitted
  BY DEF Holding, Working, Opened, Recorded, Admitted
<1>12. pc'[p] = "idle" /\ mem'[p] = m => Knows(p)'
  BY <1>9, <1>10, <1>11 DEF Knows
<1>13. pc' = [pc EXCEPT ![p] = "idle"] /\ mem' = [mem EXCEPT ![p] = m]
  BY <1>10 DEF Docker!Raise, Docker!Goto
<1>14. /\ container' = [q \in Docker!Ops |-> container'[q]]
       /\ asked' \subseteq Docker!Ops \X {"create", "start"}
  BY <1>2
<1> QED BY <1>2, <1>5, <1>8, <1>9, <1>10, <1>12, <1>13, <1>14, HolderStep

LEMMA LeavingSteps ==
    ASSUME DockerInv, NEW p \in Process, Docker!Unverified(p) \/ Docker!Left(p)
    PROVE  DockerInv'
<1>1. CASE Docker!Unverified(p)
  <2>1. PICK value \in {"removed", "cleanup_pending"} :
            value = IF mem[p].verified THEN "removed" ELSE "cleanup_pending"
    OBVIOUS
  <2>2. phase' \in {phase, [phase EXCEPT ![mem[p].op] = value]}
    BY <1>1, <2>1 DEF Docker!Unverified
  <2> QED BY <1>1, <2>1, <2>2, CleanupLeft DEF Docker!Unverified, Docker!At, Docker!daemon
<1>2. CASE Docker!Left(p) /\ ~Docker!Recovers(p)
  <2>1. PICK value \in {"removed", "cleanup_pending"} : value = "cleanup_pending"
    OBVIOUS
  <2> QED BY <1>2, <2>1, CleanupLeft DEF Docker!Left, Docker!At, Docker!daemon, Docker!disk
<1>3. CASE Docker!Left(p) /\ Docker!Recovers(p)
  <2>1. pc[p] = "left" /\ UNCHANGED Daemon /\ lock' = lock
    BY <1>3 DEF Docker!Left, Docker!At, Docker!daemon, Docker!disk, Daemon
  <2>2. lock = p /\ Knows(p) /\ MemShape(mem[p])
    BY <2>1, Holder DEF Holding, Working
  <2>3. PICK m : m = [mem[p] EXCEPT !.op = 0, !.verified = FALSE, !.failed = FALSE]
    OBVIOUS
  <2>4. MemShape(m) /\ m.verified = FALSE
    BY <2>2, <2>3 DEF MemShape
  <2>5. pc' = [pc EXCEPT ![p] = "recovering"] /\ mem' = [mem EXCEPT ![p] = m]
    BY <1>3, <2>3 DEF Docker!Left, Docker!Goto
  <2>6. OwnStep(p) /\ pc'[p] = "recovering" /\ mem'[p] = m
    BY <2>2, <2>4, <2>5, OwnMoves
  <2>7. pc'[p] \in Outside \cup {"recovering", "look up", "resolved", "unlock", "settling"}
    BY <2>6
  <2>8. lock' = p /\ ~mem'[p].verified
    BY <2>1, <2>2, <2>4, <2>6
  <2>9. Knows(p)'
    BY <2>7, <2>8, OutsideKnows
  <2> QED BY <2>1, <2>6, <2>9, QuietStep
<1> QED BY <1>1, <1>2, <1>3

\* Reset and close change the workspace under the lock (environments/runtime.py).
LEMMA SettlingStep == ASSUME DockerInv, NEW p \in Process, Docker!Settling(p) PROVE DockerInv'
<1>1. pc[p] = "settling" /\ pc[p] \in Holding
  BY DEF Docker!Settling, Docker!At, Holding
<1>2. /\ lock = p /\ Knows(p) /\ MemShape(mem[p]) /\ mem = [mem EXCEPT ![p] = mem[p]] /\ RecordsHold
      /\ pc' = [pc EXCEPT ![p] = "unlock"] /\ ~mem[p].verified
      /\ UNCHANGED <<mem, lock, phase, container, asked, request, pointer, told>>
  BY <1>1, Holder DEF Docker!Settling, Docker!Write, Docker!Goto, Docker!daemon, Knows
<1>3. RecordsHold'
  BY <1>2 DEF RecordsHold, Dead, Asked
<1>4. /\ "unlock" \notin Working /\ "unlock" \notin Opened /\ "unlock" \notin Recorded
      /\ "unlock" \notin Admitted
  BY DEF Working, Opened, Recorded, Admitted
<1>5. pc'[p] = "unlock" /\ mem'[p] = mem[p] => Knows(p)'
  BY <1>1, <1>2, <1>4 DEF Knows
<1>6. PICK m : m = mem[p]
  OBVIOUS
<1> QED BY <1>1, <1>2, <1>3, <1>5, <1>6, HolderStep, Holder

\* What was given up is carried out after all: what is dead stays dead.
LEMMA LateStep == ASSUME DockerInv, Docker!Late PROVE DockerInv'
<1>1. PICK given \in asked :
          /\ asked' = asked \ {given}
          /\ container' = CASE given[2] = "create" /\ container[given[1]] = "none" ->
                                  [container EXCEPT ![given[1]] = "created"]
                            [] given[2] = "start" /\ container[given[1]] = "created" ->
                                  [container EXCEPT ![given[1]] = "running"]
                            [] OTHER -> container
  BY DEF Docker!Late
<1>2. UNCHANGED <<pc, mem, lock, phase, workspace, request, pointer, told>>
  BY DEF Docker!Late, Docker!disk
<1>3. DockerTyped /\ RecordsHold
  BY DEF DockerInv
<1>4. PICK o \in Docker!Ops, w \in {"create", "start"} : given = <<o, w>>
  BY <1>1, <1>3 DEF DockerTyped
<1>5. /\ given[1] = o /\ given[2] = w /\ Asked(o, w)
      /\ container = [q \in Docker!Ops |-> container[q]]
  BY <1>1, <1>3, <1>4 DEF Asked, DockerTyped
<1>6. PICK became :
          /\ container' = container \/ container' = [container EXCEPT ![o] = became]
          /\ container' # container =>
                \/ w = "create" /\ container[o] = "none" /\ became = "created"
                \/ w = "start" /\ container[o] = "created" /\ became = "running"
  <2>1. CASE w = "create" /\ container[o] = "none"
    BY <1>1, <1>5, <2>1
  <2>2. CASE w = "start" /\ container[o] = "created"
    BY <1>1, <1>5, <2>2
  <2>3. CASE ~(w = "create" /\ container[o] = "none") /\ ~(w = "start" /\ container[o] = "created")
    BY <1>1, <1>5, <2>3
  <2> QED BY <2>1, <2>2, <2>3
<1>7. /\ container' = [q \in Docker!Ops |-> container'[q]]
      /\ \A q \in Docker!Ops \ {o} : container'[q] = container[q]
      /\ container'[o] = container[o]
            \/ (w = "create" /\ container[o] = "none" /\ container'[o] = "created")
            \/ (w = "start" /\ container[o] = "created" /\ container'[o] = "running")
  BY <1>5, <1>6
<1>8. /\ asked' \subseteq Docker!Ops \X {"create", "start"}
      /\ \A q, v : Asked(q, v)' => Asked(q, v)
      /\ ~Asked(o, w)'
  BY <1>1, <1>3, <1>4 DEF Asked, DockerTyped
<1>9. Asked(o, "start") => ~Asked(o, "create")
  BY <1>3 DEF RecordsHold
<1>10. ASSUME NEW q, Dead(q), q \in Docker!Ops PROVE Dead(q)'
  <2>1. CASE q # o
    BY <1>7, <1>8, <1>10, <2>1 DEF Dead
  <2>2. CASE q = o /\ w = "create"
    BY <1>5, <1>7, <1>8, <1>9, <1>10, <2>2 DEF Dead
  <2>3. CASE q = o /\ w = "start"
    BY <1>5, <1>7, <1>8, <1>10, <2>3 DEF Dead
  <2> QED BY <2>1, <2>2, <2>3
<1>11. ASSUME NEW q \in Docker!Ops, container[q] = "none", ~Asked(q, "create"), ~Asked(q, "start")
       PROVE  container'[q] = "none" /\ ~Asked(q, "create")' /\ ~Asked(q, "start")'
  <2>1. q # o
    BY <1>5, <1>11
  <2> QED BY <1>7, <1>8, <1>11, <2>1
<1>12. RecordsHold'
  BY <1>2, <1>3, <1>8, <1>10, <1>11 DEF RecordsHold
<1>13. DockerTyped'
  BY <1>2, <1>3, <1>7, <1>8 DEF DockerTyped
<1>14. ASSUME NEW p \in Process PROVE Knows(p)'
  <2>1. Knows(p)
    BY DEF DockerInv
  <2>0. PICK q : q = mem[p].op
    OBVIOUS
  <2>5. mem'[p] = mem[p] /\ pc'[p] = pc[p]
    BY <1>2
  <2>2. pc[p] \in {"intent", "admit", "create", "removed", "unverified", "left"} => q \in Docker!Ops
    BY <2>0, <2>1 DEF Knows, Working, Opened, Recorded, Admitted
  <2>3. mem[p].verified => Dead(q)'
    BY <1>10, <2>0, <2>1, <2>2 DEF Knows
  <2>4. pc[p] \in {"intent", "admit", "create"} =>
            container'[q] = "none" /\ ~Asked(q, "create")' /\ ~Asked(q, "start")'
    BY <1>11, <2>0, <2>1, <2>2 DEF Knows
  <2> QED BY <1>2, <1>8, <2>0, <2>1, <2>3, <2>4, <2>5 DEF Knows, Dead, Asked
<1> QED BY <1>12, <1>13, <1>14 DEF DockerInv

LEMMA LockSteps ==
    ASSUME DockerInv, NEW p \in Process, Docker!RecoverOwned(p) \/ Docker!Resolve(p) \/ Docker!Settle(p)
    PROVE  DockerInv'
<1>1. PICK label \in Outside, ok \in {"recovering", "look up", "settling"} : Docker!Lock(p, label, ok)
  <2>1. "recover" \in Outside /\ "resolve" \in Outside /\ "settle" \in Outside
    BY DEF Outside
  <2> QED BY <2>1 DEF Docker!RecoverOwned, Docker!Resolve, Docker!Settle
<1> QED BY <1>1, LockStep

LEMMA DockerStep == DockerInv /\ Docker!Next => DockerInv'
<1> SUFFICES ASSUME DockerInv, Docker!Next PROVE DockerInv' OBVIOUS
<1>1. CASE Docker!Late
  BY <1>1, LateStep
<1>2. ASSUME NEW p \in Process, Docker!Step(p) PROVE DockerInv'
  <2>1. CASE \/ Docker!RecoverOwned(p) \/ Docker!Resolve(p) \/ Docker!Settle(p)
    BY <2>1, LockSteps
  <2>2. CASE Docker!Recovering(p)
    BY <2>2, RecoveringStep
  <2>3. CASE Docker!Read(p)
    BY <2>3, ReadStep
  <2>4. CASE Docker!LookUp(p)
    BY <2>4, LookUpStep
  <2>5. CASE Docker!FreezeRequest(p) \/ Docker!Point(p)
    BY <2>5, FreezeSteps
  <2>6. CASE Docker!Resolved(p) \/ Docker!Unlock(p)
    BY <2>6, LeaveLock
  <2>7. CASE Docker!Enter(p)
    BY <2>7, EnterStep
  <2>8. CASE \/ Docker!Intent(p) \/ Docker!Created(p) \/ Docker!Running(p)
             \/ Docker!Pending(p) \/ Docker!Removed(p)
    BY <2>8, RecordSteps
  <2>9. CASE Docker!Admit(p) \/ Docker!Run(p) \/ Docker!Inspect(p) \/ Docker!Absent(p)
    BY <2>9, QuietWork
  <2>10. CASE Docker!Create(p) \/ Docker!StartContainer(p)
    BY <2>10, AskSteps
  <2>11. CASE Docker!Save(p)
    BY <2>11, SourceSavedStep
  <2>12. CASE Docker!Remove(p)
    BY <2>12, RemoveStep
  <2>13. CASE Docker!Unverified(p) \/ Docker!Left(p)
    BY <2>13, LeavingSteps
  <2>14. CASE Docker!Settling(p)
    BY <2>14, SettlingStep
  <2> QED BY <1>2, <2>1, <2>2, <2>3, <2>4, <2>5, <2>6, <2>7, <2>8, <2>9, <2>10, <2>11, <2>12,
             <2>13, <2>14 DEF Docker!Step
<1>3. ASSUME NEW p \in Process, Docker!Asks(p) \/ Docker!Crash(p) PROVE DockerInv'
  BY <1>3, Asking, LeaveLock
<1> QED BY <1>1, <1>2, <1>3 DEF Docker!Next

\* The workspace is saved by who was admitted to the generation it has, and reset or closed by
\* who holds its lock.
WorkspaceShape == workspace = [generation |-> workspace.generation, saved |-> workspace.saved,
                               closed |-> workspace.closed]

LEMMA GenerationMoves ==
    ASSUME DockerInv, WorkspaceShape, Docker!Next
    PROVE  Docker!GenerationStep /\ WorkspaceShape'
<1>1. ASSUME workspace' = workspace PROVE Docker!GenerationStep /\ WorkspaceShape'
  BY <1>1 DEF Docker!GenerationStep, WorkspaceShape
<1>2. ASSUME NEW p \in Process, Docker!Save(p) PROVE Docker!GenerationStep /\ WorkspaceShape'
  <2>1. Knows(p) /\ pc[p] \in Admitted
    BY <1>2, Own DEF Docker!Save, Docker!At, Admitted
  <2>2. ~workspace.closed /\ workspace.generation = mem[p].seen.generation
    BY <2>1 DEF Knows
  <2>3. CASE workspace' # workspace
    BY <1>2, <2>2, <2>3 DEF Docker!Save, Docker!Write, Docker!GenerationStep, WorkspaceShape
  <2> QED BY <1>1, <2>3
<1>3. ASSUME NEW p \in Process, Docker!Settling(p) PROVE Docker!GenerationStep /\ WorkspaceShape'
  <2>1. CASE workspace' # workspace
    <3>1. ~workspace.closed
      BY <1>3, <2>1 DEF Docker!Settling
    <3>2. PICK n : n = workspace.generation + 1
      OBVIOUS
    <3>3. PICK s, c : workspace' = [generation |-> n, saved |-> s, closed |-> c]
      <4>1. CASE workspace' = [generation |-> n, saved |-> 0, closed |-> FALSE]
        BY <4>1
      <4>2. CASE workspace' = [workspace EXCEPT !.generation = n, !.closed = TRUE]
        <5>1. workspace' = [generation |-> n, saved |-> workspace.saved, closed |-> TRUE]
          BY <4>2 DEF WorkspaceShape
        <5> QED BY <5>1
      <4> QED BY <1>3, <2>1, <3>1, <3>2, <4>1, <4>2 DEF Docker!Settling, Docker!Write
    <3>4. workspace'.generation = workspace.generation + 1 /\ WorkspaceShape'
      BY <3>2, <3>3 DEF WorkspaceShape
    <3> QED BY <3>1, <3>4 DEF Docker!GenerationStep
  <2> QED BY <1>1, <2>1
<1>4. CASE Docker!Late
  BY <1>1, <1>4 DEF Docker!Late, Docker!disk
<1>5. ASSUME NEW p \in Process, Docker!Asks(p) \/ Docker!Step(p) \/ Docker!Crash(p)
      PROVE  Docker!Save(p) \/ Docker!Settling(p) \/ workspace' = workspace
  BY <1>5 DEF Docker!Asks, Docker!Start, Docker!Crash, Docker!Step, Docker!RecoverOwned, Docker!Recovering,
     Docker!Read, Docker!Resolve, Docker!LookUp, Docker!FreezeRequest, Docker!Point, Docker!Resolved,
     Docker!Unlock, Docker!Enter, Docker!Intent, Docker!Admit, Docker!Create, Docker!Created,
     Docker!StartContainer, Docker!Running, Docker!Run, Docker!Pending, Docker!Inspect, Docker!Remove,
     Docker!Absent, Docker!Removed, Docker!Unverified, Docker!Left, Docker!Settle, Docker!Lock,
     Docker!Persist, Docker!disk
<1> QED BY <1>1, <1>2, <1>3, <1>4, <1>5 DEF Docker!Next

\* What is frozen stays so: it is written where nothing was, and the pointer to what it is.
LEMMA FreezeMoves ==
    ASSUME DockerInv, Docker!Next
    PROVE  Docker!FreezeStep
<1>0. pointer # 0 => pointer = request
  BY DEF DockerInv, RecordsHold
<1>1. ASSUME request' = request, pointer' = pointer PROVE Docker!FreezeStep
  BY <1>0, <1>1 DEF Docker!FreezeStep
<1>2. ASSUME NEW p \in Process, Docker!FreezeRequest(p) \/ Docker!Point(p) PROVE Docker!FreezeStep
  <2>1. Knows(p)
    BY Own
  <2>2. CASE Docker!FreezeRequest(p)
    <3>1. request = 0 /\ pointer = 0 /\ pointer' = pointer
      BY <2>1, <2>2 DEF Knows, Docker!FreezeRequest, Docker!At
    <3> QED BY <3>1 DEF Docker!FreezeStep
  <2>3. CASE Docker!Point(p)
    <3>1. /\ pointer = 0 /\ request' = request /\ mem[p].resolution = request
          /\ pointer' = mem[p].resolution \/ pointer' = pointer
      BY <2>1, <2>3 DEF Knows, Docker!Point, Docker!At, Docker!Write
    <3> QED BY <3>1 DEF Docker!FreezeStep
  <2> QED BY <1>2, <2>2, <2>3
<1>4. CASE Docker!Late
  BY <1>1, <1>4 DEF Docker!Late, Docker!disk
<1>5. ASSUME NEW p \in Process, Docker!Asks(p) \/ Docker!Step(p) \/ Docker!Crash(p)
      PROVE  Docker!FreezeRequest(p) \/ Docker!Point(p) \/ (request' = request /\ pointer' = pointer)
  BY <1>5 DEF Docker!Asks, Docker!Start, Docker!Crash, Docker!Step, Docker!RecoverOwned, Docker!Recovering,
     Docker!Read, Docker!Resolve, Docker!LookUp, Docker!Resolved, Docker!Save, Docker!Settling,
     Docker!Unlock, Docker!Enter, Docker!Intent, Docker!Admit, Docker!Create, Docker!Created,
     Docker!StartContainer, Docker!Running, Docker!Run, Docker!Pending, Docker!Inspect, Docker!Remove,
     Docker!Absent, Docker!Removed, Docker!Unverified, Docker!Left, Docker!Settle, Docker!Lock,
     Docker!Persist, Docker!disk
<1> QED BY <1>1, <1>2, <1>4, <1>5 DEF Docker!Next

LEMMA DockerStutters ==
    ASSUME DockerInv, WorkspaceShape, UNCHANGED <<dockerOwn, pc, lock, phase>>
    PROVE  DockerInv' /\ WorkspaceShape' /\ Docker!GenerationStep /\ Docker!FreezeStep
<1>1. UNCHANGED <<mem, container, asked, workspace, request, pointer, told, pc, lock, phase>>
  BY DEF dockerOwn
<1>2. DockerTyped' /\ RecordsHold'
  BY <1>1 DEF DockerInv, DockerTyped, RecordsHold, Dead, Asked
<1>3. ASSUME NEW p \in Process PROVE Knows(p)'
  BY <1>1 DEF DockerInv, Knows, Dead, Asked
<1>4. WorkspaceShape' /\ Docker!GenerationStep /\ Docker!FreezeStep
  BY <1>1 DEF DockerInv, RecordsHold, WorkspaceShape, Docker!GenerationStep, Docker!FreezeStep
<1> QED BY <1>2, <1>3, <1>4 DEF DockerInv

\* A container runs only while its record says so, a generation of the workspace is saved once,
\* and a candidate is frozen to one resolution, whoever crashes and whatever the daemon carries
\* out late (environments/docker.py, runtime.py).
THEOREM WorkspaceStaysKept == Spec => WorkspaceKept
<1> DEFINE Inv == route = "docker" => DockerInv /\ WorkspaceShape
<1>1. Init => Inv
  BY DockerBegins DEF Init, Docker!Init, WorkspaceShape
<1>2. ASSUME Inv, [Next]_vars
      PROVE  Inv' /\ (route = "docker" => Docker!GenerationStep /\ Docker!FreezeStep)
  <2>0. route' = route
    BY <1>2 DEF Next, vars
  <2>1. CASE route = "docker" /\ Next
    <3>1. DockerInv /\ WorkspaceShape /\ Docker!Next
      BY <1>2, <2>1 DEF Next
    <3> QED BY <3>1, DockerStep, GenerationMoves, FreezeMoves
  <2>2. CASE route = "docker" /\ UNCHANGED vars
    BY <1>2, <2>2, DockerStutters DEF vars
  <2>3. CASE route # "docker"
    BY <2>0, <2>3
  <2> QED BY <1>2, <2>1, <2>2, <2>3
<1>3. Inv => (route = "docker" => Docker!NothingRunsUnrecorded)
  BY DEF DockerInv, RecordsHold, Dead, Docker!NothingRunsUnrecorded
<1>4. Inv /\ [Next]_vars => Inv'
  BY <1>2
<1>5. Inv /\ [Next]_vars => [route = "docker" => Docker!GenerationStep /\ Docker!FreezeStep]_vars
  BY <1>2
<1> HIDE DEF Inv
<1> QED BY <1>1, <1>3, <1>4, <1>5, PTL DEF Spec, WorkspaceKept
=============================================================================
