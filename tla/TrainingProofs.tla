--------------------------- MODULE TrainingProofs ---------------------------
(***************************************************************************)
(* Theorems about Training, for every number of processes and jobs, every  *)
(* budget of updates and groups, every bound on calls and faults; and      *)
(* about NativeBackend, for every number of workers, sessions and contents.*)
(***************************************************************************)
EXTENDS MCTraining, FiniteSetTheorems, SequenceTheorems, TLAPS

IsRow(s) == \E S : s \in Seq(S)

-----------------------------------------------------------------------------
(* Places.                                                                 *)

\* A call of train at these places has work before it.
Starting == {"controller", "open", "announce startup", "construct", "publish startup", "restore", "collecting"}
Taking == {"episode", "sampling", "classify"}
Gathering == {"collect", "batch", "rows"} \cup Taking
Ready == {"intent", "update"}
Dispatched == {"save", "confirm", "checkpoint", "updated"}
Updating == Gathering \cup Ready \cup Dispatched
Driving == {"load", "ancestry", "supersede", "begin"} \cup Starting \cup {"loop", "finish", "freeze", "complete"} \cup Updating

\* A call of train is under way: its process holds the controller lock.
Busy(p) == pc[p] # "idle" /\ me[p].then # "terminal"
Alone == \A p, q \in Process : Busy(p) /\ Busy(q) => p = q

\* Places of a close that has a session, under a key of its own.
Shutting == {"announce shutdown", "shut", "shut unannounced", "publish shutdown"}

IsLive(l) ==
    /\ DOMAIN l = {"job", "n", "weights", "up", "asked", "closing"}
    /\ l.asked \in Closes \cup {Nothing}
IsGroup(g) == g.at \in Nat

-----------------------------------------------------------------------------
(* Lineages.                                                               *)

Claimed(j) == job[j].state # "absent"
SameRoot(j, k) == job[j].root = job[k].root

\* The journal of j may still go on, in j or in the job that supersedes it.
Ongoing(j) == Present(j) /\ (journal[j].phase = "superseded" => ~Present(journal[j].by))

Lineages ==
    /\ \A j \in Job : /\ job[j].root \in Job
                      /\ job[j].state \in {"absent", "running", "completed"}
                      /\ Present(j) => Claimed(j) /\ Present(job[j].root)
                      /\ journal[j].phase = "superseded" => journal[j].by \in Job
    /\ \A j \in Job : Claimed(j) =>
          /\ j \in First <=> job[j].resume = Nothing
          /\ j \in First => job[j].root = j
          /\ j \notin First => /\ job[j].resume.job \in Job /\ Claimed(job[j].resume.job)
                               /\ job[j].root = job[job[j].resume.job].root
    /\ \A j, k \in Job : Ongoing(j) /\ Ongoing(k) /\ SameRoot(j, k) => j = k

\* What a checkpoint is of.
CheckpointOf(c, j) == c.job = j /\ Present(j) /\ c.unknown = journal[j].unknown
Selections ==
    \A j \in Job, i \in Indices : \A r \in Newest(Update(j, i)) : r[1] = "checkpoint" => CheckpointOf(r[2], j)

\* j may go on from the checkpoint it resumes.
Bound(j) ==
    LET c == job[j].resume IN
    /\ c.job \in Job
    /\ \/ journal[c.job].phase \in {"updating", "collecting"}
       \/ journal[c.job].phase = "superseded" /\ journal[c.job].by = j
    /\ journal[c.job].updates = c.updates /\ journal[c.job].unknown = c.unknown

-----------------------------------------------------------------------------
(* Journals and groups.                                                    *)

\* The groups of s that are not in its batch.
Waiting(s) == {g \in {s.pending, s.unclassified} : g # Nothing}

IsJournal(s) ==
    /\ DOMAIN s = DOMAIN Fresh
    /\ s.updates \in Nat /\ s.unknown \in Nat /\ s.position \in Nat
    /\ \A g \in Waiting(s) \cup s.batch : IsGroup(g) /\ g.at < s.position
    /\ \A g \in Waiting(s), b \in s.batch : g.at # b.at
    /\ s.pending = Nothing \/ s.unclassified = Nothing

\* What holds at a place of a call that is to end by then, of the journal s of its job and
\* of its session l.
Fits(place, then, s, l) ==
    /\ then \in {"raise", "finish", "terminal"}
    /\ place \in Driving \cup {"unwind"} => then # "terminal"
    /\ place = "idle" => then # "finish"
    /\ place = "freeze" => then = "finish"
    /\ place \in {"abort", "publish abort", "aborted"} => then = "terminal"
    /\ then = "finish" /\ place # "unwind" => s.phase \in {"finalizing", "frozen"}
    /\ place \in Starting => s.phase \in {"initializing", "collecting"}
    /\ place \in {"loop"} \cup Gathering => s.phase = "collecting"
    /\ place \in Ready \cup Dispatched => s.phase = "updating"
    /\ place = "finish" => s.phase \in {"initializing", "collecting", "finalizing"}
    /\ place \in {"restore", "collecting", "loop"} \cup Updating \cup Shutting => IsLive(l)
    /\ place \in Shutting => l.closing \in Closes
    /\ place \in Updating => Spent(s) < MaxUpdates
    /\ place \in Gathering \cup Ready => \A g \in s.batch : g.policy = l.weights
    /\ place \in Taking => s.pending # Nothing /\ s.pending.policy = l.weights
    /\ place = "batch" => s.pending = Nothing /\ s.unclassified # Nothing /\ s.unclassified.policy = l.weights

\* What a call of train, m, knows at a place, of its session l.
Along(place, m, l) ==
    LET j == m.job
    IN  /\ Fits(place, m.then, journal[j], l)
        /\ place \in Driving \/ m.then = "finish" => j \in Job /\ Claimed(j)
        /\ place \in {"ancestry", "supersede"} => ~Present(j) /\ j \notin First /\ Bound(j)
        /\ place = "begin" => \/ journal[j].phase \in {"initializing", "collecting"}
                              \/ /\ ~Present(j)
                                 /\ j \notin First => Bound(j) /\ journal[job[j].resume.job].phase = "superseded"
        /\ place = "update" => rows[Update(j, Spent(journal[j]))] # <<>>

-----------------------------------------------------------------------------
(* Dispatches.                                                             *)

\* The batch of j, if it has one, was not dispatched.
Settled(j) ==
    /\ Ongoing(j)
    /\ journal[j].phase \notin {"updating", "superseded"} \/ \E p \in Process : pc[p] \in Ready /\ me[p].job = j

Ats(groups) == {g.at : g \in groups}

\* A dispatch of the lineage of j, for the ith update.
Before(j, d, i) ==
    LET s == journal[j] IN
    /\ i <= Spent(s)
    /\ i = Spent(s) => rows[Update(j, i)] # <<>> /\ ~Settled(j)
    /\ \A g \in d.batch : g.at < s.position
    /\ \A g \in Waiting(s) : g.at \notin Ats(d.batch)
    /\ Settled(j) => Ats(s.batch) \cap Ats(d.batch) = {}

\* at says for which update of its lineage each dispatch was.
Placing(at) ==
    /\ at \in [DOMAIN dispatches -> Indices]
    /\ \A k, m \in DOMAIN dispatches : k # m /\ Root(k) = Root(m) =>
          at[k] # at[m] /\ Ats(dispatches[k].batch) \cap Ats(dispatches[m].batch) = {}
    /\ \A k \in DOMAIN dispatches : \A j \in Job :
          Ongoing(j) /\ SameRoot(dispatches[k].job, j) => Before(j, dispatches[k], at[k])

Dispatches ==
    /\ IsRow(dispatches)
    /\ \A k \in DOMAIN dispatches :
          /\ dispatches[k].job \in Job /\ Present(dispatches[k].job)
          /\ \A g \in dispatches[k].batch : IsGroup(g) /\ g.policy = dispatches[k].on
    /\ \E at \in [DOMAIN dispatches -> Indices] : Placing(at)

\* The rows of updates are rows.
Recording == \A j \in Job, i \in Indices : Update(j, i) \in DOMAIN rows /\ IsRow(rows[Update(j, i)])

Tables ==
    /\ DOMAIN pc = Process /\ DOMAIN me = Process /\ DOMAIN live = Process
    /\ \A p \in Process : DOMAIN me[p] = DOMAIN Idle /\ (live[p] = Nothing \/ IsLive(live[p]))
    /\ DOMAIN job = Job /\ \A j \in Job : DOMAIN job[j] = {"state", "resume", "root", "result"}
    /\ DOMAIN journal = Job /\ \A j \in Job : IsJournal(journal[j])
    /\ Recording

TrainInv ==
    /\ Tables
    /\ Alone
    /\ Lineages
    /\ Selections
    /\ \A p \in Process : Along(pc[p], me[p], live[p])
    /\ Dispatches
-----------------------------------------------------------------------------
(* Accounting rows and moves.                                              *)

LEMMA RowNames ==
    ASSUME NEW j, NEW i, NEW kind, NEW k, NEW n, kind # "update"
    PROVE  <<kind, k, n>> # Update(j, i)
  BY DEF Update

LEMMA UpdateNames ==
    ASSUME NEW j, NEW i, NEW k, NEW n, Update(j, i) = Update(k, n)
    PROVE  j = k /\ i = n
  BY DEF Update

LEMMA AppendRow ==
    ASSUME NEW s, IsRow(s), NEW x
    PROVE  LET t == Append(s, x) IN
           /\ IsRow(t) /\ t # <<>> /\ Len(t) = Len(s) + 1 /\ t[Len(t)] = x
           /\ DOMAIN s = 1..Len(s) /\ DOMAIN t = DOMAIN s \cup {Len(t)} /\ Len(t) \notin DOMAIN s
           /\ \A k \in DOMAIN s : t[k] = s[k]
<1>1. PICK S : s \in Seq(S)
  BY DEF IsRow
<1> DEFINE T == S \cup {x}
<1>2. S \subseteq T /\ x \in T
  OBVIOUS
<1>3. s \in Seq(T)
  <2> HIDE DEF T
  <2>1. QED
    BY <1>1, <1>2, SeqMonotonic
<1>4. Append(s, x) \in Seq(T)
  BY <1>2, <1>3, AppendProperties
<1> HIDE DEF T
<1>5. /\ Append(s, x) # <<>> /\ Len(Append(s, x)) = Len(s) + 1
      /\ Append(s, x)[Len(s) + 1] = x
      /\ \A k \in 1..Len(s) : Append(s, x)[k] = s[k]
  BY <1>2, <1>3, AppendProperties
<1>6. Len(s) \in Nat /\ DOMAIN s = 1..Len(s) /\ DOMAIN Append(s, x) = 1..Len(s) + 1
  BY <1>3, <1>4, <1>5
<1>7. QED
  BY <1>4, <1>5, <1>6 DEF IsRow

\* The rows of updates only grow, or are left alone.
Grown == \A j \in Job, i \in Indices : rows[Update(j, i)] # <<>> => rows'[Update(j, i)] # <<>>
RowsKept == \A j \in Job, i \in Indices :
    Update(j, i) \in DOMAIN rows' /\ rows'[Update(j, i)] = rows[Update(j, i)]

\* A step of p: the others stay where they are.
Moved(p) ==
    /\ DOMAIN pc' = Process /\ DOMAIN me' = Process /\ DOMAIN live' = Process
    /\ \A q \in Process \ {p} : pc'[q] = pc[q] /\ me'[q] = me[q] /\ live'[q] = live[q]
    /\ DOMAIN me'[p] = DOMAIN Idle
    /\ live'[p] = Nothing \/ IsLive(live'[p])

LEMMA ObserveElsewhere ==
    ASSUME Recording, NEW p, NEW name, NEW n, NEW receipts, NEW ok, NEW bad,
           \A j \in Job, i \in Indices : name # Update(j, i),
           Observe(p, name, n, receipts, ok, bad)
    PROVE  RowsKept /\ \E label \in {ok, bad} : Goto(p, label)
  BY DEF Observe, Call, Recording, RowsKept

LEMMA ObserveUpdate ==
    ASSUME Recording, NEW p, NEW j \in Job, NEW i \in Indices, NEW n \in Nat \ {0}, NEW receipts, NEW ok, NEW bad,
           Observe(p, Update(j, i), n, receipts, ok, bad)
    PROVE  /\ Recording' /\ Grown
           /\ \A k \in Job, m \in Indices : k # j \/ m # i => rows'[Update(k, m)] = rows[Update(k, m)]
           /\ rows'[Update(j, i)] = rows[Update(j, i)] \/ Newest(Update(j, i))' = receipts
           /\ \E label : /\ Goto(p, label)
                         /\ label = bad \/ (label = ok /\ rows'[Update(j, i)] # <<>>)
<1> DEFINE name == Update(j, i)
           row == rows[name]
<1>1. name \in DOMAIN rows /\ IsRow(row)
  BY DEF Recording
<1>2. /\ IsRow(Append(row, receipts)) /\ Append(row, receipts) # <<>>
      /\ Append(row, receipts)[Len(Append(row, receipts))] = receipts
  BY <1>1, AppendRow
<1>3. \A k \in Job, m \in Indices : k # j \/ m # i => Update(k, m) # name
  BY UpdateNames
<1>4. CASE UNCHANGED rows
  BY <1>4, <1>1, <1>2 DEF Recorded, Recording, Grown, Observe, Call, Goto
<1>5. CASE ~UNCHANGED rows
  <2>1. /\ rows' = [rows EXCEPT ![name] = Append(@, receipts)]
        /\ \E label \in {ok, bad} : Goto(p, label)
    BY <1>5 DEF Observe, Call
  <2>2. rows'[name] = Append(row, receipts) /\ DOMAIN rows' = DOMAIN rows
    BY <1>1, <2>1
  <2>3. \A k \in Job, m \in Indices : k # j \/ m # i => rows'[Update(k, m)] = rows[Update(k, m)]
    BY <1>3, <2>1
  <2>4. rows'[name] # <<>> /\ Newest(name)' = receipts
    BY <1>2, <2>2 DEF Newest
  <2>5. Recording' /\ Grown
    <3>1. ASSUME NEW k \in Job, NEW m \in Indices
          PROVE  /\ Update(k, m) \in DOMAIN rows' /\ IsRow(rows'[Update(k, m)])
                 /\ rows[Update(k, m)] # <<>> => rows'[Update(k, m)] # <<>>
      BY <1>1, <1>2, <2>2, <2>4, <2>3 DEF Recording
    <3> QED BY <3>1 DEF Recording, Grown
  <2> QED BY <2>1, <2>3, <2>4, <2>5
<1> QED BY <1>4, <1>5
-----------------------------------------------------------------------------
(* What a step leaves as it was.                                           *)

LEMMA LineagesStay ==
    ASSUME Lineages, UNCHANGED <<job, journal>>
    PROVE  Lineages'
  BY DEF Lineages, Claimed, SameRoot, Ongoing, Present

LEMMA SelectionsStay ==
    ASSUME Selections, RowsKept, UNCHANGED journal
    PROVE  Selections'
  BY DEF Selections, RowsKept, CheckpointOf, Present, Newest

\* Who has no call of train under way depends on no journal.
LEMMA Bystander ==
    ASSUME NEW place, NEW m, NEW l, Along(place, m, l), place = "idle" \/ m.then = "terminal"
    PROVE  Along(place, m, l)'
<1> DEFINE Frozen == Fits(place, m.then, journal[m.job], l)
<1>1. place \notin Driving \cup {"unwind"} /\ m.then # "finish"
  BY DEF Along, Fits, Driving, Starting, Updating, Gathering, Taking, Ready, Dispatched
<1>2. Fits(place, m.then, journal'[m.job], l)
  BY <1>1 DEF Along, Fits, Driving, Starting, Updating, Gathering, Taking, Ready, Dispatched
<1> QED BY <1>1, <1>2 DEF Along, Driving, Updating, Ready

LEMMA Bystanders ==
    ASSUME TrainInv, NEW p \in Process, Moved(p), Busy(p) \/ ~\E q \in Process : Busy(q),
           Along(pc[p], me[p], live[p])'
    PROVE  \A q \in Process : Along(pc[q], me[q], live[q])'
<1> SUFFICES ASSUME NEW q \in Process, q # p PROVE Along(pc[q], me[q], live[q])'
  OBVIOUS
<1>1. pc[q] = "idle" \/ me[q].then = "terminal"
  BY DEF TrainInv, Alone, Busy
<1>2. Along(pc[q], me[q], live[q])
  BY DEF TrainInv
<1>3. PICK place, m, l : place = pc[q] /\ m = me[q] /\ l = live[q]
  OBVIOUS
<1>4. Along(place, m, l)'
  BY <1>1, <1>2, <1>3, Bystander
<1>5. place = pc'[q] /\ m = me'[q] /\ l = live'[q]
  BY <1>3 DEF Moved
<1> QED BY <1>4, <1>5

LEMMA AlongStays ==
    ASSUME Tables, NEW place, NEW m, NEW l, Along(place, m, l), UNCHANGED <<job, journal>>, Grown
    PROVE  Along(place, m, l)'
<1>1. place = "update" => rows'[Update(m.job, Spent(journal[m.job]))] # <<>>
  <2> SUFFICES ASSUME place = "update" PROVE rows'[Update(m.job, Spent(journal[m.job]))] # <<>>
    OBVIOUS
  <2>1. m.job \in Job /\ Spent(journal[m.job]) < MaxUpdates /\ rows[Update(m.job, Spent(journal[m.job]))] # <<>>
    BY DEF Along, Fits, Driving, Updating, Ready
  <2>2. Spent(journal[m.job]) \in Nat
    BY <2>1 DEF Tables, IsJournal, Spent
  <2>3. Spent(journal[m.job]) \in Indices
    BY <2>1, <2>2, UpdateAssumption DEF Indices
  <2> QED BY <2>1, <2>3 DEF Grown
<1> QED BY <1>1 DEF Along, Claimed, Present, Bound

LEMMA AloneStays ==
    ASSUME Alone, NEW p \in Process, Moved(p), Busy(p)' => Busy(p)
    PROVE  Alone'
  BY DEF Alone, Busy, Moved

LEMMA TablesStay ==
    ASSUME Tables, NEW p \in Process, Moved(p), Recording',
           DOMAIN job' = Job, \A j \in Job : DOMAIN job'[j] = {"state", "resume", "root", "result"},
           DOMAIN journal' = Job, \A j \in Job : IsJournal(journal'[j])
    PROVE  Tables'
  BY DEF Tables, Moved

LEMMA RecordingStays ==
    ASSUME Recording, RowsKept
    PROVE  Recording' /\ Grown
  BY DEF Recording, RowsKept, Grown

\* A batch is not ready for another update because of a step of p.
LEMMA SettledBefore ==
    ASSUME NEW p \in Process, Moved(p), NEW j \in Job, Ongoing(j), journal'[j].phase = journal[j].phase,
           pc'[p] \in Ready => pc[p] \in Ready /\ me'[p].job = me[p].job,
           Settled(j)'
    PROVE  Settled(j)
  BY DEF Settled, Moved

\* The choice stays good, when what each dispatch was for stays before the journals that go on.
LEMMA PlacingStays ==
    ASSUME NEW at \in [DOMAIN dispatches -> Indices], Placing(at), UNCHANGED <<job, dispatches>>,
           \A k \in DOMAIN dispatches : \A h \in Job :
              Ongoing(h)' /\ SameRoot(dispatches[k].job, h) => Before(h, dispatches[k], at[k])'
    PROVE  Placing(at)'
<1>1. \A k, h : SameRoot(dispatches[k].job, h)' <=> SameRoot(dispatches[k].job, h)
  BY DEF SameRoot
<1>2. \A k : Root(k)' = Root(k)
  BY DEF Root
<1>3. \A k, m \in DOMAIN dispatches : k # m /\ Root(k)' = Root(m)' =>
         at[k] # at[m] /\ Ats(dispatches[k].batch) \cap Ats(dispatches[m].batch) = {}
  BY <1>2 DEF Placing
<1>4. at \in [DOMAIN dispatches' -> Indices]
  OBVIOUS
<1>5. \A k \in DOMAIN dispatches : \A h \in Job :
         Ongoing(h)' /\ SameRoot(dispatches[k].job, h)' => Before(h, dispatches[k], at[k])'
  BY <1>1
<1> QED BY <1>3, <1>4, <1>5 DEF Placing

LEMMA DispatchesStay ==
    ASSUME Dispatches, UNCHANGED <<job, journal, dispatches>>, Grown,
           \A j \in Job : Settled(j)' => Settled(j)
    PROVE  Dispatches'
<1>1. PICK at \in [DOMAIN dispatches -> Indices] : Placing(at)
  BY DEF Dispatches
<1>2. Placing(at)'
  <2>1. ASSUME NEW k \in DOMAIN dispatches, NEW j \in Job, Before(j, dispatches[k], at[k])
        PROVE  Before(j, dispatches[k], at[k])'
    BY <1>1, <2>1 DEF Before, Grown
  <2> QED BY ZenonT(30), <1>1, <2>1 DEF Placing, Root, SameRoot, Ongoing, Present
<1> QED BY <1>1, <1>2 DEF Dispatches, Present

\* A step that changes no job, no journal and dispatches nothing.
LEMMA SteadyStep ==
    ASSUME TrainInv, NEW p \in Process, UNCHANGED <<job, journal, dispatches>>,
           Recording', Grown, Selections', Moved(p), Busy(p)' => Busy(p),
           pc'[p] \in Ready => pc[p] \in Ready /\ me'[p].job = me[p].job,
           Along(pc[p], me[p], live[p])'
    PROVE  TrainInv'
<1>1. Tables'
  BY TablesStay DEF TrainInv, Tables
<1>2. Alone'
  BY AloneStays DEF TrainInv
<1>3. Lineages'
  BY LineagesStay DEF TrainInv
<1>4. \A q \in Process : Along(pc[q], me[q], live[q])'
  <2> SUFFICES ASSUME NEW q \in Process PROVE Along(pc[q], me[q], live[q])'
    OBVIOUS
  <2>1. CASE q = p
    BY <2>1
  <2>2. CASE q # p
    <3>1. PICK place, m, l : place = pc[q] /\ m = me[q] /\ l = live[q]
      OBVIOUS
    <3>2. Along(place, m, l)'
      BY <3>1, AlongStays DEF TrainInv
    <3>3. place = pc'[q] /\ m = me'[q] /\ l = live'[q]
      BY <2>2, <3>1 DEF Moved
    <3> QED BY <3>2, <3>3
  <2> QED BY <2>1, <2>2
<1>5. Dispatches'
  BY SettledBefore, DispatchesStay DEF Settled, Ongoing, Present, TrainInv
<1> QED BY <1>1, <1>2, <1>3, <1>4, <1>5 DEF TrainInv

\* A step that does not touch the rows of updates either.
LEMMA QuietStep ==
    ASSUME TrainInv, NEW p \in Process, UNCHANGED <<job, journal, dispatches>>, RowsKept,
           Moved(p), Busy(p)' => Busy(p), pc'[p] \notin Ready, Along(pc'[p], me'[p], live'[p])
    PROVE  TrainInv'
<1>1. Recording' /\ Grown
  BY RecordingStays DEF TrainInv, Tables
<1>2. Selections'
  BY SelectionsStay DEF TrainInv
<1>3. Along(pc[p], me[p], live[p])'
  <2>1. PICK place, m, l : place = pc'[p] /\ m = me'[p] /\ l = live'[p]
    OBVIOUS
  <2>2. Along(place, m, l)'
    BY <1>1, <2>1, AlongStays DEF TrainInv
  <2> QED BY <2>1, <2>2
<1> QED BY <1>1, <1>2, <1>3, SteadyStep
-----------------------------------------------------------------------------
(* Steps that change no job, no journal and no row of an update.           *)

LEMMA GotoMoves ==
    ASSUME Tables, NEW p \in Process, NEW label, Goto(p, label),
           \/ UNCHANGED me
           \/ \E m : DOMAIN m = DOMAIN Idle /\ me' = [me EXCEPT ![p] = m],
           \/ UNCHANGED live
           \/ \E l : (l = Nothing \/ IsLive(l)) /\ live' = [live EXCEPT ![p] = l]
    PROVE  Moved(p) /\ pc'[p] = label
  BY DEF Tables, Moved, Goto

LEMMA SameRows ==
    ASSUME Tables, UNCHANGED rows
    PROVE  RowsKept
  BY DEF Tables, Recording, RowsKept

\* p moves on with its call and its session as they were.
LEMMA QuietGoto ==
    ASSUME TrainInv, NEW p \in Process, NEW label, Goto(p, label), UNCHANGED <<job, journal, dispatches, me, live>>,
           RowsKept, pc[p] # "idle", label \notin Ready, Along(label, me[p], live[p])
    PROVE  TrainInv'
  BY GotoMoves, QuietStep DEF TrainInv, Busy

\* A call that failed goes on where train raises.
LEMMA Raised ==
    ASSUME NEW place, NEW m, NEW l, Along(place, m, l), place \in Driving
    PROVE  Along("unwind", m, l)
  BY DEF Along, Fits, Driving, Starting, Updating, Gathering, Taking, Ready, Dispatched, Shutting

LEMMA Unwinds ==
    ASSUME TrainInv, NEW p \in Process, Goto(p, "unwind"), UNCHANGED <<job, journal, dispatches, me, live>>,
           RowsKept, pc[p] \in Driving
    PROVE  TrainInv'
  BY Raised, QuietGoto DEF TrainInv, Driving, Starting, Updating, Gathering, Taking, Ready,
     Dispatched

LEMMA LoadSteady ==
    ASSUME TrainInv, NEW p \in Process, Load(p)
    PROVE  TrainInv'
<1> DEFINE j == Mine(p)
           s == State(p)
<1>1. pc[p] = "load"
  BY DEF Load, At
<1>2. Along("load", me[p], live[p]) /\ Tables
  BY <1>1 DEF TrainInv
<1>3. /\ j \in Job /\ Claimed(j) /\ j = me[p].job /\ s = journal[j]
      /\ Fits("load", me[p].then, s, live[p])
  BY <1>2 DEF Along, Mine, State, Driving
<1>4. RowsKept /\ UNCHANGED <<job, journal, dispatches, live>>
  BY <1>2, SameRows DEF Load, sessionVars, workVars
<1>5. CASE ~Present(j)
  <2>1. UNCHANGED me
    BY <1>5 DEF Load
  <2>2. CASE Resume(p) = Nothing
    <3>1. Goto(p, "begin")
      BY <1>5, <2>2 DEF Load
    <3>2. j \in First
      BY <1>3, <2>2 DEF TrainInv, Lineages, Resume, Mine
    <3>3. Fits("begin", me[p].then, s, live[p])
      BY <1>3 DEF Fits, Driving, Starting, Updating, Gathering, Taking, Ready, Dispatched, Shutting
    <3>4. Along("begin", me[p], live[p])
      BY <1>3, <1>5, <3>2, <3>3 DEF Along
    <3>5. "begin" \notin Ready
      BY DEF Ready
    <3> QED BY <1>1, <1>4, <2>1, <3>1, <3>4, <3>5, QuietGoto
  <2>3. CASE Resume(p) # Nothing /\ Admissible(j, Resume(p))
    <3>1. Goto(p, "ancestry")
      BY <1>5, <2>3 DEF Load
    <3> DEFINE c == Resume(p)
    <3>2. j \notin First /\ c.job \in Job /\ c = job[j].resume
      BY <1>3, <2>3 DEF TrainInv, Lineages, Resume, Mine
    <3>3. CheckpointOf(c, c.job)
      <4>1. c \in Checkpoints(c.job)
        BY <2>3 DEF Admissible
      <4>2. PICK i, r : i \in Indices /\ r \in Newest(Update(c.job, i)) /\ r[1] = "checkpoint" /\ r[2] = c
        BY <4>1 DEF Checkpoints
      <4> QED BY <3>2, <4>2 DEF TrainInv, Selections
    <3>4. Bound(j)
      BY <2>3, <3>2, <3>3 DEF Bound, Admissible, BindsCheckpoint, CheckpointOf
    <3>5. Fits("ancestry", me[p].then, s, live[p])
      BY <1>3 DEF Fits, Driving, Starting, Updating, Gathering, Taking, Ready, Dispatched, Shutting
    <3>6. Along("ancestry", me[p], live[p])
      BY <1>3, <1>5, <3>2, <3>4, <3>5 DEF Along
    <3>7. "ancestry" \notin Ready
      BY DEF Ready
    <3> QED BY <1>1, <1>4, <2>1, <3>1, <3>6, <3>7, QuietGoto
  <2>4. CASE Resume(p) # Nothing /\ ~Admissible(j, Resume(p))
    BY <1>5, <2>4, <1>1, <1>4, <2>1, Unwinds DEF Load, Driving
  <2> QED BY <2>2, <2>3, <2>4
<1>6. CASE Present(j)
  <2>1. PICK label, outcome :
           /\ Goto(p, label) /\ me' = [me EXCEPT ![p].outcome = outcome]
           /\ \/ label = "complete" \/ (label = "finish" /\ s.phase = "finalizing")
              \/ (label = "begin" /\ s.phase \in {"initializing", "collecting"}) \/ label = "unwind"
    BY <1>6 DEF Load, Continuable
  <2> DEFINE m == [me[p] EXCEPT !.outcome = outcome]
  <2>2. me' = [me EXCEPT ![p] = m] /\ DOMAIN m = DOMAIN Idle /\ m.job = j /\ m.then = me[p].then
    BY <1>2, <1>3, <2>1 DEF Tables, Idle
  <2> HIDE DEF m
  <2>3. Moved(p) /\ pc'[p] = label /\ me'[p] = m /\ live'[p] = live[p]
    BY <1>2, <1>4, <2>1, <2>2, GotoMoves DEF Tables
  <2>4. Fits(label, m.then, s, live[p])
    BY <1>3, <2>1, <2>2 DEF Fits, Driving, Starting, Updating, Gathering, Taking, Ready, Dispatched, Shutting
  <2>5. Along(label, m, live[p])
    BY <1>3, <2>1, <2>2, <2>4 DEF Along
  <2>6. label \notin Ready
    BY <2>1 DEF Ready
  <2>7. Busy(p)
    BY <1>1, <1>3 DEF Busy, Fits, Driving
  <2> QED BY <1>4, <2>3, <2>5, <2>6, <2>7, QuietStep
<1> QED BY <1>5, <1>6

LEMMA OtherRow ==
    ASSUME NEW kind, NEW k, NEW n, kind # "update"
    PROVE  \A j \in Job, i \in Indices : <<kind, k, n>> # Update(j, i)
  BY RowNames

\* A call on the registry about another row, the call of train and its session as they were.
LEMMA QuietObserve ==
    ASSUME TrainInv, NEW p \in Process, NEW name, NEW n, NEW receipts, NEW ok, NEW bad,
           \A j \in Job, i \in Indices : name # Update(j, i),
           Observe(p, name, n, receipts, ok, bad), UNCHANGED <<job, journal, dispatches, me, live>>,
           pc[p] # "idle", ok \notin Ready, bad \notin Ready,
           Along(ok, me[p], live[p]), Along(bad, me[p], live[p])
    PROVE  TrainInv'
  BY ObserveElsewhere, QuietGoto DEF TrainInv, Tables

\* What a call of train under way knows.
LEMMA Here ==
    ASSUME TrainInv, NEW p \in Process, pc[p] \in Driving
    PROVE  /\ Along(pc[p], me[p], live[p]) /\ Tables /\ pc[p] # "idle"
           /\ Fits(pc[p], me[p].then, State(p), live[p])
           /\ Mine(p) \in Job /\ Claimed(Mine(p)) /\ Busy(p)
           /\ Along("unwind", me[p], live[p]) /\ "unwind" \notin Ready
           /\ UNCHANGED rows => RowsKept
<1>1. Along(pc[p], me[p], live[p]) /\ Tables
  BY DEF TrainInv
<1>2. Along("unwind", me[p], live[p])
  BY <1>1, Raised
<1>3. pc[p] # "idle" /\ "unwind" \notin Ready
  BY DEF Driving, Starting, Updating, Gathering, Taking, Ready, Dispatched
<1>4. UNCHANGED rows => RowsKept
  BY <1>1, SameRows
<1>5. Fits(pc[p], me[p].then, State(p), live[p]) /\ Mine(p) \in Job /\ Claimed(Mine(p))
  BY <1>1 DEF Along, State, Mine
<1>6. me[p].then # "terminal"
  BY <1>5 DEF Fits
<1> QED BY <1>1, <1>2, <1>3, <1>4, <1>5, <1>6 DEF Busy

\* p goes on to a place that asks nothing of the registry or of other jobs.
LEMMA Onwards ==
    ASSUME TrainInv, NEW p \in Process, pc[p] \in Driving, NEW label, NEW l,
           label \notin {"ancestry", "supersede", "begin", "update"},
           Fits(label, me[p].then, State(p), l)
    PROVE  Along(label, me[p], l)
  BY Here DEF Along, State, Mine

LEMMA AncestrySteady ==
    ASSUME TrainInv, NEW p \in Process, Ancestry(p)
    PROVE  TrainInv'
<1>1. pc[p] = "ancestry" /\ pc[p] \in Driving
  BY DEF Ancestry, At, Driving
<1>2. Along("ancestry", me[p], live[p]) /\ Fits("ancestry", me[p].then, State(p), live[p])
  BY <1>1, Here
<1>3. Fits("supersede", me[p].then, State(p), live[p])
  BY <1>2 DEF Fits, Driving, Starting, Updating, Gathering, Taking, Ready, Dispatched, Shutting
<1>4. Along("supersede", me[p], live[p])
  BY <1>2, <1>3 DEF Along, State, Mine, Driving
<1>5. PICK receipts : Observe(p, Row("ancestry", Mine(p)), 1, receipts, "supersede", "unwind")
  BY DEF Ancestry
<1>6. \A j \in Job, i \in Indices : Row("ancestry", Mine(p)) # Update(j, i)
  BY OtherRow DEF Row
<1>7. UNCHANGED <<job, journal, dispatches, me, live>> /\ "supersede" \notin Ready
  BY DEF Ancestry, sessionVars, workVars, Ready
<1> QED BY <1>1, <1>4, <1>5, <1>6, <1>7, Here, QuietObserve

LEMMA ControllerSteady ==
    ASSUME TrainInv, NEW p \in Process, Controller(p)
    PROVE  TrainInv'
<1>1. pc[p] = "controller" /\ pc[p] \in Driving
  BY DEF Controller, At, Driving, Starting
<1>2. PICK label : label \in {"finish", "open"} /\
           Observe(p, Row("controller", Mine(p)), 1, {Receipt("request", Mine(p))}, label, "unwind")
  BY DEF Controller
<1>3. Fits("controller", me[p].then, State(p), live[p])
  BY <1>1, Here
<1>4. Fits(label, me[p].then, State(p), live[p])
  BY <1>2, <1>3 DEF Fits, Driving, Starting, Updating, Gathering, Taking, Ready, Dispatched, Shutting
<1>5. Along(label, me[p], live[p]) /\ label \notin Ready
  BY <1>1, <1>2, <1>4, Onwards DEF Ready
<1>6. \A j \in Job, i \in Indices : Row("controller", Mine(p)) # Update(j, i)
  BY OtherRow DEF Row
<1>7. UNCHANGED <<job, journal, dispatches, me, live>>
  BY DEF Controller, sessionVars, workVars
<1> QED BY <1>1, <1>2, <1>5, <1>6, <1>7, Here, QuietObserve

LEMMA AnnounceStartupSteady ==
    ASSUME TrainInv, NEW p \in Process, AnnounceStartup(p)
    PROVE  TrainInv'
<1>1. pc[p] = "announce startup" /\ pc[p] \in Driving
  BY DEF AnnounceStartup, At, Driving, Starting
<1>2. Fits("announce startup", me[p].then, State(p), live[p])
  BY <1>1, Here
<1>3. Fits("construct", me[p].then, State(p), live[p])
  BY <1>2 DEF Fits, Driving, Starting, Updating, Gathering, Taking, Ready, Dispatched, Shutting
<1>4. Along("construct", me[p], live[p]) /\ "construct" \notin Ready
  BY <1>1, <1>3, Onwards DEF Ready
<1>5. \A j \in Job, i \in Indices : OpeningRow(p) # Update(j, i)
  BY OtherRow DEF OpeningRow, Startup
<1>6. Observe(p, OpeningRow(p), 1, {Receipt("configuration", Mine(p))}, "construct", "unwind")
  BY DEF AnnounceStartup
<1>7. UNCHANGED <<job, journal, dispatches, me, live>>
  BY DEF AnnounceStartup, sessionVars, workVars
<1> QED BY <1>1, <1>4, <1>5, <1>6, <1>7, Here, QuietObserve

LEMMA ConstructSteady ==
    ASSUME TrainInv, NEW p \in Process, Construct(p)
    PROVE  TrainInv'
  BY Here, Onwards, QuietGoto DEF Construct, At, Driving, Starting, Fits, Updating, Gathering,
     Taking, Ready, Dispatched, Shutting, workVars

LEMMA PublishStartupSteady ==
    ASSUME TrainInv, NEW p \in Process, PublishStartup(p)
    PROVE  TrainInv'
<1>1. pc[p] = "publish startup" /\ pc[p] \in Driving
  BY DEF PublishStartup, At, Driving, Starting
<1>2. Fits("publish startup", me[p].then, State(p), live[p]) /\ Tables
  BY <1>1, Here
<1>3. \A j \in Job, i \in Indices : OpeningRow(p) # Update(j, i)
  BY OtherRow DEF OpeningRow, Startup
<1>4. PICK receipts : Observe(p, OpeningRow(p), 2, receipts, "restore", "unwind")
  BY DEF PublishStartup
<1>5. RowsKept /\ \E label \in {"restore", "unwind"} : Goto(p, label)
  <2>1. Recording
    BY <1>2 DEF Tables
  <2> QED BY <1>3, <1>4, <2>1, ObserveElsewhere
<1>6. UNCHANGED <<job, journal, dispatches, me>>
  BY DEF PublishStartup, workVars
<1>7. DOMAIN pc = Process
  BY <1>2 DEF Tables
<1>8. CASE Goto(p, "restore")
  <2> DEFINE l == [job |-> opening[p].job, n |-> opening[p].n, weights |-> <<>>, up |-> TRUE,
                   asked |-> Nothing, closing |-> Nothing]
  <2>1. pc'[p] = "restore"
    BY <1>7, <1>8 DEF Goto
  <2>2. live' = [live EXCEPT ![p] = l]
    BY <2>1 DEF PublishStartup
  <2>3. IsLive(l)
    BY DEF IsLive
  <2> HIDE DEF l
  <2>4. Moved(p) /\ live'[p] = l /\ me'[p] = me[p]
    BY <1>2, <1>6, <1>8, <2>2, <2>3, GotoMoves DEF Tables
  <2>5. Fits("restore", me[p].then, State(p), l)
    BY <1>2, <2>3 DEF Fits, Driving, Starting, Updating, Gathering, Taking, Ready, Dispatched, Shutting
  <2>6. Along("restore", me[p], l) /\ "restore" \notin Ready
    BY <1>1, <2>5, Onwards DEF Ready
  <2> QED BY <1>1, <1>5, <1>6, <2>1, <2>4, <2>6, Here, QuietStep
<1>9. CASE Goto(p, "unwind")
  BY <1>7, <1>9, <1>1, <1>5, <1>6, Unwinds DEF Goto, PublishStartup, sessionVars
<1> QED BY <1>5, <1>8, <1>9

LEMMA RestoreSteady ==
    ASSUME TrainInv, NEW p \in Process, Restore(p)
    PROVE  TrainInv'
<1>1. pc[p] = "restore" /\ pc[p] \in Driving
  BY DEF Restore, At, Driving, Starting
<1>2. Fits("restore", me[p].then, State(p), live[p]) /\ Tables
  BY <1>1, Here
<1>3. IsLive(live[p])
  BY <1>2 DEF Fits, Driving, Starting, Updating, Gathering, Taking, Ready, Dispatched, Shutting
<1>4. UNCHANGED <<rows, job, journal, dispatches, me>>
  BY DEF Restore, workVars
<1>5. CASE Goto(p, "unwind") /\ UNCHANGED live
  BY <1>1, <1>4, <1>5, Here, Unwinds
<1>6. CASE Goto(p, "collecting")
  <2>1. PICK l : IsLive(l) /\ ((UNCHANGED live /\ l = live[p]) \/ live' = [live EXCEPT ![p] = l])
    <3>1. CASE UNCHANGED live
      BY <1>3, <3>1
    <3>2. CASE live' = [live EXCEPT ![p].weights = State(p).native]
      <4> DEFINE l == [live[p] EXCEPT !.weights = State(p).native]
      <4>1. IsLive(l)
        BY <1>3 DEF IsLive
      <4>2. live' = [live EXCEPT ![p] = l]
        BY <3>2
      <4> QED BY <4>1, <4>2
    <3> QED BY <3>1, <3>2 DEF Restore
  <2>2. Moved(p) /\ live'[p] = l /\ me'[p] = me[p] /\ pc'[p] = "collecting"
    BY <1>2, <1>4, <1>6, <2>1, GotoMoves DEF Tables
  <2>3. Fits("collecting", me[p].then, State(p), l)
    BY <1>2, <2>1 DEF Fits, Driving, Starting, Updating, Gathering, Taking, Ready, Dispatched, Shutting
  <2>4. Along("collecting", me[p], l) /\ "collecting" \notin Ready
    BY <1>1, <2>3, Onwards DEF Ready
  <2> QED BY <1>1, <1>4, <2>2, <2>4, Here, QuietStep
<1> QED BY <1>5, <1>6 DEF Restore

LEMMA LoopSteady ==
    ASSUME TrainInv, NEW p \in Process, Loop(p)
    PROVE  TrainInv'
<1>1. pc[p] = "loop" /\ pc[p] \in Driving
  BY DEF Loop, At, Driving
<1>2. Fits("loop", me[p].then, State(p), live[p]) /\ Tables
  BY <1>1, Here
<1>3. UNCHANGED <<rows, job, journal, dispatches, live>>
  BY DEF Loop, sessionVars, workVars
<1>4. CASE Goto(p, "finish")
  <2>1. PICK m : /\ (UNCHANGED me /\ m = me[p]) \/ me' = [me EXCEPT ![p] = m]
                 /\ DOMAIN m = DOMAIN Idle /\ m.job = Mine(p) /\ m.then = me[p].then
    <3>1. CASE UNCHANGED me
      BY <1>2, <3>1 DEF Tables, Mine
    <3>2. CASE \E outcome : me' = [me EXCEPT ![p].outcome = outcome]
      <4>1. PICK outcome : me' = [me EXCEPT ![p].outcome = outcome]
        BY <3>2
      <4> DEFINE m == [me[p] EXCEPT !.outcome = outcome]
      <4>2. DOMAIN m = DOMAIN Idle /\ m.job = Mine(p) /\ m.then = me[p].then
        BY <1>2 DEF Tables, Idle, Mine
      <4>3. me' = [me EXCEPT ![p] = m]
        BY <4>1
      <4> QED BY <4>2, <4>3
    <3> QED BY <3>1, <3>2 DEF Loop
  <2>2. Moved(p) /\ me'[p] = m /\ pc'[p] = "finish" /\ live'[p] = live[p]
    BY <1>2, <1>3, <1>4, <2>1, GotoMoves DEF Tables
  <2>3. Fits("finish", m.then, State(p), live[p])
    BY <1>2, <2>1 DEF Fits, Driving, Starting, Updating, Gathering, Taking, Ready, Dispatched, Shutting
  <2>4. Along("finish", m, live[p]) /\ "finish" \notin Ready
    BY <1>1, <2>1, <2>3, Here DEF Ready, Along, State
  <2> QED BY <1>1, <1>3, <2>2, <2>4, Here, QuietStep
<1>5. CASE Goto(p, "unwind") /\ UNCHANGED me
  BY <1>1, <1>3, <1>5, Here, Unwinds
<1>6. CASE /\ Goto(p, NextGroup(State(p))) /\ UNCHANGED me /\ Spent(State(p)) < MaxUpdates
           /\ \A g \in State(p).batch : ~Stale(p, g)
  <2>1. PICK label : label \in {"collect", "rows"} /\ Goto(p, label)
    BY <1>6 DEF NextGroup
  <2>2. Fits(label, me[p].then, State(p), live[p])
    BY <1>2, <1>6, <2>1 DEF Fits, Driving, Starting, Updating, Gathering, Taking, Ready, Dispatched, Shutting, Stale
  <2>3. Along(label, me[p], live[p]) /\ label \notin Ready
    BY <1>1, <2>1, <2>2, Onwards DEF Ready
  <2> QED BY <1>1, <1>3, <1>6, <2>1, <2>3, Here, QuietGoto
<1> QED BY <1>4, <1>5, <1>6 DEF Loop

LEMMA SamplingSteady ==
    ASSUME TrainInv, NEW p \in Process, Episode(p) \/ Sampling(p) \/ SaveReload(p)
    PROVE  TrainInv'
<1>1. UNCHANGED <<rows, job, journal, dispatches, me, live>>
  BY DEF Episode, Sampling, SaveReload, sessionVars, workVars
<1>2. pc[p] \in {"episode", "sampling", "save"} /\ pc[p] \in Driving
  BY DEF Episode, Sampling, SaveReload, At, Driving, Updating, Gathering, Taking, Dispatched
<1>3. PICK label : /\ Goto(p, label)
                   /\ \/ label = "unwind" \/ (label = "confirm" /\ pc[p] = "save")
                      \/ (label \in {"sampling", "classify"} /\ pc[p] \in {"episode", "sampling"})
  BY DEF Episode, Sampling, SaveReload, At
<1>4. Fits(pc[p], me[p].then, State(p), live[p])
  BY <1>2, Here
<1>5. CASE label = "unwind"
  BY <1>1, <1>2, <1>3, <1>5, Here, Unwinds
<1>6. CASE label # "unwind"
  <2>1. Fits(label, me[p].then, State(p), live[p])
    BY <1>4, <1>3, <1>6 DEF Fits, Driving, Starting, Updating, Gathering, Taking, Ready,
       Dispatched, Shutting
  <2>2. label \in {"confirm", "sampling", "classify"}
    BY <1>3, <1>6
  <2>3. Along(label, me[p], live[p]) /\ label \notin Ready
    BY <1>2, <2>1, <2>2, Onwards DEF Ready
  <2> QED BY <1>1, <1>2, <1>3, <2>3, Here, QuietGoto
<1> QED BY <1>5, <1>6

-----------------------------------------------------------------------------
(* Closing.                                                                *)

\* A close goes on, or train raises: nothing but its session and its call change.
LEMMA ClosingStep ==
    ASSUME TrainInv, NEW p \in Process, NEW label, NEW m, NEW l, Goto(p, label),
           UNCHANGED <<job, journal, dispatches>>, RowsKept,
           \/ UNCHANGED me /\ m = me[p]
           \/ DOMAIN m = DOMAIN Idle /\ me' = [me EXCEPT ![p] = m],
           \/ UNCHANGED live /\ l = live[p]
           \/ (l = Nothing \/ IsLive(l)) /\ live' = [live EXCEPT ![p] = l],
           label # "idle" /\ m.then # "terminal" => Busy(p),
           label \notin Driving \/ label = "freeze",
           Fits(label, m.then, journal[m.job], l),
           label = "freeze" \/ m.then = "finish" => m.job \in Job /\ Claimed(m.job)
    PROVE  TrainInv'
<1>1. Tables
  BY DEF TrainInv
<1>2. Moved(p) /\ pc'[p] = label
  BY <1>1, GotoMoves
<1>3. me'[p] = m /\ live'[p] = l
  BY <1>1 DEF Tables
<1>4. Along(label, m, l)
  BY DEF Along, Driving, Updating, Ready
<1>5. label \notin Ready
  BY DEF Driving, Updating, Ready
<1>6. Busy(p)' => Busy(p)
  BY <1>2, <1>3 DEF Busy
<1> QED BY <1>2, <1>3, <1>4, <1>5, <1>6, QuietStep

\* What a close knows of its call.
LEMMA Closer ==
    ASSUME TrainInv, NEW p \in Process
    PROVE  /\ Tables /\ Fits(pc[p], me[p].then, State(p), live[p]) /\ DOMAIN me[p] = DOMAIN Idle
           /\ me[p].then = "finish" => Mine(p) \in Job /\ Claimed(Mine(p))
           /\ State(p) = journal[me[p].job] /\ Mine(p) = me[p].job
           /\ live[p] = Nothing \/ IsLive(live[p])
           /\ UNCHANGED rows => RowsKept
  BY SameRows DEF TrainInv, Along, State, Mine, Tables

LEMMA TerminalCloseSteady ==
    ASSUME TrainInv, NEW p \in Process, TerminalClose(p)
    PROVE  TrainInv'
<1> DEFINE m == [Idle EXCEPT !.then = "terminal"]
<1>1. m.then = "terminal" /\ DOMAIN m = DOMAIN Idle
  BY DEF Idle
<1>2. Fits("close", m.then, journal[m.job], live[p])
  BY <1>1 DEF Fits, Driving, Starting, Updating, Gathering, Taking, Ready, Dispatched, Shutting
<1>3. UNCHANGED <<rows, job, journal, dispatches, live>> /\ Goto(p, "close") /\ me' = [me EXCEPT ![p] = m]
  BY DEF TerminalClose, sessionVars, workVars
<1>4. "close" \notin Driving
  BY DEF Driving, Starting, Updating, Gathering, Taking, Ready, Dispatched
<1> HIDE DEF m
<1> QED BY <1>1, <1>2, <1>3, <1>4, Closer, ClosingStep

LEMMA CloseSteady ==
    ASSUME TrainInv, NEW p \in Process, Close(p)
    PROVE  TrainInv'
<1> DEFINE then == IF At(p, "unwind") THEN "raise" ELSE me[p].then
           key == ShutdownKey(p, then)
           m == IF then = "raise" THEN Idle ELSE me[p]
<1>1. /\ pc[p] \in {"close", "unwind"}
      /\ Tables /\ Fits(pc[p], me[p].then, State(p), live[p]) /\ DOMAIN me[p] = DOMAIN Idle
      /\ live[p] = Nothing \/ IsLive(live[p])
      /\ RowsKept /\ UNCHANGED <<job, journal, dispatches>>
  BY Closer DEF Close, workVars
<1>2. then \in {"raise", "finish", "terminal"} /\ (pc[p] = "unwind" => me[p].then # "terminal" /\ then = "raise")
  BY <1>1 DEF Fits, At
<1>3. me' = [me EXCEPT ![p] = IF then = "raise" THEN Idle ELSE @]
  BY DEF Close
<1>4. /\ m.then = then /\ DOMAIN m = DOMAIN Idle
      /\ (UNCHANGED me /\ m = me[p]) \/ me' = [me EXCEPT ![p] = m]
      /\ then # "raise" => pc[p] = "close" /\ m = me[p]
  BY <1>1, <1>2, <1>3 DEF Idle, At
<1>5. /\ then = "finish" => m.job \in Job /\ Claimed(m.job) /\ journal[m.job].phase \in {"finalizing", "frozen"}
      /\ then # "terminal" => Busy(p)
  BY <1>4, <1>1, <1>2, Closer DEF Mine, Fits, State, At, Busy
<1>6. IsLive(live[p]) => key \in Closes
  BY <1>2 DEF ShutdownKey, Default, IsLive, Closes
<1> HIDE DEF m, then, key
<1>7. CASE Goto(p, Done(then)) /\ UNCHANGED live
  <2>1. PICK label : /\ label = Done(then)
                     /\ \/ label = "freeze" /\ then = "finish"
                        \/ label = "idle" /\ then = "raise"
                        \/ label = "abort" /\ then = "terminal"
    BY <1>2 DEF Done
  <2>2. Fits(label, m.then, journal[m.job], live[p])
    BY <1>4, <1>5, <1>2, <2>1 DEF Fits, Driving, Starting, Updating, Gathering, Taking, Ready,
       Dispatched, Shutting
  <2>3. label \notin Driving \/ label = "freeze"
    BY <2>1 DEF Driving, Starting, Updating, Gathering, Taking, Ready, Dispatched
  <2>4. label # "idle" /\ m.then # "terminal" => Busy(p)
    BY <1>4, <1>5, <2>1
  <2>5. label = "freeze" \/ m.then = "finish" => m.job \in Job /\ Claimed(m.job)
    BY <1>4, <1>5, <2>1
  <2>6. Goto(p, label)
    BY <1>7, <2>1
  <2> QED BY <1>1, <1>4, <1>7, <2>2, <2>3, <2>4, <2>5, <2>6, ClosingStep
<1>8. CASE Goto(p, "announce shutdown") /\ live' = [live EXCEPT ![p].asked = key, ![p].closing = key] /\ live[p] # Nothing
  <2> DEFINE l == [live[p] EXCEPT !.asked = key, !.closing = key]
  <2>1. IsLive(l) /\ l.closing \in Closes
    BY <1>1, <1>6, <1>8 DEF IsLive
  <2>2. live' = [live EXCEPT ![p] = l]
    BY <1>8
  <2> HIDE DEF l
  <2>3. Fits("announce shutdown", m.then, journal[m.job], l)
    BY <1>2, <1>4, <1>5, <2>1 DEF Fits, Driving, Starting, Updating, Gathering, Taking, Ready, Dispatched, Shutting
  <2>4. "announce shutdown" \notin Driving
    BY DEF Driving, Starting, Updating, Gathering, Taking, Ready, Dispatched
  <2> QED BY <1>1, <1>4, <1>5, <1>8, <2>1, <2>2, <2>3, <2>4, ClosingStep
<1>9. CASE Goto(p, Failed(then)) /\ live' = [live EXCEPT ![p].asked = key] /\ live[p] # Nothing
  <2> DEFINE l == [live[p] EXCEPT !.asked = key]
  <2>1. IsLive(l)
    BY <1>1, <1>6, <1>9 DEF IsLive
  <2>2. live' = [live EXCEPT ![p] = l]
    BY <1>9
  <2> HIDE DEF l
  <2>3. PICK label : label = Failed(then) /\ label = IF then = "finish" THEN "unwind" ELSE "idle"
    BY DEF Failed
  <2>4. Fits(label, m.then, journal[m.job], l)
    BY <1>2, <1>4, <1>5, <2>1, <2>3 DEF Fits, Driving, Starting, Updating, Gathering, Taking, Ready, Dispatched, Shutting
  <2>5. label \notin Driving
    BY <2>3 DEF Driving, Starting, Updating, Gathering, Taking, Ready, Dispatched
  <2>6. label # "idle" /\ m.then # "terminal" => Busy(p)
    BY <1>4, <1>5, <2>3
  <2>7. label = "freeze" \/ m.then = "finish" => m.job \in Job /\ Claimed(m.job)
    BY <1>4, <1>5, <2>3
  <2>8. Goto(p, label)
    BY <1>9, <2>3
  <2> QED BY <1>1, <1>4, <2>1, <2>2, <2>4, <2>5, <2>6, <2>7, <2>8, ClosingStep
<1>10. \/ live[p] = Nothing /\ Goto(p, Done(then)) /\ UNCHANGED live
       \/ Goto(p, "announce shutdown") /\ live' = [live EXCEPT ![p].asked = key, ![p].closing = key] /\ live[p] # Nothing
       \/ Goto(p, Failed(then)) /\ live' = [live EXCEPT ![p].asked = key] /\ live[p] # Nothing
  BY DEF Close, then, key
<1> QED BY <1>7, <1>8, <1>9, <1>10

\* A close that has a session goes on, at freeze only when it is the end of the job.
LEMMA ShuttingStep ==
    ASSUME TrainInv, NEW p \in Process, NEW label, NEW l, Goto(p, label),
           UNCHANGED <<job, journal, dispatches, me>>, RowsKept,
           pc[p] \in Shutting \cup {"closed"},
           \/ UNCHANGED live /\ l = live[p]
           \/ (l = Nothing \/ IsLive(l)) /\ live' = [live EXCEPT ![p] = l],
           \/ (label \in Shutting /\ IsLive(l) /\ l.closing \in Closes)
           \/ label = "closed"
           \/ label = Failed(me[p].then)
           \/ label = Done(me[p].then)
    PROVE  TrainInv'
<1> DEFINE then == me[p].then
<1>1. /\ Fits(pc[p], then, journal[me[p].job], live[p])
      /\ pc[p] # "idle" /\ pc[p] # "unwind"
  BY Closer DEF Shutting
<1>2. then \in {"raise", "finish", "terminal"} /\ (then = "finish" => journal[me[p].job].phase \in {"finalizing", "frozen"})
  BY <1>1 DEF Fits
<1>3. then = "finish" => me[p].job \in Job /\ Claimed(me[p].job)
  BY Closer
<1>4. then # "terminal" => Busy(p)
  BY <1>1 DEF Busy
<1>5. CASE label = Failed(then) \/ label = Done(then)
  <2>1. \/ label = "unwind" /\ then = "finish"
        \/ label = "idle" /\ then # "finish"
        \/ label = "freeze" /\ then = "finish"
        \/ label = "abort" /\ then = "terminal"
    BY <1>2, <1>5 DEF Failed, Done
  <2>2. Fits(label, then, journal[me[p].job], l)
    BY <1>2, <2>1 DEF Fits, Driving, Starting, Updating, Gathering, Taking, Ready, Dispatched, Shutting
  <2>3. label \notin Driving \/ label = "freeze"
    BY <2>1 DEF Driving, Starting, Updating, Gathering, Taking, Ready, Dispatched
  <2>4. label # "idle" /\ then # "terminal" => Busy(p)
    BY <1>4
  <2>5. label = "freeze" \/ then = "finish" => me[p].job \in Job /\ Claimed(me[p].job)
    BY <1>3, <2>1
  <2> QED BY <2>2, <2>3, <2>4, <2>5, ClosingStep
<1>6. CASE label = "closed" \/ (label \in Shutting /\ IsLive(l) /\ l.closing \in Closes)
  BY <1>6, <1>2, <1>4, <1>3, ClosingStep DEF Driving, Starting, Updating, Gathering, Taking, Ready,
     Dispatched, Shutting, Fits
<1> QED BY <1>5, <1>6

LEMMA AnnounceShutdownSteady ==
    ASSUME TrainInv, NEW p \in Process, AnnounceShutdown(p)
    PROVE  TrainInv'
<1>1. pc[p] = "announce shutdown" /\ pc[p] \in Shutting
  BY DEF AnnounceShutdown, At, Shutting
<1>2. IsLive(live[p]) /\ live[p].closing \in Closes /\ Recording
  BY <1>1, Closer DEF Fits, Tables
<1>3. PICK n, receipts, ok, bad : /\ Observe(p, ShutdownRow(p), n, receipts, ok, bad)
                                 /\ ok = "shut" /\ bad = "shut unannounced"
  BY DEF AnnounceShutdown
<1>4. \A j \in Job, i \in Indices : ShutdownRow(p) # Update(j, i)
  BY <1>2, OtherRow DEF Closes, ShutdownRow, Row
<1>5. RowsKept /\ \E label \in {ok, bad} : Goto(p, label)
  <2>1. Observe(p, ShutdownRow(p), n, receipts, ok, bad)
    BY <1>3
  <2>2. Recording
    BY <1>2
  <2> QED BY <1>4, <2>1, <2>2, ObserveElsewhere
<1>6. UNCHANGED <<job, journal, dispatches, me, live>>
  BY DEF AnnounceShutdown, sessionVars, workVars
<1>7. \A label \in {ok, bad} : label \in Shutting
  BY <1>3 DEF Shutting
<1> QED BY <1>1, <1>2, <1>5, <1>6, <1>7, ShuttingStep

LEMMA ShutSteady ==
    ASSUME TrainInv, NEW p \in Process, Shut(p)
    PROVE  TrainInv'
<1>1. pc[p] \in {"shut", "shut unannounced"} /\ pc[p] \in Shutting
  BY DEF Shut, Shutting
<1>2. IsLive(live[p]) /\ live[p].closing \in Closes /\ RowsKept
  BY <1>1, Closer DEF Fits, Shut
<1>3. UNCHANGED <<job, journal, dispatches, me>>
  BY DEF Shut, workVars
<1> DEFINE l == [live[p] EXCEPT !.up = FALSE]
<1>4. IsLive(l) /\ l.closing \in Closes
  BY <1>2 DEF IsLive
<1>5. \/ /\ live' = [live EXCEPT ![p] = l]
         /\ Goto(p, "publish shutdown") \/ Goto(p, Failed(me[p].then))
      \/ /\ live' = [live EXCEPT ![p] = Nothing]
         /\ Goto(p, Failed(me[p].then))
  BY DEF Shut
<1> HIDE DEF l
<1>6. "publish shutdown" \in Shutting
  BY DEF Shutting
<1> QED BY <1>1, <1>2, <1>3, <1>4, <1>5, <1>6, ShuttingStep

LEMMA PublishShutdownSteady ==
    ASSUME TrainInv, NEW p \in Process, PublishShutdown(p)
    PROVE  TrainInv'
<1>1. pc[p] = "publish shutdown" /\ pc[p] \in Shutting
  BY DEF PublishShutdown, At, Shutting
<1>2. IsLive(live[p]) /\ live[p].closing \in Closes /\ Recording
  BY <1>1, Closer DEF Fits, Tables
<1>3. PICK receipts : Observe(p, ShutdownRow(p), 2, receipts, "closed", Failed(me[p].then))
  BY DEF PublishShutdown
<1>4. \A j \in Job, i \in Indices : ShutdownRow(p) # Update(j, i)
  BY <1>2, OtherRow DEF Closes, ShutdownRow, Row
<1>5. RowsKept /\ \E label \in {"closed", Failed(me[p].then)} : Goto(p, label)
  BY <1>2, <1>3, <1>4, ObserveElsewhere
<1>6. UNCHANGED <<job, journal, dispatches, me>>
  BY DEF PublishShutdown, workVars
<1>7. live' = [live EXCEPT ![p] = Nothing] \/ live' = [live EXCEPT ![p] = live[p]]
  BY DEF PublishShutdown
<1> QED BY <1>1, <1>2, <1>5, <1>6, <1>7, ShuttingStep

LEMMA CloseDoneSteady ==
    ASSUME TrainInv, NEW p \in Process, CloseDone(p)
    PROVE  TrainInv'
  BY Closer, ShuttingStep DEF CloseDone, At, sessionVars, workVars

\* close_startup: these places are of close() only.
LEMMA AbortingStep ==
    ASSUME TrainInv, NEW p \in Process, NEW label \in {"publish abort", "aborted", "idle"}, Goto(p, label),
           pc[p] \in {"abort", "publish abort", "aborted"},
           UNCHANGED <<job, journal, dispatches, me, live>>, RowsKept
    PROVE  TrainInv'
  BY Closer, ClosingStep DEF Fits, Driving, Starting, Updating, Gathering, Taking, Ready,
     Dispatched, Shutting

LEMMA AbortSteady ==
    ASSUME TrainInv, NEW p \in Process, Abort(p) \/ PublishAbort(p) \/ AbortDone(p)
    PROVE  TrainInv'
<1>1. UNCHANGED <<job, journal, dispatches, me, live>> /\ pc[p] \in {"abort", "publish abort", "aborted"}
  BY DEF Abort, PublishAbort, AbortDone, sessionVars, workVars, At
<1>2. \A j \in Job, i \in Indices : AbortRow(p) # Update(j, i)
  BY OtherRow DEF AbortRow, Row
<1>3. Recording /\ (UNCHANGED rows => RowsKept)
  BY Closer DEF Tables
<1>4. RowsKept /\ \E label \in {"publish abort", "aborted", "idle"} : Goto(p, label)
  <2>1. CASE \E receipts : Observe(p, AbortRow(p), 1, receipts, "publish abort", "idle")
    <3>1. PICK n, receipts, ok, bad : /\ Observe(p, AbortRow(p), n, receipts, ok, bad)
                                     /\ ok = "publish abort" /\ bad = "idle"
      BY <2>1
    <3>2. RowsKept /\ \E label \in {ok, bad} : Goto(p, label)
      <4>1. Observe(p, AbortRow(p), n, receipts, ok, bad)
        BY <3>1
      <4>2. Recording
        BY <1>3
      <4> QED BY <1>2, <4>1, <4>2, ObserveElsewhere
    <3> QED BY <3>1, <3>2
  <2>2. CASE \E receipts : Observe(p, AbortRow(p), 2, receipts, "aborted", "idle")
    <3>1. PICK receipts : Observe(p, AbortRow(p), 2, receipts, "aborted", "idle")
      BY <2>2
    <3>2. RowsKept /\ \E label \in {"aborted", "idle"} : Goto(p, label)
      BY <1>2, <1>3, <3>1, ObserveElsewhere
    <3> QED BY <3>2
  <2>3. CASE Goto(p, "idle") /\ UNCHANGED rows
    BY <1>3, <2>3
  <2> QED BY <2>1, <2>2, <2>3 DEF Abort, PublishAbort, AbortDone
<1> QED BY <1>1, <1>4, AbortingStep

LEMMA CrashSteady ==
    ASSUME TrainInv, NEW p \in Process, Crash(p)
    PROVE  TrainInv'
<1>1. /\ UNCHANGED <<rows, job, journal, dispatches>> /\ Goto(p, "idle")
      /\ live' = [live EXCEPT ![p] = Nothing] /\ me' = [me EXCEPT ![p] = Idle]
  BY DEF Crash, workVars
<1>2. Fits("idle", Idle.then, journal[Idle.job], Nothing) /\ Idle.then = "raise"
  BY DEF Idle, Fits, Driving, Starting, Updating, Gathering, Taking, Ready, Dispatched, Shutting
<1>3. "idle" \notin Driving
  BY DEF Driving, Starting, Updating, Gathering, Taking, Ready, Dispatched
<1>4. \E m : m = Idle /\ m.then = "raise" /\ Fits("idle", m.then, journal[m.job], Nothing)
  BY <1>2
<1> QED BY <1>1, <1>3, <1>4, Closer, ClosingStep

-----------------------------------------------------------------------------
(* The accounting of an update.                                            *)

\* The update a call is at is within the budget.
LEMMA WithinBudget ==
    ASSUME TrainInv, NEW p \in Process, pc[p] \in Updating
    PROVE  Spent(State(p)) \in Indices /\ Spent(State(p)) \in Nat /\ Mine(p) \in Job /\ pc[p] \in Driving
<1>1. pc[p] \in Driving
  BY DEF Driving
<1>2. Mine(p) \in Job /\ Spent(State(p)) < MaxUpdates
  BY <1>1, Here DEF Fits
<1>3. Spent(State(p)) \in Nat
  BY <1>2 DEF TrainInv, Tables, IsJournal, Spent, State
<1> QED BY <1>1, <1>2, <1>3, UpdateAssumption DEF Indices

LEMMA UpdateObserved ==
    ASSUME TrainInv, NEW p \in Process, NEW n \in Nat \ {0}, NEW receipts, NEW ok,
           Observe(p, UpdateRow(p), n, receipts, ok, "unwind"),
           UNCHANGED <<job, journal, dispatches, me, live>>,
           pc[p] \in Ready \cup Dispatched,
           \A r \in receipts : r[1] = "checkpoint" => CheckpointOf(r[2], Mine(p)),
           ok \in Ready => pc[p] \in Ready,
           ok \notin {"ancestry", "supersede", "begin"},
           Fits(ok, me[p].then, State(p), live[p])
    PROVE  TrainInv'
<1>0. PICK j, i : j = Mine(p) /\ i = Spent(State(p))
  OBVIOUS
<1>1. /\ i \in Indices /\ j \in Job /\ UpdateRow(p) = Update(j, i)
      /\ pc[p] \in Driving /\ Recording /\ Tables /\ Claimed(j)
  BY <1>0, WithinBudget, Here DEF Updating, UpdateRow, Tables
<1>2. /\ Recording' /\ Grown
      /\ \A k \in Job, m \in Indices : k # j \/ m # i => rows'[Update(k, m)] = rows[Update(k, m)]
      /\ rows'[Update(j, i)] = rows[Update(j, i)] \/ Newest(Update(j, i))' = receipts
      /\ \E label : Goto(p, label) /\ (label = "unwind" \/ (label = ok /\ rows'[Update(j, i)] # <<>>))
  <2>1. PICK bad : bad = "unwind" /\ Observe(p, Update(j, i), n, receipts, ok, bad)
    BY <1>1
  <2>2. Observe(p, Update(j, i), n, receipts, ok, bad)
    BY <2>1
  <2>3. j \in Job /\ i \in Indices /\ Recording
    BY <1>1
  <2>4. /\ Recording' /\ Grown
        /\ \A k \in Job, m \in Indices : k # j \/ m # i => rows'[Update(k, m)] = rows[Update(k, m)]
        /\ rows'[Update(j, i)] = rows[Update(j, i)] \/ Newest(Update(j, i))' = receipts
        /\ \E label : Goto(p, label) /\ (label = bad \/ (label = ok /\ rows'[Update(j, i)] # <<>>))
    BY <2>2, <2>3, ObserveUpdate
  <2> QED BY <2>1, <2>4
<1>3. PICK label : Goto(p, label) /\ (label = "unwind" \/ (label = ok /\ rows'[Update(j, i)] # <<>>))
  BY <1>2
<1>4. Moved(p) /\ pc'[p] = label
  BY <1>1, <1>3, GotoMoves
<1>5. Selections'
  <2> SUFFICES ASSUME NEW k \in Job, NEW m \in Indices, NEW r \in Newest(Update(k, m))', r[1] = "checkpoint"
               PROVE  CheckpointOf(r[2], k)
    BY DEF Selections, CheckpointOf, Present
  <2>1. CASE k = j /\ m = i /\ Newest(Update(j, i))' = receipts
    BY <1>0, <2>1
  <2>2. CASE rows'[Update(k, m)] = rows[Update(k, m)]
    BY <2>2 DEF Newest, TrainInv, Selections
  <2> QED BY <1>2, <2>1, <2>2
<1>6. Along(label, me[p], live[p])'
  BY <1>1, <1>2, <1>0, <1>3, Here, AlongStays DEF Along, State, Mine, Claimed
<1>7. pc'[p] \in Ready => pc[p] \in Ready
  BY <1>3, <1>4 DEF Ready
<1>8. Along(pc[p], me[p], live[p])'
  BY <1>4, <1>6
<1>9. Busy(p)
  BY <1>1, Here
<1> QED BY <1>2, <1>4, <1>5, <1>7, <1>8, <1>9, SteadyStep

LEMMA ConfirmSteady ==
    ASSUME TrainInv, NEW p \in Process, Intent(p) \/ Confirm(p) \/ SelectCheckpoint(p)
    PROVE  TrainInv'
<1>1. pc[p] \in Ready \cup Dispatched /\ pc[p] \in Driving
  BY DEF Intent, Confirm, SelectCheckpoint, At, Driving, Updating, Ready, Dispatched
<1>2. UNCHANGED <<job, journal, dispatches, me, live>>
  BY DEF Intent, Confirm, SelectCheckpoint, sessionVars, workVars
<1>3. PICK n, receipts, ok :
         /\ Observe(p, UpdateRow(p), n, receipts, ok, "unwind") /\ n \in Nat \ {0}
         /\ \/ n = 1 /\ receipts = {IntentReceipt(p)} /\ ok = "update" /\ pc[p] = "intent"
            \/ /\ n = 2 /\ receipts = {IntentReceipt(p), UpdateReceipt(p)} /\ ok \in {"checkpoint", "updated"}
               /\ pc[p] = "confirm"
            \/ /\ n = 3 /\ receipts = {IntentReceipt(p), UpdateReceipt(p), Receipt("checkpoint", Checkpoint(p))}
               /\ ok = "updated" /\ pc[p] = "checkpoint"
  <2>1. CASE Intent(p)
    BY <2>1 DEF Intent, At
  <2>2. CASE Confirm(p)
    <3>1. PICK ok : /\ Observe(p, UpdateRow(p), 2, {IntentReceipt(p), UpdateReceipt(p)}, ok, "unwind")
                    /\ ok \in {"checkpoint", "updated"} /\ pc[p] = "confirm"
      BY <2>2 DEF Confirm, At
    <3> QED BY <3>1
  <2>3. CASE SelectCheckpoint(p)
    BY <2>3 DEF SelectCheckpoint, At
  <2> QED BY <2>1, <2>2, <2>3
<1>4. \A r \in receipts : r[1] = "checkpoint" => CheckpointOf(r[2], Mine(p))
  <2>1. IntentReceipt(p)[1] # "checkpoint" /\ UpdateReceipt(p)[1] # "checkpoint"
    BY DEF IntentReceipt, UpdateReceipt, Receipt
  <2>2. pc[p] = "checkpoint" => CheckpointOf(Receipt("checkpoint", Checkpoint(p))[2], Mine(p))
    <3> SUFFICES ASSUME pc[p] = "checkpoint" PROVE CheckpointOf(Checkpoint(p), Mine(p))
      BY DEF Receipt
    <3>1. State(p).phase = "updating"
      BY <1>1, Here DEF Fits, Dispatched
    <3> QED BY <3>1 DEF CheckpointOf, Checkpoint, Present, State
  <2> QED BY <1>3, <2>1, <2>2
<1>5. Fits(pc[p], me[p].then, State(p), live[p])
  BY <1>1, Here
<1>6. Fits(ok, me[p].then, State(p), live[p])
  BY <1>5, <1>3 DEF Fits, Driving, Starting, Updating, Gathering, Taking, Ready, Dispatched,
     Shutting
<1>7. ok \notin {"ancestry", "supersede", "begin"}
  BY <1>3
<1>8. ok \in Ready => pc[p] \in Ready
  BY <1>3 DEF Ready
<1> QED BY <1>1, <1>2, <1>3, <1>4, <1>6, <1>7, <1>8, UpdateObserved

-----------------------------------------------------------------------------
(* A dispatch.                                                             *)

\* Only the call under way is ready for an update.
LEMMA OnlyReady ==
    ASSUME TrainInv, NEW p \in Process, Busy(p), NEW q \in Process, pc[q] \in Ready
    PROVE  q = p
  BY Here DEF Driving, Updating, TrainInv, Alone

\* The ready batch of j, appended to the dispatches, is placed at the update j spends next.
LEMMA DispatchPlaced ==
    ASSUME TrainInv, NEW p \in Process, pc[p] = "update", Moved(p), pc'[p] \notin Ready,
           NEW d, d.job = Mine(p), d.on = live[p].weights, d.batch = State(p).batch,
           dispatches' = Append(dispatches, d), UNCHANGED <<rows, job, journal>>
    PROVE  Dispatches'
<1>0. PICK j, i, s : j = Mine(p) /\ i = Spent(State(p)) /\ s = State(p)
  OBVIOUS
<1>1. /\ pc[p] \in Updating /\ pc[p] \in Ready
      /\ "update" \in Ready \cup Dispatched /\ "update" \in Gathering \cup Ready
  BY DEF Updating, Ready
<1>2. i \in Indices /\ i \in Nat /\ j \in Job /\ pc[p] \in Driving /\ s = journal[j] /\ i = Spent(s)
  BY <1>0, <1>1, WithinBudget DEF State, Mine
<1>3. Fits("update", me[p].then, s, live[p]) /\ rows[Update(j, i)] # <<>> /\ Busy(p) /\ Tables /\ IsJournal(s)
  BY <1>0, <1>2, Here DEF Along, Mine, State, Tables
<1>4. s.phase = "updating" /\ \A g \in s.batch : g.policy = live[p].weights
  BY <1>1, <1>3 DEF Fits
<1>5. Present(j) /\ Ongoing(j) /\ Settled(j)
  BY <1>0, <1>1, <1>2, <1>4 DEF Mine, Present, Ongoing, Settled
<1>6. ~Settled(j)'
  <2> SUFFICES ASSUME NEW q \in Process, pc'[q] \in Ready, me'[q].job = j PROVE FALSE
    BY <1>2, <1>4 DEF Settled
  <2>1. q # p
    OBVIOUS
  <2>2. pc[q] \in Ready
    BY <2>1 DEF Moved
  <2> QED BY <1>3, <2>1, <2>2, OnlyReady
<1>7. \A k \in Job : Settled(k)' => Settled(k)
  BY SettledBefore DEF Settled, Ongoing, Present
<1>8. /\ IsRow(dispatches) /\ IsRow(dispatches')
      /\ DOMAIN dispatches' = DOMAIN dispatches \cup {Len(dispatches')} /\ Len(dispatches') \notin DOMAIN dispatches
      /\ dispatches'[Len(dispatches')] = d
      /\ \A k \in DOMAIN dispatches : dispatches'[k] = dispatches[k]
  BY AppendRow DEF TrainInv, Dispatches
<1>9. PICK at \in [DOMAIN dispatches -> Indices] : Placing(at)
  BY DEF TrainInv, Dispatches
<1>10. PICK last : last = Len(dispatches')
  OBVIOUS
<1>11. PICK at2 \in [DOMAIN dispatches' -> Indices] : at2[last] = i /\ \A k \in DOMAIN dispatches : at2[k] = at[k]
  <2> DEFINE at2 == [k \in DOMAIN dispatches' |-> IF k \in DOMAIN dispatches THEN at[k] ELSE i]
  <2>1. at2 \in [DOMAIN dispatches' -> Indices]
    BY <1>2, <1>9
  <2>2. at2[last] = i /\ \A k \in DOMAIN dispatches : at2[k] = at[k]
    BY <1>8, <1>10
  <2> QED BY <2>1, <2>2
<1>12. ASSUME NEW k \in DOMAIN dispatches, job[dispatches[k].job].root = job[j].root
       PROVE  at[k] # i /\ Ats(s.batch) \cap Ats(dispatches[k].batch) = {}
  BY <1>2, <1>5, <1>9, <1>12 DEF Placing, SameRoot, Before
<1>13. Before(j, d, i)'
  BY <1>2, <1>3, <1>0, <1>6 DEF IsJournal, Ats, Before
<1>14. Placing(at2)'
  <2>1. ASSUME NEW k \in DOMAIN dispatches', NEW m \in DOMAIN dispatches', k # m, Root(k)' = Root(m)'
        PROVE  at2[k] # at2[m] /\ Ats(dispatches'[k].batch) \cap Ats(dispatches'[m].batch) = {}
    <3>1. CASE k \in DOMAIN dispatches /\ m \in DOMAIN dispatches
      <4>1. dispatches'[k] = dispatches[k] /\ dispatches'[m] = dispatches[m] /\ at2[k] = at[k] /\ at2[m] = at[m]
        BY <1>8, <1>11, <3>1
      <4>2. Root(k) = Root(m)
        BY <2>1, <4>1 DEF Root
      <4> QED BY <1>9, <2>1, <3>1, <4>1, <4>2 DEF Placing
    <3>2. CASE k = last /\ m \in DOMAIN dispatches
      BY <1>0, <1>8, <1>10, <2>1, <3>2, <1>11, <1>12 DEF Root
    <3>3. CASE k \in DOMAIN dispatches /\ m = last
      BY <1>0, <1>8, <1>10, <2>1, <3>3, <1>11, <1>12 DEF Root
    <3> QED BY <1>8, <1>10, <2>1, <3>1, <3>2, <3>3
  <2>2. ASSUME NEW k \in DOMAIN dispatches', NEW h \in Job, NEW e, e = dispatches'[k],
               Ongoing(h), SameRoot(e.job, h)
        PROVE  Before(h, e, at2[k])'
    <3>1. CASE k \in DOMAIN dispatches
      <4>1. e = dispatches[k] /\ at2[k] = at[k]
        BY <1>8, <1>11, <2>2, <3>1
      <4>2. Before(h, e, at[k])
        BY <1>9, <2>2, <3>1, <4>1 DEF Placing
      <4> QED BY <1>1, <1>7, <4>1, <4>2 DEF Before
    <3>2. CASE k = last
      BY <1>8, <1>10, <1>11, <2>2, <3>2, <1>0, <1>2, <1>5, <1>13 DEF TrainInv, Lineages, SameRoot
    <3> QED BY <1>8, <1>10, <3>1, <3>2
  <2> QED BY <2>1, <2>2 DEF Placing, Ongoing, Present, SameRoot
<1>15. \A k \in DOMAIN dispatches' :
          /\ dispatches'[k].job \in Job /\ Present(dispatches'[k].job)
          /\ \A g \in dispatches'[k].batch : IsGroup(g) /\ g.policy = dispatches'[k].on
  <2> SUFFICES ASSUME NEW k \in DOMAIN dispatches'
               PROVE  /\ dispatches'[k].job \in Job /\ Present(dispatches'[k].job)
                      /\ \A g \in dispatches'[k].batch : IsGroup(g) /\ g.policy = dispatches'[k].on
    OBVIOUS
  <2>1. CASE k \in DOMAIN dispatches
    BY <1>8, <2>1 DEF TrainInv, Dispatches
  <2>2. CASE k = last
    BY <1>8, <1>10, <2>2, <1>3, <1>0, <1>2, <1>4, <1>5 DEF IsJournal
  <2> QED BY <1>8, <1>10, <2>1, <2>2
<1> QED BY <1>8, <1>11, <1>14, <1>15 DEF Dispatches, Present

LEMMA DispatchSteady ==
    ASSUME TrainInv, NEW p \in Process, DispatchUpdate(p)
    PROVE  TrainInv'
<1>1. pc[p] = "update" /\ pc[p] \in Driving /\ UNCHANGED <<rows, job, journal>>
  BY DEF DispatchUpdate, At, Driving, Updating, Ready
<1>2. CASE Goto(p, "unwind") /\ UNCHANGED <<live, me, dispatches>>
  BY <1>1, <1>2, Here, Unwinds
<1>3. CASE \E label \in {"save", "unwind"} : Goto(p, label) /\
           /\ dispatches' = Append(dispatches, [job |-> Mine(p), on |-> live[p].weights, batch |-> State(p).batch])
           /\ live' = [live EXCEPT ![p].weights = Append(@, UpdateRow(p))]
           /\ \E nonzero : me' = [me EXCEPT ![p].nonzero = nonzero]
  <2>1. PICK label \in {"save", "unwind"} : Goto(p, label)
    BY <1>3
  <2>2. Tables /\ Fits("update", me[p].then, State(p), live[p]) /\ Busy(p) /\ Mine(p) \in Job /\ Claimed(Mine(p))
    BY <1>1, Here
  <2>3. PICK l : IsLive(l) /\ live' = [live EXCEPT ![p] = l]
    <3> DEFINE l == [live[p] EXCEPT !.weights = Append(live[p].weights, UpdateRow(p))]
    <3>1. IsLive(live[p])
      BY <2>2 DEF Fits, Driving, Starting, Updating, Gathering, Taking, Ready, Dispatched, Shutting
    <3>2. IsLive(l) /\ live' = [live EXCEPT ![p] = l]
      BY <1>3, <3>1 DEF IsLive
    <3> QED BY <3>2
  <2>4. PICK m : /\ me' = [me EXCEPT ![p] = m] /\ DOMAIN m = DOMAIN Idle
                 /\ m.job = me[p].job /\ m.then = me[p].then
    <3>1. PICK nonzero : me' = [me EXCEPT ![p].nonzero = nonzero]
      BY <1>3
    <3> DEFINE m == [me[p] EXCEPT !.nonzero = nonzero]
    <3>2. DOMAIN m = DOMAIN Idle /\ m.job = me[p].job /\ m.then = me[p].then
      BY <2>2 DEF Tables, Idle
    <3>3. me' = [me EXCEPT ![p] = m]
      BY <3>1
    <3> QED BY <3>2, <3>3
  <2>5. Moved(p) /\ pc'[p] = label /\ me'[p] = m /\ live'[p] = l
    BY <2>1, <2>2, <2>3, <2>4, GotoMoves DEF Tables
  <2>6. label \notin Ready
    BY <2>1 DEF Ready
  <2>7. Tables'
    BY <1>1, <2>2, <2>5, TablesStay DEF Tables, Recording
  <2>8. Alone'
    BY <2>2, <2>5, AloneStays DEF TrainInv
  <2>9. Lineages' /\ Selections'
    BY <1>1, <2>2, SameRows, LineagesStay, SelectionsStay DEF TrainInv
  <2>10. Along(label, m, l)'
    <3>1. Fits(label, m.then, journal[m.job], l)
      <4> QED BY <2>1, <2>2, <2>3, <2>4 DEF State, Mine, Fits, Driving, Starting, Updating, Gathering, Taking, Ready, Dispatched, Shutting
    <3>2. label \notin {"ancestry", "supersede", "begin", "update"}
      BY <2>1
    <3>3. m.job \in Job /\ Claimed(m.job)
      BY <2>2, <2>4 DEF Mine
    <3>4. Along(label, m, l)
      BY <3>1, <3>2, <3>3 DEF Along
    <3> QED BY <1>1, <2>2, <3>4, SameRows, RecordingStays, AlongStays DEF Tables
  <2>11. \A q \in Process : Along(pc[q], me[q], live[q])'
    BY <2>5, <2>10, <2>2, Bystanders
  <2>12. Dispatches'
    BY <1>1, <1>3, <2>5, <2>6, DispatchPlaced
  <2> QED BY <2>7, <2>8, <2>9, <2>11, <2>12 DEF TrainInv
<1> QED BY <1>2, <1>3 DEF DispatchUpdate

-----------------------------------------------------------------------------
(* A journal is replaced by its own job.                                   *)

\* The journal t goes on from s: what s has spent stays spent, and what is dispatched stays
\* out of its groups.
Carries(s, t) ==
    /\ t.unknown = s.unknown
    /\ s.phase \notin {"absent", "superseded"} /\ t.phase \notin {"absent", "superseded"}
    /\ t.position >= s.position
    /\ \A g \in Waiting(t) : g \in Waiting(s) \/ g.at = s.position
    /\ \/ s.phase # "updating" /\ Spent(t) = Spent(s) /\ \A g \in t.batch : g \in s.batch \cup Waiting(s)
       \/ Spent(t) > Spent(s) /\ t.batch = {}

LEMMA BeforeCarried ==
    ASSUME NEW j \in Job, IsJournal(journal[j]), NEW t, IsJournal(t), Carries(journal[j], t), Ongoing(j),
           journal'[j] = t, UNCHANGED rows,
           NEW d, \A g \in d.batch : IsGroup(g), NEW i \in Nat, Before(j, d, i)
    PROVE  Before(j, d, i)'
<1>0. PICK s : s = journal[j]
  OBVIOUS
<1>1. /\ Spent(s) \in Nat /\ Spent(t) \in Nat /\ s.position \in Nat /\ t.position \in Nat
  BY <1>0 DEF IsJournal, Spent
<1>2. \A g \in d.batch : g.at \in Nat /\ g.at < s.position
  BY <1>0 DEF Before, IsGroup
<1>3. \A g \in d.batch : g.at < t.position
  BY <1>0, <1>1, <1>2 DEF Carries
<1>4. \A g \in Waiting(t) : g.at \notin Ats(d.batch)
  <2> SUFFICES ASSUME NEW g \in Waiting(t), NEW h \in d.batch, h.at = g.at PROVE FALSE
    BY DEF Ats
  <2>1. h.at # s.position
    BY <1>1, <1>2
  <2>2. g \in Waiting(s)
    BY <1>0, <2>1 DEF Carries
  <2> QED BY <1>0, <2>2 DEF Before, Ats
<1>5. CASE s.phase # "updating" /\ Spent(t) = Spent(s) /\ \A g \in t.batch : g \in s.batch \cup Waiting(s)
  <2>1. Settled(j)
    BY <1>0, <1>5 DEF Settled, Carries
  <2>2. Ats(t.batch) \cap Ats(d.batch) = {}
    <3> SUFFICES ASSUME NEW g \in t.batch, NEW h \in d.batch, g.at = h.at PROVE FALSE
      BY DEF Ats
    <3>1. CASE g \in s.batch
      BY <1>0, <2>1, <3>1 DEF Before, Ats
    <3>2. CASE g \in Waiting(s)
      BY <1>0, <3>2 DEF Before, Ats
    <3> QED BY <1>5, <3>1, <3>2
  <2>3. i <= Spent(t) /\ i # Spent(t)
    BY <1>0, <1>5, <2>1 DEF Before
  <2> QED BY <1>3, <1>4, <2>2, <2>3 DEF Before
<1>6. CASE Spent(t) > Spent(s) /\ t.batch = {}
  BY <1>0, <1>1, <1>6, <1>3, <1>4 DEF Before, Ats
<1> QED BY <1>0, <1>5, <1>6 DEF Carries

\* Of the jobs that may go on only j changes its journal.
LEMMA DispatchesCarried ==
    ASSUME TrainInv, NEW p \in Process, Moved(p), NEW j \in Job, me[p].job = j, me'[p].job = j, pc'[p] \in Ready => Settled(j),
           Ongoing(j), NEW t, IsJournal(t), Carries(journal[j], t),
           journal'[j] = t, \A k \in Job \ {j} : journal'[k] = journal[k],
           UNCHANGED <<rows, job, dispatches>>
    PROVE  /\ Dispatches' /\ Lineages' /\ Selections'
           /\ \A k \in Job : Ongoing(k)' => Ongoing(k)
<1>1. \A k \in Job : Present(k)' <=> Present(k)
  BY DEF Present, Ongoing, Carries
<1>2. \A k \in Job : Ongoing(k)' <=> Ongoing(k)
  <2> SUFFICES ASSUME NEW k \in Job PROVE Ongoing(k)' <=> Ongoing(k)
    OBVIOUS
  <2>1. CASE k = j
    BY <2>1 DEF Ongoing, Carries, Present
  <2>2. CASE k # j
    <3>1. journal'[k] = journal[k]
      BY <2>2
    <3>2. journal[k].phase = "superseded" => (Present(journal[k].by)' <=> Present(journal[k].by))
      <4> SUFFICES ASSUME journal[k].phase = "superseded" PROVE Present(journal[k].by)' <=> Present(journal[k].by)
        OBVIOUS
      <4>1. PICK b : b = journal[k].by
        OBVIOUS
      <4>2. b \in Job
        BY <4>1 DEF TrainInv, Lineages
      <4>3. Present(b)' <=> Present(b)
        BY <1>1, <4>2
      <4>4. b = journal'[k].by
        BY <3>1, <4>1
      <4> QED BY <4>1, <4>3, <4>4 DEF Present
    <3> QED BY <1>1, <3>1, <3>2 DEF Ongoing, Present
  <2> QED BY <2>1, <2>2
<1>3. Lineages'
  <2>1. \A k \in Job : journal'[k].phase = "superseded" => journal'[k].by \in Job
    <3> SUFFICES ASSUME NEW k \in Job, journal'[k].phase = "superseded" PROVE journal'[k].by \in Job
      OBVIOUS
    <3>1. k # j
      BY DEF Carries
    <3> QED BY <3>1 DEF TrainInv, Lineages
  <2> QED BY <1>1, <1>2, <2>1 DEF TrainInv, Lineages, Claimed, SameRoot
<1>4. Selections'
  <2> SUFFICES ASSUME NEW k \in Job, NEW n \in Indices, NEW r \in Newest(Update(k, n)), r[1] = "checkpoint"
               PROVE  CheckpointOf(r[2], k)'
    BY DEF Selections, Newest
  <2>1. CheckpointOf(r[2], k)
    BY DEF TrainInv, Selections
  <2>2. journal'[k].unknown = journal[k].unknown
    BY DEF Carries
  <2> QED BY <1>1, <2>1, <2>2 DEF CheckpointOf
<1>5. PICK at \in [DOMAIN dispatches -> Indices] : Placing(at)
  BY DEF TrainInv, Dispatches
<1>6. Placing(at)'
  <2>1. ASSUME NEW k \in DOMAIN dispatches, NEW h \in Job, NEW d, NEW i, d = dispatches[k], i = at[k],
               Ongoing(h), Before(h, d, i)
        PROVE  Before(h, d, i)'
    <3>1. CASE h = j
      BY <1>5, <2>1, <3>1, BeforeCarried DEF Indices, TrainInv, Dispatches, Tables
    <3>2. CASE h # j
      <4>1. Settled(h)' => Settled(h)
        <5> SUFFICES ASSUME Settled(h)' PROVE Settled(h)
          OBVIOUS
        <5>1. journal'[h] = journal[h]
          BY <3>2
        <5>2. CASE journal[h].phase \notin {"updating", "superseded"}
          BY <2>1, <5>2 DEF Settled
        <5>3. CASE \E q \in Process : pc'[q] \in Ready /\ me'[q].job = h
          <6>1. PICK q \in Process : pc'[q] \in Ready /\ me'[q].job = h
            BY <5>3
          <6>2. q # p
            BY <3>2, <6>1
          <6>3. pc[q] \in Ready /\ me[q].job = h
            BY <6>1, <6>2 DEF Moved
          <6> QED BY <2>1, <6>3 DEF Settled
        <5> QED BY <5>1, <5>2, <5>3 DEF Settled
      <4>2. journal'[h] = journal[h]
        BY <3>2
      <4> QED BY <2>1, <4>1, <4>2 DEF Before
    <3> QED BY <3>1, <3>2
  <2>2. ASSUME NEW k \in DOMAIN dispatches, NEW h \in Job, Ongoing(h)', SameRoot(dispatches[k].job, h)
        PROVE  Before(h, dispatches[k], at[k])'
    <3>1. PICK d, i : d = dispatches[k] /\ i = at[k]
      OBVIOUS
    <3>2. Before(h, d, i)
      BY <1>2, <1>5, <2>2, <3>1 DEF Placing
    <3>3. Before(h, d, i)'
      BY <1>2, <2>1, <2>2, <3>1, <3>2
    <3> QED BY <3>1, <3>3 DEF Before
  <2> QED BY <1>5, <2>2, PlacingStays
<1>7. \A k \in DOMAIN dispatches : Present(dispatches[k].job)'
  BY <1>1 DEF TrainInv, Dispatches
<1>8. Dispatches'
  BY <1>5, <1>6, <1>7 DEF TrainInv, Dispatches
<1> QED BY <1>2, <1>3, <1>4, <1>8

LEMMA WriteStep ==
    ASSUME TrainInv, NEW p \in Process, Moved(p), Busy(p), NEW j \in Job, me[p].job = j, me'[p].job = j,
           pc'[p] \in Ready => Settled(j),
           Ongoing(j), NEW t, IsJournal(t), Carries(journal[j], t),
           journal' = [journal EXCEPT ![j] = t], UNCHANGED <<rows, job, dispatches>>,
           Along(pc[p], me[p], live[p])'
    PROVE  TrainInv'
  BY DispatchesCarried, TablesStay, AloneStays, Bystanders DEF TrainInv, Tables, Recording

\* A call writes the journal of its job, done or not.
LEMMA OwnWrite ==
    ASSUME TrainInv, NEW p \in Process, pc[p] \in Driving, NEW t, NEW ok, NEW m,
           Write(p, Mine(p), t, ok), UNCHANGED <<rows, job, dispatches, live>>,
           \/ UNCHANGED me /\ m = me[p]
           \/ DOMAIN m = DOMAIN Idle /\ me' = [me EXCEPT ![p] = m],
           m.job = Mine(p), m.then \in {"raise", "finish"},
           IsJournal(t), Carries(State(p), t), Fits(ok, m.then, t, live[p]),
           ok \notin {"ancestry", "supersede", "begin", "update"},
           ok \in Ready => State(p).phase # "updating"
    PROVE  TrainInv'
<1>1. PICK j : j = Mine(p)
  OBVIOUS
<1>2. j \in Job /\ Claimed(j) /\ Busy(p) /\ Tables /\ me[p].job = j /\ State(p) = journal[j]
  BY <1>1, Here DEF Mine, State
<1>3. PICK label : Goto(p, label) /\ (label = ok \/ label = "unwind")
  BY DEF Write, Call
<1>4. Moved(p) /\ pc'[p] = label /\ me'[p] = m /\ live'[p] = live[p]
  BY <1>2, <1>3, GotoMoves DEF Tables
<1>5. \A s : Fits("unwind", m.then, s, live[p])
  BY DEF Fits, Driving, Starting, Updating, Gathering, Taking, Ready, Dispatched, Shutting
<1>6. CASE journal' = [journal EXCEPT ![j] = t]
  <2>1. Ongoing(j)
    BY <1>2 DEF Ongoing, Present, Carries
  <2>2. pc'[p] \in Ready => Settled(j)
    BY <1>2, <1>3, <1>4, <2>1 DEF Ready, Settled, Carries
  <2>3. Along(label, m, live[p])'
    BY <1>2, <1>6, <1>1, <1>3, <1>4, <1>5 DEF Tables, Claimed, Along
  <2>4. Along(pc[p], me[p], live[p])'
    BY <1>4, <2>3
  <2> QED BY <1>1, <1>2, <1>4, <1>6, <2>1, <2>2, <2>4, WriteStep
<1>7. CASE UNCHANGED journal /\ label = "unwind"
  BY <1>1, <1>2, <1>5, <1>4, <1>7, SameRows, QuietStep DEF Along, Driving, Updating, Ready,
     Gathering, Taking, Dispatched, Starting
<1>8. journal' = [journal EXCEPT ![j] = t] \/ (UNCHANGED journal /\ Goto(p, "unwind"))
  BY <1>1 DEF Write, Call
<1>9. Goto(p, "unwind") => label = "unwind"
  BY <1>2, <1>4 DEF Goto, Tables
<1> QED BY <1>6, <1>7, <1>8, <1>9

-----------------------------------------------------------------------------
(* The steps that replace a journal.                                       *)

LEMMA JournalFields ==
    ASSUME NEW s, IsJournal(s)
    PROVE  DOMAIN s = {"phase", "updates", "unknown", "nonzero", "position", "groups", "pending", "unclassified",
                       "batch", "native", "checkpoint", "by", "outcome", "bound"}
  BY DEF IsJournal, Fresh

\* t is s but for its phase and what does not count.
Agrees(s, t) ==
    /\ DOMAIN t = DOMAIN s
    /\ t.updates = s.updates /\ t.unknown = s.unknown /\ t.position = s.position
    /\ t.pending = s.pending /\ t.unclassified = s.unclassified /\ t.batch = s.batch

LEMMA AgreesCarries ==
    ASSUME NEW s, NEW t, IsJournal(s), Agrees(s, t)
    PROVE  /\ IsJournal(t) /\ Spent(t) = Spent(s)
           /\ s.phase \notin {"absent", "superseded", "updating"} /\ t.phase \notin {"absent", "superseded"} => Carries(s, t)
  BY DEF Agrees, Spent, Waiting, IsJournal, Carries

\* A call whose journal changes its phase and nothing that counts.
LEMMA PhaseStep ==
    ASSUME TrainInv, NEW p \in Process, pc[p] \in Driving, NEW t, NEW ok, NEW m,
           Write(p, Mine(p), t, ok), UNCHANGED <<rows, job, dispatches, live>>,
           \/ UNCHANGED me /\ m = me[p]
           \/ DOMAIN m = DOMAIN Idle /\ me' = [me EXCEPT ![p] = m],
           m.job = Mine(p), m.then \in {"raise", "finish"},
           Agrees(State(p), t), Fits(ok, m.then, t, live[p]),
           State(p).phase \notin {"absent", "superseded", "updating"}, t.phase \notin {"absent", "superseded"},
           ok \notin {"ancestry", "supersede", "begin", "update"}
    PROVE  TrainInv'
  BY Here, AgreesCarries, OwnWrite DEF Tables, State, Mine

\* How a call of train is to end.
LEMMA Ending ==
    ASSUME TrainInv, NEW p \in Process, pc[p] \in Driving
    PROVE  /\ me[p].then \in {"raise", "finish"} /\ DOMAIN me[p] = DOMAIN Idle /\ me[p].job = Mine(p)
           /\ IsJournal(State(p)) /\ State(p) = journal[Mine(p)]
  BY Here DEF Fits, Tables, Mine, State

LEMMA OpenSteady ==
    ASSUME TrainInv, NEW p \in Process, Open(p)
    PROVE  TrainInv'
<1>1. pc[p] = "open" /\ pc[p] \in Driving
  BY DEF Open, At, Driving, Starting
<1>2. Fits("open", me[p].then, State(p), live[p]) /\ Tables
  BY <1>1, Here
<1>3. UNCHANGED <<rows, job, dispatches, me, live>>
  BY DEF Open, workVars
<1>4. CASE live[p] # Nothing /\ Goto(p, "restore") /\ UNCHANGED journal
  <2>1. IsLive(live[p])
    BY <1>2, <1>4 DEF Tables
  <2>2. Fits("restore", me[p].then, State(p), live[p])
    BY <1>2, <2>1 DEF Fits, Driving, Starting, Updating, Gathering, Taking, Ready, Dispatched, Shutting
  <2>3. Along("restore", me[p], live[p]) /\ "restore" \notin Ready
    BY <1>1, <2>2, Onwards DEF Ready
  <2> QED BY <1>1, <1>3, <1>4, <2>3, Here, QuietGoto
<1>5. CASE UNCHANGED journal /\ \E label \in {"publish startup", "announce startup", "unwind"} : Goto(p, label)
  <2>1. PICK label \in {"publish startup", "announce startup", "unwind"} : Goto(p, label)
    BY <1>5
  <2>2. Fits(label, me[p].then, State(p), live[p])
    BY <1>2, <2>1 DEF Fits, Driving, Starting, Updating, Gathering, Taking, Ready, Dispatched, Shutting
  <2>3. Along(label, me[p], live[p]) /\ label \notin Ready
    BY <1>1, <2>1, <2>2, Onwards DEF Ready
  <2> QED BY <1>1, <1>3, <1>5, <2>1, <2>3, Here, QuietGoto
<1>6. CASE Write(p, Mine(p), [State(p) EXCEPT !.phase = "initializing"], "announce startup")
  <2> DEFINE t == [State(p) EXCEPT !.phase = "initializing"]
  <2>1. Agrees(State(p), t) /\ t.phase = "initializing"
    BY <1>1, Ending, JournalFields DEF Agrees
  <2>2. State(p).phase \in {"initializing", "collecting"}
    BY <1>2 DEF Fits, Starting
  <2> HIDE DEF t
  <2>3. Fits("announce startup", me[p].then, t, live[p])
    BY <1>2, <2>1 DEF Fits, Driving, Starting, Updating, Gathering, Taking, Ready, Dispatched, Shutting
  <2>4. Write(p, Mine(p), t, "announce startup")
    BY <1>6 DEF t
  <2>5. State(p).phase \notin {"absent", "superseded", "updating"}
    BY <2>2
  <2> QED BY <1>1, <1>3, <2>1, <2>3, <2>4, <2>5, Ending, PhaseStep
<1> QED BY <1>4, <1>5, <1>6 DEF Open

LEMMA CollectingSteady ==
    ASSUME TrainInv, NEW p \in Process, Collecting(p)
    PROVE  TrainInv'
<1>1. pc[p] = "collecting" /\ pc[p] \in Driving
  BY DEF Collecting, At, Driving, Starting
<1>2. Fits("collecting", me[p].then, State(p), live[p])
  BY <1>1, Here
<1>3. UNCHANGED <<rows, job, dispatches, me, live>>
  BY DEF Collecting, workVars, sessionVars
<1> DEFINE t == [State(p) EXCEPT !.phase = "collecting"]
<1>4. Agrees(State(p), t) /\ t.phase = "collecting"
  BY <1>1, Ending, JournalFields DEF Agrees
<1>5. State(p).phase \in {"initializing", "collecting"}
  BY <1>2 DEF Fits, Starting
<1>6. Write(p, Mine(p), t, "loop")
  BY DEF Collecting
<1> HIDE DEF t
<1>7. Fits("loop", me[p].then, t, live[p])
  BY <1>2, <1>4 DEF Fits, Driving, Starting, Updating, Gathering, Taking, Ready, Dispatched, Shutting
<1> QED BY <1>1, <1>3, <1>4, <1>5, <1>6, <1>7, Ending, PhaseStep

LEMMA FinishSteady ==
    ASSUME TrainInv, NEW p \in Process, Finish(p)
    PROVE  TrainInv'
<1>1. pc[p] = "finish" /\ pc[p] \in Driving
  BY DEF Finish, At, Driving
<1>2. Fits("finish", me[p].then, State(p), live[p])
  BY <1>1, Here
<1>3. UNCHANGED <<rows, job, dispatches, live>>
  BY DEF Finish, workVars, sessionVars
<1> DEFINE t == [State(p) EXCEPT !.phase = "finalizing", !.outcome = Disposition(p)]
           m == [me[p] EXCEPT !.then = "finish"]
<1>4. Agrees(State(p), t) /\ t.phase = "finalizing"
  BY <1>1, Ending, JournalFields DEF Agrees
<1>5. State(p).phase \in {"initializing", "collecting", "finalizing"}
  BY <1>2 DEF Fits
<1>6. Write(p, Mine(p), t, "close") /\ me' = [me EXCEPT ![p] = m]
  BY DEF Finish
<1>7. m.then = "finish" /\ m.job = Mine(p) /\ DOMAIN m = DOMAIN Idle
  BY <1>1, Ending DEF Idle
<1> HIDE DEF t, m
<1>8. Fits("close", m.then, t, live[p])
  BY <1>4, <1>7 DEF Fits, Driving, Starting, Updating, Gathering, Taking, Ready, Dispatched, Shutting
<1> QED BY <1>1, <1>3, <1>4, <1>5, <1>6, <1>7, <1>8, PhaseStep

LEMMA FreezeSteady ==
    ASSUME TrainInv, NEW p \in Process, Freeze(p)
    PROVE  TrainInv'
<1>1. pc[p] = "freeze" /\ pc[p] \in Driving
  BY DEF Freeze, At, Driving
<1>2. Fits("freeze", me[p].then, State(p), live[p])
  BY <1>1, Here
<1>3. UNCHANGED <<rows, job, dispatches, me, live>>
  BY DEF Freeze, workVars, sessionVars
<1> DEFINE t == [State(p) EXCEPT !.phase = "frozen", !.bound = Account(Mine(p))]
<1>4. Agrees(State(p), t) /\ t.phase = "frozen"
  BY <1>1, Ending, JournalFields DEF Agrees
<1>5. State(p).phase \in {"finalizing", "frozen"}
  BY <1>2 DEF Fits
<1>6. Write(p, Mine(p), t, "complete")
  BY DEF Freeze
<1> HIDE DEF t
<1>7. Fits("complete", me[p].then, t, live[p])
  BY <1>2, <1>4 DEF Fits, Driving, Starting, Updating, Gathering, Taking, Ready, Dispatched, Shutting
<1> QED BY <1>1, <1>3, <1>4, <1>5, <1>6, <1>7, Ending, PhaseStep

\* A position of the sampler is taken.
LEMMA TakenJournal ==
    ASSUME NEW s, IsJournal(s), s.phase \notin {"absent", "superseded", "updating"}, s.unclassified = Nothing, NEW w
    PROVE  LET t == [s EXCEPT !.position = @ + 1, !.pending = [at |-> s.position, policy |-> w]]
           IN  /\ IsJournal(t) /\ Carries(s, t) /\ Spent(t) = Spent(s)
               /\ t.phase = s.phase /\ t.batch = s.batch
<1> DEFINE g == [at |-> s.position, policy |-> w]
           t == [s EXCEPT !.position = s.position + 1, !.pending = g]
<1>1. /\ DOMAIN t = DOMAIN s /\ t.position = s.position + 1 /\ t.pending = g /\ t.unclassified = Nothing
      /\ t.phase = s.phase /\ t.batch = s.batch /\ t.updates = s.updates /\ t.unknown = s.unknown
  BY JournalFields
<1>2. g.at = s.position
  OBVIOUS
<1> HIDE DEF g, t
<1>3. \A h \in Waiting(t) : h = g
  BY <1>1 DEF Waiting
<1>4. s.position \in Nat /\ \A h \in s.batch : IsGroup(h) /\ h.at < s.position
  BY DEF IsJournal
<1>5. \A h \in s.batch : h.at \in Nat /\ h.at < s.position + 1 /\ h.at # s.position
  BY <1>4 DEF IsGroup
<1>6. IsJournal(t)
  BY <1>1, <1>2, <1>3, <1>4, <1>5 DEF IsJournal, IsGroup
<1>7. Spent(t) = Spent(s)
  BY <1>1 DEF Spent
<1>8. t.position >= s.position
  BY <1>1, <1>4
<1>9. Carries(s, t)
  BY <1>1, <1>2, <1>3, <1>7, <1>8 DEF Carries
<1> QED BY <1>1, <1>6, <1>7, <1>9 DEF t, g

\* The pending group is classified; the classified one joins the batch.
LEMMA ClassifiedJournal ==
    ASSUME NEW s, IsJournal(s), s.phase \notin {"absent", "superseded", "updating"}, s.pending # Nothing
    PROVE  LET t == [s EXCEPT !.groups = @ + 1, !.unclassified = s.pending, !.pending = Nothing]
           IN  /\ IsJournal(t) /\ Carries(s, t) /\ Spent(t) = Spent(s) /\ t.phase = s.phase /\ t.batch = s.batch
               /\ t.pending = Nothing /\ t.unclassified = s.pending
<1> DEFINE t == [s EXCEPT !.groups = s.groups + 1, !.unclassified = s.pending, !.pending = Nothing]
<1>1. /\ DOMAIN t = DOMAIN s /\ t.position = s.position /\ t.pending = Nothing /\ t.unclassified = s.pending
      /\ t.phase = s.phase /\ t.batch = s.batch /\ t.updates = s.updates /\ t.unknown = s.unknown
  BY JournalFields
<1> HIDE DEF t
<1>2. \A h \in Waiting(t) : h \in Waiting(s)
  BY <1>1 DEF Waiting
<1>3. Spent(t) = Spent(s)
  BY <1>1 DEF Spent
<1>4. IsJournal(t)
  BY <1>1, <1>2 DEF IsJournal
<1>5. t.position >= s.position
  BY <1>1 DEF IsJournal
<1>6. Carries(s, t)
  BY <1>1, <1>2, <1>3, <1>5 DEF Carries
<1> QED BY <1>1, <1>3, <1>4, <1>6 DEF t

LEMMA BatchedJournal ==
    ASSUME NEW s, IsJournal(s), s.phase \notin {"absent", "superseded", "updating"},
           s.pending = Nothing, s.unclassified # Nothing
    PROVE  LET t == [s EXCEPT !.batch = @ \cup {s.unclassified}, !.unclassified = Nothing]
           IN  /\ IsJournal(t) /\ Carries(s, t) /\ Spent(t) = Spent(s) /\ t.phase = s.phase
               /\ t.batch = s.batch \cup {s.unclassified}
<1> DEFINE t == [s EXCEPT !.batch = s.batch \cup {s.unclassified}, !.unclassified = Nothing]
<1>1. /\ DOMAIN t = DOMAIN s /\ t.position = s.position /\ t.pending = Nothing /\ t.unclassified = Nothing
      /\ t.phase = s.phase /\ t.batch = s.batch \cup {s.unclassified}
      /\ t.updates = s.updates /\ t.unknown = s.unknown
  BY JournalFields
<1> HIDE DEF t
<1>2. Waiting(t) = {} /\ s.unclassified \in Waiting(s)
  BY <1>1 DEF Waiting
<1>3. Spent(t) = Spent(s)
  BY <1>1 DEF Spent
<1>4. IsJournal(t)
  BY <1>1, <1>2 DEF IsJournal
<1>5. t.position >= s.position
  BY <1>1 DEF IsJournal
<1>6. Carries(s, t)
  BY <1>1, <1>2, <1>3, <1>5 DEF Carries
<1> QED BY <1>1, <1>3, <1>4, <1>6 DEF t

LEMMA DroppedJournal ==
    ASSUME NEW s, IsJournal(s), s.phase \notin {"absent", "superseded", "updating"}
    PROVE  LET t == [s EXCEPT !.batch = {}]
           IN  IsJournal(t) /\ Carries(s, t) /\ Spent(t) = Spent(s) /\ t.phase = s.phase /\ t.batch = {}
<1> DEFINE t == [s EXCEPT !.batch = {}]
<1>1. /\ DOMAIN t = DOMAIN s /\ t.position = s.position /\ t.pending = s.pending /\ t.unclassified = s.unclassified
      /\ t.phase = s.phase /\ t.batch = {} /\ t.updates = s.updates /\ t.unknown = s.unknown
  BY JournalFields
<1> HIDE DEF t
<1>2. Waiting(t) = Waiting(s) /\ Spent(t) = Spent(s)
  BY <1>1 DEF Waiting, Spent
<1>3. IsJournal(t)
  BY <1>1, <1>2 DEF IsJournal
<1>4. t.position >= s.position
  BY <1>1 DEF IsJournal
<1>5. Carries(s, t)
  BY <1>1, <1>2, <1>4 DEF Carries
<1> QED BY <1>1, <1>2, <1>3, <1>5 DEF t

\* The journal after an update, t.
Advances(s, t) ==
    /\ DOMAIN t = DOMAIN s /\ t.position = s.position /\ t.pending = s.pending /\ t.unclassified = s.unclassified
    /\ t.phase = "collecting" /\ t.batch = {} /\ t.updates = s.updates + 1 /\ t.unknown = s.unknown

LEMMA UpdatedJournal ==
    ASSUME NEW s, IsJournal(s), s.phase \notin {"absent", "superseded"}, NEW t, Advances(s, t)
    PROVE  IsJournal(t) /\ Carries(s, t)
  BY DEF Waiting, Advances, IsJournal, Spent, Carries

LEMMA CollectSteady ==
    ASSUME TrainInv, NEW p \in Process, Collect(p)
    PROVE  TrainInv'
<1>0. PICK s : s = State(p)
  OBVIOUS
<1>1. pc[p] = "collect" /\ pc[p] \in Driving
  BY DEF Collect, At, Driving, Updating, Gathering
<1>2. Fits("collect", me[p].then, s, live[p]) /\ IsJournal(s)
  BY <1>0, <1>1, Here, Ending
<1>3. UNCHANGED <<rows, job, dispatches, me, live>>
  BY DEF Collect, workVars, sessionVars
<1>4. CASE UNCHANGED journal /\ Goto(p, "unwind")
  BY <1>1, <1>3, <1>4, Here, Unwinds
<1>5. CASE UNCHANGED journal /\ Goto(p, "batch") /\ s.unclassified # Nothing /\ ~Stale(p, s.unclassified)
  <2>1. s.pending = Nothing
    BY <1>2, <1>5 DEF IsJournal
  <2>2. s.unclassified.policy = live[p].weights
    BY <1>5 DEF Stale
  <2>3. Fits("batch", me[p].then, s, live[p])
    BY <1>2, <1>5, <2>1, <2>2 DEF Fits, Driving, Starting, Updating, Gathering, Taking, Ready, Dispatched, Shutting
  <2>4. Along("batch", me[p], live[p]) /\ "batch" \notin Ready
    BY <1>0, <1>1, <2>3, Onwards DEF Ready
  <2> QED BY <1>1, <1>3, <1>5, <2>4, Here, QuietGoto
<1>6. CASE UNCHANGED journal /\ Goto(p, "episode") /\ s.pending # Nothing /\ ~Stale(p, s.pending)
  <2>1. s.pending.policy = live[p].weights
    BY <1>6 DEF Stale
  <2>2. Fits("episode", me[p].then, s, live[p])
    BY <1>2, <1>6, <2>1 DEF Fits, Driving, Starting, Updating, Gathering, Taking, Ready, Dispatched, Shutting
  <2>3. Along("episode", me[p], live[p]) /\ "episode" \notin Ready
    BY <1>0, <1>1, <2>2, Onwards DEF Ready
  <2> QED BY <1>1, <1>3, <1>6, <2>3, Here, QuietGoto
<1>7. CASE /\ s.unclassified = Nothing
           /\ Write(p, Mine(p), [s EXCEPT !.position = @ + 1,
                                          !.pending = [at |-> s.position, policy |-> live[p].weights]], "collect")
  <2>1. s.phase = "collecting"
    BY <1>2 DEF Fits, Gathering
  <2>2. PICK t : /\ t = [s EXCEPT !.position = @ + 1,
                                  !.pending = [at |-> s.position, policy |-> live[p].weights]]
                 /\ IsJournal(t) /\ Carries(s, t) /\ Spent(t) = Spent(s)
                 /\ t.phase = s.phase /\ t.batch = s.batch
    BY <1>2, <1>7, <2>1, TakenJournal
  <2>3. Write(p, Mine(p), t, "collect")
    BY <1>7, <2>2
  <2>4. Fits("collect", me[p].then, t, live[p])
    BY <1>2, <2>1, <2>2 DEF Fits, Driving, Starting, Updating, Gathering, Taking, Ready, Dispatched, Shutting
  <2> QED BY <1>0, <1>1, <1>3, <2>1, <2>2, <2>3, <2>4, Ending, OwnWrite
<1> QED BY <1>0, <1>4, <1>5, <1>6, <1>7 DEF Collect

LEMMA ClassifySteady ==
    ASSUME TrainInv, NEW p \in Process, Classify(p)
    PROVE  TrainInv'
<1>0. PICK s : s = State(p)
  OBVIOUS
<1>1. pc[p] = "classify" /\ pc[p] \in Driving
  BY DEF Classify, At, Driving, Updating, Gathering, Taking
<1>2. Fits("classify", me[p].then, s, live[p]) /\ IsJournal(s)
  BY <1>0, <1>1, Here, Ending
<1>3. UNCHANGED <<rows, job, dispatches, me, live>>
  BY DEF Classify, workVars, sessionVars
<1>4. CASE UNCHANGED journal /\ Goto(p, "unwind")
  BY <1>1, <1>3, <1>4, Here, Unwinds
<1>5. CASE Write(p, Mine(p), [s EXCEPT !.groups = @ + 1, !.unclassified = s.pending, !.pending = Nothing], "batch")
  <2>1. s.phase = "collecting" /\ s.pending # Nothing
    BY <1>2 DEF Fits, Gathering, Taking
  <2>2. PICK t : /\ t = [s EXCEPT !.groups = @ + 1, !.unclassified = s.pending, !.pending = Nothing]
                 /\ IsJournal(t) /\ Carries(s, t) /\ Spent(t) = Spent(s) /\ t.phase = s.phase /\ t.batch = s.batch
                 /\ t.pending = Nothing /\ t.unclassified = s.pending
    BY <1>2, <2>1, ClassifiedJournal
  <2>3. Write(p, Mine(p), t, "batch")
    BY <1>5, <2>2
  <2>4. Fits("batch", me[p].then, t, live[p])
    BY <1>2, <2>1, <2>2 DEF Fits, Driving, Starting, Updating, Gathering, Taking, Ready, Dispatched, Shutting
  <2> QED BY <1>0, <1>1, <1>3, <2>1, <2>2, <2>3, <2>4, Ending, OwnWrite
<1> QED BY <1>0, <1>4, <1>5 DEF Classify

LEMMA BatchSteady ==
    ASSUME TrainInv, NEW p \in Process, Batch(p)
    PROVE  TrainInv'
<1>0. PICK s : s = State(p)
  OBVIOUS
<1>1. pc[p] = "batch" /\ pc[p] \in Driving
  BY DEF Batch, At, Driving, Updating, Gathering
<1>2. Fits("batch", me[p].then, s, live[p]) /\ IsJournal(s)
  BY <1>0, <1>1, Here, Ending
<1>3. UNCHANGED <<rows, job, dispatches, me, live>>
  BY DEF Batch, workVars, sessionVars
<1>4. /\ s.phase = "collecting" /\ s.pending = Nothing /\ s.unclassified # Nothing
      /\ s.unclassified.policy = live[p].weights
  BY <1>2 DEF Fits, Gathering
<1>5. PICK t : /\ t = [s EXCEPT !.batch = @ \cup {s.unclassified}, !.unclassified = Nothing]
               /\ IsJournal(t) /\ Carries(s, t) /\ Spent(t) = Spent(s) /\ t.phase = s.phase
               /\ t.batch = s.batch \cup {s.unclassified}
  BY <1>2, <1>4, BatchedJournal
<1>6. PICK label \in {"collect", "rows"} : Write(p, Mine(p), t, label)
  BY <1>0, <1>5 DEF Batch, NextGroup
<1>7. Fits(label, me[p].then, t, live[p])
  BY <1>2, <1>4, <1>5, <1>6 DEF Fits, Driving, Starting, Updating, Gathering, Taking, Ready, Dispatched, Shutting
<1>8. label \notin {"ancestry", "supersede", "begin", "update"} /\ s.phase # "updating"
  BY <1>4, <1>6
<1> QED BY <1>0, <1>1, <1>3, <1>5, <1>6, <1>7, <1>8, Ending, OwnWrite

LEMMA PrepareSteady ==
    ASSUME TrainInv, NEW p \in Process, Prepare(p)
    PROVE  TrainInv'
<1>0. PICK s : s = State(p)
  OBVIOUS
<1>1. pc[p] = "rows" /\ pc[p] \in Driving
  BY DEF Prepare, At, Driving, Updating, Gathering
<1>2. Fits("rows", me[p].then, s, live[p]) /\ IsJournal(s)
  BY <1>0, <1>1, Here, Ending
<1>3. UNCHANGED <<rows, job, dispatches, me, live>>
  BY DEF Prepare, workVars, sessionVars
<1>4. s.phase = "collecting"
  BY <1>2 DEF Fits, Gathering
<1>5. CASE UNCHANGED journal /\ Goto(p, "unwind")
  BY <1>1, <1>3, <1>5, Here, Unwinds
<1>6. CASE Write(p, Mine(p), [s EXCEPT !.batch = {}], "loop")
  <2>1. PICK t : /\ t = [s EXCEPT !.batch = {}]
                 /\ IsJournal(t) /\ Carries(s, t) /\ Spent(t) = Spent(s) /\ t.phase = s.phase /\ t.batch = {}
    BY <1>2, <1>4, DroppedJournal
  <2>2. Write(p, Mine(p), t, "loop")
    BY <1>6, <2>1
  <2>3. Fits("loop", me[p].then, t, live[p])
    BY <1>2, <1>4, <2>1 DEF Fits, Driving, Starting, Updating, Gathering, Taking, Ready, Dispatched, Shutting
  <2> QED BY <1>0, <1>1, <1>3, <1>4, <2>1, <2>2, <2>3, Ending, OwnWrite
<1>7. CASE Write(p, Mine(p), [s EXCEPT !.phase = "updating"], "intent")
  <2>1. PICK t : t = [s EXCEPT !.phase = "updating"]
    OBVIOUS
  <2>2. Agrees(s, t) /\ t.phase = "updating"
    BY <1>2, <2>1, JournalFields DEF Agrees
  <2>3. IsJournal(t) /\ Carries(s, t) /\ Spent(t) = Spent(s)
    BY <1>2, <1>4, <2>2, AgreesCarries
  <2>4. Write(p, Mine(p), t, "intent")
    BY <1>7, <2>1
  <2>5. Fits("intent", me[p].then, t, live[p])
    BY <2>2, <1>2, <1>4, <2>3 DEF Agrees, Fits, Driving, Starting, Updating, Gathering, Taking,
       Ready, Dispatched, Shutting
  <2> QED BY <1>0, <1>1, <1>3, <1>4, <2>3, <2>4, <2>5, Ending, OwnWrite
<1> QED BY <1>0, <1>5, <1>6, <1>7 DEF Prepare

LEMMA UpdatedSteady ==
    ASSUME TrainInv, NEW p \in Process, Updated(p)
    PROVE  TrainInv'
<1>0. PICK s : s = State(p)
  OBVIOUS
<1>1. pc[p] = "updated" /\ pc[p] \in Driving
  BY DEF Updated, At, Driving, Updating, Dispatched
<1>2. Fits("updated", me[p].then, s, live[p]) /\ IsJournal(s)
  BY <1>0, <1>1, Here, Ending
<1>3. UNCHANGED <<rows, job, dispatches, live>>
  BY DEF Updated, workVars, sessionVars
<1>4. s.phase = "updating"
  BY <1>2 DEF Fits, Dispatched
<1>5. PICK n, w, c :
         Write(p, Mine(p), [s EXCEPT !.updates = @ + 1, !.nonzero = n, !.native = w, !.batch = {},
                                     !.phase = "collecting", !.checkpoint = c], "loop")
  <2>1. PICK n, w : n = me[p].nonzero /\ w = live[p].weights
    OBVIOUS
  <2> DEFINE a == [s EXCEPT !.updates = @ + 1, !.nonzero = n, !.native = w, !.batch = {}]
  <2>2. Advanced(p) = a
    BY <1>0, <2>1 DEF Advanced
  <2>3. PICK c : c = IF a.nonzero THEN Checkpoint(p) ELSE a.checkpoint
    OBVIOUS
  <2>4. Write(p, Mine(p), [a EXCEPT !.phase = "collecting", !.checkpoint = c], "loop")
    BY <2>2, <2>3 DEF Updated
  <2>5. [a EXCEPT !.phase = "collecting", !.checkpoint = c] =
           [s EXCEPT !.updates = @ + 1, !.nonzero = n, !.native = w, !.batch = {},
                     !.phase = "collecting", !.checkpoint = c]
    BY <1>2, JournalFields
  <2> QED BY <2>4, <2>5
<1>6. PICK t : /\ t = [s EXCEPT !.updates = @ + 1, !.nonzero = n, !.native = w, !.batch = {},
                                !.phase = "collecting", !.checkpoint = c]
               /\ IsJournal(t) /\ Carries(s, t) /\ t.phase = "collecting"
  <2>1. s.phase \notin {"absent", "superseded"}
    BY <1>4
  <2>2. PICK t : t = [s EXCEPT !.updates = @ + 1, !.nonzero = n, !.native = w, !.batch = {},
                               !.phase = "collecting", !.checkpoint = c]
    OBVIOUS
  <2>3. Advances(s, t)
    BY <1>2, <2>2, JournalFields DEF Advances
  <2>4. IsJournal(t) /\ Carries(s, t) /\ t.phase = "collecting"
    BY <1>2, <2>1, <2>3, UpdatedJournal DEF Advances
  <2> QED BY <2>2, <2>4
<1>7. Write(p, Mine(p), t, "loop")
  BY <1>5, <1>6
<1> DEFINE m == [me[p] EXCEPT !.nonzero = FALSE]
<1>8. m.then = me[p].then /\ m.job = Mine(p) /\ DOMAIN m = DOMAIN Idle /\ me' = [me EXCEPT ![p] = m]
  BY <1>1, Ending DEF Idle, Updated
<1> HIDE DEF m
<1>9. Fits("loop", m.then, t, live[p])
  BY <1>2, <1>4, <1>6, <1>8 DEF Fits, Driving, Starting, Updating, Gathering, Taking, Ready, Dispatched, Shutting
<1>10. m.then \in {"raise", "finish"}
  BY <1>1, <1>8, Ending
<1>11. "loop" \notin Ready /\ "loop" \notin {"ancestry", "supersede", "begin", "update"}
  BY DEF Ready
<1>12. IsJournal(t) /\ Carries(State(p), t)
  BY <1>0, <1>6
<1> QED BY <1>1, <1>3, <1>7, <1>8, <1>9, <1>10, <1>11, <1>12, OwnWrite

-----------------------------------------------------------------------------
(* A job takes over from another.                                          *)

\* The old journal says who continues it: which jobs may go on is as before.
LEMMA SupersedeStep ==
    ASSUME TrainInv, NEW p \in Process, pc[p] = "supersede", NEW label \in {"begin", "unwind"}, Goto(p, label),
           NEW j, j = Mine(p), NEW old, old = Resume(p).job,
           journal' = [journal EXCEPT ![old] = [journal[old] EXCEPT !.phase = "superseded", !.by = j]],
           UNCHANGED <<rows, job, dispatches, me, live>>
    PROVE  TrainInv'
<1>1. pc[p] \in Driving
  BY DEF Driving
<1>2. /\ j \in Job /\ Claimed(j) /\ Busy(p) /\ Tables /\ me[p].job = j
      /\ Along("supersede", me[p], live[p]) /\ Along("unwind", me[p], live[p])
  BY <1>1, Here DEF Mine
<1>3. ~Present(j) /\ j \notin First /\ Bound(j) /\ old = job[j].resume.job
  BY <1>2 DEF Along, Resume, Mine
<1>4. /\ old \in Job /\ old # j /\ Present(old) /\ Ongoing(old)
  BY <1>3 DEF Bound, Present, Ongoing
<1>5. PICK t : t = [journal[old] EXCEPT !.phase = "superseded", !.by = j]
  OBVIOUS
<1>6. /\ IsJournal(journal[old]) /\ Agrees(journal[old], t) /\ t.phase = "superseded" /\ t.by = j
      /\ DOMAIN journal' = Job /\ journal'[old] = t /\ \A k \in Job \ {old} : journal'[k] = journal[k]
  <2>1. IsJournal(journal[old])
    BY <1>2, <1>4 DEF Tables
  <2>2. Agrees(journal[old], t) /\ t.phase = "superseded" /\ t.by = j
    BY <1>5, <2>1, JournalFields DEF Agrees
  <2> QED BY <1>2, <1>4, <1>5, <2>1, <2>2 DEF Tables
<1>7. Moved(p) /\ pc'[p] = label /\ label \notin Ready
  BY <1>2, GotoMoves DEF Ready
<1>8. \A k \in Job : Present(k)' <=> Present(k)
  BY <1>4, <1>6 DEF Present
<1>9. \A k \in Job : Ongoing(k)' <=> Ongoing(k)
  <2> SUFFICES ASSUME NEW k \in Job PROVE Ongoing(k)' <=> Ongoing(k)
    OBVIOUS
  <2>1. CASE k = old
    BY <1>2, <1>3, <1>4, <1>8, <1>6, <2>1 DEF Ongoing, Present
  <2>2. CASE k # old
    <3>1. journal'[k] = journal[k]
      BY <1>6, <2>2
    <3>2. journal[k].phase = "superseded" => journal[k].by \in Job
      BY DEF TrainInv, Lineages
    <3>3. PICK b : b = journal[k].by
      OBVIOUS
    <3>4. b \in Job => (Present(b)' <=> Present(b))
      BY <1>8
    <3> QED BY <1>8, <3>1, <3>2, <3>3, <3>4 DEF Ongoing, Present
  <2> QED BY <2>1, <2>2
<1>10. Lineages'
  <2>1. \A k \in Job : journal'[k].phase = "superseded" => journal'[k].by \in Job
    <3> SUFFICES ASSUME NEW k \in Job, journal'[k].phase = "superseded" PROVE journal'[k].by \in Job
      OBVIOUS
    <3>1. CASE k = old
      BY <1>2, <1>6, <3>1
    <3>2. CASE k # old
      BY <1>6, <3>2 DEF TrainInv, Lineages
    <3> QED BY <3>1, <3>2
  <2> QED BY <1>8, <1>9, <2>1 DEF TrainInv, Lineages, Claimed, SameRoot
<1>11. Selections'
  <2> SUFFICES ASSUME NEW k \in Job, NEW n \in Indices, NEW r \in Newest(Update(k, n)), r[1] = "checkpoint"
               PROVE  CheckpointOf(r[2], k)'
    BY DEF Selections, Newest
  <2>1. CheckpointOf(r[2], k)
    BY DEF TrainInv, Selections
  <2>2. journal'[k].unknown = journal[k].unknown
    BY <1>6 DEF Agrees
  <2> QED BY <1>8, <2>1, <2>2 DEF CheckpointOf
<1>12. ASSUME NEW h \in Job, Ongoing(h), NEW d, NEW i, Before(h, d, i)
       PROVE  Before(h, d, i)'
  <2>1. CASE h = old
    <3>1. ~Settled(old)'
      <4> SUFFICES ASSUME NEW q \in Process, pc'[q] \in Ready, me'[q].job = old PROVE FALSE
        BY <1>6 DEF Settled
      <4>1. q # p
        BY <1>7
      <4>2. pc[q] \in Ready
        BY <1>7, <4>1 DEF Moved
      <4> QED BY <1>2, <4>1, <4>2, OnlyReady
    <3>2. Spent(t) = Spent(journal[old]) /\ Waiting(t) = Waiting(journal[old])
          /\ t.batch = journal[old].batch /\ t.position = journal[old].position
      BY <1>6 DEF Agrees, Spent, Waiting
    <3> QED BY <1>6, <1>12, <2>1, <3>1, <3>2 DEF Before
  <2>2. CASE h # old
    BY <1>6, <2>2, <1>7, <1>12, SettledBefore DEF Before
  <2> QED BY <2>1, <2>2
<1>13. PICK at \in [DOMAIN dispatches -> Indices] : Placing(at)
  BY DEF TrainInv, Dispatches
<1>14. Placing(at)'
  <2>1. ASSUME NEW k \in DOMAIN dispatches, NEW h \in Job, Ongoing(h)', SameRoot(dispatches[k].job, h)
        PROVE  Before(h, dispatches[k], at[k])'
    <3>1. PICK d, i : d = dispatches[k] /\ i = at[k]
      OBVIOUS
    <3>2. Ongoing(h) /\ Before(h, d, i)
      BY <1>9, <1>13, <2>1, <3>1 DEF Placing
    <3>3. Before(h, d, i)'
      BY <1>12, <3>2
    <3> QED BY <3>1, <3>3 DEF Before
  <2> QED BY <1>13, <2>1, PlacingStays
<1>15. Dispatches'
  BY <1>8, <1>13, <1>14 DEF TrainInv, Dispatches
<1>16. Tables'
  BY <1>6, <1>2, <1>7, AgreesCarries, TablesStay DEF Tables, Recording
<1>17. Alone'
  BY <1>2, <1>7, AloneStays DEF TrainInv
<1>18. Along(label, me[p], live[p])'
  <2>1. journal'[j] = journal[j] /\ ~Present(j)'
    BY <1>2, <1>3, <1>4, <1>6, <1>8
  <2>2. Bound(j)' /\ journal'[job'[j].resume.job].phase = "superseded"
    <3>1. journal'[old].updates = journal[old].updates /\ journal'[old].unknown = journal[old].unknown
      BY <1>6 DEF Agrees
    <3> QED BY ZenonT(30), <1>3, <1>4, <1>6, <3>1 DEF Bound
  <2>3. Fits(label, me[p].then, journal[j], live[p])
    BY <1>2 DEF Along, Fits, Driving, Starting, Updating, Gathering, Taking, Ready, Dispatched,
       Shutting
  <2>4. me'[p] = me[p] /\ live'[p] = live[p] /\ Claimed(j)'
    BY <1>2 DEF Claimed
  <2> QED BY <1>2, <2>1, <2>2, <2>3, <2>4 DEF Along
<1>19. \A q \in Process : Along(pc[q], me[q], live[q])'
  BY <1>7, <1>18, <1>2, Bystanders
<1> QED BY <1>10, <1>11, <1>15, <1>16, <1>17, <1>19 DEF TrainInv

LEMMA SupersedeSteady ==
    ASSUME TrainInv, NEW p \in Process, Supersede(p)
    PROVE  TrainInv'
<1>1. pc[p] = "supersede" /\ pc[p] \in Driving /\ UNCHANGED <<rows, job, dispatches, me, live>>
  BY DEF Supersede, At, Driving, sessionVars, workVars
<1>2. PICK j, old : j = Mine(p) /\ old = Resume(p).job
  OBVIOUS
<1>3. Write(p, old, [journal[old] EXCEPT !.phase = "superseded", !.by = j], "begin")
  BY <1>2 DEF Supersede
<1>4. CASE UNCHANGED journal /\ Goto(p, "unwind")
  BY <1>1, <1>4, Here, Unwinds
<1>5. CASE /\ journal' = [journal EXCEPT ![old] = [journal[old] EXCEPT !.phase = "superseded", !.by = j]]
           /\ \E label \in {"begin", "unwind"} : Goto(p, label)
  BY <1>1, <1>2, <1>5, SupersedeStep
<1> QED BY <1>3, <1>4, <1>5 DEF Write, Call

-----------------------------------------------------------------------------
(* The first journal of a job.                                             *)

\* j, which had no journal, starts with t: of its lineage no other job may go on, and what
\* its lineage dispatched came before t.
LEMMA NewJournal ==
    ASSUME TrainInv, NEW p \in Process, Moved(p), pc'[p] \notin Ready, Busy(p),
           NEW j \in Job, Claimed(j), ~Present(j),
           NEW t, IsJournal(t), t.phase = "initializing",
           journal' = [journal EXCEPT ![j] = t], UNCHANGED <<rows, job, dispatches>>,
           Along(pc[p], me[p], live[p])',
           Present(job[j].root) \/ job[j].root = j,
           \A k \in Job \ {j} : Ongoing(k)' /\ SameRoot(k, j) => FALSE,
           \A k \in DOMAIN dispatches : SameRoot(dispatches[k].job, j) =>
              \E h \in Job : /\ Ongoing(h) /\ SameRoot(dispatches[k].job, h)
                             /\ \A i \in Indices : Before(h, dispatches[k], i) => Before(j, dispatches[k], i)'
    PROVE  TrainInv'
<1>1. Tables /\ DOMAIN journal' = Job /\ journal'[j] = t /\ \A k \in Job \ {j} : journal'[k] = journal[k]
  BY DEF TrainInv, Tables
<1>2. Present(j)' /\ \A k \in Job \ {j} : Present(k)' <=> Present(k)
  BY <1>1 DEF Present
<1>3. Ongoing(j)'
  BY <1>1, <1>2 DEF Ongoing, Present
<1>4. \A k \in Job \ {j} : Ongoing(k)' => Ongoing(k)
  <2> SUFFICES ASSUME NEW k \in Job \ {j}, Ongoing(k)' PROVE Ongoing(k)
    OBVIOUS
  <2>1. journal'[k] = journal[k] /\ Present(k)
    BY <1>1, <1>2 DEF Ongoing
  <2>2. CASE journal[k].phase # "superseded"
    BY <2>1, <2>2 DEF Ongoing
  <2>3. CASE journal[k].phase = "superseded"
    <3>1. PICK b \in Job : b = journal[k].by
      BY <2>3 DEF TrainInv, Lineages
    <3>2. ~Present(b)'
      BY <2>1, <2>3, <3>1 DEF Ongoing, Present
    <3>3. ~Present(b)
      BY <1>2, <3>2
    <3> QED BY <2>1, <3>1, <3>3 DEF Ongoing
  <2> QED BY <2>2, <2>3
<1>5. Lineages'
  <2>1. \A k \in Job : journal'[k].phase = "superseded" => journal'[k].by \in Job
    <3> SUFFICES ASSUME NEW k \in Job, journal'[k].phase = "superseded" PROVE journal'[k].by \in Job
      OBVIOUS
    <3>1. k # j
      BY <1>1
    <3> QED BY <1>1, <3>1 DEF TrainInv, Lineages
  <2>2. \A k \in Job : Present(k)' => Claimed(k) /\ Present(job[k].root)'
    <3> SUFFICES ASSUME NEW k \in Job, Present(k)' PROVE Claimed(k) /\ Present(job[k].root)'
      OBVIOUS
    <3>1. PICK r : r = job[k].root /\ r \in Job /\ r = job'[k].root
      BY DEF TrainInv, Lineages
    <3>2. Claimed(k) /\ Present(r)'
      BY <1>2, <3>1 DEF TrainInv, Lineages
    <3> QED BY <3>1, <3>2 DEF Present
  <2>3. \A k, h \in Job : Ongoing(k)' /\ Ongoing(h)' /\ SameRoot(k, h) => k = h
    <3> SUFFICES ASSUME NEW k \in Job, NEW h \in Job, Ongoing(k)', Ongoing(h)', SameRoot(k, h), k # h PROVE FALSE
      OBVIOUS
    <3>1. CASE k = j
      BY <3>1 DEF SameRoot
    <3>2. CASE h = j
      BY <3>2
    <3>3. CASE k # j /\ h # j
      BY <1>4, <3>3 DEF TrainInv, Lineages
    <3> QED BY <3>1, <3>2, <3>3
  <2> QED BY <2>1, <2>2, <2>3 DEF TrainInv, Lineages, Claimed, SameRoot
<1>6. Selections'
  <2> SUFFICES ASSUME NEW k \in Job, NEW n \in Indices, NEW r \in Newest(Update(k, n)), r[1] = "checkpoint"
               PROVE  CheckpointOf(r[2], k)'
    BY DEF Selections, Newest
  <2>1. CheckpointOf(r[2], k)
    BY DEF TrainInv, Selections
  <2>2. k # j
    BY <2>1 DEF CheckpointOf
  <2> QED BY <1>1, <1>2, <2>1, <2>2 DEF CheckpointOf
<1>7. ASSUME NEW h \in Job \ {j}, Ongoing(h), NEW d, NEW i, Before(h, d, i)
      PROVE  Before(h, d, i)'
  BY <1>1, <1>7, SettledBefore DEF Before
<1>8. PICK at \in [DOMAIN dispatches -> Indices] : Placing(at)
  BY DEF TrainInv, Dispatches
<1>9. Placing(at)'
  <2>1. ASSUME NEW k \in DOMAIN dispatches, NEW h \in Job, Ongoing(h)', SameRoot(dispatches[k].job, h)
        PROVE  Before(h, dispatches[k], at[k])'
    <3>1. PICK d, i : d = dispatches[k] /\ i = at[k]
      OBVIOUS
    <3>2. Before(h, d, i)'
      <4>1. CASE h # j
        BY <1>4, <1>8, <2>1, <3>1, <4>1, <1>7 DEF Placing
      <4>2. CASE h = j
        <5>1. PICK l \in Job : /\ Ongoing(l) /\ SameRoot(dispatches[k].job, l)
                               /\ \A n \in Indices : Before(l, dispatches[k], n) => Before(j, dispatches[k], n)'
          BY <2>1, <4>2
        <5>2. Before(l, dispatches[k], i) /\ i \in Indices
          BY <1>8, <2>1, <3>1, <5>1 DEF Placing
        <5>3. Before(j, dispatches[k], i)'
          BY <5>1, <5>2
        <5> QED BY <3>1, <4>2, <5>3 DEF Before
      <4> QED BY <4>1, <4>2
    <3> QED BY <3>1, <3>2 DEF Before
  <2> QED BY <1>8, <2>1, PlacingStays
<1>10. Dispatches'
  BY <1>2, <1>8, <1>9 DEF TrainInv, Dispatches
<1>11. Tables'
  BY <1>1, TablesStay DEF Tables, Recording
<1>12. Alone'
  BY AloneStays DEF TrainInv
<1>13. \A q \in Process : Along(pc[q], me[q], live[q])'
  BY Bystanders
<1> QED BY <1>5, <1>6, <1>10, <1>11, <1>12, <1>13 DEF TrainInv

LEMMA IndicesFinite == IsFiniteSet(Indices) /\ Cardinality(Indices) = MaxUpdates
  BY UpdateAssumption, FS_Interval DEF Indices

\* A dispatch of the old job counts as unknown for the job that goes on from the checkpoint.
LEMMA BeforeRestored ==
    ASSUME TrainInv, NEW j \in Job, NEW c, NEW old, old = c.job, old \in Job,
           journal[old].updates = c.updates, journal[old].unknown = c.unknown,
           NEW t, t = Restored(c), journal'[j] = t, UNCHANGED rows,
           NEW d, NEW i \in Indices, Before(old, d, i)
    PROVE  Before(j, d, i)'
<1>1. PICK s : s = journal[old] /\ IsJournal(s)
  BY DEF TrainInv, Tables
<1>2. PICK n : n = Cardinality(Later(c))
  OBVIOUS
<1>3. /\ t.position = s.position /\ t.batch = {} /\ t.pending = Nothing /\ t.unclassified = Nothing
      /\ t.updates = c.updates /\ t.unknown = c.unknown + n
  BY <1>1, <1>2, JournalFields DEF Restored
<1>4. IsFiniteSet(Later(c)) /\ n \in Nat /\ (Later(c) # {} => n # 0)
  BY <1>2, IndicesFinite, FS_Subset, FS_CardinalityType, FS_EmptySet DEF Later
<1>5. Spent(s) \in Nat /\ Spent(c) = Spent(s) /\ Spent(t) = Spent(s) + n /\ i \in Nat
  BY <1>1, <1>3, <1>4 DEF IsJournal, Indices, Spent
<1>6. i = Spent(s) => n # 0
  <2> SUFFICES ASSUME i = Spent(s) PROVE i \in Later(c)
    BY <1>4
  <2>1. rows[Update(old, i)] # <<>>
    BY <1>1 DEF Before
  <2> QED BY <1>5, <2>1 DEF Later
<1>7. i <= Spent(t) /\ i # Spent(t)
  BY <1>1, <1>4, <1>5, <1>6 DEF Before
<1>8. Waiting(t) = {} /\ Ats(t.batch) = {}
  BY <1>3 DEF Waiting, Ats
<1>9. \A g \in d.batch : g.at < t.position
  BY <1>1, <1>3 DEF Before
<1> QED BY <1>7, <1>8, <1>9 DEF Before

LEMMA RestoredJournal ==
    ASSUME TrainInv, NEW c, c.job \in Job,
           journal[c.job].updates = c.updates, journal[c.job].unknown = c.unknown
    PROVE  IsJournal(Restored(c)) /\ Restored(c).phase = "initializing"
<1>1. PICK s : s = journal[c.job] /\ IsJournal(s)
  BY DEF TrainInv, Tables
<1>2. PICK n, t : n = Cardinality(Later(c)) /\ t = Restored(c)
  OBVIOUS
<1>3. n \in Nat
  BY <1>2, IndicesFinite, FS_Subset, FS_CardinalityType DEF Later
<1>4. /\ t.position = s.position /\ t.batch = {} /\ t.pending = Nothing /\ t.unclassified = Nothing
      /\ t.updates = c.updates /\ t.unknown = c.unknown + n /\ t.phase = "initializing" /\ DOMAIN t = DOMAIN s
  BY <1>1, <1>2, JournalFields DEF Restored
<1>5. Waiting(t) = {}
  BY <1>4 DEF Waiting
<1>6. s.updates \in Nat /\ s.unknown \in Nat /\ s.position \in Nat /\ DOMAIN s = DOMAIN Fresh
  BY <1>1 DEF IsJournal
<1>7. t.updates \in Nat /\ t.unknown \in Nat
  BY <1>1, <1>3, <1>4, <1>6
<1>8. IsJournal(t)
  BY <1>4, <1>5, <1>6, <1>7 DEF IsJournal
<1> QED BY <1>2, <1>4, <1>8

LEMMA FreshJournal == IsJournal(Fresh) /\ Fresh.phase = "initializing"
  BY DEF Waiting, Fresh, IsJournal

LEMMA BeginSteady ==
    ASSUME TrainInv, NEW p \in Process, Begin(p)
    PROVE  TrainInv'
<1>1. pc[p] = "begin" /\ pc[p] \in Driving /\ UNCHANGED <<rows, job, dispatches, me, live>>
  BY DEF Begin, At, Driving, sessionVars, workVars
<1>2. PICK j, s : j = Mine(p) /\ s = State(p)
  OBVIOUS
<1>3. /\ j \in Job /\ Claimed(j) /\ Busy(p) /\ Tables /\ me[p].job = j /\ s = journal[j]
      /\ Along("begin", me[p], live[p]) /\ Along("unwind", me[p], live[p])
      /\ Fits("begin", me[p].then, s, live[p])
  BY <1>1, <1>2, Here DEF Mine, State
<1>4. CASE Present(j)
  <2>1. s.phase \in {"initializing", "collecting"}
    BY <1>3, <1>4 DEF Along
  <2>2. Write(p, Mine(p), s, "controller")
    BY <1>2, <1>4 DEF Begin
  <2>3. Fits("controller", me[p].then, s, live[p])
    BY <1>3, <2>1 DEF Fits, Driving, Starting, Updating, Gathering, Taking, Ready, Dispatched, Shutting
  <2>4. Agrees(State(p), s)
    BY <1>2 DEF Agrees
  <2>5. State(p).phase \notin {"absent", "superseded", "updating"} /\ s.phase \notin {"absent", "superseded"}
    BY <1>2, <2>1
  <2> QED BY <1>1, <2>2, <2>3, <2>4, <2>5, Ending, PhaseStep
<1>5. CASE ~Present(j)
  <2> DEFINE c == Resume(p)
  <2>1. PICK t : t = IF c = Nothing THEN Fresh ELSE Restored(c)
    OBVIOUS
  <2>2. Write(p, j, t, "controller")
    BY <1>2, <1>5, <2>1 DEF Begin
  <2>3. c = job[j].resume /\ (c = Nothing <=> j \in First)
    BY <1>2, <1>3 DEF Resume, TrainInv, Lineages
  <2>4. s.phase = "absent" /\ (j \notin First => Bound(j) /\ journal[job[j].resume.job].phase = "superseded")
    BY <1>3, <1>5 DEF Along, Present
  <2>5. CASE UNCHANGED journal /\ Goto(p, "unwind")
    BY <1>1, <1>3, <2>5, Here, Unwinds
  <2>6. CASE journal' = [journal EXCEPT ![j] = t] /\ \E label \in {"controller", "unwind"} : Goto(p, label)
    <3>1. PICK label \in {"controller", "unwind"} : Goto(p, label)
      BY <2>6
    <3>2. Moved(p) /\ pc'[p] = label /\ me'[p] = me[p] /\ live'[p] = live[p] /\ label \notin Ready
      BY <1>1, <1>3, <3>1, GotoMoves DEF Ready
    <3>3. journal'[j] = t /\ \A k \in Job \ {j} : journal'[k] = journal[k]
      BY <1>3, <2>6 DEF Tables
    <3>4. IsJournal(t) /\ t.phase = "initializing"
      BY <2>1, <2>3, <2>4, FreshJournal, RestoredJournal DEF Bound
    <3>5. Along(pc[p], me[p], live[p])'
      <4>1. Fits(label, me[p].then, t, live[p])
        BY <1>3, <2>4, <3>4, <3>1 DEF Fits, Driving, Starting, Updating, Gathering, Taking, Ready,
           Dispatched, Shutting
      <4>2. Along(label, me[p], live[p])'
        BY <1>1, <1>3, <3>1, <3>3, <4>1 DEF Along, Claimed
      <4> QED BY <3>2, <4>2
    <3>6. CASE c = Nothing
      <4>1. j \in First /\ job[j].root = j
        BY <1>3, <2>3, <3>6 DEF TrainInv, Lineages
      <4>2. \A k \in Job : SameRoot(k, j) => ~Present(k)
        BY <1>5, <4>1 DEF TrainInv, Lineages, SameRoot
      <4>3. \A k \in Job \ {j} : Ongoing(k)' /\ SameRoot(k, j) => FALSE
        BY <3>3, <4>2 DEF Ongoing, Present
      <4>4. \A k \in DOMAIN dispatches : ~SameRoot(dispatches[k].job, j)
        BY <4>2 DEF TrainInv, Dispatches
      <4> QED BY <1>1, <1>3, <1>5, <2>6, <3>2, <3>4, <3>5, <4>1, <4>3, <4>4, NewJournal
    <3>7. CASE c # Nothing
      <4>1. PICK old : old = c.job
        OBVIOUS
      <4>2. /\ j \notin First /\ old \in Job /\ Claimed(old) /\ SameRoot(j, old)
            /\ journal[old].phase = "superseded" /\ journal[old].by = j
            /\ journal[old].updates = c.updates /\ journal[old].unknown = c.unknown
        BY <2>3, <2>4, <3>7, <4>1, <1>3 DEF TrainInv, Lineages, SameRoot, Bound
      <4>3. Present(old) /\ Ongoing(old) /\ old # j
        BY <1>5, <4>2 DEF Present, Ongoing
      <4>4. Present(job[j].root)
        BY <4>2, <4>3 DEF TrainInv, Lineages, SameRoot
      <4>5. ASSUME NEW k \in Job \ {j}, Ongoing(k)', SameRoot(k, j) PROVE FALSE
        <5>1. journal'[k] = journal[k] /\ Present(k) /\ journal'[old] = journal[old]
          BY <3>3, <4>2, <4>3, <4>5 DEF Ongoing, Present
        <5>2. Present(j)'
          BY <3>3, <3>4 DEF Present
        <5>3. k # old
          BY <4>2, <4>5, <5>1, <5>2 DEF Ongoing, Present
        <5>4. Ongoing(k)
          <6>1. CASE journal[k].phase # "superseded"
            BY <5>1, <6>1 DEF Ongoing
          <6>2. CASE journal[k].phase = "superseded"
            <7>1. PICK b \in Job : b = journal[k].by
              BY <6>2 DEF TrainInv, Lineages
            <7>2. journal'[b].phase = "absent"
              BY <4>5, <5>1, <6>2, <7>1 DEF Ongoing, Present
            <7>3. b # j
              BY <3>3, <3>4, <7>2
            <7>4. ~Present(b)
              BY <3>3, <7>2, <7>3 DEF Present
            <7> QED BY <5>1, <7>1, <7>4 DEF Ongoing
          <6> QED BY <6>1, <6>2
        <5>5. SameRoot(k, old)
          BY <4>2, <4>5 DEF SameRoot
        <5> QED BY <4>2, <4>3, <5>3, <5>4, <5>5 DEF TrainInv, Lineages
      <4>6. ASSUME NEW k \in DOMAIN dispatches, SameRoot(dispatches[k].job, j)
            PROVE  \E h \in Job : /\ Ongoing(h) /\ SameRoot(dispatches[k].job, h)
                                  /\ \A i \in Indices : Before(h, dispatches[k], i) => Before(j, dispatches[k], i)'
        <5>1. SameRoot(dispatches[k].job, old)
          BY <4>2, <4>6 DEF SameRoot
        <5>2. PICK d : d = dispatches[k]
          OBVIOUS
        <5>3. PICK e : e = c
          OBVIOUS
        <5>4. t = Restored(e)
          BY <2>1, <3>7, <5>3
        <5>5. ASSUME NEW i \in Indices, Before(old, d, i) PROVE Before(j, d, i)'
          BY <4>1, <4>2, <5>3, <1>1, <1>3, <3>3, <5>4, <5>5, BeforeRestored
        <5>6. d = dispatches'[k]
          BY <1>1, <5>2
        <5>7. \A i \in Indices : Before(old, dispatches[k], i) => Before(j, dispatches[k], i)'
          BY <5>2, <5>5, <5>6 DEF Before
        <5> QED BY <4>2, <4>3, <5>1, <5>7
      <4> QED BY <1>1, <1>3, <1>5, <2>6, <3>2, <3>4, <3>5, <4>4, <4>5, <4>6, NewJournal
    <3> QED BY <3>6, <3>7
  <2> QED BY <2>2, <2>5, <2>6 DEF Write, Call
<1> QED BY <1>4, <1>5
-----------------------------------------------------------------------------
(* Claiming and completing a job.                                          *)

\* A step that changes j in the registry, whose root stays once it is claimed.
LEMMA JobStep ==
    ASSUME TrainInv, NEW p \in Process, Moved(p), pc'[p] \notin Ready,
           Busy(p) \/ ~\E q \in Process : Busy(q),
           UNCHANGED <<rows, journal, dispatches>>,
           NEW j \in Job, DOMAIN job' = Job, \A k \in Job \ {j} : job'[k] = job[k],
           DOMAIN job'[j] = {"state", "resume", "root", "result"},
           Claimed(j) => job'[j].root = job[j].root /\ Claimed(j)',
           job'[j].root \in Job, job'[j].state \in {"absent", "running", "completed"},
           Claimed(j)' => /\ j \in First <=> job'[j].resume = Nothing
                          /\ j \in First => job'[j].root = j
                          /\ j \notin First => /\ job'[j].resume.job \in Job /\ Claimed(job'[j].resume.job)
                                               /\ job'[j].root = job[job'[j].resume.job].root,
           Along(pc[p], me[p], live[p])'
    PROVE  TrainInv'
<1>1. \A k \in Job : Claimed(k) => Claimed(k)' /\ job'[k].root = job[k].root
  BY DEF Claimed
<1>2. \A k \in Job : Present(k) => job'[k].root = job[k].root
  BY <1>1 DEF TrainInv, Lineages
<1>3. \A k, h \in Job : Present(k) /\ Present(h) => (SameRoot(k, h)' <=> SameRoot(k, h))
  BY <1>2 DEF SameRoot
<1>4. \A k \in Job : (Ongoing(k)' <=> Ongoing(k)) /\ (Present(k)' <=> Present(k))
  BY DEF Ongoing, Present
<1>5. Lineages'
  <2>1. \A k \in Job : /\ job'[k].root \in Job
                       /\ job'[k].state \in {"absent", "running", "completed"}
                       /\ journal'[k].phase = "superseded" => journal'[k].by \in Job
    BY DEF TrainInv, Lineages
  <2>2. \A k \in Job : Present(k) => Claimed(k)' /\ Present(job'[k].root)
    BY <1>1, <1>2 DEF TrainInv, Lineages
  <2>3. ASSUME NEW k \in Job, Claimed(k)'
        PROVE  /\ k \in First <=> job'[k].resume = Nothing
               /\ k \in First => job'[k].root = k
               /\ k \notin First => /\ job'[k].resume.job \in Job /\ job'[job'[k].resume.job].state # "absent"
                                    /\ job'[k].root = job'[job'[k].resume.job].root
    <3>1. /\ k \in First <=> job'[k].resume = Nothing
          /\ k \in First => job'[k].root = k
          /\ k \notin First => /\ job'[k].resume.job \in Job /\ Claimed(job'[k].resume.job)
                               /\ job'[k].root = job[job'[k].resume.job].root
      BY <2>3 DEF Claimed, TrainInv, Lineages
    <3>2. PICK h : h = job'[k].resume.job
      OBVIOUS
    <3>3. k \notin First => Claimed(h)' /\ job'[h].root = job[h].root
      BY <1>1, <3>1, <3>2
    <3> QED BY <3>1, <3>2, <3>3 DEF Claimed
  <2>4. \A k, h \in Job : Ongoing(k) /\ Ongoing(h) /\ SameRoot(k, h)' => k = h
    BY <1>3 DEF TrainInv, Lineages, Ongoing
  <2>5. \A k \in Job : journal'[k] = journal[k]
    OBVIOUS
  <2>6. \A k \in Job : Present(k)' => Claimed(k)' /\ Present(job[k].root)'
    <3> SUFFICES ASSUME NEW k \in Job, Present(k)' PROVE Claimed(k)' /\ Present(job[k].root)'
      OBVIOUS
    <3>1. PICK r \in Job : r = job'[k].root
      BY <2>1
    <3>2. Claimed(k)' /\ journal[r].phase # "absent"
      BY <1>4, <2>2, <3>1 DEF Present
    <3> QED BY <3>1, <3>2 DEF Present
  <2>7. \A k, h \in Job : Ongoing(k)' /\ Ongoing(h)' /\ SameRoot(k, h)' => k = h
    BY <1>4, <2>4
  <2>8. \A k \in Job : Claimed(k)' =>
           /\ k \in First <=> job'[k].resume = Nothing
           /\ k \in First => job'[k].root = k
           /\ k \notin First => /\ job'[k].resume.job \in Job /\ Claimed(job[k].resume.job)'
                                /\ job'[k].root = job'[job'[k].resume.job].root
    BY <2>3 DEF Claimed
  <2> HIDE DEF Present, Ongoing
  <2> QED BY <2>1, <2>6, <2>7, <2>8 DEF Lineages
<1>6. Tables'
  BY TablesStay DEF TrainInv, Tables, Recording
<1>7. Alone'
  <2>1. \A q \in Process \ {p} : ~Busy(q)'
    <3> SUFFICES ASSUME NEW q \in Process \ {p} PROVE ~Busy(q)'
      OBVIOUS
    <3>1. ~Busy(q)
      BY DEF TrainInv, Alone
    <3> QED BY <3>1 DEF Busy, Moved
  <2> QED BY <2>1 DEF Alone
<1>8. Selections'
  BY SelectionsStay, SameRows DEF TrainInv
<1>9. \A q \in Process : Along(pc[q], me[q], live[q])'
  BY Bystanders
<1>10. Dispatches'
  <2>1. PICK at \in [DOMAIN dispatches -> Indices] : Placing(at)
    BY DEF TrainInv, Dispatches
  <2>2. \A k \in DOMAIN dispatches : dispatches[k].job \in Job /\ Present(dispatches[k].job)
    BY DEF TrainInv, Dispatches
  <2>3. \A k \in DOMAIN dispatches : Root(k)' = Root(k)
    BY <1>2, <2>2 DEF Root
  <2>4. ASSUME NEW k \in DOMAIN dispatches, NEW h \in Job, Ongoing(h)', SameRoot(dispatches[k].job, h)'
        PROVE  Before(h, dispatches[k], at[k])'
    <3>1. Ongoing(h) /\ SameRoot(dispatches[k].job, h)
      <4>1. PICK g \in Job : g = dispatches[k].job /\ g = dispatches'[k].job
        BY <2>2
      <4>2. Ongoing(h) /\ Present(h) /\ Present(g) /\ SameRoot(g, h)'
        BY <1>4, <2>2, <2>4, <4>1 DEF Ongoing, SameRoot
      <4> QED BY <1>3, <4>1, <4>2
    <3>2. Before(h, dispatches[k], at[k])
      BY <2>1, <3>1 DEF Placing
    <3>3. Settled(h)' => Settled(h)
      BY <3>1, SettledBefore
    <3> QED BY <3>2, <3>3 DEF Before
  <2>5. Placing(at)'
    BY <2>1, <2>3, <2>4 DEF Placing
  <2> QED BY <1>4, <2>1, <2>5 DEF TrainInv, Dispatches
<1> QED BY <1>5, <1>6, <1>7, <1>8, <1>9, <1>10 DEF TrainInv

LEMMA TrainSteady ==
    ASSUME TrainInv, NEW p \in Process, NEW j \in Job,
           NEW c \in {Nothing} \cup UNION {Checkpoints(k) : k \in Job \ {j}}, Train(p, j, c)
    PROVE  TrainInv'
<1>1. pc[p] = "idle" /\ Free /\ UNCHANGED <<rows, journal, dispatches, live>> /\ Tables
  BY DEF Train, At, sessionVars, workVars, TrainInv
<1>2. PICK m : /\ m = [Idle EXCEPT !.job = j] /\ DOMAIN m = DOMAIN Idle /\ m.job = j /\ m.then = "raise"
               /\ me' = [me EXCEPT ![p] = m]
  BY DEF Train, Idle
<1>3. ~\E q \in Process : Busy(q)
  BY <1>1 DEF Free, Busy, At
<1>4. PICK label \in {"load", "unwind"} : Goto(p, label)
  BY DEF Train, Call
<1>5. Moved(p) /\ pc'[p] = label /\ me'[p] = m /\ live'[p] = live[p]
  BY <1>1, <1>2, <1>4, GotoMoves DEF Tables
<1>6. label \notin Ready
  BY <1>4 DEF Ready
<1>7. Fits(label, m.then, journal[m.job], live[p])
  BY <1>2, <1>4 DEF Fits, Driving, Starting, Updating, Gathering, Taking, Ready, Dispatched, Shutting
<1>8. label = "load" /\ Claimed(j)' => Along(label, m, live[p])'
  BY <1>1, <1>2, <1>7 DEF Along, Updating, Ready
<1>9. label = "unwind" => Along(label, m, live[p])'
  BY <1>1, <1>2, <1>7 DEF Along, Driving, Starting, Updating, Gathering, Taking, Ready, Dispatched
<1>10. CASE UNCHANGED job /\ label = "unwind"
  BY <1>5, <1>9, <1>10, <1>1, <1>3, <1>6, JobStep DEF TrainInv, Lineages, Tables, Claimed
<1> DEFINE root == IF c = Nothing THEN j ELSE job[c.job].root
<1>11. CASE job' = [job EXCEPT ![j].state = "running", ![j].resume = c, ![j].root = root]
  <2>1. /\ DOMAIN job' = Job /\ \A k \in Job \ {j} : job'[k] = job[k]
        /\ DOMAIN job'[j] = {"state", "resume", "root", "result"}
        /\ job'[j].state = "running" /\ job'[j].resume = c /\ job'[j].root = root
    BY <1>1, <1>11 DEF Tables
  <2>2. Claimed(j)'
    BY <2>1 DEF Claimed
  <2>3. Along(pc[p], me[p], live[p])'
    BY <1>4, <1>5, <1>8, <1>9, <2>2
  <2>4. c = Nothing <=> j \in First
    BY DEF Train
  <2>5. c # Nothing => c.job \in Job /\ Claimed(c.job)
    <3> SUFFICES ASSUME c # Nothing PROVE c.job \in Job /\ Claimed(c.job)
      OBVIOUS
    <3>1. PICK k \in Job : c \in Checkpoints(k)
      OBVIOUS
    <3>2. PICK i, r : i \in Indices /\ r \in Newest(Update(k, i)) /\ r[1] = "checkpoint" /\ r[2] = c
      BY <3>1 DEF Checkpoints
    <3>3. CheckpointOf(c, k)
      BY <3>2 DEF TrainInv, Selections
    <3> QED BY <3>3 DEF CheckpointOf, TrainInv, Lineages
  <2>6. root \in Job
    BY <2>5 DEF TrainInv, Lineages
  <2>7. Claimed(j) => root = job[j].root
    <3> SUFFICES ASSUME Claimed(j) PROVE root = job[j].root
      OBVIOUS
    <3>1. job[j].state = "running"
      BY DEF Claimed, TrainInv, Lineages, Train
    <3>2. c = job[j].resume
      BY <3>1 DEF Train
    <3> QED BY <2>4, <3>2 DEF TrainInv, Lineages
  <2>8. j \notin First => c.job \in Job /\ Claimed(c.job) /\ root = job[c.job].root
    BY <2>4, <2>5
  <2> HIDE DEF root
  <2>9. j \in First => root = j
    BY <2>4 DEF root
  <2> QED BY <1>1, <1>3, <1>5, <1>6, <2>1, <2>2, <2>3, <2>4, <2>6, <2>7, <2>8, <2>9, JobStep
<1>12. (UNCHANGED job /\ label = "unwind") \/ job' = [job EXCEPT ![j].state = "running", ![j].resume = c, ![j].root = root]
  BY <1>1, <1>5 DEF Goto, Tables, Train, Call
<1> QED BY <1>10, <1>11, <1>12

LEMMA CompleteSteady ==
    ASSUME TrainInv, NEW p \in Process, Complete(p)
    PROVE  TrainInv'
<1>1. pc[p] = "complete" /\ pc[p] \in Driving /\ UNCHANGED <<rows, journal, dispatches, live>>
  BY DEF Complete, At, Driving, sessionVars, workVars
<1>2. PICK j : j = Mine(p)
  OBVIOUS
<1>3. j \in Job /\ Claimed(j) /\ Busy(p) /\ Tables
  BY <1>1, <1>2, Here
<1>4. PICK label \in {"idle", "unwind"} : Goto(p, label)
  BY DEF Complete, Call
<1>5. Moved(p) /\ pc'[p] = label /\ me'[p] = Idle /\ live'[p] = live[p]
  BY <1>1, <1>3, <1>4, GotoMoves DEF Tables, Complete
<1>6. label \notin Ready
  BY <1>4 DEF Ready
<1>7. Along(pc[p], me[p], live[p])'
  <2>1. Idle.then = "raise"
    BY DEF Idle
  <2>2. Fits(label, Idle.then, journal[Idle.job], live[p])
    BY <1>4, <2>1 DEF Fits, Driving, Starting, Updating, Gathering, Taking, Ready, Dispatched, Shutting
  <2>3. Along(label, Idle, live[p])'
    BY <1>1, <1>4, <2>1, <2>2 DEF Along, Driving, Starting, Updating, Gathering, Taking, Ready, Dispatched
  <2> QED BY <1>5, <2>3
<1>8. PICK result : UNCHANGED job \/ job' = [job EXCEPT ![j].state = "completed", ![j].result = result]
  BY <1>2 DEF Complete, Call
<1>9. /\ DOMAIN job' = Job /\ \A k \in Job \ {j} : job'[k] = job[k]
      /\ DOMAIN job'[j] = {"state", "resume", "root", "result"}
      /\ job'[j].state \in {job[j].state, "completed"} /\ job'[j].resume = job[j].resume /\ job'[j].root = job[j].root
  BY <1>3, <1>8 DEF Tables
<1>10. /\ job[j].root \in Job /\ job'[j].state \in {"absent", "running", "completed"} /\ Claimed(j)'
  BY <1>3, <1>9 DEF TrainInv, Lineages, Claimed
<1>11. /\ j \in First <=> job[j].resume = Nothing
       /\ j \in First => job[j].root = j
       /\ j \notin First => /\ job[j].resume.job \in Job /\ Claimed(job[j].resume.job)
                            /\ job[j].root = job[job[j].resume.job].root
  BY <1>3 DEF TrainInv, Lineages
<1> QED BY <1>1, <1>3, <1>5, <1>6, <1>7, <1>9, <1>10, <1>11, JobStep
-----------------------------------------------------------------------------
(* The invariant.                                                          *)

LEMMA TrainInitial ==
    ASSUME Init
    PROVE  TrainInv
<1>1. /\ \A j \in Job : journal[j] = Absent /\ ~Present(j) /\ ~Claimed(j)
      /\ \A p \in Process : pc[p] = "idle" /\ me[p] = Idle /\ live[p] = Nothing
      /\ dispatches = <<>>
  BY DEF Init, Present, Absent, Fresh, Claimed
<1>2. \A j \in Job, i \in Indices : Update(j, i) \in DOMAIN rows /\ rows[Update(j, i)] = <<>>
  <2> SUFFICES ASSUME NEW j \in Job, NEW i \in Indices
               PROVE  Update(j, i) \in DOMAIN rows /\ rows[Update(j, i)] = <<>>
    OBVIOUS
  <2>1. Update(j, i) \in Rows
    BY DEF Rows
  <2> QED BY <2>1 DEF Init
<1>3. IsRow(<<>>) /\ DOMAIN <<>> = {}
  BY DEF IsRow
<1>4. Tables
  BY <1>2, <1>3, <1>1 DEF Waiting, Absent, Fresh, IsJournal, Recording, Init, Tables
<1>5. Alone
  BY <1>1 DEF Alone, Busy
<1>6. Lineages
  BY <1>1 DEF Init, Absent, Fresh, Lineages, Ongoing
<1>7. Selections
  BY <1>2 DEF Selections, Newest
<1>8. \A p \in Process : Along(pc[p], me[p], live[p])
  <2>1. Fits("idle", "raise", journal[Nothing], Nothing)
    BY DEF Fits, Driving, Starting, Updating, Gathering, Taking, Ready, Dispatched, Shutting
  <2>2. Idle.job = Nothing /\ Idle.then = "raise"
    BY DEF Idle
  <2>3. Along("idle", Idle, Nothing)
    BY <2>1, <2>2 DEF Along, Driving, Starting, Updating, Gathering, Taking, Ready, Dispatched
  <2> QED BY <1>1, <2>3
<1>9. Dispatches
  <2>1. PICK at : at = [k \in DOMAIN dispatches |-> 0]
    OBVIOUS
  <2>2. at \in [DOMAIN dispatches -> Indices] /\ Placing(at)
    BY <1>1, <1>3, <2>1 DEF Placing
  <2> QED BY <1>1, <1>3, <2>2 DEF Dispatches
<1> QED BY <1>4, <1>5, <1>6, <1>7, <1>8, <1>9 DEF TrainInv

LEMMA TrainStutters ==
    ASSUME TrainInv, UNCHANGED vars
    PROVE  TrainInv'
<1>1. UNCHANGED <<rows, pc, job, journal, live, me, dispatches>>
  BY DEF vars, ledgerVars, sessionVars, workVars
<1>2. Tables'
  BY <1>1 DEF TrainInv, Tables, Recording
<1>3. Alone'
  BY <1>1 DEF TrainInv, Alone, Busy
<1>4. Lineages'
  BY <1>1, LineagesStay DEF TrainInv
<1>5. RowsKept /\ Grown
  BY <1>1, SameRows DEF TrainInv, Grown
<1>6. Selections'
  BY <1>1, <1>5, SelectionsStay DEF TrainInv
<1>7. \A p \in Process : Along(pc[p], me[p], live[p])'
  <2> SUFFICES ASSUME NEW p \in Process PROVE Along(pc[p], me[p], live[p])'
    OBVIOUS
  <2>1. PICK place, m, l : place = pc[p] /\ m = me[p] /\ l = live[p]
    OBVIOUS
  <2>2. Along(place, m, l)'
    BY <1>1, <1>5, <2>1, AlongStays DEF TrainInv
  <2> QED BY <1>1, <2>1, <2>2
<1>8. Dispatches'
  BY <1>1, <1>5, DispatchesStay DEF Settled, Ongoing, Present, TrainInv
<1> QED BY <1>2, <1>3, <1>4, <1>6, <1>7, <1>8 DEF TrainInv

LEMMA TrainStep ==
    ASSUME TrainInv, [Next]_vars
    PROVE  TrainInv'
<1> SUFFICES ASSUME NEW p \in Process,
                    \/ \E j \in Job : \E c \in {Nothing} \cup UNION {Checkpoints(k) : k \in Job \ {j}} : Train(p, j, c)
                    \/ Step(p)
             PROVE  TrainInv'
  BY TrainStutters DEF Next
<1>1. CASE \E j \in Job : \E c \in {Nothing} \cup UNION {Checkpoints(k) : k \in Job \ {j}} : Train(p, j, c)
  BY <1>1, TrainSteady
<1>3. CASE Load(p)
  BY <1>3, LoadSteady
<1>4. CASE Ancestry(p)
  BY <1>4, AncestrySteady
<1>5. CASE Supersede(p)
  BY <1>5, SupersedeSteady
<1>6. CASE Begin(p)
  BY <1>6, BeginSteady
<1>7. CASE Controller(p)
  BY <1>7, ControllerSteady
<1>8. CASE Open(p)
  BY <1>8, OpenSteady
<1>9. CASE AnnounceStartup(p)
  BY <1>9, AnnounceStartupSteady
<1>10. CASE Construct(p)
  BY <1>10, ConstructSteady
<1>11. CASE PublishStartup(p)
  BY <1>11, PublishStartupSteady
<1>12. CASE Restore(p)
  BY <1>12, RestoreSteady
<1>13. CASE Collecting(p)
  BY <1>13, CollectingSteady
<1>14. CASE Loop(p)
  BY <1>14, LoopSteady
<1>15. CASE Collect(p)
  BY <1>15, CollectSteady
<1>16. CASE Episode(p)
  BY <1>16, SamplingSteady
<1>17. CASE Sampling(p)
  BY <1>17, SamplingSteady
<1>18. CASE Classify(p)
  BY <1>18, ClassifySteady
<1>19. CASE Batch(p)
  BY <1>19, BatchSteady
<1>20. CASE Prepare(p)
  BY <1>20, PrepareSteady
<1>21. CASE Intent(p)
  BY <1>21, ConfirmSteady
<1>22. CASE DispatchUpdate(p)
  BY <1>22, DispatchSteady
<1>23. CASE SaveReload(p)
  BY <1>23, SamplingSteady
<1>24. CASE Confirm(p)
  BY <1>24, ConfirmSteady
<1>25. CASE SelectCheckpoint(p)
  BY <1>25, ConfirmSteady
<1>26. CASE Updated(p)
  BY <1>26, UpdatedSteady
<1>27. CASE Finish(p)
  BY <1>27, FinishSteady
<1>28. CASE Freeze(p)
  BY <1>28, FreezeSteady
<1>29. CASE Complete(p)
  BY <1>29, CompleteSteady
<1>30. CASE TerminalClose(p)
  BY <1>30, TerminalCloseSteady
<1>31. CASE Close(p)
  BY <1>31, CloseSteady
<1>32. CASE AnnounceShutdown(p)
  BY <1>32, AnnounceShutdownSteady
<1>33. CASE Shut(p)
  BY <1>33, ShutSteady
<1>34. CASE PublishShutdown(p)
  BY <1>34, PublishShutdownSteady
<1>35. CASE CloseDone(p)
  BY <1>35, CloseDoneSteady
<1>36. CASE Abort(p)
  BY <1>36, AbortSteady
<1>37. CASE PublishAbort(p)
  BY <1>37, AbortSteady
<1>38. CASE AbortDone(p)
  BY <1>38, AbortSteady
<1>39. CASE Crash(p)
  BY <1>39, CrashSteady
<1> QED BY <1>1, <1>3, <1>4, <1>5, <1>6, <1>7, <1>8, <1>9, <1>10, <1>11, <1>12, <1>13, <1>14, <1>15, <1>16, <1>17, <1>18, <1>19, <1>20, <1>21, <1>22, <1>23, <1>24, <1>25, <1>26, <1>27, <1>28, <1>29, <1>30, <1>31, <1>32, <1>33, <1>34, <1>35, <1>36, <1>37, <1>38, <1>39 DEF Step

\* What the lineages, journals, calls and dispatches are holds in every state.
THEOREM TrainInvariant == Spec => []TrainInv
  BY TrainInitial, TrainStep, PTL DEF Spec

-----------------------------------------------------------------------------
(* What the invariant gives.                                               *)

LEMMA LineageBudget ==
    ASSUME TrainInv
    PROVE  BudgetKept
<1> SUFFICES ASSUME NEW j \in Job PROVE Cardinality({k \in DOMAIN dispatches : Root(k) = j}) <= MaxUpdates
  BY DEF BudgetKept
<1>1. PICK K : K = {k \in DOMAIN dispatches : Root(k) = j}
  OBVIOUS
<1>2. PICK at \in [DOMAIN dispatches -> Indices] : Placing(at)
  BY DEF TrainInv, Dispatches
<1>3. PICK f : f = [k \in K |-> at[k]]
  OBVIOUS
<1>4. f \in [K -> Indices]
  BY <1>1, <1>2, <1>3
<1>5. \A k, m \in K : k # m => f[k] # f[m]
  BY <1>1, <1>2, <1>3 DEF Placing
<1>6. IsFiniteSet(K)
  <2>1. PICK S : dispatches \in Seq(S)
    BY DEF TrainInv, Dispatches, IsRow
  <2>2. Len(dispatches) \in Int /\ DOMAIN dispatches = 1..Len(dispatches) /\ 1 \in Int
    BY <2>1, LenProperties
  <2>3. IsFiniteSet(1..Len(dispatches))
    BY <2>2, FS_Interval
  <2> QED BY <1>1, <2>2, <2>3, FS_Subset
<1>7. ~(Cardinality(Indices) < Cardinality(K))
  BY <1>4, <1>5, <1>6, IndicesFinite, FS_PigeonHole
<1>8. Cardinality(K) \in Nat /\ MaxUpdates \in Nat
  BY <1>6, FS_CardinalityType, UpdateAssumption
<1> QED BY <1>1, <1>7, <1>8, IndicesFinite

LEMMA TrainedOnce ==
    ASSUME TrainInv
    PROVE  GroupOnce
<1>1. PICK at \in [DOMAIN dispatches -> Indices] : Placing(at)
  BY DEF TrainInv, Dispatches
<1>2. \A k \in DOMAIN dispatches : \A g \in dispatches[k].batch : g.policy = dispatches[k].on
  BY DEF TrainInv, Dispatches
<1>3. ASSUME NEW k \in DOMAIN dispatches, NEW m \in DOMAIN dispatches \ {k}, Root(m) = Root(k)
      PROVE  {g.at : g \in dispatches[k].batch} \cap {g.at : g \in dispatches[m].batch} = {}
  BY <1>1, <1>3 DEF Placing, Ats
<1> QED BY <1>2, <1>3 DEF GroupOnce

\* However its calls crash, fail, repeat or go on from a checkpoint, a lineage of jobs gives the
\* optimizer at most max_updates batches, each of groups sampled from the weights it is trained
\* on, and none of its sampler's positions is trained on twice (training/service.py).
THEOREM UpdatesStayAccounted == Spec => []UpdatesAccounted
<1>1. TrainInv => UpdatesAccounted
  BY LineageBudget, TrainedOnce DEF UpdatesAccounted
<1> QED BY <1>1, TrainInvariant, PTL
-----------------------------------------------------------------------------
(* Sessions and their shutdown.                                            *)

\* A shutdown row is of one session, s.
AnnouncedFor(s) == {Receipt("startup", s)}
ShutdownOf(s) == {Receipt("startup", s), Receipt("shutdown", s)}
IsShutdown(row, s) == row \in {<<>>, <<AnnouncedFor(s)>>, <<AnnouncedFor(s), ShutdownOf(s)>>}

Holds(p, j, n) == live[p] # Nothing /\ Session(p) = <<j, n>>

SessionRows ==
    /\ \A close \in Closes, j \in Job :
          Row(close, j) \in DOMAIN rows /\ \E s : IsShutdown(rows[Row(close, j)], s)
    /\ \A j \in Job, n \in 1..MaxCalls : Startup(j, n) \in DOMAIN rows /\ IsRow(rows[Startup(j, n)])

\* A startup is published by a process without a session.
Publishing == {"announce startup", "construct", "publish startup"}

\* A session that could not be announced is of a key that was taken.
Unannounced(p) ==
    pc[p] = "shut unannounced" =>
        \A j \in Job, n \in 1..MaxCalls : Session(p) = <<j, n>> => KeyTaken(j, n)

ShutInv ==
    /\ faults \in Nat
    /\ SessionRows
    /\ \A p \in Process : pc[p] \in Publishing => live[p] = Nothing
    /\ ShutdownRecordedOrRefused
    /\ faults = 0 => \A p \in Process : Unannounced(p)

\* A step of p, as the sessions see it.
Beside(p) == \A q \in Process \ {p} : pc'[q] = pc[q] /\ live'[q] = live[q]
FaultsCounted == faults' \in Nat /\ (faults' = 0 => faults = 0)
ShutdownRowStep(row, next) ==
    \/ next = row
    \/ \E s : \/ row = <<>> /\ next = <<AnnouncedFor(s)>>
              \/ row = <<AnnouncedFor(s)>> /\ next = <<AnnouncedFor(s), ShutdownOf(s)>>

LEMMA ShutdownRowKept ==
    ASSUME NEW row, NEW next, NEW s, IsShutdown(row, s), ShutdownRowStep(row, next)
    PROVE  /\ \E t : IsShutdown(next, t)
           /\ \A t : row # <<>> /\ Receipt("shutdown", t) \in row[Len(row)] =>
                        next # <<>> /\ Receipt("shutdown", t) \in next[Len(next)]
           /\ \A t : row # <<>> /\ Receipt("startup", t) \notin row[Len(row)] =>
                        next # <<>> /\ Receipt("startup", t) \notin next[Len(next)]
<1>1. CASE next = row
  BY <1>1
<1>2. CASE \E t : row = <<>> /\ next = <<AnnouncedFor(t)>>
  <2>1. PICK t : row = <<>> /\ next = <<AnnouncedFor(t)>>
    BY <1>2
  <2>2. IsShutdown(next, t)
    BY <2>1 DEF IsShutdown
  <2> QED BY <2>1, <2>2
<1>3. CASE \E t : row = <<AnnouncedFor(t)>> /\ next = <<AnnouncedFor(t), ShutdownOf(t)>>
  <2>1. PICK t : row = <<AnnouncedFor(t)>> /\ next = <<AnnouncedFor(t), ShutdownOf(t)>>
    BY <1>3
  <2>2. IsShutdown(next, t)
    BY <2>1 DEF IsShutdown
  <2>3. row # <<>> /\ next # <<>> /\ row[Len(row)] = AnnouncedFor(t) /\ next[Len(next)] = ShutdownOf(t)
    BY <2>1
  <2>4. \A u : Receipt("shutdown", u) \notin AnnouncedFor(t)
    BY DEF AnnouncedFor, Receipt
  <2>5. \A u : Receipt("startup", u) \notin AnnouncedFor(t) => Receipt("startup", u) \notin ShutdownOf(t)
    BY DEF AnnouncedFor, ShutdownOf, Receipt
  <2> QED BY <2>2, <2>3, <2>4, <2>5
<1> QED BY <1>1, <1>2, <1>3 DEF ShutdownRowStep

\* What is on record of a session stays there.
LEMMA AccountStays ==
    ASSUME SessionRows, NEW j \in Job, NEW n,
           \A close \in Closes, k \in Job : ShutdownRowStep(rows[Row(close, k)], rows'[Row(close, k)])
    PROVE  /\ Closed(j, n) => Closed(j, n)'
           /\ KeyTaken(j, n) => KeyTaken(j, n)'
<1>1. ASSUME NEW close \in Closes
      PROVE  /\ Receipt("shutdown", <<j, n>>) \in Newest(Row(close, j))
                   => Receipt("shutdown", <<j, n>>) \in Newest(Row(close, j))'
             /\ rows[Row(close, j)] # <<>> /\ Receipt("startup", <<j, n>>) \notin Newest(Row(close, j))
                   => /\ rows'[Row(close, j)] # <<>>
                      /\ Receipt("startup", <<j, n>>) \notin Newest(Row(close, j))'
  <2>1. PICK s : IsShutdown(rows[Row(close, j)], s)
    BY <1>1 DEF SessionRows
  <2>2. ShutdownRowStep(rows[Row(close, j)], rows'[Row(close, j)])
    BY <1>1
  <2> QED BY <2>1, <2>2, ShutdownRowKept DEF Newest
<1> QED BY <1>1 DEF Closed, KeyTaken

\* What p and the rows must do, for every session to stay accounted.
LEMMA ShutStep ==
    ASSUME ShutInv, NEW p \in Process, Beside(p), FaultsCounted,
           \A close \in Closes, j \in Job :
              /\ Row(close, j) \in DOMAIN rows'
              /\ ShutdownRowStep(rows[Row(close, j)], rows'[Row(close, j)]),
           \A j \in Job, n \in 1..MaxCalls : Startup(j, n) \in DOMAIN rows' /\ IsRow(rows'[Startup(j, n)]),
           pc'[p] \in Publishing => live'[p] = Nothing,
           faults' = 0 => \A j \in Job, n \in 1..MaxCalls :
              /\ Len(rows'[Startup(j, n)]) = 2 => Len(rows[Startup(j, n)]) = 2 \/ Holds(p, j, n)'
              /\ Holds(p, j, n) => Holds(p, j, n)' \/ Closed(j, n)' \/ KeyTaken(j, n)',
           faults' = 0 => Unannounced(p)'
    PROVE  ShutInv'
<1>1. SessionRows'
  BY ShutdownRowKept DEF SessionRows, ShutInv
<1>2. \A q \in Process : pc'[q] \in Publishing => live'[q] = Nothing
  BY DEF ShutInv, Beside
<1>3. \A j \in Job : \A n : (Closed(j, n) => Closed(j, n)') /\ (KeyTaken(j, n) => KeyTaken(j, n)')
  BY AccountStays DEF ShutInv
<1>4. ASSUME faults' = 0, NEW j \in Job, NEW n \in 1..MaxCalls, Len(rows'[Startup(j, n)]) = 2
      PROVE  Closed(j, n)' \/ KeyTaken(j, n)' \/ \E q \in Process : Holds(q, j, n)'
  BY <1>4, <1>3 DEF ShutInv, ShutdownRecordedOrRefused, Holds, FaultsCounted, Session, Beside
<1>5. ShutdownRecordedOrRefused'
  BY <1>4 DEF ShutdownRecordedOrRefused, Holds
<1>6. ASSUME faults' = 0, NEW q \in Process PROVE Unannounced(q)'
  BY <1>6, <1>3 DEF ShutInv, FaultsCounted, Session, Beside, Unannounced
<1> QED BY <1>1, <1>2, <1>5, <1>6 DEF ShutInv, FaultsCounted
\* A step of p that changes no session and no row of one.
RowsAside ==
    /\ \A close \in Closes, j \in Job :
          Row(close, j) \in DOMAIN rows' /\ rows'[Row(close, j)] = rows[Row(close, j)]
    /\ \A j \in Job, n \in 1..MaxCalls :
          Startup(j, n) \in DOMAIN rows' /\ rows'[Startup(j, n)] = rows[Startup(j, n)]
SessionKept(p) == live[p] # Nothing => live'[p] # Nothing /\ Session(p)' = Session(p)

LEMMA ShutQuiet ==
    ASSUME ShutInv, NEW p \in Process, Beside(p), FaultsCounted, RowsAside, SessionKept(p),
           pc'[p] \in Publishing => live'[p] = Nothing, pc'[p] # "shut unannounced"
    PROVE  ShutInv'
  BY ShutStep DEF RowsAside, ShutdownRowStep, ShutInv, SessionRows, SessionKept, Holds, Unannounced

\* A row of no session, and the places where no session is announced.
OtherName(name) ==
    /\ \A close \in Closes, j \in Job : name # Row(close, j)
    /\ \A j \in Job, m \in 1..MaxCalls : name # Startup(j, m)
Aside(label) == label \notin Publishing \cup {"shut unannounced"}

LEMMA AsideObserved ==
    ASSUME ShutInv, NEW p, NEW name, NEW n, NEW receipts, NEW ok, NEW bad,
           OtherName(name), Aside(ok), Aside(bad), Observe(p, name, n, receipts, ok, bad)
    PROVE  RowsAside /\ FaultsCounted /\ \E label : Goto(p, label) /\ Aside(label)
  BY DEF Observe, Call, ShutInv, SessionRows, RowsAside, OtherName, FaultsCounted

LEMMA AsideKept ==
    ASSUME ShutInv, UNCHANGED rows
    PROVE  RowsAside
  BY DEF ShutInv, SessionRows, RowsAside

LEMMA FaultsCount ==
    ASSUME ShutInv, faults' = faults \/ faults' = faults + 1
    PROVE  FaultsCounted
  BY DEF ShutInv, FaultsCounted

\* A move of p with its session as it was.
LEMMA ShutGoto ==
    ASSUME ShutInv, Tables, NEW p \in Process, NEW label, Goto(p, label), UNCHANGED live,
           RowsAside, FaultsCounted, Aside(label)
    PROVE  ShutInv'
  BY ShutQuiet DEF Goto, Beside, Tables, SessionKept, Session, Aside

\* The steps that move p, or write its journal, and no more.
ShutMoving(p) ==
    \/ Load(p) \/ Supersede(p) \/ Begin(p) \/ Collecting(p) \/ Loop(p) \/ Collect(p) \/ Episode(p)
    \/ Sampling(p) \/ Classify(p) \/ Batch(p) \/ Prepare(p) \/ SaveReload(p) \/ Updated(p)
    \/ Finish(p) \/ Freeze(p) \/ Complete(p) \/ CloseDone(p) \/ AbortDone(p) \/ TerminalClose(p)

LEMMA AsidePlaces ==
    /\ Aside("begin") /\ Aside("ancestry") /\ Aside("unwind") /\ Aside("complete") /\ Aside("finish") /\ Aside("supersede")
    /\ Aside("controller") /\ Aside("open") /\ Aside("loop") /\ Aside("collect") /\ Aside("rows") /\ Aside("batch")
    /\ Aside("episode") /\ Aside("classify") /\ Aside("sampling") /\ Aside("intent") /\ Aside("update") /\ Aside("confirm")
    /\ Aside("checkpoint") /\ Aside("updated") /\ Aside("close") /\ Aside("freeze") /\ Aside("idle") /\ Aside("abort")
    /\ Aside("publish abort") /\ Aside("aborted")
  BY DEF Aside, Publishing

LEMMA ShutMoves ==
    ASSUME ShutInv, TrainInv, NEW p \in Process, ShutMoving(p)
    PROVE  ShutInv'
<1>1. UNCHANGED <<rows, live>>
  BY DEF ShutMoving, Load, Supersede, Begin, Collecting, Loop, Collect, Episode, Sampling, Classify,
         Batch, Prepare, SaveReload, Updated, Finish, Freeze, Complete, CloseDone, AbortDone, TerminalClose, Write, Call,
         sessionVars, workVars
<1>2. faults' = faults \/ faults' = faults + 1
  <2>1. CASE Load(p) \/ Loop(p) \/ Episode(p) \/ Sampling(p) \/ SaveReload(p) \/ CloseDone(p) \/ AbortDone(p) \/ TerminalClose(p)
    BY <2>1 DEF Load, Loop, Episode, Sampling, SaveReload, CloseDone, AbortDone, TerminalClose
  <2>2. CASE Supersede(p) \/ Begin(p) \/ Collecting(p) \/ Collect(p) \/ Classify(p) \/ Batch(p)
    BY <2>2 DEF Supersede, Begin, Collecting, Collect, Classify, Batch, Write, Call
  <2>3. CASE Prepare(p) \/ Updated(p) \/ Finish(p) \/ Freeze(p) \/ Complete(p)
    BY <2>3 DEF Prepare, Updated, Finish, Freeze, Complete, Write, Call
  <2> QED BY <2>1, <2>2, <2>3 DEF ShutMoving
<1>3. \E label : Goto(p, label) /\ Aside(label)
  <2> USE AsidePlaces
  <2>1. CASE Load(p)
    BY <2>1 DEF Load
  <2>2. CASE Loop(p)
    BY <2>2 DEF Loop, NextGroup
  <2>3. CASE Episode(p) \/ Sampling(p) \/ SaveReload(p) \/ AbortDone(p) \/ TerminalClose(p)
    BY <2>3 DEF Episode, Sampling, SaveReload, AbortDone, TerminalClose
  <2>4. CASE CloseDone(p)
    <3>1. me[p].then \in {"raise", "finish", "terminal"}
      BY DEF TrainInv, Along, Fits
    <3>2. Done(me[p].then) \in {"freeze", "idle", "abort"}
      <4>1. Done("raise") = "idle" /\ Done("finish") = "freeze" /\ Done("terminal") = "abort"
        BY DEF Done
      <4> QED BY <3>1, <4>1
    <3>3. Aside(Done(me[p].then))
      BY <3>2
    <3> QED BY <2>4, <3>3 DEF CloseDone
  <2>5. CASE Supersede(p) \/ Begin(p) \/ Collecting(p)
    BY <2>5 DEF Supersede, Begin, Collecting, Write, Call
  <2>6. CASE Collect(p)
    BY <2>6 DEF Collect, Write, Call
  <2>7. CASE Classify(p) \/ Batch(p) \/ Prepare(p)
    BY <2>7 DEF Classify, Batch, Prepare, NextGroup, Write, Call
  <2>8. CASE Updated(p) \/ Finish(p) \/ Freeze(p) \/ Complete(p)
    BY <2>8 DEF Updated, Finish, Freeze, Complete, Write, Call
  <2> QED BY <2>1, <2>2, <2>3, <2>4, <2>5, <2>6, <2>7, <2>8 DEF ShutMoving
<1>4. PICK label : Goto(p, label) /\ Aside(label)
  BY <1>3
<1> QED BY <1>1, <1>2, <1>4, AsideKept, FaultsCount, ShutGoto DEF TrainInv

\* The steps that leave a row, none of a session.
ShutObserving(p) ==
    \/ Ancestry(p) \/ Controller(p) \/ Intent(p) \/ Confirm(p) \/ SelectCheckpoint(p)
    \/ Abort(p) \/ PublishAbort(p)

LEMMA ShutObserves ==
    ASSUME ShutInv, TrainInv, NEW p \in Process, ShutObserving(p)
    PROVE  ShutInv'
<1>1. live' = live
  BY DEF ShutObserving, Ancestry, Controller, Intent, Confirm, SelectCheckpoint, Abort, PublishAbort, sessionVars
<1>2. \A k : OtherName(Row("ancestry", k)) /\ OtherName(Row("controller", k)) /\ OtherName(Row("abort", k))
  BY DEF OtherName, Row, Startup, Closes
<1>3. \A k, i : OtherName(Update(k, i))
  BY DEF OtherName, Row, Startup, Update, Closes
<1>4. RowsAside /\ FaultsCounted /\ \E label : Goto(p, label) /\ Aside(label)
  <2> USE AsidePlaces
  <2>1. CASE Ancestry(p)
    BY <1>2, <2>1, AsideObserved DEF Ancestry
  <2>2. CASE Controller(p)
    <3>1. PICK ok \in {"finish", "open"} : \E receipts :
            Observe(p, Row("controller", Mine(p)), 1, receipts, ok, "unwind")
      BY <2>2 DEF Controller
    <3> QED BY <1>2, <3>1, AsideObserved
  <2>3. CASE Intent(p)
    BY <1>3, <2>3, AsideObserved DEF Intent, UpdateRow
  <2>4. CASE Confirm(p)
    <3>1. PICK ok \in {"checkpoint", "updated"} : \E receipts :
            Observe(p, Update(Mine(p), Spent(State(p))), 2, receipts, ok, "unwind")
      BY <2>4 DEF Confirm, UpdateRow
    <3> QED BY <1>3, <3>1, AsideObserved
  <2>5. CASE SelectCheckpoint(p)
    BY <1>3, <2>5, AsideObserved DEF SelectCheckpoint, UpdateRow
  <2>6. CASE Abort(p)
    BY <1>2, <2>6, AsideKept, FaultsCount, AsideObserved DEF Abort, AbortRow
  <2>7. CASE PublishAbort(p)
    BY <1>2, <2>7, AsideObserved DEF PublishAbort, AbortRow
  <2> QED BY <2>1, <2>2, <2>3, <2>4, <2>5, <2>6, <2>7 DEF ShutObserving
<1>5. PICK label : Goto(p, label) /\ Aside(label)
  BY <1>4
<1> QED BY <1>1, <1>4, <1>5, ShutGoto DEF TrainInv

\* Nothing is no session: None is told from every object.
NothingIsApart == DOMAIN Nothing # {"job", "n", "weights", "up", "asked", "closing"}

\* A change of the session of p, in which it stays the same session.
SameSession(l, k) == k.job = l.job /\ k.n = l.n /\ k # Nothing

LEMMA ShutChanges ==
    ASSUME ShutInv, Tables, NEW p \in Process, NEW label, NEW l, Goto(p, label), Aside(label),
           live' = [live EXCEPT ![p] = l], SameSession(live[p], l), RowsAside, FaultsCounted
    PROVE  ShutInv'
  BY ShutQuiet DEF Goto, Beside, Tables, SessionKept, Session, SameSession, Aside

LEMMA ChangedSession ==
    ASSUME NothingIsApart, NEW l, IsLive(l), NEW w, NEW a, NEW c
    PROVE  /\ SameSession(l, [l EXCEPT !.weights = w])
           /\ SameSession(l, [l EXCEPT !.up = w])
           /\ SameSession(l, [l EXCEPT !.asked = a])
           /\ SameSession(l, [l EXCEPT !.asked = a, !.closing = c])
  BY DEF IsLive, SameSession, NothingIsApart

LEMMA TrainShut ==
    ASSUME ShutInv, TrainInv, NEW p \in Process, NEW j \in Job, NEW c, Train(p, j, c)
    PROVE  ShutInv'
<1>1. UNCHANGED <<rows, live>>
  BY DEF Train, sessionVars
<1>2. PICK label \in {"load", "unwind"} : Goto(p, label) /\ (faults' = faults \/ faults' = faults + 1)
  BY DEF Train, Call
<1>3. Aside("load") /\ Aside("unwind")
  BY DEF Aside, Publishing
<1> QED BY <1>1, <1>2, <1>3, AsideKept, FaultsCount, ShutGoto DEF TrainInv

LEMMA OpenShut ==
    ASSUME ShutInv, TrainInv, NEW p \in Process, Open(p)
    PROVE  ShutInv'
<1>1. UNCHANGED <<rows, live>> /\ RowsAside
  BY AsideKept DEF Open
<1>2. faults' = faults \/ faults' = faults + 1
  BY DEF Open, Write, Call
<1>3. PICK label \in {"restore", "publish startup", "announce startup", "unwind"} :
          Goto(p, label) /\ (label \in {"publish startup", "announce startup"} => live[p] = Nothing)
  BY DEF Open, Write, Call
<1>4. Beside(p) /\ pc'[p] = label /\ live'[p] = live[p] /\ SessionKept(p)
  BY <1>1, <1>3 DEF Goto, Beside, SessionKept, Session, TrainInv, Tables
<1> QED BY <1>1, <1>2, <1>3, <1>4, FaultsCount, ShutQuiet DEF Publishing

LEMMA ConstructShut ==
    ASSUME ShutInv, TrainInv, NEW p \in Process, Construct(p)
    PROVE  ShutInv'
<1>1. UNCHANGED <<rows, live, faults>> /\ RowsAside
  BY AsideKept DEF Construct
<1>2. PICK label \in {"publish startup", "unwind"} : Goto(p, label)
  BY DEF Construct
<1>3. Beside(p) /\ pc'[p] = label /\ live'[p] = live[p] /\ SessionKept(p)
  BY <1>1, <1>2 DEF Goto, Beside, SessionKept, Session, TrainInv, Tables
<1>4. live[p] = Nothing
  BY DEF ShutInv, Construct, At, Publishing
<1> QED BY <1>1, <1>2, <1>3, <1>4, FaultsCount, ShutQuiet

\* What p has at a place with a session.
LEMMA SessionAt ==
    ASSUME TrainInv, NEW p \in Process
    PROVE  /\ pc[p] \in {"restore", "update"} \cup Shutting => IsLive(live[p])
           /\ pc[p] \in Shutting => live[p].closing \in Closes
           /\ live[p] = Nothing \/ IsLive(live[p])
           /\ Tables /\ me[p].then \in {"raise", "finish", "terminal"}
  BY Closer DEF Fits, Updating, Ready

LEMMA RestoreShut ==
    ASSUME NothingIsApart, ShutInv, TrainInv, NEW p \in Process, Restore(p)
    PROVE  ShutInv'
<1>1. RowsAside /\ FaultsCounted /\ IsLive(live[p]) /\ Tables
  BY AsideKept, FaultsCount, SessionAt DEF Restore, At
<1>2. CASE UNCHANGED live
  <2>1. PICK label \in {"collecting", "unwind"} : Goto(p, label)
    BY DEF Restore
  <2>2. Aside(label)
    BY <2>1 DEF Aside, Publishing
  <2> QED BY <1>1, <1>2, <2>1, <2>2, ShutGoto
<1>3. CASE ~UNCHANGED live
  <2> DEFINE l == [live[p] EXCEPT !.weights = State(p).native]
  <2>1. Goto(p, "collecting") /\ live' = [live EXCEPT ![p] = l]
    BY <1>3 DEF Restore
  <2>2. SameSession(live[p], l)
    BY <1>1, ChangedSession
  <2> HIDE DEF l
  <2>3. Aside("collecting")
    BY DEF Aside, Publishing
  <2> QED BY <1>1, <2>1, <2>2, <2>3, ShutChanges
<1> QED BY <1>2, <1>3

LEMMA DispatchShut ==
    ASSUME NothingIsApart, ShutInv, TrainInv, NEW p \in Process, DispatchUpdate(p)
    PROVE  ShutInv'
<1>1. RowsAside /\ FaultsCounted /\ IsLive(live[p]) /\ Tables
  BY AsideKept, FaultsCount, SessionAt DEF DispatchUpdate, At
<1>2. PICK label \in {"save", "unwind"} : Goto(p, label)
  BY DEF DispatchUpdate
<1>3. Aside(label)
  BY <1>2, AsidePlaces DEF Aside, Publishing
<1>4. CASE UNCHANGED live
  BY <1>1, <1>2, <1>3, <1>4, ShutGoto
<1>5. CASE ~UNCHANGED live
  <2> DEFINE l == [live[p] EXCEPT !.weights = Append(@, UpdateRow(p))]
  <2>1. live' = [live EXCEPT ![p] = l]
    BY <1>5 DEF DispatchUpdate
  <2>2. SameSession(live[p], l)
    BY <1>1, ChangedSession
  <2> HIDE DEF l
  <2> QED BY <1>1, <1>2, <1>3, <2>1, <2>2, ShutChanges
<1> QED BY <1>4, <1>5

LEMMA CloseShut ==
    ASSUME NothingIsApart, ShutInv, TrainInv, NEW p \in Process, Close(p)
    PROVE  ShutInv'
<1> DEFINE then == IF At(p, "unwind") THEN "raise" ELSE me[p].then
           key == ShutdownKey(p, then)
<1>1. RowsAside /\ FaultsCounted /\ Tables /\ (live[p] = Nothing \/ IsLive(live[p]))
  BY AsideKept, FaultsCount, SessionAt DEF Close
<1>2. Aside(Done(then)) /\ Aside(Failed(then)) /\ Aside("announce shutdown")
  <2>1. then \in {"raise", "finish", "terminal"}
    BY SessionAt
  <2>2. Done("raise") = "idle" /\ Done("finish") = "freeze" /\ Done("terminal") = "abort"
    BY DEF Done
  <2>3. Failed(then) \in {"unwind", "idle"}
    BY DEF Failed
  <2>4. Aside("announce shutdown")
    BY DEF Aside, Publishing
  <2> HIDE DEF then
  <2> QED BY <2>1, <2>2, <2>3, <2>4, AsidePlaces
<1>3. \/ live[p] = Nothing /\ Goto(p, Done(then)) /\ UNCHANGED live
      \/ Goto(p, "announce shutdown") /\ live' = [live EXCEPT ![p].asked = key, ![p].closing = key] /\ live[p] # Nothing
      \/ Goto(p, Failed(then)) /\ live' = [live EXCEPT ![p].asked = key] /\ live[p] # Nothing
  BY DEF Close
<1> HIDE DEF then, key
<1>4. CASE live[p] = Nothing /\ Goto(p, Done(then)) /\ UNCHANGED live
  BY <1>1, <1>2, <1>4, ShutGoto
<1>5. CASE Goto(p, "announce shutdown") /\ live' = [live EXCEPT ![p].asked = key, ![p].closing = key] /\ live[p] # Nothing
  <2> DEFINE l == [live[p] EXCEPT !.asked = key, !.closing = key]
  <2>1. live' = [live EXCEPT ![p] = l] /\ SameSession(live[p], l)
    BY <1>1, <1>5, ChangedSession
  <2> HIDE DEF l
  <2> QED BY <1>1, <1>2, <1>5, <2>1, ShutChanges
<1>6. CASE Goto(p, Failed(then)) /\ live' = [live EXCEPT ![p].asked = key] /\ live[p] # Nothing
  <2> DEFINE l == [live[p] EXCEPT !.asked = key]
  <2>1. live' = [live EXCEPT ![p] = l] /\ SameSession(live[p], l)
    BY <1>1, <1>6, ChangedSession
  <2> HIDE DEF l
  <2> QED BY <1>1, <1>2, <1>6, <2>1, ShutChanges
<1> QED BY <1>3, <1>4, <1>5, <1>6

\* What becomes of the startup rows when one is observed.
StartupsObserved(p, k, m, rev, ok) ==
    /\ \A j \in Job, n \in 1..MaxCalls :
          /\ Startup(j, n) \in DOMAIN rows' /\ IsRow(rows'[Startup(j, n)])
          /\ Len(rows'[Startup(j, n)]) = 2 =>
                Len(rows[Startup(j, n)]) = 2 \/ (j = k /\ n = m /\ rev = 2 /\ (faults' = 0 => Goto(p, ok)))
    /\ \A close \in Closes, j \in Job :
          /\ Row(close, j) \in DOMAIN rows'
          /\ ShutdownRowStep(rows[Row(close, j)], rows'[Row(close, j)])

LEMMA StartupObserved ==
    ASSUME ShutInv, NEW p, NEW k, NEW m, NEW rev \in {1, 2}, NEW receipts, NEW ok, NEW bad,
           Observe(p, Startup(k, m), rev, receipts, ok, bad)
    PROVE  StartupsObserved(p, k, m, rev, ok) /\ FaultsCounted /\ \E label \in {ok, bad} : Goto(p, label)
<1> DEFINE name == Startup(k, m)
           row == rows[name]
<1>1. /\ UNCHANGED rows \/ (Extends(row, rev, receipts) /\ rows' = [rows EXCEPT ![name] = Append(@, receipts)])
      /\ \E label \in {ok, bad} : Goto(p, label)
      /\ faults' = faults \/ faults' = faults + 1
      /\ UNCHANGED rows \/ Goto(p, ok) \/ faults' = faults + 1
  BY DEF Observe, Call
<1>2. FaultsCounted
  BY <1>1, FaultsCount
<1>3. faults \in Nat
  BY DEF ShutInv
<1>4. \A close \in Closes, j \in Job :
        /\ Row(close, j) \in DOMAIN rows'
        /\ ShutdownRowStep(rows[Row(close, j)], rows'[Row(close, j)])
  BY <1>1 DEF Row, Startup, Closes, ShutdownRowStep, ShutInv, SessionRows
<1>5. ASSUME NEW j \in Job, NEW n \in 1..MaxCalls
      PROVE  /\ Startup(j, n) \in DOMAIN rows' /\ IsRow(rows'[Startup(j, n)])
             /\ Len(rows'[Startup(j, n)]) = 2 =>
                   Len(rows[Startup(j, n)]) = 2 \/ (j = k /\ n = m /\ rev = 2 /\ (faults' = 0 => Goto(p, ok)))
  <2>1. Startup(j, n) \in DOMAIN rows /\ IsRow(rows[Startup(j, n)])
    BY DEF ShutInv, SessionRows
  <2>2. CASE rows'[Startup(j, n)] = rows[Startup(j, n)] /\ DOMAIN rows' = DOMAIN rows
    BY <2>1, <2>2
  <2>3. CASE ~(rows'[Startup(j, n)] = rows[Startup(j, n)] /\ DOMAIN rows' = DOMAIN rows)
    <3>1. /\ Extends(row, rev, receipts) /\ rows' = [rows EXCEPT ![name] = Append(@, receipts)]
          /\ Goto(p, ok) \/ faults' = faults + 1
      BY <1>1, <2>3
    <3>2. Startup(j, n) = name /\ j = k /\ n = m
      BY <2>1, <2>3, <3>1 DEF Startup
    <3>3. rows'[name] = Append(row, receipts) /\ DOMAIN rows' = DOMAIN rows
      BY <2>1, <3>1, <3>2
    <3>4. IsRow(Append(row, receipts)) /\ Len(Append(row, receipts)) = Len(row) + 1
      BY <2>1, <3>2, AppendRow
    <3>5. Len(rows'[name]) = rev
      BY <3>1, <3>3, <3>4 DEF Extends
    <3>6. faults' = 0 => Goto(p, ok)
      BY <1>3, <3>1
    <3> QED BY <2>1, <3>2, <3>3, <3>4, <3>5, <3>6
  <2> QED BY <2>2, <2>3
<1> QED BY <1>1, <1>2, <1>4, <1>5 DEF StartupsObserved

LEMMA AnnounceStartupShut ==
    ASSUME ShutInv, TrainInv, NEW p \in Process, AnnounceStartup(p)
    PROVE  ShutInv'
<1>1. pc[p] = "announce startup" /\ UNCHANGED live
  BY DEF AnnounceStartup, At, sessionVars
<1>2. live[p] = Nothing
  BY <1>1 DEF ShutInv, Publishing
<1>3. PICK receipts : Observe(p, Startup(opening[p].job, opening[p].n), 1, receipts, "construct", "unwind")
  BY DEF AnnounceStartup, OpeningRow
<1>4. /\ StartupsObserved(p, opening[p].job, opening[p].n, 1, "construct") /\ FaultsCounted
      /\ \E label \in {"construct", "unwind"} : Goto(p, label)
  BY <1>3, StartupObserved
<1>5. PICK label \in {"construct", "unwind"} : Goto(p, label)
  BY <1>4
<1>6. Beside(p) /\ pc'[p] = label /\ live'[p] = Nothing
  BY <1>1, <1>2, <1>5 DEF Goto, Beside, TrainInv, Tables
<1>7. Unannounced(p)'
  BY <1>5, <1>6 DEF Unannounced
<1>8. \A j \in Job, n \in 1..MaxCalls :
         /\ Len(rows'[Startup(j, n)]) = 2 => Len(rows[Startup(j, n)]) = 2
         /\ ~Holds(p, j, n)
  BY <1>2, <1>4 DEF StartupsObserved, Holds
<1> QED BY <1>4, <1>6, <1>7, <1>8, ShutStep DEF StartupsObserved

LEMMA PublishStartupShut ==
    ASSUME NothingIsApart, ShutInv, TrainInv, NEW p \in Process, PublishStartup(p)
    PROVE  ShutInv'
<1>0. PICK o : o = opening[p]
  OBVIOUS
<1> DEFINE l == [job |-> o.job, n |-> o.n, weights |-> <<>>, up |-> TRUE, asked |-> Nothing, closing |-> Nothing]
<1>1. pc[p] = "publish startup"
  BY DEF PublishStartup, At
<1>2. live[p] = Nothing /\ Tables
  BY <1>1 DEF ShutInv, Publishing, TrainInv
<1>3. PICK receipts : Observe(p, Startup(o.job, o.n), 2, receipts, "restore", "unwind")
  BY <1>0 DEF PublishStartup, OpeningRow
<1>4. /\ StartupsObserved(p, o.job, o.n, 2, "restore") /\ FaultsCounted
      /\ \E label \in {"restore", "unwind"} : Goto(p, label)
  BY <1>3, StartupObserved
<1>5. PICK label \in {"restore", "unwind"} : Goto(p, label)
  BY <1>4
<1>6. pc'[p] = label /\ \A q \in Process \ {p} : pc'[q] = pc[q]
  BY <1>2, <1>5 DEF Goto, Tables
<1>7. IF label = "restore" THEN live' = [live EXCEPT ![p] = l] ELSE live' = live
  BY <1>0, <1>6 DEF PublishStartup, sessionVars
<1>8. Beside(p) /\ (label = "restore" => live'[p] = l) /\ (label # "restore" => live'[p] = Nothing)
  BY <1>2, <1>6, <1>7 DEF Beside, Tables
<1>9. l # Nothing /\ l.job = o.job /\ l.n = o.n
  BY DEF NothingIsApart
<1> HIDE DEF l
<1>10. label = "restore" => Holds(p, o.job, o.n)'
  BY <1>8, <1>9 DEF Holds, Session
<1>11. pc'[p] \notin Publishing /\ Unannounced(p)'
  BY <1>5, <1>6 DEF Unannounced, Publishing
<1>12. ASSUME faults' = 0, NEW j \in Job, NEW n \in 1..MaxCalls, Len(rows'[Startup(j, n)]) = 2, Len(rows[Startup(j, n)]) # 2
       PROVE  Holds(p, j, n)'
  BY <1>4, <1>12, <1>2, <1>6, <1>10 DEF StartupsObserved, Goto, Tables
<1>13. \A j \in Job, n \in 1..MaxCalls : ~Holds(p, j, n)
  BY <1>2 DEF Holds
<1>14. faults' = 0 => \A j \in Job, n \in 1..MaxCalls :
            /\ Len(rows'[Startup(j, n)]) = 2 => Len(rows[Startup(j, n)]) = 2 \/ Holds(p, j, n)'
            /\ Holds(p, j, n) => Holds(p, j, n)' \/ Closed(j, n)' \/ KeyTaken(j, n)'
  BY <1>12, <1>13
<1> QED BY <1>4, <1>8, <1>11, <1>14, ShutStep DEF StartupsObserved

ShutdownAllowed(row, rev, receipts) ==
    Extends(row, rev, receipts) => ShutdownRowStep(row, Append(row, receipts))

\* What becomes of the rows when revision rev of a shutdown row is observed.
LEMMA ShutdownObserved ==
    ASSUME ShutInv, NEW p, NEW c \in Closes, NEW k, NEW rev, NEW receipts, NEW ok, NEW bad,
           k \in Job => ShutdownAllowed(rows[Row(c, k)], rev, receipts),
           Observe(p, Row(c, k), rev, receipts, ok, bad)
    PROVE  /\ FaultsCounted /\ \E label \in {ok, bad} : Goto(p, label)
           /\ \A close \in Closes, j \in Job :
                 /\ Row(close, j) \in DOMAIN rows'
                 /\ ShutdownRowStep(rows[Row(close, j)], rows'[Row(close, j)])
           /\ \A j \in Job, n \in 1..MaxCalls :
                 Startup(j, n) \in DOMAIN rows' /\ rows'[Startup(j, n)] = rows[Startup(j, n)]
           /\ \/ /\ Goto(p, ok)
                 /\ \/ Recorded(rows[Row(c, k)], rev, receipts) /\ UNCHANGED rows
                    \/ /\ Extends(rows[Row(c, k)], rev, receipts)
                       /\ rows' = [rows EXCEPT ![Row(c, k)] = Append(@, receipts)]
              \/ /\ Goto(p, bad)
                 /\ faults' = 0 => /\ ~Recorded(rows[Row(c, k)], rev, receipts)
                                    /\ ~Extends(rows[Row(c, k)], rev, receipts)
                                    /\ UNCHANGED rows
<1> DEFINE name == Row(c, k)
           row == rows[name]
<1>1. /\ UNCHANGED rows \/ (Extends(row, rev, receipts) /\ rows' = [rows EXCEPT ![name] = Append(@, receipts)])
      /\ \E label \in {ok, bad} : Goto(p, label)
      /\ faults' = faults \/ faults' = faults + 1
  BY DEF Observe, Call
<1>2. faults \in Nat /\ FaultsCounted
  BY <1>1, FaultsCount DEF ShutInv
<1>3. ASSUME NEW close \in Closes, NEW j \in Job
      PROVE  /\ Row(close, j) \in DOMAIN rows'
             /\ ShutdownRowStep(rows[Row(close, j)], rows'[Row(close, j)])
  BY <1>1 DEF ShutInv, SessionRows, ShutdownRowStep, Row, ShutdownAllowed
<1>4. \A j \in Job, n \in 1..MaxCalls :
         Startup(j, n) \in DOMAIN rows' /\ rows'[Startup(j, n)] = rows[Startup(j, n)]
  BY <1>1 DEF Startup, Row, Closes, ShutInv, SessionRows
<1>5. \/ /\ Goto(p, ok)
         /\ \/ Recorded(row, rev, receipts) /\ UNCHANGED rows
            \/ Extends(row, rev, receipts) /\ rows' = [rows EXCEPT ![name] = Append(@, receipts)]
      \/ /\ Goto(p, bad)
         /\ faults' = 0 => ~Recorded(row, rev, receipts) /\ ~Extends(row, rev, receipts) /\ UNCHANGED rows
  BY <1>2 DEF Observe, Call
<1> QED BY <1>1, <1>2, <1>3, <1>4, <1>5

LEMMA AnnounceShutdownShut ==
    ASSUME NothingIsApart, ShutInv, TrainInv, NEW p \in Process, AnnounceShutdown(p)
    PROVE  ShutInv'
<1>0. PICK c, k, s : c = live[p].closing /\ k = live[p].job /\ s = Session(p)
  OBVIOUS
<1>1. pc[p] = "announce shutdown" /\ UNCHANGED live /\ IsLive(live[p]) /\ c \in Closes /\ Tables
  BY <1>0, SessionAt DEF AnnounceShutdown, At, Shutting, sessionVars
<1>2. Observe(p, Row(c, k), 1, AnnouncedFor(s), "shut", "shut unannounced")
  BY <1>0 DEF AnnounceShutdown, ShutdownRow, AnnouncedFor
<1>3. ASSUME k \in Job, Extends(rows[Row(c, k)], 1, AnnouncedFor(s))
      PROVE  ShutdownRowStep(rows[Row(c, k)], Append(rows[Row(c, k)], AnnouncedFor(s)))
  <2>1. PICK t : IsShutdown(rows[Row(c, k)], t)
    BY <1>1, <1>3 DEF ShutInv, SessionRows
  <2>2. rows[Row(c, k)] = <<>>
    BY <1>3, <2>1 DEF Extends, IsShutdown
  <2> QED BY <2>2 DEF ShutdownRowStep
<1>4. /\ FaultsCounted /\ \E label \in {"shut", "shut unannounced"} : Goto(p, label)
      /\ \A close \in Closes, j \in Job :
            /\ Row(close, j) \in DOMAIN rows'
            /\ ShutdownRowStep(rows[Row(close, j)], rows'[Row(close, j)])
      /\ \A j \in Job, n \in 1..MaxCalls :
            Startup(j, n) \in DOMAIN rows' /\ rows'[Startup(j, n)] = rows[Startup(j, n)]
      /\ \/ Goto(p, "shut")
         \/ faults' = 0 => /\ ~Recorded(rows[Row(c, k)], 1, AnnouncedFor(s))
                            /\ ~Extends(rows[Row(c, k)], 1, AnnouncedFor(s))
                            /\ UNCHANGED rows
  BY <1>1, <1>2, <1>3, ShutdownObserved DEF ShutdownAllowed
<1>5. PICK label : (label = "shut" \/ label = "shut unannounced") /\ Goto(p, label)
  BY <1>4
<1>6. Beside(p) /\ pc'[p] = label /\ live'[p] = live[p]
  BY <1>1, <1>5 DEF Goto, Beside, Tables
<1>7. ASSUME faults' = 0, pc'[p] = "shut unannounced", NEW j \in Job, NEW n \in 1..MaxCalls, s = <<j, n>>
      PROVE  KeyTaken(j, n)'
  <2>1. k = j
    <3>1. <<k, live[p].n>> = <<j, n>>
      BY <1>0, <1>7 DEF Session
    <3> QED BY <3>1
  <2>2. ~Goto(p, "shut")
    BY <1>1, <1>7 DEF Goto, Tables
  <2>3. /\ ~Recorded(rows[Row(c, j)], 1, AnnouncedFor(s)) /\ ~Extends(rows[Row(c, j)], 1, AnnouncedFor(s))
        /\ UNCHANGED rows
    BY <1>4, <1>7, <2>1, <2>2
  <2>4. PICK t : IsShutdown(rows[Row(c, j)], t)
    BY <1>1 DEF ShutInv, SessionRows
  <2>5. rows[Row(c, j)] # <<>>
    BY <2>3 DEF Extends
  <2>6. t # s /\ Newest(Row(c, j)) \in {AnnouncedFor(t), ShutdownOf(t)}
    BY <2>3, <2>4, <2>5 DEF Recorded, IsShutdown, Newest
  <2>7. Receipt("startup", s) \notin Newest(Row(c, j))
    BY <2>6 DEF AnnouncedFor, ShutdownOf, Receipt
  <2>8. KeyTaken(j, n)
    BY <1>1, <1>7, <2>5, <2>7 DEF KeyTaken
  <2> QED BY <2>3, <2>8 DEF KeyTaken, Newest
<1>8. faults' = 0 => Unannounced(p)'
  BY <1>0, <1>6, <1>7 DEF Session, Unannounced
<1>9. \A j \in Job, n \in 1..MaxCalls : Holds(p, j, n) => Holds(p, j, n)'
  BY <1>6 DEF Holds, Session
<1>10. pc'[p] \notin Publishing
  BY <1>5, <1>6 DEF Publishing
<1>11. \A j \in Job, n \in 1..MaxCalls : IsRow(rows'[Startup(j, n)])
  BY <1>4 DEF ShutInv, SessionRows
<1> QED BY <1>4, <1>6, <1>8, <1>9, <1>10, <1>11, ShutStep

LEMMA ShutShut ==
    ASSUME NothingIsApart, ShutInv, TrainInv, NEW p \in Process, Shut(p)
    PROVE  ShutInv'
<1> DEFINE l == [live[p] EXCEPT !.up = FALSE]
<1>1. pc[p] \in Shutting /\ IsLive(live[p]) /\ Tables /\ RowsAside /\ FaultsCounted
  BY SessionAt, AsideKept, FaultsCount DEF Shut, Shutting
<1>2. SameSession(live[p], l) /\ Aside("publish shutdown") /\ Aside(Failed(me[p].then))
  BY <1>1, ChangedSession, AsidePlaces DEF Failed, Aside, Publishing
<1>3. \/ \E label \in {"publish shutdown", Failed(me[p].then)} : live' = [live EXCEPT ![p] = l] /\ Goto(p, label)
      \/ /\ pc[p] = "shut unannounced" /\ UNCHANGED <<rows, faults>>
         /\ live' = [live EXCEPT ![p] = Nothing] /\ Goto(p, Failed(me[p].then))
  BY DEF Shut, At
<1> HIDE DEF l
<1>4. CASE \E label \in {"publish shutdown", Failed(me[p].then)} : live' = [live EXCEPT ![p] = l] /\ Goto(p, label)
  BY <1>1, <1>2, <1>4, ShutChanges
<1>5. CASE /\ pc[p] = "shut unannounced" /\ UNCHANGED <<rows, faults>>
           /\ live' = [live EXCEPT ![p] = Nothing] /\ Goto(p, Failed(me[p].then))
  <2>1. PICK label : label = Failed(me[p].then) /\ Aside(label)
    BY <1>2
  <2>2. Beside(p) /\ pc'[p] = label /\ live'[p] = Nothing
    BY <1>1, <1>5, <2>1 DEF Goto, Beside, Tables
  <2>3. ASSUME faults' = 0, NEW j \in Job, NEW n \in 1..MaxCalls, Holds(p, j, n)
        PROVE  KeyTaken(j, n)'
    BY <1>5, <2>3 DEF ShutInv, Unannounced, Holds, KeyTaken, Newest
  <2>4. Unannounced(p)' /\ pc'[p] \notin Publishing
    BY <2>1, <2>2 DEF Unannounced, Aside
  <2>5. \A close \in Closes, j \in Job :
           /\ Row(close, j) \in DOMAIN rows'
           /\ ShutdownRowStep(rows[Row(close, j)], rows'[Row(close, j)])
    BY <1>1 DEF RowsAside, ShutdownRowStep
  <2>6. \A j \in Job, n \in 1..MaxCalls :
           /\ Startup(j, n) \in DOMAIN rows' /\ IsRow(rows'[Startup(j, n)])
           /\ rows'[Startup(j, n)] = rows[Startup(j, n)]
    BY <1>1 DEF RowsAside, ShutInv, SessionRows
  <2> QED BY <1>1, <2>2, <2>3, <2>4, <2>5, <2>6, ShutStep
<1> QED BY <1>3, <1>4, <1>5

LEMMA AppendPair ==
    ASSUME NEW a, NEW b
    PROVE  Append(<<a>>, b) = <<a, b>>
<1>1. PICK S : S = {a, b}
  OBVIOUS
<1>2. <<a>> \in Seq(S) /\ <<a, b>> \in Seq(S) /\ b \in S
  BY <1>1
<1>3. Append(<<a>>, b) \in Seq(S) /\ Len(Append(<<a>>, b)) = 2 /\ Append(<<a>>, b)[1] = a /\ Append(<<a>>, b)[2] = b
  BY <1>2, AppendProperties
<1>4. \A i \in 1..2 : Append(<<a>>, b)[i] = <<a, b>>[i]
  BY <1>3
<1> QED BY <1>2, <1>3, <1>4, SeqEqual

LEMMA PublishShutdownShut ==
    ASSUME NothingIsApart, ShutInv, TrainInv, NEW p \in Process, PublishShutdown(p)
    PROVE  ShutInv'
<1>0. PICK c, k, s : c = live[p].closing /\ k = live[p].job /\ s = Session(p)
  OBVIOUS
<1>1. IsLive(live[p]) /\ c \in Closes /\ Tables
  BY <1>0, SessionAt DEF PublishShutdown, At, Shutting
<1>2. PICK bad : bad = Failed(me[p].then) /\ (bad = "unwind" \/ bad = "idle")
  BY DEF Failed
<1>3. Observe(p, Row(c, k), 2, ShutdownOf(s), "closed", bad)
  BY <1>0, <1>2 DEF PublishShutdown, ShutdownRow, ShutdownOf
<1>4. ASSUME k \in Job, Extends(rows[Row(c, k)], 2, ShutdownOf(s))
      PROVE  rows[Row(c, k)] = <<AnnouncedFor(s)>>
  <2>1. PICK t : IsShutdown(rows[Row(c, k)], t)
    BY <1>1, <1>4 DEF ShutInv, SessionRows
  <2>2. rows[Row(c, k)] = <<AnnouncedFor(t)>> /\ AnnouncedFor(t) \subseteq ShutdownOf(s)
    BY <1>4, <2>1 DEF Extends, IsShutdown
  <2>3. t = s
    BY <2>2 DEF AnnouncedFor, ShutdownOf, Receipt
  <2> QED BY <2>2, <2>3
<1>5. k \in Job => ShutdownAllowed(rows[Row(c, k)], 2, ShutdownOf(s))
  <2> SUFFICES ASSUME k \in Job, Extends(rows[Row(c, k)], 2, ShutdownOf(s))
               PROVE  ShutdownRowStep(rows[Row(c, k)], Append(rows[Row(c, k)], ShutdownOf(s)))
    BY DEF ShutdownAllowed
  <2>1. Append(<<AnnouncedFor(s)>>, ShutdownOf(s)) = <<AnnouncedFor(s), ShutdownOf(s)>>
    BY AppendPair
  <2> QED BY <1>4, <2>1 DEF ShutdownRowStep
<1>6. /\ FaultsCounted
      /\ \A close \in Closes, j \in Job :
            /\ Row(close, j) \in DOMAIN rows'
            /\ ShutdownRowStep(rows[Row(close, j)], rows'[Row(close, j)])
      /\ \A j \in Job, n \in 1..MaxCalls :
            Startup(j, n) \in DOMAIN rows' /\ rows'[Startup(j, n)] = rows[Startup(j, n)]
      /\ \/ /\ Goto(p, "closed")
            /\ \/ Recorded(rows[Row(c, k)], 2, ShutdownOf(s)) /\ UNCHANGED rows
               \/ /\ Extends(rows[Row(c, k)], 2, ShutdownOf(s))
                  /\ rows' = [rows EXCEPT ![Row(c, k)] = Append(@, ShutdownOf(s))]
         \/ Goto(p, bad)
  BY <1>1, <1>3, <1>5, ShutdownObserved
<1>7. PICK label : (label = "closed" \/ label = bad) /\ Goto(p, label) /\ pc'[p] = label
  BY <1>1, <1>6 DEF Goto, Tables
<1>8. live' = [live EXCEPT ![p] = IF label = "closed" THEN Nothing ELSE @]
  BY <1>7 DEF PublishShutdown
<1>9. Beside(p) /\ live'[p] = IF label = "closed" THEN Nothing ELSE live[p]
  BY <1>1, <1>7, <1>8 DEF Goto, Beside, Tables
<1>10. pc'[p] \notin Publishing /\ Unannounced(p)'
  BY <1>2, <1>7 DEF Publishing, Unannounced
<1>11. ASSUME label = "closed", k \in Job
       PROVE  Receipt("shutdown", s) \in Newest(Row(c, k))'
  <2>1. PICK t : IsShutdown(rows[Row(c, k)], t) /\ Row(c, k) \in DOMAIN rows
    BY <1>1, <1>11 DEF ShutInv, SessionRows
  <2>2. \/ Recorded(rows[Row(c, k)], 2, ShutdownOf(s)) /\ UNCHANGED rows
        \/ /\ Extends(rows[Row(c, k)], 2, ShutdownOf(s))
           /\ rows' = [rows EXCEPT ![Row(c, k)] = Append(@, ShutdownOf(s))]
    BY <1>1, <1>2, <1>7, <1>11, <1>6 DEF Tables, Goto
  <2>3. \E first : rows'[Row(c, k)] = <<first, ShutdownOf(s)>>
    BY <2>1, <1>4, <1>11, <2>2, AppendPair DEF IsShutdown, Recorded
  <2>4. PICK first : rows'[Row(c, k)] = <<first, ShutdownOf(s)>>
    BY <2>3
  <2>5. Newest(Row(c, k))' = ShutdownOf(s)
    BY <2>4 DEF Newest
  <2> QED BY <2>5 DEF ShutdownOf
<1>12. ASSUME NEW j \in Job, NEW n \in 1..MaxCalls, Holds(p, j, n)
       PROVE  Holds(p, j, n)' \/ Closed(j, n)'
  BY <1>0, <1>12, <1>1, <1>11, <1>9 DEF Holds, Session, Closed
<1>13. \A j \in Job, n \in 1..MaxCalls :
          IsRow(rows'[Startup(j, n)]) /\ Len(rows'[Startup(j, n)]) = Len(rows[Startup(j, n)])
  BY <1>6 DEF ShutInv, SessionRows
<1> QED BY <1>6, <1>9, <1>10, <1>12, <1>13, ShutStep

LEMMA CrashShut ==
    ASSUME ShutInv, TrainInv, NEW p \in Process, Crash(p)
    PROVE  ShutInv'
  BY AsideKept, FaultsCount, ShutStep DEF Crash, TrainInv, Goto, Beside, Tables, ShutInv,
     RowsAside, ShutdownRowStep, SessionRows

LEMMA ShutInitial ==
    ASSUME Init
    PROVE  ShutInv
<1>1. \A r \in Rows : r \in DOMAIN rows /\ rows[r] = <<>>
  BY DEF Init
<1>2. \A close \in Closes, j \in Job : Row(close, j) \in Rows
  BY DEF Rows
<1>3. \A j \in Job, n \in 1..MaxCalls : Startup(j, n) \in Rows
  BY DEF Rows
<1>4. \A close \in Closes, j \in Job : Row(close, j) \in DOMAIN rows /\ rows[Row(close, j)] = <<>>
  BY <1>1, <1>2
<1>5. \A j \in Job, n \in 1..MaxCalls : Startup(j, n) \in DOMAIN rows /\ rows[Startup(j, n)] = <<>>
  BY <1>1, <1>3
<1>6. SessionRows
  <2>1. IsRow(<<>>) /\ \A s : IsShutdown(<<>>, s)
    BY DEF IsRow, IsShutdown
  <2> QED BY <1>4, <1>5, <2>1 DEF SessionRows
<1>7. faults \in Nat /\ \A p \in Process : pc[p] = "idle" /\ live[p] = Nothing
  BY DEF Init
<1>8. ShutdownRecordedOrRefused
  <2>1. Len(<<>>) # 2
    OBVIOUS
  <2>2. \A j \in Job, n \in 1..MaxCalls : Len(rows[Startup(j, n)]) # 2
    BY <1>5, <2>1
  <2> QED BY <2>2 DEF ShutdownRecordedOrRefused
<1>9. \A p \in Process : Unannounced(p)
  BY <1>7 DEF Unannounced
<1> QED BY <1>6, <1>7, <1>8, <1>9 DEF ShutInv

LEMMA ShutStays ==
    ASSUME NothingIsApart, ShutInv, TrainInv, [Next]_vars
    PROVE  ShutInv'
<1>1. CASE UNCHANGED vars
  <2>1. UNCHANGED <<rows, pc, faults, live>>
    BY <1>1 DEF vars, ledgerVars, sessionVars
  <2>2. \A j, n : (Closed(j, n)' <=> Closed(j, n)) /\ (KeyTaken(j, n)' <=> KeyTaken(j, n))
    BY <2>1 DEF Closed, KeyTaken, Newest
  <2>3. \A p : Session(p)' = Session(p)
    BY <2>1 DEF Session
  <2>4. SessionRows' /\ \A p \in Process : pc'[p] \in Publishing => live'[p] = Nothing
    BY <2>1 DEF ShutInv, SessionRows
  <2>5. ShutdownRecordedOrRefused'
    BY <2>1, <2>2, <2>3 DEF ShutInv, ShutdownRecordedOrRefused
  <2>6. faults' = 0 => \A p \in Process : Unannounced(p)'
    BY <2>1, <2>2, <2>3 DEF ShutInv, Unannounced
  <2> QED BY <2>1, <2>4, <2>5, <2>6 DEF ShutInv
<1>2. CASE Next
  <2> SUFFICES ASSUME NEW p \in Process,
                      \/ \E j \in Job : \E c \in {Nothing} \cup UNION {Checkpoints(k) : k \in Job \ {j}} : Train(p, j, c)
                      \/ Step(p)
               PROVE  ShutInv'
    BY <1>2 DEF Next
  <2>1. CASE \E j \in Job : \E c \in {Nothing} \cup UNION {Checkpoints(k) : k \in Job \ {j}} : Train(p, j, c)
    BY <2>1, TrainShut
  <2>2. CASE ShutMoving(p)
    BY <2>2, ShutMoves
  <2>3. CASE ShutObserving(p)
    BY <2>3, ShutObserves
  <2>4. CASE Open(p) \/ AnnounceStartup(p) \/ Construct(p) \/ PublishStartup(p)
    BY <2>4, OpenShut, AnnounceStartupShut, ConstructShut, PublishStartupShut
  <2>5. CASE Restore(p) \/ DispatchUpdate(p)
    BY <2>5, RestoreShut, DispatchShut
  <2>6. CASE Close(p) \/ AnnounceShutdown(p) \/ Shut(p) \/ PublishShutdown(p) \/ Crash(p)
    BY <2>6, CloseShut, AnnounceShutdownShut, ShutShut, PublishShutdownShut, CrashShut
  <2> QED BY <2>1, <2>2, <2>3, <2>4, <2>5, <2>6 DEF Step, ShutMoving, ShutObserving
<1> QED BY <1>1, <1>2

\* Where nothing fails or dies, a session that was announced has its shutdown on record, or is
\* held by a process, or another session of its job was closed under the key it was to be closed
\* under (training/service.py, _close_live).
THEOREM ShutdownsStayRecorded == ASSUME NothingIsApart PROVE Spec => []ShutdownRecordedOrRefused
<1>1. Init => ShutInv
  BY ShutInitial
<1>2. ShutInv /\ TrainInv /\ [Next]_vars => ShutInv'
  BY ShutStays
<1>3. ShutInv => ShutdownRecordedOrRefused
  BY DEF ShutInv
<1> QED BY <1>1, <1>2, <1>3, TrainInvariant, PTL DEF Spec
-----------------------------------------------------------------------------
(* Checkpoints.                                                            *)

\* The weights a session is to have, by the journal s.
Weights(s) == IF s.native = Nothing THEN <<>> ELSE s.native

\* w is of u updates, each confirmed and there once.
Confirmed(w, u) ==
    /\ w \in Seq(Rows) /\ Len(w) = u
    /\ \A k \in DOMAIN w : \E j \in Job, i \in Indices : w[k] = Update(j, i) /\ Len(rows[Update(j, i)]) >= 2
    /\ \A k, m \in DOMAIN w : w[k] = w[m] => k = m

\* The journal s of j: its weights, its own checkpoint, which is of where it is, its outcome.
JournalStands(s, j) ==
    /\ Confirmed(Weights(s), s.updates)
    /\ \A k \in DOMAIN Weights(s) : \A i \in Indices : Weights(s)[k] = Update(j, i) => i < Spent(s)
    /\ Spent(s) <= MaxUpdates
    /\ s.checkpoint # Nothing /\ s.checkpoint.job = j =>
          /\ s.nonzero /\ s.checkpoint \in Checkpoints(j)
          /\ s.checkpoint.updates = s.updates /\ s.checkpoint.unknown = s.unknown
    /\ s.outcome # Nothing => s.phase \in {"finalizing", "frozen"}
    /\ s.outcome = "SUCCESS" => s.checkpoint # Nothing /\ s.checkpoint.job = j /\ Spent(s) = MaxUpdates

CheckpointStands(c, j) ==
    /\ c.job = j /\ Confirmed(c.native, c.updates)
    /\ c.updates \in Nat /\ c.unknown \in Nat /\ Spent(c) <= MaxUpdates

\* A row of an update; a checkpoint is of its third revision, the last.
RowStands(j, i) ==
    /\ Len(rows[Update(j, i)]) <= 3
    /\ rows[Update(j, i)] # <<>> => Present(j)
    /\ \A r \in Newest(Update(j, i)) :
          r[1] = "checkpoint" => Len(rows[Update(j, i)]) = 3 /\ CheckpointStands(r[2], j)

ResumesWell(j) ==
    Claimed(j) /\ j \notin First => job[j].resume.job # j /\ job[j].resume \in Checkpoints(job[j].resume.job)

ResultStands(j) ==
    job[j].state = "completed" /\ job[j].result.disposition = "SUCCESS" =>
        LET c == job[j].result.checkpoint IN c \in Checkpoints(j) /\ Spent(c) = MaxUpdates

\* No update was given to a session of the journal s.
Untrained(s) == s.phase \in {"initializing", "collecting"} /\ s.native = Nothing

SessionStands(l) ==
    l # Nothing => /\ l.job \in Job /\ Present(l.job) /\ l.weights \in Seq(Rows)
                   /\ Untrained(journal[l.job]) => l.weights = <<>>
IsOpening(o) == DOMAIN o = {"job", "n", "state"}

\* A call at these places goes on; at the others of Driving it ends.
Working == Driving \ {"finish", "freeze", "complete"}
Loaded == {"collecting", "loop"} \cup Gathering \cup Ready

\* What p holds is of its job.
Owned(place, m, l, o) ==
    /\ place \in Working => /\ l = Nothing \/ l.job = m.job
                            /\ o = Nothing \/ o.job = m.job
                            /\ m.outcome # "SUCCESS"
    /\ place \in Publishing => IsOpening(o) /\ o.job = m.job

\* The checkpoint of a call m at the journal s, in the session l.
Taken(m, s, l) ==
    [job |-> m.job, updates |-> s.updates + 1, unknown |-> s.unknown, nonzero |-> m.nonzero,
     native |-> l.weights, position |-> s.position, groups |-> s.groups]

\* What a call m knows at a place of its journal s, its session l and the row of its update.
Follows(place, m, l, s) ==
    LET row == Update(m.job, Spent(s))
    IN  /\ place = "finish" /\ m.outcome = "SUCCESS" => Spent(s) >= MaxUpdates
        /\ place \in Loaded => l.weights = Weights(s)
        /\ place \in Dispatched => /\ l.weights = Append(Weights(s), row)
                                   /\ s.nonzero => m.nonzero
        /\ place \in {"checkpoint", "updated"} => Len(rows[row]) >= 2
        /\ place = "checkpoint" => m.nonzero
        /\ place = "updated" /\ m.nonzero => Receipt("checkpoint", Taken(m, s, l)) \in Newest(row)

\* What concerns no process, and what concerns one.
Standing ==
    /\ \A j \in Job : JournalStands(journal[j], j) /\ ResumesWell(j) /\ ResultStands(j)
    /\ \A j \in Job, i \in Indices : RowStands(j, i)
CallStands(place, m, l, o) ==
    /\ SessionStands(l)
    /\ o = Nothing \/ IsOpening(o)
    /\ Owned(place, m, l, o)
    /\ Follows(place, m, l, journal[m.job])

StandInv ==
    /\ Standing
    /\ DOMAIN opening = Process
    /\ \A p \in Process : CallStands(pc[p], me[p], live[p], opening[p])

LEMMA InitialStands ==
    ASSUME Init
    PROVE  StandInv
<1>1. /\ \A j \in Job : journal[j] = Absent /\ job[j].state = "absent"
      /\ \A p \in Process : pc[p] = "idle" /\ me[p] = Idle /\ live[p] = Nothing /\ opening[p] = Nothing
      /\ DOMAIN opening = Process
  BY DEF Init
<1>2. \A j \in Job, i \in Indices : rows[Update(j, i)] = <<>>
  <2> SUFFICES ASSUME NEW j \in Job, NEW i \in Indices PROVE rows[Update(j, i)] = <<>>
    OBVIOUS
  <2>1. Update(j, i) \in Rows
    BY DEF Rows
  <2> QED BY <2>1 DEF Init
<1>3. \A j \in Job : JournalStands(Absent, j)
  BY UpdateAssumption, NothingAssumption DEF Absent, Fresh, Weights, Spent, Confirmed, JournalStands
<1>4. \A j \in Job, i \in Indices : RowStands(j, i)
  BY <1>2 DEF RowStands, Newest
<1>5. \A j \in Job : ResumesWell(j) /\ ResultStands(j)
  BY <1>1 DEF ResumesWell, ResultStands, Claimed
<1>6. \A m, l, o, s : Owned("idle", m, l, o) /\ Follows("idle", m, l, s)
  BY DEF Owned, Follows, Working, Loaded, Driving, Starting, Updating, Gathering, Taking, Ready, Dispatched, Publishing
<1>7. SessionStands(Nothing)
  BY DEF SessionStands
<1> QED BY <1>1, <1>3, <1>4, <1>5, <1>6, <1>7 DEF StandInv, Standing, CallStands

\* The rows of updates are left alone, or get another of their three revisions.
RowGrowth(row, next) == next = row \/ (Len(next) = Len(row) + 1 /\ Len(next) <= 3)
RowsGrow ==
    \A j \in Job, i \in Indices : RowGrowth(rows[Update(j, i)], rows'[Update(j, i)])

LEMMA ConfirmedStays ==
    ASSUME Tables, RowsGrow, NEW w, NEW u, Confirmed(w, u)
    PROVE  Confirmed(w, u)'
<1>1. ASSUME NEW j \in Job, NEW i \in Indices, Len(rows[Update(j, i)]) >= 2
      PROVE  Len(rows'[Update(j, i)]) >= 2
  <2>1. PICK S : rows[Update(j, i)] \in Seq(S)
    BY DEF Tables, Recording, IsRow
  <2>2. Len(rows[Update(j, i)]) \in Nat
    BY <2>1
  <2> QED BY <1>1, <2>2 DEF RowsGrow, RowGrowth
<1> QED BY <1>1 DEF Confirmed

LEMMA CheckpointsStay ==
    ASSUME Tables, RowsGrow, \A j \in Job, i \in Indices : RowStands(j, i), NEW j \in Job, NEW c \in Checkpoints(j)
    PROVE  c \in Checkpoints(j)'
<1>1. PICK i \in Indices : \E r \in Newest(Update(j, i)) : r[1] = "checkpoint" /\ r[2] = c
  BY DEF Checkpoints
<1>2. PICK r \in Newest(Update(j, i)) : r[1] = "checkpoint" /\ r[2] = c
  BY <1>1
<1>3. Len(rows[Update(j, i)]) = 3
  BY <1>2 DEF RowStands
<1>4. rows'[Update(j, i)] = rows[Update(j, i)]
  <2>1. PICK n, next : n = Len(next) /\ next = rows'[Update(j, i)]
    OBVIOUS
  <2>2. next = rows[Update(j, i)] \/ (n = 3 + 1 /\ n <= 3)
    BY <1>3, <2>1 DEF RowsGrow, RowGrowth
  <2>3. ~(3 + 1 <= 3)
    OBVIOUS
  <2>4. n # 3 + 1 \/ ~(n <= 3)
    BY <2>3
  <2> QED BY <2>1, <2>2, <2>4
<1>5. r \in Newest(Update(j, i))'
  BY <1>4 DEF Newest
<1> QED BY <1>2, <1>5 DEF Checkpoints

LEMMA JournalStays ==
    ASSUME Tables, RowsGrow, \A j \in Job, i \in Indices : RowStands(j, i),
           NEW s, NEW j \in Job, JournalStands(s, j)
    PROVE  JournalStands(s, j)'
<1>1. PICK w : w = Weights(s)
  OBVIOUS
<1>2. PICK u : u = s.updates
  OBVIOUS
<1>3. Confirmed(w, u)'
  BY <1>1, <1>2, ConfirmedStays DEF JournalStands
<1>4. s.checkpoint \in Checkpoints(j) => s.checkpoint \in Checkpoints(j)'
  BY CheckpointsStay
<1> QED BY <1>1, <1>2, <1>3, <1>4 DEF JournalStands

LEMMA CheckpointStays ==
    ASSUME Tables, RowsGrow, NEW c, NEW j, CheckpointStands(c, j)
    PROVE  CheckpointStands(c, j)'
<1>1. PICK w, u : w = c.native /\ u = c.updates
  OBVIOUS
<1>2. Confirmed(w, u)'
  BY <1>1, ConfirmedStays DEF CheckpointStands
<1> QED BY <1>1, <1>2 DEF CheckpointStands
-----------------------------------------------------------------------------
(* What a step of p leaves as it was.                                      *)

\* At p, the next of f is v.
Changed(f, next, p, v) == (next = f /\ v = f[p]) \/ next = [f EXCEPT ![p] = v]

\* p went on, and the others are where they were.
Went(p, label, m, l, o) ==
    /\ pc'[p] = label /\ me'[p] = m /\ live'[p] = l /\ opening'[p] = o
    /\ DOMAIN opening' = Process
    /\ \A q \in Process \ {p} : pc'[q] = pc[q] /\ me'[q] = me[q] /\ live'[q] = live[q] /\ opening'[q] = opening[q]

LEMMA Goes ==
    ASSUME Tables, DOMAIN opening = Process, NEW p \in Process, NEW label, NEW m, NEW l, NEW o,
           Goto(p, label), Changed(me, me', p, m), Changed(live, live', p, l), Changed(opening, opening', p, o)
    PROVE  Went(p, label, m, l, o)
  BY DEF Goto, Tables, Changed, Went

LEMMA Unworking ==
    ASSUME NEW place, place \notin Driving
    PROVE  \A m, l, o, s : Owned(place, m, l, o) /\ Follows(place, m, l, s)
<1>1. place \notin Working /\ place \notin Loaded /\ place \notin Dispatched /\ place \notin Publishing
      /\ place \notin {"finish", "checkpoint", "updated"}
  BY DEF Working, Loaded, Driving, Starting, Updating, Gathering, Taking, Ready, Dispatched, Publishing
<1> QED BY <1>1 DEF Owned, Follows

\* Follows depends on no state but the row it names.
LEMMA FollowsStays ==
    ASSUME NEW place, NEW m, NEW l, NEW s, Follows(place, m, l, s),
           place \in {"checkpoint", "updated"} => rows'[Update(m.job, Spent(s))] = rows[Update(m.job, Spent(s))]
    PROVE  Follows(place, m, l, s)'
  BY DEF Newest, Follows

\* The row that a call knows of is one of those that are kept.
LEMMA FollowedRow ==
    ASSUME TrainInv, RowsKept, NEW q \in Process, pc[q] \in {"checkpoint", "updated"}
    PROVE  LET row == Update(Mine(q), Spent(State(q))) IN rows'[row] = rows[row]
  BY WithinBudget DEF Updating, Dispatched, RowsKept

LEMMA KeptRowsGrow ==
    ASSUME RowsKept
    PROVE  RowsGrow
  BY DEF RowsKept, RowsGrow, RowGrowth

LEMMA RowStays ==
    ASSUME Tables, NEW j \in Job, NEW i \in Indices, RowStands(j, i), RowsGrow,
           rows'[Update(j, i)] = rows[Update(j, i)], Present(j) => Present(j)'
    PROVE  RowStands(j, i)'
  BY CheckpointStays DEF Newest, RowStands

\* No lineage changes, no journal, and no row of an update.
LEMMA StandingStays ==
    ASSUME TrainInv, Standing, UNCHANGED <<job, journal>>, RowsKept
    PROVE  Standing'
<1>0. Tables /\ RowsGrow
  BY KeptRowsGrow DEF TrainInv
<1>2. ASSUME NEW j \in Job PROVE JournalStands(journal[j], j)'
  <2>1. PICK s : s = journal[j]
    OBVIOUS
  <2>2. JournalStands(s, j)'
    BY <1>0, <1>2, <2>1, JournalStays DEF Standing
  <2> QED BY <2>1, <2>2
<1>3. ASSUME NEW j \in Job PROVE Checkpoints(j)' = Checkpoints(j)
  BY <1>3 DEF RowsKept, Newest, Checkpoints
<1>4. ASSUME NEW j \in Job PROVE ResumesWell(j)' /\ ResultStands(j)'
  BY <1>4, <1>3 DEF Standing, TrainInv, Lineages, ResumesWell, ResultStands, Claimed
<1>5. \A j \in Job, i \in Indices : RowStands(j, i)'
  BY <1>0, RowStays DEF Standing, RowsKept, Present
<1> QED BY <1>2, <1>4, <1>5 DEF Standing

\* A session stays what it is, while no journal goes back to one that was not trained.
NoneUntrained ==
    \A j \in Job : Present(j) => Present(j)' /\ (Untrained(journal'[j]) => Untrained(journal[j]))

LEMMA SessionStays ==
    ASSUME NEW l, SessionStands(l), NoneUntrained
    PROVE  SessionStands(l)'
  BY DEF SessionStands, NoneUntrained

\* A call that is not under way.
LEMMA AsideStands ==
    ASSUME NEW place, NEW m, NEW l, NEW o, CallStands(place, m, l, o), place \notin Driving, NoneUntrained
    PROVE  CallStands(place, m, l, o)'
<1>1. SessionStands(l)'
  BY SessionStays DEF CallStands
<1>2. (Owned(place, m, l, o) /\ Follows(place, m, l, journal[m.job]))'
  <2>1. PICK s : s = journal'[m.job]
    OBVIOUS
  <2>2. place \notin {"checkpoint", "updated"}
    BY DEF Driving, Updating, Dispatched
  <2>3. Follows(place, m, l, s)'
    BY <2>2, Unworking, FollowsStays
  <2> QED BY <2>1, <2>3, Unworking
<1> QED BY <1>1, <1>2 DEF CallStands

LEMMA StandStep ==
    ASSUME StandInv, NEW p \in Process, NEW label, NEW m, NEW l, NEW o, Went(p, label, m, l, o),
           Standing', CallStands(label, m, l, o)',
           \A q \in Process \ {p} : CallStands(pc[q], me[q], live[q], opening[q])'
    PROVE  StandInv'
  BY DEF StandInv, Went

\* A step that changes no job, no journal and no row of an update.
LEMMA StandQuiet ==
    ASSUME TrainInv, StandInv, NEW p \in Process, NEW label, NEW m, NEW l, NEW o, Went(p, label, m, l, o),
           UNCHANGED <<job, journal>>, RowsKept, CallStands(label, m, l, o), label \notin {"checkpoint", "updated"}
    PROVE  StandInv'
<1>1. Standing'
  BY StandingStays DEF StandInv
<1>2. NoneUntrained
  BY DEF NoneUntrained, Untrained, Present
<1>3. CallStands(label, m, l, o)'
  <2>1. PICK s : s = journal[m.job] /\ s = journal'[m.job]
    OBVIOUS
  <2>2. Follows(label, m, l, s)'
    BY <2>1, FollowsStays DEF CallStands
  <2>3. SessionStands(l)'
    BY <1>2, SessionStays DEF CallStands
  <2> QED BY <2>1, <2>2, <2>3 DEF CallStands
<1>4. ASSUME NEW q \in Process \ {p} PROVE CallStands(pc[q], me[q], live[q], opening[q])'
  <2>1. PICK place, n, k, u, s : place = pc[q] /\ n = me[q] /\ k = live[q] /\ u = opening[q] /\ s = journal[n.job]
    OBVIOUS
  <2>2. place = pc'[q] /\ n = me'[q] /\ k = live'[q] /\ u = opening'[q] /\ s = journal'[n.job]
    BY <1>4, <2>1 DEF Went
  <2>3. CallStands(place, n, k, u) /\ Follows(place, n, k, s)
    BY <1>4, <2>1 DEF StandInv, CallStands
  <2>4. place \in {"checkpoint", "updated"} => rows'[Update(n.job, Spent(s))] = rows[Update(n.job, Spent(s))]
    BY <1>4, <2>1, FollowedRow DEF Mine, State
  <2>5. Follows(place, n, k, s)'
    BY <2>3, <2>4, FollowsStays
  <2>6. SessionStands(k)'
    BY <1>2, <2>3, SessionStays DEF CallStands
  <2>7. Owned(place, n, k, u) /\ (u = Nothing \/ IsOpening(u))
    BY <2>3 DEF CallStands
  <2> QED BY <2>2, <2>5, <2>6, <2>7 DEF CallStands
<1> QED BY <1>1, <1>3, <1>4, StandStep
-----------------------------------------------------------------------------
(* Steps that write no journal.                                            *)

LEMMA StandMove ==
    ASSUME TrainInv, StandInv, NEW p \in Process, NEW label, NEW m, NEW l, NEW o, Goto(p, label),
           Changed(me, me', p, m), Changed(live, live', p, l), Changed(opening, opening', p, o),
           UNCHANGED <<job, journal>>, RowsKept, CallStands(label, m, l, o), label \notin {"checkpoint", "updated"}
    PROVE  StandInv'
  BY Goes, StandQuiet DEF TrainInv, StandInv

\* Where nothing is known of the journal.
Resting(label) == label \notin Working \cup {"finish"}

LEMMA Rests ==
    ASSUME NEW label, Resting(label)
    PROVE  \A m, l, o, s : Owned(label, m, l, o) /\ Follows(label, m, l, s)
<1>1. /\ label \notin Working /\ label \notin Loaded /\ label \notin Dispatched /\ label \notin Publishing
      /\ label \notin {"finish", "checkpoint", "updated"}
  BY DEF Resting, Working, Loaded, Driving, Starting, Updating, Gathering, Taking, Ready, Dispatched, Publishing
<1> QED BY <1>1 DEF Owned, Follows

LEMMA RestingPlaces ==
    /\ \A place : place \notin Driving => Resting(place)
    /\ Resting("freeze") /\ Resting("complete") /\ Resting("unwind") /\ Resting("idle") /\ Resting("close")
    /\ Resting("abort") /\ Resting("publish abort") /\ Resting("aborted") /\ Resting("closed")
    /\ Resting("announce shutdown") /\ Resting("shut") /\ Resting("shut unannounced") /\ Resting("publish shutdown")
    /\ ~Resting("checkpoint") /\ ~Resting("updated")
  BY DEF Resting, Working, Driving, Starting, Updating, Gathering, Taking, Ready, Dispatched

LEMMA StandRest ==
    ASSUME TrainInv, StandInv, NEW p \in Process, NEW label, NEW m, NEW l, NEW o, Goto(p, label),
           Changed(me, me', p, m), Changed(live, live', p, l), Changed(opening, opening', p, o),
           UNCHANGED <<job, journal>>, RowsKept, Resting(label), SessionStands(l), o = Nothing \/ IsOpening(o)
    PROVE  StandInv'
  BY Rests, RestingPlaces, StandMove DEF CallStands

\* A call at place may go to label with all that it knows.
Leads(place, label) ==
    /\ label \in Working \cup {"finish"} => place \in Working
    /\ label \in Publishing => place \in Publishing
    /\ label \in Loaded => place \in Loaded
    /\ label \in Dispatched => place \in Dispatched
    /\ label \notin {"checkpoint", "updated"}

LEMMA Led ==
    ASSUME NEW place, NEW label, Leads(place, label), NEW m, NEW l, NEW o, CallStands(place, m, l, o)
    PROVE  CallStands(label, m, l, o)
  BY DEF CallStands, Leads, Owned, Follows

LEMMA StandGoto ==
    ASSUME TrainInv, StandInv, NEW p \in Process, NEW label, Goto(p, label),
           UNCHANGED <<job, journal, me, live, opening>>, RowsKept, Leads(pc[p], label)
    PROVE  StandInv'
  BY Led, StandMove DEF Changed, StandInv, Leads

LEMMA Leading ==
    /\ \A place, label : Resting(label) => Leads(place, label)
    /\ \A place : place \in {"load"} => Leads(place, "begin") /\ Leads(place, "ancestry")
    /\ Leads("ancestry", "supersede")
    /\ Leads("controller", "open") /\ Leads("controller", "finish")
    /\ Leads("open", "restore")
    /\ Leads("announce startup", "construct")
    /\ Leads("loop", "finish") /\ Leads("loop", "collect") /\ Leads("loop", "rows")
    /\ Leads("collect", "batch") /\ Leads("collect", "episode")
    /\ Leads("episode", "classify") /\ Leads("episode", "sampling") /\ Leads("sampling", "classify")
    /\ Leads("intent", "update")
    /\ Leads("save", "confirm")
  BY DEF Leads, Resting, Loaded, Publishing, Working, Driving, Starting, Updating, Gathering, Taking, Ready, Dispatched

LEMMA SameRowsKept ==
    ASSUME TrainInv, UNCHANGED rows
    PROVE  RowsKept
  BY SameRows DEF TrainInv

\* The call was on the registry, about a row that is of no update.
LEMMA LedObserve ==
    ASSUME TrainInv, NEW p, NEW name, NEW n, NEW receipts, NEW ok, NEW bad,
           \A j \in Job, i \in Indices : name # Update(j, i), Observe(p, name, n, receipts, ok, bad),
           Leads(pc[p], ok), Leads(pc[p], bad)
    PROVE  RowsKept /\ \E label : Goto(p, label) /\ Leads(pc[p], label)
  BY ObserveElsewhere DEF TrainInv, Tables

LEMMA OtherRows ==
    \A kind, k, n : kind # "update" => \A j \in Job, i \in Indices : <<kind, k, n>> # Update(j, i)
  BY OtherRow

\* The steps that move a call of train, with all that it knows.
StandMoving(p) ==
    \/ Ancestry(p) \/ Controller(p) \/ AnnounceStartup(p) \/ Episode(p) \/ Sampling(p) \/ SaveReload(p)
    \/ AnnounceShutdown(p) \/ CloseDone(p) \/ AbortDone(p)

LEMMA StandMoves ==
    ASSUME TrainInv, StandInv, NEW p \in Process, StandMoving(p)
    PROVE  StandInv'
<1>1. UNCHANGED <<job, journal, me, live, opening>>
  BY DEF StandMoving, Ancestry, Controller, AnnounceStartup, Episode, Sampling, SaveReload, AnnounceShutdown,
         CloseDone, AbortDone, sessionVars, workVars
<1>2. \A place : Leads(place, "unwind") /\ Leads(place, "idle")
  BY Leading, RestingPlaces
<1>3. RowsKept /\ \E label : Goto(p, label) /\ Leads(pc[p], label)
  <2>1. CASE Ancestry(p)
    <3>1. PICK receipts : Observe(p, Row("ancestry", Mine(p)), 1, receipts, "supersede", "unwind") /\ pc[p] = "ancestry"
      BY <2>1 DEF Ancestry, At
    <3>2. Leads(pc[p], "supersede")
      BY <3>1, Leading
    <3> QED BY <1>2, <3>1, <3>2, LedObserve, OtherRows DEF Row
  <2>2. CASE Controller(p)
    <3>1. PICK ok, receipts : /\ Observe(p, Row("controller", Mine(p)), 1, receipts, ok, "unwind")
                              /\ pc[p] = "controller" /\ (ok = "finish" \/ ok = "open")
      BY <2>2 DEF Controller, At
    <3>2. Leads(pc[p], ok)
      BY <3>1, Leading
    <3>3. \A j \in Job, i \in Indices : Row("controller", Mine(p)) # Update(j, i)
      BY OtherRow DEF Row
    <3>4. Leads(pc[p], "unwind") /\ Observe(p, Row("controller", Mine(p)), 1, receipts, ok, "unwind")
      BY <1>2, <3>1
    <3> QED BY <3>2, <3>3, <3>4, LedObserve
  <2>3. CASE AnnounceStartup(p)
    <3>1. PICK receipts : Observe(p, OpeningRow(p), 1, receipts, "construct", "unwind") /\ pc[p] = "announce startup"
      BY <2>3 DEF AnnounceStartup, At
    <3>2. Leads(pc[p], "construct")
      BY <3>1, Leading
    <3>3. \A j \in Job, i \in Indices : OpeningRow(p) # Update(j, i)
      BY OtherRow DEF OpeningRow, Startup
    <3>4. Leads(pc[p], "unwind") /\ Observe(p, OpeningRow(p), 1, receipts, "construct", "unwind")
      BY <1>2, <3>1
    <3> QED BY <3>2, <3>3, <3>4, LedObserve
  <2>4. CASE Episode(p)
    BY <2>4, <1>2, Leading, SameRowsKept DEF Episode, At
  <2>5. CASE Sampling(p)
    BY <2>5, <1>2, Leading, SameRowsKept DEF Sampling, At
  <2>6. CASE SaveReload(p)
    BY <2>6, <1>2, Leading, SameRowsKept DEF SaveReload, At
  <2>7. CASE AnnounceShutdown(p)
    <3>1. PICK receipts : Observe(p, ShutdownRow(p), 1, receipts, "shut", "shut unannounced")
      BY <2>7 DEF AnnounceShutdown
    <3>2. Leads(pc[p], "shut") /\ Leads(pc[p], "shut unannounced")
      BY Leading, RestingPlaces
    <3>3. pc[p] \in Shutting
      BY <2>7 DEF AnnounceShutdown, At, Shutting
    <3>4. live[p].closing # "update"
      BY <3>3, SessionAt DEF Closes
    <3>5. \A j \in Job, i \in Indices : ShutdownRow(p) # Update(j, i)
      BY <3>4, OtherRow DEF ShutdownRow, Row
    <3> QED BY <3>1, <3>2, <3>5, LedObserve
  <2>8. CASE CloseDone(p)
    <3>1. Leads(pc[p], Done(me[p].then))
      <4>1. me[p].then \in {"raise", "finish", "terminal"}
        BY SessionAt
      <4>2. Done("raise") = "idle" /\ Done("finish") = "freeze" /\ Done("terminal") = "abort"
        BY DEF Done
      <4>3. Leads(pc[p], "idle") /\ Leads(pc[p], "freeze") /\ Leads(pc[p], "abort")
        BY Leading, RestingPlaces
      <4> QED BY <4>1, <4>2, <4>3
    <3> QED BY <2>8, <3>1, SameRowsKept DEF CloseDone
  <2>9. CASE AbortDone(p)
    BY <1>2, <2>9, SameRowsKept DEF AbortDone
  <2> QED BY <2>1, <2>2, <2>3, <2>4, <2>5, <2>6, <2>7, <2>8, <2>9 DEF StandMoving
<1>4. PICK label : Goto(p, label) /\ Leads(pc[p], label)
  BY <1>3
<1> QED BY <1>1, <1>3, <1>4, StandGoto

\* A change of its session leaves it the session of its job, with its weights.
SameWeights(l, k) == k.job = l.job /\ k.weights = l.weights

LEMMA SessionChanges ==
    ASSUME NEW l, IsLive(l), NEW a, NEW c, NothingIsApart
    PROVE  /\ l # Nothing
           /\ SameWeights(l, [l EXCEPT !.asked = a]) /\ SameWeights(l, [l EXCEPT !.asked = a, !.closing = c])
           /\ SameWeights(l, [l EXCEPT !.up = a])
  BY DEF IsLive, SameWeights, NothingIsApart

LEMMA SameStands ==
    ASSUME NEW l, l # Nothing, SessionStands(l), NEW k, SameWeights(l, k)
    PROVE  SessionStands(k)
  BY DEF SessionStands, SameWeights

LEMMA TerminalCloseStand ==
    ASSUME TrainInv, StandInv, NEW p \in Process, TerminalClose(p)
    PROVE  StandInv'
<1> DEFINE m == [Idle EXCEPT !.then = "terminal"]
<1>1. /\ UNCHANGED <<rows, job, journal>> /\ Goto(p, "close") /\ Changed(me, me', p, m)
      /\ Changed(live, live', p, live[p]) /\ Changed(opening, opening', p, opening[p])
  BY DEF TerminalClose, sessionVars, Changed
<1>2. SessionStands(live[p]) /\ (opening[p] = Nothing \/ IsOpening(opening[p])) /\ Resting("close") /\ RowsKept
  BY <1>1, RestingPlaces, SameRowsKept DEF StandInv, CallStands
<1> HIDE DEF m
<1> QED BY <1>1, <1>2, StandRest

LEMMA CloseStand ==
    ASSUME NothingIsApart, TrainInv, StandInv, NEW p \in Process, Close(p)
    PROVE  StandInv'
<1> DEFINE then == IF At(p, "unwind") THEN "raise" ELSE me[p].then
           key == ShutdownKey(p, then)
           m == IF then = "raise" THEN Idle ELSE me[p]
<1>1. RowsKept /\ (live[p] = Nothing \/ IsLive(live[p])) /\ UNCHANGED <<job, journal>>
  BY SameRowsKept, SessionAt DEF Close
<1>2. SessionStands(live[p]) /\ (opening[p] = Nothing \/ IsOpening(opening[p]))
  BY DEF StandInv, CallStands
<1>3. Resting(Done(then)) /\ Resting(Failed(then)) /\ Resting("announce shutdown")
  <2>1. then \in {"raise", "finish", "terminal"}
    BY SessionAt
  <2>2. Done("raise") = "idle" /\ Done("finish") = "freeze" /\ Done("terminal") = "abort"
    BY DEF Done
  <2>3. Failed(then) \in {"unwind", "idle"}
    BY DEF Failed
  <2> HIDE DEF then
  <2> QED BY <2>1, <2>2, <2>3, RestingPlaces
<1>4. Changed(me, me', p, m) /\ Changed(opening, opening', p, opening[p])
  BY DEF Close, Changed
<1>5. \/ live[p] = Nothing /\ Goto(p, Done(then)) /\ UNCHANGED live
      \/ Goto(p, "announce shutdown") /\ live' = [live EXCEPT ![p].asked = key, ![p].closing = key] /\ live[p] # Nothing
      \/ Goto(p, Failed(then)) /\ live' = [live EXCEPT ![p].asked = key] /\ live[p] # Nothing
  BY DEF Close
<1> HIDE DEF then, key, m
<1>6. CASE live[p] = Nothing /\ Goto(p, Done(then)) /\ UNCHANGED live
  BY <1>6, <1>1, <1>2, <1>3, <1>4, StandRest DEF Changed
<1>7. CASE Goto(p, "announce shutdown") /\ live' = [live EXCEPT ![p].asked = key, ![p].closing = key] /\ live[p] # Nothing
  <2> DEFINE l == [live[p] EXCEPT !.asked = key, !.closing = key]
  <2>1. live' = [live EXCEPT ![p] = l] /\ SameWeights(live[p], l)
    BY <1>1, <1>7, SessionChanges
  <2> HIDE DEF l
  <2>2. Changed(live, live', p, l) /\ SessionStands(l)
    BY <1>2, <1>7, <2>1, SameStands DEF Changed
  <2> QED BY <1>1, <1>2, <1>3, <1>4, <1>7, <2>2, StandRest
<1>8. CASE Goto(p, Failed(then)) /\ live' = [live EXCEPT ![p].asked = key] /\ live[p] # Nothing
  <2> DEFINE l == [live[p] EXCEPT !.asked = key]
  <2>1. live' = [live EXCEPT ![p] = l] /\ SameWeights(live[p], l)
    BY <1>1, <1>8, SessionChanges
  <2> HIDE DEF l
  <2>2. Changed(live, live', p, l) /\ SessionStands(l)
    BY <1>2, <1>8, <2>1, SameStands DEF Changed
  <2> QED BY <1>1, <1>2, <1>3, <1>4, <1>8, <2>2, StandRest
<1> QED BY <1>5, <1>6, <1>7, <1>8

LEMMA ShutStand ==
    ASSUME NothingIsApart, TrainInv, StandInv, NEW p \in Process, Shut(p)
    PROVE  StandInv'
<1>1. RowsKept /\ UNCHANGED <<job, journal, me, opening>> /\ pc[p] \in Shutting
  BY SameRowsKept DEF Shut, Shutting, workVars
<1>2. SessionStands(live[p]) /\ (opening[p] = Nothing \/ IsOpening(opening[p])) /\ IsLive(live[p])
  BY <1>1, SessionAt DEF StandInv, CallStands
<1> DEFINE l == [live[p] EXCEPT !.up = FALSE]
<1>3. \E label \in {"publish shutdown", "unwind", "idle"} : Goto(p, label)
  BY DEF Shut, Failed
<1>4. PICK label \in {"publish shutdown", "unwind", "idle"} : Goto(p, label)
  BY <1>3
<1>5. Resting(label)
  BY <1>4, RestingPlaces
<1>6. live' = [live EXCEPT ![p] = l] \/ live' = [live EXCEPT ![p] = Nothing]
  BY DEF Shut
<1>7. SameWeights(live[p], l) /\ live[p] # Nothing
  BY <1>2, SessionChanges
<1> HIDE DEF l
<1>8. SessionStands(l) /\ SessionStands(Nothing)
  BY <1>2, <1>7, SameStands DEF SessionStands
<1>9. PICK k : Changed(live, live', p, k) /\ SessionStands(k)
  BY <1>6, <1>8 DEF Changed
<1>10. Changed(me, me', p, me[p]) /\ Changed(opening, opening', p, opening[p])
  BY <1>1 DEF Changed
<1> QED BY <1>1, <1>2, <1>4, <1>5, <1>9, <1>10, StandRest

LEMMA PublishShutdownStand ==
    ASSUME TrainInv, StandInv, NEW p \in Process, PublishShutdown(p)
    PROVE  StandInv'
<1>1. UNCHANGED <<job, journal, me, opening>> /\ pc[p] \in Shutting
  BY DEF PublishShutdown, At, Shutting, workVars
<1>2. SessionStands(live[p]) /\ (opening[p] = Nothing \/ IsOpening(opening[p])) /\ SessionStands(Nothing)
  BY DEF StandInv, CallStands, SessionStands
<1>3. PICK receipts : Observe(p, ShutdownRow(p), 2, receipts, "closed", Failed(me[p].then))
  BY DEF PublishShutdown
<1>4. \A j \in Job, i \in Indices : ShutdownRow(p) # Update(j, i)
  BY <1>1, SessionAt, OtherRow DEF Closes, ShutdownRow, Row
<1>5. Resting("closed") /\ Resting(Failed(me[p].then))
  BY RestingPlaces DEF Failed
<1>6. Leads(pc[p], "closed") /\ Leads(pc[p], Failed(me[p].then))
  BY <1>5, Leading
<1>7. RowsKept /\ \E label \in {"closed", Failed(me[p].then)} : Goto(p, label)
  BY <1>3, <1>4, ObserveElsewhere DEF TrainInv, Tables
<1>8. PICK label : Goto(p, label) /\ Resting(label)
  BY <1>5, <1>7
<1>9. PICK k : Changed(live, live', p, k) /\ SessionStands(k)
  BY <1>2 DEF PublishShutdown, Changed
<1>10. Changed(me, me', p, me[p]) /\ Changed(opening, opening', p, opening[p])
  BY <1>1 DEF Changed
<1> QED BY <1>1, <1>2, <1>7, <1>8, <1>9, <1>10, StandRest

LEMMA AbortStand ==
    ASSUME NothingIsApart, TrainInv, StandInv, NEW p \in Process, Abort(p) \/ PublishAbort(p)
    PROVE  StandInv'
<1>1. UNCHANGED <<job, journal, me, live>>
  BY DEF Abort, PublishAbort, workVars
<1>2. SessionStands(live[p]) /\ (opening[p] = Nothing \/ IsOpening(opening[p])) /\ DOMAIN opening = Process
  BY DEF StandInv, CallStands
<1>3. \A j \in Job, i \in Indices : AbortRow(p) # Update(j, i)
  BY OtherRow DEF AbortRow, Row
<1>4. RowsKept /\ \E label \in {"publish abort", "aborted", "idle"} : Goto(p, label)
  <2>0. Recording
    BY DEF TrainInv, Tables
  <2>1. CASE UNCHANGED rows /\ Goto(p, "idle")
    BY <2>1, SameRowsKept
  <2>2. CASE \E receipts : Observe(p, AbortRow(p), 1, receipts, "publish abort", "idle")
    <3>1. PICK n, receipts, ok, bad : /\ Observe(p, AbortRow(p), n, receipts, ok, bad)
                                     /\ ok = "publish abort" /\ bad = "idle"
      BY <2>2
    <3>2. RowsKept /\ \E label \in {ok, bad} : Goto(p, label)
      <4>1. Observe(p, AbortRow(p), n, receipts, ok, bad)
        BY <3>1
      <4> QED BY <1>3, <2>0, <4>1, ObserveElsewhere
    <3> QED BY <3>1, <3>2
  <2>3. CASE \E receipts : Observe(p, AbortRow(p), 2, receipts, "aborted", "idle")
    <3>1. PICK receipts : Observe(p, AbortRow(p), 2, receipts, "aborted", "idle")
      BY <2>3
    <3>2. RowsKept /\ \E label \in {"aborted", "idle"} : Goto(p, label)
      BY <1>3, <2>0, <3>1, ObserveElsewhere
    <3> QED BY <3>2
  <2> QED BY <2>1, <2>2, <2>3 DEF Abort, PublishAbort
<1>5. PICK label : Goto(p, label) /\ Resting(label)
  BY <1>4, RestingPlaces
<1>6. PICK o : Changed(opening, opening', p, o) /\ (o = Nothing \/ IsOpening(o))
  <2>1. UNCHANGED opening \/ opening' = [opening EXCEPT ![p] = Nothing] \/ opening' = [opening EXCEPT ![p] = opening[p]]
        \/ (opening[p] # Nothing /\ opening' = [opening EXCEPT ![p] = [opening[p] EXCEPT !.state = "aborting"]])
    BY DEF Abort, PublishAbort
  <2>2. opening[p] # Nothing => IsOpening([opening[p] EXCEPT !.state = "aborting"])
    BY <1>2 DEF IsOpening
  <2> QED BY <1>2, <2>1, <2>2 DEF Changed
<1>7. Changed(me, me', p, me[p]) /\ Changed(live, live', p, live[p])
  BY <1>1 DEF Changed
<1> QED BY <1>1, <1>2, <1>4, <1>5, <1>6, <1>7, StandRest

LEMMA CrashStand ==
    ASSUME TrainInv, StandInv, NEW p \in Process, Crash(p)
    PROVE  StandInv'
  BY RestingPlaces, SameRowsKept, StandRest DEF Crash, Changed, SessionStands

\* What a call of train under way knows of what it holds.
LEMMA Drives ==
    ASSUME TrainInv, StandInv, NEW p \in Process, pc[p] \in Working
    PROVE  /\ live[p] = Nothing \/ live[p].job = Mine(p)
           /\ opening[p] = Nothing \/ opening[p].job = Mine(p)
           /\ me[p].outcome # "SUCCESS"
           /\ SessionStands(live[p]) /\ (opening[p] = Nothing \/ IsOpening(opening[p]))
           /\ CallStands(pc[p], me[p], live[p], opening[p])
           /\ Follows(pc[p], me[p], live[p], State(p))
           /\ JournalStands(State(p), Mine(p)) /\ pc[p] \in Driving /\ Mine(p) \in Job /\ Mine(p) = me[p].job
           /\ DOMAIN me[p] = DOMAIN Idle /\ Tables /\ State(p) = journal[Mine(p)]
  BY Here DEF Working, StandInv, Standing, CallStands, Owned, Mine, State, Tables

LEMMA WorkingPlaces ==
    \A place \in {"load", "loop", "construct", "publish startup", "restore", "update", "open", "collecting", "collect", "classify",
                  "batch", "rows", "updated", "confirm", "checkpoint", "intent", "supersede", "begin"} : place \in Working
  BY DEF Working, Driving, Starting, Updating, Gathering, Taking, Ready, Dispatched

LEMMA LoopStand ==
    ASSUME TrainInv, StandInv, NEW p \in Process, Loop(p)
    PROVE  StandInv'
<1>1. UNCHANGED <<rows, job, journal, live, opening>> /\ pc[p] = "loop" /\ RowsKept
  BY SameRowsKept DEF Loop, At, sessionVars
<1>2. CASE Spent(State(p)) >= MaxUpdates /\ Goto(p, "finish") /\ ~UNCHANGED me
  <2>1. PICK m : me' = [me EXCEPT ![p] = m]
    BY <1>2 DEF Loop
  <2>2. m.job = Mine(p)
    <3>1. me'[p].job = me[p].job
      BY <1>1, <1>2, Drives, WorkingPlaces DEF Loop, Tables, Idle
    <3>2. me'[p] = m
      BY <1>1, <2>1, Drives, WorkingPlaces DEF Tables
    <3> QED BY <3>1, <3>2 DEF Mine
  <2>3. CallStands("finish", m, live[p], opening[p])
    <3>1. Follows("finish", m, live[p], journal[m.job]) /\ Owned("finish", m, live[p], opening[p])
      BY <1>2, <2>2 DEF State, Follows, Owned, Working, Loaded, Driving, Starting, Updating, Gathering, Taking, Ready, Dispatched, Publishing
    <3>2. SessionStands(live[p]) /\ (opening[p] = Nothing \/ IsOpening(opening[p]))
      BY DEF StandInv, CallStands
    <3> QED BY <3>1, <3>2 DEF CallStands
  <2>4. Changed(me, me', p, m) /\ Changed(live, live', p, live[p]) /\ Changed(opening, opening', p, opening[p])
    BY <1>1, <2>1 DEF Changed
  <2> QED BY <1>1, <1>2, <2>3, <2>4, StandMove
<1>3. CASE UNCHANGED me
  <2>1. PICK label \in {"finish", "unwind", "collect", "rows"} : Goto(p, label)
    BY DEF Loop, NextGroup
  <2>2. Leads(pc[p], label)
    BY <1>1, <2>1, Leading, RestingPlaces
  <2> QED BY <1>1, <1>3, <2>1, <2>2, StandGoto
<1> QED BY <1>2, <1>3 DEF Loop

LEMMA LoadStand ==
    ASSUME TrainInv, StandInv, NEW p \in Process, Load(p)
    PROVE  StandInv'
<1>1. UNCHANGED <<rows, job, journal, live, opening>> /\ pc[p] = "load" /\ RowsKept
  BY SameRowsKept DEF Load, At, sessionVars
<1>2. pc[p] \in Working
  BY <1>1, WorkingPlaces
<1>3. Changed(live, live', p, live[p]) /\ Changed(opening, opening', p, opening[p])
  BY <1>1 DEF Changed
<1>4. CASE UNCHANGED me
  <2>1. PICK label : Goto(p, label) /\ (label = "begin" \/ label = "ancestry" \/ label = "unwind" \/ label = "complete" \/ label = "finish")
    BY DEF Load
  <2>2. CASE label # "finish"
    BY <1>1, <2>1, <2>2, <1>4, Leading, RestingPlaces, StandGoto
  <2>3. CASE label = "finish"
    BY <1>2, <2>3, <1>1, <1>4, <2>1, StandGoto DEF Leads, Loaded, Dispatched, Publishing,
       Gathering, Taking, Ready
  <2> QED BY <2>2, <2>3
<1>5. CASE ~UNCHANGED me
  <2> DEFINE outcome == IF State(p).outcome = Nothing THEN me[p].outcome ELSE State(p).outcome
             m == [me[p] EXCEPT !.outcome = outcome]
  <2>1. me' = [me EXCEPT ![p] = m]
    BY <1>5 DEF Load
  <2>2. m.job = Mine(p) /\ m.outcome = outcome
    BY <1>2, Drives DEF Idle
  <2>3. PICK label : Goto(p, label) /\ label = (CASE State(p).phase = "frozen"     -> "complete"
                     [] State(p).phase = "finalizing" -> "finish"
                     [] Continuable(p)                -> "begin"
                     [] OTHER                         -> "unwind")
    BY <1>5 DEF Load
  <2>4. \/ label = "complete" \/ label = "unwind"
        \/ label = "finish"
        \/ label = "begin" /\ State(p).phase \notin {"frozen", "finalizing"}
    BY <2>3 DEF Continuable
  <2> HIDE DEF m
  <2>5. Changed(me, me', p, m)
    BY <2>1 DEF Changed
  <2>6. JournalStands(State(p), Mine(p)) /\ SessionStands(live[p]) /\ (opening[p] = Nothing \/ IsOpening(opening[p]))
    BY <1>2, Drives
  <2>7. CASE label = "complete" \/ label = "unwind"
    BY <2>7, <1>1, <1>3, <2>3, <2>5, <2>6, RestingPlaces, StandRest
  <2>8. CASE label = "finish"
    <3>1. m.outcome = "SUCCESS" => Spent(State(p)) >= MaxUpdates
      BY <1>2, <2>2, <2>6, Drives, UpdateAssumption DEF JournalStands
    <3>2. Follows("finish", m, live[p], State(p)) /\ Owned("finish", m, live[p], opening[p])
      BY <3>1 DEF Follows, Owned, Working, Loaded, Driving, Starting, Updating, Gathering, Taking, Ready, Dispatched, Publishing
    <3>3. CallStands("finish", m, live[p], opening[p])
      BY <2>2, <2>6, <3>2 DEF CallStands, State
    <3> QED BY <1>1, <1>3, <2>3, <2>5, <2>8, <3>3, StandMove
  <2>9. CASE label = "begin" /\ State(p).phase \notin {"frozen", "finalizing"}
    <3>1. m.outcome # "SUCCESS"
      BY <1>2, <2>2, <2>6, <2>9, Drives DEF JournalStands
    <3>2. Owned("begin", m, live[p], opening[p])
      BY <1>2, <2>2, <3>1, Drives DEF Owned, Publishing
    <3>3. Follows("begin", m, live[p], State(p))
      BY DEF Follows, Loaded, Dispatched, Gathering, Taking, Ready
    <3>4. CallStands("begin", m, live[p], opening[p])
      BY <2>2, <2>6, <3>2, <3>3 DEF CallStands, State
    <3> QED BY <1>1, <1>3, <2>3, <2>5, <2>9, <3>4, StandMove
  <2> QED BY <2>4, <2>7, <2>8, <2>9
<1> QED BY <1>4, <1>5

LEMMA ConstructStand ==
    ASSUME TrainInv, StandInv, NEW p \in Process, Construct(p)
    PROVE  StandInv'
<1>1. UNCHANGED <<rows, job, journal, me, live>> /\ pc[p] = "construct" /\ RowsKept
  BY SameRowsKept DEF Construct, At
<1>2. pc[p] \in Working
  BY <1>1, WorkingPlaces
<1>3. Changed(me, me', p, me[p]) /\ Changed(live, live', p, live[p])
  BY <1>1 DEF Changed
<1>4. CASE Goto(p, "unwind") /\ UNCHANGED opening
  BY <1>1, <1>4, Leading, RestingPlaces, StandGoto
<1>5. CASE Goto(p, "publish startup") /\ opening' = [opening EXCEPT ![p].state = "built"]
  <2> DEFINE o == [opening[p] EXCEPT !.state = "built"]
  <2>1. IsOpening(opening[p]) /\ opening[p].job = me[p].job
    BY <1>1, <1>2, Drives DEF CallStands, Owned, Publishing
  <2>2. IsOpening(o) /\ o.job = me[p].job
    BY <2>1 DEF IsOpening
  <2>3. Changed(opening, opening', p, o)
    BY <1>5 DEF Changed
  <2> HIDE DEF o
  <2>4. Owned("publish startup", me[p], live[p], o)
    BY <1>2, <2>2, Drives DEF Owned
  <2>5. Follows("publish startup", me[p], live[p], State(p))
    BY DEF Follows, Loaded, Dispatched, Gathering, Taking, Ready
  <2>6. CallStands("publish startup", me[p], live[p], o)
    BY <1>2, <2>2, <2>4, <2>5, Drives DEF CallStands
  <2> QED BY <1>1, <1>3, <1>5, <2>3, <2>6, StandMove
<1> QED BY <1>4, <1>5 DEF Construct

LEMMA PublishStartupStand ==
    ASSUME TrainInv, StandInv, NEW p \in Process, PublishStartup(p)
    PROVE  StandInv'
<1>1. UNCHANGED <<job, journal, me>> /\ pc[p] = "publish startup"
  BY DEF PublishStartup, At, workVars
<1>2. pc[p] \in Working /\ pc[p] \in Driving
  BY <1>1, WorkingPlaces DEF Working
<1>3. PICK receipts : Observe(p, OpeningRow(p), 2, receipts, "restore", "unwind")
  BY DEF PublishStartup
<1>4. \A j \in Job, i \in Indices : OpeningRow(p) # Update(j, i)
  BY OtherRow DEF OpeningRow, Startup
<1>5. RowsKept /\ \E label \in {"restore", "unwind"} : Goto(p, label)
  BY <1>3, <1>4, ObserveElsewhere DEF TrainInv, Tables
<1>6. DOMAIN pc = Process
  BY DEF TrainInv, Tables
<1>7. CASE Goto(p, "unwind")
  BY <1>6, <1>7, <1>1, <1>5, Leading, RestingPlaces, StandGoto DEF PublishStartup, Goto, sessionVars
<1>8. CASE Goto(p, "restore")
  <2> DEFINE l == [job |-> opening[p].job, n |-> opening[p].n, weights |-> <<>>, up |-> TRUE,
                   asked |-> Nothing, closing |-> Nothing]
  <2>1. Changed(live, live', p, l) /\ Changed(opening, opening', p, Nothing) /\ Changed(me, me', p, me[p])
    BY <1>1, <1>6, <1>8 DEF PublishStartup, Goto, Changed
  <2>2. opening[p].job = me[p].job
    BY <1>1, <1>2, Drives DEF CallStands, Owned, Publishing
  <2>3. l.job = me[p].job /\ l.weights = <<>>
    BY <2>2
  <2> HIDE DEF l
  <2>4. State(p).phase \in {"initializing", "collecting"}
    BY <1>1, <1>2, Here DEF Fits, Starting
  <2>5. SessionStands(l)
    BY <1>2, <2>4, <2>3, Drives DEF Present, SessionStands
  <2>6. Owned("restore", me[p], l, Nothing)
    BY <1>2, <2>3, Drives DEF Owned, Publishing
  <2>7. Follows("restore", me[p], l, State(p))
    BY DEF Follows, Loaded, Dispatched, Gathering, Taking, Ready
  <2>8. CallStands("restore", me[p], l, Nothing)
    BY <1>2, <2>5, <2>6, <2>7, Drives DEF CallStands
  <2> QED BY <1>1, <1>5, <1>8, <2>1, <2>8, StandMove
<1> QED BY <1>5, <1>7, <1>8

\* A session with no weights yet, of a journal that has none.
LEMMA LoadedWeights ==
    ASSUME TrainInv, StandInv, NEW p \in Process, pc[p] \in Working, IsLive(live[p]), NothingIsApart
    PROVE  /\ live[p].job = Mine(p) /\ live[p] # Nothing /\ live[p].weights \in Seq(Rows)
           /\ Untrained(State(p)) => live[p].weights = <<>>
           /\ Weights(State(p)) \in Seq(Rows)
<1>1. live[p] # Nothing
  BY DEF IsLive, NothingIsApart
<1>2. live[p].job = Mine(p) /\ SessionStands(live[p]) /\ State(p) = journal[Mine(p)] /\ JournalStands(State(p), Mine(p))
  BY <1>1, Drives
<1> QED BY <1>1, <1>2 DEF SessionStands, JournalStands, Confirmed

LEMMA RestoreStand ==
    ASSUME NothingIsApart, TrainInv, StandInv, NEW p \in Process, Restore(p)
    PROVE  StandInv'
<1>1. UNCHANGED <<rows, job, journal, me, opening>> /\ pc[p] = "restore" /\ RowsKept
  BY SameRowsKept DEF Restore, At, workVars
<1>2. pc[p] \in Working /\ pc[p] \in Driving
  BY <1>1, WorkingPlaces DEF Working
<1>3. IsLive(live[p])
  BY <1>1, SessionAt
<1>4. State(p).phase \in {"initializing", "collecting"}
  BY <1>1, <1>2, Here DEF Fits, Starting
<1>5. Changed(me, me', p, me[p]) /\ Changed(opening, opening', p, opening[p])
  BY <1>1 DEF Changed
<1>6. CASE Goto(p, "unwind") /\ UNCHANGED live
  BY <1>1, <1>6, Leading, RestingPlaces, StandGoto
<1>7. CASE State(p).native = Nothing /\ Goto(p, "collecting") /\ UNCHANGED live
  <2>1. live[p].weights = <<>>
    BY <1>2, <1>3, <1>4, <1>7, LoadedWeights DEF Untrained
  <2>2. Follows("collecting", me[p], live[p], State(p))
    BY <1>7, <2>1 DEF Follows, Weights, Dispatched
  <2>3. Owned("collecting", me[p], live[p], opening[p])
    BY <1>2, Drives DEF Owned, Publishing
  <2>4. CallStands("collecting", me[p], live[p], opening[p])
    BY <1>2, <2>2, <2>3, Drives DEF CallStands
  <2>5. Changed(live, live', p, live[p])
    BY <1>7 DEF Changed
  <2> QED BY <1>1, <1>5, <1>7, <2>4, <2>5, StandMove
<1>8. CASE /\ State(p).native # Nothing /\ Goto(p, "collecting")
           /\ live' = [live EXCEPT ![p].weights = State(p).native]
  <2> DEFINE l == [live[p] EXCEPT !.weights = State(p).native]
  <2>1. l.job = live[p].job /\ l.weights = State(p).native
    BY <1>3 DEF IsLive
  <2>2. Changed(live, live', p, l)
    BY <1>8 DEF Changed
  <2> HIDE DEF l
  <2>3. l.weights = Weights(State(p)) /\ l.weights \in Seq(Rows)
    BY <1>2, <1>3, <1>8, <2>1, LoadedWeights DEF Weights
  <2>4. l.job = Mine(p) /\ Mine(p) = me[p].job /\ Mine(p) \in Job /\ Present(Mine(p)) /\ State(p) = journal[Mine(p)]
    BY <1>2, <1>3, <1>4, <2>1, LoadedWeights, Drives DEF Present
  <2>5. SessionStands(l)
    BY <1>8, <2>3, <2>4 DEF SessionStands, Untrained
  <2>6. Follows("collecting", me[p], l, State(p))
    BY <2>3 DEF Follows, Dispatched
  <2>7. Owned("collecting", me[p], l, opening[p])
    BY <1>2, <2>4, Drives DEF Owned, Publishing
  <2>8. CallStands("collecting", me[p], l, opening[p])
    BY <1>2, <2>4, <2>5, <2>6, <2>7, Drives DEF CallStands
  <2> QED BY <1>1, <1>5, <1>8, <2>2, <2>8, StandMove
<1> QED BY <1>6, <1>7, <1>8 DEF Restore

LEMMA DispatchStand ==
    ASSUME NothingIsApart, TrainInv, StandInv, NEW p \in Process, DispatchUpdate(p)
    PROVE  StandInv'
<1>1. UNCHANGED <<rows, job, journal, opening>> /\ pc[p] = "update" /\ RowsKept
  BY SameRowsKept DEF DispatchUpdate, At
<1>2. pc[p] \in Working /\ pc[p] \in Driving /\ pc[p] \in Updating
  BY <1>1, WorkingPlaces DEF Working, Updating, Ready
<1>3. IsLive(live[p])
  BY <1>1, SessionAt
<1>4. State(p).phase = "updating"
  BY <1>1, <1>2, Here DEF Fits, Ready
<1>5. Changed(opening, opening', p, opening[p])
  BY <1>1 DEF Changed
<1>6. CASE Goto(p, "unwind") /\ UNCHANGED <<live, me>>
  BY <1>1, <1>6, Leading, RestingPlaces, StandGoto
<1>7. CASE \E nonzero \in {State(p).nonzero, TRUE} :
             /\ me' = [me EXCEPT ![p].nonzero = nonzero]
             /\ live' = [live EXCEPT ![p].weights = Append(@, UpdateRow(p))]
             /\ \E label \in {"save", "unwind"} : Goto(p, label)
  <2>1. PICK nonzero \in {State(p).nonzero, TRUE} : me' = [me EXCEPT ![p].nonzero = nonzero]
    BY <1>7
  <2> DEFINE l == [live[p] EXCEPT !.weights = Append(live[p].weights, UpdateRow(p))]
             m == [me[p] EXCEPT !.nonzero = nonzero]
  <2>2. l.job = live[p].job /\ l.weights = Append(live[p].weights, UpdateRow(p))
    BY <1>3 DEF IsLive
  <2>3. m.job = Mine(p) /\ m.nonzero = nonzero /\ m.outcome = me[p].outcome
    BY <1>2, Drives DEF Idle
  <2>4. Changed(live, live', p, l) /\ Changed(me, me', p, m)
    BY <1>7, <2>1 DEF Changed
  <2> HIDE DEF l, m
  <2>5. PICK label : Goto(p, label) /\ (label = "save" \/ label = "unwind")
    BY <1>7
  <2>6. UpdateRow(p) = Update(Mine(p), Spent(State(p))) /\ UpdateRow(p) \in Rows
    BY <1>2, WithinBudget DEF UpdateRow, Rows
  <2>7. l.job = Mine(p) /\ Mine(p) \in Job /\ Present(Mine(p)) /\ State(p) = journal[Mine(p)]
    BY <1>2, <1>3, <1>4, <2>2, LoadedWeights, Drives DEF Present
  <2>8. l.weights \in Seq(Rows)
    BY <1>2, <1>3, <2>2, <2>6, LoadedWeights
  <2>9. SessionStands(l)
    BY <1>4, <2>7, <2>8 DEF SessionStands, Untrained
  <2>10. opening[p] = Nothing \/ IsOpening(opening[p])
    BY <1>2, Drives
  <2>11. CASE label = "unwind"
    BY <2>11, <1>1, <1>5, <2>4, <2>5, <2>9, <2>10, RestingPlaces, StandRest
  <2>12. CASE label = "save"
    <3>1. live[p].weights = Weights(State(p))
      BY <1>1, <1>2, Drives DEF Follows, Loaded, Ready
    <3>2. State(p).nonzero => m.nonzero
      BY <2>1, <2>3
    <3>3. Follows("save", m, l, State(p))
      BY <2>2, <2>3, <2>6, <3>1, <3>2 DEF Follows, Loaded, Gathering, Taking, Ready
    <3>4. Owned("save", m, l, opening[p])
      BY <1>2, <2>3, <2>7, Drives DEF Owned, Publishing
    <3>5. CallStands("save", m, l, opening[p])
      BY <2>3, <2>7, <2>9, <2>10, <3>3, <3>4 DEF CallStands
    <3> QED BY <1>1, <1>5, <2>4, <2>5, <2>12, <3>5, StandMove
  <2> QED BY <2>5, <2>11, <2>12
<1> QED BY <1>6, <1>7 DEF DispatchUpdate
-----------------------------------------------------------------------------
(* Steps that write a journal.                                             *)

\* Lineages and results stand, whatever becomes of the journals.
LEMMA LineageStands ==
    ASSUME TrainInv, Standing, RowsGrow, UNCHANGED job, NEW j \in Job
    PROVE  ResumesWell(j)' /\ ResultStands(j)'
  BY CheckpointsStay DEF Standing, TrainInv, Lineages, ResumesWell, ResultStands, Claimed

LEMMA StandWrite ==
    ASSUME TrainInv, StandInv, NEW p \in Process, pc[p] \in Driving,
           NEW label, NEW m, NEW l, NEW o, Went(p, label, m, l, o), UNCHANGED <<rows, job>>, SessionStands(l), o = Nothing \/ IsOpening(o),
           NEW j \in Job, NEW t, journal' = [journal EXCEPT ![j] = t], JournalStands(t, j), t.phase # "absent",
           Present(j) /\ Untrained(t) => Untrained(journal[j]),
           Owned(label, m, l, o), NEW s, s = journal'[m.job], Follows(label, m, l, s), label \notin {"checkpoint", "updated"}
    PROVE  StandInv'
<1>1. Tables /\ Standing /\ RowsKept /\ RowsGrow
  BY SameRowsKept, KeptRowsGrow DEF TrainInv, StandInv
<1>2. journal'[j] = t /\ \A k \in Job \ {j} : journal'[k] = journal[k]
  BY <1>1 DEF Tables
<1>3. NoneUntrained
  BY <1>2 DEF NoneUntrained, Present
<1>4. Standing'
  <2>1. ASSUME NEW k \in Job PROVE JournalStands(journal[k], k)'
    <3>1. PICK u : u = journal'[k]
      OBVIOUS
    <3>2. JournalStands(u, k)
      BY <1>1, <1>2, <2>1, <3>1 DEF Standing
    <3>3. JournalStands(u, k)'
      BY <1>1, <2>1, <3>2, JournalStays DEF Standing
    <3> QED BY <3>1, <3>3
  <2>2. \A k \in Job : ResumesWell(k)' /\ ResultStands(k)'
    BY <1>1, LineageStands
  <2>3. \A k \in Job, i \in Indices : RowStands(k, i)'
    BY <1>1, <1>3, RowStays DEF Standing, RowsKept, NoneUntrained
  <2> QED BY <2>1, <2>2, <2>3 DEF Standing
<1>5. CallStands(label, m, l, o)'
  BY <1>3, SessionStays, FollowsStays DEF CallStands
<1>6. ASSUME NEW q \in Process \ {p} PROVE CallStands(pc[q], me[q], live[q], opening[q])'
  <2>1. pc[q] \notin Driving
    BY <1>6, Here DEF TrainInv, Alone
  <2>2. PICK place, n, k, u : place = pc[q] /\ n = me[q] /\ k = live[q] /\ u = opening[q]
    OBVIOUS
  <2>3. place = pc'[q] /\ n = me'[q] /\ k = live'[q] /\ u = opening'[q]
    BY <1>6, <2>2 DEF Went
  <2>4. CallStands(place, n, k, u)
    BY <1>6, <2>2 DEF StandInv
  <2>5. CallStands(place, n, k, u)'
    BY <1>3, <2>1, <2>2, <2>4, AsideStands
  <2> QED BY <2>3, <2>5
<1> QED BY <1>4, <1>5, <1>6, StandStep

\* A call writes the journal of its job, done or not.
LEMMA StandOwnWrite ==
    ASSUME TrainInv, StandInv, NEW p \in Process, pc[p] \in Working \cup {"finish", "freeze"}, NEW t, NEW ok, NEW m,
           Write(p, Mine(p), t, ok), UNCHANGED <<rows, job, live, opening>>, Changed(me, me', p, m), m.job = Mine(p),
           JournalStands(t, Mine(p)), t.phase # "absent",
           Present(Mine(p)) /\ Untrained(t) => Untrained(State(p)),
           Owned(ok, m, live[p], opening[p]), Follows(ok, m, live[p], t), ok \notin {"checkpoint", "updated"}
    PROVE  StandInv'
<1>1. PICK j : j = Mine(p)
  OBVIOUS
<1>2. pc[p] \in Driving /\ j \in Job /\ Tables /\ State(p) = journal[j]
  BY <1>1, Here DEF Working, Driving, State
<1>3. PICK label : Goto(p, label) /\ (label = ok \/ label = "unwind")
  BY DEF Write, Call
<1>4. SessionStands(live[p]) /\ (opening[p] = Nothing \/ IsOpening(opening[p])) /\ DOMAIN opening = Process
  BY DEF StandInv, CallStands
<1>5. PICK l, o : l = live[p] /\ o = opening[p]
  OBVIOUS
<1>6. Changed(live, live', p, l) /\ Changed(opening, opening', p, o)
  BY <1>5 DEF Changed
<1>7. Went(p, label, m, l, o)
  BY <1>2, <1>3, <1>4, <1>6, Goes
<1>8. Owned(label, m, l, o) /\ Follows(label, m, l, t) /\ label \notin {"checkpoint", "updated"}
  BY <1>3, <1>5, Rests, RestingPlaces
<1>9. CASE journal' = [journal EXCEPT ![j] = t]
  BY <1>1, <1>2, <1>9, <1>4, <1>5, <1>7, <1>8, StandWrite DEF Tables
<1>10. CASE UNCHANGED journal /\ Goto(p, "unwind")
  BY <1>4, <1>5, <1>6, <1>10, RestingPlaces, SameRowsKept, StandRest
<1> QED BY <1>1, <1>9, <1>10 DEF Write, Call

\* t is at the weights, the budget and the checkpoint of s.
AtProgress(s, t) ==
    /\ t.updates = s.updates /\ t.unknown = s.unknown /\ t.nonzero = s.nonzero
    /\ t.native = s.native /\ t.checkpoint = s.checkpoint

LEMMA AgreesStands ==
    ASSUME NEW s, NEW j, JournalStands(s, j), NEW t, AtProgress(s, t),
           t.outcome = Nothing \/ (t.outcome = s.outcome /\ t.phase \in {"finalizing", "frozen"})
    PROVE  JournalStands(t, j) /\ Weights(t) = Weights(s) /\ Spent(t) = Spent(s)
  BY NothingAssumption DEF AtProgress, Weights, Spent, JournalStands

\* A call on its way writes a journal at the progress it was at.
LEMMA StandPhase ==
    ASSUME TrainInv, StandInv, NEW p \in Process, pc[p] \in Working, NEW t, NEW ok,
           Write(p, Mine(p), t, ok), UNCHANGED <<rows, job, me, live, opening>>,
           AtProgress(State(p), t), t.outcome = State(p).outcome,
           State(p).phase \in {"initializing", "collecting"}, t.phase \in {"initializing", "collecting", "updating"},
           Leads(pc[p], ok), ok \notin Dispatched \cup {"finish"}
    PROVE  StandInv'
<1>1. /\ JournalStands(State(p), Mine(p)) /\ CallStands(pc[p], me[p], live[p], opening[p])
      /\ State(p) = journal[Mine(p)] /\ Mine(p) = me[p].job
  BY Drives
<1>2. State(p).outcome = Nothing
  BY <1>1 DEF JournalStands
<1>3. JournalStands(t, Mine(p)) /\ Weights(t) = Weights(State(p))
  BY <1>1, <1>2, AgreesStands
<1>4. CallStands(ok, me[p], live[p], opening[p])
  BY <1>1, Led
<1>5. Owned(ok, me[p], live[p], opening[p]) /\ Follows(ok, me[p], live[p], State(p))
  BY <1>1, <1>4 DEF CallStands
<1>6. Follows(ok, me[p], live[p], t) /\ ok \notin {"checkpoint", "updated"}
  BY <1>3, <1>5 DEF Follows, Dispatched
<1>7. t.phase # "absent" /\ (Untrained(t) => Untrained(State(p)))
  BY DEF Untrained, AtProgress
<1>8. Changed(me, me', p, me[p]) /\ me[p].job = Mine(p)
  BY DEF Changed, Mine
<1> QED BY <1>3, <1>5, <1>6, <1>7, <1>8, StandOwnWrite

LEMMA LeadingOn ==
    /\ Leads("collecting", "loop") /\ Leads("collect", "collect") /\ Leads("classify", "batch")
    /\ Leads("batch", "collect") /\ Leads("batch", "rows") /\ Leads("rows", "loop") /\ Leads("rows", "intent")
    /\ \A label \in {"loop", "collect", "batch", "rows", "intent", "announce startup"} : label \notin Dispatched \cup {"finish"}
  BY DEF Leads, Resting, Loaded, Publishing, Working, Driving, Starting, Updating, Gathering, Taking, Ready, Dispatched

LEMMA CollectingStand ==
    ASSUME TrainInv, StandInv, NEW p \in Process, Collecting(p)
    PROVE  StandInv'
<1>1. pc[p] = "collecting" /\ UNCHANGED <<rows, job, me, live, opening>>
  BY DEF Collecting, At, sessionVars
<1>2. pc[p] \in Working /\ pc[p] \in Driving
  BY <1>1, WorkingPlaces DEF Working
<1> DEFINE t == [State(p) EXCEPT !.phase = "collecting"]
<1>3. AtProgress(State(p), t) /\ t.outcome = State(p).outcome /\ t.phase = "collecting"
  BY <1>2, Ending, JournalFields DEF AtProgress
<1>4. State(p).phase \in {"initializing", "collecting"}
  BY <1>1, <1>2, Here DEF Fits, Starting
<1>5. Write(p, Mine(p), t, "loop")
  BY DEF Collecting
<1> HIDE DEF t
<1>6. Leads(pc[p], "loop") /\ "loop" \notin Dispatched \cup {"finish"}
  BY <1>1, LeadingOn
<1> QED BY <1>1, <1>2, <1>3, <1>4, <1>5, <1>6, StandPhase

LEMMA CollectStand ==
    ASSUME TrainInv, StandInv, NEW p \in Process, Collect(p)
    PROVE  StandInv'
<1>1. pc[p] = "collect" /\ UNCHANGED <<rows, job, me, live, opening>>
  BY DEF Collect, At, sessionVars
<1>2. pc[p] \in Working /\ pc[p] \in Driving
  BY <1>1, WorkingPlaces DEF Working
<1> DEFINE t == [State(p) EXCEPT !.position = @ + 1,
                                 !.pending = [at |-> State(p).position, policy |-> live[p].weights]]
<1>3. AtProgress(State(p), t) /\ t.outcome = State(p).outcome /\ t.phase = State(p).phase
  BY <1>2, Ending, JournalFields DEF AtProgress
<1>4. State(p).phase = "collecting"
  BY <1>1, <1>2, Here DEF Fits, Gathering
<1>5. CASE Write(p, Mine(p), t, "collect")
  <2> HIDE DEF t
  <2>1. Leads(pc[p], "collect") /\ "collect" \notin Dispatched \cup {"finish"}
    BY <1>1, LeadingOn
  <2> QED BY <1>1, <1>2, <1>3, <1>4, <1>5, <2>1, StandPhase
<1>6. CASE UNCHANGED journal /\ \E label \in {"unwind", "batch", "episode"} : Goto(p, label)
  <2>1. PICK label \in {"unwind", "batch", "episode"} : Goto(p, label)
    BY <1>6
  <2>2. Leads(pc[p], label) /\ RowsKept
    BY <1>1, <2>1, Leading, RestingPlaces, SameRowsKept
  <2> QED BY <1>1, <1>6, <2>1, <2>2, StandGoto
<1> QED BY <1>5, <1>6 DEF Collect

LEMMA ClassifyStand ==
    ASSUME TrainInv, StandInv, NEW p \in Process, Classify(p)
    PROVE  StandInv'
<1>1. pc[p] = "classify" /\ UNCHANGED <<rows, job, me, live, opening>>
  BY DEF Classify, At, sessionVars
<1>2. pc[p] \in Working /\ pc[p] \in Driving
  BY <1>1, WorkingPlaces DEF Working
<1> DEFINE t == [State(p) EXCEPT !.groups = @ + 1, !.unclassified = State(p).pending, !.pending = Nothing]
<1>3. AtProgress(State(p), t) /\ t.outcome = State(p).outcome /\ t.phase = State(p).phase
  BY <1>2, Ending, JournalFields DEF AtProgress
<1>4. State(p).phase = "collecting"
  BY <1>1, <1>2, Here DEF Fits, Gathering, Taking
<1>5. CASE Write(p, Mine(p), t, "batch")
  <2> HIDE DEF t
  <2>1. Leads(pc[p], "batch") /\ "batch" \notin Dispatched \cup {"finish"}
    BY <1>1, LeadingOn
  <2> QED BY <1>1, <1>2, <1>3, <1>4, <1>5, <2>1, StandPhase
<1>6. CASE UNCHANGED journal /\ Goto(p, "unwind")
  BY <1>1, <1>6, Leading, RestingPlaces, SameRowsKept, StandGoto
<1> QED BY <1>5, <1>6 DEF Classify

LEMMA BatchStand ==
    ASSUME TrainInv, StandInv, NEW p \in Process, Batch(p)
    PROVE  StandInv'
<1>1. pc[p] = "batch" /\ UNCHANGED <<rows, job, me, live, opening>>
  BY DEF Batch, At, sessionVars
<1>2. pc[p] \in Working /\ pc[p] \in Driving
  BY <1>1, WorkingPlaces DEF Working
<1> DEFINE t == [State(p) EXCEPT !.batch = @ \cup {State(p).unclassified}, !.unclassified = Nothing]
<1>3. AtProgress(State(p), t) /\ t.outcome = State(p).outcome /\ t.phase = State(p).phase
  BY <1>2, Ending, JournalFields DEF AtProgress
<1>4. State(p).phase = "collecting"
  BY <1>1, <1>2, Here DEF Fits, Gathering
<1>5. PICK ok : Write(p, Mine(p), t, ok) /\ (ok = "collect" \/ ok = "rows")
  BY DEF Batch, NextGroup
<1> HIDE DEF t
<1>6. Leads(pc[p], ok) /\ ok \notin Dispatched \cup {"finish"}
  BY <1>1, <1>5, LeadingOn
<1> QED BY <1>1, <1>2, <1>3, <1>4, <1>5, <1>6, StandPhase

LEMMA PrepareStand ==
    ASSUME TrainInv, StandInv, NEW p \in Process, Prepare(p)
    PROVE  StandInv'
<1>1. pc[p] = "rows" /\ UNCHANGED <<rows, job, me, live, opening>>
  BY DEF Prepare, At, sessionVars
<1>2. pc[p] \in Working /\ pc[p] \in Driving
  BY <1>1, WorkingPlaces DEF Working
<1>3. State(p).phase = "collecting"
  BY <1>1, <1>2, Here DEF Fits, Gathering
<1>4. CASE Write(p, Mine(p), [State(p) EXCEPT !.batch = {}], "loop")
  <2> DEFINE t == [State(p) EXCEPT !.batch = {}]
  <2>1. AtProgress(State(p), t) /\ t.outcome = State(p).outcome /\ t.phase = State(p).phase
    BY <1>2, Ending, JournalFields DEF AtProgress
  <2>2. Write(p, Mine(p), t, "loop")
    BY <1>4
  <2> HIDE DEF t
  <2>3. Leads(pc[p], "loop") /\ "loop" \notin Dispatched \cup {"finish"}
    BY <1>1, LeadingOn
  <2> QED BY <1>1, <1>2, <1>3, <2>1, <2>2, <2>3, StandPhase
<1>5. CASE Write(p, Mine(p), [State(p) EXCEPT !.phase = "updating"], "intent")
  <2> DEFINE t == [State(p) EXCEPT !.phase = "updating"]
  <2>1. AtProgress(State(p), t) /\ t.outcome = State(p).outcome /\ t.phase = "updating"
    BY <1>2, Ending, JournalFields DEF AtProgress
  <2>2. Write(p, Mine(p), t, "intent")
    BY <1>5
  <2> HIDE DEF t
  <2>3. Leads(pc[p], "intent") /\ "intent" \notin Dispatched \cup {"finish"}
    BY <1>1, LeadingOn
  <2> QED BY <1>1, <1>2, <1>3, <2>1, <2>2, <2>3, StandPhase
<1>6. CASE UNCHANGED journal /\ Goto(p, "unwind")
  BY <1>1, <1>6, Leading, RestingPlaces, SameRowsKept, StandGoto
<1> QED BY <1>4, <1>5, <1>6 DEF Prepare

LEMMA OpenStand ==
    ASSUME NothingIsApart, TrainInv, StandInv, NEW p \in Process, Open(p)
    PROVE  StandInv'
<1>1. pc[p] = "open" /\ UNCHANGED <<rows, job, me, live>>
  BY DEF Open, At, workVars
<1>2. pc[p] \in Working /\ pc[p] \in Driving /\ RowsKept
  BY <1>1, WorkingPlaces, SameRowsKept DEF Working
<1>3. Changed(me, me', p, me[p]) /\ Changed(live, live', p, live[p])
  BY <1>1 DEF Changed
<1>4. CASE UNCHANGED <<journal, opening>> /\ \E label \in {"restore", "unwind"} : Goto(p, label)
  <2>1. PICK label \in {"restore", "unwind"} : Goto(p, label)
    BY <1>4
  <2>2. Leads(pc[p], label)
    BY <1>1, <2>1, Leading, RestingPlaces
  <2> QED BY <1>1, <1>2, <1>4, <2>1, <2>2, StandGoto
<1>5. \A label : label = "announce startup" \/ label = "publish startup" =>
        \A m, l, o : Follows(label, m, l, State(p)) /\ label \notin {"checkpoint", "updated"}
  BY DEF Follows, Loaded, Dispatched, Gathering, Taking, Ready
<1>6. CASE /\ UNCHANGED <<journal, opening>> /\ opening[p] # Nothing
           /\ \E label \in {"publish startup", "announce startup"} : Goto(p, label)
  <2>1. PICK label : Goto(p, label) /\ (label = "announce startup" \/ label = "publish startup")
    BY <1>6
  <2>2. IsOpening(opening[p]) /\ opening[p].job = me[p].job
    BY <1>2, <1>6, Drives
  <2>3. Owned(label, me[p], live[p], opening[p])
    BY <1>2, <2>2, Drives DEF Owned
  <2>4. CallStands(label, me[p], live[p], opening[p])
    BY <1>2, <1>5, <2>1, <2>3, Drives DEF CallStands
  <2>5. Changed(opening, opening', p, opening[p])
    BY <1>6 DEF Changed
  <2> QED BY <1>1, <1>2, <1>3, <1>5, <1>6, <2>1, <2>4, <2>5, StandMove
<1>7. CASE /\ Write(p, Mine(p), [State(p) EXCEPT !.phase = "initializing"], "announce startup")
           /\ opening' = [opening EXCEPT ![p] =
                IF pc'[p] = "announce startup"
                THEN [job |-> Mine(p), n |-> NewStartup(Mine(p)), state |-> "asked"] ELSE @]
  <2> DEFINE t == [State(p) EXCEPT !.phase = "initializing"]
             new == [job |-> Mine(p), n |-> NewStartup(Mine(p)), state |-> "asked"]
  <2>1. AtProgress(State(p), t) /\ t.outcome = State(p).outcome /\ t.phase = "initializing"
    BY <1>2, Ending, JournalFields DEF AtProgress
  <2>2. Write(p, Mine(p), t, "announce startup")
    BY <1>7
  <2>3. IsOpening(new) /\ new.job = Mine(p)
    BY DEF IsOpening
  <2> HIDE DEF t
  <2>4. State(p).phase \in {"initializing", "collecting"}
    BY <1>1, <1>2, Here DEF Fits, Starting
  <2>5. JournalStands(t, Mine(p)) /\ t.phase # "absent" /\ (Untrained(t) => Untrained(State(p)))
    BY <1>2, <2>4, <2>1, Drives, AgreesStands DEF JournalStands, Untrained, AtProgress
  <2>6. PICK label : Goto(p, label) /\ (label = "announce startup" \/ label = "unwind")
    BY <2>2 DEF Write, Call
  <2>7. pc'[p] = label
    BY <2>6 DEF Goto, TrainInv, Tables
  <2> HIDE DEF new
  <2>8. PICK o : /\ Changed(opening, opening', p, o) /\ (o = Nothing \/ IsOpening(o))
                 /\ label = "announce startup" => o = new
    BY <1>7, <2>7, <2>3, <1>2, <2>6, Drives DEF new, Changed
  <2>9. SessionStands(live[p]) /\ Mine(p) = me[p].job /\ Mine(p) \in Job /\ State(p) = journal[Mine(p)] /\ Tables
    BY <1>2, Drives
  <2>10. PICK m, l, j : m = me[p] /\ l = live[p] /\ j = Mine(p)
    OBVIOUS
  <2>11. Went(p, label, m, l, o)
    BY <1>3, <2>6, <2>8, <2>9, <2>10, Goes DEF StandInv
  <2>12. CASE journal' = [journal EXCEPT ![j] = t]
    <3>1. t = journal'[m.job]
      BY <2>9, <2>10, <2>12 DEF Tables
    <3>2. Owned(label, m, l, o)
      <4>1. CASE label = "unwind"
        BY <4>1, Rests, RestingPlaces
      <4>2. CASE label = "announce startup"
        BY <1>2, <2>9, <2>10, <2>3, <2>8, <4>2, Drives DEF Owned
      <4> QED BY <2>6, <4>1, <4>2
    <3>3. Follows(label, m, l, t) /\ label \notin {"checkpoint", "updated"}
      BY <2>6 DEF Follows, Loaded, Dispatched, Gathering, Taking, Ready
    <3>4. SessionStands(l) /\ j \in Job /\ JournalStands(t, j) /\ (Present(j) /\ Untrained(t) => Untrained(journal[j]))
      BY <2>5, <2>9, <2>10
    <3> QED BY <1>1, <1>2, <2>5, <2>8, <2>11, <2>12, <3>1, <3>2, <3>3, <3>4, StandWrite
  <2>13. CASE UNCHANGED journal /\ Goto(p, "unwind")
    BY <1>1, <1>2, <1>3, <2>8, <2>9, <2>13, RestingPlaces, StandRest
  <2> QED BY <2>2, <2>10, <2>12, <2>13 DEF Write, Call
<1>8. \/ UNCHANGED <<journal, opening>> /\ \E label \in {"restore", "unwind"} : Goto(p, label)
      \/ /\ UNCHANGED <<journal, opening>> /\ opening[p] # Nothing
         /\ \E label \in {"publish startup", "announce startup", "unwind"} : Goto(p, label)
      \/ /\ Write(p, Mine(p), [State(p) EXCEPT !.phase = "initializing"], "announce startup")
         /\ opening' = [opening EXCEPT ![p] =
              IF pc'[p] = "announce startup"
              THEN [job |-> Mine(p), n |-> NewStartup(Mine(p)), state |-> "asked"] ELSE @]
  BY DEF Open
<1> QED BY <1>4, <1>6, <1>7, <1>8

LEMMA FinishStand ==
    ASSUME TrainInv, StandInv, NEW p \in Process, Finish(p)
    PROVE  StandInv'
<1>1. pc[p] = "finish" /\ UNCHANGED <<rows, job, live, opening>>
  BY DEF Finish, At, sessionVars
<1>2. pc[p] \in Driving
  BY <1>1 DEF Driving
<1>3. State(p) = journal[Mine(p)] /\ Mine(p) = me[p].job /\ Mine(p) \in Job /\ DOMAIN me[p] = DOMAIN Idle /\ IsJournal(State(p))
  BY <1>2, Here, Ending
<1>4. JournalStands(State(p), Mine(p)) /\ Follows("finish", me[p], live[p], State(p))
  BY <1>1, <1>3 DEF StandInv, Standing, CallStands
<1> DEFINE t == [State(p) EXCEPT !.phase = "finalizing", !.outcome = Disposition(p)]
           m == [me[p] EXCEPT !.then = "finish"]
<1>5. AtProgress(State(p), t) /\ t.outcome = Disposition(p) /\ t.phase = "finalizing"
  BY <1>3, JournalFields DEF AtProgress
<1>6. Write(p, Mine(p), t, "close") /\ Changed(me, me', p, m)
  BY DEF Finish, Changed
<1>7. m.job = Mine(p)
  BY <1>3 DEF Idle
<1> HIDE DEF t, m
<1>8. Disposition(p) = "SUCCESS" => /\ Spent(State(p)) >= MaxUpdates
                                    /\ State(p).checkpoint # Nothing /\ State(p).checkpoint.job = Mine(p)
  BY <1>4 DEF Disposition, Selected, Follows
<1>9. JournalStands(t, Mine(p))
  <2>1. Weights(t) = Weights(State(p)) /\ Spent(t) = Spent(State(p))
    BY <1>5 DEF AtProgress, Weights, Spent
  <2>2. Spent(State(p)) \in Nat /\ Spent(State(p)) <= MaxUpdates
    BY <1>3, <1>4 DEF JournalStands, IsJournal, Spent
  <2>3. t.outcome = "SUCCESS" => /\ Spent(State(p)) = MaxUpdates
                                 /\ t.checkpoint # Nothing /\ t.checkpoint.job = Mine(p)
    BY <2>2, <1>5, <1>8, UpdateAssumption DEF AtProgress
  <2> QED BY <1>4, <1>5, <2>1, <2>3 DEF JournalStands, AtProgress
<1>10. Owned("close", m, live[p], opening[p]) /\ Follows("close", m, live[p], t)
  BY Rests, RestingPlaces
<1>11. t.phase # "absent" /\ ~Untrained(t)
  BY <1>5 DEF Untrained
<1> QED BY <1>1, <1>6, <1>7, <1>9, <1>10, <1>11, StandOwnWrite

LEMMA FreezeStand ==
    ASSUME TrainInv, StandInv, NEW p \in Process, Freeze(p)
    PROVE  StandInv'
<1>1. pc[p] = "freeze" /\ UNCHANGED <<rows, job, me, live, opening>>
  BY DEF Freeze, At, sessionVars
<1>2. pc[p] \in Driving
  BY <1>1 DEF Driving
<1>3. State(p) = journal[Mine(p)] /\ Mine(p) = me[p].job /\ Mine(p) \in Job /\ IsJournal(State(p))
  BY <1>2, Here, Ending
<1>4. JournalStands(State(p), Mine(p))
  BY <1>3 DEF StandInv, Standing
<1> DEFINE t == [State(p) EXCEPT !.phase = "frozen", !.bound = Account(Mine(p))]
<1>5. AtProgress(State(p), t) /\ t.outcome = State(p).outcome /\ t.phase = "frozen"
  BY <1>3, JournalFields DEF AtProgress
<1>6. Write(p, Mine(p), t, "complete") /\ Changed(me, me', p, me[p])
  BY <1>1 DEF Freeze, Changed
<1> HIDE DEF t
<1>7. JournalStands(t, Mine(p))
  BY <1>4, <1>5, AgreesStands
<1>8. Owned("complete", me[p], live[p], opening[p]) /\ Follows("complete", me[p], live[p], t)
  BY Rests, RestingPlaces
<1>9. t.phase # "absent" /\ ~Untrained(t)
  BY <1>5 DEF Untrained
<1> QED BY <1>1, <1>3, <1>6, <1>7, <1>8, <1>9, StandOwnWrite

\* Another update is confirmed of weights that are.
LEMMA ConfirmedAppend ==
    ASSUME NEW w, NEW u, Confirmed(w, u), NEW j \in Job, NEW i \in Indices, Len(rows[Update(j, i)]) >= 2,
           \A k \in DOMAIN w : w[k] # Update(j, i)
    PROVE  Confirmed(Append(w, Update(j, i)), u + 1)
<1> DEFINE x == Update(j, i)
           t == Append(w, x)
<1>1. w \in Seq(Rows) /\ x \in Rows /\ Len(w) = u
  BY DEF Confirmed, Rows
<1>2. /\ DOMAIN t = DOMAIN w \cup {Len(t)} /\ Len(t) \notin DOMAIN w /\ Len(t) = Len(w) + 1 /\ t[Len(t)] = x
      /\ \A k \in DOMAIN w : t[k] = w[k]
  BY <1>1, AppendRow DEF IsRow
<1>3. t \in Seq(Rows)
  BY <1>1
<1>4. \A k \in DOMAIN w : \E h \in Job, n \in Indices : w[k] = Update(h, n) /\ Len(rows[Update(h, n)]) >= 2
  BY DEF Confirmed
<1>5. \A k, n \in DOMAIN w : w[k] = w[n] => k = n
  BY DEF Confirmed
<1>6. \A k \in DOMAIN w : w[k] # x
  OBVIOUS
<1>7. ASSUME NEW k \in DOMAIN t PROVE \E h \in Job, n \in Indices : t[k] = Update(h, n) /\ Len(rows[Update(h, n)]) >= 2
  <2>1. CASE k \in DOMAIN w
    <3>1. t[k] = w[k]
      BY <1>2, <2>1
    <3> HIDE DEF t
    <3> QED BY <1>4, <2>1, <3>1
  <2>2. CASE k \notin DOMAIN w
    <3>1. t[k] = Update(j, i)
      BY <1>2, <1>7, <2>2
    <3> HIDE DEF t
    <3> QED BY <3>1
  <2> QED BY <2>1, <2>2
<1>8. ASSUME NEW k \in DOMAIN t, NEW n \in DOMAIN t, t[k] = t[n] PROVE k = n
  <2> HIDE DEF t, x
  <2> QED BY <1>2, <1>5, <1>6, <1>8
<1>9. Len(t) = u + 1
  BY <1>1, <1>2
<1> HIDE DEF t
<1> QED BY <1>3, <1>7, <1>8, <1>9 DEF Confirmed, t

\* What a session has after a confirmed update.
LEMMA DispatchedConfirmed ==
    ASSUME TrainInv, StandInv, NEW p \in Process, pc[p] \in {"checkpoint", "updated"}
    PROVE  /\ Confirmed(live[p].weights, State(p).updates + 1)
           /\ CheckpointStands(Taken(me[p], State(p), live[p]), Mine(p))
<1>1. pc[p] \in Working /\ pc[p] \in Updating /\ pc[p] \in Driving
  BY WorkingPlaces DEF Updating, Dispatched, Working
<1>2. PICK s, j, i, w : s = State(p) /\ j = Mine(p) /\ i = Spent(State(p)) /\ w = Weights(State(p))
  OBVIOUS
<1>3. JournalStands(s, j) /\ IsJournal(s) /\ j \in Job /\ i \in Indices /\ i \in Nat /\ j = me[p].job
      /\ i = Spent(s) /\ w = Weights(s)
  BY <1>1, <1>2, Drives, WithinBudget, Ending
<1>4. live[p].weights = Append(w, Update(j, i)) /\ Len(rows[Update(j, i)]) >= 2
  BY <1>1, <1>2, <1>3, Drives DEF Follows, Dispatched
<1>5. Confirmed(live[p].weights, s.updates + 1)
  BY <1>3, <1>4, ConfirmedAppend DEF JournalStands
<1>6. s.updates \in Nat /\ s.unknown \in Nat /\ i = s.updates + s.unknown /\ i < MaxUpdates
  BY <1>1, <1>2, <1>3, Here DEF Fits, IsJournal, Spent
<1>7. PICK c : c = Taken(me[p], s, live[p])
  OBVIOUS
<1>8. c.job = j /\ c.native = live[p].weights /\ c.updates = s.updates + 1 /\ c.unknown = s.unknown
  BY <1>3, <1>7 DEF Taken
<1>9. c.updates + c.unknown <= MaxUpdates /\ c.updates \in Nat
  BY <1>6, <1>8, UpdateAssumption
<1> QED BY <1>2, <1>5, <1>6, <1>7, <1>8, <1>9 DEF CheckpointStands, Spent

\* A checkpoint that is in the newest revision of one of its updates.
LEMMA CheckpointIn ==
    ASSUME NEW j, NEW i \in Indices, NEW c, Receipt("checkpoint", c) \in Newest(Update(j, i))
    PROVE  c \in Checkpoints(j)
<1>1. PICK r : r = Receipt("checkpoint", c)
  OBVIOUS
<1>2. r[1] = "checkpoint" /\ r[2] = c /\ r \in Newest(Update(j, i))
  BY <1>1 DEF Receipt
<1> QED BY <1>2 DEF Checkpoints

LEMMA UpdatedStand ==
    ASSUME TrainInv, StandInv, NEW p \in Process, Updated(p)
    PROVE  StandInv'
<1>1. pc[p] = "updated" /\ UNCHANGED <<rows, job, live, opening>>
  BY DEF Updated, At, sessionVars
<1>2. pc[p] \in Working /\ pc[p] \in Driving /\ pc[p] \in Updating
  BY <1>1, WorkingPlaces DEF Working, Updating, Dispatched
<1>3. PICK s, j, i, w : s = State(p) /\ j = Mine(p) /\ i = Spent(State(p)) /\ w = Weights(State(p))
  OBVIOUS
<1>4. /\ JournalStands(s, j) /\ IsJournal(s) /\ j \in Job /\ i \in Indices /\ i \in Nat /\ j = me[p].job
      /\ s = journal[j] /\ DOMAIN me[p] = DOMAIN Idle /\ i = Spent(s) /\ w = Weights(s)
  BY <1>2, <1>3, Drives, WithinBudget, Ending
<1>5. s.phase = "updating" /\ i < MaxUpdates
  BY <1>1, <1>2, <1>3, Here DEF Fits, Dispatched, Updating
<1>6. /\ live[p].weights = Append(w, Update(j, i)) /\ (s.nonzero => me[p].nonzero) /\ Len(rows[Update(j, i)]) >= 2
      /\ me[p].nonzero => Receipt("checkpoint", Taken(me[p], s, live[p])) \in Newest(Update(j, i))
  BY <1>1, <1>2, <1>3, <1>4, Drives DEF Follows, Dispatched
<1>7. Checkpoint(p) = Taken(me[p], s, live[p])
  BY <1>3, <1>4, JournalFields DEF Checkpoint, Advanced, Taken
<1>8. PICK c : c = IF me[p].nonzero THEN Checkpoint(p) ELSE s.checkpoint
  OBVIOUS
<1>9. PICK t : /\ Write(p, j, t, "loop")
               /\ t.phase = "collecting" /\ t.checkpoint = c /\ t.updates = s.updates + 1 /\ t.unknown = s.unknown
               /\ t.nonzero = me[p].nonzero /\ t.native = live[p].weights /\ t.outcome = s.outcome
  <2>1. PICK a : a = Advanced(p)
    OBVIOUS
  <2>2. /\ DOMAIN a = DOMAIN s /\ a.updates = s.updates + 1 /\ a.nonzero = me[p].nonzero /\ a.native = live[p].weights
        /\ a.unknown = s.unknown /\ a.outcome = s.outcome /\ a.checkpoint = s.checkpoint
    BY <1>3, <1>4, <2>1, JournalFields DEF Advanced
  <2>3. PICK d : d = IF a.nonzero THEN Checkpoint(p) ELSE a.checkpoint
    OBVIOUS
  <2>4. PICK t : t = [a EXCEPT !.phase = "collecting", !.checkpoint = d]
    OBVIOUS
  <2>5. Write(p, j, t, "loop")
    BY <1>3, <2>1, <2>3, <2>4 DEF Updated
  <2>6. d = c
    BY <1>8, <2>2, <2>3
  <2>7. /\ t.phase = "collecting" /\ t.checkpoint = d /\ t.updates = a.updates /\ t.unknown = a.unknown
        /\ t.nonzero = a.nonzero /\ t.native = a.native /\ t.outcome = a.outcome
    BY <1>4, <2>2, <2>4, JournalFields
  <2> QED BY <2>2, <2>5, <2>6, <2>7
<1>10. Confirmed(live[p].weights, s.updates + 1)
  BY <1>1, <1>3, DispatchedConfirmed
<1>11. live[p].weights # Nothing /\ w \in Seq(Rows)
  BY <1>4, <1>10, NothingAssumption DEF Confirmed, JournalStands
<1>12. Weights(t) = live[p].weights /\ Spent(t) = i + 1
  BY <1>9, <1>11, <1>4 DEF Weights, IsJournal, Spent
<1>13. JournalStands(t, j)
  <2>1. Confirmed(Weights(t), t.updates)
    BY <1>9, <1>10, <1>12
  <2>2. \A k \in DOMAIN Weights(t) : \A n \in Indices : Weights(t)[k] = Update(j, n) => n < Spent(t)
    <3> SUFFICES ASSUME NEW k \in DOMAIN Append(w, Update(j, i)), NEW n \in Indices, Append(w, Update(j, i))[k] = Update(j, n)
                 PROVE  n < i + 1
      BY <1>6, <1>12
    <3>1. PICK v : v = Append(w, Update(j, i))
      OBVIOUS
    <3>2. DOMAIN v = DOMAIN w \cup {Len(v)} /\ v[Len(v)] = Update(j, i) /\ \A h \in DOMAIN w : v[h] = w[h]
      BY <1>11, <3>1, AppendRow DEF IsRow
    <3>3. CASE k \in DOMAIN w
      <4>1. w[k] = Update(j, n)
        BY <3>1, <3>2, <3>3
      <4>2. n < i
        BY <1>4, <3>3, <4>1 DEF JournalStands
      <4> QED BY <1>4, <4>2 DEF Indices
    <3>4. CASE k = Len(v)
      <4>1. n = i
        BY <3>1, <3>2, <3>4, UpdateNames
      <4> QED BY <1>4, <4>1
    <3> QED BY <3>1, <3>2, <3>3, <3>4
  <2>3. Spent(t) <= MaxUpdates
    BY <1>4, <1>5, <1>12, UpdateAssumption
  <2>4. t.checkpoint # Nothing /\ t.checkpoint.job = j =>
          /\ t.nonzero /\ t.checkpoint \in Checkpoints(j)
          /\ t.checkpoint.updates = t.updates /\ t.checkpoint.unknown = t.unknown
    <3>1. CASE me[p].nonzero
      <4>1. c = Taken(me[p], s, live[p])
        BY <1>7, <1>8, <3>1
      <4>2. c \in Checkpoints(j)
        BY <1>4, <1>6, <3>1, <4>1, CheckpointIn
      <4>3. c.updates = s.updates + 1 /\ c.unknown = s.unknown
        BY <4>1 DEF Taken
      <4> QED BY <1>9, <3>1, <4>2, <4>3
    <3>2. CASE ~me[p].nonzero
      BY <1>6, <1>8, <3>2, <1>4, <1>9 DEF JournalStands
    <3> QED BY <3>1, <3>2
  <2>5. t.outcome = Nothing
    BY <1>4, <1>5, <1>9 DEF JournalStands
  <2> QED BY <2>1, <2>2, <2>3, <2>4, <2>5, NothingAssumption DEF JournalStands
<1> DEFINE m == [me[p] EXCEPT !.nonzero = FALSE]
<1>14. m.job = Mine(p) /\ m.outcome = me[p].outcome /\ Changed(me, me', p, m)
  BY <1>3, <1>4 DEF Updated, Changed, Idle
<1> HIDE DEF m
<1>15. Owned("loop", m, live[p], opening[p])
  BY <1>2, <1>14, Drives DEF Owned, Publishing
<1>16. Follows("loop", m, live[p], t)
  BY <1>12 DEF Follows, Dispatched
<1>17. t.phase # "absent" /\ ~Untrained(t)
  BY <1>9, <1>11 DEF Untrained
<1> QED BY <1>1, <1>2, <1>3, <1>9, <1>13, <1>14, <1>15, <1>16, <1>17, StandOwnWrite
-----------------------------------------------------------------------------
(* A job takes over from another.                                          *)

LEMMA LeadingStart ==
    /\ Leads("supersede", "begin") /\ Leads("begin", "controller")
    /\ "controller" \notin Dispatched \cup {"finish"}
  BY DEF Leads, Resting, Loaded, Publishing, Working, Driving, Starting, Updating, Gathering, Taking, Ready, Dispatched

LEMMA SupersedeStand ==
    ASSUME TrainInv, StandInv, NEW p \in Process, Supersede(p)
    PROVE  StandInv'
<1>1. pc[p] = "supersede" /\ UNCHANGED <<rows, job, me, live, opening>>
  BY DEF Supersede, At, sessionVars
<1>2. pc[p] \in Working /\ pc[p] \in Driving
  BY <1>1, WorkingPlaces DEF Working
<1>3. PICK j, s : j = Resume(p).job /\ s = journal[j]
  OBVIOUS
<1>4. j \in Job /\ s.phase \in {"updating", "collecting", "superseded"} /\ IsJournal(s) /\ JournalStands(s, j)
  BY <1>1, <1>2, <1>3, Here DEF Along, Mine, Bound, Resume, Tables, StandInv, Standing
<1> DEFINE t == [s EXCEPT !.phase = "superseded", !.by = Mine(p)]
<1>5. AtProgress(s, t) /\ t.outcome = s.outcome /\ t.phase = "superseded"
  BY <1>4, JournalFields DEF AtProgress
<1>6. Write(p, j, t, "begin")
  BY <1>3 DEF Supersede
<1> HIDE DEF t
<1>7. JournalStands(t, j)
  BY <1>4, <1>5, AgreesStands DEF JournalStands
<1>8. t.phase # "absent" /\ ~Untrained(t)
  BY <1>5 DEF Untrained
<1>9. PICK label : Goto(p, label) /\ (label = "begin" \/ label = "unwind")
  BY <1>6 DEF Write, Call
<1>10. Leads(pc[p], label)
  BY <1>1, <1>9, LeadingStart, Leading, RestingPlaces
<1>11. CASE journal' = [journal EXCEPT ![j] = t]
  <2>1. PICK m, l, o : m = me[p] /\ l = live[p] /\ o = opening[p]
    OBVIOUS
  <2>2. Changed(me, me', p, m) /\ Changed(live, live', p, l) /\ Changed(opening, opening', p, o)
    BY <1>1, <2>1 DEF Changed
  <2>3. Went(p, label, m, l, o)
    BY <1>9, <2>2, Goes DEF TrainInv, StandInv
  <2>4. CallStands(label, m, l, o)
    BY <1>2, <1>10, <2>1, Led, Drives
  <2>5. PICK u : u = journal'[m.job]
    OBVIOUS
  <2>6. Follows(label, m, l, u) /\ label \notin {"checkpoint", "updated"}
    BY <1>9 DEF Follows, Loaded, Dispatched, Gathering, Taking, Ready
  <2> QED BY <1>1, <1>2, <1>4, <1>7, <1>8, <1>11, <2>3, <2>4, <2>5, <2>6, StandWrite DEF CallStands
<1>12. CASE UNCHANGED journal /\ Goto(p, "unwind")
  BY <1>1, <1>12, Leading, RestingPlaces, SameRowsKept, StandGoto
<1> QED BY <1>6, <1>11, <1>12 DEF Write, Call

\* The updates after c and those up to it are within the budget.
LEMMA LaterWithin ==
    ASSUME NEW c, Spent(c) \in Nat, Spent(c) <= MaxUpdates
    PROVE  Cardinality(Later(c)) \in Nat /\ Spent(c) + Cardinality(Later(c)) <= MaxUpdates
<1> DEFINE S == Spent(c)..MaxUpdates - 1
<1>1. MaxUpdates \in Nat /\ MaxUpdates # 0
  BY UpdateAssumption
<1>2. IsFiniteSet(S) /\ Cardinality(S) = MaxUpdates - Spent(c)
  <2>1. PICK n : n = Spent(c)
    OBVIOUS
  <2>2. n \in Int /\ MaxUpdates - 1 \in Int
    BY <1>1, <2>1
  <2>3. /\ IsFiniteSet(n..MaxUpdates - 1)
        /\ Cardinality(n..MaxUpdates - 1) = IF n > MaxUpdates - 1 THEN 0 ELSE (MaxUpdates - 1) - n + 1
    BY <2>2, FS_Interval
  <2>4. /\ IsFiniteSet(S)
        /\ Cardinality(S) = IF n > MaxUpdates - 1 THEN 0 ELSE (MaxUpdates - 1) - n + 1
    BY <2>1, <2>3
  <2> HIDE DEF S
  <2>5. n > MaxUpdates - 1 => n = MaxUpdates
    BY <1>1, <2>1
  <2>6. ~(n > MaxUpdates - 1) => (MaxUpdates - 1) - n + 1 = MaxUpdates - n
    BY <1>1, <2>1
  <2>7. MaxUpdates - MaxUpdates = 0
    BY <1>1
  <2> QED BY <2>1, <2>4, <2>5, <2>6, <2>7
<1>3. Later(c) \subseteq S
  <2>1. ASSUME NEW i \in Later(c) PROVE i \in S
    BY <1>1 DEF Later, Indices
  <2> QED BY <2>1
<1>4. IsFiniteSet(Later(c)) /\ Cardinality(Later(c)) <= Cardinality(S)
  BY <1>2, <1>3, FS_Subset
<1>5. Cardinality(Later(c)) \in Nat
  BY <1>4, FS_CardinalityType
<1> HIDE DEF S
<1> QED BY <1>1, <1>2, <1>4, <1>5

\* The journal in which a job goes on from a checkpoint.
LEMMA RestoredStands ==
    ASSUME TrainInv, StandInv, NEW j \in Job, ~Present(j), NEW k \in Job, k # j,
           NEW c \in Checkpoints(k), c.job = k, journal[k].phase = "superseded"
    PROVE  JournalStands(Restored(c), j) /\ Restored(c).phase = "initializing"
<1>1. CheckpointStands(c, k)
  <2>1. PICK i \in Indices : \E r \in Newest(Update(k, i)) : r[1] = "checkpoint" /\ r[2] = c
    BY DEF Checkpoints
  <2> QED BY <2>1 DEF StandInv, Standing, RowStands
<1>2. IsJournal(journal[k]) /\ journal[k].outcome = Nothing
  BY DEF TrainInv, Tables, StandInv, Standing, JournalStands
<1>3. PICK t : t = Restored(c)
  OBVIOUS
<1>4. /\ t.phase = "initializing" /\ t.updates = c.updates /\ t.unknown = c.unknown + Cardinality(Later(c))
      /\ t.checkpoint = c /\ t.native = c.native /\ t.outcome = Nothing
  BY <1>2, <1>3, JournalFields DEF Restored
<1>5. c.updates \in Nat /\ c.unknown \in Nat /\ Spent(c) <= MaxUpdates /\ Confirmed(c.native, c.updates)
  BY <1>1 DEF CheckpointStands
<1>6. Weights(t) = c.native
  BY <1>4, <1>5, NothingAssumption DEF Weights, Confirmed
<1>7. Spent(t) <= MaxUpdates
  BY <1>5, <1>4, LaterWithin DEF Spent
<1>8. \A n \in DOMAIN c.native, i \in Indices : c.native[n] # Update(j, i)
  <2> SUFFICES ASSUME NEW n \in DOMAIN c.native, NEW i \in Indices, c.native[n] = Update(j, i) PROVE FALSE
    OBVIOUS
  <2>1. PICK h \in Job, g \in Indices : c.native[n] = Update(h, g) /\ Len(rows[Update(h, g)]) >= 2
    BY <1>5 DEF Confirmed
  <2>2. h = j /\ g = i
    BY <2>1, UpdateNames
  <2>3. rows[Update(j, i)] = <<>>
    BY DEF StandInv, Standing, RowStands
  <2>4. ~(Len(<<>>) >= 2)
    OBVIOUS
  <2> QED BY <2>1, <2>2, <2>3, <2>4
<1>9. t.checkpoint.job # j
  BY <1>4
<1> QED BY <1>3, <1>4, <1>5, <1>6, <1>7, <1>8, <1>9, NothingAssumption DEF JournalStands

LEMMA BeginStand ==
    ASSUME TrainInv, StandInv, NEW p \in Process, Begin(p)
    PROVE  StandInv'
<1>1. pc[p] = "begin" /\ UNCHANGED <<rows, job, me, live, opening>>
  BY DEF Begin, At, sessionVars
<1>2. pc[p] \in Working /\ pc[p] \in Driving
  BY <1>1, WorkingPlaces DEF Working
<1>3. PICK j : j = Mine(p)
  OBVIOUS
<1>4. Along("begin", me[p], live[p]) /\ j = me[p].job /\ j \in Job /\ Claimed(j) /\ State(p) = journal[j] /\ Tables
  BY <1>1, <1>2, <1>3, Here DEF Mine, State
<1>5. Leads(pc[p], "controller") /\ "controller" \notin Dispatched \cup {"finish"}
  BY <1>1, LeadingStart
<1>6. CASE Present(j)
  BY <1>4, <1>6, <1>3, <1>1, <1>2, <1>5, StandPhase DEF Along, Begin, AtProgress
<1>7. CASE ~Present(j)
  <2>1. PICK t : Write(p, j, t, "controller") /\ JournalStands(t, j) /\ t.phase = "initializing"
    <3>1. CASE Resume(p) = Nothing
      BY <1>3, <1>7, <3>1, UpdateAssumption, NothingAssumption DEF Begin, Fresh, Weights, Spent,
         Confirmed, JournalStands
    <3>2. CASE Resume(p) # Nothing
      <4>1. PICK c : c = Resume(p) /\ c = job[j].resume
        BY <1>3 DEF Resume
      <4>2. Write(p, j, Restored(c), "controller")
        BY <1>3, <1>7, <3>2, <4>1 DEF Begin
      <4>3. j \notin First
        BY <1>4, <3>2, <4>1 DEF TrainInv, Lineages
      <4>4. Bound(j) /\ journal[c.job].phase = "superseded"
        BY <1>4, <1>7, <4>1, <4>3 DEF Along, Present
      <4>5. c.job \in Job
        BY <4>1, <4>4 DEF Bound
      <4>6. c.job # j /\ c \in Checkpoints(c.job)
        BY <1>4, <4>1, <4>3 DEF StandInv, Standing, ResumesWell
      <4>7. JournalStands(Restored(c), j) /\ Restored(c).phase = "initializing"
        BY <1>4, <1>7, <4>4, <4>5, <4>6, RestoredStands
      <4> QED BY <4>2, <4>7
    <3> QED BY <3>1, <3>2
  <2>2. CallStands("controller", me[p], live[p], opening[p])
    BY <1>2, <1>5, Led, Drives
  <2>3. Owned("controller", me[p], live[p], opening[p])
    BY <2>2 DEF CallStands
  <2>4. Follows("controller", me[p], live[p], t)
    BY DEF Follows, Loaded, Dispatched, Gathering, Taking, Ready
  <2>5. Changed(me, me', p, me[p])
    BY <1>1 DEF Changed
  <2>6. t.phase # "absent" /\ ~Present(Mine(p)) /\ Write(p, Mine(p), t, "controller") /\ JournalStands(t, Mine(p))
    BY <1>3, <1>7, <2>1
  <2>7. me[p].job = Mine(p) /\ "controller" \notin {"checkpoint", "updated"}
    BY DEF Mine
  <2> QED BY <1>1, <1>2, <2>3, <2>4, <2>5, <2>6, <2>7, StandOwnWrite
<1> QED BY <1>6, <1>7
-----------------------------------------------------------------------------
(* The accounting of an update.                                            *)

\* The row name gets revision n, or is left alone.
Revised(name, n, receipts) ==
    rows'[name] = rows[name] \/ (n = Len(rows[name]) + 1 /\ rows'[name] = Append(rows[name], receipts))

LEMMA UpdateRevised ==
    ASSUME Recording, NEW p, NEW j \in Job, NEW i \in Indices, NEW n \in Nat \ {0}, NEW receipts, NEW ok, NEW bad,
           Observe(p, Update(j, i), n, receipts, ok, bad)
    PROVE  /\ Revised(Update(j, i), n, receipts)
           /\ \A k \in Job, m \in Indices : k # j \/ m # i => rows'[Update(k, m)] = rows[Update(k, m)]
           /\ \E label : /\ Goto(p, label)
                         /\ label = bad \/ (label = ok /\ Recorded(rows'[Update(j, i)], n, receipts))
<1>1. PICK name, row : name = Update(j, i) /\ row = rows[name]
  OBVIOUS
<1>2. name \in DOMAIN rows /\ IsRow(row)
  BY <1>1 DEF Recording
<1>3. PICK next : next = Append(row, receipts)
  OBVIOUS
<1>4. Len(next) = Len(row) + 1 /\ next[Len(next)] = receipts /\ Len(row) \in Nat
  BY <1>2, <1>3, AppendRow DEF IsRow
<1>5. \A k \in Job, m \in Indices : k # j \/ m # i => Update(k, m) # name
  BY <1>1, UpdateNames
<1>6. Observe(p, name, n, receipts, ok, bad)
  BY <1>1
<1>7. CASE Recorded(row, n, receipts)
  BY <1>1, <1>6, <1>7 DEF Observe, Call, Revised
<1>8. CASE ~Recorded(row, n, receipts) /\ ~Extends(row, n, receipts)
  BY <1>1, <1>6, <1>8 DEF Observe, Revised
<1>9. CASE ~Recorded(row, n, receipts) /\ Extends(row, n, receipts)
  <2>1. n = Len(row) + 1
    BY <1>9 DEF Extends
  <2>2. Recorded(next, n, receipts)
    BY <1>4, <2>1 DEF Recorded
  <2>3. CASE rows' = [rows EXCEPT ![name] = next]
    BY <1>2, <1>5, <2>3, <1>1, <1>6, <1>9, <1>3, <2>1, <2>2 DEF Observe, Call, Revised
  <2>4. CASE UNCHANGED rows /\ Goto(p, bad)
    BY <1>1, <2>4 DEF Revised
  <2>5. \/ rows' = [rows EXCEPT ![name] = Append(@, receipts)]
        \/ UNCHANGED rows /\ Goto(p, bad)
    BY <1>1, <1>6, <1>9 DEF Observe, Call
  <2> QED BY <1>1, <1>3, <2>3, <2>4, <2>5
<1> QED BY <1>7, <1>8, <1>9

\* A revision of an update's row.
LEMMA StandObserve ==
    ASSUME TrainInv, StandInv, NEW p \in Process, pc[p] \in Updating, NEW n \in {1, 2, 3}, NEW receipts, NEW label,
           UNCHANGED <<job, journal, me, live, opening>>, Goto(p, label),
           NEW j \in Job, NEW i \in Indices, Present(j), Revised(Update(j, i), n, receipts),
           \A k \in Job, m \in Indices : k # j \/ m # i => rows'[Update(k, m)] = rows[Update(k, m)],
           \A r \in receipts : r[1] = "checkpoint" => n = 3 /\ CheckpointStands(r[2], j),
           NEW m, NEW l, NEW o, m = me[p] /\ l = live[p] /\ o = opening[p],
           Owned(label, m, l, o), NEW s, s = State(p), Follows(label, m, l, s)'
    PROVE  StandInv'
<1>1. PICK row, next : row = rows[Update(j, i)] /\ next = rows'[Update(j, i)]
  OBVIOUS
<1>2. Tables /\ Standing /\ IsRow(row)
  BY <1>1 DEF TrainInv, StandInv, Tables, Recording
<1>3. \/ next = row
      \/ n = Len(row) + 1 /\ Len(next) = n /\ next # <<>> /\ next[Len(next)] = receipts
  BY <1>2, <1>1, AppendRow DEF Revised
<1>4. n <= 3
  OBVIOUS
<1>5. RowsGrow
  BY <1>3, <1>4, <1>1 DEF RowGrowth, RowsGrow
<1>6. NoneUntrained
  BY DEF NoneUntrained, Present
<1>7. RowStands(j, i)'
  BY <1>1, <1>2, <1>5, <1>6, <1>4, <1>3, RowStays, CheckpointStays DEF Standing, NoneUntrained,
     Newest, RowStands
<1>8. Standing'
  <2>1. ASSUME NEW k \in Job PROVE JournalStands(journal[k], k)'
    <3>1. PICK u : u = journal[k] /\ u = journal'[k]
      OBVIOUS
    <3>2. JournalStands(u, k)'
      BY <1>2, <1>5, <2>1, <3>1, JournalStays DEF Standing
    <3> QED BY <3>1, <3>2
  <2>2. \A k \in Job : ResumesWell(k)' /\ ResultStands(k)'
    BY <1>2, <1>5, LineageStands
  <2>3. \A k \in Job, h \in Indices : k # j \/ h # i => RowStands(k, h)'
    BY <1>2, <1>5, <1>6, RowStays DEF Standing, NoneUntrained
  <2> QED BY <1>7, <2>1, <2>2, <2>3 DEF Standing
<1>9. CallStands(label, m, l, o)'
  BY <1>6, SessionStays DEF StandInv, CallStands, State, Mine
<1>10. ASSUME NEW q \in Process \ {p} PROVE CallStands(pc[q], me[q], live[q], opening[q])'
  <2>1. pc[q] \notin Driving
    BY <1>10, Here DEF TrainInv, Alone, Driving
  <2>2. PICK place, a, b, d : place = pc[q] /\ a = me[q] /\ b = live[q] /\ d = opening[q]
    OBVIOUS
  <2>3. place = pc'[q] /\ a = me'[q] /\ b = live'[q] /\ d = opening'[q]
    BY <1>2, <1>10, <2>2 DEF Goto, Tables
  <2>4. CallStands(place, a, b, d)
    BY <1>10, <2>2 DEF StandInv
  <2>5. CallStands(place, a, b, d)'
    BY <1>6, <2>1, <2>2, <2>4, AsideStands
  <2> QED BY <2>3, <2>5
<1>11. Went(p, label, m, l, o)
  BY <1>2, Goes DEF Changed, StandInv
<1> QED BY <1>8, <1>9, <1>10, <1>11, StandStep

\* What an update's row is observed for.
LEMMA UpdateRowAt ==
    ASSUME TrainInv, StandInv, NEW p \in Process, pc[p] \in Ready \cup Dispatched
    PROVE  /\ pc[p] \in Working /\ pc[p] \in Updating /\ pc[p] \in Driving /\ Recording
           /\ UpdateRow(p) = Update(Mine(p), Spent(State(p))) /\ Mine(p) = me[p].job
           /\ Mine(p) \in Job /\ Spent(State(p)) \in Indices /\ Present(Mine(p)) /\ Spent(State(p)) \in Nat
  BY Here, WithinBudget, Drives DEF Working, Driving, Updating, Ready, Dispatched, Fits, State,
     UpdateRow, Present, TrainInv, Tables

LEMMA IntentStand ==
    ASSUME TrainInv, StandInv, NEW p \in Process, Intent(p)
    PROVE  StandInv'
<1>1. pc[p] = "intent" /\ UNCHANGED <<job, journal, me, live, opening>>
  BY DEF Intent, At, sessionVars
<1>2. PICK j, i, m, l, o, s : j = Mine(p) /\ i = Spent(State(p)) /\ m = me[p] /\ l = live[p] /\ o = opening[p] /\ s = State(p)
  OBVIOUS
<1>3. pc[p] \in Working /\ pc[p] \in Updating /\ j \in Job /\ i \in Indices /\ Present(j) /\ UpdateRow(p) = Update(j, i) /\ Recording
  BY <1>1, <1>2, UpdateRowAt DEF Ready
<1>4. PICK n, receipts, ok, bad : /\ Observe(p, Update(j, i), n, receipts, ok, bad)
                                  /\ n = 1 /\ receipts = {IntentReceipt(p)} /\ ok = "update" /\ bad = "unwind"
  BY <1>3 DEF Intent
<1>5. /\ Revised(Update(j, i), n, receipts)
      /\ \A k \in Job, h \in Indices : k # j \/ h # i => rows'[Update(k, h)] = rows[Update(k, h)]
      /\ \E label : Goto(p, label) /\ (label = bad \/ label = ok)
  BY <1>4, <1>3, UpdateRevised
<1>6. PICK label : Goto(p, label) /\ (label = "unwind" \/ label = "update")
  BY <1>4, <1>5
<1>7. \A r \in receipts : r[1] # "checkpoint"
  BY <1>4 DEF IntentReceipt, Receipt
<1>8. Leads(pc[p], label) /\ label \notin {"checkpoint", "updated"}
  BY <1>1, <1>6, Leading, RestingPlaces
<1>9. CallStands(label, m, l, o)
  BY <1>2, <1>3, <1>8, Drives, Led
<1>10. Owned(label, m, l, o) /\ Follows(label, m, l, s)
  BY <1>2, <1>9 DEF CallStands, State, Mine
<1>11. Follows(label, m, l, s)'
  BY <1>8, <1>10, FollowsStays
<1>12. n \in {1, 2, 3}
  BY <1>4
<1> QED BY <1>1, <1>2, <1>3, <1>5, <1>6, <1>7, <1>10, <1>11, <1>12, StandObserve

LEMMA ConfirmStand ==
    ASSUME TrainInv, StandInv, NEW p \in Process, Confirm(p)
    PROVE  StandInv'
<1>1. pc[p] = "confirm" /\ UNCHANGED <<job, journal, me, live, opening>>
  BY DEF Confirm, At, sessionVars
<1>2. PICK j, i, m, l, o, s : j = Mine(p) /\ i = Spent(State(p)) /\ m = me[p] /\ l = live[p] /\ o = opening[p] /\ s = State(p)
  OBVIOUS
<1>3. /\ pc[p] \in Working /\ pc[p] \in Updating /\ pc[p] \in Driving /\ j \in Job /\ i \in Indices /\ Present(j)
      /\ UpdateRow(p) = Update(j, i) /\ Recording /\ j = m.job
  BY <1>1, <1>2, UpdateRowAt DEF Dispatched
<1>4. Advanced(p).nonzero = m.nonzero
  BY <1>2, <1>3, Ending, JournalFields DEF Advanced
<1>5. PICK n, receipts, ok, bad : /\ Observe(p, Update(j, i), n, receipts, ok, bad)
                                  /\ n = 2 /\ receipts = {IntentReceipt(p), UpdateReceipt(p)} /\ bad = "unwind"
                                  /\ (ok = "checkpoint" /\ m.nonzero) \/ (ok = "updated" /\ ~m.nonzero)
  BY <1>3, <1>4 DEF Confirm
<1>6. n \in Nat \ {0} /\ n \in {1, 2, 3} /\ Observe(p, Update(j, i), n, receipts, ok, bad)
  BY <1>5
<1>7. /\ Revised(Update(j, i), n, receipts)
      /\ \A k \in Job, h \in Indices : k # j \/ h # i => rows'[Update(k, h)] = rows[Update(k, h)]
      /\ \E label : Goto(p, label) /\ (label = bad \/ (label = ok /\ Recorded(rows'[Update(j, i)], n, receipts)))
  BY <1>3, <1>6, UpdateRevised
<1>8. PICK label : Goto(p, label) /\ (label = bad \/ (label = ok /\ Recorded(rows'[Update(j, i)], n, receipts)))
  BY <1>7
<1>9. \A r \in receipts : r[1] # "checkpoint"
  BY <1>5 DEF IntentReceipt, UpdateReceipt, Receipt
<1>10. Owned(label, m, l, o) /\ Follows(label, m, l, s)'
  <2>1. CASE label = "unwind"
    BY <2>1, Rests, RestingPlaces, FollowsStays
  <2>2. CASE label = ok /\ Recorded(rows'[Update(j, i)], n, receipts)
    <3>1. label = "checkpoint" \/ label = "updated"
      BY <1>5, <2>2
    <3>2. Owned(label, m, l, o)
      BY <1>2, <1>3, <3>1, Drives DEF Owned, Publishing
    <3>3. Follows("confirm", m, l, s)
      BY <1>1, <1>2, <1>3, Drives
    <3>4. l.weights = Append(Weights(s), Update(m.job, Spent(s))) /\ (s.nonzero => m.nonzero)
      BY <3>3 DEF Follows, Dispatched
    <3>5. Len(rows'[Update(j, i)]) >= 2
      <4>1. PICK k : k = Len(rows'[Update(j, i)])
        OBVIOUS
      <4>2. 2 <= k
        BY <1>5, <2>2, <4>1 DEF Recorded
      <4> QED BY <4>1, <4>2
    <3>6. m.job = j /\ Spent(s) = i /\ (label = "checkpoint" => m.nonzero) /\ (label = "updated" => ~m.nonzero)
      BY <1>2, <1>3, <1>5, <2>2
    <3> QED BY <3>1, <3>2, <3>4, <3>5, <3>6 DEF Follows, Loaded, Gathering, Taking, Ready
  <2> QED BY <1>5, <1>8, <2>1, <2>2
<1> QED BY <1>1, <1>2, <1>3, <1>6, <1>7, <1>8, <1>9, <1>10, StandObserve

LEMMA SelectCheckpointStand ==
    ASSUME TrainInv, StandInv, NEW p \in Process, SelectCheckpoint(p)
    PROVE  StandInv'
<1>1. pc[p] = "checkpoint" /\ UNCHANGED <<job, journal, me, live, opening>>
  BY DEF SelectCheckpoint, At, sessionVars
<1>2. PICK j, i, m, l, o, s : j = Mine(p) /\ i = Spent(State(p)) /\ m = me[p] /\ l = live[p] /\ o = opening[p] /\ s = State(p)
  OBVIOUS
<1>3. /\ pc[p] \in Working /\ pc[p] \in Updating /\ pc[p] \in Driving /\ j \in Job /\ i \in Indices /\ Present(j)
      /\ UpdateRow(p) = Update(j, i) /\ Recording /\ j = m.job
  BY <1>1, <1>2, UpdateRowAt DEF Dispatched
<1>4. PICK c : c = Checkpoint(p)
  OBVIOUS
<1>5. c = Taken(m, s, l) /\ CheckpointStands(c, j)
  BY <1>2, <1>3, <1>4, <1>1, Ending, JournalFields, DispatchedConfirmed DEF Checkpoint, Advanced,
     Taken
<1>6. PICK n, receipts, ok, bad : /\ Observe(p, Update(j, i), n, receipts, ok, bad) /\ n = 3 /\ ok = "updated" /\ bad = "unwind"
                                  /\ receipts = {IntentReceipt(p), UpdateReceipt(p), Receipt("checkpoint", c)}
  BY <1>3, <1>4 DEF SelectCheckpoint
<1>7. n \in Nat \ {0} /\ n \in {1, 2, 3} /\ Observe(p, Update(j, i), n, receipts, ok, bad)
  BY <1>6
<1>8. /\ Revised(Update(j, i), n, receipts)
      /\ \A k \in Job, h \in Indices : k # j \/ h # i => rows'[Update(k, h)] = rows[Update(k, h)]
      /\ \E label : Goto(p, label) /\ (label = bad \/ (label = ok /\ Recorded(rows'[Update(j, i)], n, receipts)))
  BY <1>3, <1>7, UpdateRevised
<1>9. PICK label : Goto(p, label) /\ (label = bad \/ (label = ok /\ Recorded(rows'[Update(j, i)], n, receipts)))
  BY <1>8
<1>10. \A r \in receipts : r[1] = "checkpoint" => n = 3 /\ CheckpointStands(r[2], j)
  BY <1>5, <1>6 DEF IntentReceipt, UpdateReceipt, Receipt
<1>11. Owned(label, m, l, o) /\ Follows(label, m, l, s)'
  <2>1. CASE label = "unwind"
    BY <2>1, Rests, RestingPlaces, FollowsStays
  <2>2. CASE label = "updated" /\ Recorded(rows'[Update(j, i)], n, receipts)
    <3>1. Follows("checkpoint", m, l, s)
      BY <1>1, <1>2, <1>3, Drives
    <3>2. /\ l.weights = Append(Weights(s), Update(m.job, Spent(s))) /\ (s.nonzero => m.nonzero)
      BY <3>1 DEF Follows, Dispatched
    <3>3. Owned(label, m, l, o)
      BY <1>2, <1>3, <2>2, Drives DEF Owned, Publishing
    <3>4. PICK k : k = Len(rows'[Update(j, i)])
      OBVIOUS
    <3>5. 3 <= k /\ rows'[Update(j, i)][3] = receipts
      BY <1>6, <2>2, <3>4 DEF Recorded
    <3>6. k = 3
      <4>1. PICK row : row = rows[Update(j, i)] /\ IsRow(row) /\ Len(row) <= 3
        BY <1>3 DEF Recording, StandInv, Standing, RowStands
      <4>2. Len(row) \in Nat
        BY <4>1 DEF IsRow
      <4>3. Len(Append(row, receipts)) = Len(row) + 1
        BY <4>1, AppendRow
      <4>4. k = Len(row) \/ (3 = Len(row) + 1 /\ k = Len(row) + 1)
        BY <1>6, <1>8, <3>4, <4>1, <4>3 DEF Revised
      <4>5. PICK h : h = Len(row)
        OBVIOUS
      <4>6. k \in Nat /\ k <= 3
        BY <4>1, <4>2, <4>4, <4>5
      <4> QED BY <3>5, <4>6
    <3>7. rows'[Update(j, i)] # <<>>
      <4>1. Len(<<>>) # 3
        OBVIOUS
      <4> QED BY <3>4, <3>6, <4>1
    <3>8. Receipt("checkpoint", Taken(m, s, l)) \in Newest(Update(j, i))'
      BY <1>5, <1>6, <3>4, <3>5, <3>6, <3>7 DEF Newest
    <3>9. m.job = j /\ Spent(s) = i
      BY <1>2, <1>3
    <3>10. Len(rows'[Update(j, i)]) >= 2
      BY <3>4, <3>6
    <3> QED BY <2>2, <3>2, <3>3, <3>8, <3>9, <3>10 DEF Follows, Loaded, Gathering, Taking, Ready
  <2> QED BY <1>6, <1>9, <2>1, <2>2
<1> QED BY <1>1, <1>2, <1>3, <1>7, <1>8, <1>9, <1>10, <1>11, StandObserve
-----------------------------------------------------------------------------
(* Steps that change what the registry says of a job.                      *)

LEMMA StandJob ==
    ASSUME TrainInv, StandInv, NEW p \in Process, NEW label, NEW m, NEW l, NEW o, Went(p, label, m, l, o),
           UNCHANGED <<rows, journal>>, NEW j \in Job, \A k \in Job \ {j} : job'[k] = job[k],
           Claimed(j)' /\ j \notin First =>
               /\ job'[j].resume.job \in Job \ {j} /\ job'[j].resume \in Checkpoints(job'[j].resume.job),
           job'[j].state = "completed" /\ job'[j].result.disposition = "SUCCESS" =>
               /\ job'[j].result.checkpoint \in Checkpoints(j) /\ Spent(job'[j].result.checkpoint) = MaxUpdates,
           CallStands(label, m, l, o), label \notin {"checkpoint", "updated"}
    PROVE  StandInv'
<1>1. Tables /\ RowsKept /\ RowsGrow /\ Standing
  BY SameRowsKept, KeptRowsGrow DEF TrainInv, StandInv
<1>2. NoneUntrained
  BY DEF NoneUntrained, Untrained, Present
<1>3. \A k : Checkpoints(k)' = Checkpoints(k)
  BY DEF Checkpoints, Newest
<1>4. Standing'
  <2>1. ASSUME NEW k \in Job PROVE JournalStands(journal[k], k)'
    <3>1. PICK s : s = journal[k] /\ s = journal'[k]
      OBVIOUS
    <3>2. JournalStands(s, k)'
      BY <1>1, <2>1, <3>1, JournalStays DEF Standing
    <3> QED BY <3>1, <3>2
  <2>2. ASSUME NEW k \in Job PROVE ResumesWell(k)' /\ ResultStands(k)'
    BY <1>3, <1>1, <2>2 DEF ResumesWell, ResultStands, Standing, Claimed
  <2>3. \A k \in Job, i \in Indices : RowStands(k, i)'
    BY <1>1, RowStays DEF Standing, RowsKept, Present
  <2> QED BY <2>1, <2>2, <2>3 DEF Standing
<1>5. ASSUME NEW place, NEW n, NEW k, NEW u, CallStands(place, n, k, u)
      PROVE  CallStands(place, n, k, u)'
  <2>1. PICK s : s = journal[n.job] /\ s = journal'[n.job]
    OBVIOUS
  <2>2. Follows(place, n, k, s)'
    BY <1>5, <2>1, FollowsStays DEF CallStands
  <2>3. SessionStands(k)'
    BY <1>2, <1>5, SessionStays DEF CallStands
  <2> QED BY <1>5, <2>1, <2>2, <2>3 DEF CallStands
<1>6. ASSUME NEW q \in Process \ {p} PROVE CallStands(pc[q], me[q], live[q], opening[q])'
  <2>1. PICK place, n, k, u : place = pc[q] /\ n = me[q] /\ k = live[q] /\ u = opening[q]
    OBVIOUS
  <2>2. place = pc'[q] /\ n = me'[q] /\ k = live'[q] /\ u = opening'[q]
    BY <1>6, <2>1 DEF Went
  <2>3. CallStands(place, n, k, u)'
    BY <1>5, <1>6, <2>1 DEF StandInv
  <2> QED BY <2>2, <2>3
<1> QED BY <1>4, <1>5, <1>6, StandStep

LEMMA TrainStand ==
    ASSUME TrainInv, StandInv, NEW p \in Process, NEW j \in Job,
           NEW c \in {Nothing} \cup UNION {Checkpoints(k) : k \in Job \ {j}}, Train(p, j, c)
    PROVE  StandInv'
<1>1. UNCHANGED <<rows, journal, live, opening>> /\ Tables
  BY DEF Train, sessionVars, TrainInv
<1>2. PICK m : m.job = j /\ m.outcome = "BLOCKED" /\ me' = [me EXCEPT ![p] = m]
  BY DEF Train, Idle
<1>3. PICK l, o : l = live[p] /\ o = opening[p]
  OBVIOUS
<1>4. Changed(me, me', p, m) /\ Changed(live, live', p, l) /\ Changed(opening, opening', p, o)
  BY <1>1, <1>2, <1>3 DEF Changed
<1>5. SessionStands(l) /\ (o = Nothing \/ IsOpening(o)) /\ DOMAIN opening = Process
  BY <1>3 DEF StandInv, CallStands
<1>6. CASE UNCHANGED job /\ Goto(p, "unwind")
  BY <1>1, <1>4, <1>5, <1>6, RestingPlaces, SameRowsKept, StandRest
<1> DEFINE root == IF c = Nothing THEN j ELSE job[c.job].root
           claimed == [job EXCEPT ![j].state = "running", ![j].resume = c, ![j].root = root]
<1>7. CASE ~\E held \in {live[p], opening[p]} \ {Nothing} : held.job # j
  <2>1. Call(p, job' = claimed, UNCHANGED job, "load", "unwind")
    BY <1>7 DEF Train
  <2>2. PICK label : /\ Goto(p, label) /\ (label = "load" \/ label = "unwind")
                     /\ job' = claimed \/ (UNCHANGED job /\ label = "unwind")
    BY <2>1 DEF Call
  <2>3. CASE job' = claimed
    <3>1. /\ \A k \in Job \ {j} : job'[k] = job[k]
          /\ job'[j].state = "running" /\ job'[j].resume = c
      BY <1>1, <2>3 DEF Tables
    <3>2. j \notin First => c.job \in Job \ {j} /\ c \in Checkpoints(c.job)
      <4> SUFFICES ASSUME j \notin First PROVE c.job \in Job \ {j} /\ c \in Checkpoints(c.job)
        OBVIOUS
      <4>1. c # Nothing
        BY DEF Train
      <4>2. PICK k \in Job \ {j} : c \in Checkpoints(k)
        BY <4>1
      <4>3. PICK i \in Indices : \E r \in Newest(Update(k, i)) : r[1] = "checkpoint" /\ r[2] = c
        BY <4>2 DEF Checkpoints
      <4>4. c.job = k
        BY <4>3 DEF StandInv, Standing, RowStands, CheckpointStands
      <4> QED BY <4>2, <4>4
    <3>3. Owned(label, m, l, o)
      BY <1>3, <1>7, <2>2, <1>2 DEF Publishing, Owned
    <3>4. label \notin {"checkpoint", "updated"} /\ \A s : Follows(label, m, l, s)
      BY <2>2 DEF Follows, Loaded, Dispatched, Gathering, Taking, Ready
    <3>5. CallStands(label, m, l, o)
      BY <1>5, <3>3, <3>4 DEF CallStands
    <3>6. Went(p, label, m, l, o)
      BY <1>1, <1>4, <1>5, <2>2, Goes
    <3> HIDE DEF claimed
    <3> QED BY <1>1, <3>1, <3>2, <3>4, <3>5, <3>6, StandJob
  <2> QED BY <1>6, <2>2, <2>3
<1> QED BY <1>6, <1>7 DEF Train

LEMMA CompleteStand ==
    ASSUME TrainInv, StandInv, NEW p \in Process, Complete(p)
    PROVE  StandInv'
<1>1. UNCHANGED <<rows, journal, live, opening>> /\ pc[p] = "complete" /\ Tables
  BY DEF Complete, At, sessionVars, TrainInv
<1>2. PICK j, s : j = Mine(p) /\ s = State(p)
  OBVIOUS
<1>3. j \in Job /\ s = journal[j] /\ Claimed(j)
  BY <1>1, <1>2, Here DEF Driving, State
<1>4. PICK l, o : l = live[p] /\ o = opening[p]
  OBVIOUS
<1>5. Changed(me, me', p, Idle) /\ Changed(live, live', p, l) /\ Changed(opening, opening', p, o)
  BY <1>1, <1>4 DEF Changed, Complete
<1>6. SessionStands(l) /\ (o = Nothing \/ IsOpening(o)) /\ DOMAIN opening = Process
  BY <1>4 DEF StandInv, CallStands
<1> DEFINE result == [disposition |-> State(p).outcome,
                      checkpoint |-> IF Selected(p) THEN State(p).checkpoint ELSE Nothing]
<1>7. PICK label : /\ Goto(p, label) /\ (label = "idle" \/ label = "unwind")
                   /\ \/ UNCHANGED job
                      \/ job' = [job EXCEPT ![Mine(p)].state = "completed", ![Mine(p)].result = result]
  BY DEF Complete, Call
<1>8. Resting(label) /\ RowsKept
  BY <1>1, <1>7, RestingPlaces, SameRowsKept
<1>9. CASE UNCHANGED job
  BY <1>1, <1>5, <1>6, <1>7, <1>8, <1>9, StandRest
<1>10. CASE job' = [job EXCEPT ![j].state = "completed", ![j].result = result]
  <2>1. result.disposition = s.outcome /\ (Selected(p) => result.checkpoint = s.checkpoint)
    BY <1>2
  <2> HIDE DEF result
  <2>2. /\ \A k \in Job \ {j} : job'[k] = job[k]
        /\ job'[j].result = result /\ job'[j].resume = job[j].resume
    BY <1>1, <1>3, <1>10 DEF Tables
  <2>3. j \notin First => job[j].resume.job \in Job \ {j} /\ job[j].resume \in Checkpoints(job[j].resume.job)
    BY <1>3 DEF TrainInv, Lineages, StandInv, Standing, ResumesWell
  <2>4. s.outcome = "SUCCESS" => result.checkpoint \in Checkpoints(j) /\ Spent(result.checkpoint) = MaxUpdates
    <3> SUFFICES ASSUME s.outcome = "SUCCESS"
                 PROVE  result.checkpoint \in Checkpoints(j) /\ Spent(result.checkpoint) = MaxUpdates
      OBVIOUS
    <3>1. JournalStands(s, j)
      BY <1>3 DEF StandInv, Standing
    <3>2. s.checkpoint # Nothing /\ s.checkpoint.job = j /\ Spent(s) = MaxUpdates
      BY <3>1 DEF JournalStands
    <3>3. result.checkpoint = s.checkpoint
      BY <1>2, <2>1, <3>2 DEF Selected
    <3>4. s.checkpoint \in Checkpoints(j) /\ s.checkpoint.updates = s.updates /\ s.checkpoint.unknown = s.unknown
      BY <3>1, <3>2 DEF JournalStands
    <3>5. Spent(s.checkpoint) = Spent(s)
      BY <3>4 DEF Spent
    <3> QED BY <3>2, <3>3, <3>4, <3>5
  <2>5. CallStands(label, Idle, l, o) /\ label \notin {"checkpoint", "updated"}
    BY <1>6, <1>8, Rests, RestingPlaces DEF CallStands
  <2>6. Went(p, label, Idle, l, o)
    BY <1>1, <1>5, <1>6, <1>7, Goes
  <2> QED BY <1>1, <1>3, <2>1, <2>2, <2>3, <2>4, <2>5, <2>6, StandJob
<1> QED BY <1>2, <1>7, <1>9, <1>10
-----------------------------------------------------------------------------
(* Every step.                                                             *)

LEMMA StandStutters ==
    ASSUME TrainInv, StandInv, UNCHANGED vars
    PROVE  StandInv'
<1>1. UNCHANGED <<rows, pc, job, journal, live, opening, me>>
  BY DEF vars, ledgerVars, sessionVars, workVars
<1>2. Standing'
  BY <1>1, SameRowsKept, StandingStays DEF StandInv
<1>3. NoneUntrained
  BY <1>1 DEF NoneUntrained, Untrained, Present
<1>4. ASSUME NEW q \in Process PROVE CallStands(pc[q], me[q], live[q], opening[q])'
  <2>1. PICK place, n, k, u, s : /\ place = pc[q] /\ n = me[q] /\ k = live[q] /\ u = opening[q]
                                 /\ s = journal[n.job] /\ s = journal'[n.job]
    BY <1>1
  <2>2. CallStands(place, n, k, u)
    BY <1>4, <2>1 DEF StandInv
  <2>3. Follows(place, n, k, s)'
    BY <1>1, <2>1, <2>2, FollowsStays DEF CallStands
  <2>4. SessionStands(k)'
    BY <1>3, <2>2, SessionStays DEF CallStands
  <2>5. CallStands(place, n, k, u)'
    BY <2>1, <2>2, <2>3, <2>4 DEF CallStands
  <2> QED BY <1>1, <2>1, <2>5
<1> QED BY <1>1, <1>2, <1>4 DEF StandInv

LEMMA StandStays ==
    ASSUME NothingIsApart, TrainInv, StandInv, [Next]_vars
    PROVE  StandInv'
<1> SUFFICES ASSUME NEW p \in Process,
                    \/ \E j \in Job : \E c \in {Nothing} \cup UNION {Checkpoints(k) : k \in Job \ {j}} : Train(p, j, c)
                    \/ Step(p)
             PROVE  StandInv'
  BY StandStutters DEF Next
<1>1. CASE \E j \in Job : \E c \in {Nothing} \cup UNION {Checkpoints(k) : k \in Job \ {j}} : Train(p, j, c)
  BY <1>1, TrainStand
<1>2. CASE StandMoving(p)
  BY <1>2, StandMoves
<1>3. CASE Load(p) \/ Supersede(p) \/ Begin(p)
  BY <1>3, LoadStand, SupersedeStand, BeginStand
<1>4. CASE Open(p) \/ Construct(p) \/ PublishStartup(p) \/ Restore(p) \/ Collecting(p)
  BY <1>4, OpenStand, ConstructStand, PublishStartupStand, RestoreStand, CollectingStand
<1>5. CASE Loop(p) \/ Collect(p) \/ Classify(p) \/ Batch(p) \/ Prepare(p)
  BY <1>5, LoopStand, CollectStand, ClassifyStand, BatchStand, PrepareStand
<1>6. CASE Intent(p) \/ DispatchUpdate(p) \/ Confirm(p) \/ SelectCheckpoint(p) \/ Updated(p)
  BY <1>6, IntentStand, DispatchStand, ConfirmStand, SelectCheckpointStand, UpdatedStand
<1>7. CASE Finish(p) \/ Freeze(p) \/ Complete(p)
  BY <1>7, FinishStand, FreezeStand, CompleteStand
<1>8. CASE TerminalClose(p) \/ Close(p) \/ Shut(p) \/ PublishShutdown(p)
  BY <1>8, TerminalCloseStand, CloseStand, ShutStand, PublishShutdownStand
<1>9. CASE Abort(p) \/ PublishAbort(p) \/ Crash(p)
  BY <1>9, AbortStand, CrashStand
<1> QED BY <1>1, <1>2, <1>3, <1>4, <1>5, <1>6, <1>7, <1>8, <1>9 DEF Step, StandMoving

LEMMA StandsConfirmed ==
    ASSUME StandInv
    PROVE  CheckpointConfirmed
<1> SUFFICES ASSUME NEW j \in Job, NEW c \in Checkpoints(j)
             PROVE  /\ Len(c.native) = c.updates
                    /\ \A k \in DOMAIN c.native : Len(rows[c.native[k]]) >= 2
                    /\ \A k, m \in DOMAIN c.native : c.native[k] = c.native[m] => k = m
  BY DEF CheckpointConfirmed
<1>1. PICK i \in Indices : \E r \in Newest(Update(j, i)) : r[1] = "checkpoint" /\ r[2] = c
  BY DEF Checkpoints
<1>2. Confirmed(c.native, c.updates)
  BY <1>1 DEF StandInv, Standing, RowStands, CheckpointStands
<1> QED BY <1>2 DEF Confirmed

LEMMA StandsNewest ==
    ASSUME StandInv
    PROVE  SelectedNewest
<1> SUFFICES ASSUME NEW j \in Job, job[j].state = "completed", job[j].result.disposition = "SUCCESS"
             PROVE  LET c == job[j].result.checkpoint IN
                    c \in Checkpoints(j) /\ Spent(c) = MaxUpdates /\ Later(c) = {}
  BY DEF SelectedNewest
<1>1. PICK c : c = job[j].result.checkpoint
  OBVIOUS
<1>2. c \in Checkpoints(j) /\ Spent(c) = MaxUpdates
  BY <1>1 DEF StandInv, Standing, ResultStands
<1>3. \A i \in Indices : ~(i >= MaxUpdates)
  BY UpdateAssumption DEF Indices
<1>4. Later(c) = {}
  BY <1>2, <1>3 DEF Later
<1> QED BY <1>1, <1>2, <1>4

\* The tensors of a checkpoint are exactly the updates that its lineage confirmed, each once; a
\* job that succeeds selects a checkpoint of its own, after which nothing was dispatched for it;
\* and the sessions are closed, as far as the keys of their shutdowns let them be
\* (training/service.py: _update, _validate_checkpoint, _finish, _close_live).
THEOREM CheckpointsStayConfirmed == ASSUME NothingIsApart PROVE Spec => []CheckpointsStand
<1>1. Init => ShutInv /\ StandInv
  BY ShutInitial, InitialStands
<1>2. ShutInv /\ StandInv /\ TrainInv /\ [Next]_vars => ShutInv' /\ StandInv'
  BY ShutStays, StandStays
<1>3. ShutInv /\ StandInv => CheckpointsStand
  BY StandsConfirmed, StandsNewest DEF ShutInv, CheckpointsStand
<1> QED BY <1>1, <1>2, <1>3, TrainInvariant, PTL DEF Spec

-----------------------------------------------------------------------------
(* The native backend: what is left of an operation.                       *)

\* synchronize, and the rest of it.
Sync1 == <<"probe">>
Sync2 == <<"broadcast", "probe">>
Sync3 == <<"ensure", "broadcast", "probe">>
Sync4 == <<"begin", "ensure", "broadcast", "probe">>
\* What precedes it in a construction, an update, a resume and an activation.
Open1 == <<"ready", "begin", "ensure", "broadcast", "probe">>
Open2 == <<"broadcast", "ready", "begin", "ensure", "broadcast", "probe">>
Open3 == <<"ensure", "broadcast", "ready", "begin", "ensure", "broadcast", "probe">>
Up1 == <<"export", "begin", "ensure", "broadcast", "probe">>
Up2 == <<"ensure", "export", "begin", "ensure", "broadcast", "probe">>
Up3 == <<"ready", "ensure", "export", "begin", "ensure", "broadcast", "probe">>
Up4 == <<"broadcast", "ready", "ensure", "export", "begin", "ensure", "broadcast", "probe">>
Up5 == <<"ensure", "broadcast", "ready", "ensure", "export", "begin", "ensure", "broadcast", "probe">>
Up6 == <<"train", "ensure", "broadcast", "ready", "ensure", "export", "begin", "ensure", "broadcast", "probe">>
Up7 == <<"sleep", "train", "ensure", "broadcast", "ready", "ensure", "export", "begin", "ensure", "broadcast", "probe">>
Load1 == <<"load", "begin", "ensure", "broadcast", "probe">>
Init1 == <<"init", "begin", "ensure", "broadcast", "probe">>
Init2 == <<"revoke", "init", "begin", "ensure", "broadcast", "probe">>
\* save_reload ends with a comparison.
Save1 == <<"compare">>
Save2 == <<"probe", "compare">>
Save3 == <<"broadcast", "probe", "compare">>
Save4 == <<"ensure", "broadcast", "probe", "compare">>
Save5 == <<"begin", "ensure", "broadcast", "probe", "compare">>
Save6 == <<"load", "begin", "ensure", "broadcast", "probe", "compare">>
Save7 == <<"save", "load", "begin", "ensure", "broadcast", "probe", "compare">>
Save8 == <<"ensure", "save", "load", "begin", "ensure", "broadcast", "probe", "compare">>

\* Where a step leads.
Gives(s, x, rest) == s # <<>> /\ Head(s) = x /\ Tail(s) = rest /\ (Len(s) = 1 <=> rest = <<>>)

LEMMA SyncLeads ==
    /\ Gives(Sync4, "begin", Sync3) /\ Gives(Sync3, "ensure", Sync2)
    /\ Gives(Sync2, "broadcast", Sync1) /\ Gives(Sync1, "probe", <<>>)
    /\ Gives(Open3, "ensure", Open2) /\ Gives(Open2, "broadcast", Open1) /\ Gives(Open1, "ready", Sync4)
    /\ Gives(Load1, "load", Sync4) /\ Gives(Init2, "revoke", Init1) /\ Gives(Init1, "init", Sync4)
    /\ Gives(<<"start">>, "start", <<>>)
BY DEF Gives, Sync1, Sync2, Sync3, Sync4, Open1, Open2, Open3, Load1, Init1, Init2

LEMMA UpLeads ==
    /\ Gives(Up7, "sleep", Up6) /\ Gives(Up6, "train", Up5) /\ Gives(Up5, "ensure", Up4)
    /\ Gives(Up4, "broadcast", Up3) /\ Gives(Up3, "ready", Up2) /\ Gives(Up2, "ensure", Up1)
    /\ Gives(Up1, "export", Sync4)
BY DEF Gives, Sync4, Up1, Up2, Up3, Up4, Up5, Up6, Up7

LEMMA SaveLeads ==
    /\ Gives(Save8, "ensure", Save7) /\ Gives(Save7, "save", Save6) /\ Gives(Save6, "load", Save5)
    /\ Gives(Save5, "begin", Save4) /\ Gives(Save4, "ensure", Save3) /\ Gives(Save3, "broadcast", Save2)
    /\ Gives(Save2, "probe", Save1) /\ Gives(Save1, "compare", <<>>)
BY DEF Gives, Save1, Save2, Save3, Save4, Save5, Save6, Save7, Save8

Concats(u, s, t) ==
    /\ Len(u) = Len(s) + Len(t)
    /\ \A i \in 1..Len(u) : u[i] = IF i <= Len(s) THEN s[i] ELSE t[i - Len(s)]

LEMMA ConcatIs ==
    ASSUME NEW S, NEW s \in Seq(S), NEW t \in Seq(S), NEW u \in Seq(S), Concats(u, s, t)
    PROVE  s \o t = u
<1>1. /\ s \o t \in Seq(S) /\ Len(s \o t) = Len(u)
      /\ \A i \in 1..Len(u) : (s \o t)[i] = IF i <= Len(s) THEN s[i] ELSE t[i - Len(s)]
  BY DEF Concats
<1>2. \A i \in 1..Len(u) : (s \o t)[i] = u[i]
  BY <1>1 DEF Concats
<1> QED BY <1>1, <1>2, SeqEqual

LEMMA PlansStart ==
    /\ Backend!Synchronize = Sync4 /\ <<>> \o Backend!Synchronize = Sync4
    /\ <<"load">> \o Backend!Synchronize = Load1
    /\ <<"revoke", "init">> \o Backend!Synchronize = Init2
    /\ <<"ensure", "broadcast", "ready">> \o Backend!Synchronize = Open3
    /\ <<"sleep", "train", "ensure", "broadcast", "ready", "ensure", "export">> \o Backend!Synchronize = Up7
    /\ <<"ensure", "save", "load">> \o Backend!Synchronize \o <<"compare">> = Save8
<1> DEFINE S == {"begin", "ensure", "broadcast", "probe", "load", "revoke", "init", "ready", "sleep", "train",
                 "export", "save", "compare"}
           V == <<"ensure", "save", "load", "begin", "ensure", "broadcast", "probe">>
<1>1. Backend!Synchronize = Sync4
  BY DEF Backend!Synchronize, Sync4
<1>2. Sync4 \in Seq(S) /\ Load1 \in Seq(S) /\ Init2 \in Seq(S) /\ Open3 \in Seq(S) /\ Up7 \in Seq(S) /\ Save8 \in Seq(S)
  BY DEF Sync4, Load1, Init2, Open3, Up7, Save8
<1>3. V \in Seq(S) /\ <<"load">> \in Seq(S) /\ <<"revoke", "init">> \in Seq(S) /\ <<"compare">> \in Seq(S)
  OBVIOUS
<1>4. /\ <<"ensure", "broadcast", "ready">> \in Seq(S) /\ <<"ensure", "save", "load">> \in Seq(S)
      /\ <<"sleep", "train", "ensure", "broadcast", "ready", "ensure", "export">> \in Seq(S)
  OBVIOUS
<1> HIDE DEF S
<1>5. Concats(Load1, <<"load">>, Sync4) /\ Concats(Init2, <<"revoke", "init">>, Sync4)
  BY DEF Concats, Sync4, Load1, Init2
<1>6. Concats(Open3, <<"ensure", "broadcast", "ready">>, Sync4) /\ Concats(V, <<"ensure", "save", "load">>, Sync4)
  BY DEF Concats, Sync4, Open3
<1>7. Concats(Up7, <<"sleep", "train", "ensure", "broadcast", "ready", "ensure", "export">>, Sync4)
  BY DEF Concats, Sync4, Up7
<1>8. Concats(Save8, V, <<"compare">>)
  BY DEF Concats, Save8
<1> HIDE DEF V
<1>9. <<>> \o Sync4 = Sync4
  BY <1>2, ConcatEmptySeq
<1> QED BY <1>1, <1>2, <1>3, <1>4, <1>5, <1>6, <1>7, <1>8, <1>9, ConcatIs

\* What the sums are, for batches of up to three groups.
LEMMA SumsOf ==
    ASSUME NEW groups, Len(groups) \in 1..3, \A g \in 1..Len(groups) : groups[g] \in Nat
    PROVE  LET sum == Backend!Sums(groups) IN
           /\ sum[0] = 0 /\ sum[1] = groups[1]
           /\ Len(groups) >= 2 => sum[2] = groups[1] + groups[2]
           /\ Len(groups) = 3 => sum[3] = groups[1] + groups[2] + groups[3]
<1> DEFINE n == Len(groups)
           Is(h) == h = [g \in 0..n |-> IF g = 0 THEN 0 ELSE h[g - 1] + groups[g]]
           T == [g \in 0..n |-> CASE g = 0 -> 0 [] g = 1 -> groups[1] [] g = 2 -> groups[1] + groups[2]
                                  [] OTHER -> groups[1] + groups[2] + groups[3]]
<1>1. n \in 1..3
  OBVIOUS
<1>2. Is(T)
  <2>1. \A g \in 0..n : T[g] = IF g = 0 THEN 0 ELSE T[g - 1] + groups[g]
    <3> TAKE g \in 0..n
    <3>1. g \in {0, 1, 2, 3}
      BY <1>1
    <3> HIDE DEF n
    <3>2. CASE g = 0
      BY <3>2
    <3>3. CASE g = 1
      BY <3>3, <1>1
    <3>4. CASE g = 2
      BY <3>4, <1>1
    <3>5. CASE g = 3
      BY <3>5, <1>1
    <3> QED BY <3>1, <3>2, <3>3, <3>4, <3>5
  <2>2. T = [g \in 0..n |-> T[g]]
    OBVIOUS
  <2> HIDE DEF n, T
  <2> QED BY <2>1, <2>2
<1>3. PICK sum : sum = Backend!Sums(groups)
  OBVIOUS
<1>4. Is(sum)
  <2>1. sum = CHOOSE h : Is(h)
    BY <1>3 DEF Backend!Sums
  <2> HIDE DEF Is
  <2> QED BY <1>2, <2>1
<1>5. sum[0] = 0 /\ sum[1] = sum[0] + groups[1]
  BY <1>1, <1>4
<1>6. n >= 2 => sum[2] = sum[1] + groups[2]
  BY <1>1, <1>4
<1>7. n = 3 => sum[3] = sum[2] + groups[3]
  BY <1>1, <1>4
<1> HIDE DEF Is, T
<1> QED BY <1>1, <1>3, <1>5, <1>6, <1>7

\* The minibatches of an update are the rows of whole groups.
LEMMA BoundariesWhole ==
    ASSUME NEW groups \in Backend!Batches
    PROVE  Backend!Whole(groups, Backend!Boundaries(groups, Backend!MiniBatchGroups))
<1> DEFINE n == Len(groups)
           m == IF n = 3 THEN 2 ELSE 1
           parts == Backend!Boundaries(groups, 2)
           Upto(b) == IF b * 2 < n THEN b * 2 ELSE n
<1>1. n \in {1, 2, 3} /\ \A g \in 1..n : groups[g] \in Nat
  BY DEF Backend!Batches
<1>2. PICK sum : sum = Backend!Sums(groups)
  OBVIOUS
<1>3. /\ sum[0] = 0 /\ sum[1] = groups[1]
      /\ n >= 2 => sum[2] = groups[1] + groups[2]
      /\ n = 3 => sum[3] = groups[1] + groups[2] + groups[3]
  BY <1>1, <1>2, SumsOf
<1>4. (1 + 2 - 1) \div 2 = 1 /\ (2 + 2 - 1) \div 2 = 1 /\ (3 + 2 - 1) \div 2 = 2
  OBVIOUS
<1>5. parts = [b \in 1..(n + 2 - 1) \div 2 |-> <<sum[(b - 1) * 2] + 1, sum[Upto(b)]>>]
  BY <1>2 DEF Backend!Boundaries
<1> HIDE DEF n, parts
<1>6. (n + 2 - 1) \div 2 = m
  BY <1>1, <1>4
<1>7. m \in {1, 2} /\ (m = 2 <=> n = 3)
  BY <1>1
<1> HIDE DEF m
<1>8. parts = [b \in 1..m |-> <<sum[(b - 1) * 2] + 1, sum[Upto(b)]>>]
  BY <1>5, <1>6
<1>9. Len(parts) = m
  BY <1>7, <1>8
<1>10. parts[1] = <<1, sum[IF 2 < n THEN 2 ELSE n]>>
  BY <1>1, <1>3, <1>7, <1>8
<1>11. n = 3 => parts[2] = <<sum[2] + 1, sum[3]>>
  BY <1>1, <1>7, <1>8
<1>12. ASSUME NEW b \in 1..Len(parts)
       PROVE  /\ parts[b][1] = IF b = 1 THEN 1 ELSE parts[b - 1][2] + 1
              /\ \E k \in 1..n : parts[b][2] = sum[k]
              /\ b = Len(parts) => parts[b][2] = sum[n]
  BY <1>7, <1>9, <1>10, <1>11, <1>1
<1> QED BY <1>2, <1>12 DEF Backend!Whole, Backend!MiniBatchGroups, parts, n

-----------------------------------------------------------------------------
(* What a session of the native backend knows.                             *)

Silent == barrier.acknowledged = {}

\* The workers hold what the policy names; an evaluation never asks for the step.
Held(p) == trainer.tensors = p.weights /\ (driver = "train" => trainer.step = p.step)
Answers(p) == \A w \in Worker : engine.served[w] = p.weights
Heard == \E w \in Worker : engine.served[w] = trainer.tensors

\* A policy that was exported, under its own step.
Exported(p) == p.step \in 1..MaxContents /\ p.weights \in Nat /\ disk[p.step].export = p.weights

SessionShape(s) ==
    s = [mode |-> s.mode, todo |-> s.todo, target |-> s.target, policy |-> s.policy,
         ready |-> s.ready, probed |-> s.probed, before |-> s.before, active |-> s.active]

BackendShape ==
    /\ SessionShape(session) /\ driver \in {"train", "arms"} /\ made \in Nat
    /\ trainer = [tensors |-> trainer.tensors, step |-> trainer.step]
    /\ trainer.tensors \in Nat /\ trainer.step \in Nat
    /\ engine = [served |-> engine.served, awake |-> engine.awake] /\ engine.awake \subseteq Worker
    /\ disk = [n \in Backend!Contents |-> disk[n]]
    /\ \A n \in Backend!Contents :
          /\ disk[n] = [export |-> disk[n].export, checkpoint |-> disk[n].checkpoint]
          /\ disk[n].checkpoint \in Nat \cup {Nothing}

ConfirmedHolds ==
    \A c \in confirmed :
        c.policy.step = c.step /\ Exported(c.policy) /\ disk[c.step].checkpoint = c.policy.weights

\* Whose acknowledgments stand, the session is at its policy, and so is everybody; not so in
\* a session that is given up, or while a reload is compared.
LiveInv ==
    session.mode \notin {"closed", "ended"} /\ session.todo # Save1 /\ ~Silent =>
        barrier.stamp = session.policy /\ Held(session.policy) /\ Answers(session.policy)

Idles ==
    /\ session.todo = <<>> /\ session.mode \in {"closed", "idle", "failed", "ended"}
    /\ driver = "arms" /\ session.mode = "idle" => ~Silent
    /\ \/ session.before = Nothing
       \/ /\ session.before = "updated" /\ session.mode = "idle" /\ driver = "train" /\ ~Silent
          /\ Exported(session.policy)
Constructs ==
    /\ session.todo = <<"start">> /\ session.mode = "opening" /\ Silent /\ session.before = Nothing
    /\ session.target = Backend!InitialPolicy
Opens ==
    /\ session.todo \in {Open1, Open2, Open3} /\ session.mode = "opening" /\ Silent
    /\ session.before = Nothing /\ Held(session.target)
Syncs ==
    /\ session.todo \in {Sync1, Sync2, Sync3, Sync4} /\ session.mode \in {"opening", "idle", "failed"}
    /\ Held(session.target) /\ (session.todo = Sync4 \/ Silent)
    /\ session.todo \in {Sync2, Sync3, Sync4} \/ Heard
    /\ \/ session.before = Nothing
       \/ session.before = "updated" /\ driver = "train" /\ Exported(session.target)
Updates ==
    /\ session.mode \in {"idle", "failed"} /\ driver = "train" /\ Silent
    /\ \/ /\ session.todo \in {Up6, Up7} /\ trainer.step + 1 \in 1..MaxContents
          /\ disk[trainer.step + 1] = Backend!Unused
       \/ /\ session.todo \in {Up1, Up2, Up3, Up4, Up5} /\ trainer.step \in 1..MaxContents
          /\ disk[trainer.step] = Backend!Unused
    /\ session.before = "updated"
Saving ==
    /\ session.mode = "idle" /\ driver = "train" /\ session.target = session.policy
    /\ Exported(session.policy)
    /\ session.before = [tensors |-> session.policy.weights, probed |-> session.before.probed]
Saves ==
    /\ session.todo \in {Save6, Save7, Save8} /\ Saving
    /\ \/ /\ session.todo \in {Save7, Save8} /\ Held(session.policy)
          /\ disk[session.policy.step].checkpoint = Nothing
       \/ session.todo = Save6 /\ disk[session.policy.step].checkpoint \in Nat
Reloads ==
    /\ session.todo \in {Save1, Save2, Save3, Save4, Save5} /\ Saving
    /\ trainer = [tensors |-> disk[session.policy.step].checkpoint, step |-> session.policy.step]
    /\ \/ session.todo \in {Save3, Save4, Save5} /\ Silent
       \/ session.todo = Save2 /\ Silent /\ Heard
       \/ /\ session.todo = Save1 /\ barrier.stamp = session.policy
          /\ \A w \in Worker : engine.served[w] = trainer.tensors
Loads ==
    /\ session.todo = Load1 /\ session.mode \in {"idle", "failed"} /\ session.before = Nothing
    /\ \E c \in confirmed : session.target = c.policy
Inits ==
    /\ session.todo \in {Init1, Init2} /\ session.mode = "idle" /\ session.before = Nothing
    /\ session.target = Backend!InitialPolicy /\ (session.todo = Init2 \/ Silent)

Place ==
    /\ Idles \/ Constructs \/ Opens \/ Syncs \/ Updates \/ Saves \/ Reloads \/ Loads \/ Inits
    /\ driver = "arms" => session.mode # "failed"

Losses == session.mode # "closed" /\ session.todo # <<"start">> => loss = "ours"

BackendInv ==
    /\ BackendShape /\ ConfirmedHolds /\ LiveInv /\ Place /\ Losses
    /\ Backend!SampledAsNamed /\ Backend!Alone /\ Backend!MiniBatchesWhole

LEMMA StepsOf ==
    ASSUME Place
    PROVE  /\ Backend!Doing("start") => Constructs
           /\ Backend!Doing("begin") => (Syncs /\ session.todo = Sync4) \/ (Reloads /\ session.todo = Save5)
           /\ Backend!Doing("probe") => (Syncs /\ session.todo = Sync1) \/ (Reloads /\ session.todo = Save2)
           /\ Backend!Doing("ready") => (Opens /\ session.todo = Open1) \/ (Updates /\ session.todo = Up3)
           /\ Backend!Doing("ensure") =>
                \/ (Syncs /\ session.todo = Sync3) \/ (Opens /\ session.todo = Open3)
                \/ (Updates /\ session.todo \in {Up2, Up5})
                \/ (Saves /\ session.todo = Save8) \/ (Reloads /\ session.todo = Save4)
           /\ Backend!Doing("broadcast") =>
                \/ (Syncs /\ session.todo = Sync2) \/ (Opens /\ session.todo = Open2)
                \/ (Updates /\ session.todo = Up4) \/ (Reloads /\ session.todo = Save3)
           /\ Backend!Doing("sleep") => (Updates /\ session.todo = Up7)
           /\ Backend!Doing("train") => (Updates /\ session.todo = Up6)
           /\ Backend!Doing("export") => (Updates /\ session.todo = Up1)
           /\ Backend!Doing("save") => (Saves /\ session.todo = Save7)
           /\ Backend!Doing("load") => (Saves /\ session.todo = Save6) \/ Loads
           /\ Backend!Doing("compare") => (Reloads /\ session.todo = Save1)
           /\ Backend!Doing("revoke") => Inits /\ session.todo = Init2
           /\ Backend!Doing("init") => Inits /\ session.todo = Init1
  BY SyncLeads, UpLeads, SaveLeads DEF Idles, Backend!Doing, Constructs, Opens, Syncs, Loads,
     Inits, Gives, Updates, Saves, Reloads, Place

\* t is s after a step, with rest to do.
After(t, s, rest) ==
    /\ SessionShape(t) /\ t.todo = rest /\ t.mode = (IF rest = <<>> THEN "idle" ELSE s.mode)
    /\ t.target = s.target /\ t.policy = s.policy /\ t.before = s.before /\ t.probed = s.probed

LEMMA DoneOf ==
    ASSUME NEW s, SessionShape(s), NEW x, NEW rest, Gives(s.todo, x, rest)
    PROVE  After(Backend!Done(s), s, rest)
<1>1. Tail(s.todo) = rest /\ (Len(s.todo) = 1 <=> rest = <<>>)
  BY DEF Gives
<1>2. Backend!Done(s) = [s EXCEPT !.todo = rest, !.mode = IF rest = <<>> THEN "idle" ELSE s.mode]
  BY <1>1 DEF Backend!Done
<1> QED BY <1>2 DEF SessionShape, After

\* A session that raised rests.
LEMMA RaiseRests ==
    ASSUME SessionShape(session), Place, session.mode # "closed", Backend!Raise, UNCHANGED driver
    PROVE  /\ SessionShape(session)' /\ Place' /\ session'.todo = <<>>
           /\ \/ session'.mode \in {"closed", "ended"}
              \/ /\ session'.mode = "failed" /\ session'.policy = session.policy
                 /\ session.mode # "opening" /\ ~Backend!Doing("compare")
  BY DEF Backend!Raise, Backend!Raised, Backend!Closed, SessionShape, Place, Idles

LEMMA LiveKept ==
    ASSUME LiveInv, UNCHANGED <<driver, trainer, barrier>>, engine'.served = engine.served,
           session.todo # Save1, session.mode \notin {"closed", "ended"},
           session'.mode \in {"closed", "ended"} \/ session'.policy = session.policy
    PROVE  LiveInv'
BY DEF LiveInv, Silent, Held, Answers

LEMMA LiveSilent == Silent' => LiveInv'
BY DEF LiveInv, Silent

LEMMA ConfirmedKept ==
    ASSUME ConfirmedHolds, UNCHANGED <<disk, confirmed>>
    PROVE  ConfirmedHolds'
BY DEF ConfirmedHolds, Exported

LEMMA Started == ~Backend!Doing("start") => session.todo # <<"start">>
BY SyncLeads DEF Backend!Doing, Gives

LEMMA Named ==
    /\ Backend!SampledAsNamed /\ UNCHANGED completion => Backend!SampledAsNamed'
    /\ Backend!MiniBatchesWhole /\ UNCHANGED batch => Backend!MiniBatchesWhole'
BY DEF Backend!SampledAsNamed, Backend!MiniBatchesWhole

\* The operation goes on; no worker is awake when the policy comes back to the GPUs.
LEMMA Going ==
    ASSUME BackendInv, session.mode # "closed", ~Backend!Doing("start"),
           UNCHANGED <<driver, completion, loss>>, Backend!MiniBatchesWhole',
           BackendShape', ConfirmedHolds', LiveInv', session'.mode \in {session.mode, "idle"},
           Idles' \/ Opens' \/ Syncs' \/ Updates' \/ Saves' \/ Reloads' \/ Loads' \/ Inits',
           \/ engine'.awake = {} \/ session'.todo = <<>>
           \/ Head(session'.todo) \notin {"broadcast", "export", "save"}
    PROVE  BackendInv'
  BY Started, Named DEF BackendInv, Losses, Backend!Alone, Backend!Doing, Backend!Asleep, Place

LEMMA Raising ==
    ASSUME BackendInv, Backend!Raise, session.mode # "closed", UNCHANGED <<driver, completion, batch, loss>>,
           SessionShape(session)' => BackendShape', ConfirmedHolds',
           \/ Silent'
           \/ UNCHANGED <<trainer, barrier>> /\ engine'.served = engine.served /\ session.mode # "ended"
           \/ Backend!Doing("compare")
    PROVE  BackendInv'
  BY RaiseRests, SaveLeads, LiveSilent, LiveKept, StepsOf, Started, Named DEF BackendInv,
     BackendShape, Gives, Backend!Doing, LiveInv, Constructs, Backend!Raise, Backend!Raised,
     Backend!Closed, Losses, Backend!Alone

LEMMA GoesOn ==
    ASSUME BackendInv, Backend!Goes
    PROVE  /\ \A x, rest : Gives(session.todo, x, rest) => After(session', session, rest)
           /\ SessionShape(session)' <=> SessionShape(session')
BY DoneOf DEF BackendInv, BackendShape, Backend!Goes, SessionShape

LEMMA BeginsStep ==
    ASSUME BackendInv, Backend!BeginStep
    PROVE  BackendInv'
<1>1. /\ Backend!Doing("begin") /\ Backend!Goes /\ Silent'
      /\ UNCHANGED <<driver, confirmed, completion, batch, loss, trainer, engine, disk, made>>
  BY DEF Backend!BeginStep, Backend!Works, Backend!Begin, Silent, Backend!outside
<1>2. \/ Syncs /\ session.todo = Sync4 /\ After(session', session, Sync3)
      \/ Reloads /\ session.todo = Save5 /\ After(session', session, Save4)
  BY <1>1, StepsOf, GoesOn, SyncLeads, SaveLeads DEF BackendInv
<1>3. Head(Sync3) = "ensure" /\ Head(Save4) = "ensure" /\ Sync3 # <<>> /\ Save4 # <<>>
  BY SyncLeads, SaveLeads DEF Gives
<1>4. SessionShape(session') /\ session'.mode = session.mode
  BY <1>2, <1>3 DEF After
<1>5. BackendShape' /\ ConfirmedHolds' /\ LiveInv'
  BY <1>1, <1>4, GoesOn, LiveSilent, ConfirmedKept DEF BackendInv, BackendShape
<1>6. Syncs' \/ Reloads'
  BY <1>1, <1>4, <1>2 DEF After, Syncs, Held, Exported, Reloads, Saving
<1>7. session.mode # "closed" /\ ~Backend!Doing("start")
  BY <1>1, <1>2 DEF Syncs, Reloads, Saving, Backend!Doing
<1>8. Head(session'.todo) = "ensure"
  BY <1>2, <1>3 DEF After
<1> QED BY <1>1, <1>4, <1>5, <1>6, <1>7, <1>8, Named, Going DEF BackendInv

LEMMA EnsureStep ==
    ASSUME BackendInv, Backend!Ensure
    PROVE  BackendInv'
<1>1. /\ Backend!Doing("ensure") /\ engine'.served = engine.served /\ engine'.awake \subseteq Worker
      /\ engine' = [served |-> engine'.served, awake |-> engine'.awake]
      /\ (engine'.awake = {} /\ Backend!Goes) \/ Backend!Raise
      /\ UNCHANGED <<driver, confirmed, completion, batch, loss, trainer, barrier, disk, made>>
  BY DEF Backend!Ensure, Backend!Works, Backend!Fails, Backend!Sleeping, Backend!outside, BackendInv, BackendShape
<1>2. /\ (SessionShape(session') => BackendShape') /\ ConfirmedHolds'
      /\ SessionShape(session)' <=> SessionShape(session')
  BY <1>1, ConfirmedKept DEF BackendInv, BackendShape, SessionShape
<1>3. session.mode \notin {"closed", "ended"} /\ ~Backend!Doing("start") /\ session.todo # Save1
  BY <1>1, StepsOf, SaveLeads DEF BackendInv, Gives, Backend!Doing, Syncs, Opens, Updates, Saves,
     Reloads, Saving
<1>4. CASE Backend!Goes
  <2>1. \/ Syncs /\ session.todo = Sync3 /\ After(session', session, Sync2)
        \/ Opens /\ session.todo = Open3 /\ After(session', session, Open2)
        \/ Updates /\ session.todo = Up2 /\ After(session', session, Up1)
        \/ Updates /\ session.todo = Up5 /\ After(session', session, Up4)
        \/ Saves /\ session.todo = Save8 /\ After(session', session, Save7)
        \/ Reloads /\ session.todo = Save4 /\ After(session', session, Save3)
    BY <1>1, <1>4, StepsOf, GoesOn, SyncLeads, UpLeads, SaveLeads DEF BackendInv
  <2>2. Sync2 # <<>> /\ Open2 # <<>> /\ Up1 # <<>> /\ Up4 # <<>> /\ Save7 # <<>> /\ Save3 # <<>>
    BY SyncLeads, UpLeads, SaveLeads DEF Gives
  <2>3. SessionShape(session') /\ session'.mode = session.mode /\ session'.policy = session.policy
    BY <2>1, <2>2 DEF After
  <2>4. LiveInv'
    BY <1>1, <1>3, <2>3, LiveKept DEF BackendInv
  <2>5. Syncs' \/ Opens' \/ Updates' \/ Saves' \/ Reloads'
    <3>1. CASE Syncs /\ session.todo = Sync3 /\ After(session', session, Sync2)
      BY SyncLeads, <1>1, <2>3, <3>1 DEF Gives, After, Syncs, Held, Exported, Silent
    <3>2. CASE Opens /\ session.todo = Open3 /\ After(session', session, Open2)
      BY <1>1, <2>3, <3>2 DEF After, Opens, Held, Silent
    <3>3. CASE Updates /\ session.todo = Up2 /\ After(session', session, Up1)
      BY UpLeads, <1>1, <2>3, <3>3 DEF Gives, After, Updates, Silent
    <3>4. CASE Updates /\ session.todo = Up5 /\ After(session', session, Up4)
      BY UpLeads, <1>1, <2>3, <3>4 DEF Gives, After, Updates, Silent
    <3>5. CASE Saves /\ session.todo = Save8 /\ After(session', session, Save7)
      BY SaveLeads, <1>1, <2>3, <3>5 DEF Gives, After, Saves, Saving, Held, Exported
    <3>6. CASE Reloads /\ session.todo = Save4 /\ After(session', session, Save3)
      BY SaveLeads, <1>1, <2>3, <3>6 DEF Gives, After, Reloads, Saving, Exported, Silent
    <3> QED BY <2>1, <3>1, <3>2, <3>3, <3>4, <3>5, <3>6
  <2>6. engine'.awake = {} \/ Backend!Raise
    BY <1>1
  <2> QED BY <1>1, <1>2, <1>3, <1>4, <2>3, <2>4, <2>5, <2>6, Named, Going, Raising DEF BackendInv
<1>5. CASE Backend!Raise
  BY <1>1, <1>2, <1>3, <1>5, Raising
<1> QED BY <1>1, <1>4, <1>5

LEMMA BroadcastStep ==
    ASSUME BackendInv, Backend!Broadcast
    PROVE  BackendInv'
<1>1. PICK reached \in SUBSET Worker :
        LET served == [w \in Worker |-> IF w \in reached THEN trainer.tensors ELSE engine.served[w]]
        IN  \/ reached # {} /\ engine' = [served |-> served, awake |-> Worker] /\ Backend!Goes
            \/ engine' = [engine EXCEPT !.served = served] /\ Backend!Raise
  BY BackendAssumption DEF Backend!Broadcast, Backend!Works, Backend!Fails
<1>2. /\ Backend!Doing("broadcast")
      /\ UNCHANGED <<driver, confirmed, completion, batch, loss, trainer, barrier, disk, made>>
  BY DEF Backend!Broadcast, Backend!outside
<1>3. \/ (Syncs /\ session.todo = Sync2) \/ (Opens /\ session.todo = Open2)
      \/ (Updates /\ session.todo = Up4) \/ (Reloads /\ session.todo = Save3)
  BY <1>2, StepsOf DEF BackendInv
<1>4. Silent' /\ session.mode # "closed" /\ ~Backend!Doing("start")
  BY SyncLeads, SaveLeads, <1>2, <1>3 DEF Gives, Backend!Doing, Syncs, Opens, Updates, Reloads,
     Saving, Silent
<1>5. ConfirmedHolds' /\ LiveInv' /\ (SessionShape(session)' <=> SessionShape(session'))
  BY <1>2, <1>4, ConfirmedKept, LiveSilent DEF BackendInv, SessionShape
<1>6. engine' = [served |-> engine'.served, awake |-> engine'.awake] /\ engine'.awake \subseteq Worker
  BY <1>1 DEF BackendInv, BackendShape
<1>7. SessionShape(session') => BackendShape'
  BY <1>2, <1>5, <1>6 DEF BackendInv, BackendShape
<1>8. CASE Backend!Goes /\ engine'.served = [w \in Worker |-> IF w \in reached THEN trainer.tensors ELSE engine.served[w]]
           /\ reached # {}
  <2>1. \/ Syncs /\ session.todo = Sync2 /\ After(session', session, Sync1)
        \/ Opens /\ session.todo = Open2 /\ After(session', session, Open1)
        \/ Updates /\ session.todo = Up4 /\ After(session', session, Up3)
        \/ Reloads /\ session.todo = Save3 /\ After(session', session, Save2)
    BY <1>3, <1>8, GoesOn, SyncLeads, UpLeads, SaveLeads DEF BackendInv
  <2>2. /\ Sync1 # <<>> /\ Open1 # <<>> /\ Up3 # <<>> /\ Save2 # <<>> /\ Head(Sync1) = "probe"
        /\ Head(Open1) = "ready" /\ Head(Up3) = "ready" /\ Head(Save2) = "probe"
    BY SyncLeads, UpLeads, SaveLeads DEF Gives
  <2>3. /\ SessionShape(session') /\ session'.mode = session.mode
        /\ Head(session'.todo) \notin {"broadcast", "export", "save"}
    BY <2>1, <2>2 DEF After
  <2>4. Heard'
    BY <1>2, <1>8 DEF Heard
  <2>5. Syncs' \/ Opens' \/ Updates' \/ Reloads'
    <3>1. CASE Syncs /\ session.todo = Sync2 /\ After(session', session, Sync1)
      BY <1>2, <1>4, <2>3, <2>4, <3>1 DEF After, Syncs, Held, Exported
    <3>2. CASE Opens /\ session.todo = Open2 /\ After(session', session, Open1)
      BY <1>2, <1>4, <2>3, <3>2 DEF After, Opens, Held
    <3>3. CASE Updates /\ session.todo = Up4 /\ After(session', session, Up3)
      BY UpLeads, <1>2, <1>4, <2>3, <3>3 DEF Gives, After, Updates
    <3>4. CASE Reloads /\ session.todo = Save3 /\ After(session', session, Save2)
      BY <1>2, <1>4, <2>3, <2>4, <3>4 DEF After, Reloads, Saving, Exported
    <3> QED BY <2>1, <3>1, <3>2, <3>3, <3>4
  <2> QED BY <1>2, <1>4, <1>5, <1>7, <2>3, <2>5, Named, Going DEF BackendInv
<1>9. CASE Backend!Raise
  BY <1>2, <1>4, <1>5, <1>7, <1>9, Raising
<1> QED BY <1>1, <1>8, <1>9

LEMMA ReadyStep ==
    ASSUME BackendInv, Backend!Ready
    PROVE  BackendInv'
<1>1. PICK s : s = [session EXCEPT !.ready = TRUE]
  OBVIOUS
<1>2. /\ Backend!Doing("ready") /\ session' = Backend!Done(s)
      /\ UNCHANGED <<driver, confirmed, completion, batch, loss, trainer, engine, barrier, disk, made>>
  BY <1>1 DEF Backend!Ready, Backend!outside
<1>3. SessionShape(s) /\ s.todo = session.todo /\ s.mode = session.mode /\ s.target = session.target /\ s.before = session.before
  BY <1>1 DEF BackendInv, BackendShape, SessionShape
<1>4. (Opens /\ session.todo = Open1) \/ (Updates /\ session.todo = Up3)
  BY <1>2, StepsOf DEF BackendInv
<1>5. \/ Opens /\ session.todo = Open1 /\ After(session', s, Sync4)
      \/ Updates /\ session.todo = Up3 /\ After(session', s, Up2)
  BY <1>2, <1>3, <1>4, DoneOf, SyncLeads, UpLeads
<1>6. /\ Sync4 # <<>> /\ Up2 # <<>> /\ Head(Sync4) = "begin" /\ Head(Up2) = "ensure" /\ Up3 # Up6 /\ Up3 # Up7
  BY SyncLeads, UpLeads DEF Gives
<1>7. /\ SessionShape(session') /\ session'.mode = session.mode /\ session.mode # "closed"
      /\ Head(session'.todo) \in {"begin", "ensure"} /\ ~Backend!Doing("start") /\ Silent'
  BY <1>2, <1>3, <1>5, <1>6 DEF After, Opens, Updates, Silent, Backend!Doing
<1>8. BackendShape' /\ ConfirmedHolds' /\ LiveInv'
  BY <1>2, <1>7, ConfirmedKept, LiveSilent DEF BackendInv, BackendShape, SessionShape
<1>9. Syncs' \/ Updates'
  BY <1>2, <1>3, <1>7, <1>6, <1>5 DEF After, Opens, Syncs, Held, Updates
<1> QED BY <1>2, <1>7, <1>8, <1>9, Named, Going DEF BackendInv

LEMMA ProbeStep ==
    ASSUME BackendInv, Backend!Probe
    PROVE  BackendInv'
<1>1. PICK s : s = [session EXCEPT !.policy = session.target, !.probed = engine.served]
  OBVIOUS
<1>2. /\ Backend!Doing("probe")
      /\ UNCHANGED <<driver, confirmed, completion, batch, loss, trainer, engine, disk, made>>
  BY DEF Backend!Probe, Backend!outside
<1>3. \/ /\ \A v, w \in Worker : engine.served[v] = engine.served[w]
         /\ barrier' = [stamp |-> session.target, acknowledged |-> Worker]
         /\ session' = Backend!Done(s)
      \/ Backend!Raise /\ UNCHANGED barrier
  BY <1>1 DEF Backend!Probe, Backend!Fails
<1>4. /\ SessionShape(s) /\ s.todo = session.todo /\ s.mode = session.mode /\ s.target = session.target
      /\ s.before = session.before /\ s.policy = session.target
  BY <1>1 DEF BackendInv, BackendShape, SessionShape
<1>5. (Syncs /\ session.todo = Sync1) \/ (Reloads /\ session.todo = Save2)
  BY <1>2, StepsOf DEF BackendInv
<1>6. Sync1 # Sync2 /\ Sync1 # Sync3 /\ Sync1 # Sync4 /\ Save1 # <<>> /\ Head(Save1) = "compare"
      /\ Save2 # Save1 /\ Save2 # Save3 /\ Save2 # Save4 /\ Save2 # Save5
  BY SyncLeads, SaveLeads DEF Gives
<1>7. Silent /\ Heard /\ session.mode # "closed" /\ ~Backend!Doing("start")
  BY <1>2, <1>5, <1>6 DEF Backend!Doing, Syncs, Reloads, Saving
<1>8. ConfirmedHolds' /\ (SessionShape(session') => BackendShape') /\ (SessionShape(session)' <=> SessionShape(session'))
  BY <1>2, ConfirmedKept DEF BackendInv, BackendShape, SessionShape
<1>9. CASE Backend!Raise /\ UNCHANGED barrier
  BY <1>2, <1>7, <1>8, <1>9, Raising DEF Silent
<1>10. CASE /\ \A v, w \in Worker : engine.served[v] = engine.served[w]
            /\ barrier' = [stamp |-> session.target, acknowledged |-> Worker]
            /\ session' = Backend!Done(s)
  <2>1. ~Silent' /\ barrier'.stamp = session.target
    BY <1>10, BackendAssumption DEF Silent
  <2>2. \A w \in Worker : engine'.served[w] = trainer.tensors
    BY <1>2, <1>7, <1>10 DEF Heard
  <2>3. CASE Syncs /\ session.todo = Sync1
    <3>1. After(session', s, <<>>)
      BY <1>4, <1>10, <2>3, DoneOf, SyncLeads
    <3>2. /\ SessionShape(session') /\ session'.todo = <<>> /\ session'.mode = "idle" /\ session'.before = session.before
          /\ session'.policy = session.target
      BY <1>4, <3>1 DEF After
    <3>3. LiveInv' /\ Idles'
      BY <1>2, <2>1, <2>2, <2>3, <3>2 DEF LiveInv, Idles, Syncs, Held, Answers, Exported
    <3> QED BY <1>2, <1>7, <1>8, <3>2, <3>3, Named, Going DEF BackendInv
  <2>4. CASE Reloads /\ session.todo = Save2
    <3>1. After(session', s, Save1)
      BY <1>4, <1>10, <2>4, DoneOf, SaveLeads
    <3>2. /\ SessionShape(session') /\ session'.todo = Save1 /\ session'.mode = session.mode
          /\ session'.before = session.before /\ session'.policy = session.target /\ session'.target = session.target
      BY <1>4, <1>6, <3>1 DEF After
    <3>3. LiveInv' /\ Reloads'
      BY <1>2, <2>1, <2>2, <2>4, <3>2 DEF LiveInv, Reloads, Saving, Exported
    <3> QED BY <1>2, <1>6, <1>7, <1>8, <3>2, <3>3, Named, Going DEF BackendInv
  <2> QED BY <1>5, <2>3, <2>4
<1> QED BY <1>3, <1>9, <1>10

\* A session at rest whose owner may ask for more.
LEMMA RestsOf ==
    ASSUME BackendInv, session.todo = <<>>, session.mode \in {"idle", "failed"}
    PROVE  /\ Idles /\ session.todo # Save1 /\ ~Backend!Doing("start")
           /\ ~Silent => barrier.stamp = session.policy /\ Held(session.policy) /\ Answers(session.policy)
<1>1. Save1 # <<>> /\ Save2 # <<>> /\ Save3 # <<>> /\ Save4 # <<>> /\ Save5 # <<>> /\ Save6 # <<>> /\ Save7 # <<>> /\ Save8 # <<>>
  BY SaveLeads DEF Gives
<1>2. /\ Sync1 # <<>> /\ Sync2 # <<>> /\ Sync3 # <<>> /\ Sync4 # <<>> /\ Load1 # <<>> /\ Init1 # <<>> /\ Init2 # <<>>
      /\ <<"start">> # <<>>
  BY SyncLeads DEF Gives
<1>3. Up1 # <<>> /\ Up2 # <<>> /\ Up3 # <<>> /\ Up4 # <<>> /\ Up5 # <<>> /\ Up6 # <<>> /\ Up7 # <<>>
  BY UpLeads DEF Gives
<1>4. Idles
  BY <1>1, <1>2, <1>3 DEF BackendInv, Place, Idles, Constructs, Opens, Syncs, Updates, Saves, Reloads, Loads, Inits
<1> QED BY <1>1, <1>4 DEF BackendInv, LiveInv, Backend!Doing

\* What the session keeps when its owner asks for s.
LEMMA AskedShape ==
    ASSUME BackendInv, SessionShape(session'), UNCHANGED <<driver, trainer, engine, disk, made, confirmed>>
    PROVE  BackendShape' /\ ConfirmedHolds'
BY ConfirmedKept DEF BackendInv, BackendShape, SessionShape

LEMMA SkipUpdateStep ==
    ASSUME BackendInv, Backend!SkipUpdate
    PROVE  BackendInv'
  BY PlansStart, RestsOf, BackendAssumption, SyncLeads, AskedShape, LiveSilent, Named, Going DEF
     Backend!SkipUpdate, Backend!Free, Backend!Resting, Backend!MayUpdate, Backend!Verified,
     Backend!Begin, Backend!outside, Silent, BackendInv, BackendShape, SessionShape, Syncs, Held,
     Gives

LEMMA UpdateStep ==
    ASSUME BackendInv, Backend!Update
    PROVE  BackendInv'
<1>1. /\ session.todo = <<>> /\ session.mode \in {"idle", "failed"} /\ driver = "train" /\ trainer.step < MaxContents
      /\ UNCHANGED <<driver, confirmed, completion, loss, trainer, engine, disk, made>>
      /\ \/ /\ Silent' /\ ~Backend!Exists(trainer.step + 1)
            /\ session' = [session EXCEPT !.ready = FALSE, !.before = "updated", !.todo = Up7]
            /\ \E groups \in Backend!Batches :
                  batch' = [groups |-> groups, parts |-> Backend!Boundaries(groups, Backend!MiniBatchGroups)]
         \/ Backend!Raise /\ UNCHANGED batch /\ (Silent' \/ UNCHANGED barrier)
  <2>1. CASE Backend!MayUpdate /\ session.ready
    <3>1. /\ session.todo = <<>> /\ session.mode \in {"idle", "failed"} /\ driver = "train" /\ trainer.step < MaxContents
          /\ UNCHANGED <<driver, confirmed, completion, loss, trainer, engine, disk, made>>
          /\ Silent' /\ ~Backend!Exists(trainer.step + 1)
      BY <2>1 DEF Backend!Update, Backend!Free, Backend!Resting, Backend!MayUpdate, Backend!Begin, Silent
    <3>2. session' = [session EXCEPT !.ready = FALSE, !.before = "updated", !.todo = Up7]
      BY <2>1, PlansStart DEF Backend!Update
    <3>3. \E groups \in Backend!Batches :
             batch' = [groups |-> groups, parts |-> Backend!Boundaries(groups, Backend!MiniBatchGroups)]
      BY <2>1 DEF Backend!Update
    <3> QED BY <3>1, <3>2, <3>3
  <2>2. CASE Backend!MayUpdate /\ ~session.ready
    BY <2>2 DEF Backend!Update, Backend!Free, Backend!Resting, Backend!Begin, Silent
  <2>3. CASE ~Backend!MayUpdate
    BY <2>3 DEF Backend!Update, Backend!Free, Backend!Resting
  <2> QED BY <2>1, <2>2, <2>3
<1>2. ~Backend!Doing("start")
  BY <1>1, RestsOf
<1>3. CASE Backend!Raise /\ UNCHANGED batch /\ (Silent' \/ UNCHANGED barrier)
  BY <1>1, <1>3, AskedShape, ConfirmedKept, Raising DEF BackendInv, SessionShape
<1>4. ASSUME Silent', ~Backend!Exists(trainer.step + 1),
             session' = [session EXCEPT !.ready = FALSE, !.before = "updated", !.todo = Up7],
             NEW groups \in Backend!Batches,
             batch' = [groups |-> groups, parts |-> Backend!Boundaries(groups, Backend!MiniBatchGroups)]
      PROVE  BackendInv'
  <2>1. Backend!MiniBatchesWhole'
    BY <1>4, BoundariesWhole DEF Backend!MiniBatchesWhole
  <2>2. SessionShape(session') /\ session'.todo = Up7 /\ session'.mode = session.mode /\ session'.before = "updated"
    BY <1>4 DEF BackendInv, BackendShape, SessionShape
  <2>3. trainer.step + 1 \in 1..MaxContents
    BY <1>1, BackendAssumption DEF BackendInv, BackendShape
  <2>4. Updates'
    BY <1>1, <1>4, <2>2, <2>3 DEF Updates, Backend!Exists
  <2>5. Head(Up7) = "sleep"
    BY UpLeads DEF Gives
  <2> QED BY <1>1, <1>2, <1>4, <2>1, <2>2, <2>4, <2>5, AskedShape, LiveSilent, Going
<1> QED BY <1>1, <1>3, <1>4

LEMMA SleepStep ==
    ASSUME BackendInv, Backend!Sleep
    PROVE  BackendInv'
<1>1. /\ Backend!Doing("sleep") /\ engine' = [served |-> engine'.served, awake |-> engine'.awake]
      /\ engine'.awake \subseteq Worker /\ (Backend!Goes \/ Backend!Raise)
      /\ UNCHANGED <<driver, confirmed, completion, batch, loss, trainer, barrier, disk, made>>
  BY DEF Backend!Sleep, Backend!Works, Backend!Fails, Backend!Sleeping, Backend!outside, BackendInv, BackendShape
<1>2. Updates /\ session.todo = Up7
  BY <1>1, StepsOf DEF BackendInv
<1>3. Up6 # <<>> /\ Head(Up6) = "train" /\ \A i \in {Up1, Up2, Up3, Up4, Up5} : Up7 # i
  BY UpLeads DEF Gives
<1>4. Silent' /\ session.mode # "closed" /\ ~Backend!Doing("start")
  BY <1>1, <1>2 DEF Updates, Silent, Backend!Doing
<1>5. (SessionShape(session') => BackendShape') /\ ConfirmedHolds' /\ (SessionShape(session)' <=> SessionShape(session'))
  BY <1>1, ConfirmedKept DEF BackendInv, BackendShape, SessionShape
<1>6. CASE Backend!Goes
  BY <1>2, <1>6, GoesOn, UpLeads, <1>3, <1>1, <1>4, <1>5, LiveSilent, Named, Going DEF After,
     Updates, BackendInv
<1>7. CASE Backend!Raise
  BY <1>1, <1>4, <1>5, <1>7, Raising
<1> QED BY <1>1, <1>6, <1>7

LEMMA TrainsOn ==
    ASSUME BackendInv, Backend!Train
    PROVE  BackendInv'
<1>1. /\ Backend!Doing("train") /\ (Backend!Goes \/ Backend!Raise)
      /\ UNCHANGED <<driver, confirmed, completion, batch, loss, engine, barrier, disk>>
      /\ made' \in Nat /\ trainer' = [tensors |-> trainer'.tensors, step |-> trainer.step + 1] /\ trainer'.tensors \in Nat
  BY DEF Backend!Train, Backend!Works, Backend!Fails, Backend!outside, BackendInv, BackendShape
<1>2. Updates /\ session.todo = Up6
  BY <1>1, StepsOf DEF BackendInv
<1>3. Up5 # <<>> /\ Head(Up5) = "ensure" /\ \A i \in {Up1, Up2, Up3, Up4, Up5} : Up6 # i
  BY UpLeads DEF Gives
<1>4. Silent' /\ session.mode # "closed" /\ ~Backend!Doing("start")
  BY <1>1, <1>2 DEF Updates, Silent, Backend!Doing
<1>5. (SessionShape(session') => BackendShape') /\ ConfirmedHolds' /\ (SessionShape(session)' <=> SessionShape(session'))
  BY <1>1, ConfirmedKept DEF BackendInv, BackendShape, SessionShape
<1>6. CASE Backend!Goes
  BY <1>2, <1>6, GoesOn, UpLeads, <1>3, <1>1, <1>4, <1>5, LiveSilent, Named, Going DEF After,
     Updates, BackendInv
<1>7. CASE Backend!Raise
  BY <1>1, <1>4, <1>5, <1>7, Raising
<1> QED BY <1>1, <1>6, <1>7

LEMMA ExportStep ==
    ASSUME BackendInv, Backend!Export
    PROVE  BackendInv'
<1>1. PICK n, t, p, s : /\ n = trainer.step /\ t = trainer.tensors /\ p = Backend!Policy(n, t)
                        /\ s = [session EXCEPT !.target = p]
  OBVIOUS
<1>2. /\ Backend!Doing("export") /\ disk' \in {disk, [disk EXCEPT ![n].export = t]}
      /\ UNCHANGED <<driver, confirmed, completion, batch, loss, trainer, engine, barrier, made>>
      /\ \/ disk' = [disk EXCEPT ![n].export = t] /\ session' = Backend!Done(s)
         \/ Backend!Raise
  BY <1>1 DEF Backend!Export, Backend!Fails, Backend!outside
<1>3. Updates /\ session.todo = Up1
  BY <1>2, StepsOf DEF BackendInv
<1>4. Sync4 # <<>> /\ Head(Sync4) = "begin" /\ Up1 # Up6 /\ Up1 # Up7
  BY SyncLeads, UpLeads DEF Gives
<1>5. /\ Silent' /\ session.mode # "closed" /\ ~Backend!Doing("start")
      /\ n \in 1..MaxContents /\ disk[n] = Backend!Unused /\ t \in Nat /\ driver = "train"
  BY <1>1, <1>2, <1>3, <1>4 DEF Updates, Silent, Backend!Doing, BackendInv, BackendShape
<1>6. n \in Backend!Contents /\ disk = [i \in Backend!Contents |-> disk[i]]
  BY <1>5, BackendAssumption DEF Backend!Contents, BackendInv, BackendShape
<1>7. /\ \A i \in Backend!Contents : disk'[i].checkpoint = disk[i].checkpoint
      /\ \A i \in Backend!Contents \ {n} : disk'[i] = disk[i]
      /\ \A i \in Backend!Contents : disk'[i] = [export |-> disk'[i].export, checkpoint |-> disk'[i].checkpoint]
      /\ disk' = [i \in Backend!Contents |-> disk'[i]]
  BY <1>2, <1>6 DEF BackendInv, BackendShape
<1>8. (SessionShape(session') => BackendShape') /\ (SessionShape(session)' <=> SessionShape(session'))
  BY <1>2, <1>7 DEF BackendInv, BackendShape, SessionShape, Backend!Contents
<1>9. ConfirmedHolds'
  <2> SUFFICES ASSUME NEW c \in confirmed
               PROVE  c.policy.step = c.step /\ Exported(c.policy)' /\ disk'[c.step].checkpoint = c.policy.weights
    BY <1>2 DEF ConfirmedHolds
  <2>1. c.policy.step = c.step /\ Exported(c.policy) /\ disk[c.step].checkpoint = c.policy.weights
    BY DEF BackendInv, ConfirmedHolds
  <2>2. c.step # n /\ c.step \in Backend!Contents
    BY <2>1, <1>5, BackendAssumption DEF Exported, Backend!Unused, Backend!Contents
  <2> QED BY <1>7, <2>1, <2>2 DEF Exported
<1>10. CASE Backend!Raise
  BY <1>2, <1>5, <1>8, <1>9, <1>10, Raising
<1>11. CASE disk' = [disk EXCEPT ![n].export = t] /\ session' = Backend!Done(s)
  <2>1. SessionShape(s) /\ s.todo = session.todo /\ s.mode = session.mode /\ s.target = p /\ s.before = session.before
    BY <1>1 DEF BackendInv, BackendShape, SessionShape
  <2>2. After(session', s, Sync4)
    BY <1>3, <1>11, <2>1, DoneOf, UpLeads
  <2>3. /\ SessionShape(session') /\ session'.todo = Sync4 /\ session'.mode = session.mode /\ session'.target = p
        /\ session'.before = "updated"
    BY <1>3, <1>4, <2>1, <2>2 DEF After, Updates
  <2>4. p.step = n /\ p.weights = t /\ disk'[n].export = t
    BY <1>1, <1>6, <1>11, <1>7 DEF Backend!Policy, BackendInv, BackendShape
  <2>5. Syncs'
    BY <1>1, <1>2, <1>3, <1>5, <2>3, <2>4 DEF Syncs, Updates, Held, Exported
  <2> QED BY <1>2, <1>4, <1>5, <1>8, <1>9, <2>3, <2>5, LiveSilent, Named, Going DEF BackendInv
<1> QED BY <1>2, <1>10, <1>11

LEMMA SaveReloadStep ==
    ASSUME BackendInv, Backend!SaveReload
    PROVE  BackendInv'
<1>1. /\ session.todo = <<>> /\ session.mode \in {"idle", "failed", "ended"} /\ session.before = "updated"
      /\ UNCHANGED <<driver, confirmed, completion, batch, loss, trainer, engine, barrier, disk, made>>
  BY DEF Backend!SaveReload, Backend!Resting, Backend!outside
<1>2. session.mode = "idle" /\ driver = "train" /\ ~Silent /\ Exported(session.policy)
  BY <1>1, SyncLeads, UpLeads, SaveLeads, BackendAssumption DEF Gives, BackendInv, Place, Idles,
     Constructs, Opens, Syncs, Updates, Saves, Reloads, Loads, Inits
<1>3. Held(session.policy) /\ ~Backend!Doing("start") /\ session.todo # Save1
  BY <1>1, <1>2, RestsOf
<1>4. CASE Backend!MaySave
  <2>1. session' = [session EXCEPT !.todo = Save8, !.target = session.policy,
                                   !.before = [tensors |-> trainer.tensors, probed |-> session.probed]]
    BY <1>4, PlansStart DEF Backend!SaveReload
  <2>2. /\ SessionShape(session') /\ session'.todo = Save8 /\ session'.mode = session.mode
        /\ session'.target = session.policy /\ session'.policy = session.policy
        /\ session'.before = [tensors |-> session.policy.weights, probed |-> session'.before.probed]
    BY <1>3, <2>1 DEF BackendInv, BackendShape, SessionShape, Held
  <2>3. Saves'
    BY <1>1, <1>2, <1>3, <1>4, <2>2 DEF Saves, Saving, Held, Exported, Backend!MaySave
  <2>4. LiveInv'
    BY <1>1, <1>2, <1>3, <2>2, LiveKept DEF BackendInv
  <2>5. Head(Save8) = "ensure"
    BY SaveLeads DEF Gives
  <2> QED BY <1>1, <1>2, <1>3, <2>2, <2>3, <2>4, <2>5, AskedShape, Named, Going DEF BackendInv
<1>5. CASE ~Backend!MaySave
  BY <1>5, <1>1, <1>2, AskedShape, ConfirmedKept, Raising DEF Backend!SaveReload, BackendInv,
     SessionShape
<1> QED BY <1>4, <1>5

LEMMA SaveStep ==
    ASSUME BackendInv, Backend!Save
    PROVE  BackendInv'
<1>1. PICK n : n = trainer.step
  OBVIOUS
<1>2. /\ Backend!Doing("save") /\ made' \in Nat
      /\ UNCHANGED <<driver, confirmed, completion, batch, loss, trainer, engine, barrier>>
  BY DEF Backend!Save, Backend!outside, BackendInv, BackendShape
<1>3. PICK t \in Nat :
        \/ disk' = [disk EXCEPT ![n].checkpoint = t] /\ (Backend!Goes \/ Backend!Raise)
        \/ UNCHANGED disk /\ Backend!Raise
  <2>1. trainer.tensors \in Nat /\ made + 1 \in Nat
    BY DEF BackendInv, BackendShape
  <2> QED BY <1>1, <2>1 DEF Backend!Save, Backend!Works, Backend!Fails
<1>4. Saves /\ session.todo = Save7
  BY <1>2, StepsOf DEF BackendInv
<1>5. Save6 # <<>> /\ Head(Save6) = "load" /\ Save7 # Save6 /\ Save7 # Save1
  BY SaveLeads DEF Gives
<1>6. /\ session.mode = "idle" /\ driver = "train" /\ Held(session.policy) /\ Exported(session.policy)
      /\ disk[session.policy.step].checkpoint = Nothing /\ ~Backend!Doing("start")
  BY <1>2, <1>4, <1>5 DEF Saves, Saving, Backend!Doing
<1>7. n = session.policy.step /\ n \in Backend!Contents /\ disk = [i \in Backend!Contents |-> disk[i]]
  BY <1>1, <1>6, BackendAssumption DEF Held, Exported, Backend!Contents, BackendInv, BackendShape
<1>8. /\ \A i \in Backend!Contents : disk'[i].export = disk[i].export
      /\ \A i \in Backend!Contents \ {n} : disk'[i] = disk[i]
      /\ \A i \in Backend!Contents : disk'[i] = [export |-> disk'[i].export, checkpoint |-> disk'[i].checkpoint]
      /\ disk' = [i \in Backend!Contents |-> disk'[i]] /\ disk'[n].checkpoint \in Nat \cup {Nothing}
      /\ disk' = [disk EXCEPT ![n].checkpoint = t] => disk'[n].checkpoint = t
  BY <1>3, <1>7 DEF BackendInv, BackendShape
<1>9. (SessionShape(session') => BackendShape') /\ (SessionShape(session)' <=> SessionShape(session'))
  BY <1>2, <1>8 DEF BackendInv, BackendShape, SessionShape, Backend!Contents
<1>10. ConfirmedHolds'
  <2> SUFFICES ASSUME NEW c \in confirmed
               PROVE  c.policy.step = c.step /\ Exported(c.policy)' /\ disk'[c.step].checkpoint = c.policy.weights
    BY <1>2 DEF ConfirmedHolds
  <2>1. c.policy.step = c.step /\ Exported(c.policy) /\ disk[c.step].checkpoint = c.policy.weights
    BY DEF BackendInv, ConfirmedHolds
  <2>2. c.step # n /\ c.step \in Backend!Contents
    BY <2>1, <1>6, <1>7, BackendAssumption DEF Exported, Backend!Contents
  <2> QED BY <1>8, <2>1, <2>2 DEF Exported
<1>11. CASE Backend!Raise
  BY <1>2, <1>6, <1>9, <1>10, <1>11, Raising
<1>12. CASE disk' = [disk EXCEPT ![n].checkpoint = t] /\ Backend!Goes
  <2>1. After(session', session, Save6)
    BY <1>4, <1>12, GoesOn, SaveLeads
  <2>2. /\ SessionShape(session') /\ session'.todo = Save6 /\ session'.mode = session.mode /\ session'.policy = session.policy
        /\ session'.target = session.target /\ session'.before = session.before
    BY <1>5, <2>1 DEF After
  <2>3. Exported(session.policy)'
    BY <1>6, <1>7, <1>8, <2>2 DEF Exported
  <2>4. Saves'
    BY <1>2, <1>4, <1>7, <1>8, <1>12, <2>2, <2>3 DEF Saves, Saving
  <2>5. LiveInv'
    BY <1>2, <1>4, <1>5, <1>6, <2>2, LiveKept DEF BackendInv
  <2> QED BY <1>2, <1>5, <1>6, <1>9, <1>10, <2>2, <2>4, <2>5, Named, Going DEF BackendInv
<1> QED BY <1>3, <1>11, <1>12

LEMMA LoadStep ==
    ASSUME BackendInv, Backend!Load
    PROVE  BackendInv'
<1>1. PICK n, s : n = session.target.step /\ s = [session EXCEPT !.ready = TRUE]
  OBVIOUS
<1>2. /\ Backend!Doing("load")
      /\ UNCHANGED <<driver, confirmed, completion, batch, loss, engine, disk, made>>
  BY DEF Backend!Load, Backend!outside
<1>3. \/ Silent' /\ trainer' = [tensors |-> disk[n].checkpoint, step |-> n] /\ (session' = Backend!Done(s) \/ Backend!Raise)
      \/ Silent' /\ trainer' = [trainer EXCEPT !.tensors = Backend!Torn] /\ Backend!Raise
      \/ UNCHANGED <<barrier, trainer>> /\ Backend!Raise
  BY <1>1 DEF Backend!Load, Backend!Fails, Backend!Begin, Silent
<1>4. (Saves /\ session.todo = Save6) \/ Loads
  BY <1>2, StepsOf DEF BackendInv
<1>5. /\ Save5 # <<>> /\ Head(Save5) = "begin" /\ Sync4 # <<>> /\ Head(Sync4) = "begin"
      /\ Save6 # Save7 /\ Save6 # Save8 /\ Save6 # Save1 /\ Load1 # Save1
  BY SyncLeads, SaveLeads DEF Gives
<1>6. session.mode \notin {"closed", "ended"} /\ ~Backend!Doing("start")
  BY <1>2, <1>4 DEF Saves, Saving, Loads, Backend!Doing
<1>7. disk[n].checkpoint \in Nat /\ n \in Nat
  BY <1>1, <1>5, <1>4 DEF Saves, Saving, Exported, Loads, BackendInv, ConfirmedHolds
<1>8. trainer' = [tensors |-> trainer'.tensors, step |-> trainer'.step] /\ trainer'.tensors \in Nat /\ trainer'.step \in Nat
  BY <1>3, <1>7, BackendAssumption DEF Backend!Torn, BackendInv, BackendShape
<1>9. /\ (SessionShape(session') => BackendShape') /\ (SessionShape(session)' <=> SessionShape(session'))
      /\ ConfirmedHolds'
  BY <1>2, <1>8, ConfirmedKept DEF BackendInv, BackendShape, SessionShape
<1>10. CASE Backend!Raise
  BY <1>3, <1>2, <1>6, <1>9, <1>10, Raising
<1>11. CASE Silent' /\ trainer' = [tensors |-> disk[n].checkpoint, step |-> n] /\ session' = Backend!Done(s)
  <2>1. /\ SessionShape(s) /\ s.todo = session.todo /\ s.mode = session.mode /\ s.target = session.target
        /\ s.before = session.before /\ s.policy = session.policy
    BY <1>1 DEF BackendInv, BackendShape, SessionShape
  <2>2. CASE Saves /\ session.todo = Save6
    <3>1. After(session', s, Save5)
      BY <1>11, <2>1, <2>2, DoneOf, SaveLeads
    <3>2. /\ SessionShape(session') /\ session'.todo = Save5 /\ session'.mode = session.mode
          /\ session'.policy = session.policy /\ session'.target = session.target /\ session'.before = session.before
      BY <1>5, <2>1, <3>1 DEF After
    <3>3. Reloads'
      BY <1>1, <1>2, <1>11, <2>2, <3>2 DEF Saves, Reloads, Saving, Exported
    <3> QED BY <1>2, <1>5, <1>6, <1>9, <1>11, <3>2, <3>3, LiveSilent, Named, Going DEF BackendInv
  <2>3. CASE Loads
    <3>1. After(session', s, Sync4)
      BY <1>11, <2>1, <2>3, DoneOf, SyncLeads DEF Loads
    <3>2. /\ SessionShape(session') /\ session'.todo = Sync4 /\ session'.mode = session.mode
          /\ session'.target = session.target /\ session'.before = session.before
      BY <1>5, <2>1, <3>1 DEF After
    <3>3. disk[n].checkpoint = session.target.weights
      BY <1>1, <2>3 DEF Loads, BackendInv, ConfirmedHolds
    <3>4. Syncs'
      BY <1>1, <1>11, <2>3, <3>2, <3>3 DEF Loads, Syncs, Held
    <3> QED BY <1>2, <1>5, <1>6, <1>9, <1>11, <3>2, <3>4, LiveSilent, Named, Going DEF BackendInv
  <2> QED BY <1>4, <2>2, <2>3
<1> QED BY <1>3, <1>10, <1>11

LEMMA CompareStep ==
    ASSUME BackendInv, Backend!Compare
    PROVE  BackendInv'
<1>1. PICK s, new : /\ s = [session EXCEPT !.before = Nothing]
                    /\ new = [step |-> trainer.step, policy |-> session.policy]
  OBVIOUS
<1>2. /\ Backend!Doing("compare")
      /\ UNCHANGED <<driver, completion, batch, loss, trainer, engine, barrier, disk, made>>
      /\ \/ /\ session.before = [tensors |-> trainer.tensors, probed |-> session.probed]
            /\ confirmed' = confirmed \cup {new} /\ session' = Backend!Done(s)
         \/ Backend!Raise /\ UNCHANGED confirmed
  BY <1>1 DEF Backend!Compare
<1>3. Reloads /\ session.todo = Save1
  BY <1>2, StepsOf DEF BackendInv
<1>4. \A i \in {Save2, Save3, Save4, Save5} : Save1 # i
  BY SaveLeads DEF Gives
<1>5. /\ session.mode = "idle" /\ driver = "train" /\ Exported(session.policy) /\ ~Backend!Doing("start")
      /\ session.before.tensors = session.policy.weights /\ barrier.stamp = session.policy
      /\ \A w \in Worker : engine.served[w] = trainer.tensors
      /\ trainer.tensors = disk[session.policy.step].checkpoint /\ trainer.step = session.policy.step
  BY <1>3, <1>2, <1>4 DEF Reloads, Saving, Backend!Doing
<1>6. (SessionShape(session') => BackendShape') /\ (SessionShape(session)' <=> SessionShape(session'))
  BY <1>2 DEF BackendInv, BackendShape, SessionShape
<1>7. CASE Backend!Raise /\ UNCHANGED confirmed
  BY <1>2, <1>5, <1>6, <1>7, ConfirmedKept, Raising DEF BackendInv
<1>8. CASE /\ session.before = [tensors |-> trainer.tensors, probed |-> session.probed]
           /\ confirmed' = confirmed \cup {new} /\ session' = Backend!Done(s)
  <2>1. /\ SessionShape(s) /\ s.todo = session.todo /\ s.mode = session.mode /\ s.policy = session.policy
        /\ s.before = Nothing
    BY <1>1 DEF BackendInv, BackendShape, SessionShape
  <2>2. After(session', s, <<>>)
    BY <1>3, <1>8, <2>1, DoneOf, SaveLeads
  <2>3. /\ SessionShape(session') /\ session'.todo = <<>> /\ session'.mode = "idle" /\ session'.before = Nothing
        /\ session'.policy = session.policy
    BY <2>1, <2>2 DEF After
  <2>4. trainer.tensors = session.policy.weights
    BY <1>5, <1>8
  <2>5. new.policy = session.policy /\ new.step = session.policy.step
    BY <1>1, <1>5
  <2>6. ConfirmedHolds'
    BY <1>2, <1>5, <1>8, <2>4, <2>5 DEF BackendInv, ConfirmedHolds, Exported
  <2>7. LiveInv' /\ Idles'
    BY <1>2, <1>5, <2>3, <2>4 DEF LiveInv, Held, Answers, Idles
  <2> QED BY <1>2, <1>5, <1>6, <2>3, <2>6, <2>7, Named, Going DEF BackendInv
<1> QED BY <1>2, <1>7, <1>8

LEMMA ResumeStep ==
    ASSUME BackendInv, NEW c \in confirmed, Backend!Resume(c)
    PROVE  BackendInv'
  BY PlansStart, SyncLeads, RestsOf, AskedShape, LiveKept, Named, Going DEF Backend!Resume,
     Backend!Free, Backend!Resting, Backend!outside, BackendInv, BackendShape, SessionShape, Loads,
     Gives

LEMMA ActivateStep ==
    ASSUME BackendInv, NEW c \in Backend!Arms, Backend!Activate(c)
    PROVE  BackendInv'
<1>1. /\ session.todo = <<>> /\ session.mode \in {"idle", "failed"} /\ session.before = Nothing /\ driver = "arms"
      /\ UNCHANGED <<driver, confirmed, completion, batch, loss, trainer, engine, barrier, disk, made>>
  BY DEF Backend!Activate, Backend!Free, Backend!Resting, Backend!outside
<1>2. Idles /\ session.todo # Save1 /\ ~Backend!Doing("start")
  BY <1>1, RestsOf
<1>3. session.mode = "idle" /\ ~Silent
  BY <1>1, <1>2 DEF BackendInv, Place, Idles
<1>4. Held(session.policy)
  BY <1>1, <1>3, RestsOf
<1>5. PICK todo : session' = [session EXCEPT !.todo = todo, !.target = c.policy, !.active = c]
        /\ \/ c.step # 0 /\ todo = Load1
           \/ c.step = 0 /\ session.policy.weights # 0 /\ todo = Init2
           \/ c.step = 0 /\ session.policy.weights = 0 /\ todo = Sync4
  BY PlansStart DEF Backend!Activate
<1>6. /\ SessionShape(session') /\ session'.todo = todo /\ session'.mode = "idle"
      /\ session'.target = c.policy /\ session'.before = Nothing /\ session'.policy = session.policy
  BY <1>1, <1>3, <1>5 DEF BackendInv, BackendShape, SessionShape
<1>7. (c.step # 0 /\ c \in confirmed) \/ (c.step = 0 /\ c.policy = Backend!InitialPolicy)
  BY BackendAssumption DEF Backend!Arms, Backend!InitialArm, BackendInv, ConfirmedHolds, Exported
<1>8. Backend!InitialPolicy.weights = 0
  BY DEF Backend!InitialPolicy, Backend!Policy
<1>9. Loads' \/ Inits' \/ Syncs'
  BY <1>1, <1>4, <1>5, <1>6, <1>7, <1>8 DEF Loads, Inits, Syncs, Held
<1>10. Head(todo) \in {"load", "revoke", "begin"}
  BY <1>5, SyncLeads DEF Gives
<1>11. LiveInv'
  BY <1>1, <1>2, <1>3, <1>6, LiveKept DEF BackendInv
<1> QED BY <1>1, <1>2, <1>3, <1>6, <1>9, <1>10, <1>11, AskedShape, Named, Going DEF BackendInv

LEMMA InitialArmSteps ==
    ASSUME BackendInv, Backend!Revoke \/ Backend!InitModel
    PROVE  BackendInv'
<1>1. /\ Backend!Doing("revoke") \/ Backend!Doing("init")
      /\ UNCHANGED <<driver, confirmed, completion, batch, loss, engine, disk, made>>
  BY DEF Backend!Revoke, Backend!InitModel, Backend!outside
<1>2. /\ Init2 # Init1 /\ Init1 # <<>> /\ Sync4 # <<>> /\ Head(Init1) = "init" /\ Head(Sync4) = "begin"
  BY SyncLeads DEF Gives
<1>3. \/ Inits /\ session.todo = Init2 /\ Silent' /\ UNCHANGED trainer /\ Backend!Goes
      \/ /\ Inits /\ session.todo = Init1 /\ Silent'
         /\ \/ trainer' = [tensors |-> 0, step |-> 0] /\ Backend!Goes
            \/ trainer' \in {trainer, [trainer EXCEPT !.tensors = Backend!Torn]} /\ Backend!Raise
  BY StepsOf, <1>2 DEF Backend!Revoke, BackendInv, Backend!Works, Backend!Begin, Silent,
     Backend!InitModel, Inits, Backend!Fails, Backend!outside
<1>4. trainer' = [tensors |-> trainer'.tensors, step |-> trainer'.step] /\ trainer'.tensors \in Nat /\ trainer'.step \in Nat
  BY <1>3, BackendAssumption DEF Backend!Torn, BackendInv, BackendShape
<1>5. (SessionShape(session') => BackendShape') /\ (SessionShape(session)' <=> SessionShape(session')) /\ ConfirmedHolds'
  BY <1>1, <1>4, ConfirmedKept DEF BackendInv, BackendShape, SessionShape
<1>6. session.mode = "idle" /\ ~Backend!Doing("start") /\ Silent'
  BY <1>1, <1>3 DEF Inits, Backend!Doing
<1>7. CASE Backend!Raise
  BY <1>1, <1>5, <1>6, <1>7, Raising
<1>8. CASE Inits /\ session.todo = Init2 /\ Backend!Goes
  BY <1>8, GoesOn, SyncLeads, <1>2, <1>6, <1>1, <1>5, LiveSilent, Named, Going DEF Inits, After,
     BackendInv
<1>9. CASE Inits /\ session.todo = Init1 /\ trainer' = [tensors |-> 0, step |-> 0] /\ Backend!Goes
  BY <1>9, GoesOn, SyncLeads, <1>2, <1>6, <1>1, <1>5, LiveSilent, Named, Going DEF Inits, Syncs,
     After, Held, Backend!InitialPolicy, Backend!Policy, BackendInv
<1> QED BY <1>2, <1>3, <1>7, <1>8, <1>9

LEMMA GenerateStep ==
    ASSUME BackendInv, Backend!Generate
    PROVE  BackendInv'
  BY BackendAssumption, RestsOf, AskedShape, Named DEF Backend!Generate, Backend!Free,
     Backend!Resting, Backend!Verified, Silent, BackendInv, BackendShape, Answers,
     Backend!SampledAsNamed, SessionShape, LiveInv, Held, Losses, Backend!Alone, Backend!Doing,
     Backend!Asleep, Place, Idles, Exported

\* A session that is closed, or about to start.
LEMMA ClosedStep ==
    ASSUME BackendInv, UNCHANGED <<driver, confirmed, completion, batch, disk, made>>, BackendShape',
           \/ session' = Backend!Closed
           \/ session' = [Backend!Closed EXCEPT !.mode = "opening", !.todo = <<"start">>] /\ Silent'
    PROVE  BackendInv'
<1>1. Head(<<"start">>) = "start"
  OBVIOUS
<1>2. Place' /\ LiveInv' /\ Backend!Alone' /\ Losses'
  <2>1. CASE session' = Backend!Closed
    BY <2>1 DEF Backend!Closed, Place, Idles, LiveInv, Losses, Backend!Alone, Backend!Doing
  <2>2. CASE session' = [Backend!Closed EXCEPT !.mode = "opening", !.todo = <<"start">>] /\ Silent'
    BY <2>2, <1>1 DEF Backend!Closed, Place, Constructs, LiveInv, Losses, Backend!Alone,
       Backend!Doing
  <2> QED BY <2>1, <2>2
<1> QED BY <1>2, Named, ConfirmedKept DEF BackendInv

LEMMA ClosedSteps ==
    ASSUME BackendInv, Backend!Construct \/ Backend!Crash \/ Backend!Close
    PROVE  BackendInv'
<1>1. /\ UNCHANGED <<driver, confirmed, completion, batch, disk, made, trainer, engine>>
      /\ \/ session' = Backend!Closed
         \/ session' = [Backend!Closed EXCEPT !.mode = "opening", !.todo = <<"start">>] /\ Silent'
  BY DEF Backend!Construct, Backend!Crash, Backend!Close, Backend!outside, Silent
<1>2. SessionShape(session')
  BY <1>1 DEF Backend!Closed, SessionShape
<1> QED BY <1>1, <1>2, AskedShape, ClosedStep

LEMMA StartTrainerStep ==
    ASSUME BackendInv, Backend!StartTrainer
    PROVE  BackendInv'
<1>1. /\ Backend!Doing("start") /\ trainer' = [tensors |-> 0, step |-> 0]
      /\ \E awake \in {{}, Worker} : engine' = [served |-> [w \in Worker |-> 0], awake |-> awake]
      /\ UNCHANGED <<driver, confirmed, completion, batch, barrier, disk, made>>
      /\ \/ Backend!Raise
         \/ session' = [session EXCEPT !.todo = Open3] /\ loss' = "ours"
  BY PlansStart DEF Backend!StartTrainer
<1>2. Constructs
  BY <1>1, StepsOf DEF BackendInv
<1>3. Silent' /\ ConfirmedHolds' /\ LiveInv'
  BY <1>1, <1>2, ConfirmedKept, LiveSilent DEF Constructs, Silent, BackendInv
<1>4. /\ engine' = [served |-> engine'.served, awake |-> engine'.awake] /\ engine'.awake \subseteq Worker
      /\ trainer' = [tensors |-> trainer'.tensors, step |-> trainer'.step] /\ trainer'.tensors \in Nat /\ trainer'.step \in Nat
  BY <1>1
<1>5. (SessionShape(session') => BackendShape') /\ (SessionShape(session)' <=> SessionShape(session'))
  BY <1>1, <1>4 DEF BackendInv, BackendShape, SessionShape
<1>6. CASE Backend!Raise
  BY <1>2, <1>6, <1>1, <1>5, ClosedStep DEF Backend!Raise, Backend!Raised, Constructs,
     Backend!Closed, SessionShape
<1>7. CASE session' = [session EXCEPT !.todo = Open3] /\ loss' = "ours"
  <2>1. SessionShape(session') /\ session'.todo = Open3 /\ session'.mode = "opening" /\ session'.before = Nothing
        /\ session'.target = Backend!InitialPolicy
    BY <1>2, <1>7 DEF BackendInv, BackendShape, SessionShape, Constructs
  <2>2. Opens'
    BY <1>1, <1>3, <2>1 DEF Opens, Held, Backend!InitialPolicy, Backend!Policy
  <2>3. Head(Open3) = "ensure"
    BY SyncLeads DEF Gives
  <2>4. Place' /\ Losses' /\ Backend!Alone'
    BY <1>7, <2>1, <2>2, <2>3 DEF Place, Losses, Backend!Alone, Backend!Doing
  <2> QED BY <1>1, <1>3, <1>5, <2>1, <2>4, Named DEF BackendInv
<1> QED BY <1>1, <1>6, <1>7

LEMMA BackendStays ==
    ASSUME BackendInv, Backend!SessionNext
    PROVE  BackendInv'
<1>1. CASE Backend!Construct \/ Backend!StartTrainer \/ Backend!Crash \/ Backend!Close
  BY <1>1, ClosedSteps, StartTrainerStep
<1>2. CASE Backend!BeginStep \/ Backend!Ensure \/ Backend!Broadcast \/ Backend!Ready \/ Backend!Probe
  BY <1>2, BeginsStep, EnsureStep, BroadcastStep, ReadyStep, ProbeStep
<1>3. CASE Backend!SkipUpdate \/ Backend!Update \/ Backend!Sleep \/ Backend!Train \/ Backend!Export
  BY <1>3, SkipUpdateStep, UpdateStep, SleepStep, TrainsOn, ExportStep
<1>4. CASE Backend!SaveReload \/ Backend!Save \/ Backend!Load \/ Backend!Compare
  BY <1>4, SaveReloadStep, SaveStep, LoadStep, CompareStep
<1>5. CASE \/ \E c \in confirmed : Backend!Resume(c)
           \/ \E c \in Backend!Arms : Backend!Activate(c)
  BY <1>5, ResumeStep, ActivateStep
<1>6. CASE Backend!Revoke \/ Backend!InitModel \/ Backend!Generate
  BY <1>6, InitialArmSteps, GenerateStep
<1> QED BY <1>1, <1>2, <1>3, <1>4, <1>5, <1>6 DEF Backend!SessionNext

LEMMA BackendRests ==
    ASSUME BackendInv, UNCHANGED sessionOwn
    PROVE  BackendInv'
<1>1. UNCHANGED <<driver, session, trainer, engine, barrier, disk, confirmed, completion, batch, loss, made>>
  BY DEF sessionOwn
<1>2. BackendShape' /\ ConfirmedHolds' /\ LiveInv' /\ Losses' /\ Backend!Alone'
  BY <1>1 DEF BackendInv, BackendShape, SessionShape, ConfirmedHolds, Exported, LiveInv, Silent, Held, Answers, Losses,
     Backend!Alone, Backend!Doing, Backend!Asleep
<1>3. /\ Idles => Idles'
      /\ Constructs => Constructs'
      /\ Opens => Opens'
      /\ Syncs => Syncs'
      /\ Updates => Updates'
  BY <1>1 DEF Idles, Constructs, Opens, Syncs, Updates, Silent, Held, Heard, Exported
<1>4. (Saves => Saves') /\ (Reloads => Reloads') /\ (Loads => Loads') /\ (Inits => Inits')
  BY <1>1 DEF Saves, Reloads, Saving, Loads, Inits, Silent, Held, Heard, Exported
<1>5. Place'
  BY <1>1, <1>3, <1>4 DEF BackendInv, Place
<1> QED BY <1>1, <1>2, <1>5, Named DEF BackendInv

LEMMA BackendInitial ==
    ASSUME Backend!SessionInit
    PROVE  BackendInv
  BY BackendAssumption DEF Backend!Whole, Backend!SessionInit, Backend!SampledAsNamed,
     Backend!MiniBatchesWhole, Backend!Closed, SessionShape, Place, Idles, LiveInv, Losses,
     Backend!Alone, Backend!Doing, Backend!Contents, ConfirmedHolds, Exported, Backend!Policy,
     BackendShape, Backend!Unused, BackendInv

-----------------------------------------------------------------------------
(* The updater, and the invariant of the run.                              *)

WholeModel(m, steps) == m.whole /\ m.steps = steps

UpdaterInv ==
    /\ updater = [model |-> updater.model, steps |-> updater.steps, failed |-> updater.failed]
    /\ ~updater.failed => WholeModel(updater.model, updater.steps)
    /\ kept = [f \in Backend!Path |-> kept[f]]
    /\ \A f \in Backend!Path : kept[f] # Nothing => WholeModel(kept[f].model, kept[f].steps)

LEMMA UpdaterStays ==
    ASSUME UpdaterInv, Backend!UpdaterNext
    PROVE  UpdaterInv'
<1>1. CASE Backend!UpdateTurns \/ Backend!Restart
  <2>1. /\ UNCHANGED kept
        /\ \/ \E n : updater' = [model |-> Backend!Model(n, TRUE), steps |-> n, failed |-> FALSE]
           \/ updater' = [updater EXCEPT !.model.whole = FALSE, !.failed = TRUE]
    BY <1>1 DEF Backend!UpdateTurns, Backend!Restart
  <2>2. CASE \E n : updater' = [model |-> Backend!Model(n, TRUE), steps |-> n, failed |-> FALSE]
    BY <2>1, <2>2 DEF UpdaterInv, WholeModel, Backend!Model
  <2>3. CASE updater' = [updater EXCEPT !.model.whole = FALSE, !.failed = TRUE]
    BY <2>3, <2>1 DEF UpdaterInv
  <2> QED BY <2>1, <2>2, <2>3
<1>2. ASSUME NEW f \in Backend!Path, Backend!SaveCheckpoint(f)
      PROVE  UpdaterInv'
  BY <1>2 DEF Backend!SaveCheckpoint, UpdaterInv
<1>3. ASSUME NEW f \in Backend!Path, Backend!LoadCheckpoint(f)
      PROVE  UpdaterInv'
  BY <1>3 DEF UpdaterInv, Backend!LoadCheckpoint
<1> QED BY <1>1, <1>2, <1>3 DEF Backend!UpdaterNext

AllInv == (part = "backend" => BackendInv) /\ (part = "updater" => UpdaterInv)

\* Every completion is of the weights that its policy names, a confirmed checkpoint holds what
\* its policy names and stays as it is, the policy is on the GPUs only while no inference worker
\* is awake, a minibatch is of whole groups, and the updater keeps only whole models, whatever
\* failed before (training/native.py, skyrl_bridge.py, torch_backend.py).
THEOREM BackendStaysSound == AllSpec => []BackendSound
<1>1. AllInit => AllInv
  BY BackendInitial DEF Backend!UpdaterInit, UpdaterInv, WholeModel, Backend!Model, AllInit, AllInv
<1>2. AllInv /\ [AllNext]_<<part, vars, sessionOwn, updaterOwn>> => AllInv'
  <2> SUFFICES ASSUME AllInv, [AllNext]_<<part, vars, sessionOwn, updaterOwn>> PROVE AllInv'
    OBVIOUS
  <2>1. ASSUME UNCHANGED <<part, sessionOwn, updaterOwn>> PROVE AllInv'
    BY <2>1, BackendRests DEF UpdaterInv, WholeModel, updaterOwn, AllInv
  <2> QED BY <2>1, BackendStays, UpdaterStays DEF AllNext, AllInv
<1>3. AllInv => BackendSound
  BY DEF ConfirmedHolds, Exported, Backend!CheckpointsHold, BackendInv, Backend!SessionSound,
     UpdaterInv, WholeModel, Backend!UpdaterSound, AllInv, BackendSound
<1> QED BY <1>1, <1>2, <1>3, PTL DEF AllSpec
=============================================================================
