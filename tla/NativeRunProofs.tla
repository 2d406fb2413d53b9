-------------------------- MODULE NativeRunProofs --------------------------
(***************************************************************************)
(* Theorems about NativeRun, for every number of processes, turns,         *)
(* gradings, recoveries and faults.                                        *)
(***************************************************************************)
EXTENDS NativeRun, FiniteSetTheorems, TLAPS

\* Where a process may still come to announce a phase of the episode without entering run or
\* retry_publication again.
Driving == {"controller", "turn", "announce", "dispatched", "record", "recorded",
            "close workspace", "submit", "grade", "record recovered"}
Drives(p) == pc[p] \in Driving

\* The order an episode takes its phases in.
Rank(ph) == CASE ph[1] = "generation" -> 2 * ph[2]
              [] ph[1] = "action"     -> 2 * ph[2] + 1
              [] OTHER                -> 2 * MaxTurns + ph[2]

\* The rank of the next phase a driving process may announce.
Mark(p) == CASE pc[p] \in {"controller", "turn"} -> 2 * me[p].turn
             [] pc[p] = "announce"               -> Rank(me[p].phase)
             [] pc[p] \in {"dispatched", "record", "recorded", "record recovered"} ->
                  Rank(me[p].phase) + 1
             [] OTHER                            -> 2 * MaxTurns + me[p].index

\* The phase was announced under this stamp.
Announced(ph, stamp) == rows[ph] # <<>> /\ rows[ph][1] = {Receipt("intent", stamp)}

\* The job can still be claimed.
Claimable == run.state \in {"absent", "queued"}

IsRow(s) == \E S : s \in Seq(S)

RunShape ==
    /\ DOMAIN run = {"state", "result"}
    /\ run.state \in {"absent", "queued", "running", "completed"}

Tables ==
    /\ DOMAIN pc = Process /\ DOMAIN me = Process
    /\ \A p \in Process : DOMAIN me[p] = DOMAIN Fresh
    /\ Phase \subseteq DOMAIN rows /\ \A ph \in Phase : IsRow(rows[ph])
    /\ calls \in [Phase -> Nat]
    /\ retries \in Nat
    /\ RunShape

\* Where p is in the episode.
Placed(p) ==
    /\ me[p].turn \in 0..MaxTurns
    /\ me[p].index \in 0..Gradings - 1
    /\ me[p].stamp \in 0..retries
    /\ pc[p] = "claim run" => me[p].stamp = 0
    /\ pc[p] \in {"announce", "dispatched", "record", "recorded", "record recovered"} =>
          /\ me[p].phase \in Phase
          /\ me[p].phase[2] = IF me[p].phase[1] = "grade" THEN me[p].index ELSE me[p].turn

\* A stamp is one process's, and what is announced under it lies behind that process.
Behind(p) == Drives(p) =>
    /\ \A ph \in Phase : Rank(ph) >= Mark(p) => ~Announced(ph, me[p].stamp)
    /\ Claimable => me[p].stamp # 0
    /\ \A q \in Process : q # p /\ Drives(q) => me[q].stamp # me[p].stamp

\* Stamps to come have announced nothing.
Unused ==
    /\ \A ph \in Phase, s \in Nat : Announced(ph, s) => s <= retries
    /\ Claimable => \A ph \in Phase : ~Announced(ph, 0)

\* A phase is executed after its announcement, once, by the process that announced it.
Executed ==
    /\ \A ph \in Phase : calls[ph] <= 1 /\ (calls[ph] > 0 => rows[ph] # <<>>)
    /\ \A p \in Process : pc[p] = "dispatched" =>
          calls[me[p].phase] = 0 /\ Announced(me[p].phase, me[p].stamp)

EpisodeInv ==
    /\ Tables
    /\ \A p \in Process : Placed(p)
    /\ \A p \in Process : Behind(p)
    /\ Unused

CallInv == EpisodeInv /\ Executed

-----------------------------------------------------------------------------
(* What a step may do to an episode without announcing or executing.       *)

\* The other processes stay where they are, and p's record keeps its fields.
Alone(p) ==
    /\ DOMAIN pc' = Process /\ DOMAIN me' = Process
    /\ \A q \in Process \ {p} : pc'[q] = pc[q] /\ me'[q] = me[q]
    /\ DOMAIN me'[p] = DOMAIN Fresh

\* The counts of p's episode stay.
SameCounts(p) ==
    me'[p].turn = me[p].turn /\ me'[p].index = me[p].index /\ me'[p].stamp = me[p].stamp

\* No phase is announced.
RowsGrow ==
    /\ Phase \subseteq DOMAIN rows'
    /\ \A ph \in Phase :
          /\ IsRow(rows'[ph])
          /\ \/ rows'[ph] = rows[ph]
             \/ rows[ph] # <<>> /\ rows'[ph] # <<>> /\ rows'[ph][1] = rows[ph][1]

\* No publication is retried either, and the job is not offered anew.
Still ==
    /\ RowsGrow
    /\ retries' = retries
    /\ RunShape' /\ (Claimable' => Claimable)

\* And nothing is executed.
Calm == Still /\ calls' = calls

\* p goes on under its stamp, never back; or leaves the episode.
Onward(p) ==
    /\ pc'[p] # "dispatched"
    /\ Placed(p)'
    /\ Drives(p)' => Drives(p) /\ me'[p].stamp = me[p].stamp /\ Mark(p)' >= Mark(p)

LEMMA RankType ==
    /\ \A ph \in Phase : Rank(ph) \in Nat
    /\ \A k \in 0..MaxTurns - 1 : Rank(<<"generation", k>>) = 2 * k /\ Rank(<<"action", k>>) = 2 * k + 1
    /\ \A i \in 0..Gradings - 1 : Rank(<<"grade", i>>) = 2 * MaxTurns + i
  BY CountsAssumption DEF Rank, Phase

\* Twice a count, and a count after all turns.
LEMMA Twice ==
    ASSUME NEW t \in 0..MaxTurns, NEW i \in 0..Gradings - 1
    PROVE  /\ 2 * t \in Nat /\ 2 * MaxTurns + i \in Nat
           /\ 2 * t <= 2 * MaxTurns + i
           /\ t < MaxTurns => t \in 0..MaxTurns - 1 /\ t + 1 \in 0..MaxTurns
           /\ t \in 0..MaxTurns - 1 => 2 * t + 2 <= 2 * MaxTurns + i
  BY CountsAssumption

LEMMA Zero ==
    ASSUME NEW r \in Nat
    PROVE  0 \in 0..MaxTurns /\ 0 \in 0..Gradings - 1 /\ 0 \in 0..r
  BY CountsAssumption

LEMMA MarkType ==
    ASSUME NEW p \in Process, Placed(p)
    PROVE  Mark(p) \in Nat
<1>1. 2 * me[p].turn \in Nat /\ 2 * MaxTurns + me[p].index \in Nat
  BY Twice DEF Placed
<1>2. CASE pc[p] \in {"announce", "dispatched", "record", "recorded", "record recovered"}
  <2>1. me[p].phase \in Phase
    BY <1>2 DEF Placed
  <2>2. Mark(p) \in {Rank(me[p].phase), Rank(me[p].phase) + 1}
    BY <1>2 DEF Mark
  <2> QED BY <2>1, <2>2, RankType
<1>3. CASE pc[p] \notin {"announce", "dispatched", "record", "recorded", "record recovered"}
  BY <1>1, <1>3 DEF Mark
<1> QED BY <1>2, <1>3

LEMMA MarkTypeNext ==
    ASSUME NEW p \in Process, Placed(p)'
    PROVE  Mark(p)' \in Nat
<1>1. 2 * me'[p].turn \in Nat /\ 2 * MaxTurns + me'[p].index \in Nat
  BY Twice DEF Placed
<1>2. CASE pc'[p] \in {"announce", "dispatched", "record", "recorded", "record recovered"}
  <2>1. me'[p].phase \in Phase
    BY <1>2 DEF Placed
  <2>2. Rank(me[p].phase)' \in Nat
    BY <2>1, RankType DEF Rank
  <2>3. Mark(p)' \in {Rank(me[p].phase)', Rank(me[p].phase)' + 1}
    BY <1>2 DEF Mark
  <2> QED BY <2>2, <2>3
<1>3. CASE pc'[p] \notin {"announce", "dispatched", "record", "recorded", "record recovered"}
  BY <1>1, <1>3 DEF Mark
<1> QED BY <1>2, <1>3

LEMMA OnwardEpisode ==
    ASSUME CallInv, NEW p \in Process, Alone(p), Still, Onward(p), calls' \in [Phase -> Nat]
    PROVE  EpisodeInv'
<1>1. Tables'
  BY DEF CallInv, EpisodeInv, Tables, Alone, Still, RowsGrow
<1>2. ASSUME NEW ph \in Phase, NEW s, Announced(ph, s)'
      PROVE  Announced(ph, s)
  BY <1>2 DEF Announced, Still, RowsGrow
<1>3. ASSUME NEW ph \in Phase, NEW s, Announced(ph, s)
      PROVE  Announced(ph, s)'
  BY <1>3 DEF Announced, Still, RowsGrow
<1>4. \A q \in Process : Placed(q)'
  BY ZenonT(30) DEF CallInv, EpisodeInv, Placed, Alone, Still, Onward
<1>5. \A q \in Process : Drives(q)' =>
         Drives(q) /\ me'[q].stamp = me[q].stamp /\ Mark(q)' >= Mark(q)
  <2>1. \A q \in Process \ {p} : Drives(q)' => Drives(q) /\ me'[q].stamp = me[q].stamp /\ Mark(q)' = Mark(q)
    BY DEF Alone, Drives, Mark, Rank
  <2>2. \A q \in Process : Mark(q) \in Nat
    BY MarkType DEF CallInv, EpisodeInv
  <2> QED BY <2>1, <2>2 DEF Onward
<1>6. ASSUME NEW q \in Process
      PROVE  Behind(q)'
  <2>1. SUFFICES ASSUME Drives(q)'
                 PROVE  /\ \A ph \in Phase : Rank(ph)' >= Mark(q)' => ~Announced(ph, me[q].stamp)'
                        /\ Claimable' => me'[q].stamp # 0
                        /\ \A r \in Process : r # q /\ Drives(r)' => me'[r].stamp # me'[q].stamp
    BY DEF Behind
  <2>2. Drives(q) /\ me'[q].stamp = me[q].stamp /\ Mark(q)' >= Mark(q)
    BY <2>1, <1>5
  <2>3. ASSUME NEW ph \in Phase, Rank(ph)' >= Mark(q)'
        PROVE  ~Announced(ph, me[q].stamp)'
    BY <1>4, <2>2, <2>3, <1>2, RankType, MarkType, MarkTypeNext DEF Rank, CallInv, EpisodeInv,
       Behind, Announced
  <2> QED BY <2>2, <2>3, <1>5 DEF CallInv, EpisodeInv, Behind, Still
<1>7. Unused'
  BY <1>2 DEF CallInv, EpisodeInv, Unused, Still
<1> QED BY <1>1, <1>4, <1>6, <1>7 DEF EpisodeInv

LEMMA OnwardKeeps ==
    ASSUME CallInv, NEW p \in Process, Alone(p), Calm, Onward(p)
    PROVE  CallInv'
<1>1. EpisodeInv'
  BY OnwardEpisode DEF CallInv, EpisodeInv, Tables, Calm
<1>2. Executed'
  <2>1. \A ph \in Phase : calls'[ph] <= 1 /\ (calls'[ph] > 0 => rows'[ph] # <<>>)
    BY DEF CallInv, EpisodeInv, Executed, Calm, Still, RowsGrow
  <2>2. ASSUME NEW q \in Process, pc'[q] = "dispatched"
        PROVE  calls'[me'[q].phase] = 0 /\ Announced(me[q].phase, me[q].stamp)'
    <3>1. pc[q] = "dispatched" /\ me'[q] = me[q]
      BY <2>2 DEF Alone, Onward
    <3>2. me[q].phase \in Phase /\ calls[me[q].phase] = 0 /\ Announced(me[q].phase, me[q].stamp)
      BY <3>1 DEF CallInv, EpisodeInv, Placed, Executed
    <3>3. Announced(me[q].phase, me[q].stamp)' <=>
             rows'[me[q].phase] # <<>> /\ rows'[me[q].phase][1] = {Receipt("intent", me[q].stamp)}
      BY <3>1 DEF Announced, Receipt
    <3> QED BY <3>1, <3>2, <3>3 DEF Calm, Still, RowsGrow, Announced
  <2> QED BY <2>1, <2>2 DEF Executed
<1> QED BY <1>1, <1>2 DEF CallInv, EpisodeInv

-----------------------------------------------------------------------------
(* Rows and calls.                                                         *)

LEMMA AppendRow ==
    ASSUME NEW s, IsRow(s), NEW x
    PROVE  /\ IsRow(Append(s, x))
           /\ Append(s, x) # <<>>
           /\ IF s = <<>> THEN Append(s, x)[1] = x ELSE Append(s, x)[1] = s[1]
<1>1. PICK S : s \in Seq(S)
  BY DEF IsRow
<1>2. s \in Seq(S \cup {x})
  BY <1>1
<1>3. Append(s, x) \in Seq(S \cup {x})
  BY <1>2
<1>4. Append(s, x) # <<>> /\ Append(s, x)[Len(s) + 1] = x
  BY <1>2
<1>5. s # <<>> => Append(s, x)[1] = s[1]
  BY <1>2
<1>6. s = <<>> => Len(s) + 1 = 1
  OBVIOUS
<1> QED BY <1>3, <1>4, <1>5, <1>6 DEF IsRow

LEMMA SameRows ==
    ASSUME CallInv, UNCHANGED rows
    PROVE  RowsGrow
  BY DEF CallInv, EpisodeInv, Tables, RowsGrow

\* Wherever a revision is recorded or refused, p goes on at one of two places.
LEMMA ObserveGoes ==
    ASSUME NEW p, NEW name, NEW n, NEW receipts, NEW ok, NEW bad,
           Observe(p, name, n, receipts, ok, bad)
    PROVE  Goto(p, ok) \/ Goto(p, bad)
  BY DEF Observe, Call

\* What happens to the rows: nothing, or the revision is appended.
LEMMA ObserveRows ==
    ASSUME NEW p, NEW name, NEW n, NEW receipts, NEW ok, NEW bad,
           Observe(p, name, n, receipts, ok, bad)
    PROVE  \/ rows' = rows
           \/ /\ rows' = [rows EXCEPT ![name] = Append(@, receipts)]
              /\ n = Len(rows[name]) + 1
  BY DEF Observe, Call, Extends

LEMMA OtherRow ==
    ASSUME CallInv, NEW p, NEW name, NEW n, NEW receipts, NEW ok, NEW bad,
           Observe(p, name, n, receipts, ok, bad), name \notin Phase
    PROVE  RowsGrow
  BY SameRows, ObserveRows DEF CallInv, EpisodeInv, Tables, RowsGrow

LEMMA SecondRevision ==
    ASSUME CallInv, NEW p, NEW name, NEW receipts, NEW ok, NEW bad,
           Observe(p, name, 2, receipts, ok, bad)
    PROVE  RowsGrow
<1>1. CASE rows' = rows
  BY <1>1, SameRows
<1>2. CASE name \notin Phase
  BY <1>2, OtherRow
<1>3. CASE /\ name \in Phase
           /\ rows' = [rows EXCEPT ![name] = Append(@, receipts)]
           /\ 2 = Len(rows[name]) + 1
  BY <1>3, AppendRow DEF CallInv, EpisodeInv, Tables, RowsGrow
<1> QED BY <1>1, <1>2, <1>3, ObserveRows

\* No row of the run, the session or the outer job is a phase's.
LEMMA NotPhases ==
    {Controller, Frozen, Startup, Shutdown, Abort, Request, Activation, Child} \cap Phase = {}
  BY DEF Controller, Frozen, Startup, Shutdown, Abort, Request, Activation, Child, Phase

-----------------------------------------------------------------------------
(* The ways most steps go.                                                 *)

\* p's record changes, its counts do not.
Kept(p) ==
    /\ DOMAIN me' = Process /\ DOMAIN me'[p] = DOMAIN Fresh
    /\ \A q \in Process \ {p} : me'[q] = me[q]
    /\ SameCounts(p)

\* The job is not offered anew, and nothing is executed or retried.
Idle ==
    /\ calls' = calls /\ retries' = retries
    /\ RunShape' /\ (Claimable' => Claimable)

LEMMA SameKept ==
    ASSUME CallInv, NEW p \in Process, UNCHANGED me
    PROVE  Kept(p)
  BY DEF CallInv, EpisodeInv, Tables, Kept, SameCounts

LEMMA MineKept ==
    ASSUME CallInv, NEW p \in Process,
           NEW field \in DOMAIN Fresh \ {"turn", "index", "stamp"}, NEW value,
           Mine(p, field, value)
    PROVE  Kept(p)
  BY DEF Mine, CallInv, EpisodeInv, Tables, Fresh, Kept, SameCounts

LEMMA RunIdle ==
    ASSUME CallInv, UNCHANGED <<calls, retries, run>>
    PROVE  Idle
  BY DEF CallInv, EpisodeInv, Tables, Idle, Claimable, RunShape

\* p leaves the episode, or is not in it.
LEMMA LeaveKeeps ==
    ASSUME CallInv, NEW p \in Process, NEW label, label \notin Driving \cup {"claim run"},
           Goto(p, label), Kept(p), RowsGrow, Idle
    PROVE  CallInv'
<1>1. pc'[p] = label /\ DOMAIN pc' = Process /\ \A q \in Process \ {p} : pc'[q] = pc[q]
  BY DEF Goto, CallInv, EpisodeInv, Tables
<1>2. Alone(p) /\ Calm
  BY <1>1 DEF Alone, Calm, Still, Kept, Idle
<1>3. Onward(p)
  BY <1>1 DEF CallInv, EpisodeInv, Placed, Kept, SameCounts, Idle, Driving, Onward, Drives
<1> QED BY <1>2, <1>3, OnwardKeeps

\* p stays in the episode and does not go back.
LEMMA StayKeeps ==
    ASSUME CallInv, NEW p \in Process, NEW label, label \in Driving \ {"dispatched"}, Drives(p),
           Goto(p, label), Kept(p), RowsGrow, Idle,
           label \in {"announce", "record", "recorded", "record recovered"} =>
              /\ me'[p].phase \in Phase
              /\ me'[p].phase[2] = IF me'[p].phase[1] = "grade" THEN me[p].index ELSE me[p].turn,
           Mark(p)' >= Mark(p)
    PROVE  CallInv'
<1>1. pc'[p] = label /\ DOMAIN pc' = Process /\ \A q \in Process \ {p} : pc'[q] = pc[q]
  BY DEF Goto, CallInv, EpisodeInv, Tables
<1>2. Alone(p) /\ Calm
  BY <1>1 DEF Alone, Calm, Still, Kept, Idle
<1>3. Onward(p)
  BY <1>1 DEF CallInv, EpisodeInv, Placed, Kept, SameCounts, Idle, Driving, Onward
<1> QED BY <1>2, <1>3, OnwardKeeps

\* Outside the episode: p moves, or records a revision of a row that is no phase's.
LEMMA GoKeeps ==
    ASSUME CallInv, NEW p \in Process, NEW label, label \notin Driving \cup {"claim run"},
           Goto(p, label), UNCHANGED <<rows, runVars>>
    PROVE  CallInv'
  BY LeaveKeeps, SameKept, SameRows, RunIdle DEF runVars

LEMMA RowKeeps ==
    ASSUME CallInv, NEW p \in Process, NEW name, name \notin Phase, NEW n, NEW receipts,
           NEW ok, NEW bad, {ok, bad} \cap (Driving \cup {"claim run"}) = {},
           Observe(p, name, n, receipts, ok, bad), UNCHANGED runVars
    PROVE  CallInv'
  BY LeaveKeeps, SameKept, OtherRow, ObserveGoes, RunIdle DEF runVars

-----------------------------------------------------------------------------
(* The session and the outer job.                                          *)

LEMMA SessionSteps ==
    ASSUME CallInv, NEW p \in Process, SessionStep(p), UNCHANGED runVars
    PROVE  CallInv'
<1>1. CASE CheckKey(p)
  <2>1. PICK label \in {"announce startup", "startup failed"} : Goto(p, label)
    BY <1>1 DEF CheckKey
  <2> QED BY <1>1, <2>1, GoKeeps DEF CheckKey, Driving
<1>2. CASE AnnounceStartup(p)
  BY <1>2, RowKeeps, NotPhases DEF AnnounceStartup, Driving
<1>3. CASE Construct(p)
  <2>1. PICK label \in {"publish startup", "startup failed"} : Goto(p, label)
    BY <1>3 DEF Construct
  <2> QED BY <1>3, <2>1, GoKeeps DEF Construct, Driving
<1>4. CASE PublishStartup(p)
  BY <1>4, RowKeeps, NotPhases DEF PublishStartup, Driving
<1>5. CASE Close(p)
  <2>1. PICK label \in {"close failed", "close done", "close session", "announce shutdown"} : Goto(p, label)
    BY <1>5 DEF Close
  <2> QED BY <1>5, <2>1, GoKeeps DEF Close, Driving
<1>6. CASE AnnounceShutdown(p)
  BY <1>6, NotPhases, RowKeeps DEF Key, AnnounceShutdown, Driving
<1>7. CASE CloseSession(p)
  <2>1. PICK label \in {"close failed", "publish shutdown"} : Goto(p, label)
    BY <1>7 DEF CloseSession
  <2> QED BY <1>7, <2>1, GoKeeps DEF CloseSession, Driving
<1>8. CASE PublishShutdown(p)
  BY <1>8, NotPhases, RowKeeps DEF Key, PublishShutdown, Driving
<1> QED BY <1>1, <1>2, <1>3, <1>4, <1>5, <1>6, <1>7, <1>8 DEF SessionStep

\* run, up to the child.
LEMMA ParentRunSteps ==
    ASSUME CallInv, NEW p \in Process,
           \/ Run(p) \/ Claim(p) \/ AnnounceParent(p) \/ StartupFailed(p)
           \/ AnnounceActivation(p) \/ Activate(p) \/ PublishActivation(p)
           \/ Assign(p) \/ StartChild(p) \/ UnwindRun(p)
    PROVE  CallInv'
<1>1. CASE Run(p)
  <2>1. PICK label \in {"claim", "idle"} : Goto(p, label)
    BY <1>1 DEF Run, Call
  <2> QED BY <1>1, <2>1, GoKeeps DEF Run, Driving
<1>2. CASE Claim(p)
  <2>1. PICK label \in {"parent", "idle"} : Goto(p, label)
    BY <1>2 DEF Claim, Call, Return
  <2> QED BY <1>2, <2>1, GoKeeps DEF Claim, Driving
<1>3. CASE AnnounceParent(p)
  BY <1>3, RowKeeps, NotPhases DEF AnnounceParent, Driving
<1>4. CASE StartupFailed(p)
  BY <1>4, GoKeeps DEF StartupFailed, Unwind, Driving
<1>5. CASE AnnounceActivation(p)
  BY <1>5, RowKeeps, NotPhases DEF AnnounceActivation, Driving
<1>6. CASE Activate(p)
  <2>1. PICK label \in {"publish activation", "unwind"} : Goto(p, label)
    BY <1>6 DEF Activate
  <2> QED BY <1>6, <2>1, GoKeeps DEF Activate, Driving
<1>7. CASE PublishActivation(p)
  BY <1>7, RowKeeps, NotPhases DEF PublishActivation, Driving
<1>8. CASE Assign(p)
  BY <1>8, RowKeeps, NotPhases DEF Assign, Driving
<1>9. CASE StartChild(p)
  <2>1. PICK label \in {"run", "unwind"} : Goto(p, label)
    BY <1>9 DEF StartChild
  <2> QED BY <1>9, <2>1, GoKeeps DEF StartChild, Driving
<1>10. CASE UnwindRun(p)
  BY <1>10, GoKeeps DEF UnwindRun, Unwind, Driving
<1> QED BY <1>1, <1>2, <1>3, <1>4, <1>5, <1>6, <1>7, <1>8, <1>9, <1>10

\* The child's answer, and completion.
LEMMA ParentEndSteps ==
    ASSUME CallInv, NEW p \in Process,
           \/ ChildReturned(p) \/ ChildRaised(p) \/ PublishChild(p) \/ CloseAndFinish(p)
           \/ CloseFailed(p) \/ CloseDone(p) \/ Finish(p)
    PROVE  CallInv'
<1>1. CASE ChildReturned(p)
  BY <1>1, GoKeeps DEF ChildReturned, Driving
<1>2. CASE ChildRaised(p)
  <2>1. PICK label \in {"idle", "close"} : Goto(p, label)
    BY <1>2 DEF ChildRaised, Return
  <2> QED BY <1>2, <2>1, GoKeeps DEF ChildRaised, Driving
<1>3. CASE PublishChild(p)
  <2>1. PICK ok \in {"finish", "close and finish"}, bad \in {"idle", "unwind"} :
           Observe(p, Child, 2, {parent[p].intent, Receipt("outcome", parent[p].child)}, ok, bad)
    BY <1>3 DEF PublishChild
  <2> QED BY <1>3, <2>1, RowKeeps, NotPhases DEF PublishChild, Driving
<1>4. CASE CloseAndFinish(p)
  BY <1>4, GoKeeps DEF CloseAndFinish, Driving
<1>5. CASE CloseFailed(p)
  BY <1>5, GoKeeps DEF CloseFailed, Return, Driving
<1>6. CASE CloseDone(p)
  <2>1. PICK label \in {"finish", "recover", "idle"} : Goto(p, label)
    BY <1>6 DEF CloseDone
  <2> QED BY <1>6, <2>1, GoKeeps DEF CloseDone, Driving
<1>7. CASE Finish(p)
  BY <1>7, GoKeeps DEF Finish, Call, Return, Driving
<1> QED BY <1>1, <1>2, <1>3, <1>4, <1>5, <1>6, <1>7

-----------------------------------------------------------------------------
(* recover, retry_publication and crashes.                                 *)

\* The process dies: nothing of the episode is left in it.
LEMMA CrashStep ==
    ASSUME CallInv, NEW p \in Process, Crash(p)
    PROVE  CallInv'
<1>1. pc'[p] = "idle" /\ DOMAIN pc' = Process /\ \A q \in Process \ {p} : pc'[q] = pc[q]
  BY DEF Crash, Return, Goto, CallInv, EpisodeInv, Tables
<1>2. me'[p] = Fresh /\ DOMAIN me' = Process /\ \A q \in Process \ {p} : me'[q] = me[q]
  BY DEF Crash, CallInv, EpisodeInv, Tables
<1>3. Alone(p)
  BY <1>1, <1>2 DEF Alone
<1>4. UNCHANGED <<rows, calls, retries, run>>
  BY DEF Crash
<1>5. Calm
  BY <1>4, SameRows, RunIdle DEF Calm, Still, Idle
<1>6. Onward(p)
  <2>1. Fresh.turn = 0 /\ Fresh.index = 0 /\ Fresh.stamp = 0
    BY DEF Fresh
  <2>2. retries \in Nat
    BY DEF CallInv, EpisodeInv, Tables
  <2>3. 0 \in 0..MaxTurns /\ 0 \in 0..Gradings - 1 /\ 0 \in 0..retries
    BY <2>2, Zero
  <2>4. Placed(p)'
    BY <1>1, <1>2, <1>4, <2>1, <2>3 DEF Placed
  <2> QED BY <1>1, <2>4 DEF Onward, Drives, Driving
<1> QED BY <1>3, <1>5, <1>6, OnwardKeeps

\* A retry is dated anew, and nothing was announced under its stamp.
Again(p, label) ==
    /\ label \in {"run returned", "run raised", "submit", "freeze", "publish", "grade"}
    /\ Goto(p, label)
    /\ UNCHANGED <<rows, calls, run>>
    /\ DOMAIN me' = Process /\ DOMAIN me'[p] = DOMAIN Fresh
    /\ \A q \in Process \ {p} : me'[q] = me[q]
    /\ me'[p].turn = me[p].turn /\ me'[p].index = me[p].index
    /\ me'[p].stamp = me[p].stamp \/ me'[p].stamp = retries'
    /\ label \in {"submit", "grade"} => me'[p].stamp = retries'

LEMMA RetryKeeps ==
    ASSUME CallInv, NEW p \in Process, NEW label, Again(p, label), retries' = retries + 1
    PROVE  CallInv'
<1>1. pc'[p] = label /\ DOMAIN pc' = Process /\ \A q \in Process \ {p} : pc'[q] = pc[q]
  BY DEF Again, Goto, CallInv, EpisodeInv, Tables
<1>2. retries \in Nat
  BY DEF CallInv, EpisodeInv, Tables
<1>3. retries' \in Nat /\ retries' > retries /\ 0..retries \subseteq 0..retries'
  BY <1>2
<1>4. \A q \in Process \ {p} : me'[q] = me[q] /\ pc'[q] = pc[q]
  BY <1>1 DEF Again
<1>5. UNCHANGED <<rows, calls, run>>
  BY DEF Again
<1>6. Tables'
  BY <1>1, <1>3, <1>4, <1>5 DEF CallInv, EpisodeInv, Tables, Again, RunShape
<1>7. ASSUME NEW q \in Process
      PROVE  Placed(q)'
  <2>1. Placed(q)
    BY DEF CallInv, EpisodeInv
  <2>2. CASE q = p
    <3>1. me'[p].stamp \in 0..retries'
      <4>1. me[p].stamp \in 0..retries'
        BY <1>3, <2>1, <2>2 DEF Placed
      <4>2. retries' \in 0..retries'
        BY <1>3
      <4> QED BY <4>1, <4>2 DEF Again
    <3> QED BY <1>1, <2>1, <2>2, <3>1 DEF Placed, Again
  <2>3. CASE q # p
    BY <1>3, <1>4, <2>1, <2>3 DEF Placed
  <2> QED BY <2>2, <2>3
<1>8. ASSUME NEW q \in Process
      PROVE  me[q].stamp \in Nat /\ me[q].stamp < retries'
  <2>1. me[q].stamp \in 0..retries
    BY DEF CallInv, EpisodeInv, Placed
  <2> QED BY <1>2, <1>3, <2>1
<1>9. \A q \in Process \ {p} : Drives(q)' => Drives(q) /\ Mark(q)' = Mark(q)
  BY <1>4 DEF Drives, Mark, Rank
<1>10. Drives(p)' => me'[p].stamp = retries'
  BY <1>1 DEF Drives, Driving, Again
<1>11. ASSUME NEW q \in Process, Drives(q)'
      PROVE  Behind(q)'
  <2>1. \A ph \in Phase : Rank(ph)' >= Mark(q)' => ~Announced(ph, me[q].stamp)'
    BY <1>2, <1>3, <1>10, <1>11, <1>5, <1>9, <1>4 DEF CallInv, EpisodeInv, Unused, Announced,
       Behind, Rank
  <2>2. Claimable' => me'[q].stamp # 0
    BY <1>9, <1>11, <1>2, <1>3, <1>10, <1>4, <1>5 DEF CallInv, EpisodeInv, Behind, Claimable
  <2>3. ASSUME NEW r \in Process, r # q, Drives(r)'
        PROVE  me'[r].stamp # me'[q].stamp
    BY <1>9, <1>11, <1>4, <2>3, <1>8, <1>10 DEF CallInv, EpisodeInv, Behind
  <2> QED BY <2>1, <2>2, <2>3 DEF Behind
<1>12. \A q \in Process : Behind(q)'
  BY <1>11 DEF Behind
<1>13. Unused'
  BY <1>2, <1>3, <1>5 DEF CallInv, EpisodeInv, Unused, Announced, Claimable
<1>14. Executed'
  BY <1>1, <1>4, <1>5 DEF Again, CallInv, EpisodeInv, Executed, Announced
<1> QED BY <1>6, <1>7, <1>12, <1>13, <1>14 DEF CallInv, EpisodeInv

LEMMA RetryStep ==
    ASSUME CallInv, NEW p \in Process, NEW pending, RetryPublication(p, pending)
    PROVE  CallInv'
<1> DEFINE again == [me[p] EXCEPT !.entry = "retry", !.stamp = retries']
<1>1. DOMAIN me = Process /\ DOMAIN me[p] = DOMAIN Fresh
  BY DEF CallInv, EpisodeInv, Tables
<1>2. /\ UNCHANGED <<rows, calls, run>>
      /\ retries' = retries + 1
  BY DEF RetryPublication
<1>3. DOMAIN again = DOMAIN Fresh /\ again.turn = me[p].turn /\ again.index = me[p].index
      /\ again.stamp = retries'
  BY <1>1 DEF Fresh
<1>4. CASE Goto(p, "run returned") /\ UNCHANGED me
  BY <1>1, <1>2, <1>4, RetryKeeps DEF Again
<1>5. CASE Goto(p, "submit") /\ me' = [me EXCEPT ![p] = again]
  BY <1>1, <1>2, <1>3, <1>5, RetryKeeps DEF Again
<1>6. ASSUME NEW label \in {"run raised", "freeze", "publish", "grade"}, Goto(p, label),
             NEW field \in {"outcome", "payload", "recovered"}, NEW v,
             me' = [me EXCEPT ![p] = [again EXCEPT ![field] = v]]
      PROVE  CallInv'
  BY <1>1, <1>6, <1>3, <1>2, RetryKeeps DEF Fresh, Again
<1>7. CASE Goto(p, "freeze") /\ me' = [me EXCEPT ![p] = [again EXCEPT !.outcome = pending.outcome]]
  BY <1>6, <1>7
<1>8. CASE Goto(p, "publish") /\ me' = [me EXCEPT ![p] = [again EXCEPT !.payload = pending.payload]]
  BY <1>6, <1>8
<1>9. ASSUME Call(p, TRUE, TRUE, "grade", "run raised"),
             NEW v, me' = [me EXCEPT ![p] = [again EXCEPT !.recovered = v]]
      PROVE  CallInv'
  <2>1. PICK label \in {"grade", "run raised"} : Goto(p, label)
    BY <1>9 DEF Call
  <2> QED BY <1>6, <1>9, <2>1
<1> QED BY <1>4, <1>5, <1>7, <1>8, <1>9 DEF RetryPublication

\* recover, of a frozen run.
LEMMA RecoverRunStep ==
    ASSUME CallInv, NEW p \in Process, RecoverRun(p)
    PROVE  CallInv'
<1>1. PICK label \in {"run returned", "finish run", "run raised"} : Goto(p, label)
  BY DEF RecoverRun
<1>2. Kept(p)
  <2>1. ASSUME NEW v, me' = [me EXCEPT ![p].payload = v, ![p].entry = "recover"]
        PROVE  Kept(p)
    BY <2>1 DEF CallInv, EpisodeInv, Tables, Kept, SameCounts, Fresh
  <2> QED BY <2>1, SameKept DEF RecoverRun
<1> QED BY <1>1, <1>2, LeaveKeeps, SameRows, RunIdle DEF RecoverRun, Driving

LEMMA ParentRecoverSteps ==
    ASSUME CallInv, NEW p \in Process,
           Recover(p) \/ RecoverDurable(p) \/ RecoverChild(p) \/ RetryChild(p) \/ NothingToRecover(p)
    PROVE  CallInv'
<1>1. CASE Recover(p)
  <2>1. PICK label \in {"close", "recover"} : Goto(p, label)
    BY <1>1 DEF Recover
  <2> QED BY <1>1, <2>1, GoKeeps DEF Recover, Driving
<1>2. CASE RecoverDurable(p)
  BY <1>2, GoKeeps DEF RecoverDurable, Driving
<1>3. CASE RecoverChild(p)
  BY <1>3, GoKeeps DEF RecoverChild, Driving
<1>4. CASE RetryChild(p)
  BY <1>4, RetryStep, RecoverRunStep DEF RetryChild
<1>5. CASE NothingToRecover(p)
  BY <1>5, GoKeeps DEF NothingToRecover, Return, Driving
<1> QED BY <1>1, <1>2, <1>3, <1>4, <1>5

-----------------------------------------------------------------------------
(* The episode's steps that announce and execute nothing.                  *)

\* What leaves the episode.
LEMMA LeaveSteps ==
    ASSUME CallInv, NEW p \in Process,
           Undecided(p) \/ Freeze(p) \/ Gather(p) \/ Publish(p) \/ FinishRun(p) \/ Raise(p)
    PROVE  CallInv'
<1>1. CASE Undecided(p)
  BY <1>1, MineKept, LeaveKeeps, SameRows, RunIdle DEF Undecided, Fresh, Driving
<1>2. CASE Freeze(p)
  BY <1>2, RowKeeps, NotPhases DEF Freeze, Driving
<1>3. CASE Gather(p)
  BY <1>3, MineKept, LeaveKeeps, SameRows, RunIdle DEF Gather, Fresh, Driving
<1>4. CASE Publish(p)
  BY <1>4, RowKeeps, NotPhases DEF Publish, Driving
<1>5. CASE FinishRun(p)
  <2>1. PICK label \in {"run returned", "run raised", "publication pending"} : Goto(p, label)
    BY <1>5 DEF FinishRun, Call
  <2>2. run' = run \/ run' = [state |-> "completed", result |-> me[p].payload]
    BY <1>5 DEF FinishRun, Call
  <2>3. Idle
    <3>1. CASE run' = run
      BY <1>5, <3>1, RunIdle DEF FinishRun
    <3>2. CASE run' = [state |-> "completed", result |-> me[p].payload]
      BY <1>5, <3>2 DEF FinishRun, Idle, Claimable, RunShape
    <3> QED BY <2>2, <3>1, <3>2
  <2>4. Kept(p) /\ RowsGrow
    BY <1>5, SameKept, SameRows DEF FinishRun
  <2> QED BY <2>1, <2>3, <2>4, LeaveKeeps DEF Driving
<1>6. CASE Raise(p)
  BY <1>6, LeaveKeeps, SameKept, SameRows, RunIdle DEF Raise, Driving
<1> QED BY <1>1, <1>2, <1>3, <1>4, <1>5, <1>6

LEMMA EnterRunStep ==
    ASSUME CallInv, NEW p \in Process, EnterRun(p)
    PROVE  CallInv'
<1>1. PICK label \in {"run returned", "elsewhere", "claim run", "run raised"} : Goto(p, label)
  BY DEF EnterRun, Call
<1>2. pc'[p] = label /\ DOMAIN pc' = Process /\ \A q \in Process \ {p} : pc'[q] = pc[q]
  BY <1>1 DEF Goto, CallInv, EpisodeInv, Tables
<1>3. me'[p] = Fresh /\ DOMAIN me' = Process /\ \A q \in Process \ {p} : me'[q] = me[q]
  BY DEF EnterRun, CallInv, EpisodeInv, Tables
<1>4. Alone(p)
  BY <1>2, <1>3 DEF Alone
<1>5. Calm
  BY SameRows DEF EnterRun, Call, CallInv, EpisodeInv, Tables, RunShape, Claimable, Calm, Still
<1>6. Onward(p)
  BY <1>2, <1>3, Zero DEF Fresh, CallInv, EpisodeInv, Tables, Placed, EnterRun, Onward, Drives,
     Driving
<1> QED BY <1>4, <1>5, <1>6, OnwardKeeps

\* Where a driving process stands.
LEMMA Standing ==
    ASSUME CallInv, NEW p \in Process
    PROVE  /\ me[p].turn \in 0..MaxTurns /\ me[p].index \in 0..Gradings - 1
           /\ DOMAIN me = Process /\ DOMAIN me[p] = DOMAIN Fresh
           /\ pc[p] \in {"announce", "dispatched", "record", "recorded", "record recovered"} =>
                 /\ me[p].phase \in Phase
                 /\ me[p].phase[2] = IF me[p].phase[1] = "grade" THEN me[p].index ELSE me[p].turn
                 /\ Rank(me[p].phase) \in Nat
  BY RankType DEF CallInv, EpisodeInv, Placed, Tables

LEMMA AnnounceRunStep ==
    ASSUME CallInv, NEW p \in Process, AnnounceRun(p)
    PROVE  CallInv'
<1>1. Kept(p) /\ Idle /\ RowsGrow
  BY SameKept, RunIdle, OtherRow, NotPhases DEF AnnounceRun, runVars
<1>2. CASE Goto(p, "run raised")
  BY <1>1, <1>2, LeaveKeeps DEF Driving
<1>3. CASE Goto(p, "turn")
  <2>1. pc'[p] = "turn" /\ pc[p] = "controller" /\ me' = me
    BY <1>3 DEF Goto, CallInv, EpisodeInv, Tables, AnnounceRun, runVars, At
  <2>2. 2 * me[p].turn \in Nat
    BY Standing, Twice
  <2>3. Mark(p)' >= Mark(p)
    BY <2>1, <2>2 DEF Mark
  <2> QED BY <1>1, <1>3, <2>1, <2>3, StayKeeps DEF Driving, Drives
<1> QED BY <1>2, <1>3, ObserveGoes DEF AnnounceRun

\* The loop's head.
LEMMA TurnStep ==
    ASSUME CallInv, NEW p \in Process, Turn(p)
    PROVE  CallInv'
<1>1. Idle /\ RowsGrow /\ pc[p] = "turn" /\ Drives(p)
  BY RunIdle, SameRows DEF Turn, At, Drives, Driving
<1>2. Mark(p) = 2 * me[p].turn /\ 2 * me[p].turn \in Nat /\ 2 * me[p].turn <= 2 * MaxTurns + me[p].index
  BY <1>1, Standing, Twice DEF Mark
<1>3. CASE UNCHANGED me /\ \E label \in {"invalid", "infrastructure"} : Goto(p, label)
  BY <1>1, <1>3, SameKept, LeaveKeeps DEF Driving
<1>4. CASE UNCHANGED me /\ Goto(p, "close workspace")
  BY <1>4, <1>2, <1>1, Standing, Twice, SameKept, StayKeeps DEF Goto, CallInv, EpisodeInv, Tables,
     Mark, Driving
<1>5. CASE me[p].turn < MaxTurns /\ Goto(p, "announce") /\ Mine(p, "phase", <<"generation", me[p].turn>>)
  <2>1. me[p].turn \in 0..MaxTurns - 1
    BY <1>5, Standing, Twice
  <2>2. pc'[p] = "announce" /\ me'[p].phase = <<"generation", me[p].turn>>
    BY <1>5, Standing DEF Goto, CallInv, EpisodeInv, Tables, Mine, Fresh
  <2>3. Kept(p)
    BY <1>5, MineKept DEF Fresh
  <2>4. me'[p].phase \in Phase /\ me'[p].phase[1] # "grade" /\ me'[p].phase[2] = me[p].turn
    BY <2>1, <2>2 DEF Phase
  <2>5. Mark(p)' = 2 * me[p].turn
    BY <2>2 DEF Mark, Rank
  <2>6. Mark(p)' >= Mark(p)
    BY <1>2, <2>5
  <2> QED BY <1>1, <1>5, <2>3, <2>4, <2>6, StayKeeps DEF Driving
<1> QED BY <1>3, <1>4, <1>5 DEF Turn

LEMMA PhaseRank ==
    ASSUME NEW ph \in Phase
    PROVE  /\ ph[1] \in {"generation", "action", "grade"}
           /\ ph[1] # "grade" => ph[2] \in 0..MaxTurns - 1
           /\ ph[1] = "generation" => Rank(ph) = 2 * ph[2]
           /\ ph[1] = "action" => Rank(ph) = 2 * ph[2] + 1
           /\ ph[1] = "grade" => Rank(ph) = 2 * MaxTurns + ph[2]
  BY DEF Phase, Rank

LEMMA SameNumber ==
    ASSUME NEW m \in Nat, NEW n, n = m
    PROVE  n >= m
  OBVIOUS

LEMMA NextNumber ==
    ASSUME NEW m \in Nat, NEW n, n = m + 1
    PROVE  n >= m
  OBVIOUS

LEMMA SameMark ==
    ASSUME CallInv, NEW p \in Process, pc[p] \in {"record", "record recovered"},
           pc'[p] = "recorded", me'[p] = me[p]
    PROVE  Mark(p)' >= Mark(p)
  BY MarkType, SameNumber DEF Mark, Rank, CallInv, EpisodeInv

\* A result is recorded in the second revision of its phase's row.
LEMMA RecordKeeps ==
    ASSUME CallInv, NEW p \in Process, pc[p] \in {"record", "record recovered"}, UNCHANGED runVars,
           NEW receipts, NEW bad \in {"unconfirmed", "run raised"},
           Observe(p, me[p].phase, 2, receipts, "recorded", bad)
    PROVE  CallInv'
<1>1. Kept(p) /\ Idle /\ RowsGrow /\ me' = me
  BY SameKept, RunIdle, SecondRevision DEF runVars
<1>2. CASE Goto(p, bad)
  BY <1>1, <1>2, LeaveKeeps DEF Driving
<1>3. CASE Goto(p, "recorded")
  BY <1>1, <1>3, SameMark, Standing, StayKeeps DEF Goto, CallInv, EpisodeInv, Tables, Driving,
     Drives
<1> QED BY <1>2, <1>3, ObserveGoes

LEMMA RecordSteps ==
    ASSUME CallInv, NEW p \in Process, Record(p) \/ RecordRecovered(p)
    PROVE  CallInv'
  BY RecordKeeps DEF Record, RecordRecovered, At

LEMMA AfterGenerationStep ==
    ASSUME CallInv, NEW p \in Process, AfterGeneration(p)
    PROVE  CallInv'
<1>1. Idle /\ RowsGrow /\ pc[p] = "recorded" /\ Drives(p) /\ me[p].phase[1] = "generation"
  BY RunIdle, SameRows DEF AfterGeneration, At, Drives, Driving
<1>2. /\ me[p].turn \in 0..MaxTurns - 1
      /\ Mark(p) = 2 * me[p].turn + 1
  BY <1>1, Standing, PhaseRank DEF Mark
<1>3. CASE UNCHANGED me /\ \E label \in {"invalid", "infrastructure"} : Goto(p, label)
  BY <1>1, <1>3, SameKept, LeaveKeeps DEF Driving
<1>4. CASE UNCHANGED me /\ Goto(p, "close workspace")
  <2>1. pc'[p] = "close workspace"
    BY <1>4 DEF Goto, CallInv, EpisodeInv, Tables
  <2>2. Mark(p)' = 2 * MaxTurns + me[p].index
    BY <1>4, <2>1 DEF Mark
  <2>3. /\ 2 * me[p].turn + 2 <= 2 * MaxTurns + me[p].index
        /\ 2 * me[p].turn \in Nat /\ 2 * MaxTurns + me[p].index \in Nat
    BY <1>2, Standing, Twice
  <2>4. Mark(p)' >= Mark(p)
    BY <1>2, <2>2, <2>3
  <2> QED BY <1>1, <1>4, <2>4, SameKept, StayKeeps DEF Driving
<1>5. CASE Goto(p, "announce") /\ Mine(p, "phase", <<"action", me[p].turn>>)
  <2>1. pc'[p] = "announce" /\ me'[p].phase = <<"action", me[p].turn>>
    BY <1>5, Standing DEF Goto, CallInv, EpisodeInv, Tables, Mine, Fresh
  <2>2. Kept(p)
    BY <1>5, MineKept DEF Fresh
  <2>3. me'[p].phase \in Phase /\ me'[p].phase[1] # "grade" /\ me'[p].phase[2] = me[p].turn
    BY <1>2, <2>1 DEF Phase
  <2>4. Mark(p)' = 2 * me[p].turn + 1
    BY <2>1 DEF Mark, Rank
  <2>5. Mark(p)' >= Mark(p)
    BY <1>2, <2>4
  <2> QED BY <1>1, <1>5, <2>2, <2>3, <2>5, StayKeeps DEF Driving
<1> QED BY <1>3, <1>4, <1>5 DEF AfterGeneration

\* p goes on with the next turn or grading.
LEMMA CountKeeps ==
    ASSUME CallInv, NEW p \in Process, Drives(p), NEW label \in {"turn", "grade"}, Goto(p, label),
           NEW field \in {"turn", "index"}, NEW n, Mine(p, field, n),
           n \in IF field = "turn" THEN 0..MaxTurns ELSE 0..Gradings - 1,
           UNCHANGED <<rows, calls, retries, run>>,
           Mark(p)' >= Mark(p)
    PROVE  CallInv'
<1>1. pc'[p] = label /\ DOMAIN pc' = Process /\ \A q \in Process \ {p} : pc'[q] = pc[q]
  BY DEF Goto, CallInv, EpisodeInv, Tables
<1>2. DOMAIN me = Process /\ DOMAIN me[p] = DOMAIN Fresh
  BY Standing
<1>3. me' = [me EXCEPT ![p] = [me[p] EXCEPT ![field] = n]]
  BY DEF Mine
<1>4. /\ DOMAIN me' = Process /\ DOMAIN me'[p] = DOMAIN Fresh
      /\ \A q \in Process \ {p} : me'[q] = me[q]
  BY <1>2, <1>3
<1>5. me'[p].stamp = me[p].stamp /\ me'[p].turn \in 0..MaxTurns /\ me'[p].index \in 0..Gradings - 1
  BY <1>2, <1>3, Standing DEF Fresh
<1>6. Alone(p) /\ Calm
  BY <1>1, <1>4, SameRows, RunIdle DEF Alone, Calm, Still, Idle
<1>7. Onward(p)
  BY <1>1, <1>5 DEF CallInv, EpisodeInv, Placed, Onward
<1> QED BY <1>6, <1>7, OnwardKeeps

LEMMA AfterActionStep ==
    ASSUME CallInv, NEW p \in Process, AfterAction(p)
    PROVE  CallInv'
<1>1. Idle /\ RowsGrow /\ pc[p] = "recorded" /\ Drives(p) /\ me[p].phase[1] = "action"
  BY RunIdle, SameRows DEF AfterAction, At, Drives, Driving
<1>2. me[p].turn \in 0..MaxTurns - 1 /\ Mark(p) = 2 * me[p].turn + 2
  <2>1. me[p].turn \in 0..MaxTurns - 1 /\ Rank(me[p].phase) = 2 * me[p].turn + 1
    BY <1>1, Standing, PhaseRank
  <2>2. Mark(p) = Rank(me[p].phase) + 1
    BY <1>1 DEF Mark
  <2> QED BY <2>1, <2>2
<1>3. CASE UNCHANGED me /\ Goto(p, "infrastructure")
  BY <1>1, <1>3, SameKept, LeaveKeeps DEF Driving
<1>4. CASE Goto(p, "turn") /\ Mine(p, "turn", me[p].turn + 1)
  <2>1. pc'[p] = "turn" /\ me'[p].turn = me[p].turn + 1
    BY <1>4, Standing DEF Goto, CallInv, EpisodeInv, Tables, Mine, Fresh
  <2>2. Mark(p)' = 2 * (me[p].turn + 1)
    BY <2>1 DEF Mark
  <2>3. Mark(p)' >= Mark(p) /\ me[p].turn + 1 \in 0..MaxTurns
    BY <1>2, <2>2, CountsAssumption
  <2> QED BY <1>1, <1>4, <2>3, CountKeeps DEF AfterAction
<1> QED BY <1>3, <1>4 DEF AfterAction

\* From the episode to the gradings.
LEMMA SubmitSteps ==
    ASSUME CallInv, NEW p \in Process, CloseWorkspace(p) \/ Submit(p)
    PROVE  CallInv'
<1>1. Kept(p) /\ Idle /\ RowsGrow /\ Drives(p) /\ pc[p] \in {"close workspace", "submit"} /\ me' = me
  BY SameKept, RunIdle, SameRows DEF CloseWorkspace, Submit, runVars, At, Drives, Driving
<1>2. CASE \E label \in {"infrastructure", "invalid", "run raised", "submission pending"} : Goto(p, label)
  BY <1>1, <1>2, LeaveKeeps DEF Driving
<1>3. ASSUME NEW label \in {"submit", "grade"}, Goto(p, label)
      PROVE  CallInv'
  BY <1>3, <1>1, MarkType, SameNumber, StayKeeps DEF Goto, CallInv, EpisodeInv, Tables, Mark,
     Driving
<1> QED BY <1>2, <1>3 DEF CloseWorkspace, Submit, Refused, Call

LEMMA StartGradeStep ==
    ASSUME CallInv, NEW p \in Process, StartGrade(p)
    PROVE  CallInv'
<1>1. Idle /\ RowsGrow /\ pc[p] = "grade" /\ Drives(p)
  BY RunIdle, SameRows DEF StartGrade, At, Drives, Driving
<1>2. Mark(p) = 2 * MaxTurns + me[p].index /\ 2 * MaxTurns + me[p].index \in Nat
  BY <1>1, Standing, Twice DEF Mark
<1> DEFINE grade == <<"grade", me[p].index>>
<1>3. grade \in Phase /\ grade[1] = "grade" /\ grade[2] = me[p].index
      /\ Rank(grade) = 2 * MaxTurns + me[p].index
  BY Standing, RankType DEF Phase
<1>4. CASE Refused(p) /\ UNCHANGED me
  <2>1. PICK label \in {"invalid", "run raised"} : Goto(p, label)
    BY <1>4 DEF Refused
  <2> QED BY <1>1, <1>4, <2>1, SameKept, LeaveKeeps DEF Driving
<1>5. ASSUME NEW label \in {"announce", "record recovered"}, Goto(p, label), Kept(p),
             me'[p].phase = <<"grade", me[p].index>>
      PROVE  CallInv'
  BY <1>5, <1>3, <1>2, <1>1, SameNumber, StayKeeps, NextNumber DEF Goto, CallInv, EpisodeInv,
     Tables, Mark, Rank, Driving
<1>6. CASE Goto(p, "announce") /\ Mine(p, "phase", <<"grade", me[p].index>>)
  BY <1>6, <1>5, Standing, MineKept DEF Mine, Fresh
<1>7. CASE /\ Goto(p, "record recovered")
           /\ me' = [me EXCEPT ![p].phase = <<"grade", me[p].index>>,
                               ![p].result = me[p].recovered, ![p].recovered = Nothing]
  BY <1>7, <1>5, Standing DEF Kept, SameCounts, Fresh
<1> QED BY <1>4, <1>6, <1>7 DEF StartGrade

LEMMA AfterGradeStep ==
    ASSUME CallInv, NEW p \in Process, AfterGrade(p)
    PROVE  CallInv'
<1>1. Idle /\ RowsGrow /\ pc[p] = "recorded" /\ Drives(p) /\ me[p].phase[1] = "grade"
  BY RunIdle, SameRows DEF AfterGrade, At, Drives, Driving
<1>2. Mark(p) = 2 * MaxTurns + me[p].index + 1
  BY <1>1, Standing, PhaseRank DEF Mark
<1>3. CASE (Failed(p) \/ Refused(p)) /\ UNCHANGED me
  <2>1. PICK label \in {"infrastructure", "invalid", "run raised"} : Goto(p, label)
    BY <1>3 DEF Refused, Failed
  <2> QED BY <1>1, <1>3, <2>1, SameKept, LeaveKeeps DEF Driving
<1>4. CASE Goto(p, "freeze") /\ Mine(p, "outcome", me[p].result)
  BY <1>1, <1>4, MineKept, LeaveKeeps DEF Driving, Fresh
<1>5. CASE GradeAgain(p) /\ Goto(p, "grade") /\ Mine(p, "index", me[p].index + 1)
  <2>1. pc'[p] = "grade" /\ me'[p].index = me[p].index + 1
    BY <1>5, Standing DEF Goto, CallInv, EpisodeInv, Tables, Mine, Fresh
  <2>2. Mark(p)' = 2 * MaxTurns + (me[p].index + 1)
    BY <2>1 DEF Mark
  <2>3. me[p].index \in 0..Gradings - 1 /\ me[p].index < Gradings - 1
    BY <1>5, Standing DEF GradeAgain
  <2>4. me[p].index + 1 \in 0..Gradings - 1
    BY <2>3, CountsAssumption
  <2>5. Mark(p)' >= Mark(p)
    BY <1>2, <2>2, <2>3, CountsAssumption
  <2> QED BY <1>1, <1>5, <2>4, <2>5, CountKeeps DEF AfterGrade
<1> QED BY <1>3, <1>4, <1>5 DEF AfterGrade

-----------------------------------------------------------------------------
(* The claim, the announcement and the call.                               *)

\* While the job can be claimed nobody is in an episode of stamp 0, and no phase is announced
\* under it; the claim ends that.
LEMMA ClaimRunStep ==
    ASSUME CallInv, NEW p \in Process, ClaimRun(p)
    PROVE  CallInv'
<1>1. UNCHANGED <<rows, me, calls, retries>> /\ pc[p] = "claim run"
  BY DEF ClaimRun, At
<1>2. run' = run \/ (run.state = "queued" /\ run' = [run EXCEPT !.state = "running"])
  BY DEF ClaimRun, Call
<1>3. RunShape' /\ (Claimable' => Claimable)
  BY <1>2 DEF CallInv, EpisodeInv, Tables, RunShape, Claimable
<1>4. CASE Goto(p, "run raised")
  BY <1>1, <1>3, <1>4, SameKept, SameRows, LeaveKeeps DEF Idle, Driving
<1>5. CASE Goto(p, "controller") /\ run.state = "queued" /\ run' = [run EXCEPT !.state = "running"]
  <2>1. pc'[p] = "controller" /\ DOMAIN pc' = Process /\ \A q \in Process \ {p} : pc'[q] = pc[q]
    BY <1>5 DEF Goto, CallInv, EpisodeInv, Tables
  <2>2. Claimable /\ ~Claimable'
    BY <1>5 DEF CallInv, EpisodeInv, Tables, RunShape, Claimable
  <2>3. me[p].stamp = 0
    BY <1>1 DEF CallInv, EpisodeInv, Placed
  <2>4. Tables'
    BY <1>1, <1>3, <2>1 DEF CallInv, EpisodeInv, Tables
  <2>5. \A q \in Process : Placed(q)'
    BY <1>1, <2>1 DEF CallInv, EpisodeInv, Placed
  <2>6. \A q \in Process \ {p} : Drives(q)' => Drives(q) /\ me[q].stamp # 0 /\ Mark(q)' = Mark(q)
    BY <1>1, <2>1, <2>2 DEF CallInv, EpisodeInv, Behind, Drives, Mark, Rank
  <2>7. ASSUME NEW q \in Process, Drives(q)'
        PROVE  Behind(q)'
    BY <1>1, <2>2, <2>3, <2>6, <2>7 DEF CallInv, EpisodeInv, Unused, Announced, Behind, Rank
  <2>8. \A q \in Process : Behind(q)'
    BY <2>7 DEF Behind
  <2>9. Unused'
    BY <1>1, <2>2 DEF CallInv, EpisodeInv, Unused, Announced
  <2>10. Executed'
    BY <2>1, <1>1 DEF CallInv, Executed, Announced
  <2> QED BY <2>4, <2>5, <2>8, <2>9, <2>10 DEF CallInv, EpisodeInv
<1> QED BY <1>4, <1>5 DEF ClaimRun, Call

LEMMA OneReceipt ==
    ASSUME NEW s, NEW t, {Receipt("intent", s)} = {Receipt("intent", t)}
    PROVE  s = t
<1>1. Receipt("intent", s) = Receipt("intent", t)
  OBVIOUS
<1> QED BY <1>1 DEF Receipt

LEMMA NotExecuted ==
    ASSUME CallInv, NEW ph \in Phase, rows[ph] = <<>>
    PROVE  calls[ph] = 0
  BY DEF CallInv, EpisodeInv, Executed, Tables

LEMMA StampKnown ==
    ASSUME CallInv, NEW p \in Process
    PROVE  me[p].stamp <= retries
<1>1. me[p].stamp \in 0..retries /\ retries \in Nat
  BY DEF CallInv, EpisodeInv, Tables, Placed
<1> QED BY <1>1

LEMMA LaterNumber ==
    ASSUME NEW m \in Nat, NEW n \in Nat, n >= m + 1
    PROVE  n # m /\ n >= m
  OBVIOUS

\* The first revision of a phase's row is new: nobody announced the phase, and it was not executed.
LEMMA FirstRevision ==
    ASSUME CallInv, NEW p \in Process, pc[p] = "announce", NEW label,
           label = "dispatched" \/ label \notin Driving \cup {"claim run"}, Goto(p, label),
           UNCHANGED runVars, rows[me[p].phase] = <<>>,
           rows' = [rows EXCEPT ![me[p].phase] = Append(@, {Receipt("intent", me[p].stamp)})]
    PROVE  CallInv'
<1> DEFINE phase == me[p].phase
           stamp == me[p].stamp
<1>1. pc'[p] = label /\ DOMAIN pc' = Process /\ \A q \in Process \ {p} : pc'[q] = pc[q]
  BY DEF Goto, CallInv, EpisodeInv, Tables
<1>2. UNCHANGED <<me, calls, run, retries>>
  BY DEF runVars
<1>3. phase \in Phase /\ phase \in DOMAIN rows /\ IsRow(rows[phase])
  BY Standing DEF CallInv, EpisodeInv, Tables
<1>4. /\ IsRow(rows'[phase]) /\ rows'[phase] # <<>>
      /\ rows'[phase][1] = {Receipt("intent", stamp)}
      /\ \A ph \in Phase \ {phase} : rows'[ph] = rows[ph]
      /\ Phase \subseteq DOMAIN rows'
  BY <1>3, AppendRow DEF CallInv, EpisodeInv, Tables
<1>5. ASSUME NEW s, Announced(phase, s)'
      PROVE  s = stamp
  <2>1. {Receipt("intent", stamp)} = {Receipt("intent", s)}
    BY <1>2, <1>4, <1>5 DEF Announced, Receipt
  <2> QED BY <2>1, OneReceipt
<1>6. \A s : \A ph \in Phase \ {phase} : Announced(ph, s)' <=> Announced(ph, s)
  BY <1>4 DEF Announced, Receipt
<1>7. Drives(p)
  BY DEF Drives, Driving
<1>8. Tables'
  BY <1>1, <1>2, <1>4 DEF CallInv, EpisodeInv, Tables, RunShape
<1>9. \A q \in Process : Placed(q)'
  BY <1>1, <1>2 DEF CallInv, EpisodeInv, Placed, Driving
<1>10. ASSUME NEW q \in Process, Drives(q)'
       PROVE  Behind(q)'
  <2>1. Drives(q) /\ (q # p => pc'[q] = pc[q])
    BY <1>1, <1>7, <1>10 DEF Drives
  <2>2. ASSUME NEW ph \in Phase, Rank(ph)' >= Mark(q)'
        PROVE  ~Announced(ph, me[q].stamp)'
    <3>1. Rank(ph)' = Rank(ph) /\ Rank(ph) \in Nat /\ Mark(q) \in Nat
      BY RankType, MarkType DEF Rank, CallInv, EpisodeInv
    <3>2. CASE q # p
      <4>1. Mark(q)' = Mark(q)
        BY <1>2, <2>1, <3>2 DEF Mark, Rank
      <4>2. ~Announced(ph, me[q].stamp)
        BY <2>1, <2>2, <3>1, <4>1 DEF CallInv, EpisodeInv, Behind
      <4>3. me[q].stamp # stamp
        BY <1>7, <2>1, <3>2 DEF CallInv, EpisodeInv, Behind
      <4> QED BY <1>2, <1>5, <1>6, <4>2, <4>3 DEF Announced
    <3>3. CASE q = p
      <4>1. pc'[p] = "dispatched"
        BY <1>1, <1>10, <3>3 DEF Drives
      <4>2. Mark(p)' = Rank(phase) + 1 /\ Mark(p) = Rank(phase) /\ Rank(phase) \in Nat
        BY <1>2, <1>3, <4>1, RankType DEF Mark, Rank
      <4>3. ph # phase /\ Rank(ph) >= Mark(p)
        BY <2>2, <3>1, <3>3, <4>2, LaterNumber
      <4>4. ~Announced(ph, stamp)
        BY <1>7, <4>3 DEF CallInv, EpisodeInv, Behind
      <4> QED BY <1>2, <1>6, <3>3, <4>3, <4>4 DEF Announced
    <3> QED BY <3>2, <3>3
  <2>3. Claimable' => me'[q].stamp # 0
    BY <1>2, <2>1 DEF CallInv, EpisodeInv, Behind, Claimable
  <2>4. \A r \in Process : r # q /\ Drives(r)' => me'[r].stamp # me'[q].stamp
    BY <1>1, <1>2, <1>7, <2>1 DEF CallInv, EpisodeInv, Behind, Drives
  <2> QED BY <1>2, <2>2, <2>3, <2>4 DEF Behind
<1>11. \A q \in Process : Behind(q)'
  BY <1>10 DEF Behind
<1>12. Unused'
  <2>1. \A ph \in Phase, s \in Nat : Announced(ph, s)' => s <= retries'
    BY <1>2, <1>5, <1>6, StampKnown DEF CallInv, EpisodeInv, Unused
  <2>2. Claimable' => \A ph \in Phase : ~Announced(ph, 0)'
    BY <1>7, <1>2, <1>5, <1>6 DEF CallInv, EpisodeInv, Behind, Unused, Claimable
  <2> QED BY <2>1, <2>2 DEF Unused, Announced
<1>13. Executed'
  <2>1. calls[phase] = 0
    BY <1>3, NotExecuted
  <2>2. \A ph \in Phase : calls'[ph] <= 1 /\ (calls'[ph] > 0 => rows'[ph] # <<>>)
    BY <1>2, <1>4 DEF CallInv, Executed
  <2>3. ASSUME NEW q \in Process, pc'[q] = "dispatched"
        PROVE  calls'[me'[q].phase] = 0 /\ Announced(me[q].phase, me[q].stamp)'
    <3>1. CASE q = p
      BY <1>2, <1>4, <2>1, <3>1 DEF Announced, Receipt
    <3>2. CASE q # p
      <4>1. pc[q] = "dispatched"
        BY <1>1, <2>3, <3>2
      <4>2. me[q].phase \in Phase /\ calls[me[q].phase] = 0 /\ Announced(me[q].phase, me[q].stamp)
        BY <4>1, Standing DEF CallInv, Executed
      <4>3. me[q].phase # phase
        BY <4>2 DEF Announced
      <4> QED BY <1>2, <1>4, <4>2, <4>3 DEF Announced, Receipt
    <3> QED BY <3>1, <3>2
  <2> QED BY <2>2, <2>3 DEF Executed
<1> QED BY <1>8, <1>9, <1>11, <1>12, <1>13 DEF CallInv, EpisodeInv

LEMMA EmptyRow ==
    ASSUME NEW s, IsRow(s)
    PROVE  /\ 1 = Len(s) + 1 => s = <<>>
           /\ 1 <= Len(s) => s # <<>>
<1>1. PICK S : s \in Seq(S)
  BY DEF IsRow
<1> QED BY <1>1

LEMMA CountedOnce ==
    ASSUME NEW f \in [Phase -> Nat], NEW ph \in Phase, f[ph] = 0
    PROVE  /\ [f EXCEPT ![ph] = @ + 1] \in [Phase -> Nat]
           /\ [f EXCEPT ![ph] = @ + 1][ph] = 1
           /\ \A other \in Phase \ {ph} : [f EXCEPT ![ph] = @ + 1][other] = f[other]
  OBVIOUS

LEMMA CallsBounded ==
    ASSUME CallInv, NEW ph \in Phase, calls[ph] = 0, rows[ph] # <<>>, UNCHANGED rows,
           calls' = [calls EXCEPT ![ph] = @ + 1]
    PROVE  \A other \in Phase : calls'[other] <= 1 /\ (calls'[other] > 0 => rows'[other] # <<>>)
  BY CountedOnce DEF CallInv, EpisodeInv, Tables, Executed

LEMMA SameRank ==
    ASSUME CallInv, NEW p \in Process, pc[p] = "dispatched", pc'[p] = "record",
           me'[p].phase = me[p].phase
    PROVE  Mark(p)' >= Mark(p)
  BY MarkType, SameNumber DEF Mark, Rank, CallInv, EpisodeInv

\* Nothing is announced under p's stamp from where p stands on, so an announcement that goes
\* through is the first revision of its row.
LEMMA AnnounceKeeps ==
    ASSUME CallInv, NEW p \in Process, pc[p] = "announce", UNCHANGED runVars,
           NEW bad \in {"infrastructure", "run raised"},
           Observe(p, me[p].phase, 1, {Receipt("intent", me[p].stamp)}, "dispatched", bad)
    PROVE  CallInv'
<1> DEFINE phase == me[p].phase
           intent == {Receipt("intent", me[p].stamp)}
<1>1. phase \in Phase /\ IsRow(rows[phase])
  BY Standing DEF CallInv, EpisodeInv, Tables
<1>2. ~(rows[phase] # <<>> /\ rows[phase][1] = intent)
  BY <1>1, MarkType, SameNumber DEF Drives, Driving, Mark, CallInv, EpisodeInv, Behind, Announced
<1>3. ~Recorded(rows[phase], 1, intent)
  BY <1>1, <1>2, EmptyRow DEF Recorded
<1>4. \/ Goto(p, bad) /\ UNCHANGED rows
      \/ /\ rows[phase] = <<>>
         /\ rows' = [rows EXCEPT ![phase] = Append(@, intent)]
         /\ Goto(p, "dispatched") \/ Goto(p, bad)
  BY <1>1, <1>3, EmptyRow DEF Extends, Observe, Call
<1>5. CASE Goto(p, bad) /\ UNCHANGED rows
  BY <1>5, LeaveKeeps, SameKept, SameRows, RunIdle DEF runVars, Driving
<1>6. CASE /\ rows[phase] = <<>>
           /\ rows' = [rows EXCEPT ![phase] = Append(@, intent)]
           /\ Goto(p, "dispatched") \/ Goto(p, bad)
  BY <1>6, FirstRevision DEF Driving
<1> QED BY <1>4, <1>5, <1>6

LEMMA AnnounceStep ==
    ASSUME CallInv, NEW p \in Process, Announce(p)
    PROVE  CallInv'
  BY AnnounceKeeps DEF Announce, At

\* The call: it is the first, and nobody else is about to make it.
LEMMA DispatchKeeps ==
    ASSUME CallInv, NEW p \in Process, pc[p] = "dispatched",
           calls' = [calls EXCEPT ![me[p].phase] = @ + 1],
           NEW label \in {"record", "infrastructure", "grade pending"}, Goto(p, label),
           Kept(p), me'[p].phase = me[p].phase,
           UNCHANGED <<rows, run, retries>>
    PROVE  CallInv'
<1> DEFINE phase == me[p].phase
<1>1. pc'[p] = label /\ DOMAIN pc' = Process /\ \A q \in Process \ {p} : pc'[q] = pc[q]
  BY DEF Goto, CallInv, EpisodeInv, Tables
<1>2. Alone(p)
  BY <1>1 DEF Alone, Kept
<1>3. Still
  BY SameRows DEF Still, CallInv, EpisodeInv, Tables, RunShape, Claimable
<1>4. Drives(p)
  BY DEF Drives, Driving
<1>5. Onward(p)
  BY <1>1, <1>4, SameRank DEF CallInv, EpisodeInv, Placed, Kept, SameCounts, Drives, Driving, Onward
<1>6. phase \in Phase /\ calls[phase] = 0 /\ Announced(phase, me[p].stamp)
  BY Standing DEF CallInv, Executed
<1>7. calls' \in [Phase -> Nat] /\ calls'[phase] = 1 /\ \A ph \in Phase \ {phase} : calls'[ph] = calls[ph]
  BY <1>6, CountedOnce DEF CallInv, EpisodeInv, Tables
<1>8. EpisodeInv'
  BY <1>2, <1>3, <1>5, <1>7, OnwardEpisode
<1>9. Executed'
  <2>1. \A ph \in Phase : calls'[ph] <= 1 /\ (calls'[ph] > 0 => rows'[ph] # <<>>)
    BY <1>6, CallsBounded DEF Announced
  <2>2. ASSUME NEW q \in Process, pc'[q] = "dispatched"
        PROVE  calls'[me'[q].phase] = 0 /\ Announced(me[q].phase, me[q].stamp)'
    <3>1. q # p /\ pc[q] = "dispatched" /\ me'[q] = me[q]
      BY <1>1, <2>2 DEF Kept
    <3>2. me[q].phase \in Phase /\ calls[me[q].phase] = 0 /\ Announced(me[q].phase, me[q].stamp)
      BY <3>1, Standing DEF CallInv, Executed
    <3>3. me[q].stamp # me[p].stamp
      BY <1>4, <3>1 DEF CallInv, EpisodeInv, Behind, Drives, Driving
    <3>4. me[q].phase # phase
      BY <1>6, <3>2, <3>3, OneReceipt DEF Announced
    <3> QED BY <1>7, <3>1, <3>2, <3>4 DEF Announced
  <2> QED BY <2>1, <2>2 DEF Executed
<1> QED BY <1>8, <1>9 DEF CallInv

LEMMA DispatchSteps ==
    ASSUME CallInv, NEW p \in Process, DispatchEpisode(p) \/ DispatchGrade(p)
    PROVE  CallInv'
<1>1. DOMAIN me = Process /\ DOMAIN me[p] = DOMAIN Fresh
  BY Standing
<1>2. CASE DispatchEpisode(p)
  <2>1. PICK label \in {"record", "infrastructure"} : Goto(p, label)
    BY <1>2 DEF DispatchEpisode
  <2>2. Kept(p) /\ me'[p].phase = me[p].phase
    <3>1. CASE UNCHANGED me
      BY <3>1, SameKept
    <3>2. ASSUME NEW r, Mine(p, "result", r)
          PROVE  Kept(p) /\ me'[p].phase = me[p].phase
      BY <3>2, <1>1, MineKept DEF Fresh, Mine
    <3> QED BY <1>2, <3>1, <3>2 DEF DispatchEpisode
  <2> QED BY <1>2, <2>1, <2>2, DispatchKeeps DEF DispatchEpisode, At
<1>3. CASE DispatchGrade(p)
  <2>1. PICK label \in {"record", "grade pending"} : Goto(p, label)
    BY <1>3 DEF DispatchGrade
  <2>2. Kept(p) /\ me'[p].phase = me[p].phase
    <3>1. ASSUME NEW g, me' = [me EXCEPT ![p].result = g]
          PROVE  Kept(p) /\ me'[p].phase = me[p].phase
      BY <1>1, <3>1 DEF Kept, SameCounts, Fresh
    <3>2. ASSUME NEW g, me' = [me EXCEPT ![p].result = g, ![p].intent = me[p].stamp]
          PROVE  Kept(p) /\ me'[p].phase = me[p].phase
      BY <1>1, <3>2 DEF Kept, SameCounts, Fresh
    <3> QED BY <1>3, <3>1, <3>2 DEF DispatchGrade
  <2> QED BY <1>3, <2>1, <2>2, DispatchKeeps DEF DispatchGrade, At
<1> QED BY <1>2, <1>3

-----------------------------------------------------------------------------
(* The theorem.                                                            *)

LEMMA CallInit == Init => CallInv
<1> SUFFICES ASSUME Init PROVE CallInv
  OBVIOUS
<1>1. Fresh.turn = 0 /\ Fresh.index = 0 /\ Fresh.stamp = 0
  BY DEF Fresh
<1>2. /\ rows = [r \in Rows |-> <<>>] /\ Phase \subseteq Rows
      /\ pc = [p \in Process |-> "idle"] /\ me = [p \in Process |-> Fresh]
      /\ calls = [ph \in Phase |-> 0] /\ retries = 0
      /\ run = [state |-> "absent", result |-> Nothing]
  BY DEF Init, RunInit, Rows, RunRows
<1>3. IsRow(<<>>)
  BY DEF IsRow
<1>4. Tables
  BY <1>2, <1>3 DEF Tables, RunShape
<1>5. \A p \in Process : Placed(p)
  BY <1>1, <1>2, Zero DEF Placed
<1>6. \A p \in Process : Behind(p)
  BY <1>2 DEF Behind, Drives, Driving
<1>7. Unused /\ Executed
  BY <1>2 DEF Unused, Executed, Announced
<1> QED BY <1>4, <1>5, <1>6, <1>7 DEF CallInv, EpisodeInv

LEMMA CallNext == CallInv /\ [Next]_vars => CallInv'
<1> SUFFICES ASSUME CallInv, [Next]_vars PROVE CallInv'
  OBVIOUS
<1>1. CASE UNCHANGED vars
  BY <1>1 DEF vars, ledgerVars, runVars, CallInv, EpisodeInv, Tables, Placed, Behind, Unused, Executed,
              RunShape, Drives, Mark, Rank, Announced, Claimable
<1>2. ASSUME NEW p \in Process, SessionStep(p), UNCHANGED <<runVars, parentVars>>
      PROVE  CallInv'
  BY <1>2, SessionSteps
<1>3. ASSUME NEW p \in Process, RunStep(p)
      PROVE  CallInv'
  BY <1>3, EnterRunStep, ClaimRunStep, AnnounceRunStep, TurnStep, AnnounceStep, DispatchSteps,
     RecordSteps, AfterGenerationStep, AfterActionStep, SubmitSteps, StartGradeStep, AfterGradeStep,
     LeaveSteps DEF RunStep
<1>4. ASSUME NEW p \in Process, ParentStep(p)
      PROVE  CallInv'
  BY <1>4, ParentRunSteps, ParentEndSteps, ParentRecoverSteps, CrashStep DEF ParentStep
<1> QED BY <1>1, <1>2, <1>3, <1>4 DEF Next

\* No policy call, action or grading is executed twice, by whatever process and however often
\* a publication is retried ("Exactly once", runner.py:180): the property CalledOnce of the runs.
THEOREM ExecutedOnce == Spec => []CalledOnce
<1>1. CallInv => CalledOnce
  BY DEF CallInv, Executed, CalledOnce
<1> QED BY <1>1, CallInit, CallNext, PTL DEF Spec

-----------------------------------------------------------------------------
(* The session of an episode (SessionBound).                               *)

\* A row of an announcement and its confirmation.
Short(s) == IsRow(s) /\ Len(s) <= 2
Confirmed(s) == Len(s) = 2

Stages == {"none", "asked", "unpublished", "live", "closed", "released"}
Had == {"unpublished", "live", "closed"}

\* The places from the published startup to the last turn.
InSession == {"startup done", "activate", "publish activation", "assign", "assigned",
              "run", "claim run", "controller", "turn"}
InPhase == {"announce", "dispatched", "record", "recorded"}

\* How far the session is where its process is, in the phase ph of the episode.
Along(place, stage, ph) ==
    /\ stage \in Stages
    /\ place \in InSession => stage = "live"
    /\ place \in InPhase /\ ph[1] # "grade" => stage = "live"
    /\ place = "record recovered" => ph[1] = "grade"
    /\ place = "publish startup" => stage = "unpublished"
    /\ place \in {"announce startup", "construct"} => stage = "asked"
    /\ place \in {"announce shutdown", "close session", "close unannounced"} => stage \in Had
    /\ place = "publish shutdown" => stage = "closed"

\* A live session is the one on record.
OnRecord(p) == Confirmed(rows[Startup]) /\ Receipt("startup", p) \in rows[Startup][2]

AnyShutdown == Confirmed(rows[Shutdown]) \/ Confirmed(rows[Abort])

OwnTables ==
    /\ DOMAIN session = Process /\ started \in Nat
    /\ SessionRows \subseteq DOMAIN rows /\ \A name \in SessionRows : Short(rows[name])

\* One session started leaves one process with it, until it is shut down.
Sole ==
    /\ started = 0 => ~AnyShutdown /\ \A p \in Process : session[p] \notin Had
    /\ started = 1 => /\ AnyShutdown => \A p \in Process : ~Holds(p)
                      /\ \A p, q \in Process : session[p] \in Had /\ session[q] \in Had => p = q

OwnInv ==
    /\ OwnTables /\ Sole
    /\ \A p \in Process : Along(pc[p], session[p], me[p].phase) /\ (session[p] = "live" => OnRecord(p))
    /\ job.state = "completed" => AnyShutdown

-----------------------------------------------------------------------------
(* The episode's result and its parent's (SessionBound).                   *)

\* The places from the assignment of the child to its published outcome.
InChild == {"assigned", "run", "claim run", "controller", "turn", "announce", "dispatched", "record",
            "recorded", "record recovered", "close workspace", "submit", "grade", "invalid",
            "infrastructure", "freeze", "gather", "publish", "finish run", "unconfirmed", "elsewhere",
            "submission pending", "grade pending", "freeze pending", "publication pending",
            "run returned", "run raised", "publish child"}

\* The run was completed with x.
Result(x) == run.state = "completed" /\ run.result = x

\* The child's row was confirmed with the outcome x.
OutcomeNoted(x) == Confirmed(rows[Child]) /\ Receipt("outcome", x) \in rows[Child][2]

\* What p's service keeps of the job, k, at its place, when the run will be completed with x.
Keeping(place, k, x) ==
    /\ k.child # Nothing \/ place \in {"publish child", "close and finish", "finish"} \/ k.then = "finish" =>
          Result(k.child)
    /\ k.child # Nothing \/ k.pending # Nothing \/ place \in InChild => k.intent[1] = "intent"
    /\ place \in {"close and finish", "finish"} \/ k.then = "finish" => OutcomeNoted(k.child)
    /\ place = "run returned" => run.state = "completed"
    /\ place = "finish run" => rows[Frozen] = <<{Receipt("frozen", x)}>>

BindTables ==
    /\ RunShape /\ DOMAIN job = {"state", "result"}
    /\ DOMAIN parent = Process /\ \A p \in Process : DOMAIN parent[p] = DOMAIN Unknown
    /\ {Child, Frozen} \subseteq DOMAIN rows /\ Short(rows[Child])

BindInv ==
    /\ BindTables
    /\ rows[Frozen] = <<>> \/ \E x : rows[Frozen] = <<{Receipt("frozen", x)}>>
    /\ run.state = "completed" => rows[Frozen] = <<{Receipt("frozen", run.result)}>>
    /\ Confirmed(rows[Child]) => \A r \in rows[Child][2] : r[1] = "outcome" => Result(r[2])
    /\ \A p \in Process : Keeping(pc[p], parent[p], me[p].payload)
    /\ job.state = "completed" => Result(job.result) /\ OutcomeNoted(job.result)

-----------------------------------------------------------------------------
(* Rows of two revisions.                                                  *)

LEMMA ShortAppend ==
    ASSUME NEW s, Short(s), NEW x, NEW n \in {1, 2}, n = Len(s) + 1
    PROVE  /\ Short(Append(s, x)) /\ ~Confirmed(s)
           /\ n = 1 => s = <<>> /\ ~Confirmed(Append(s, x))
           /\ n = 2 => Confirmed(Append(s, x)) /\ Append(s, x)[2] = x
<1>1. PICK S : s \in Seq(S)
  BY DEF Short, IsRow
<1>2. s \in Seq(S \cup {x})
  BY <1>1
<1>3. Append(s, x) \in Seq(S \cup {x}) /\ Len(Append(s, x)) = n /\ Append(s, x)[n] = x /\ Len(s) \in Nat
  BY <1>2
<1>4. Len(s) # 2 /\ n <= 2 /\ (n = 1 => Len(s) = 0)
  BY <1>3
<1>5. IsRow(Append(s, x))
  BY <1>3 DEF IsRow
<1>6. n = 1 => s = <<>>
  BY <1>1, <1>4
<1> QED BY <1>3, <1>4, <1>5, <1>6 DEF Short, Confirmed

\* A revision of a short row.
LEMMA ObserveShort ==
    ASSUME NEW p, NEW name \in DOMAIN rows, Short(rows[name]), NEW n \in {1, 2}, NEW receipts,
           NEW ok, NEW bad, Observe(p, name, n, receipts, ok, bad)
    PROVE  /\ DOMAIN rows' = DOMAIN rows /\ \A o \in DOMAIN rows \ {name} : rows'[o] = rows[o]
           /\ Short(rows'[name])
           /\ Confirmed(rows[name]) => rows'[name] = rows[name]
           /\ Confirmed(rows'[name]) => rows'[name] = rows[name] \/ (n = 2 /\ rows'[name][2] = receipts)
           /\ \/ Goto(p, ok) /\ (n = 2 => Confirmed(rows'[name]) /\ rows'[name][2] = receipts)
              \/ Goto(p, bad)
<1>1. PICK s : s = rows[name]
  OBVIOUS
<1>2. CASE Recorded(s, n, receipts)
  <2>1. rows' = rows /\ (Goto(p, ok) \/ Goto(p, bad))
    BY <1>1, <1>2 DEF Observe, Call
  <2>2. n = 2 => Confirmed(s) /\ s[2] = receipts
    <3>1. SUFFICES ASSUME n = 2
                   PROVE  Confirmed(s) /\ s[2] = receipts
      OBVIOUS
    <3>2. 2 <= Len(s) /\ s[2] = receipts
      BY <1>2, <3>1 DEF Recorded
    <3>3. Len(s) \in Nat /\ Len(s) <= 2
      BY <1>1 DEF Short, IsRow
    <3>4. Len(s) = 2
      <4>1. \A m \in Nat : 2 <= m /\ m <= 2 => m = 2
        OBVIOUS
      <4>2. 2 <= Len(s)
        BY <3>2
      <4> QED BY <3>3, <4>1, <4>2
    <3> QED BY <3>2, <3>4 DEF Confirmed
  <2> QED BY <1>1, <2>1, <2>2
<1>3. CASE ~Recorded(s, n, receipts) /\ Extends(s, n, receipts)
  <2>1. n = Len(s) + 1
    BY <1>3 DEF Extends
  <2>2. PICK u : u = Append(s, receipts)
    OBVIOUS
  <2>3. /\ Short(u) /\ ~Confirmed(s)
        /\ n = 1 => ~Confirmed(u)
        /\ n = 2 => Confirmed(u) /\ u[2] = receipts
    BY <1>1, <2>1, <2>2, ShortAppend
  <2>4. CASE rows' = [rows EXCEPT ![name] = Append(@, receipts)] /\ (Goto(p, ok) \/ Goto(p, bad))
    BY <1>1, <2>2, <2>4, <2>3
  <2>5. CASE rows' = rows /\ Goto(p, bad)
    BY <2>5
  <2> QED BY <1>1, <1>3, <2>4, <2>5 DEF Observe, Call
<1>4. CASE ~Recorded(s, n, receipts) /\ ~Extends(s, n, receipts)
  BY <1>1, <1>4 DEF Observe
<1> QED BY <1>2, <1>3, <1>4

\* The other rows.
LEMMA ObserveOthers ==
    ASSUME NEW p, NEW name, NEW n, NEW receipts, NEW ok, NEW bad, Observe(p, name, n, receipts, ok, bad)
    PROVE  /\ DOMAIN rows' = DOMAIN rows /\ \A o \in DOMAIN rows \ {name} : rows'[o] = rows[o]
           /\ Goto(p, ok) \/ Goto(p, bad)
  BY ObserveRows, ObserveGoes

-----------------------------------------------------------------------------
(* The session, while its process goes on.                                 *)

Demanding == InSession \cup InPhase \cup
    {"record recovered", "publish startup", "announce startup", "construct",
     "announce shutdown", "close session", "close unannounced", "publish shutdown"}

SessionRowsStay ==
    SessionRows \subseteq DOMAIN rows' /\ \A name \in SessionRows : rows'[name] = rows[name]

LEMMA OwnGoes ==
    ASSUME CallInv, OwnInv, NEW p \in Process, NEW label, Goto(p, label),
           UNCHANGED <<session, started>>, SessionRowsStay, job'.state = "completed" => job.state = "completed" \/ AnyShutdown,
           \A q \in Process \ {p} : me'[q] = me[q],
           Along(label, session[p], me'[p].phase)
    PROVE  OwnInv'
<1>1. pc'[p] = label /\ \A q \in Process \ {p} : pc'[q] = pc[q]
  BY DEF Goto, CallInv, EpisodeInv, Tables
<1>2. rows'[Startup] = rows[Startup] /\ (AnyShutdown' <=> AnyShutdown)
  BY DEF SessionRowsStay, SessionRows, AnyShutdown, Startup, Shutdown, Abort
<1>3. OwnTables' /\ Sole'
  BY <1>2 DEF OwnInv, OwnTables, Sole, SessionRowsStay, Holds
<1>4. \A q \in Process : Along(pc'[q], session'[q], me'[q].phase)
  BY <1>1 DEF OwnInv
<1>5. \A q \in Process : session'[q] = "live" => OnRecord(q)'
  BY <1>2 DEF OwnInv, OnRecord, Receipt
<1> QED BY <1>2, <1>3, <1>4, <1>5 DEF OwnInv

\* To a place that asks for nothing.
LEMMA OwnLeaves ==
    ASSUME CallInv, OwnInv, NEW p \in Process, NEW label, label \notin Demanding, Goto(p, label),
           UNCHANGED <<session, started>>, SessionRowsStay, job'.state = "completed" => job.state = "completed" \/ AnyShutdown,
           \A q \in Process \ {p} : me'[q] = me[q]
    PROVE  OwnInv'
  BY OwnGoes DEF OwnInv, Along, Demanding

LEMMA RowsStay ==
    ASSUME OwnInv, UNCHANGED rows
    PROVE  SessionRowsStay
  BY DEF OwnInv, OwnTables, SessionRowsStay

LEMMA OtherStay ==
    ASSUME OwnInv, NEW p, NEW name, name \notin SessionRows, NEW n, NEW receipts, NEW ok, NEW bad,
           Observe(p, name, n, receipts, ok, bad)
    PROVE  SessionRowsStay /\ (Goto(p, ok) \/ Goto(p, bad))
  BY ObserveOthers DEF OwnInv, OwnTables, SessionRowsStay

LEMMA NotSessions ==
    /\ SessionRows \cap Phase = {}
    /\ {Controller, Frozen, Request, Activation, Child} \cap SessionRows = {}
  BY NotPhases DEF SessionRows, Controller, Frozen, Request, Activation, Child, Startup, Shutdown, Abort

\* What changes in p's record leaves its phase.
LEMMA PhaseStays ==
    ASSUME CallInv, NEW p \in Process, NEW field \in DOMAIN Fresh \ {"phase"}, NEW value, Mine(p, field, value)
    PROVE  me'[p].phase = me[p].phase /\ \A q \in Process \ {p} : me'[q] = me[q]
  BY DEF Mine, CallInv, EpisodeInv, Tables, Fresh

LEMMA PhaseSet ==
    ASSUME CallInv, NEW p \in Process, NEW ph, Mine(p, "phase", ph)
    PROVE  me'[p].phase = ph /\ \A q \in Process \ {p} : me'[q] = me[q]
  BY DEF Mine, CallInv, EpisodeInv, Tables, Fresh

-----------------------------------------------------------------------------
(* The episode leaves the session alone.                                   *)

\* Where p is in the session.
LEMMA Stage ==
    ASSUME OwnInv, NEW p \in Process
    PROVE  Along(pc[p], session[p], me[p].phase) /\ session[p] \in Stages
  BY DEF OwnInv, Along

\* p's record stays, or changes outside its phase.
LEMMA OwnMe ==
    ASSUME CallInv, NEW p \in Process,
           UNCHANGED me \/ \E field \in DOMAIN Fresh \ {"phase"} : \E value : Mine(p, field, value)
    PROVE  me'[p].phase = me[p].phase /\ \A q \in Process \ {p} : me'[q] = me[q]
<1>1. CASE UNCHANGED me
  BY <1>1
<1>2. ASSUME NEW field \in DOMAIN Fresh \ {"phase"}, NEW value, Mine(p, field, value)
      PROVE  me'[p].phase = me[p].phase /\ \A q \in Process \ {p} : me'[q] = me[q]
  BY <1>2, PhaseStays
<1> QED BY <1>1, <1>2

LEMMA OwnEnterSteps ==
    ASSUME CallInv, OwnInv, NEW p \in Process, EnterRun(p) \/ ClaimRun(p) \/ AnnounceRun(p),
           UNCHANGED <<sessionVars, parentVars>>
    PROVE  OwnInv'
<1>1. UNCHANGED <<session, started, job>> /\ Along(pc[p], session[p], me[p].phase)
  BY Stage DEF sessionVars, parentVars
<1>2. CASE EnterRun(p)
  <2>1. PICK label \in {"run returned", "elsewhere", "run raised", "claim run"} : Goto(p, label)
    BY <1>2 DEF EnterRun, Call
  <2>2. SessionRowsStay /\ \A q \in Process \ {p} : me'[q] = me[q]
    BY <1>2, RowsStay DEF EnterRun, CallInv, EpisodeInv, Tables
  <2>3. pc[p] = "run"
    BY <1>2 DEF EnterRun, At
  <2>4. Along(label, session[p], me'[p].phase)
    BY <1>1, <2>3 DEF Along, InSession, InPhase
  <2> QED BY <1>1, <2>1, <2>2, <2>4, OwnGoes
<1>3. CASE ClaimRun(p)
  <2>1. PICK label \in {"run raised", "controller"} : Goto(p, label)
    BY <1>3 DEF ClaimRun, Call
  <2>2. SessionRowsStay /\ me' = me /\ pc[p] = "claim run"
    BY <1>3, RowsStay DEF ClaimRun, At
  <2>3. Along(label, session[p], me'[p].phase)
    BY <1>1, <2>2 DEF Along, InSession, InPhase
  <2> QED BY <1>1, <2>1, <2>2, <2>3, OwnGoes
<1>4. CASE AnnounceRun(p)
  <2>1. PICK label \in {"run raised", "turn"} : SessionRowsStay /\ Goto(p, label)
    BY <1>4, OtherStay, NotSessions DEF AnnounceRun
  <2>2. me' = me /\ pc[p] = "controller"
    BY <1>4 DEF AnnounceRun, At, runVars
  <2>3. Along(label, session[p], me'[p].phase)
    BY <1>1, <2>2 DEF Along, InSession, InPhase
  <2> QED BY <1>1, <2>1, <2>2, <2>3, OwnGoes
<1> QED BY <1>2, <1>3, <1>4

LEMMA OwnTurnStep ==
    ASSUME CallInv, OwnInv, NEW p \in Process, Turn(p), UNCHANGED <<sessionVars, parentVars>>
    PROVE  OwnInv'
  BY RowsStay, Stage, OwnLeaves, PhaseSet, OwnGoes DEF Turn, sessionVars, parentVars, At, Along,
     InSession, Demanding, InPhase, Stages

\* A phase is announced, executed and recorded where it was.
LEMMA OwnPhaseSteps ==
    ASSUME CallInv, OwnInv, NEW p \in Process,
           Announce(p) \/ DispatchEpisode(p) \/ DispatchGrade(p) \/ Record(p) \/ RecordRecovered(p),
           UNCHANGED <<sessionVars, parentVars>>
    PROVE  OwnInv'
<1>1. UNCHANGED <<session, started, job>> /\ Along(pc[p], session[p], me[p].phase)
  BY Stage DEF sessionVars, parentVars
<1>2. ASSUME NEW label \in {"dispatched", "record", "recorded", "infrastructure", "run raised",
                            "grade pending", "unconfirmed"},
             Goto(p, label), SessionRowsStay, me'[p].phase = me[p].phase,
             \A q \in Process \ {p} : me'[q] = me[q],
             pc[p] \in InPhase \cup {"record recovered"}
      PROVE  OwnInv'
  BY <1>1, <1>2, OwnGoes DEF Along, InSession, InPhase
<1>3. pc[p] \in {"announce", "dispatched", "record", "record recovered"} => pc[p] \in InPhase \cup {"record recovered"}
  BY DEF InPhase
<1>4. CASE Announce(p)
  <2>1. pc[p] = "announce" /\ me' = me
    BY <1>4 DEF Announce, At, runVars
  <2>2. me[p].phase \in Phase
    BY <2>1 DEF CallInv, EpisodeInv, Placed
  <2>3. PICK bad \in {"infrastructure", "run raised"} :
           Observe(p, me[p].phase, 1, {Receipt("intent", me[p].stamp)}, "dispatched", bad)
    BY <1>4 DEF Announce
  <2>4. SessionRowsStay /\ (Goto(p, "dispatched") \/ Goto(p, bad))
    BY <2>2, <2>3, OtherStay, NotSessions
  <2> QED BY <1>2, <1>3, <2>1, <2>4
<1>5. CASE DispatchEpisode(p)
  <2>1. PICK label \in {"record", "infrastructure"} : Goto(p, label)
    BY <1>5 DEF DispatchEpisode
  <2>2. me'[p].phase = me[p].phase /\ \A q \in Process \ {p} : me'[q] = me[q]
    BY <1>5, OwnMe DEF Fresh, DispatchEpisode
  <2>3. SessionRowsStay /\ pc[p] = "dispatched"
    BY <1>5, RowsStay DEF DispatchEpisode, At
  <2> QED BY <1>2, <1>3, <2>1, <2>2, <2>3
<1>6. CASE DispatchGrade(p)
  <2>1. PICK label \in {"record", "grade pending"} : Goto(p, label)
    BY <1>6 DEF DispatchGrade
  <2>2. me'[p].phase = me[p].phase /\ \A q \in Process \ {p} : me'[q] = me[q]
    <3>1. DOMAIN me = Process /\ DOMAIN me[p] = DOMAIN Fresh
      BY Standing
    <3>2. PICK g : \/ me' = [me EXCEPT ![p].result = g]
                   \/ me' = [me EXCEPT ![p].result = g, ![p].intent = me[p].stamp]
      BY <1>6 DEF DispatchGrade
    <3> QED BY <3>1, <3>2 DEF Fresh
  <2>3. SessionRowsStay /\ pc[p] = "dispatched"
    BY <1>6, RowsStay DEF DispatchGrade, At
  <2> QED BY <1>2, <1>3, <2>1, <2>2, <2>3
<1>7. CASE Record(p)
  <2>1. pc[p] = "record" /\ me' = me
    BY <1>7 DEF Record, At, runVars
  <2>2. me[p].phase \in Phase
    BY <2>1 DEF CallInv, EpisodeInv, Placed
  <2>3. SessionRowsStay /\ (Goto(p, "recorded") \/ Goto(p, "unconfirmed"))
    BY <1>7, <2>2, OtherStay, NotSessions DEF Record
  <2> QED BY <1>2, <1>3, <2>1, <2>3
<1>8. CASE RecordRecovered(p)
  BY <1>8, <1>2, <1>3, OtherStay, NotSessions DEF RecordRecovered, At, runVars, CallInv,
     EpisodeInv, Placed
<1> QED BY <1>4, <1>5, <1>6, <1>7, <1>8

LEMMA OwnAfterSteps ==
    ASSUME CallInv, OwnInv, NEW p \in Process, AfterGeneration(p) \/ AfterAction(p),
           UNCHANGED <<sessionVars, parentVars>>
    PROVE  OwnInv'
<1>1. UNCHANGED <<session, started, job>> /\ SessionRowsStay
  BY RowsStay DEF AfterGeneration, AfterAction, sessionVars, parentVars
<1>2. session[p] = "live"
  BY Stage DEF AfterGeneration, AfterAction, At, Along, InPhase
<1>3. ASSUME NEW label \in {"invalid", "infrastructure", "close workspace"}, Goto(p, label), UNCHANGED me
      PROVE  OwnInv'
  BY <1>1, <1>3, OwnLeaves DEF Demanding, InSession, InPhase
<1>4. CASE Goto(p, "announce") /\ Mine(p, "phase", <<"action", me[p].turn>>)
  BY <1>4, <1>2, <1>1, PhaseSet, OwnGoes DEF Along, InSession, InPhase, Stages
<1>5. CASE Goto(p, "turn") /\ Mine(p, "turn", me[p].turn + 1)
  BY <1>5, <1>2, <1>1, PhaseStays, OwnGoes DEF Fresh, Along, InSession, InPhase, Stages
<1> QED BY <1>3, <1>4, <1>5 DEF AfterGeneration, AfterAction

LEMMA OwnGradeSteps ==
    ASSUME CallInv, OwnInv, NEW p \in Process, StartGrade(p) \/ AfterGrade(p),
           UNCHANGED <<sessionVars, parentVars>>
    PROVE  OwnInv'
<1>1. UNCHANGED <<session, started, job>> /\ SessionRowsStay /\ session[p] \in Stages
  BY RowsStay, Stage DEF StartGrade, AfterGrade, sessionVars, parentVars
<1>2. DOMAIN me = Process /\ DOMAIN me[p] = DOMAIN Fresh
  BY Standing
<1>3. ASSUME NEW label \in {"announce", "record recovered"}, Goto(p, label),
             me'[p].phase[1] = "grade", \A q \in Process \ {p} : me'[q] = me[q]
      PROVE  OwnInv'
  BY <1>1, <1>3, OwnGoes DEF Along, InSession, InPhase
<1>4. ASSUME NEW label \in {"invalid", "run raised", "infrastructure", "grade", "freeze"}, Goto(p, label),
             \A q \in Process \ {p} : me'[q] = me[q]
      PROVE  OwnInv'
  BY <1>1, <1>4, OwnLeaves DEF Demanding, InSession, InPhase
<1>5. CASE StartGrade(p)
  <2>1. CASE Refused(p) /\ UNCHANGED me
    BY <1>4, <2>1 DEF Refused
  <2>2. CASE Goto(p, "announce") /\ Mine(p, "phase", <<"grade", me[p].index>>)
    <3>1. PICK ph : ph = <<"grade", me[p].index>> /\ ph[1] = "grade"
      <4>1. \A i : <<"grade", i>>[1] = "grade"
        OBVIOUS
      <4> QED BY <4>1
    <3>2. me'[p].phase = ph /\ \A q \in Process \ {p} : me'[q] = me[q]
      BY <2>2, <3>1, PhaseSet
    <3> QED BY <1>3, <2>2, <3>1, <3>2
  <2>3. CASE /\ Goto(p, "record recovered")
             /\ me' = [me EXCEPT ![p].phase = <<"grade", me[p].index>>,
                                 ![p].result = me[p].recovered, ![p].recovered = Nothing]
    <3>1. PICK ph : ph = <<"grade", me[p].index>> /\ ph[1] = "grade"
      <4>1. \A i : <<"grade", i>>[1] = "grade"
        OBVIOUS
      <4> QED BY <4>1
    <3>2. me'[p].phase = ph /\ \A q \in Process \ {p} : me'[q] = me[q]
      BY <1>2, <2>3, <3>1 DEF Fresh
    <3> QED BY <1>3, <2>3, <3>1, <3>2
  <2> QED BY <1>5, <2>1, <2>2, <2>3 DEF StartGrade
<1>6. CASE AfterGrade(p)
  <2>1. \A q \in Process \ {p} : me'[q] = me[q]
    BY <1>6, OwnMe DEF Fresh, AfterGrade
  <2>2. PICK label \in {"invalid", "run raised", "infrastructure", "grade", "freeze"} : Goto(p, label)
    BY <1>6 DEF AfterGrade, Failed, Refused
  <2> QED BY <1>4, <2>1, <2>2
<1> QED BY <1>5, <1>6

LEMMA OwnSaveSteps ==
    ASSUME CallInv, OwnInv, NEW p \in Process,
           \/ CloseWorkspace(p) \/ Submit(p) \/ Undecided(p) \/ Freeze(p) \/ Gather(p)
           \/ Publish(p) \/ FinishRun(p) \/ Raise(p),
           UNCHANGED <<sessionVars, parentVars>>
    PROVE  OwnInv'
<1>1. UNCHANGED <<session, started, job>>
  BY DEF sessionVars, parentVars
<1>2. \A q \in Process \ {p} : me'[q] = me[q]
  BY OwnMe DEF Fresh, CloseWorkspace, Submit, Undecided, Freeze, Gather, Publish, FinishRun, Raise,
     runVars
<1>3. PICK label \in {"submit", "infrastructure", "invalid", "run raised", "grade", "submission pending",
                      "freeze", "gather", "freeze pending", "publish", "finish run", "publication pending",
                      "run returned"} : Goto(p, label) /\ SessionRowsStay
  BY RowsStay, OtherStay, NotSessions DEF CloseWorkspace, Submit, Undecided, Gather, FinishRun,
     Raise, Refused, Call, Freeze, Publish
<1> QED BY <1>1, <1>2, <1>3, OwnLeaves DEF Demanding, InSession, InPhase

-----------------------------------------------------------------------------
(* Steps of the session itself.                                            *)

\* Rows of the session are announced and confirmed, and then stay.
SessionRowsGrow ==
    /\ SessionRows \subseteq DOMAIN rows'
    /\ \A name \in SessionRows : Short(rows'[name]) /\ (Confirmed(rows[name]) => rows'[name] = rows[name])

\* The session of p comes to stage.
ToStage(p, stage) ==
    session'[p] = stage /\ DOMAIN session' = Process /\ \A q \in Process \ {p} : session'[q] = session[q]

LEMMA OwnChanges ==
    ASSUME CallInv, OwnInv, NEW p \in Process, NEW label, NEW stage, Goto(p, label),
           ToStage(p, stage), UNCHANGED <<started, job, me>>, SessionRowsGrow,
           stage \in Had => session[p] \in Had, stage \in {"unpublished", "live"} => Holds(p),
           AnyShutdown' => AnyShutdown \/ (session[p] = "closed" /\ stage \in {"closed", "released"}),
           stage = "live" => OnRecord(p)',
           Along(label, stage, me[p].phase)
    PROVE  OwnInv'
<1>1. pc'[p] = label /\ \A q \in Process \ {p} : pc'[q] = pc[q]
  BY DEF Goto, CallInv, EpisodeInv, Tables
<1>2. session'[p] = stage /\ DOMAIN session' = Process /\ \A q \in Process \ {p} : session'[q] = session[q]
  BY DEF ToStage
<1>3. OwnTables'
  BY <1>2 DEF OwnInv, OwnTables, SessionRowsGrow
<1>4. Sole'
  <2>1. CASE started = 0
    BY <2>1, <1>2 DEF OwnInv, Sole, Had
  <2>2. CASE started = 1
    <3>1. AnyShutdown => \A q \in Process : ~Holds(q)
      BY <2>2 DEF OwnInv, Sole
    <3>2. \A q, r \in Process : session[q] \in Had /\ session[r] \in Had => q = r
      BY <2>2 DEF OwnInv, Sole
    <3>3. \A q, r \in Process : session'[q] \in Had /\ session'[r] \in Had => q = r
      BY <1>2, <3>2
    <3>4. ASSUME AnyShutdown', NEW q \in Process, Holds(q)' PROVE FALSE
      BY <1>2, <3>4, <3>1, <3>2 DEF Holds, Had
    <3> QED BY <2>2, <3>3, <3>4 DEF Sole
  <2> QED BY <2>1, <2>2 DEF Sole
<1>5. \A q \in Process : Along(pc'[q], session'[q], me'[q].phase)
  BY <1>1, <1>2 DEF OwnInv
<1>6. \A q \in Process : session'[q] = "live" => OnRecord(q)'
  BY <1>2 DEF SessionRows, OnRecord, SessionRowsGrow, Receipt, Confirmed, OwnInv
<1>7. job'.state = "completed" => AnyShutdown'
  BY DEF SessionRows, AnyShutdown, SessionRowsGrow, Confirmed, OwnInv
<1> QED BY <1>3, <1>4, <1>5, <1>6, <1>7 DEF OwnInv

LEMMA ShutdownRows ==
    /\ {Startup, Shutdown, Abort} = SessionRows
    /\ Startup # Shutdown /\ Startup # Abort /\ Shutdown # Abort
  BY DEF SessionRows, Startup, Shutdown, Abort

\* A revision of a row of the session.
LEMMA ObserveSession ==
    ASSUME OwnInv, NEW p, NEW name \in SessionRows, NEW n \in {1, 2}, NEW receipts, NEW ok, NEW bad,
           Observe(p, name, n, receipts, ok, bad)
    PROVE  /\ SessionRowsGrow
           /\ n = 1 \/ name = Startup => (AnyShutdown' => AnyShutdown)
           /\ \/ Goto(p, ok) /\ (n = 2 => Confirmed(rows'[name]) /\ rows'[name][2] = receipts)
              \/ Goto(p, bad)
<1>1. SessionRows \subseteq DOMAIN rows /\ \A o \in SessionRows : Short(rows[o])
  BY DEF OwnInv, OwnTables
<1>2. /\ DOMAIN rows' = DOMAIN rows /\ \A o \in DOMAIN rows \ {name} : rows'[o] = rows[o]
      /\ Short(rows'[name])
      /\ Confirmed(rows[name]) => rows'[name] = rows[name]
      /\ Confirmed(rows'[name]) => rows'[name] = rows[name] \/ (n = 2 /\ rows'[name][2] = receipts)
      /\ \/ Goto(p, ok) /\ (n = 2 => Confirmed(rows'[name]) /\ rows'[name][2] = receipts)
         \/ Goto(p, bad)
  BY <1>1, ObserveShort
<1>3. SessionRowsGrow
  BY <1>1, <1>2 DEF SessionRowsGrow
<1>4. ASSUME n = 1 \/ name = Startup, NEW o \in {Shutdown, Abort}, Confirmed(rows'[o])
      PROVE  Confirmed(rows[o])
  BY <1>4, <1>2, <1>1, ShutdownRows DEF Confirmed
<1>5. n = 1 \/ name = Startup => (AnyShutdown' => AnyShutdown)
  BY <1>4 DEF AnyShutdown, Shutdown, Abort
<1> QED BY <1>2, <1>3, <1>5

\* The rows stay.
LEMMA SessionRowsSame ==
    ASSUME OwnInv, UNCHANGED rows
    PROVE  SessionRowsGrow /\ (AnyShutdown' => AnyShutdown)
  BY DEF OwnInv, OwnTables, SessionRowsGrow, AnyShutdown, Shutdown, Abort, Confirmed

\* Where p goes and what becomes of its session, with the rows and me as they are.
LEMMA OwnAt ==
    ASSUME CallInv, OwnInv, NEW p \in Process, NEW label, NEW stage, Goto(p, label), ToStage(p, stage),
           UNCHANGED <<rows, started, job, me>>,
           stage \in Had => session[p] \in Had, stage \in {"unpublished", "live"} => Holds(p),
           stage = "live" => session[p] = "live",
           Along(label, stage, me[p].phase)
    PROVE  OwnInv'
  BY SessionRowsSame, OwnChanges DEF OnRecord, Startup, Receipt, Confirmed, OwnInv

LEMMA SameStage ==
    ASSUME OwnInv, NEW p \in Process, UNCHANGED session
    PROVE  ToStage(p, session[p])
  BY DEF ToStage, OwnInv, OwnTables

LEMMA OwnStartupSteps ==
    ASSUME CallInv, OwnInv, NEW p \in Process, CheckKey(p) \/ AnnounceStartup(p) \/ PublishStartup(p),
           UNCHANGED <<runVars, parentVars>>
    PROVE  OwnInv'
<1>1. UNCHANGED <<job, me>> /\ Along(pc[p], session[p], me[p].phase) /\ DOMAIN session = Process
  BY Stage DEF runVars, parentVars, OwnInv, OwnTables
<1>2. CASE CheckKey(p)
  <2>1. ToStage(p, "asked") /\ UNCHANGED <<rows, started>>
    BY <1>1, <1>2 DEF CheckKey, ToStage
  <2>2. PICK label \in {"announce startup", "startup failed"} : Goto(p, label)
    BY <1>2 DEF CheckKey
  <2>3. Along(label, "asked", me[p].phase)
    BY <2>2 DEF Along, Stages, InSession, InPhase
  <2> QED BY <1>1, <2>1, <2>2, <2>3, OwnAt DEF Had
<1>3. CASE AnnounceStartup(p)
  <2>1. UNCHANGED <<session, started>> /\ pc[p] = "announce startup"
    BY <1>3 DEF AnnounceStartup, sessionVars, At
  <2>2. PICK label \in {"construct", "startup failed"} : Goto(p, label) /\ SessionRowsGrow /\ (AnyShutdown' => AnyShutdown)
    BY <1>3, ObserveSession, ShutdownRows DEF AnnounceStartup
  <2>3. session[p] = "asked"
    BY <1>1, <2>1 DEF Along
  <2>4. Along(label, session[p], me[p].phase)
    BY <2>2, <2>3 DEF Along, Stages, InSession, InPhase
  <2> QED BY <1>1, <2>1, <2>2, <2>3, <2>4, SameStage, OwnChanges DEF Had
<1>4. CASE PublishStartup(p)
  <2>1. pc[p] = "publish startup" /\ UNCHANGED started
        /\ session' = [session EXCEPT ![p] = IF pc'[p] = "startup done" THEN "live" ELSE @]
    BY <1>4 DEF PublishStartup, At
  <2>2. session[p] = "unpublished" /\ Holds(p)
    BY <1>1, <2>1 DEF Along, Holds
  <2>3. DOMAIN pc = Process
    BY DEF CallInv, EpisodeInv, Tables
  <2>4. PICK receipts : /\ receipts = {Receipt("configuration", 0), Receipt("startup", p)}
                        /\ Observe(p, Startup, 2, receipts, "startup done", "startup failed")
    BY <1>4 DEF PublishStartup
  <2>5. /\ SessionRowsGrow /\ (AnyShutdown' => AnyShutdown)
        /\ \/ Goto(p, "startup done") /\ Confirmed(rows'[Startup]) /\ rows'[Startup][2] = receipts
           \/ Goto(p, "startup failed")
    <3>1. PICK name \in SessionRows : name = Startup
      BY ShutdownRows
    <3>2. Observe(p, name, 2, receipts, "startup done", "startup failed")
      BY <2>4, <3>1
    <3>3. /\ SessionRowsGrow /\ (AnyShutdown' => AnyShutdown)
          /\ \/ Goto(p, "startup done") /\ Confirmed(rows'[name]) /\ rows'[name][2] = receipts
             \/ Goto(p, "startup failed")
      BY <3>1, <3>2, ObserveSession
    <3> QED BY <3>1, <3>3
  <2>6. CASE Goto(p, "startup done") /\ Confirmed(rows'[Startup]) /\ rows'[Startup][2] = receipts
    <3>1. ToStage(p, "live")
      BY <1>1, <2>1, <2>3, <2>6 DEF ToStage, Goto
    <3>2. OnRecord(p)'
      BY <2>4, <2>6 DEF OnRecord, Receipt, Startup
    <3>3. Along("startup done", "live", me[p].phase)
      BY DEF Along, Stages, InSession, InPhase
    <3> QED BY <1>1, <2>1, <2>2, <2>5, <2>6, <3>1, <3>2, <3>3, OwnChanges DEF Had
  <2>7. CASE Goto(p, "startup failed")
    BY <1>1, <2>1, <2>2, <2>3, <2>7, <2>5, OwnChanges DEF ToStage, Goto, Along, Stages, InSession,
       InPhase, Had
  <2> QED BY <2>5, <2>6, <2>7
<1> QED BY <1>2, <1>3, <1>4

\* A session that is closed is one p had; only a closed one's shutdown is confirmed.
LEMMA OwnCloseSteps ==
    ASSUME CallInv, OwnInv, NEW p \in Process, Close(p) \/ AnnounceShutdown(p) \/ CloseSession(p) \/ PublishShutdown(p),
           UNCHANGED <<runVars, parentVars>>
    PROVE  OwnInv'
<1>1. UNCHANGED <<job, me>> /\ Along(pc[p], session[p], me[p].phase) /\ DOMAIN session = Process
  BY Stage DEF runVars, parentVars, OwnInv, OwnTables
<1>2. DOMAIN pc = Process /\ session[p] \in Stages
  BY <1>1 DEF CallInv, EpisodeInv, Tables, Along
<1>3. Key(p) \in {Shutdown, Abort} /\ Key(p) \in SessionRows
  BY ShutdownRows DEF Key
<1>4. CASE Close(p)
  <2>1. UNCHANGED <<rows, session, started>>
    BY <1>4 DEF Close
  <2>2. PICK label \in {"close failed", "close done", "close session", "announce shutdown"} :
           Goto(p, label) /\ (label \in {"close session", "announce shutdown"} => session[p] \in Had)
    <3>1. PICK close \in {"close session", "announce shutdown"} :
             Goto(p, CASE session[p] = "asked"                -> "close failed"
                       [] session[p] \in {"none", "released"} -> "close done"
                       [] OTHER                               -> close)
      BY <1>4 DEF Close
    <3>2. PICK label : /\ Goto(p, label)
                       /\ label = CASE session[p] = "asked"                -> "close failed"
                                    [] session[p] \in {"none", "released"} -> "close done"
                                    [] OTHER                               -> close
      BY <3>1
    <3>3. CASE session[p] \in Had
      BY <3>2, <3>3, <3>1 DEF Had
    <3>4. CASE session[p] \notin Had
      BY <1>2, <3>2, <3>4 DEF Had, Stages
    <3> QED BY <3>3, <3>4
  <2>3. Along(label, session[p], me[p].phase)
    BY <1>2, <2>2 DEF Along, InSession, InPhase
  <2> QED BY <1>1, <2>1, <2>2, <2>3, SameStage, OwnAt DEF Holds
<1>5. CASE AnnounceShutdown(p)
  <2>1. UNCHANGED <<session, started>> /\ session[p] \in Had
    BY <1>1, <1>5 DEF AnnounceShutdown, At, Along
  <2>2. PICK label \in {"close session", "close unannounced"} : Goto(p, label) /\ SessionRowsGrow /\ (AnyShutdown' => AnyShutdown)
    BY <1>3, <1>5, ObserveSession DEF AnnounceShutdown
  <2>3. Along(label, session[p], me[p].phase)
    BY <1>2, <2>1, <2>2 DEF Along, InSession, InPhase
  <2>4. Startup \in SessionRows
    BY ShutdownRows
  <2>5. session[p] = "live" => OnRecord(p)'
    BY <2>2, <2>4 DEF OwnInv, OnRecord, Receipt, Startup, Confirmed, SessionRowsGrow
  <2> QED BY <1>1, <2>1, <2>2, <2>3, <2>5, SameStage, OwnChanges DEF Holds
<1>6. CASE CloseSession(p)
  BY <1>1, <1>6, <1>2, OwnAt, SameStage DEF CloseSession, Along, ToStage, Stages, InSession,
     InPhase, Holds
<1>7. CASE PublishShutdown(p)
  <2>1. session[p] = "closed" /\ UNCHANGED started
        /\ session' = [session EXCEPT ![p] = IF pc'[p] = "close done" THEN "released" ELSE @]
    BY <1>1, <1>7 DEF PublishShutdown, At, Along
  <2>2. PICK label \in {"close done", "close failed"} : Goto(p, label) /\ SessionRowsGrow
    <3>1. PICK name \in SessionRows : name = Key(p)
      BY <1>3
    <3>2. PICK receipts : Observe(p, name, 2, receipts, "close done", "close failed")
      BY <1>7, <3>1 DEF PublishShutdown
    <3> QED BY <3>2, ObserveSession
  <2>3. PICK stage \in {"closed", "released"} : ToStage(p, stage)
    BY <1>1, <2>1 DEF ToStage
  <2>4. Along(label, stage, me[p].phase)
    BY <2>2, <2>3 DEF Along, Stages, InSession, InPhase
  <2> QED BY <1>1, <2>1, <2>2, <2>3, <2>4, OwnChanges DEF Had
<1> QED BY <1>4, <1>5, <1>6, <1>7

\* A session is constructed once its startup was announced: the first leaves one process with it.
LEMMA OwnConstructStep ==
    ASSUME CallInv, OwnInv, NEW p \in Process, Construct(p), UNCHANGED <<runVars, parentVars>>
    PROVE  OwnInv'
<1>1. UNCHANGED <<job, me, rows>> /\ Along(pc[p], session[p], me[p].phase) /\ DOMAIN session = Process
  BY Stage DEF runVars, parentVars, OwnInv, OwnTables, Construct
<1>2. session[p] = "asked"
  BY <1>1 DEF Construct, At, Along
<1>3. CASE session' = [session EXCEPT ![p] = "unpublished"] /\ started' = started + 1 /\ Goto(p, "publish startup")
  <2>1. pc'[p] = "publish startup" /\ \A q \in Process \ {p} : pc'[q] = pc[q]
    BY <1>3 DEF Goto, CallInv, EpisodeInv, Tables
  <2>2. session'[p] = "unpublished" /\ DOMAIN session' = Process /\ \A q \in Process \ {p} : session'[q] = session[q]
    BY <1>1, <1>3
  <2>3. started \in Nat /\ started' \in Nat /\ started' # 0 /\ (started' = 1 => started = 0)
    <3>1. \A n \in Nat : n + 1 \in Nat /\ n + 1 # 0 /\ (n + 1 = 1 => n = 0)
      OBVIOUS
    <3>2. started \in Nat
      BY DEF OwnInv, OwnTables
    <3>3. started + 1 \in Nat /\ started + 1 # 0 /\ (started + 1 = 1 => started = 0)
      BY <3>1, <3>2
    <3> QED BY <1>3, <3>2, <3>3
  <2>4. OwnTables'
    BY <1>1, <2>2, <2>3 DEF OwnInv, OwnTables
  <2>5. AnyShutdown' <=> AnyShutdown
    BY <1>1 DEF AnyShutdown, Shutdown, Abort, Confirmed
  <2>6. Sole'
    BY <2>3, <2>5, <2>2 DEF OwnInv, Sole
  <2>7. \A q \in Process : Along(pc'[q], session'[q], me'[q].phase)
    <3>1. Along("publish startup", "unpublished", me[p].phase)
      BY DEF Along, Stages, InSession, InPhase
    <3> QED BY <1>1, <2>1, <2>2, <3>1 DEF OwnInv
  <2>8. \A q \in Process : session'[q] = "live" => OnRecord(q)'
    BY <1>1, <2>2 DEF OwnInv, OnRecord, Receipt, Startup, Confirmed
  <2> QED BY <1>1, <2>4, <2>5, <2>6, <2>7, <2>8 DEF OwnInv
<1>4. CASE Goto(p, "startup failed") /\ UNCHANGED <<session, started>>
  BY <1>2, <1>1, <1>4, SameStage, OwnAt DEF Along, Stages, InSession, InPhase, Had
<1> QED BY <1>3, <1>4 DEF Construct

LEMMA OwnCrashStep ==
    ASSUME CallInv, OwnInv, NEW p \in Process, Crash(p)
    PROVE  OwnInv'
<1>1. pc'[p] = "idle" /\ \A q \in Process \ {p} : pc'[q] = pc[q]
  BY DEF Crash, Return, Goto, CallInv, EpisodeInv, Tables
<1>2. session'[p] = "none" /\ DOMAIN session' = Process /\ \A q \in Process \ {p} : session'[q] = session[q]
  BY DEF Crash, OwnInv, OwnTables
<1>3. UNCHANGED <<rows, started, job>> /\ \A q \in Process \ {p} : me'[q] = me[q]
  BY DEF Crash, CallInv, EpisodeInv, Tables
<1>4. AnyShutdown' <=> AnyShutdown
  BY <1>3 DEF AnyShutdown, Shutdown, Abort, Confirmed
<1>5. \A q \in Process : (session'[q] \in Had => session[q] \in Had) /\ (Holds(q)' => Holds(q))
  BY <1>2 DEF Had, Holds
<1>6. OwnTables' /\ Sole'
  BY <1>2, <1>3, <1>4, <1>5 DEF OwnInv, OwnTables, Sole
<1>7. Along("idle", "none", me'[p].phase)
  BY DEF Along, Stages, InSession, InPhase
<1>8. \A q \in Process : Along(pc'[q], session'[q], me'[q].phase)
  BY <1>1, <1>2, <1>3, <1>7 DEF OwnInv
<1>9. \A q \in Process : session'[q] = "live" => OnRecord(q)'
  BY <1>2, <1>3 DEF OwnInv, OnRecord, Receipt, Startup, Confirmed
<1> QED BY <1>3, <1>4, <1>6, <1>8, <1>9 DEF OwnInv

-----------------------------------------------------------------------------
(* The outer job leaves the session alone.                                 *)

\* p goes on with nothing of the episode changed.
LEMMA OwnParentGoes ==
    ASSUME CallInv, OwnInv, NEW p \in Process, NEW label, Goto(p, label), SessionRowsStay,
           UNCHANGED <<session, started, me>>, job'.state = "completed" => job.state = "completed" \/ AnyShutdown,
           label \in Demanding => label \in InSession /\ session[p] = "live"
    PROVE  OwnInv'
  BY OwnGoes, OwnLeaves DEF Along, Stages, InSession, InPhase

LEMMA OwnRunSteps ==
    ASSUME CallInv, OwnInv, BindTables, NEW p \in Process,
           \/ Run(p) \/ Claim(p) \/ AnnounceParent(p) \/ StartupFailed(p)
           \/ AnnounceActivation(p) \/ Activate(p) \/ PublishActivation(p)
           \/ Assign(p) \/ StartChild(p) \/ UnwindRun(p)
    PROVE  OwnInv'
<1>1. Along(pc[p], session[p], me[p].phase)
  BY Stage
<1>2. ASSUME NEW label \in {"claim", "idle", "parent", "close", "create", "unwind"}, Goto(p, label), SessionRowsStay,
             UNCHANGED <<session, started, me>>, job'.state = "completed" => job.state = "completed"
      PROVE  OwnInv'
  BY <1>2, OwnParentGoes DEF Demanding, InSession, InPhase
<1>3. ASSUME NEW label \in {"activate", "publish activation", "assign", "assigned", "run", "unwind"},
             Goto(p, label), SessionRowsStay, UNCHANGED <<session, started, me, job>>, pc[p] \in InSession
      PROVE  OwnInv'
  BY <1>1, <1>3, OwnParentGoes DEF Along, Demanding, InSession, InPhase
<1>4. CASE Run(p)
  <2>1. UNCHANGED <<rows, session, started, me>>
    BY <1>4 DEF Run, sessionVars, runVars
  <2>2. PICK label \in {"claim", "idle"} : Goto(p, label)
    BY <1>4 DEF Run, Call
  <2>3. job' = [job EXCEPT !.state = "queued"] \/ job' = job
    BY <1>4 DEF Run, Call
  <2>4. job'.state = "completed" => job.state = "completed"
    BY <2>3 DEF BindTables
  <2> QED BY <1>2, <2>1, <2>2, <2>4, RowsStay
<1>5. CASE Claim(p)
  <2>1. UNCHANGED <<rows, session, started, me>>
    BY <1>5 DEF Claim, sessionVars, runVars
  <2>2. PICK label \in {"parent", "idle"} : Goto(p, label)
    BY <1>5 DEF Claim, Return, Call
  <2>3. job' = [job EXCEPT !.state = "running"] \/ job' = job
    BY <1>5 DEF Claim, Call
  <2>4. job'.state = "completed" => job.state = "completed"
    BY <2>3 DEF BindTables
  <2> QED BY <1>2, <2>1, <2>2, <2>4, RowsStay
<1>6. CASE AnnounceParent(p)
  <2>1. UNCHANGED <<session, started, me, job>>
    BY <1>6 DEF AnnounceParent, sessionVars, runVars, parentVars
  <2>2. PICK label \in {"create", "idle"} : Goto(p, label) /\ SessionRowsStay
    BY <1>6, OtherStay, NotSessions DEF AnnounceParent
  <2> QED BY <1>2, <2>1, <2>2
<1>7. CASE StartupFailed(p) \/ UnwindRun(p)
  BY <1>2, <1>7, RowsStay DEF StartupFailed, UnwindRun, Unwind, sessionVars, runVars
<1>8. CASE AnnounceActivation(p) \/ PublishActivation(p)
  <2>1. UNCHANGED <<session, started, me, job>> /\ pc[p] \in InSession
    BY <1>8 DEF AnnounceActivation, PublishActivation, sessionVars, runVars, parentVars, At, InSession
  <2>2. PICK label \in {"activate", "assign", "unwind"} : Goto(p, label) /\ SessionRowsStay
    BY <1>8, OtherStay, NotSessions DEF AnnounceActivation, PublishActivation
  <2> QED BY <1>3, <2>1, <2>2
<1>9. CASE Activate(p) \/ StartChild(p)
  <2>1. UNCHANGED <<rows, session, started, me, job>> /\ pc[p] \in InSession
    BY <1>9 DEF Activate, StartChild, sessionVars, runVars, parentVars, At, InSession
  <2>2. PICK label \in {"publish activation", "run", "unwind"} : Goto(p, label)
    BY <1>9 DEF Activate, StartChild
  <2> QED BY <1>3, <2>1, <2>2, RowsStay
<1>10. CASE Assign(p)
  <2>1. UNCHANGED <<session, started, me, job>> /\ pc[p] \in InSession
    BY <1>10 DEF Assign, sessionVars, runVars, At, InSession
  <2>2. PICK label \in {"assigned", "unwind"} : Goto(p, label) /\ SessionRowsStay
    BY <1>10, OtherStay, NotSessions DEF Assign
  <2> QED BY <1>3, <2>1, <2>2
<1> QED BY <1>4, <1>5, <1>6, <1>7, <1>8, <1>9, <1>10

\* One confirmed shutdown is some confirmed shutdown.
LEMMA OneShutdown ==
    ASSUME Cardinality(Shutdowns) = 1
    PROVE  AnyShutdown
<1>1. SUFFICES ASSUME ~AnyShutdown PROVE FALSE
  OBVIOUS
<1>2. Shutdowns = {}
  BY <1>1 DEF Shutdowns, AnyShutdown, Confirmed
<1>3. Cardinality(Shutdowns) = 0
  BY <1>2, FS_EmptySet
<1> QED BY <1>3

LEMMA OwnEndSteps ==
    ASSUME CallInv, OwnInv, NEW p \in Process,
           \/ ChildReturned(p) \/ ChildRaised(p) \/ PublishChild(p) \/ CloseAndFinish(p)
           \/ CloseFailed(p) \/ CloseDone(p) \/ Finish(p)
    PROVE  OwnInv'
<1>1. ASSUME NEW label \in {"idle", "close", "publish child", "finish", "close and finish", "recover", "unwind"},
             Goto(p, label), SessionRowsStay, UNCHANGED <<session, started, me>>,
             job'.state = "completed" => job.state = "completed" \/ AnyShutdown
      PROVE  OwnInv'
  BY <1>1, OwnParentGoes DEF Demanding, InSession, InPhase
<1>2. CASE ChildReturned(p) \/ ChildRaised(p) \/ CloseAndFinish(p) \/ CloseFailed(p) \/ CloseDone(p)
  <2>1. UNCHANGED <<rows, session, started, me, job>>
    BY <1>2 DEF ChildReturned, ChildRaised, CloseAndFinish, CloseFailed, CloseDone, sessionVars, runVars, parentVars
  <2>2. PICK label \in {"idle", "close", "publish child", "finish", "recover"} : Goto(p, label)
    BY <1>2 DEF CloseDone, ChildReturned, ChildRaised, CloseAndFinish, CloseFailed, Return
  <2> QED BY <1>1, <2>1, <2>2, RowsStay
<1>3. CASE PublishChild(p)
  <2>1. UNCHANGED <<session, started, me, job>>
    BY <1>3 DEF PublishChild, sessionVars, runVars, parentVars
  <2>2. PICK ok \in {"finish", "close and finish"}, bad \in {"idle", "unwind"} :
           Observe(p, Child, 2, {parent[p].intent, Receipt("outcome", parent[p].child)}, ok, bad)
    BY <1>3 DEF PublishChild
  <2>3. SessionRowsStay /\ (Goto(p, ok) \/ Goto(p, bad))
    BY <2>2, OtherStay, NotSessions
  <2> QED BY <1>1, <2>1, <2>2, <2>3
<1>4. CASE Finish(p)
  BY <1>4, <1>1, OneShutdown, RowsStay DEF Finish, Call, Return, sessionVars, runVars
<1> QED BY <1>2, <1>3, <1>4

LEMMA OwnRecoverSteps ==
    ASSUME CallInv, OwnInv, NEW p \in Process,
           Recover(p) \/ RecoverDurable(p) \/ RecoverChild(p) \/ RetryChild(p) \/ NothingToRecover(p)
    PROVE  OwnInv'
<1>1. ASSUME NEW label \in {"idle", "close", "recover", "publish child"}, Goto(p, label), SessionRowsStay,
             UNCHANGED <<session, started, me, job>>
      PROVE  OwnInv'
  BY <1>1, OwnParentGoes DEF Demanding, InSession, InPhase
<1>2. CASE Recover(p) \/ RecoverDurable(p) \/ RecoverChild(p) \/ NothingToRecover(p)
  <2>1. UNCHANGED <<rows, session, started, me, job>>
    BY <1>2 DEF Recover, RecoverDurable, RecoverChild, NothingToRecover, sessionVars, runVars, parentVars
  <2>2. PICK label \in {"idle", "close", "recover", "publish child"} : Goto(p, label)
    BY <1>2 DEF Recover, RecoverDurable, RecoverChild, NothingToRecover, Return
  <2> QED BY <1>1, <2>1, <2>2, RowsStay
<1>3. CASE RetryChild(p)
  <2>1. UNCHANGED <<session, started, job>>
    BY <1>3 DEF RetryChild, sessionVars, parentVars
  <2>2. ASSUME NEW label \in {"submit", "freeze", "publish", "grade", "run returned", "run raised", "finish run"},
               Goto(p, label), UNCHANGED rows, \A q \in Process \ {p} : me'[q] = me[q]
        PROVE  OwnInv'
    BY <2>1, <2>2, RowsStay, OwnLeaves DEF Demanding, InSession, InPhase
  <2>3. ASSUME NEW pending, RetryPublication(p, pending) PROVE OwnInv'
    <3>1. PICK again : again = [me[p] EXCEPT !.entry = "retry", !.stamp = retries']
      OBVIOUS
    <3>2. UNCHANGED rows
      BY <2>3 DEF RetryPublication
    <3>3. PICK label \in {"submit", "freeze", "publish", "grade", "run returned", "run raised"} :
             Goto(p, label) /\ (UNCHANGED me \/ \E record : me' = [me EXCEPT ![p] = record])
      BY <2>3 DEF RetryPublication, Call
    <3>4. \A q \in Process \ {p} : me'[q] = me[q]
      BY <3>3 DEF CallInv, EpisodeInv, Tables
    <3> QED BY <2>2, <3>2, <3>3, <3>4
  <2>4. CASE RecoverRun(p)
    <3>1. PICK label \in {"run returned", "run raised", "finish run"} : Goto(p, label)
      BY <2>4 DEF RecoverRun
    <3>2. UNCHANGED rows
      BY <2>4 DEF RecoverRun
    <3>3. UNCHANGED me \/ \E receipt : me' = [me EXCEPT ![p].payload = receipt[2], ![p].entry = "recover"]
      BY <2>4 DEF RecoverRun
    <3>4. \A q \in Process \ {p} : me'[q] = me[q]
      BY <3>3 DEF CallInv, EpisodeInv, Tables
    <3> QED BY <2>2, <3>1, <3>2, <3>4
  <2> QED BY <1>3, <2>3, <2>4 DEF RetryChild
<1> QED BY <1>2, <1>3

LEMMA OwnInit == Init => OwnInv
<1> SUFFICES ASSUME Init PROVE OwnInv
  OBVIOUS
<1>1. \A name \in SessionRows : rows[name] = <<>> /\ name \in DOMAIN rows
  BY DEF Init, Rows
<1>2. Short(<<>>) /\ ~Confirmed(<<>>)
  BY DEF Short, IsRow, Confirmed
<1>3. OwnTables
  BY <1>1, <1>2 DEF OwnTables, Init, SessionInit
<1>4. ~AnyShutdown
  BY <1>1, <1>2 DEF AnyShutdown, SessionRows
<1>5. \A p \in Process : session[p] = "none" /\ pc[p] = "idle"
  BY DEF Init, SessionInit
<1>6. Sole
  BY <1>4, <1>5 DEF Sole, Had, Init, SessionInit
<1>7. \A p \in Process : Along(pc[p], session[p], me[p].phase)
  BY <1>5 DEF Along, Stages, InSession, InPhase
<1>8. job.state = "absent"
  BY DEF Init
<1> QED BY <1>3, <1>5, <1>6, <1>7, <1>8 DEF OwnInv

LEMMA OwnNext == CallInv /\ OwnInv /\ BindTables /\ [Next]_vars => OwnInv'
<1> SUFFICES ASSUME CallInv, OwnInv, BindTables, [Next]_vars PROVE OwnInv'
  OBVIOUS
<1>1. CASE UNCHANGED vars
  BY <1>1 DEF vars, ledgerVars, sessionVars, runVars, parentVars, OwnInv, OwnTables, Sole, Holds, Had,
              AnyShutdown, Confirmed, OnRecord, Along, Startup, Shutdown, Abort, Receipt
<1>2. ASSUME NEW p \in Process, SessionStep(p), UNCHANGED <<runVars, parentVars>> PROVE OwnInv'
  BY <1>2, OwnStartupSteps, OwnConstructStep, OwnCloseSteps DEF SessionStep
<1>3. ASSUME NEW p \in Process, RunStep(p), UNCHANGED <<sessionVars, parentVars>> PROVE OwnInv'
  BY <1>3, OwnEnterSteps, OwnTurnStep, OwnPhaseSteps, OwnAfterSteps, OwnGradeSteps, OwnSaveSteps DEF RunStep
<1>4. ASSUME NEW p \in Process, ParentStep(p) PROVE OwnInv'
  BY <1>4, OwnRunSteps, OwnEndSteps, OwnRecoverSteps, OwnCrashStep DEF ParentStep
<1> QED BY <1>1, <1>2, <1>3, <1>4 DEF Next

-----------------------------------------------------------------------------
(* What every step does to results and confirmations.                      *)

\* The others are where they were.
Aside(p) ==
    \A q \in Process \ {p} : pc'[q] = pc[q] /\ me'[q] = me[q] /\ parent'[q] = parent[q]

LEMMA BindFrame ==
    ASSUME BindInv, BindTables', NEW p \in Process, Aside(p),
           run.state = "completed" => run' = run,
           rows[Frozen] # <<>> => rows'[Frozen] = rows[Frozen],
           rows'[Frozen] = <<>> \/ \E x : rows'[Frozen] = <<{Receipt("frozen", x)}>>,
           run'.state = "completed" => rows'[Frozen] = <<{Receipt("frozen", run'.result)}>>,
           Confirmed(rows[Child]) => rows'[Child] = rows[Child],
           Confirmed(rows'[Child]) => \A r \in rows'[Child][2] : r[1] = "outcome" => Result(r[2])',
           Keeping(pc[p], parent[p], me[p].payload)',
           job'.state = "completed" => (Result(job.result) /\ OutcomeNoted(job.result))'
    PROVE  BindInv'
<1>1. ASSUME NEW q \in Process \ {p} PROVE Keeping(pc[q], parent[q], me[q].payload)'
  <2>1. pc'[q] = pc[q] /\ me'[q] = me[q] /\ parent'[q] = parent[q]
    BY DEF Aside
  <2>2. Keeping(pc[q], parent[q], me[q].payload)
    BY DEF BindInv
  <2>3. \A x : Result(x) => Result(x)'
    BY DEF Result
  <2>4. \A x : OutcomeNoted(x) => OutcomeNoted(x)'
    BY DEF OutcomeNoted, Confirmed, Child, Receipt
  <2>5. \A x : rows[Frozen] = <<{Receipt("frozen", x)}>> => rows'[Frozen] = <<{Receipt("frozen", x)}>>
    OBVIOUS
  <2>6. run.state = "completed" => run'.state = "completed"
    OBVIOUS
  <2> QED BY <2>1, <2>2, <2>3, <2>4, <2>5, <2>6 DEF Keeping, Frozen, Receipt
<1>2. \A q \in Process : Keeping(pc[q], parent[q], me[q].payload)'
  BY <1>1
<1>3. (run.state = "completed" => rows[Frozen] = <<{Receipt("frozen", run.result)}>>)'
  BY DEF Frozen, Receipt
<1> QED BY <1>2, <1>3 DEF BindInv, Frozen, Child, Receipt

\* The rows of the child and of the frozen run stay.
ChildStays ==
    {Child, Frozen} \subseteq DOMAIN rows' /\ rows'[Child] = rows[Child] /\ rows'[Frozen] = rows[Frozen]

LEMMA SameNotes ==
    ASSUME BindInv, UNCHANGED run, ChildStays
    PROVE  /\ \A x : (Result(x) <=> Result(x)') /\ (OutcomeNoted(x) <=> OutcomeNoted(x)')
           /\ \A place, k, x : Keeping(place, k, x) => Keeping(place, k, x)'
<1>1. \A x : (Result(x) <=> Result(x)') /\ (OutcomeNoted(x) <=> OutcomeNoted(x)')
  BY DEF Result, OutcomeNoted, Confirmed, ChildStays, Child, Receipt
<1>2. ASSUME NEW place, NEW k, NEW x, Keeping(place, k, x) PROVE Keeping(place, k, x)'
  BY <1>1, <1>2 DEF Keeping, ChildStays, Frozen, Receipt
<1> QED BY <1>1, <1>2

\* Results and rows as they are; p goes on.
LEMMA BindGoes ==
    ASSUME CallInv, BindInv, NEW p \in Process, NEW label, Goto(p, label), UNCHANGED run, ChildStays,
           \A q \in Process \ {p} : me'[q] = me[q] /\ parent'[q] = parent[q],
           DOMAIN parent' = Process, DOMAIN parent'[p] = DOMAIN Unknown, DOMAIN job' = DOMAIN job,
           Keeping(label, parent'[p], me'[p].payload),
           job'.state = "completed" => Result(job'.result) /\ OutcomeNoted(job'.result)
    PROVE  BindInv'
<1>1. pc'[p] = label /\ \A q \in Process \ {p} : pc'[q] = pc[q]
  BY DEF Goto, CallInv, EpisodeInv, Tables
<1>2. Aside(p)
  BY <1>1 DEF Aside
<1>3. BindTables'
  BY DEF BindInv, BindTables, ChildStays, RunShape, Child, Frozen, Short, IsRow
<1>4. \A x : (Result(x) <=> Result(x)') /\ (OutcomeNoted(x) <=> OutcomeNoted(x)')
  BY SameNotes
<1>5. PICK place, k, x : place = label /\ k = parent'[p] /\ x = me'[p].payload
  OBVIOUS
<1>6. Keeping(pc[p], parent[p], me[p].payload)'
  <2>1. Keeping(place, k, x)
    BY <1>5
  <2>2. Keeping(place, k, x)'
    BY <2>1, SameNotes
  <2> QED BY <1>1, <1>5, <2>2 DEF Keeping
<1>7. rows'[Frozen] = <<>> \/ \E y : rows'[Frozen] = <<{Receipt("frozen", y)}>>
  BY DEF BindInv, ChildStays
<1>8. run'.state = "completed" => rows'[Frozen] = <<{Receipt("frozen", run'.result)}>>
  BY DEF BindInv, ChildStays
<1>9. Confirmed(rows'[Child]) => \A r \in rows'[Child][2] : r[1] = "outcome" => Result(r[2])'
  BY <1>4 DEF BindInv, ChildStays
<1>10. job'.state = "completed" => (Result(job.result) /\ OutcomeNoted(job.result))'
  BY <1>4
<1> QED BY <1>2, <1>3, <1>6, <1>7, <1>8, <1>9, <1>10, BindFrame DEF ChildStays

LEMMA Apart ==
    /\ Phase \cap {Child, Frozen} = {} /\ SessionRows \cap {Child, Frozen} = {}
    /\ {Controller, Request, Activation} \cap {Child, Frozen} = {} /\ Child # Frozen
  BY NotPhases DEF SessionRows, Controller, Frozen, Request, Activation, Child, Startup, Shutdown, Abort

\* A revision of another row.
LEMMA ElseStays ==
    ASSUME BindInv, NEW p, NEW name, name \notin {Child, Frozen}, NEW n, NEW receipts, NEW ok, NEW bad,
           Observe(p, name, n, receipts, ok, bad)
    PROVE  ChildStays /\ (Goto(p, ok) \/ Goto(p, bad))
  BY ObserveOthers DEF BindInv, BindTables, ChildStays

LEMMA RowsChildStays ==
    ASSUME BindInv, UNCHANGED rows
    PROVE  ChildStays
  BY DEF BindInv, BindTables, ChildStays, Child, Frozen

LEMMA Kept1 ==
    ASSUME BindInv, NEW p \in Process
    PROVE  /\ Keeping(pc[p], parent[p], me[p].payload)
           /\ DOMAIN parent = Process /\ DOMAIN parent[p] = DOMAIN Unknown
           /\ job.state = "completed" => Result(job.result) /\ OutcomeNoted(job.result)
  BY DEF BindInv, BindTables

\* To a place that promises nothing of the child.
LEMMA Away ==
    ASSUME NEW place, NEW k, NEW x, NEW y, Keeping(place, k, x),
           NEW label, label \notin InChild \cup {"close and finish", "finish"}
    PROVE  Keeping(label, k, y)
  BY DEF Keeping, InChild

\* From place to place of the child.
LEMMA Inside ==
    ASSUME NEW place \in InChild, NEW k, NEW x, NEW y, Keeping(place, k, x),
           NEW label \in InChild \ {"publish child"},
           label = "run returned" => run.state = "completed",
           label = "finish run" => rows[Frozen] = <<{Receipt("frozen", y)}>>
    PROVE  Keeping(label, k, y)
  BY DEF Keeping, InChild

LEMMA BindAway ==
    ASSUME CallInv, BindInv, NEW p \in Process, NEW label, label \notin InChild \cup {"close and finish", "finish"},
           Goto(p, label), ChildStays, UNCHANGED <<run, me, parent, job>>
    PROVE  BindInv'
<1>1. Keeping(label, parent'[p], me'[p].payload)
  <2>1. Keeping(pc[p], parent[p], me[p].payload)
    BY Kept1
  <2>2. Keeping(label, parent[p], me[p].payload)
    BY <2>1, Away
  <2> QED BY <2>2
<1> QED BY <1>1, Kept1, BindGoes

LEMMA BindInside ==
    ASSUME CallInv, BindInv, NEW p \in Process, pc[p] \in InChild,
           NEW label \in InChild \ {"publish child"}, Goto(p, label), ChildStays, UNCHANGED <<run, parentVars>>,
           \A q \in Process \ {p} : me'[q] = me[q],
           label = "run returned" => run.state = "completed",
           label = "finish run" => rows[Frozen] = <<{Receipt("frozen", me'[p].payload)}>>
    PROVE  BindInv'
<1>1. parent' = parent /\ job' = job
  BY DEF parentVars
<1>2. Keeping(label, parent[p], me'[p].payload)
  <2>1. PICK place, k, x, y : place = pc[p] /\ k = parent[p] /\ x = me[p].payload /\ y = me'[p].payload
    OBVIOUS
  <2>2. Keeping(place, k, x)
    BY <2>1, Kept1
  <2>3. Keeping(label, k, y)
    <3>1. label = "finish run" => rows[Frozen] = <<{Receipt("frozen", y)}>>
      BY <2>1
    <3>2. place \in InChild
      BY <2>1
    <3> QED BY <2>2, <3>1, <3>2, Inside
  <2> QED BY <2>1, <2>3
<1> QED BY <1>1, <1>2, Kept1, BindGoes

LEMMA BindSessionSteps ==
    ASSUME CallInv, BindInv, NEW p \in Process, SessionStep(p), UNCHANGED <<runVars, parentVars>>
    PROVE  BindInv'
<1>1. UNCHANGED <<run, me, parent, job>>
  BY DEF runVars, parentVars
<1>2. ASSUME NEW label \in {"announce startup", "startup failed", "construct", "publish startup", "startup done",
                            "close failed", "close done", "close session", "announce shutdown", "close unannounced",
                            "publish shutdown"}, Goto(p, label), ChildStays
      PROVE  BindInv'
  BY <1>1, <1>2, BindAway DEF InChild
<1>3. CASE CheckKey(p)
  <2>1. PICK label \in {"announce startup", "startup failed"} : Goto(p, label)
    BY <1>3 DEF CheckKey
  <2> QED BY <1>2, <1>3, <2>1, RowsChildStays DEF CheckKey
<1>4. CASE AnnounceStartup(p)
  BY <1>4, <1>2, ElseStays, Apart, ShutdownRows DEF AnnounceStartup
<1>5. CASE Construct(p)
  BY <1>5, <1>2, RowsChildStays DEF Construct
<1>6. CASE PublishStartup(p)
  BY <1>6, <1>2, ElseStays, Apart, ShutdownRows DEF PublishStartup
<1>7. CASE Close(p)
  <2>1. PICK label \in {"close failed", "close done", "close session", "announce shutdown"} : Goto(p, label)
    BY <1>7 DEF Close
  <2> QED BY <1>2, <1>7, <2>1, RowsChildStays DEF Close
<1>8. Key(p) \notin {Child, Frozen}
  BY Apart, ShutdownRows DEF Key
<1>9. CASE AnnounceShutdown(p)
  BY <1>8, <1>9, <1>2, ElseStays DEF AnnounceShutdown
<1>10. CASE CloseSession(p)
  <2>1. PICK label \in {"close failed", "publish shutdown"} : Goto(p, label)
    BY <1>10 DEF CloseSession
  <2> QED BY <1>2, <1>10, <2>1, RowsChildStays DEF CloseSession
<1>11. CASE PublishShutdown(p)
  BY <1>8, <1>11, <1>2, ElseStays DEF PublishShutdown
<1> QED BY <1>3, <1>4, <1>5, <1>6, <1>7, <1>9, <1>10, <1>11 DEF SessionStep

\* A step of the run changes its process's record only.
LEMMA OthersMe ==
    ASSUME CallInv, NEW p \in Process, RunStep(p)
    PROVE  \A q \in Process \ {p} : me'[q] = me[q]
<1>1. UNCHANGED me \/ \E record : me' = [me EXCEPT ![p] = record]
  <2>1. CASE \/ EnterRun(p) \/ ClaimRun(p) \/ AnnounceRun(p) \/ Turn(p) \/ Announce(p) \/ DispatchEpisode(p)
             \/ Record(p) \/ AfterGeneration(p) \/ AfterAction(p) \/ CloseWorkspace(p) \/ Submit(p)
    BY <2>1 DEF EnterRun, ClaimRun, AnnounceRun, Turn, Announce, DispatchEpisode, Record, AfterGeneration,
                AfterAction, CloseWorkspace, Submit, Mine, runVars
  <2>2. CASE DispatchGrade(p)
    BY <2>2 DEF DispatchGrade
  <2>3. CASE StartGrade(p) \/ RecordRecovered(p) \/ AfterGrade(p) \/ Undecided(p)
    BY <2>3 DEF StartGrade, RecordRecovered, AfterGrade, Undecided, Mine, runVars
  <2>4. CASE Freeze(p) \/ Gather(p) \/ Publish(p) \/ FinishRun(p) \/ Raise(p)
    BY <2>4 DEF Freeze, Gather, Publish, FinishRun, Raise, Mine, runVars
  <2> QED BY <2>1, <2>2, <2>3, <2>4 DEF RunStep
<1> QED BY <1>1 DEF CallInv, EpisodeInv, Tables

\* Every step of the episode before its result is frozen, and a publication kept.
LEMMA BindEpisodeSteps ==
    ASSUME CallInv, BindInv, NEW p \in Process, UNCHANGED <<sessionVars, parentVars>>,
           \/ AnnounceRun(p) \/ Turn(p) \/ Announce(p) \/ DispatchEpisode(p) \/ DispatchGrade(p) \/ Record(p)
           \/ AfterGeneration(p) \/ AfterAction(p) \/ CloseWorkspace(p) \/ Submit(p)
           \/ StartGrade(p) \/ RecordRecovered(p) \/ AfterGrade(p)
           \/ Undecided(p) \/ Freeze(p) \/ Gather(p) \/ Raise(p)
    PROVE  BindInv'
<1>1. \A q \in Process \ {p} : me'[q] = me[q]
  BY OthersMe DEF RunStep
<1>2. ASSUME NEW label \in InChild \ {"publish child", "run returned", "finish run"}, Goto(p, label), ChildStays,
             UNCHANGED run, pc[p] \in InChild
      PROVE  BindInv'
  BY <1>1, <1>2, BindInside
<1>3. CASE AnnounceRun(p)
  BY <1>3, <1>2, ElseStays, Apart DEF AnnounceRun, At, runVars, InChild
<1>4. CASE Turn(p)
  <2>1. PICK label \in {"invalid", "infrastructure", "close workspace", "announce"} : Goto(p, label)
    BY <1>4 DEF Turn
  <2> QED BY <1>2, <1>4, <2>1, RowsChildStays DEF Turn, At, InChild
<1>5. CASE Announce(p)
  <2>1. pc[p] = "announce" /\ run' = run
    BY <1>5 DEF Announce, At, runVars
  <2>2. me[p].phase \in Phase
    BY <2>1 DEF CallInv, EpisodeInv, Placed
  <2>3. PICK bad \in {"infrastructure", "run raised"} :
           Observe(p, me[p].phase, 1, {Receipt("intent", me[p].stamp)}, "dispatched", bad)
    BY <1>5 DEF Announce
  <2>4. ChildStays /\ (Goto(p, "dispatched") \/ Goto(p, bad))
    BY <2>2, <2>3, ElseStays, Apart
  <2> QED BY <1>2, <2>1, <2>4 DEF InChild
<1>6. CASE DispatchEpisode(p) \/ DispatchGrade(p)
  <2>1. PICK label \in {"record", "infrastructure", "grade pending"} : Goto(p, label)
    BY <1>6 DEF DispatchEpisode, DispatchGrade
  <2> QED BY <1>2, <1>6, <2>1, RowsChildStays DEF DispatchEpisode, DispatchGrade, At, InChild
<1>7. CASE Record(p) \/ RecordRecovered(p)
  <2>1. pc[p] \in {"record", "record recovered"} /\ run' = run
    BY <1>7 DEF Record, RecordRecovered, At, runVars
  <2>2. me[p].phase \in Phase
    BY <2>1 DEF CallInv, EpisodeInv, Placed
  <2>3. ChildStays /\ \E label \in {"recorded", "unconfirmed", "run raised"} : Goto(p, label)
    BY <1>7, <2>2, ElseStays, Apart DEF Record, RecordRecovered
  <2> QED BY <1>2, <2>1, <2>3 DEF InChild
<1>8. CASE AfterGeneration(p) \/ AfterAction(p)
  <2>1. PICK label \in {"invalid", "infrastructure", "close workspace", "announce", "turn"} : Goto(p, label)
    BY <1>8 DEF AfterGeneration, AfterAction
  <2> QED BY <1>2, <1>8, <2>1, RowsChildStays DEF AfterGeneration, AfterAction, At, InChild
<1>9. CASE CloseWorkspace(p) \/ Submit(p)
  <2>1. PICK label \in {"submit", "infrastructure", "invalid", "run raised", "grade", "submission pending"} : Goto(p, label)
    BY <1>9 DEF CloseWorkspace, Submit, Refused, Call
  <2> QED BY <1>2, <1>9, <2>1, RowsChildStays DEF CloseWorkspace, Submit, At, InChild, runVars
<1>10. CASE StartGrade(p) \/ AfterGrade(p)
  <2>1. PICK label \in {"invalid", "infrastructure", "run raised", "announce", "record recovered", "grade", "freeze"} :
           Goto(p, label)
    BY <1>10 DEF StartGrade, AfterGrade, Refused, Failed
  <2> QED BY <1>2, <1>10, <2>1, RowsChildStays DEF StartGrade, AfterGrade, At, InChild
<1>11. CASE Undecided(p) \/ Gather(p) \/ Raise(p)
  <2>1. PICK label \in {"freeze", "publish", "run raised"} : Goto(p, label)
    BY <1>11 DEF Undecided, Gather, Raise
  <2> QED BY <1>2, <1>11, <2>1, RowsChildStays DEF Undecided, Gather, Raise, Pendings, At, InChild
<1>12. CASE Freeze(p)
  BY <1>12, <1>2, ElseStays, Apart DEF Freeze, At, runVars, InChild
<1> QED BY <1>3, <1>4, <1>5, <1>6, <1>7, <1>8, <1>9, <1>10, <1>11, <1>12

\* A run that was completed stays so, and what is frozen stays frozen.
LEMMA BindRunChanges ==
    ASSUME CallInv, BindInv, NEW p \in Process, NEW label, Goto(p, label), UNCHANGED <<rows, parent, job>>,
           \A q \in Process \ {p} : me'[q] = me[q], RunShape',
           run.state = "completed" => run' = run,
           run'.state = "completed" => rows[Frozen] = <<{Receipt("frozen", run'.result)}>>,
           pc[p] \in InChild, label \in InChild \ {"publish child", "finish run"},
           label = "run returned" => run'.state = "completed"
    PROVE  BindInv'
<1>1. Aside(p) /\ pc'[p] = label
  BY DEF Aside, Goto, CallInv, EpisodeInv, Tables
<1>2. BindTables'
  BY DEF BindInv, BindTables, Child, Frozen, Short, IsRow, RunShape
<1>3. \A x : Result(x) => Result(x)'
  BY DEF Result
<1>4. \A x : OutcomeNoted(x) <=> OutcomeNoted(x)'
  BY DEF OutcomeNoted, Confirmed, Child, Receipt
<1>5. Keeping(pc[p], parent[p], me[p].payload)'
  BY <1>1, <1>3, <1>4, Kept1 DEF Keeping, InChild
<1>6. Confirmed(rows'[Child]) => \A r \in rows'[Child][2] : r[1] = "outcome" => Result(r[2])'
  BY <1>3 DEF BindInv
<1>7. job'.state = "completed" => (Result(job.result) /\ OutcomeNoted(job.result))'
  BY <1>3, <1>4 DEF BindInv
<1>8. rows'[Frozen] = <<>> \/ \E x : rows'[Frozen] = <<{Receipt("frozen", x)}>>
  BY DEF BindInv
<1> QED BY <1>1, <1>2, <1>5, <1>6, <1>7, <1>8, BindFrame

LEMMA BindEnterSteps ==
    ASSUME CallInv, BindInv, NEW p \in Process, UNCHANGED <<sessionVars, parentVars>>,
           EnterRun(p) \/ ClaimRun(p) \/ FinishRun(p)
    PROVE  BindInv'
<1>1. /\ \A q \in Process \ {p} : me'[q] = me[q]
      /\ UNCHANGED <<rows, parent, job>>
  BY OthersMe DEF RunStep, parentVars, EnterRun, ClaimRun, FinishRun
<1>2. RunShape
  BY DEF BindInv, BindTables
<1>3. run.state = "completed" => rows[Frozen] = <<{Receipt("frozen", run.result)}>>
  BY DEF BindInv
<1>4. CASE EnterRun(p)
  <2>1. PICK label \in {"run returned", "elsewhere", "claim run", "run raised"} :
           /\ Goto(p, label) /\ (label = "run returned" => run.state = "completed")
           /\ run' = run \/ (run.state # "completed" /\ run' = [run EXCEPT !.state = "queued"])
    BY <1>4 DEF EnterRun, Call
  <2>2. RunShape' /\ (run'.state = "completed" => run' = run) /\ (run.state = "completed" => run' = run)
    BY <1>2, <2>1 DEF RunShape
  <2>3. pc[p] \in InChild /\ label \in InChild \ {"publish child", "finish run"}
    BY <1>4 DEF EnterRun, At, InChild
  <2> QED BY <1>1, <1>3, <2>1, <2>2, <2>3, BindRunChanges
<1>5. CASE ClaimRun(p)
  <2>1. PICK label \in {"controller", "run raised"} :
           Goto(p, label) /\ (run' = run \/ (run.state = "queued" /\ run' = [run EXCEPT !.state = "running"]))
    BY <1>5 DEF ClaimRun, Call
  <2>2. RunShape' /\ (run'.state = "completed" => run' = run) /\ (run.state = "completed" => run' = run)
    BY <1>2, <2>1 DEF RunShape
  <2>3. pc[p] \in InChild /\ label \in InChild \ {"publish child", "finish run", "run returned"}
    BY <1>5 DEF ClaimRun, At, InChild
  <2> QED BY <1>1, <1>3, <2>1, <2>2, <2>3, BindRunChanges
<1>6. CASE FinishRun(p)
  <2>1. pc[p] = "finish run" /\ rows[Frozen] = <<{Receipt("frozen", me[p].payload)}>>
    BY <1>6, Kept1 DEF FinishRun, At, Keeping
  <2>2. PICK completed : completed = [state |-> "completed", result |-> me[p].payload]
    OBVIOUS
  <2>3. PICK label \in {"run returned", "run raised", "publication pending"} :
           /\ Goto(p, label) /\ (label = "run returned" => run.state = "completed" \/ run' = completed)
           /\ run' = run \/ (run.state # "completed" /\ run' = completed)
    <3>1. CASE run.state = "completed"
      BY <1>6, <3>1 DEF FinishRun
    <3>2. CASE run.state # "completed"
      <4>1. PICK bad \in {"run raised", "publication pending"} : Call(p, run' = completed, UNCHANGED run, "run returned", bad)
        BY <1>6, <2>2, <3>2 DEF FinishRun
      <4> QED BY <3>2, <4>1 DEF Call
    <3> QED BY <3>1, <3>2
  <2>4. completed.state = "completed" /\ completed.result = me[p].payload /\ DOMAIN completed = {"state", "result"}
    BY <2>2
  <2>5. /\ RunShape' /\ (run.state = "completed" => run' = run)
        /\ label = "run returned" => run'.state = "completed"
        /\ run'.state = "completed" => rows[Frozen] = <<{Receipt("frozen", run'.result)}>>
    BY <1>2, <1>3, <2>1, <2>3, <2>4 DEF RunShape
  <2>6. pc[p] \in InChild /\ label \in InChild \ {"publish child", "finish run"}
    BY <2>1, <2>3 DEF InChild
  <2> QED BY <1>1, <2>3, <2>5, <2>6, BindRunChanges
<1> QED BY <1>4, <1>5, <1>6

\* The result is frozen once, and the run completed with what is frozen.
LEMMA BindPublishStep ==
    ASSUME CallInv, BindInv, NEW p \in Process, UNCHANGED <<sessionVars, parentVars>>, Publish(p)
    PROVE  BindInv'
<1>1. UNCHANGED <<run, me, parent, job>> /\ pc[p] = "publish"
  BY DEF Publish, runVars, parentVars, At
<1>2. PICK r : r = {Receipt("frozen", me[p].payload)}
  OBVIOUS
<1>3. Observe(p, Frozen, 1, r, "finish run", "publication pending")
  BY <1>2 DEF Publish
<1>4. rows[Frozen] = <<>> \/ \E x : rows[Frozen] = <<{Receipt("frozen", x)}>>
  BY DEF BindInv
<1>5. CASE rows' = rows /\ (Goto(p, "publication pending") \/ (Goto(p, "finish run") /\ rows[Frozen] = <<r>>))
  BY <1>1, <1>2, <1>5, RowsChildStays, BindInside DEF InChild
<1>6. CASE /\ rows[Frozen] = <<>> /\ rows' = [rows EXCEPT ![Frozen] = Append(@, r)]
           /\ Goto(p, "publication pending") \/ Goto(p, "finish run")
  <2>1. DOMAIN rows' = DOMAIN rows /\ rows'[Child] = rows[Child] /\ rows'[Frozen] = <<r>>
    <3>1. Frozen \in DOMAIN rows /\ Child # Frozen
      BY Apart DEF BindInv, BindTables
    <3>2. Append(<<>>, r) = <<r>>
      OBVIOUS
    <3>3. PICK s : s = Append(rows[Frozen], r)
      OBVIOUS
    <3>4. rows' = [rows EXCEPT ![Frozen] = s]
      BY <1>6, <3>3
    <3>5. s = <<r>>
      BY <1>6, <3>2, <3>3
    <3> QED BY <3>1, <3>4, <3>5
  <2>2. run.state # "completed"
    <3>1. \A x : <<x>> # <<>>
      OBVIOUS
    <3>2. run.state = "completed" => rows[Frozen] = <<{Receipt("frozen", run.result)}>>
      BY DEF BindInv
    <3> QED BY <1>6, <3>1, <3>2
  <2>3. Aside(p) /\ pc'[p] \in {"publication pending", "finish run"}
    BY <1>1, <1>6 DEF Aside, Goto, CallInv, EpisodeInv, Tables
  <2>4. BindTables'
    BY <1>1, <2>1 DEF BindInv, BindTables, Child, Frozen, Short, IsRow, RunShape
  <2>5. \A x : (Result(x) <=> Result(x)') /\ (OutcomeNoted(x) <=> OutcomeNoted(x)')
    BY <1>1, <2>1 DEF Result, OutcomeNoted, Confirmed, Child, Receipt
  <2>6. Keeping(pc[p], parent[p], me[p].payload)'
    BY <1>1, <1>2, <2>1, <2>3, <2>5, Kept1 DEF Keeping, InChild, Frozen, Receipt
  <2>7. Confirmed(rows'[Child]) => \A o \in rows'[Child][2] : o[1] = "outcome" => Result(o[2])'
    BY <2>1, <2>5 DEF BindInv
  <2>8. job'.state = "completed" => (Result(job.result) /\ OutcomeNoted(job.result))'
    BY <1>1, <2>5 DEF BindInv
  <2> QED BY <1>1, <1>2, <1>6, <2>1, <2>2, <2>3, <2>4, <2>6, <2>7, <2>8, BindFrame
<1>7. \/ rows' = rows /\ (Goto(p, "publication pending") \/ (Goto(p, "finish run") /\ rows[Frozen] = <<r>>))
      \/ /\ rows[Frozen] = <<>> /\ rows' = [rows EXCEPT ![Frozen] = Append(@, r)]
         /\ Goto(p, "publication pending") \/ Goto(p, "finish run")
  <2>1. CASE Recorded(rows[Frozen], 1, r)
    <3>1. 1 <= Len(rows[Frozen]) /\ rows[Frozen][1] = r
      BY <2>1 DEF Recorded
    <3>2. rows[Frozen] = <<r>>
      BY <1>4, <3>1
    <3> QED BY <1>3, <2>1, <3>2 DEF Observe, Call
  <2>2. CASE ~Recorded(rows[Frozen], 1, r) /\ Extends(rows[Frozen], 1, r)
    <3>1. rows[Frozen] = <<>>
      BY <1>4, <2>2 DEF Extends
    <3> QED BY <1>3, <2>2, <3>1 DEF Observe, Call
  <2>3. CASE ~Recorded(rows[Frozen], 1, r) /\ ~Extends(rows[Frozen], 1, r)
    BY <1>3, <2>3 DEF Observe
  <2> QED BY <2>1, <2>2, <2>3
<1> QED BY <1>5, <1>6, <1>7

-----------------------------------------------------------------------------
(* The outer job and the child's answer.                                   *)

\* p's service remembers one thing more.
LEMMA Remembered ==
    ASSUME BindInv, NEW p \in Process, NEW field \in DOMAIN Unknown, NEW value, Remember(p, field, value)
    PROVE  /\ parent'[p] = [parent[p] EXCEPT ![field] = value]
           /\ DOMAIN parent' = Process /\ DOMAIN parent'[p] = DOMAIN Unknown
           /\ parent'[p][field] = value /\ \A o \in DOMAIN Unknown \ {field} : parent'[p][o] = parent[p][o]
           /\ \A q \in Process \ {p} : parent'[q] = parent[q]
  BY Kept1 DEF Remember

LEMMA UnknownFields == DOMAIN Unknown = {"known", "intent", "child", "pending", "then"}
  BY DEF Unknown

\* p goes on, with what it remembers of the child as it was.
LEMMA BindParentGoes ==
    ASSUME CallInv, BindInv, NEW p \in Process, NEW label, Goto(p, label), UNCHANGED <<run, me>>, ChildStays,
           \/ UNCHANGED parent
           \/ \E field \in {"known", "then"} : \E value :
                 Remember(p, field, value) /\ (field = "then" => value # "finish"),
           label \in InChild => pc[p] \in InChild /\ label \notin {"publish child", "run returned", "finish run"},
           label \in {"close and finish", "finish"} => parent'[p].then = "finish",
           DOMAIN job' = DOMAIN job,
           job'.state = "completed" => Result(job'.result) /\ OutcomeNoted(job'.result)
    PROVE  BindInv'
<1>1. PICK k : k = parent'[p]
  OBVIOUS
<1>2. /\ k.child = parent[p].child /\ k.intent = parent[p].intent /\ k.pending = parent[p].pending
      /\ k.then = "finish" => parent[p].then = "finish"
      /\ DOMAIN parent' = Process /\ DOMAIN parent'[p] = DOMAIN Unknown
      /\ \A q \in Process \ {p} : parent'[q] = parent[q]
  <2>1. CASE UNCHANGED parent
    BY <1>1, <2>1, Kept1
  <2>2. ASSUME NEW field \in {"known", "then"}, NEW value, Remember(p, field, value),
               field = "then" => value # "finish"
        PROVE  <1>2
    BY <2>2, <1>1, UnknownFields, Kept1 DEF Remember
  <2> QED BY <2>1, <2>2
<1>3. Keeping(label, k, me[p].payload)
  BY <1>1, <1>2, Kept1 DEF Keeping, InChild
<1> QED BY <1>1, <1>2, <1>3, BindGoes

LEMMA BindRunSteps ==
    ASSUME CallInv, BindInv, NEW p \in Process,
           \/ Run(p) \/ Claim(p) \/ AnnounceParent(p) \/ StartupFailed(p)
           \/ AnnounceActivation(p) \/ Activate(p) \/ PublishActivation(p)
           \/ StartChild(p) \/ UnwindRun(p)
    PROVE  BindInv'
<1>1. job.state = "completed" => Result(job.result) /\ OutcomeNoted(job.result)
  BY Kept1
<1>2. ASSUME NEW label \in {"close", "create", "idle", "activate", "publish activation", "assign", "unwind", "run"},
             Goto(p, label), ChildStays, UNCHANGED <<run, me, job>>,
             UNCHANGED parent \/ Remember(p, "then", "raise"), label = "run" => pc[p] = "assigned"
      PROVE  BindInv'
  <2>1. label \in InChild => pc[p] \in InChild /\ label \notin {"publish child", "run returned", "finish run"}
    BY <1>2 DEF InChild
  <2>2. label \notin {"close and finish", "finish"}
    BY <1>2
  <2>3. \/ UNCHANGED parent
        \/ \E field \in {"known", "then"} : \E value :
              Remember(p, field, value) /\ (field = "then" => value # "finish")
    <3>1. "raise" # "finish" /\ "then" \in {"known", "then"}
      OBVIOUS
    <3> QED BY <1>2, <3>1
  <2>4. DOMAIN job' = DOMAIN job /\ (job'.state = "completed" => Result(job'.result) /\ OutcomeNoted(job'.result))
    BY <1>1, <1>2
  <2> QED BY <1>2, <2>1, <2>2, <2>3, <2>4, BindParentGoes
<1>3. CASE Run(p) \/ Claim(p)
  <2>1. UNCHANGED <<rows, run, me>>
    BY <1>3 DEF Run, Claim, runVars
  <2>2. PICK label \in {"claim", "idle", "parent"} : Goto(p, label)
    BY <1>3 DEF Run, Claim, Return, Call
  <2>3. UNCHANGED parent \/ \E value : Remember(p, "known", value)
    BY <1>3 DEF Run, Claim, Remember
  <2>4. job' = job \/ job' = [job EXCEPT !.state = "queued"] \/ job' = [job EXCEPT !.state = "running"]
    BY <1>3 DEF Run, Claim, Call
  <2>5. DOMAIN job' = DOMAIN job /\ (job'.state = "completed" => job' = job)
    BY <2>4 DEF BindInv, BindTables
  <2>6. job'.state = "completed" => Result(job'.result) /\ OutcomeNoted(job'.result)
    BY <1>1, <2>5
  <2>7. label \notin InChild \cup {"close and finish", "finish"}
    BY <2>2 DEF InChild
  <2> QED BY <2>1, <2>2, <2>3, <2>5, <2>6, <2>7, RowsChildStays, BindParentGoes
<1>4. CASE AnnounceParent(p) \/ AnnounceActivation(p) \/ PublishActivation(p)
  <2>1. PICK label \in {"create", "idle", "activate", "unwind", "assign"} : ChildStays /\ Goto(p, label)
    BY <1>4, ElseStays, Apart DEF AnnounceParent, AnnounceActivation, PublishActivation
  <2> QED BY <1>2, <1>4, <2>1 DEF AnnounceParent, AnnounceActivation, PublishActivation, runVars, parentVars
<1>5. CASE StartupFailed(p) \/ UnwindRun(p)
  BY <1>5, <1>2, RowsChildStays DEF StartupFailed, UnwindRun, Unwind, runVars
<1>6. CASE Activate(p) \/ StartChild(p)
  <2>1. PICK label \in {"publish activation", "unwind", "run"} : Goto(p, label) /\ (label = "run" => pc[p] = "assigned")
    BY <1>6 DEF Activate, StartChild, At
  <2> QED BY <1>2, <1>6, <2>1, RowsChildStays DEF Activate, StartChild, runVars, parentVars
<1> QED BY <1>3, <1>4, <1>5, <1>6

LEMMA IntentKind == \A what : Receipt("intent", what)[1] = "intent"
  BY DEF Receipt

\* The child is assigned once.
LEMMA BindAssignStep ==
    ASSUME CallInv, BindInv, NEW p \in Process, Assign(p)
    PROVE  BindInv'
<1>1. UNCHANGED <<run, me, job>> /\ Remember(p, "intent", Receipt("intent", p)) /\ pc[p] = "assign"
  BY DEF Assign, runVars, At
<1>2. PICK intent : intent = Receipt("intent", p) /\ intent[1] = "intent"
  BY IntentKind
<1>3. /\ parent'[p].intent = intent /\ \A o \in {"known", "child", "pending", "then"} : parent'[p][o] = parent[p][o]
      /\ DOMAIN parent' = Process /\ DOMAIN parent'[p] = DOMAIN Unknown
      /\ \A q \in Process \ {p} : parent'[q] = parent[q]
  <2>1. "intent" \in DOMAIN Unknown
    BY UnknownFields
  <2>2. PICK value : value = intent /\ Remember(p, "intent", value)
    BY <1>1, <1>2
  <2>3. /\ DOMAIN parent' = Process /\ DOMAIN parent'[p] = DOMAIN Unknown
        /\ parent'[p]["intent"] = value /\ \A o \in DOMAIN Unknown \ {"intent"} : parent'[p][o] = parent[p][o]
        /\ \A q \in Process \ {p} : parent'[q] = parent[q]
    BY <2>1, <2>2, Remembered
  <2> QED BY <2>2, <2>3, UnknownFields
<1>4. Child \in DOMAIN rows /\ Short(rows[Child])
  BY DEF BindInv, BindTables
<1>5. /\ DOMAIN rows' = DOMAIN rows /\ \A o \in DOMAIN rows \ {Child} : rows'[o] = rows[o]
      /\ Short(rows'[Child])
      /\ Confirmed(rows[Child]) => rows'[Child] = rows[Child]
      /\ Confirmed(rows'[Child]) => rows'[Child] = rows[Child]
      /\ Goto(p, "assigned") \/ Goto(p, "unwind")
  BY <1>4, ObserveShort DEF Assign
<1>6. rows'[Frozen] = rows[Frozen]
  BY <1>5, Apart DEF BindInv, BindTables
<1>7. pc'[p] \in {"assigned", "unwind"} /\ Aside(p)
  BY <1>1, <1>3, <1>5 DEF Aside, Goto, CallInv, EpisodeInv, Tables
<1>8. BindTables'
  BY <1>1, <1>3, <1>5 DEF BindInv, BindTables, Child, Frozen, Short, IsRow, RunShape
<1>9. \A x : (Result(x) <=> Result(x)') /\ (OutcomeNoted(x) => OutcomeNoted(x)')
  BY <1>1, <1>5 DEF Result, OutcomeNoted, Confirmed, Child, Receipt
<1>10. Keeping(pc[p], parent[p], me[p].payload)'
  BY <1>2, <1>3, <1>7, <1>9, Kept1 DEF Keeping, InChild
<1>11. Confirmed(rows'[Child]) => \A r \in rows'[Child][2] : r[1] = "outcome" => Result(r[2])'
  BY <1>5, <1>9 DEF BindInv
<1>12. job'.state = "completed" => (Result(job.result) /\ OutcomeNoted(job.result))'
  BY <1>1, <1>9 DEF BindInv
<1>13. rows'[Frozen] = <<>> \/ \E x : rows'[Frozen] = <<{Receipt("frozen", x)}>>
  BY <1>6 DEF BindInv
<1>14. run'.state = "completed" => rows'[Frozen] = <<{Receipt("frozen", run'.result)}>>
  BY <1>1, <1>6 DEF BindInv
<1> QED BY <1>1, <1>5, <1>6, <1>7, <1>8, <1>10, <1>11, <1>12, <1>13, <1>14, BindFrame

\* The child's outcome is confirmed with the run's result.
LEMMA BindConfirmStep ==
    ASSUME CallInv, BindInv, NEW p \in Process, PublishChild(p)
    PROVE  BindInv'
<1>1. UNCHANGED <<run, me, job, parent>> /\ pc[p] = "publish child"
  BY DEF PublishChild, runVars, parentVars, At
<1>2. Result(parent[p].child) /\ parent[p].intent[1] = "intent"
  BY <1>1, Kept1 DEF Keeping, InChild
<1>3. PICK child, receipts : child = parent[p].child /\ receipts = {parent[p].intent, Receipt("outcome", child)}
  OBVIOUS
<1>4. Child \in DOMAIN rows /\ Short(rows[Child])
  BY DEF BindInv, BindTables
<1>5. PICK ok \in {"finish", "close and finish"}, bad \in {"idle", "unwind"} :
          Observe(p, Child, 2, receipts, ok, bad)
  BY <1>3 DEF PublishChild
<1>6. /\ DOMAIN rows' = DOMAIN rows /\ \A o \in DOMAIN rows \ {Child} : rows'[o] = rows[o]
      /\ Short(rows'[Child])
      /\ Confirmed(rows[Child]) => rows'[Child] = rows[Child]
      /\ Confirmed(rows'[Child]) => rows'[Child] = rows[Child] \/ rows'[Child][2] = receipts
      /\ \/ Goto(p, ok) /\ Confirmed(rows'[Child]) /\ rows'[Child][2] = receipts
         \/ Goto(p, bad)
  BY <1>4, <1>5, ObserveShort
<1>7. rows'[Frozen] = rows[Frozen]
  BY <1>6, Apart DEF BindInv, BindTables
<1>8. /\ Aside(p)
      /\ \/ pc'[p] = ok /\ Confirmed(rows'[Child]) /\ rows'[Child][2] = receipts
         \/ pc'[p] = bad
  BY <1>1, <1>6 DEF Aside, Goto, CallInv, EpisodeInv, Tables
<1>9. BindTables'
  BY <1>1, <1>6 DEF BindInv, BindTables, Child, Frozen, Short, IsRow, RunShape
<1>10. \A x : (Result(x) <=> Result(x)') /\ (OutcomeNoted(x) => OutcomeNoted(x)')
  BY <1>1, <1>6 DEF Result, OutcomeNoted, Confirmed, Child, Receipt
<1>11. \A r \in receipts : r[1] = "outcome" => r[2] = child
  <2>1. Receipt("outcome", child)[2] = child
    BY DEF Receipt
  <2>2. \A r \in receipts : r = parent[p].intent \/ r = Receipt("outcome", child)
    BY <1>3
  <2>3. "intent" # "outcome"
    OBVIOUS
  <2> QED BY <1>2, <2>1, <2>2, <2>3
<1>12. Keeping(pc[p], parent[p], me[p].payload)'
  BY <1>3, <1>1, <1>2, <1>5, <1>7, <1>10, <1>8, Kept1 DEF OutcomeNoted, Child, Receipt, Keeping,
     InChild
<1>13. Confirmed(rows'[Child]) => \A r \in rows'[Child][2] : r[1] = "outcome" => Result(r[2])'
  BY <1>10, <1>2, <1>3, <1>11, <1>6 DEF BindInv
<1>14. job'.state = "completed" => (Result(job.result) /\ OutcomeNoted(job.result))'
  BY <1>1, <1>10 DEF BindInv
<1>15. rows'[Frozen] = <<>> \/ \E x : rows'[Frozen] = <<{Receipt("frozen", x)}>>
  BY <1>7 DEF BindInv
<1>16. run'.state = "completed" => rows'[Frozen] = <<{Receipt("frozen", run'.result)}>>
  BY <1>1, <1>7 DEF BindInv
<1> QED BY <1>1, <1>6, <1>7, <1>8, <1>9, <1>12, <1>13, <1>14, <1>15, <1>16, BindFrame

\* p remembers one thing of the child more, and goes on.
LEMMA BindRemembers ==
    ASSUME CallInv, BindInv, NEW p \in Process, NEW label, Goto(p, label), UNCHANGED <<rows, run, me, job>>,
           NEW field \in DOMAIN Unknown, NEW value, Remember(p, field, value),
           field = "child" => Result(value) /\ parent[p].intent[1] = "intent",
           field = "pending" => parent[p].intent[1] = "intent",
           field = "intent" => value[1] = "intent",
           field = "then" /\ value = "finish" => OutcomeNoted(parent[p].child) /\ Result(parent[p].child),
           label \in {"publish child", "close and finish", "finish"} => label = "publish child" /\ field = "child",
           label \in InChild => label = "publish child"
    PROVE  BindInv'
<1>1. PICK k : k = parent'[p]
  OBVIOUS
<1>2. /\ k[field] = value /\ \A o \in DOMAIN Unknown \ {field} : k[o] = parent[p][o]
      /\ DOMAIN parent' = Process /\ DOMAIN parent'[p] = DOMAIN Unknown
      /\ \A q \in Process \ {p} : parent'[q] = parent[q]
  BY ZenonT(30), <1>1, Remembered
<1>3. Keeping(pc[p], parent[p], me[p].payload)
  BY Kept1
<1>4. Keeping(label, k, me[p].payload)
  BY <1>2, <1>3, UnknownFields DEF Keeping, Result, InChild
<1> QED BY <1>1, <1>2, <1>4, Kept1, RowsChildStays, BindGoes

LEMMA BindEndSteps ==
    ASSUME CallInv, BindInv, NEW p \in Process,
           ChildReturned(p) \/ ChildRaised(p) \/ CloseAndFinish(p) \/ CloseFailed(p) \/ CloseDone(p) \/ Finish(p)
    PROVE  BindInv'
<1>1. job.state = "completed" => Result(job.result) /\ OutcomeNoted(job.result)
  BY Kept1
<1>2. Keeping(pc[p], parent[p], me[p].payload)
  BY Kept1
<1>3. CASE ChildReturned(p)
  <2>1. /\ Goto(p, "publish child") /\ Remember(p, "child", run.result) /\ UNCHANGED <<rows, run, me, job>>
        /\ pc[p] = "run returned"
    BY <1>3 DEF ChildReturned, At, runVars
  <2>2. Result(run.result) /\ parent[p].intent[1] = "intent"
    BY <1>2, <2>1 DEF Keeping, InChild, Result
  <2>3. PICK value : value = run.result
    OBVIOUS
  <2> QED BY <2>1, <2>2, <2>3, BindRemembers, UnknownFields
<1>4. CASE ChildRaised(p)
  <2>1. UNCHANGED <<rows, run, me, job>> /\ pc[p] = "run raised"
    BY <1>4 DEF ChildRaised, At, runVars
  <2>2. parent[p].intent[1] = "intent"
    BY <1>2, <2>1 DEF Keeping, InChild
  <2>3. CASE Goto(p, "idle") /\ UNCHANGED parent
    BY <2>1, <2>3, BindAway, RowsChildStays DEF InChild
  <2>4. ASSUME NEW value, Goto(p, "close"), Remember(p, "pending", value) PROVE BindInv'
    <3>1. "close" \notin InChild \cup {"publish child", "close and finish", "finish"} /\ "pending" \in DOMAIN Unknown
      BY UnknownFields DEF InChild
    <3> QED BY <2>1, <2>2, <2>4, <3>1, BindRemembers
  <2> QED BY <1>4, <2>3, <2>4 DEF ChildRaised, Return
<1>5. CASE CloseAndFinish(p)
  <2>1. /\ Goto(p, "close") /\ Remember(p, "then", "finish") /\ UNCHANGED <<rows, run, me, job>>
        /\ pc[p] = "close and finish"
    BY <1>5 DEF CloseAndFinish, At, runVars
  <2>2. OutcomeNoted(parent[p].child) /\ Result(parent[p].child)
    BY <1>2, <2>1 DEF Keeping
  <2>3. "close" \notin InChild \cup {"publish child", "close and finish", "finish"} /\ "then" \in DOMAIN Unknown
    BY UnknownFields DEF InChild
  <2> QED BY <2>1, <2>2, <2>3, BindRemembers
<1>6. CASE CloseFailed(p)
  BY <1>6, BindAway, RowsChildStays DEF CloseFailed, Return, runVars, parentVars, InChild
<1>7. CASE CloseDone(p)
  <2>1. UNCHANGED <<rows, run, me, parent, job>>
    BY <1>7 DEF CloseDone, runVars, parentVars
  <2>2. PICK label \in {"finish", "recover", "idle"} : Goto(p, label) /\ (label = "finish" => parent[p].then = "finish")
    BY <1>7 DEF CloseDone
  <2>3. label \notin InChild /\ label # "close and finish"
    BY <2>2 DEF InChild
  <2>4. DOMAIN job' = DOMAIN job /\ parent'[p] = parent[p]
    BY <2>1
  <2> QED BY <1>1, <2>1, <2>2, <2>3, <2>4, BindParentGoes, RowsChildStays
<1>8. CASE Finish(p)
  <2>1. UNCHANGED <<rows, run, me, parent>> /\ pc[p] = "finish" /\ Goto(p, "idle")
    BY <1>8 DEF Finish, Call, Return, At, runVars
  <2>2. OutcomeNoted(parent[p].child) /\ Result(parent[p].child)
    BY <1>2, <2>1 DEF Keeping
  <2>3. PICK completed : completed = [state |-> "completed", result |-> parent[p].child]
    OBVIOUS
  <2>4. job' = job \/ job' = completed
    BY <1>8, <2>3 DEF Finish, Call
  <2>5. completed.result = parent[p].child /\ DOMAIN completed = {"state", "result"}
    BY <2>3
  <2>6. DOMAIN job' = DOMAIN job
    BY <2>4, <2>5 DEF BindInv, BindTables
  <2>7. job'.state = "completed" => Result(job'.result) /\ OutcomeNoted(job'.result)
    BY <1>1, <2>2, <2>4, <2>5
  <2>8. "idle" \notin InChild \cup {"close and finish", "finish"}
    BY DEF InChild
  <2> QED BY <2>1, <2>6, <2>7, <2>8, BindParentGoes, RowsChildStays
<1> QED BY <1>3, <1>4, <1>5, <1>6, <1>7, <1>8

LEMMA BindRecoverSteps ==
    ASSUME CallInv, BindInv, NEW p \in Process, Recover(p) \/ RecoverChild(p) \/ NothingToRecover(p)
    PROVE  BindInv'
<1>1. Keeping(pc[p], parent[p], me[p].payload)
  BY Kept1
<1>2. CASE Recover(p)
  <2>1. PICK label \in {"close", "recover"} : Goto(p, label)
    BY <1>2 DEF Recover
  <2>2. Remember(p, "then", "recover") /\ UNCHANGED <<rows, run, me, job>>
    BY <1>2 DEF Recover, runVars
  <2>3. label \notin InChild \cup {"publish child", "close and finish", "finish"} /\ "then" \in DOMAIN Unknown
    BY <2>1, UnknownFields DEF InChild
  <2> QED BY <2>1, <2>2, <2>3, BindRemembers
<1>3. CASE RecoverChild(p)
  BY <1>3, <1>1, Kept1, BindGoes, RowsChildStays DEF RecoverChild, runVars, parentVars, Keeping
<1>4. CASE NothingToRecover(p)
  BY <1>4, BindAway, RowsChildStays DEF NothingToRecover, Return, runVars, parentVars, InChild
<1> QED BY <1>2, <1>3, <1>4

\* The assigned child's outcome, as confirmed or as the run completed.
LEMMA BindDurableStep ==
    ASSUME CallInv, BindInv, NEW p \in Process, RecoverDurable(p)
    PROVE  BindInv'
<1>1. Goto(p, "publish child") /\ UNCHANGED <<rows, run, me, job>>
  BY DEF RecoverDurable, runVars
<1>2. PICK intent \in Newest(Child) :
         /\ intent[1] = "intent"
         /\ \E result \in IF Len(rows[Child]) = 2
                          THEN {r[2] : r \in {x \in Newest(Child) : x[1] = "outcome"}}
                          ELSE {r \in {run.result} : run.state = "completed"} :
               parent' = [parent EXCEPT ![p].known = TRUE, ![p].intent = intent, ![p].child = result]
  BY DEF RecoverDurable
<1>3. PICK result \in IF Len(rows[Child]) = 2
                      THEN {r[2] : r \in {x \in Newest(Child) : x[1] = "outcome"}}
                      ELSE {r \in {run.result} : run.state = "completed"} :
         parent' = [parent EXCEPT ![p].known = TRUE, ![p].intent = intent, ![p].child = result]
  BY <1>2
<1>4. Result(result)
  <2>1. CASE Len(rows[Child]) = 2
    <3>1. PICK r \in Newest(Child) : r[1] = "outcome" /\ result = r[2]
      BY <1>3, <2>1
    <3>2. \A s : s = <<>> => Len(s) # 2
      OBVIOUS
    <3>3. r \in rows[Child][2] /\ Confirmed(rows[Child])
      BY <2>1, <3>1, <3>2 DEF Newest, Confirmed
    <3> QED BY <3>1, <3>3 DEF BindInv
  <2>2. CASE Len(rows[Child]) # 2
    BY <1>3, <2>2 DEF Result
  <2> QED BY <2>1, <2>2
<1>5. PICK k : k = parent'[p]
  OBVIOUS
<1>6. /\ k.child = result /\ k.intent = intent /\ k.then = parent[p].then
      /\ DOMAIN parent' = Process /\ DOMAIN k = DOMAIN Unknown
      /\ \A q \in Process \ {p} : parent'[q] = parent[q]
  BY <1>3, <1>5, Kept1, UnknownFields
<1>7. Keeping(pc[p], parent[p], me[p].payload)
  BY Kept1
<1>8. k.then = "finish" => result = parent[p].child /\ OutcomeNoted(parent[p].child)
  BY <1>4, <1>6, <1>7 DEF Keeping, Result
<1>9. Keeping("publish child", k, me[p].payload)
  BY <1>2, <1>4, <1>6, <1>8 DEF Keeping
<1> QED BY <1>1, <1>5, <1>6, <1>9, Kept1, BindGoes, RowsChildStays

\* What is taken up again promises no more than it did.
LEMMA BindRetryStep ==
    ASSUME CallInv, BindInv, NEW p \in Process, RetryChild(p)
    PROVE  BindInv'
<1>1. /\ UNCHANGED <<rows, run, parent, job>> /\ pc[p] = "recover"
      /\ parent[p].pending # Nothing
  BY DEF RetryChild, parentVars, At, RetryPublication, RecoverRun
<1>2. Keeping("recover", parent[p], me[p].payload)
  BY <1>1, Kept1
<1>3. parent[p].intent[1] = "intent"
  BY <1>1, <1>2 DEF Keeping
<1>4. ASSUME NEW label \in {"submit", "freeze", "publish", "grade", "run returned", "run raised", "finish run"},
             Goto(p, label), \A q \in Process \ {p} : me'[q] = me[q],
             label = "run returned" => run.state = "completed",
             label = "finish run" => rows[Frozen] = <<{Receipt("frozen", me'[p].payload)}>>
      PROVE  BindInv'
  <2>1. PICK k, y : k = parent[p] /\ y = me'[p].payload
    OBVIOUS
  <2>2. Keeping(label, k, y)
    BY <1>2, <1>3, <1>4, <2>1 DEF Keeping
  <2>3. Keeping(label, parent'[p], me'[p].payload)
    BY <1>1, <2>1, <2>2
  <2> QED BY <1>1, <1>4, <2>3, Kept1, BindGoes, RowsChildStays
<1>5. ASSUME NEW pending, RetryPublication(p, pending) PROVE BindInv'
  <2>1. PICK again : again = [me[p] EXCEPT !.entry = "retry", !.stamp = retries']
    OBVIOUS
  <2>2. PICK label \in {"submit", "freeze", "publish", "grade", "run returned", "run raised"} :
           /\ Goto(p, label) /\ (label = "run returned" => run.state = "completed")
           /\ UNCHANGED me \/ \E record : me' = [me EXCEPT ![p] = record]
    BY <1>5 DEF RetryPublication, Call
  <2>3. \A q \in Process \ {p} : me'[q] = me[q]
    BY <2>2 DEF CallInv, EpisodeInv, Tables
  <2> QED BY <1>4, <2>2, <2>3
<1>6. CASE RecoverRun(p)
  <2>1. CASE Goto(p, "run raised") /\ UNCHANGED me
    BY <1>4, <2>1
  <2>2. CASE run.state = "completed" /\ Goto(p, "run returned") /\ UNCHANGED me
    BY <1>4, <2>2
  <2>3. CASE /\ Goto(p, "finish run") /\ rows[Frozen] # <<>>
             /\ \E receipt \in Newest(Frozen) :
                   me' = [me EXCEPT ![p].payload = receipt[2], ![p].entry = "recover"]
    <3>1. PICK x : rows[Frozen] = <<{Receipt("frozen", x)}>>
      BY <2>3 DEF BindInv
    <3>2. Newest(Frozen) = {Receipt("frozen", x)}
      BY <3>1 DEF Newest
    <3>3. Receipt("frozen", x)[2] = x
      BY DEF Receipt
    <3>4. me' = [me EXCEPT ![p].payload = x, ![p].entry = "recover"]
      BY <2>3, <3>2, <3>3
    <3>5. me'[p].payload = x /\ \A q \in Process \ {p} : me'[q] = me[q]
      BY <3>4, Standing DEF Fresh
    <3> QED BY <1>4, <2>3, <3>1, <3>5
  <2> QED BY <1>6, <2>1, <2>2, <2>3 DEF RecoverRun
<1> QED BY <1>5, <1>6 DEF RetryChild

LEMMA BindCrashStep ==
    ASSUME CallInv, BindInv, NEW p \in Process, Crash(p)
    PROVE  BindInv'
  BY Kept1, BindGoes, RowsChildStays DEF Crash, Return, CallInv, EpisodeInv, Tables, Keeping,
     InChild, Unknown

LEMMA BindInit == Init => BindInv
<1> SUFFICES ASSUME Init PROVE BindInv
  OBVIOUS
<1>1. rows[Child] = <<>> /\ rows[Frozen] = <<>> /\ {Child, Frozen} \subseteq DOMAIN rows
  BY DEF Init, Rows, RunRows
<1>2. Short(<<>>) /\ ~Confirmed(<<>>)
  BY DEF Short, IsRow, Confirmed
<1>3. /\ run = [state |-> "absent", result |-> Nothing] /\ job = [state |-> "absent", result |-> Nothing]
      /\ \A p \in Process : parent[p] = Unknown /\ pc[p] = "idle"
      /\ DOMAIN parent = Process
  BY DEF Init, RunInit
<1>4. BindTables
  BY <1>1, <1>2, <1>3 DEF BindTables, RunShape
<1>5. \A p \in Process : Keeping(pc[p], parent[p], me[p].payload)
  <2>1. \A x : Keeping("idle", Unknown, x)
    BY DEF Keeping, InChild, Unknown
  <2> QED BY <1>3, <2>1
<1> QED BY <1>1, <1>2, <1>3, <1>4, <1>5 DEF BindInv

LEMMA BindNext == CallInv /\ BindInv /\ [Next]_vars => BindInv'
<1> SUFFICES ASSUME CallInv, BindInv, [Next]_vars PROVE BindInv'
  OBVIOUS
<1>1. CASE UNCHANGED vars
  BY <1>1 DEF vars, ledgerVars, runVars, parentVars, BindInv, BindTables, RunShape, Keeping, Result, OutcomeNoted,
              Confirmed, Short, IsRow, Child, Frozen, Receipt
<1>2. ASSUME NEW p \in Process, SessionStep(p), UNCHANGED <<runVars, parentVars>> PROVE BindInv'
  BY <1>2, BindSessionSteps
<1>3. ASSUME NEW p \in Process, RunStep(p), UNCHANGED <<sessionVars, parentVars>> PROVE BindInv'
  BY <1>3, BindEpisodeSteps, BindEnterSteps, BindPublishStep DEF RunStep
<1>4. ASSUME NEW p \in Process, ParentStep(p) PROVE BindInv'
  BY <1>4, BindRunSteps, BindAssignStep, BindEndSteps, BindConfirmStep, BindRecoverSteps, BindDurableStep,
     BindRetryStep, BindCrashStep DEF ParentStep
<1> QED BY <1>1, <1>2, <1>3, <1>4 DEF Next

\* The episode is sampled in the session its job's accounting names, the outer job completes with the
\* assigned child's frozen result, and of one session started nothing is left when it completes
\* (native_service.py:75-220).
THEOREM SessionStaysBound == Spec => []SessionBound
<1>1. CallInv /\ OwnInv /\ BindInv => SessionBound
  <2> SUFFICES ASSUME CallInv, OwnInv, BindInv PROVE SessionBound
    OBVIOUS
  <2>1. EpisodeInSession
    <3> SUFFICES ASSUME NEW p \in Process, At(p, "turn") \/ (At(p, "dispatched") /\ me[p].phase[1] # "grade")
                 PROVE  session[p] = "live" /\ Receipt("startup", p) \in Newest(Startup)
      BY DEF EpisodeInSession
    <3>1. session[p] = "live"
      BY Stage DEF Along, At, InSession, InPhase
    <3>2. Confirmed(rows[Startup]) /\ Receipt("startup", p) \in rows[Startup][2]
      BY <3>1 DEF OwnInv, OnRecord
    <3>3. \A s : s = <<>> => Len(s) # 2
      OBVIOUS
    <3> QED BY <3>1, <3>2, <3>3 DEF Newest, Confirmed
  <2>2. ParentBindsChild
    <3> SUFFICES ASSUME job.state = "completed"
                 PROVE  /\ run.state = "completed" /\ job.result = run.result
                        /\ Newest(Frozen) = {Receipt("frozen", job.result)}
                        /\ Receipt("outcome", job.result) \in Newest(Child)
      BY DEF ParentBindsChild
    <3>1. run.state = "completed" /\ job.result = run.result /\ OutcomeNoted(job.result)
      BY DEF BindInv, Result
    <3>2. rows[Frozen] = <<{Receipt("frozen", run.result)}>>
      BY <3>1 DEF BindInv
    <3>3. \A s : s = <<>> => Len(s) # 2
      OBVIOUS
    <3>4. Receipt("outcome", job.result) \in Newest(Child)
      BY <3>1, <3>3 DEF OutcomeNoted, Newest, Confirmed
    <3>5. Newest(Frozen) = {Receipt("frozen", job.result)}
      BY <3>1, <3>2 DEF Newest
    <3> QED BY <3>1, <3>4, <3>5
  <2>3. SoleOwnerClosed
    <3> SUFFICES ASSUME started <= 1, job.state = "completed" PROVE Holders = {}
      BY DEF SoleOwnerClosed, OwnershipClosed
    <3>1. AnyShutdown
      BY DEF OwnInv
    <3>2. started = 0 \/ started = 1
      BY DEF OwnInv, OwnTables
    <3>3. \A p \in Process : ~Holds(p)
      BY <3>1, <3>2 DEF OwnInv, Sole
    <3> QED BY <3>3 DEF Holders
  <2> QED BY <2>1, <2>2, <2>3 DEF SessionBound
<1>2. Init => CallInv /\ OwnInv /\ BindInv
  BY CallInit, OwnInit, BindInit
<1>3. CallInv /\ OwnInv /\ BindInv /\ [Next]_vars => (CallInv /\ OwnInv /\ BindInv)'
  BY CallNext, OwnNext, BindNext DEF BindInv
<1> QED BY <1>1, <1>2, <1>3, PTL DEF Spec

-----------------------------------------------------------------------------
(* The episode's phases, before anything is graded (GradeAccounted).       *)

OfEpisode(ph) == ph[1] # "grade"

\* Where an episode may still take another phase, after ph.
Sampling(place, ph) == \/ place \in {"controller", "turn", "close workspace"}
                       \/ place \in InPhase /\ OfEpisode(ph)
Samples(p) == Sampling(pc[p], me[p].phase)

\* Where a process that is in phase ph has submitted its episode; or it remembers that, in h.
Submitted == {"submission pending", "grade pending"}
Measuring(place, ph, h) ==
    \/ place \in {"submit", "grade", "record recovered"} \cup Submitted
    \/ place \in InPhase /\ ~OfEpisode(ph)
    \/ h # <<>> /\ Head(h).kind \in Submitted
Measures(p) == Measuring(pc[p], me[p].phase, held[p])

\* The episode is over and every phase of it that was announced is recorded.
Over ==
    /\ ~Claimable
    /\ \A p \in Process : ~Samples(p)
    /\ \A ph \in Phase : OfEpisode(ph) => Len(rows[ph]) # 1

SampleTables ==
    /\ DOMAIN held = Process /\ \A p \in Process : IsRow(held[p])
    /\ \A ph \in Phase : Short(rows[ph])

SampleInv ==
    /\ SampleTables
    /\ Claimable => /\ \A p \in Process : ~Samples(p)
                    /\ \A ph \in Phase : OfEpisode(ph) => rows[ph] = <<>>
    /\ \A p, q \in Process : Samples(p) /\ Samples(q) => p = q
    /\ \A p \in Process : Samples(p) =>
          \A ph \in Phase : OfEpisode(ph) /\ Len(rows[ph]) = 1 =>
             pc[p] \in {"dispatched", "record"} /\ me[p].phase = ph
    /\ \A p \in Process : Measures(p) => Over
    /\ \A ph \in Phase : ~OfEpisode(ph) /\ rows[ph] # <<>> => Over

LEMMA OverStays ==
    ASSUME SampleInv, NEW p \in Process, Over,
           \A q \in Process \ {p} : pc'[q] = pc[q] /\ me'[q] = me[q],
           \A ph \in Phase : OfEpisode(ph) => rows'[ph] = rows[ph] \/ Samples(p),
           Samples(p)' => Samples(p) \/ Claimable,
           Claimable' => Claimable
    PROVE  Over'
  BY DEF Over, Samples, OfEpisode

\* What one process may do: only a sampling one writes episode rows, and its last phase is
\* recorded when it goes on; nothing is submitted or graded before the episode is over.
LEMMA SampleFrame ==
    ASSUME SampleInv, SampleTables', NEW p \in Process,
           \A q \in Process \ {p} : pc'[q] = pc[q] /\ me'[q] = me[q] /\ held'[q] = held[q],
           \A ph \in Phase : OfEpisode(ph) => rows'[ph] = rows[ph] \/ Samples(p),
           Samples(p)' => (Samples(p) \/ Claimable) /\ ~Claimable',
           Samples(p)' => \A ph \in Phase : OfEpisode(ph) /\ Len(rows'[ph]) = 1 =>
                             pc'[p] \in {"dispatched", "record"} /\ me'[p].phase = ph,
           Claimable' => Claimable,
           Measures(p)' => Measures(p) \/ Over',
           \A ph \in Phase : ~OfEpisode(ph) /\ rows'[ph] # <<>> => rows[ph] # <<>> \/ Over
    PROVE  SampleInv'
<1>1. Over => Over'
  BY OverStays
<1>2. ASSUME NEW q \in Process \ {p}
      PROVE  (Samples(q) <=> Samples(q)') /\ (Measures(q) <=> Measures(q)')
  BY DEF Samples, Measures
<1>3. Claimable => ~Samples(p) /\ \A ph \in Phase : OfEpisode(ph) => rows'[ph] = <<>>
  BY DEF SampleInv
<1>4. Claimable' => /\ \A q \in Process : ~Samples(q)'
                    /\ \A ph \in Phase : OfEpisode(ph) => rows'[ph] = <<>>
  BY <1>2, <1>3 DEF SampleInv
<1>5. ASSUME NEW q \in Process, NEW r \in Process, Samples(q)', Samples(r)' PROVE q = r
  BY <1>2, <1>5 DEF SampleInv
<1>6. ASSUME NEW q \in Process, Samples(q)', NEW ph \in Phase, OfEpisode(ph), Len(rows'[ph]) = 1
      PROVE  pc'[q] \in {"dispatched", "record"} /\ me'[q].phase = ph
  BY <1>2, <1>6 DEF SampleInv
<1>7. ASSUME NEW q \in Process, Measures(q)' PROVE Over'
  BY <1>1, <1>2, <1>7 DEF SampleInv
<1>8. \A ph \in Phase : ~OfEpisode(ph) /\ rows'[ph] # <<>> => Over'
  BY <1>1 DEF SampleInv
<1>9. (\A q, r \in Process : Samples(q) /\ Samples(r) => q = r)'
  BY <1>5
<1>10. (\A q \in Process : Samples(q) => \A ph \in Phase : OfEpisode(ph) /\ Len(rows[ph]) = 1 =>
           pc[q] \in {"dispatched", "record"} /\ me[q].phase = ph)'
  BY <1>6 DEF OfEpisode
<1> QED BY <1>4, <1>7, <1>8, <1>9, <1>10 DEF SampleInv, OfEpisode

\* The rows of the phases stay.
PhasesStay == DOMAIN rows' = DOMAIN rows /\ \A ph \in Phase : rows'[ph] = rows[ph]

LEMMA OtherPhasesStay ==
    ASSUME NEW p, NEW name, name \notin Phase, NEW n, NEW receipts, NEW ok, NEW bad,
           Observe(p, name, n, receipts, ok, bad)
    PROVE  PhasesStay /\ (Goto(p, ok) \/ Goto(p, bad))
<1>1. CASE rows' = rows
  BY <1>1, ObserveGoes DEF PhasesStay
<1>2. CASE rows' = [rows EXCEPT ![name] = Append(@, receipts)]
  BY <1>2, ObserveGoes DEF PhasesStay
<1> QED BY <1>1, <1>2, ObserveRows

LEMMA SampleTablesStay ==
    ASSUME SampleInv, PhasesStay, UNCHANGED held
    PROVE  SampleTables'
  BY DEF SampleInv, SampleTables, PhasesStay, Short, IsRow

\* p goes on where nothing is sampled or measured.
LEMMA SampleAway ==
    ASSUME CallInv, SampleInv, NEW p \in Process, NEW label, Goto(p, label),
           \A ph : ~Sampling(label, ph) /\ ~Measuring(label, ph, <<>>),
           \A q \in Process \ {p} : me'[q] = me[q], UNCHANGED held, PhasesStay, Claimable' => Claimable
    PROVE  SampleInv'
  BY SampleTablesStay, SampleFrame DEF Goto, CallInv, EpisodeInv, Tables, Samples, Measures,
     Measuring, PhasesStay

\* p has submitted its episode, and goes on.
LEMMA SampleMeasured ==
    ASSUME CallInv, SampleInv, NEW p \in Process, Measures(p), NEW label, Goto(p, label),
           ~Sampling(label, me'[p].phase), \A q \in Process \ {p} : me'[q] = me[q] /\ held'[q] = held[q],
           SampleTables', \A ph \in Phase : OfEpisode(ph) => rows'[ph] = rows[ph], Claimable' => Claimable
    PROVE  SampleInv'
  BY SampleFrame DEF Goto, CallInv, EpisodeInv, Tables, Samples, SampleInv

\* The places that are neither sampling nor measuring, whatever the phase.
Elsewhere(label) == label \notin {"controller", "turn", "close workspace", "submit", "grade", "record recovered"}
                                 \cup Submitted \cup InPhase

LEMMA SampleLeaves ==
    ASSUME CallInv, SampleInv, NEW p \in Process, NEW label, Elsewhere(label), Goto(p, label),
           \A q \in Process \ {p} : me'[q] = me[q], UNCHANGED held, PhasesStay, Claimable' => Claimable
    PROVE  SampleInv'
  BY SampleAway DEF Elsewhere, Sampling, Measuring

LEMMA RowsPhasesStay ==
    ASSUME UNCHANGED rows
    PROVE  PhasesStay
  BY DEF PhasesStay

LEMMA SampleSessionSteps ==
    ASSUME CallInv, SampleInv, NEW p \in Process, SessionStep(p), UNCHANGED <<runVars, parentVars>>
    PROVE  SampleInv'
<1>1. UNCHANGED <<run, me, held>> /\ (Claimable' => Claimable)
  BY DEF runVars, Claimable
<1>2. ASSUME NEW label \in {"announce startup", "startup failed", "construct", "publish startup", "startup done",
                            "close failed", "close done", "close session", "announce shutdown", "close unannounced",
                            "publish shutdown"}, Goto(p, label), PhasesStay
      PROVE  SampleInv'
  BY <1>2, <1>1, SampleLeaves DEF Elsewhere, Submitted, InPhase
<1>3. CASE CheckKey(p)
  <2>1. PICK label \in {"announce startup", "startup failed"} : Goto(p, label)
    BY <1>3 DEF CheckKey
  <2> QED BY <1>2, <1>3, <2>1, RowsPhasesStay DEF CheckKey
<1>4. CASE AnnounceStartup(p)
  BY <1>4, <1>2, OtherPhasesStay, NotPhases DEF AnnounceStartup
<1>5. CASE Construct(p)
  BY <1>5, <1>2, RowsPhasesStay DEF Construct
<1>6. CASE PublishStartup(p)
  BY <1>6, <1>2, OtherPhasesStay, NotPhases DEF PublishStartup
<1>7. CASE Close(p)
  <2>1. PICK label \in {"close failed", "close done", "close session", "announce shutdown"} : Goto(p, label)
    BY <1>7 DEF Close
  <2> QED BY <1>2, <1>7, <2>1, RowsPhasesStay DEF Close
<1>8. Key(p) \notin Phase
  BY NotPhases DEF Key
<1>9. CASE AnnounceShutdown(p)
  BY <1>8, <1>9, <1>2, OtherPhasesStay DEF AnnounceShutdown
<1>10. CASE CloseSession(p)
  <2>1. PICK label \in {"close failed", "publish shutdown"} : Goto(p, label)
    BY <1>10 DEF CloseSession
  <2> QED BY <1>2, <1>10, <2>1, RowsPhasesStay DEF CloseSession
<1>11. CASE PublishShutdown(p)
  BY <1>8, <1>11, <1>2, OtherPhasesStay DEF PublishShutdown
<1> QED BY <1>3, <1>4, <1>5, <1>6, <1>7, <1>9, <1>10, <1>11 DEF SessionStep

\* The places of the outer job.
Outer == {"idle", "claim", "parent", "create", "close", "activate", "unwind", "publish activation", "assign",
          "assigned", "run", "finish", "close and finish", "publish child", "recover"}

LEMMA SampleOuter ==
    ASSUME CallInv, SampleInv, NEW p \in Process, NEW label \in Outer, Goto(p, label), PhasesStay, UNCHANGED runVars
    PROVE  SampleInv'
  BY SampleLeaves DEF Elsewhere, Submitted, InPhase, Outer, runVars, Claimable

LEMMA SampleParentSteps ==
    ASSUME CallInv, SampleInv, NEW p \in Process,
           \/ Run(p) \/ Claim(p) \/ AnnounceParent(p) \/ StartupFailed(p)
           \/ AnnounceActivation(p) \/ Activate(p) \/ PublishActivation(p)
           \/ Assign(p) \/ StartChild(p) \/ UnwindRun(p)
           \/ ChildReturned(p) \/ ChildRaised(p) \/ PublishChild(p) \/ CloseAndFinish(p)
           \/ CloseFailed(p) \/ CloseDone(p) \/ Finish(p)
           \/ Recover(p) \/ RecoverDurable(p) \/ RecoverChild(p) \/ NothingToRecover(p)
    PROVE  SampleInv'
<1>1. UNCHANGED runVars
  BY DEF Run, Claim, AnnounceParent, StartupFailed, AnnounceActivation, Activate, PublishActivation, Assign,
         StartChild, UnwindRun, ChildReturned, ChildRaised, PublishChild, CloseAndFinish, CloseFailed, CloseDone,
         Finish, Recover, RecoverDurable, RecoverChild, NothingToRecover
<1>2. CASE Run(p) \/ Claim(p) \/ StartupFailed(p) \/ Activate(p) \/ StartChild(p) \/ UnwindRun(p)
  BY <1>2, <1>1, SampleOuter, RowsPhasesStay DEF Run, Claim, Call, Return, StartupFailed, Unwind,
     Activate, StartChild, UnwindRun, Outer
<1>3. CASE AnnounceParent(p) \/ AnnounceActivation(p) \/ PublishActivation(p) \/ Assign(p)
  <2>1. PhasesStay /\ \E label \in Outer : Goto(p, label)
    <3>1. PICK name \in {Request, Activation, Child}, ok \in Outer, bad \in Outer :
             \E n, receipts : Observe(p, name, n, receipts, ok, bad)
      BY <1>3 DEF AnnounceParent, AnnounceActivation, PublishActivation, Assign, Outer
    <3>2. name \notin Phase
      BY NotPhases
    <3> QED BY <3>1, <3>2, OtherPhasesStay
  <2> QED BY <1>1, <2>1, SampleOuter
<1>4. CASE ChildReturned(p) \/ ChildRaised(p) \/ CloseAndFinish(p) \/ CloseFailed(p) \/ CloseDone(p) \/ Finish(p)
  <2>1. \E label \in Outer : Goto(p, label)
    <3>1. CASE CloseDone(p)
      <4>1. PICK label \in {"finish", "recover", "idle"} : Goto(p, label)
        BY <3>1 DEF CloseDone
      <4> QED BY <4>1 DEF Outer
    <3> QED BY <1>4, <3>1 DEF ChildReturned, ChildRaised, CloseAndFinish, CloseFailed, Finish, Call, Return, Outer
  <2>2. rows' = rows
    BY <1>4 DEF ChildReturned, ChildRaised, CloseAndFinish, CloseFailed, CloseDone, Finish
  <2> QED BY <1>1, <2>1, <2>2, SampleOuter, RowsPhasesStay
<1>5. CASE PublishChild(p)
  <2>1. PICK ok \in {"finish", "close and finish"}, bad \in {"idle", "unwind"} :
           Observe(p, Child, 2, {parent[p].intent, Receipt("outcome", parent[p].child)}, ok, bad)
    BY <1>5 DEF PublishChild
  <2>2. PhasesStay /\ (Goto(p, ok) \/ Goto(p, bad))
    BY <2>1, OtherPhasesStay, NotPhases
  <2>3. ok \in Outer /\ bad \in Outer
    BY DEF Outer
  <2> QED BY <1>1, <2>2, <2>3, SampleOuter
<1>6. CASE Recover(p) \/ RecoverDurable(p) \/ RecoverChild(p) \/ NothingToRecover(p)
  BY <1>6, <1>1, SampleOuter, RowsPhasesStay DEF Recover, RecoverDurable, RecoverChild,
     NothingToRecover, Return, Outer
<1> QED BY <1>2, <1>3, <1>4, <1>5, <1>6

LEMMA ClaimableStays ==
    ASSUME UNCHANGED run
    PROVE  Claimable' => Claimable
  BY DEF Claimable

\* The steps of run and recover that leave the phases alone.
LEMMA SampleAsideSteps ==
    ASSUME CallInv, SampleInv, NEW p \in Process,
           EnterRun(p) \/ Undecided(p) \/ Freeze(p) \/ Gather(p) \/ Publish(p) \/ FinishRun(p) \/ RecoverRun(p)
    PROVE  SampleInv'
<1>1. UNCHANGED held /\ \A q \in Process \ {p} : me'[q] = me[q]
  BY OthersMe DEF EnterRun, Undecided, Freeze, Gather, Publish, FinishRun, RecoverRun, runVars,
     CallInv, EpisodeInv, Tables, RunStep
<1>2. ASSUME NEW label \in {"run returned", "elsewhere", "claim run", "run raised", "freeze", "gather", "freeze pending",
                            "publish", "finish run", "publication pending"}, Goto(p, label), PhasesStay,
             Claimable' => Claimable
      PROVE  SampleInv'
  BY <1>2, <1>1, SampleLeaves DEF Elsewhere, Submitted, InPhase
<1>3. CASE EnterRun(p)
  <2>1. PICK label \in {"run returned", "elsewhere", "claim run", "run raised"} :
           /\ Goto(p, label)
           /\ run' = run \/ (run.state \notin {"completed", "running"} /\ run' = [run EXCEPT !.state = "queued"])
    BY <1>3 DEF EnterRun, Call
  <2>2. Claimable' => Claimable
    BY <2>1 DEF Claimable, CallInv, EpisodeInv, Tables, RunShape
  <2> QED BY <1>2, <1>3, <2>1, <2>2, RowsPhasesStay DEF EnterRun
<1>4. CASE Undecided(p) \/ Gather(p) \/ RecoverRun(p)
  <2>1. PICK label \in {"freeze", "publish", "run returned", "finish run", "run raised"} : Goto(p, label)
    BY <1>4 DEF Undecided, Gather, RecoverRun
  <2>2. UNCHANGED <<rows, run>>
    BY <1>4 DEF Undecided, Gather, RecoverRun
  <2> QED BY <1>2, <2>1, <2>2, RowsPhasesStay, ClaimableStays
<1>5. CASE Freeze(p)
  BY <1>5, <1>2, OtherPhasesStay, NotPhases, ClaimableStays DEF Freeze, runVars
<1>6. CASE Publish(p)
  BY <1>6, <1>2, OtherPhasesStay, NotPhases, ClaimableStays DEF Publish, runVars
<1>7. CASE FinishRun(p)
  <2>1. PICK label \in {"run returned", "run raised", "publication pending"} :
           Goto(p, label) /\ (run' = run \/ run' = [state |-> "completed", result |-> me[p].payload])
    BY <1>7 DEF FinishRun, Call
  <2>2. Claimable' => Claimable
    <3>1. CASE run' = run
      BY <3>1, ClaimableStays
    <3>2. CASE run' = [state |-> "completed", result |-> me[p].payload]
      BY <3>2 DEF Claimable
    <3> QED BY <2>1, <3>1, <3>2
  <2> QED BY <1>2, <1>7, <2>1, <2>2, RowsPhasesStay DEF FinishRun
<1> QED BY <1>3, <1>4, <1>5, <1>6, <1>7

\* The one claim of the run.
LEMMA SampleClaimStep ==
    ASSUME CallInv, SampleInv, NEW p \in Process, ClaimRun(p)
    PROVE  SampleInv'
<1>1. UNCHANGED <<rows, me, held>>
  BY DEF ClaimRun
<1>2. CASE Goto(p, "run raised")
  BY <1>1, <1>2, SampleLeaves, RowsPhasesStay DEF ClaimRun, Call, Claimable, CallInv, EpisodeInv,
     Tables, RunShape, Elsewhere, Submitted, InPhase
<1>3. CASE Goto(p, "controller") /\ run.state = "queued" /\ run' = [run EXCEPT !.state = "running"]
  <2>1. Claimable /\ ~Claimable'
    BY <1>3 DEF Claimable, CallInv, EpisodeInv, Tables, RunShape
  <2>2. pc'[p] = "controller" /\ \A q \in Process \ {p} : pc'[q] = pc[q]
    BY <1>3 DEF Goto, CallInv, EpisodeInv, Tables
  <2>3. \A ph \in Phase : OfEpisode(ph) => Len(rows'[ph]) # 1
    BY <1>1, <2>1 DEF SampleInv
  <2>4. Measures(p)' => Measures(p)
    BY <1>1, <2>2 DEF Measures, Measuring, Submitted, InPhase
  <2>5. SampleTables'
    BY <1>1, SampleTablesStay, RowsPhasesStay
  <2> QED BY <1>1, <2>1, <2>2, <2>3, <2>4, <2>5, SampleFrame
<1> QED BY <1>2, <1>3 DEF ClaimRun, Call

\* p goes on sampling: the rows of the phases stay, the last one is recorded.
LEMMA SampleGoes ==
    ASSUME CallInv, SampleInv, NEW p \in Process, Samples(p), pc[p] \notin {"dispatched", "record"},
           NEW label \in {"turn", "announce", "close workspace"}, Goto(p, label),
           label = "announce" => OfEpisode(me'[p].phase),
           \A q \in Process \ {p} : me'[q] = me[q], PhasesStay, UNCHANGED <<held, run>>
    PROVE  SampleInv'
<1>1. pc'[p] = label /\ \A q \in Process \ {p} : pc'[q] = pc[q]
  BY DEF Goto, CallInv, EpisodeInv, Tables
<1>2. ~Claimable /\ ~Claimable'
  BY DEF SampleInv, Claimable
<1>3. \A ph \in Phase : OfEpisode(ph) => Len(rows'[ph]) # 1
  BY DEF SampleInv, PhasesStay
<1>4. Measures(p)' => Measures(p)
  BY <1>1 DEF Measures, Measuring, Submitted, InPhase
<1> QED BY <1>1, <1>2, <1>3, <1>4, SampleTablesStay, SampleFrame DEF PhasesStay

\* The steps of the episode between its phases.
LEMMA SampleEpisodeSteps ==
    ASSUME CallInv, SampleInv, NEW p \in Process,
           AnnounceRun(p) \/ Turn(p) \/ AfterGeneration(p) \/ AfterAction(p)
    PROVE  SampleInv'
<1>1. UNCHANGED <<held, run>> /\ \A q \in Process \ {p} : me'[q] = me[q]
  BY OthersMe DEF AnnounceRun, Turn, AfterGeneration, AfterAction, RunStep, runVars
<1>2. Samples(p) /\ pc[p] \in {"controller", "turn", "recorded"}
  BY DEF AnnounceRun, Turn, AfterGeneration, AfterAction, At, Samples, Sampling, OfEpisode, InPhase
<1>3. ASSUME NEW label \in {"run raised", "invalid", "infrastructure"}, Goto(p, label), PhasesStay
      PROVE  SampleInv'
  BY <1>3, <1>1, SampleLeaves, ClaimableStays DEF Elsewhere, Submitted, InPhase
<1>4. CASE AnnounceRun(p)
  BY <1>4, <1>1, <1>2, <1>3, OtherPhasesStay, NotPhases, SampleGoes DEF AnnounceRun
<1>5. CASE Turn(p) \/ AfterGeneration(p) \/ AfterAction(p)
  <2>1. PhasesStay
    BY <1>5, RowsPhasesStay DEF Turn, AfterGeneration, AfterAction
  <2>2. \/ \E label \in {"invalid", "infrastructure", "close workspace", "turn"} : Goto(p, label)
        \/ Goto(p, "announce") /\ \E kind \in {"generation", "action"} : Mine(p, "phase", <<kind, me[p].turn>>)
    BY <1>5 DEF Turn, AfterGeneration, AfterAction
  <2>3. CASE \E label \in {"invalid", "infrastructure", "close workspace", "turn"} : Goto(p, label)
    <3>1. PICK label \in {"invalid", "infrastructure", "close workspace", "turn"} : Goto(p, label)
      BY <2>3
    <3>2. CASE label \in {"invalid", "infrastructure"}
      BY <1>3, <2>1, <3>1, <3>2
    <3>3. CASE label \in {"close workspace", "turn"}
      BY <1>1, <1>2, <2>1, <3>1, <3>3, SampleGoes
    <3> QED BY <3>1, <3>2, <3>3
  <2>4. CASE Goto(p, "announce") /\ \E kind \in {"generation", "action"} : Mine(p, "phase", <<kind, me[p].turn>>)
    <3>1. PICK kind \in {"generation", "action"} : Mine(p, "phase", <<kind, me[p].turn>>)
      BY <2>4
    <3>2. me'[p].phase = <<kind, me[p].turn>>
      BY <3>1, PhaseSet
    <3>3. OfEpisode(me'[p].phase)
      BY <3>2 DEF OfEpisode
    <3> QED BY <1>1, <1>2, <2>1, <2>4, <3>3, SampleGoes
  <2> QED BY <2>2, <2>3, <2>4
<1> QED BY <1>4, <1>5

\* A revision of a phase's row.
LEMMA ObservePhase ==
    ASSUME CallInv, SampleInv, NEW ph \in Phase, NEW p, NEW n \in {1, 2}, NEW receipts, NEW ok, NEW bad,
           Observe(p, ph, n, receipts, ok, bad)
    PROVE  /\ held' = held => SampleTables'
           /\ \A o \in Phase \ {ph} : rows'[o] = rows[o]
           /\ (Goto(p, ok) /\ (n = 2 => Confirmed(rows'[ph]))) \/ Goto(p, bad)
<1>1. ph \in DOMAIN rows /\ Short(rows[ph]) /\ Phase \subseteq DOMAIN rows
  BY DEF CallInv, EpisodeInv, Tables, SampleInv, SampleTables
<1>2. /\ \A o \in DOMAIN rows \ {ph} : rows'[o] = rows[o]
      /\ Short(rows'[ph])
      /\ (Goto(p, ok) /\ (n = 2 => Confirmed(rows'[ph]))) \/ Goto(p, bad)
  BY <1>1, ObserveShort
<1>3. \A o \in Phase : Short(rows'[o])
  BY <1>1, <1>2 DEF SampleInv, SampleTables
<1> QED BY <1>1, <1>2, <1>3 DEF SampleInv, SampleTables, Short, IsRow

LEMMA SampleAnnounceStep ==
    ASSUME CallInv, SampleInv, NEW p \in Process, Announce(p)
    PROVE  SampleInv'
<1>1. pc[p] = "announce" /\ UNCHANGED <<run, me, held>>
  BY DEF Announce, At, runVars
<1>2. me[p].phase \in Phase
  BY <1>1 DEF CallInv, EpisodeInv, Placed
<1>3. PICK ph \in Phase : ph = me[p].phase
  BY <1>2
<1>4. PICK bad \in {"infrastructure", "run raised"} : Observe(p, ph, 1, {Receipt("intent", me[p].stamp)}, "dispatched", bad)
  BY <1>3 DEF Announce
<1>5. /\ SampleTables' /\ \A o \in Phase \ {ph} : rows'[o] = rows[o]
      /\ Goto(p, "dispatched") \/ Goto(p, bad)
  BY <1>1, <1>4, ObservePhase
<1>6. PICK label \in {"dispatched", "infrastructure", "run raised"} : Goto(p, label)
  BY <1>5
<1>7. pc'[p] = label /\ \A q \in Process \ {p} : pc'[q] = pc[q]
  BY <1>6 DEF Goto, CallInv, EpisodeInv, Tables
<1>8. CASE OfEpisode(ph)
  <2>1. Samples(p)
    BY <1>1, <1>3, <1>8 DEF Samples, Sampling, InPhase
  <2>2. ~Claimable /\ ~Claimable'
    BY <1>1, <2>1 DEF SampleInv, Claimable
  <2>3. \A o \in Phase : OfEpisode(o) /\ Len(rows'[o]) = 1 => o = ph
    BY <1>1, <1>5, <2>1 DEF SampleInv
  <2>4. Measures(p)' => Measures(p)
    BY <1>1, <1>3, <1>7, <1>8 DEF Measures, Measuring, Submitted, InPhase
  <2>5. Samples(p)' => label = "dispatched"
    BY <1>1, <1>7 DEF Samples, Sampling, InPhase
  <2>6. \A o \in Phase : ~OfEpisode(o) => rows'[o] = rows[o]
    BY <1>5, <1>8
  <2> QED BY <1>1, <1>3, <1>5, <1>7, <2>1, <2>2, <2>3, <2>4, <2>5, <2>6, SampleFrame
<1>9. CASE ~OfEpisode(ph)
  BY <1>1, <1>3, <1>9, <1>5, <1>6, SampleMeasured, ClaimableStays DEF Measures, Measuring, InPhase,
     Sampling
<1> QED BY <1>8, <1>9

LEMMA SampleDispatchSteps ==
    ASSUME CallInv, SampleInv, NEW p \in Process, DispatchEpisode(p) \/ DispatchGrade(p)
    PROVE  SampleInv'
<1>1. /\ pc[p] = "dispatched" /\ UNCHANGED <<run, rows, held>> /\ PhasesStay
      /\ \A q \in Process \ {p} : me'[q] = me[q]
  BY OthersMe, RowsPhasesStay DEF DispatchEpisode, DispatchGrade, At, RunStep
<1>2. SampleTables'
  BY <1>1, SampleTablesStay
<1>3. CASE DispatchEpisode(p)
  <2>1. PICK label \in {"record", "infrastructure"} : Goto(p, label)
    BY <1>3 DEF DispatchEpisode
  <2>2. me'[p].phase = me[p].phase /\ OfEpisode(me[p].phase)
    BY <1>3, PhaseStays DEF DispatchEpisode, Fresh, OfEpisode
  <2>3. pc'[p] = label /\ \A q \in Process \ {p} : pc'[q] = pc[q]
    BY <2>1 DEF Goto, CallInv, EpisodeInv, Tables
  <2>4. Samples(p)
    BY <1>1, <2>2 DEF Samples, Sampling, InPhase
  <2>5. ~Claimable /\ ~Claimable'
    BY <1>1, <2>4 DEF SampleInv, Claimable
  <2>6. Measures(p)' => Measures(p)
    BY <1>1, <2>2, <2>3 DEF Measures, Measuring, Submitted, InPhase
  <2>7. Samples(p)' => label = "record"
    BY <1>1, <2>3 DEF Samples, Sampling, InPhase
  <2>8. \A o \in Phase : OfEpisode(o) /\ Len(rows'[o]) = 1 => me'[p].phase = o
    BY <1>1, <2>2, <2>4 DEF SampleInv
  <2> QED BY <1>1, <1>2, <2>3, <2>4, <2>5, <2>6, <2>7, <2>8, SampleFrame
<1>4. CASE DispatchGrade(p)
  <2>1. PICK label \in {"record", "grade pending"} : Goto(p, label)
    BY <1>4 DEF DispatchGrade
  <2>2. me'[p].phase = me[p].phase /\ ~OfEpisode(me[p].phase)
    <3>1. \E g, s : me' = [me EXCEPT ![p].result = g] \/ me' = [me EXCEPT ![p].result = g, ![p].intent = s]
      BY <1>4 DEF DispatchGrade
    <3>2. "phase" \in DOMAIN me[p] /\ p \in DOMAIN me
      BY DEF CallInv, EpisodeInv, Tables, Fresh
    <3> QED BY <1>4, <3>1, <3>2 DEF DispatchGrade, OfEpisode
  <2>3. Measures(p) /\ ~Sampling(label, me'[p].phase)
    BY <1>1, <2>2 DEF Measures, Measuring, Sampling, InPhase
  <2> QED BY <1>1, <1>2, <2>1, <2>3, SampleMeasured, ClaimableStays
<1> QED BY <1>3, <1>4

LEMMA NotSingle == \A s : Confirmed(s) => Len(s) # 1
  BY DEF Confirmed

LEMMA SampleRecordSteps ==
    ASSUME CallInv, OwnInv, SampleInv, NEW p \in Process, Record(p) \/ RecordRecovered(p)
    PROVE  SampleInv'
<1>1. pc[p] \in {"record", "record recovered"} /\ UNCHANGED <<run, me, held>>
  BY DEF Record, RecordRecovered, At, runVars
<1>2. me[p].phase \in Phase
  BY <1>1 DEF CallInv, EpisodeInv, Placed
<1>3. PICK ph \in Phase : ph = me[p].phase
  BY <1>2
<1>4. PICK receipts, bad : bad \in {"unconfirmed", "run raised"} /\ Observe(p, ph, 2, receipts, "recorded", bad)
  BY <1>3 DEF Record, RecordRecovered
<1>5. /\ SampleTables' /\ \A o \in Phase \ {ph} : rows'[o] = rows[o]
      /\ (Goto(p, "recorded") /\ Confirmed(rows'[ph])) \/ Goto(p, bad)
  BY <1>1, <1>4, ObservePhase
<1>6. PICK label \in {"recorded", "unconfirmed", "run raised"} :
         Goto(p, label) /\ (label = "recorded" => Confirmed(rows'[ph]))
  BY <1>4, <1>5
<1>7. pc'[p] = label /\ \A q \in Process \ {p} : pc'[q] = pc[q]
  BY <1>6 DEF Goto, CallInv, EpisodeInv, Tables
<1>8. CASE OfEpisode(ph)
  <2>1. Samples(p)
    BY <1>1, <1>3, <1>8, Stage DEF Along, OfEpisode, Samples, Sampling, InPhase
  <2>2. ~Claimable /\ ~Claimable'
    BY <1>1, <2>1 DEF SampleInv, Claimable
  <2>3. label = "recorded" => \A o \in Phase : OfEpisode(o) => Len(rows'[o]) # 1
    BY <1>6, <1>1, <1>3, <2>1, <1>5, NotSingle DEF SampleInv
  <2>4. Measures(p)' => Measures(p)
    BY <1>1, <1>3, <1>7, <1>8 DEF Measures, Measuring, Submitted, InPhase
  <2>5. Samples(p)' => label = "recorded"
    BY <1>1, <1>7 DEF Samples, Sampling, InPhase
  <2>6. \A o \in Phase : ~OfEpisode(o) => rows'[o] = rows[o]
    BY <1>5, <1>8
  <2> QED BY <1>1, <1>3, <1>5, <1>7, <2>1, <2>2, <2>3, <2>4, <2>5, <2>6, SampleFrame
<1>9. CASE ~OfEpisode(ph)
  BY <1>1, <1>3, <1>9, <1>5, <1>6, SampleMeasured, ClaimableStays DEF Measures, Measuring, InPhase,
     Sampling
<1> QED BY <1>8, <1>9

\* The workspace is closed: the episode is over, and all of it is recorded.
LEMMA SampleCloseStep ==
    ASSUME CallInv, SampleInv, NEW p \in Process, CloseWorkspace(p)
    PROVE  SampleInv'
<1>1. pc[p] = "close workspace" /\ UNCHANGED <<run, rows, me, held>> /\ PhasesStay
  BY RowsPhasesStay DEF CloseWorkspace, At, runVars
<1>2. PICK label \in {"submit", "infrastructure"} : Goto(p, label)
  BY DEF CloseWorkspace
<1>3. pc'[p] = label /\ \A q \in Process \ {p} : pc'[q] = pc[q]
  BY <1>2 DEF Goto, CallInv, EpisodeInv, Tables
<1>4. Samples(p)
  BY <1>1 DEF Samples, Sampling
<1>5. ~Samples(p)'
  BY <1>3 DEF Samples, Sampling, InPhase
<1>6. ~Claimable /\ ~Claimable'
  BY <1>1, <1>4 DEF SampleInv, Claimable
<1>7. Over'
  BY <1>1, <1>3, <1>4, <1>5, <1>6 DEF SampleInv, Samples, Over, OfEpisode
<1> QED BY <1>1, <1>3, <1>5, <1>6, <1>7, SampleTablesStay, SampleFrame

LEMMA SampleGradeSteps ==
    ASSUME CallInv, SampleInv, NEW p \in Process, Submit(p) \/ StartGrade(p) \/ AfterGrade(p)
    PROVE  SampleInv'
<1>1. /\ UNCHANGED <<run, rows, held>> /\ PhasesStay
      /\ \A q \in Process \ {p} : me'[q] = me[q]
  BY OthersMe, RowsPhasesStay DEF Submit, StartGrade, AfterGrade, RunStep, runVars
<1>2. SampleTables'
  BY <1>1, SampleTablesStay
<1>3. Measures(p)
  BY DEF Submit, StartGrade, AfterGrade, At, Measures, Measuring, InPhase, OfEpisode
<1>4. CASE Goto(p, "announce") /\ Mine(p, "phase", <<"grade", me[p].index>>)
  <2>1. ~Sampling("announce", me'[p].phase)
    BY <1>4, PhaseSet DEF Sampling, OfEpisode
  <2> QED BY <1>1, <1>2, <1>3, <1>4, <2>1, SampleMeasured, ClaimableStays
<1>5. CASE \E label \in {"invalid", "infrastructure", "run raised", "grade", "submission pending", "record recovered",
                         "freeze"} : Goto(p, label)
  <2>1. PICK label \in {"invalid", "infrastructure", "run raised", "grade", "submission pending", "record recovered",
                        "freeze"} : Goto(p, label)
    BY <1>5
  <2>2. ~Sampling(label, me'[p].phase)
    BY DEF Sampling, InPhase
  <2> QED BY <1>1, <1>2, <1>3, <2>1, <2>2, SampleMeasured, ClaimableStays
<1> QED BY <1>4, <1>5 DEF Submit, StartGrade, AfterGrade, Refused, Failed, Call

\* A pending publication is appended: the oldest one stays.
LEMMA AppendHead ==
    ASSUME NEW s, IsRow(s), NEW x
    PROVE  Append(s, x) # <<>> /\ Head(Append(s, x)) = (IF s = <<>> THEN x ELSE Head(s))
<1>1. PICK t : t = Append(s, x)
  OBVIOUS
<1>2. IsRow(t) /\ t # <<>> /\ (IF s = <<>> THEN t[1] = x ELSE t[1] = s[1])
  BY <1>1, AppendRow
<1>3. Head(t) = t[1] /\ (s # <<>> => Head(s) = s[1])
  BY <1>2 DEF IsRow
<1> QED BY <1>1, <1>2, <1>3

LEMMA SampleRaiseStep ==
    ASSUME CallInv, SampleInv, NEW p \in Process, Raise(p)
    PROVE  SampleInv'
<1>1. /\ pc[p] \in Pendings \cup {"unconfirmed", "elsewhere"}
      /\ UNCHANGED <<run, rows, me>> /\ PhasesStay /\ Goto(p, "run raised")
  BY RowsPhasesStay DEF Raise
<1>2. PICK x : x.kind = pc[p] /\ held' = [held EXCEPT ![p] = Append(@, x)]
  BY DEF Raise
<1>3. IsRow(held[p]) /\ DOMAIN held = Process
  BY DEF SampleInv, SampleTables
<1>4. PICK h : h = Append(held[p], x)
  OBVIOUS
<1>5. IsRow(h) /\ h # <<>> /\ Head(h) = IF held[p] = <<>> THEN x ELSE Head(held[p])
  BY <1>3, <1>4, AppendRow, AppendHead
<1>6. held' = [held EXCEPT ![p] = h]
  BY <1>2, <1>4
<1>7. SampleTables'
  BY <1>3, <1>5, <1>6, <1>1 DEF SampleInv, SampleTables, Short, IsRow
<1>8. pc'[p] = "run raised" /\ \A q \in Process \ {p} : pc'[q] = pc[q]
  BY <1>1 DEF Goto, CallInv, EpisodeInv, Tables
<1>9. Measures(p)' => Measures(p)
  BY <1>3, <1>6, <1>2, <1>5, <1>1, <1>8 DEF Measuring, Submitted, InPhase, Measures
<1>10. ~Samples(p)'
  BY <1>8 DEF Samples, Sampling, InPhase
<1>11. \A q \in Process \ {p} : held'[q] = held[q]
  BY <1>3, <1>6
<1> QED BY <1>1, <1>7, <1>8, <1>9, <1>10, <1>11, ClaimableStays, SampleFrame

LEMMA SampleCrashStep ==
    ASSUME CallInv, SampleInv, NEW p \in Process, Crash(p)
    PROVE  SampleInv'
<1>1. /\ UNCHANGED <<run, rows>> /\ Goto(p, "idle")
      /\ me' = [me EXCEPT ![p] = Fresh] /\ held' = [held EXCEPT ![p] = <<>>]
  BY DEF Crash, Return
<1>2. pc'[p] = "idle" /\ \A q \in Process \ {p} : pc'[q] = pc[q] /\ me'[q] = me[q]
  BY <1>1 DEF Goto, CallInv, EpisodeInv, Tables
<1>3. held'[p] = <<>> /\ \A q \in Process \ {p} : held'[q] = held[q]
  BY <1>1 DEF SampleInv, SampleTables
<1>4. SampleTables'
  BY <1>3, <1>1 DEF IsRow, SampleInv, SampleTables, Short
<1>5. ~Samples(p)' /\ ~Measures(p)'
  BY <1>2, <1>3 DEF Samples, Sampling, Measures, Measuring, Submitted, InPhase
<1> QED BY <1>1, <1>2, <1>3, <1>4, <1>5, ClaimableStays, SampleFrame

\* What may come of retry_publication, for the places and the record of p.
LEMMA RetryPlaces ==
    ASSUME CallInv, NEW p \in Process, NEW x, RetryPublication(p, x)
    PROVE  /\ \E label \in {"run returned", "run raised", "submit", "freeze", "publish", "grade"} :
                 /\ Goto(p, label)
                 /\ label = "submit" => x.kind = "submission pending"
                 /\ label = "freeze" => x.kind = "freeze pending"
                 /\ label = "publish" => x.kind = "publication pending"
                 /\ label = "grade" => x.kind = "grade pending"
           /\ UNCHANGED <<rows, run, held, calls, verdicts>>
           /\ retries' = retries + 1
           /\ \A q \in Process \ {p} : me'[q] = me[q]
  BY DEF RetryPublication, CallInv, EpisodeInv, Tables, Call, Pendings

\* A process remembers the oldest publication pending in it.
PendingInv == \A p \in Process :
    parent[p].pending # Nothing => held[p] # <<>> /\ parent[p].pending = Head(held[p])

LEMMA SampleRetryStep ==
    ASSUME CallInv, SampleInv, PendingInv, NEW p \in Process, RetryChild(p)
    PROVE  SampleInv'
<1>1. CASE RecoverRun(p)
  BY <1>1, SampleAsideSteps
<1>2. CASE RetryPublication(p, parent[p].pending)
  <2>1. PICK x : x = parent[p].pending
    OBVIOUS
  <2>2. held[p] # <<>> /\ x = Head(held[p])
    BY <2>1 DEF RetryChild, PendingInv
  <2>3. PICK label \in {"run returned", "run raised", "submit", "freeze", "publish", "grade"} :
           /\ Goto(p, label)
           /\ label = "submit" => x.kind = "submission pending"
           /\ label = "grade" => x.kind = "grade pending"
    BY ZenonT(30), <1>2, <2>1, RetryPlaces
  <2>4. /\ UNCHANGED <<rows, run, held>> /\ PhasesStay
        /\ \A q \in Process \ {p} : me'[q] = me[q]
    BY <1>2, RetryPlaces, RowsPhasesStay
  <2>5. CASE label \in {"submit", "grade"}
    BY <2>2, <2>3, <2>5, <2>4, SampleMeasured, SampleTablesStay, ClaimableStays DEF Measures,
       Measuring, Submitted, Sampling, InPhase
  <2>6. CASE label \notin {"submit", "grade"}
    BY <2>3, <2>6, <2>4, SampleLeaves, ClaimableStays DEF Elsewhere, Submitted, InPhase
  <2> QED BY <2>5, <2>6
<1> QED BY <1>1, <1>2 DEF RetryChild

LEMMA SampleInit == Init => SampleInv
<1> SUFFICES ASSUME Init PROVE SampleInv
  OBVIOUS
<1>1. rows = [r \in Rows |-> <<>>] /\ pc = [p \in Process |-> "idle"] /\ held = [p \in Process |-> <<>>]
  BY DEF Init, RunInit
<1>2. \A ph \in Phase : rows[ph] = <<>>
  BY <1>1 DEF Rows, RunRows
<1>3. IsRow(<<>>) /\ Len(<<>>) = 0 /\ Short(<<>>)
  BY DEF IsRow, Short
<1>4. SampleTables
  BY <1>1, <1>2, <1>3 DEF SampleTables
<1>5. \A p \in Process : ~Samples(p) /\ ~Measures(p)
  BY <1>1 DEF Samples, Sampling, Measures, Measuring, Submitted, InPhase
<1> QED BY <1>2, <1>4, <1>5 DEF SampleInv

LEMMA SampleNext == CallInv /\ OwnInv /\ SampleInv /\ PendingInv /\ [Next]_vars => SampleInv'
<1> SUFFICES ASSUME CallInv, OwnInv, SampleInv, PendingInv, [Next]_vars PROVE SampleInv'
  OBVIOUS
<1>1. CASE UNCHANGED vars
  BY <1>1 DEF vars, ledgerVars, runVars, SampleInv, SampleTables, Short, IsRow, Samples, Measures, Over, Claimable
<1>2. CASE Next
  <2>1. PICK p \in Process : \/ SessionStep(p) /\ UNCHANGED <<runVars, parentVars>>
                             \/ RunStep(p) /\ UNCHANGED <<sessionVars, parentVars>>
                             \/ ParentStep(p)
    BY <1>2 DEF Next
  <2>2. CASE SessionStep(p) /\ UNCHANGED <<runVars, parentVars>>
    BY <2>2, SampleSessionSteps
  <2>3. CASE RunStep(p)
    BY <2>3, SampleAsideSteps, SampleClaimStep, SampleEpisodeSteps, SampleAnnounceStep, SampleDispatchSteps,
       SampleRecordSteps, SampleCloseStep, SampleGradeSteps, SampleRaiseStep DEF RunStep
  <2>4. CASE ParentStep(p)
    BY <2>4, SampleParentSteps, SampleRetryStep, SampleCrashStep DEF ParentStep
  <2> QED BY <2>1, <2>2, <2>3, <2>4
<1> QED BY <1>1, <1>2

-----------------------------------------------------------------------------
(* Pending publications (GradeAccounted).                                  *)

\* The places of run up to the claim of the child.
Early == {"claim", "parent", "create", "announce startup", "construct", "publish startup", "startup done",
          "activate", "publish activation", "assign", "assigned", "run", "claim run"}

\* The outer job was claimed.
Claimed == {"running", "completed"}

\* Nothing is pending in a first run; n counts the retries.
Unpending(place, h, n) ==
    /\ place \in Early => h = <<>>
    /\ place \in Driving => h = <<>> \/ n > 0

HeldInv ==
    /\ job.state \notin Claimed => \A p \in Process : pc[p] \in {"idle", "claim"} /\ held[p] = <<>>
    /\ PendingInv
    /\ \A p \in Process : Unpending(pc[p], held[p], retries)

LEMMA HeldFrame ==
    ASSUME CallInv, HeldInv, NEW p \in Process, NEW label, Goto(p, label), retries' \in {retries, retries + 1},
           \A q \in Process \ {p} : held'[q] = held[q] /\ parent'[q].pending = parent[q].pending,
           job'.state \notin Claimed => job.state \notin Claimed /\ label \in {"idle", "claim"} /\ held'[p] = <<>>,
           parent'[p].pending # Nothing => held'[p] # <<>> /\ parent'[p].pending = Head(held'[p]),
           Unpending(label, held'[p], retries')
    PROVE  HeldInv'
  BY DEF Goto, CallInv, EpisodeInv, Tables, HeldInv, Unpending, PendingInv, Claimed

\* p goes on; what is pending stays.
LEMMA HeldGoes ==
    ASSUME CallInv, HeldInv, NEW p \in Process, NEW label, Goto(p, label), UNCHANGED <<held, retries>>,
           \A q \in Process : parent'[q].pending = parent[q].pending,
           job'.state \notin Claimed => job.state \notin Claimed /\ label \in {"idle", "claim"},
           label \in Early => pc[p] \in Early \/ job.state \notin Claimed,
           label \in Driving => pc[p] \in Driving \cup Early
    PROVE  HeldInv'
  BY HeldFrame DEF HeldInv, Unpending, PendingInv

\* The places of the session.
Inner == {"announce startup", "startup failed", "construct", "publish startup", "startup done", "close failed",
          "close done", "close session", "announce shutdown", "close unannounced", "publish shutdown"}

\* The rows of the run stay.
RunRowsStay ==
    /\ DOMAIN rows' = DOMAIN rows
    /\ \A name \in (Phase \cup {Frozen}) \cap DOMAIN rows : rows'[name] = rows[name]

LEMMA SameRunRows ==
    ASSUME UNCHANGED rows
    PROVE  RunRowsStay
  BY DEF RunRowsStay

LEMMA OtherRunRows ==
    ASSUME NEW p, NEW name, name \notin Phase \cup {Frozen}, NEW n, NEW receipts, NEW ok, NEW bad,
           Observe(p, name, n, receipts, ok, bad)
    PROVE  RunRowsStay /\ (Goto(p, ok) \/ Goto(p, bad))
  BY ObserveOthers DEF RunRowsStay

LEMMA OtherNames == {Controller, Startup, Shutdown, Abort, Request, Activation, Child} \cap (Phase \cup {Frozen}) = {}
  BY NotPhases DEF Controller, Frozen, Startup, Shutdown, Abort, Request, Activation, Child

LEMMA SessionPlaces ==
    ASSUME NEW p \in Process, SessionStep(p)
    PROVE  /\ pc[p] \notin {"idle", "claim"} /\ RunRowsStay
           /\ \E label \in Inner : Goto(p, label) /\ (label \in Early => pc[p] \in Early)
<1>1. CASE CheckKey(p)
  <2>1. PICK label \in {"announce startup", "startup failed"} : Goto(p, label)
    BY <1>1 DEF CheckKey
  <2>2. pc[p] = "create" /\ rows' = rows
    BY <1>1 DEF CheckKey, At
  <2> QED BY <2>1, <2>2, SameRunRows DEF Inner, Early
<1>2. CASE AnnounceStartup(p)
  BY <1>2, OtherRunRows, OtherNames DEF AnnounceStartup, At, Inner, Early
<1>3. CASE Construct(p)
  <2>1. PICK label \in {"publish startup", "startup failed"} : Goto(p, label)
    BY <1>3 DEF Construct
  <2>2. pc[p] = "construct" /\ rows' = rows
    BY <1>3 DEF Construct, At
  <2> QED BY <2>1, <2>2, SameRunRows DEF Inner, Early
<1>4. CASE PublishStartup(p)
  BY <1>4, OtherRunRows, OtherNames DEF PublishStartup, At, Inner, Early
<1>5. CASE Close(p)
  <2>1. PICK label \in {"close failed", "close done", "close session", "announce shutdown"} : Goto(p, label)
    BY <1>5 DEF Close
  <2>2. pc[p] = "close" /\ rows' = rows
    BY <1>5 DEF Close, At
  <2> QED BY <2>1, <2>2, SameRunRows DEF Inner, Early
<1>6. Key(p) \notin Phase \cup {Frozen}
  BY OtherNames DEF Key
<1>7. CASE AnnounceShutdown(p)
  BY <1>7, <1>6, OtherRunRows DEF AnnounceShutdown, At, Inner, Early
<1>8. CASE CloseSession(p)
  <2>1. PICK label \in {"close failed", "publish shutdown"} : Goto(p, label)
    BY <1>8 DEF CloseSession
  <2>2. pc[p] \in {"close session", "close unannounced"} /\ rows' = rows
    BY <1>8 DEF CloseSession
  <2> QED BY <2>1, <2>2, SameRunRows DEF Inner, Early
<1>9. CASE PublishShutdown(p)
  BY <1>9, <1>6, OtherRunRows DEF PublishShutdown, At, Inner, Early
<1> QED BY <1>1, <1>2, <1>3, <1>4, <1>5, <1>7, <1>8, <1>9 DEF SessionStep

\* From one place of the child to another: only the claim and the episode itself go on in it.
Onwards(place, label) ==
    /\ place \notin {"idle", "claim"} /\ label \notin {"idle", "claim"}
    /\ label \in Early => place \in Early
    /\ label \in Driving => place \in Driving \cup Early

LEMMA RunPlaces ==
    ASSUME CallInv, NEW p \in Process, RunStep(p)
    PROVE  \E label : Goto(p, label) /\ Onwards(pc[p], label)
<1>1. CASE EnterRun(p)
  <2>1. PICK label \in {"run returned", "elsewhere", "claim run", "run raised"} : Goto(p, label)
    BY <1>1 DEF EnterRun, Call
  <2> QED BY <1>1, <2>1 DEF EnterRun, At, Onwards, Early, Driving
<1>2. CASE ClaimRun(p)
  <2>1. PICK label \in {"controller", "run raised"} : Goto(p, label)
    BY <1>2 DEF ClaimRun, Call
  <2> QED BY <1>2, <2>1 DEF ClaimRun, At, Onwards, Early, Driving
<1>3. CASE AnnounceRun(p)
  BY <1>3, ObserveGoes DEF AnnounceRun, At, Onwards, Early, Driving
<1>4. CASE Announce(p)
  <2>1. PICK bad \in {"infrastructure", "run raised"} :
           Observe(p, me[p].phase, 1, {Receipt("intent", me[p].stamp)}, "dispatched", bad)
    BY <1>4 DEF Announce
  <2>2. Goto(p, "dispatched") \/ Goto(p, bad)
    BY <2>1, ObserveGoes
  <2> QED BY <1>4, <2>2 DEF Announce, At, Onwards, Early, Driving
<1>5. CASE Record(p) \/ RecordRecovered(p)
  BY <1>5, ObserveGoes DEF Record, RecordRecovered, At, Onwards, Early, Driving
<1>6. CASE Freeze(p) \/ Publish(p)
  <2>1. \E label \in {"gather", "freeze pending", "finish run", "publication pending"} : Goto(p, label)
    BY <1>6, ObserveGoes DEF Freeze, Publish
  <2> QED BY <1>6, <2>1 DEF Freeze, Publish, At, Onwards, Early, Driving
<1>7. CASE Turn(p) \/ AfterGeneration(p) \/ AfterAction(p) \/ CloseWorkspace(p) \/ DispatchEpisode(p) \/ DispatchGrade(p)
  <2>1. PICK label \in {"invalid", "infrastructure", "close workspace", "announce", "turn", "submit", "record",
                        "grade pending"} : Goto(p, label)
    BY <1>7 DEF Turn, AfterGeneration, AfterAction, CloseWorkspace, DispatchEpisode, DispatchGrade
  <2> QED BY <1>7, <2>1 DEF Turn, AfterGeneration, AfterAction, CloseWorkspace, DispatchEpisode, DispatchGrade,
                            At, Onwards, Early, Driving
<1>8. CASE Submit(p) \/ StartGrade(p) \/ AfterGrade(p)
  <2>1. PICK label \in {"invalid", "infrastructure", "run raised", "grade", "submission pending", "announce",
                        "record recovered", "freeze"} : Goto(p, label)
    BY <1>8 DEF Submit, StartGrade, AfterGrade, Refused, Failed, Call
  <2> QED BY <1>8, <2>1 DEF Submit, StartGrade, AfterGrade, At, Onwards, Early, Driving
<1>9. CASE Undecided(p) \/ Gather(p) \/ Raise(p)
  <2>1. PICK label \in {"freeze", "publish", "run raised"} : Goto(p, label)
    BY <1>9 DEF Undecided, Gather, Raise
  <2> QED BY <1>9, <2>1 DEF Undecided, Gather, Raise, Pendings, At, Onwards, Early, Driving
<1>10. CASE FinishRun(p)
  <2>1. PICK label \in {"run returned", "run raised", "publication pending"} : Goto(p, label)
    BY <1>10 DEF FinishRun, Call
  <2> QED BY <1>10, <2>1 DEF FinishRun, At, Onwards, Early, Driving
<1> QED BY <1>1, <1>2, <1>3, <1>4, <1>5, <1>6, <1>7, <1>8, <1>9, <1>10 DEF RunStep

LEMMA RunKeeps ==
    ASSUME NEW p \in Process, RunStep(p)
    PROVE  UNCHANGED retries /\ (held' = held \/ Raise(p))
  BY DEF RunStep, EnterRun, ClaimRun, AnnounceRun, Turn, Announce, DispatchEpisode, DispatchGrade, Record, RecordRecovered,
         AfterGeneration, AfterAction, CloseWorkspace, Submit, StartGrade, AfterGrade, Undecided, Freeze, Gather, Publish,
         FinishRun, Raise, runVars

\* Whoever is past the claim finds the job claimed.
LEMMA PastClaim ==
    ASSUME HeldInv, NEW p \in Process, pc[p] \notin {"idle", "claim"}
    PROVE  job.state \in Claimed
  BY DEF HeldInv

LEMMA HeldRunSteps ==
    ASSUME CallInv, SampleInv, HeldInv, NEW p \in Process, RunStep(p), UNCHANGED <<sessionVars, parentVars>>
    PROVE  HeldInv'
<1>1. UNCHANGED <<job, parent, retries>>
  BY RunKeeps DEF parentVars
<1>2. PICK label : Goto(p, label) /\ Onwards(pc[p], label)
  BY RunPlaces
<1>3. pc[p] \notin {"idle", "claim"} /\ job.state \in Claimed
  BY <1>2, PastClaim DEF Onwards
<1>4. CASE held' = held
  BY <1>1, <1>2, <1>3, <1>4, HeldGoes DEF Onwards
<1>5. CASE Raise(p)
  <2>1. Goto(p, "run raised")
    BY <1>5 DEF Raise
  <2>2. PICK x : held' = [held EXCEPT ![p] = Append(@, x)]
    BY <1>5 DEF Raise
  <2>3. IsRow(held[p]) /\ DOMAIN held = Process
    BY DEF SampleInv, SampleTables
  <2>4. held'[p] = Append(held[p], x) /\ \A q \in Process \ {p} : held'[q] = held[q]
    BY <2>2, <2>3
  <2>5. held'[p] # <<>> /\ (held[p] # <<>> => Head(held'[p]) = Head(held[p]))
    BY <2>3, <2>4, AppendHead
  <2>6. Unpending("run raised", held'[p], retries)
    BY DEF Unpending, Early, Driving
  <2>7. parent[p].pending # Nothing => held'[p] # <<>> /\ parent[p].pending = Head(held'[p])
    BY <2>5 DEF HeldInv, PendingInv
  <2>8. retries' \in {retries, retries + 1}
    BY <1>1
  <2> QED BY <1>1, <1>3, <2>1, <2>4, <2>6, <2>7, <2>8, HeldFrame
<1> QED BY <1>4, <1>5, RunKeeps

LEMMA HeldSessionSteps ==
    ASSUME CallInv, HeldInv, NEW p \in Process, SessionStep(p), UNCHANGED <<runVars, parentVars>>
    PROVE  HeldInv'
<1>1. UNCHANGED <<job, parent, held, retries>>
  BY DEF runVars, parentVars
<1>2. PICK label \in Inner : Goto(p, label) /\ (label \in Early => pc[p] \in Early)
  BY SessionPlaces
<1>3. job.state \in Claimed
  BY SessionPlaces, PastClaim
<1>4. label \notin Driving \cup {"idle", "claim"}
  BY DEF Inner, Driving
<1> QED BY <1>1, <1>2, <1>3, <1>4, HeldGoes

\* The outer job goes on, with what it remembers of a pending publication.
LEMMA HeldParent ==
    ASSUME CallInv, BindInv, HeldInv, NEW p \in Process, NEW label, Goto(p, label), UNCHANGED runVars,
           \/ UNCHANGED parent
           \/ \E field \in DOMAIN Unknown \ {"pending"} : \E value : Remember(p, field, value),
           job'.state \notin Claimed => job.state \notin Claimed /\ label \in {"idle", "claim"},
           label \in Early => pc[p] \in Early \/ job.state \notin Claimed,
           label \notin Driving
    PROVE  HeldInv'
<1>1. \A q \in Process : parent'[q].pending = parent[q].pending
  <2>1. CASE UNCHANGED parent
    BY <2>1
  <2>2. CASE \E field \in DOMAIN Unknown \ {"pending"} : \E value : Remember(p, field, value)
    <3>1. PICK field \in DOMAIN Unknown \ {"pending"} : \E value : Remember(p, field, value)
      BY <2>2
    <3>2. PICK value : Remember(p, field, value)
      BY <3>1
    <3>3. "pending" \in DOMAIN Unknown
      BY UnknownFields
    <3> QED BY <3>2, <3>3, Remembered
  <2> QED BY <2>1, <2>2
<1> QED BY <1>1, HeldGoes DEF runVars

LEMMA HeldRunParent ==
    ASSUME CallInv, BindInv, HeldInv, NEW p \in Process,
           \/ Run(p) \/ Claim(p) \/ AnnounceParent(p) \/ StartupFailed(p)
           \/ AnnounceActivation(p) \/ Activate(p) \/ PublishActivation(p)
           \/ Assign(p) \/ StartChild(p) \/ UnwindRun(p)
    PROVE  HeldInv'
<1>1. CASE Run(p)
  <2>1. PICK label \in {"claim", "idle"} : Goto(p, label)
    BY <1>1 DEF Run, Call
  <2>2. job.state \notin Claimed /\ UNCHANGED runVars /\ UNCHANGED parent
    BY <1>1 DEF Run, Claimed
  <2>3. label \notin Driving
    BY DEF Driving
  <2> QED BY <2>1, <2>2, <2>3, HeldParent
<1>2. CASE Claim(p)
  <2>1. PICK label \in {"parent", "idle"} : Goto(p, label)
    BY <1>2 DEF Claim, Call, Return
  <2>2. /\ pc[p] \in Early /\ UNCHANGED runVars
        /\ Remember(p, "known", pc'[p] = "parent")
    BY <1>2 DEF Claim, At, Early, Remember
  <2>3. job'.state \notin Claimed => job.state \notin Claimed /\ label = "idle"
    BY <1>2, <2>1 DEF BindInv, BindTables, Claim, Call, Return, Goto, CallInv, EpisodeInv, Tables,
       Claimed
  <2>4. label \notin Driving
    BY DEF Driving
  <2>5. "known" \in DOMAIN Unknown \ {"pending"}
    BY UnknownFields
  <2>6. \E field \in DOMAIN Unknown \ {"pending"} : \E value : Remember(p, field, value)
    BY <2>2, <2>5
  <2> QED BY <2>1, <2>2, <2>3, <2>4, <2>6, HeldParent
<1>3. ASSUME NEW label \in {"create", "idle", "close", "activate", "unwind", "publish activation", "assign", "assigned", "run"},
             Goto(p, label), label \in Early => pc[p] \in Early, pc[p] \notin {"idle", "claim"},
             UNCHANGED <<job, runVars>>,
             UNCHANGED parent \/ \E value : Remember(p, "then", value) \/ Remember(p, "intent", value)
      PROVE  HeldInv'
  BY <1>3, PastClaim, UnknownFields, HeldParent DEF Driving
<1>4. CASE AnnounceParent(p)
  <2>1. PICK label \in {"create", "idle"} : Goto(p, label)
    BY <1>4, ObserveGoes DEF AnnounceParent
  <2> QED BY <1>3, <1>4, <2>1 DEF AnnounceParent, At, Early, parentVars
<1>5. CASE StartupFailed(p) \/ UnwindRun(p)
  BY <1>3, <1>5 DEF StartupFailed, UnwindRun, Unwind, At, Early
<1>6. CASE AnnounceActivation(p)
  <2>1. PICK label \in {"activate", "unwind"} : Goto(p, label)
    BY <1>6, ObserveGoes DEF AnnounceActivation
  <2> QED BY <1>3, <1>6, <2>1 DEF AnnounceActivation, At, Early, parentVars
<1>7. CASE Activate(p)
  <2>1. PICK label \in {"publish activation", "unwind"} : Goto(p, label)
    BY <1>7 DEF Activate
  <2> QED BY <1>3, <1>7, <2>1 DEF Activate, At, Early, parentVars
<1>8. CASE PublishActivation(p)
  <2>1. PICK label \in {"assign", "unwind"} : Goto(p, label)
    BY <1>8, ObserveGoes DEF PublishActivation
  <2> QED BY <1>3, <1>8, <2>1 DEF PublishActivation, At, Early, parentVars
<1>9. CASE Assign(p)
  <2>1. PICK label \in {"assigned", "unwind"} : Goto(p, label)
    BY <1>9, ObserveGoes DEF Assign
  <2> QED BY <1>3, <1>9, <2>1 DEF Assign, At, Early
<1>10. CASE StartChild(p)
  <2>1. PICK label \in {"run", "unwind"} : Goto(p, label)
    BY <1>10 DEF StartChild
  <2> QED BY <1>3, <1>10, <2>1 DEF StartChild, At, Early, parentVars
<1> QED BY <1>1, <1>2, <1>4, <1>5, <1>6, <1>7, <1>8, <1>9, <1>10

LEMMA HeldEndSteps ==
    ASSUME CallInv, BindInv, SampleInv, HeldInv, NEW p \in Process,
           \/ ChildReturned(p) \/ ChildRaised(p) \/ PublishChild(p) \/ CloseAndFinish(p)
           \/ CloseFailed(p) \/ CloseDone(p) \/ Finish(p)
    PROVE  HeldInv'
<1>1. UNCHANGED runVars /\ pc[p] \notin {"idle", "claim"}
  BY DEF ChildReturned, ChildRaised, PublishChild, CloseAndFinish, CloseFailed, CloseDone, Finish, At
<1>2. job.state \in Claimed
  BY <1>1, PastClaim
<1>3. ASSUME NEW label \in {"publish child", "idle", "close", "finish", "recover", "close and finish", "unwind"},
             Goto(p, label), job'.state \in Claimed,
             UNCHANGED parent \/ \E value : Remember(p, "then", value) \/ Remember(p, "child", value)
      PROVE  HeldInv'
  BY <1>3, <1>1, UnknownFields, HeldParent DEF Driving, Early
<1>4. CASE ChildReturned(p)
  BY <1>2, <1>3, <1>4 DEF ChildReturned
<1>5. CASE ChildRaised(p)
  <2>1. job' = job
    BY <1>5 DEF ChildRaised
  <2>2. CASE UNCHANGED parent
    <3>1. PICK label \in {"idle", "close"} : Goto(p, label)
      BY <1>5 DEF ChildRaised, Return
    <3> QED BY <1>2, <1>3, <2>1, <2>2, <3>1
  <2>3. CASE /\ Goto(p, "close")
             /\ Remember(p, "pending", IF held[p] = <<>> THEN Nothing ELSE Head(held[p]))
    <3>1. PICK x : x = IF held[p] = <<>> THEN Nothing ELSE Head(held[p])
      OBVIOUS
    <3>2. Remember(p, "pending", x) /\ "pending" \in DOMAIN Unknown
      BY <2>3, <3>1, UnknownFields
    <3>3. parent'[p].pending = x /\ \A q \in Process \ {p} : parent'[q] = parent[q]
      BY <3>2, Remembered
    <3>4. x # Nothing => held[p] # <<>> /\ x = Head(held[p])
      BY <3>1
    <3>5. Unpending("close", held[p], retries)
      BY DEF Unpending, Early, Driving
    <3>6. UNCHANGED <<held, retries>>
      BY <1>1 DEF runVars
    <3> QED BY <1>2, <2>1, <2>3, <3>3, <3>4, <3>5, <3>6, HeldFrame
  <2> QED BY <1>5, <2>2, <2>3 DEF ChildRaised
<1>6. CASE PublishChild(p)
  <2>1. PICK ok \in {"finish", "close and finish"}, bad \in {"idle", "unwind"} :
           Observe(p, Child, 2, {parent[p].intent, Receipt("outcome", parent[p].child)}, ok, bad)
    BY <1>6 DEF PublishChild
  <2>2. Goto(p, ok) \/ Goto(p, bad)
    BY <2>1, ObserveGoes
  <2>3. UNCHANGED parent /\ job' = job
    BY <1>6 DEF PublishChild, parentVars
  <2> QED BY <1>2, <1>3, <2>2, <2>3
<1>7. CASE CloseAndFinish(p) \/ CloseFailed(p)
  BY <1>2, <1>3, <1>7 DEF CloseAndFinish, CloseFailed, Return, parentVars
<1>8. CASE CloseDone(p)
  <2>1. PICK label \in {"finish", "recover", "idle"} : Goto(p, label)
    BY <1>8 DEF CloseDone
  <2> QED BY <1>2, <1>3, <1>8, <2>1 DEF CloseDone, parentVars
<1>9. CASE Finish(p)
  <2>1. Goto(p, "idle") /\ UNCHANGED parent
    BY <1>9 DEF Finish, Call, Return
  <2>2. job' = job \/ job'.state = "completed"
    <3>1. PICK completed : completed = [state |-> "completed", result |-> parent[p].child]
      OBVIOUS
    <3>2. completed.state = "completed"
      BY <3>1
    <3>3. job' = job \/ job' = completed
      BY <1>9, <3>1 DEF Finish, Call
    <3> QED BY <3>2, <3>3
  <2> QED BY <1>2, <1>3, <2>1, <2>2 DEF Claimed
<1> QED BY <1>4, <1>5, <1>6, <1>7, <1>8, <1>9

LEMMA HeldRecoverSteps ==
    ASSUME CallInv, BindInv, HeldInv, NEW p \in Process,
           Recover(p) \/ RecoverDurable(p) \/ RecoverChild(p) \/ NothingToRecover(p)
    PROVE  HeldInv'
<1>1. UNCHANGED <<runVars, job>>
  BY DEF Recover, RecoverDurable, RecoverChild, NothingToRecover, parentVars
<1>2. job.state \in Claimed
  BY PastClaim DEF Recover, RecoverDurable, RecoverChild, NothingToRecover, At, Claimed
<1>3. PICK label \in {"close", "recover", "publish child", "idle"} : Goto(p, label)
  BY DEF Recover, RecoverDurable, RecoverChild, NothingToRecover, Return
<1>4. label \notin Driving \cup Early
  BY DEF Driving, Early
<1>5. CASE Recover(p) \/ RecoverChild(p) \/ NothingToRecover(p)
  BY <1>5, <1>1, <1>2, <1>3, <1>4, UnknownFields, HeldParent DEF Recover, RecoverChild,
     NothingToRecover, parentVars
<1>6. CASE RecoverDurable(p)
  <2>1. PICK intent \in Newest(Child) :
           \E result \in IF Len(rows[Child]) = 2
                         THEN {r[2] : r \in {x \in Newest(Child) : x[1] = "outcome"}}
                         ELSE {r \in {run.result} : run.state = "completed"} :
              parent' = [parent EXCEPT ![p].known = TRUE, ![p].intent = intent, ![p].child = result]
    BY <1>6 DEF RecoverDurable
  <2>2. PICK results : results = IF Len(rows[Child]) = 2
                                 THEN {r[2] : r \in {x \in Newest(Child) : x[1] = "outcome"}}
                                 ELSE {r \in {run.result} : run.state = "completed"}
    OBVIOUS
  <2>3. PICK result \in results :
           parent' = [parent EXCEPT ![p].known = TRUE, ![p].intent = intent, ![p].child = result]
    BY <2>1, <2>2
  <2>4. \A q \in Process : parent'[q].pending = parent[q].pending
    BY <2>3, Kept1, UnknownFields
  <2> QED BY <1>1, <1>2, <1>3, <1>4, <2>4, HeldGoes DEF runVars
<1> QED BY <1>5, <1>6

LEMMA Positive == \A n \in Nat : n + 1 > 0
  OBVIOUS

LEMMA HeldRetryStep ==
    ASSUME CallInv, HeldInv, NEW p \in Process, RetryChild(p)
    PROVE  HeldInv'
<1>1. pc[p] = "recover" /\ UNCHANGED <<parent, job>>
  BY DEF RetryChild, At, parentVars
<1>2. job.state \in Claimed
  BY <1>1, PastClaim
<1>3. CASE RecoverRun(p)
  <2>1. PICK label \in {"run returned", "finish run", "run raised"} : Goto(p, label)
    BY <1>3 DEF RecoverRun
  <2>2. label \notin Driving \cup Early
    BY DEF Driving, Early
  <2> QED BY <1>1, <1>2, <1>3, <2>1, <2>2, HeldGoes DEF RecoverRun
<1>4. CASE RetryPublication(p, parent[p].pending)
  <2>1. PICK x : x = parent[p].pending
    OBVIOUS
  <2>2. PICK label \in {"run returned", "run raised", "submit", "freeze", "publish", "grade"} : Goto(p, label)
    BY <1>4, <2>1, RetryPlaces
  <2>3. held' = held /\ retries' = retries + 1
    BY <1>4, <2>1, RetryPlaces
  <2>4. Unpending(label, held'[p], retries')
    BY <2>3, Positive DEF CallInv, EpisodeInv, Tables, Early, Unpending
  <2>5. parent'[p].pending # Nothing => held'[p] # <<>> /\ parent'[p].pending = Head(held'[p])
    BY <1>1, <2>3 DEF HeldInv, PendingInv
  <2> QED BY <1>1, <1>2, <2>2, <2>3, <2>4, <2>5, HeldFrame
<1> QED BY <1>3, <1>4 DEF RetryChild

LEMMA HeldCrashStep ==
    ASSUME CallInv, BindInv, SampleInv, HeldInv, NEW p \in Process, Crash(p)
    PROVE  HeldInv'
  BY Kept1, HeldFrame DEF Crash, Return, SampleInv, SampleTables, Unknown, Unpending

LEMMA HeldInit == Init => HeldInv
<1> SUFFICES ASSUME Init PROVE HeldInv
  OBVIOUS
<1>1. /\ pc = [p \in Process |-> "idle"] /\ held = [p \in Process |-> <<>>]
      /\ parent = [p \in Process |-> Unknown]
  BY DEF Init, RunInit
<1>2. Unknown.pending = Nothing
  BY DEF Unknown
<1> QED BY <1>1, <1>2 DEF HeldInv, PendingInv, Unpending

LEMMA HeldNext == CallInv /\ BindInv /\ SampleInv /\ HeldInv /\ [Next]_vars => HeldInv'
<1> SUFFICES ASSUME CallInv, BindInv, SampleInv, HeldInv, [Next]_vars PROVE HeldInv'
  OBVIOUS
<1>1. CASE UNCHANGED vars
  BY <1>1 DEF vars, ledgerVars, runVars, parentVars, HeldInv, PendingInv, Unpending
<1>2. CASE Next
  <2>1. PICK p \in Process : \/ SessionStep(p) /\ UNCHANGED <<runVars, parentVars>>
                             \/ RunStep(p) /\ UNCHANGED <<sessionVars, parentVars>>
                             \/ ParentStep(p)
    BY <1>2 DEF Next
  <2>2. CASE ParentStep(p)
    BY <2>2, HeldRunParent, HeldEndSteps, HeldRecoverSteps, HeldRetryStep, HeldCrashStep DEF ParentStep
  <2> QED BY <2>1, <2>2, HeldSessionSteps, HeldRunSteps
<1> QED BY <1>1, <1>2

-----------------------------------------------------------------------------
(* What was graded (GradeAccounted).                                       *)

\* g is what grading i decided.
OwnGrade(g, i) == g = Grade(i, verdicts[i]) /\ calls[<<"grade", i>>] > 0

\* g is what grading i or one before decided, which then was no verdict; up to the nth retry
\* it is grading i's.
Traced(g, i, n) ==
    \E k \in 0..i : /\ OwnGrade(g, k)
                    /\ k < i => verdicts[k] = "infrastructure"
                    /\ retries <= n => k = i

\* The phase was recorded, with the result g.
RecordedAs(ph, g) ==
    /\ Confirmed(rows[ph])
    /\ \E s : rows[ph][2] = {Receipt("intent", s), Receipt("result", g)}

\* Grading i was recorded without a verdict.
Inconclusive(i) == \E g : RecordedAs(<<"grade", i>>, g) /\ g.verdict = "infrastructure"

\* A measured outcome is the recorded one of its own grading.
Backed(o) == o.verdict \in Rewarded =>
    \E i \in 0..Gradings - 1 : OwnGrade(o, i) /\ RecordedAs(<<"grade", i>>, o)

\* The oldest pending publication is a grade's, g.
Oldest(h, g) == h # <<>> /\ Head(h).kind = "grade pending" /\ g = Head(h).grade

\* The places of a grading.
Grading(place, ph) == (place \in InPhase /\ ph[1] = "grade") \/ place = "record recovered"
Graded(place, ph) == Grading(place, ph) /\ place \in {"record", "recorded", "record recovered"}

\* What a process knows wherever it is, of the gradings before the ith, the grade it takes up
\* again and its oldest pending publication.
Remembers(i, recovered, h) ==
    /\ \A j \in 0..i - 1 : Inconclusive(j)
    /\ \A g : Oldest(h, g) => Traced(g, i, 0)
    /\ recovered # Nothing => Oldest(h, recovered) /\ Traced(recovered, i, 1)
    /\ h # <<>> /\ Head(h).kind = "freeze pending" => Backed(Head(h).outcome)
    /\ h # <<>> /\ Head(h).kind = "publication pending" => Backed(Head(h).payload.outcome)

\* What it knows at a place, of its episode m.
Knows(place, m, h) ==
    /\ Grading(place, m.phase) => m.recovered = Nothing
    /\ Graded(place, m.phase) => /\ OwnGrade(m.result, m.index) \/ Oldest(h, m.result)
                                 /\ Traced(m.result, m.index, 1)
    /\ place = "recorded" /\ m.phase[1] = "grade" => RecordedAs(m.phase, m.result)
    /\ place = "grade pending" => OwnGrade(m.result, m.index)
    /\ place \in {"freeze", "gather", "freeze pending"} => Backed(m.outcome)
    /\ place \in {"publish", "publication pending"} => Backed(m.payload.outcome)

\* What is recorded: announced gradings in order, each after the last one's lack of a verdict.
RowsTraced == \A i \in 0..Gradings - 1 :
    /\ rows[<<"grade", i>>] # <<>> => (\E s : Announced(<<"grade", i>>, s)) /\ \A j \in 0..i - 1 : Inconclusive(j)
    /\ Confirmed(rows[<<"grade", i>>]) => \E g : RecordedAs(<<"grade", i>>, g) /\ Traced(g, i, 1)

GradeInv ==
    /\ DOMAIN verdicts = 0..Gradings - 1
    /\ \A p \in Process : Remembers(me[p].index, me[p].recovered, held[p]) /\ Knows(pc[p], me[p], held[p])
    /\ RowsTraced
    /\ \A x : rows[Frozen] = <<{Receipt("frozen", x)}>> => Backed(x.outcome)

LEMMA GradePhase == \A i \in 0..Gradings - 1 : <<"grade", i>> \in Phase
  BY DEF Phase

LEMMA Below ==
    ASSUME NEW i \in 0..Gradings - 1
    PROVE  /\ i \in 0..i /\ \A k \in 0..i : k \in 0..Gradings - 1 /\ k <= i /\ ~(i < k)
           /\ \A j \in 0..i - 1 : j \in 0..Gradings - 1 /\ j < i
           /\ \A j \in 0..Gradings - 1 : j < i => j \in 0..i - 1
  BY CountsAssumption

\* What was graded and recorded stays.
Later ==
    /\ \A i \in 0..Gradings - 1 : calls[<<"grade", i>>] > 0 => calls'[<<"grade", i>>] > 0 /\ verdicts'[i] = verdicts[i]
    /\ \A ph \in Phase : Confirmed(rows[ph]) => rows'[ph] = rows[ph]
    /\ retries' \in {retries, retries + 1}

LEMMA LaterOwn ==
    ASSUME Later, NEW i \in 0..Gradings - 1, NEW g, OwnGrade(g, i)
    PROVE  OwnGrade(g, i)'
  BY DEF Later, OwnGrade, Grade

LEMMA LaterRecorded ==
    ASSUME Later, NEW ph \in Phase, NEW g, RecordedAs(ph, g)
    PROVE  RecordedAs(ph, g)'
  BY DEF Later, RecordedAs, Confirmed, Receipt

LEMMA LaterInconclusive ==
    ASSUME Later, NEW i \in 0..Gradings - 1, Inconclusive(i)
    PROVE  Inconclusive(i)'
<1>1. PICK g : RecordedAs(<<"grade", i>>, g) /\ g.verdict = "infrastructure"
  BY DEF Inconclusive
<1>2. RecordedAs(<<"grade", i>>, g)'
  BY <1>1, GradePhase, LaterRecorded
<1> QED BY <1>1, <1>2 DEF Inconclusive

LEMMA LaterRetries ==
    ASSUME CallInv, Later, NEW n \in Nat, retries' <= n
    PROVE  retries <= n
  BY DEF CallInv, EpisodeInv, Tables, Later

LEMMA LaterTraced ==
    ASSUME CallInv, Later, NEW i \in 0..Gradings - 1, NEW n \in Nat, NEW g, Traced(g, i, n)
    PROVE  Traced(g, i, n)'
<1>1. PICK k \in 0..i : /\ OwnGrade(g, k)
                        /\ k < i => verdicts[k] = "infrastructure"
                        /\ retries <= n => k = i
  BY DEF Traced
<1>2. k \in 0..Gradings - 1
  BY Below
<1>3. OwnGrade(g, k)'
  BY <1>1, <1>2, LaterOwn
<1>4. verdicts'[k] = verdicts[k]
  BY <1>1, <1>2 DEF OwnGrade, Later
<1>5. retries' <= n => k = i
  BY <1>1, LaterRetries
<1> QED BY <1>1, <1>3, <1>4, <1>5 DEF Traced

LEMMA LaterBacked ==
    ASSUME Later, NEW o, Backed(o)
    PROVE  Backed(o)'
<1> SUFFICES ASSUME o.verdict \in Rewarded
             PROVE  \E i \in 0..Gradings - 1 : OwnGrade(o, i)' /\ RecordedAs(<<"grade", i>>, o)'
  BY DEF Backed
<1>1. PICK i \in 0..Gradings - 1 : OwnGrade(o, i) /\ RecordedAs(<<"grade", i>>, o)
  BY DEF Backed
<1> QED BY <1>1, GradePhase, LaterOwn, LaterRecorded

LEMMA LaterRemembers ==
    ASSUME CallInv, Later, NEW i \in 0..Gradings - 1, NEW recovered, NEW h, Remembers(i, recovered, h)
    PROVE  Remembers(i, recovered, h)'
<1>1. \A j \in 0..i - 1 : Inconclusive(j)'
  BY Below, LaterInconclusive DEF Remembers
<1>2. 0 \in Nat /\ 1 \in Nat
  OBVIOUS
<1>3. ASSUME NEW g, Oldest(h, g) PROVE Traced(g, i, 0)'
  BY <1>2, <1>3, LaterTraced DEF Remembers
<1>4. recovered # Nothing => Oldest(h, recovered) /\ Traced(recovered, i, 1)'
  BY <1>2, LaterTraced DEF Remembers
<1>5. h # <<>> /\ Head(h).kind = "freeze pending" => Backed(Head(h).outcome)'
  <2>1. PICK o : o = Head(h).outcome
    OBVIOUS
  <2>2. Backed(o) => Backed(o)'
    BY LaterBacked
  <2> QED BY <2>1, <2>2 DEF Remembers
<1>6. h # <<>> /\ Head(h).kind = "publication pending" => Backed(Head(h).payload.outcome)'
  <2>1. PICK o : o = Head(h).payload.outcome
    OBVIOUS
  <2>2. Backed(o) => Backed(o)'
    BY LaterBacked
  <2> QED BY <2>1, <2>2 DEF Remembers
<1> QED BY <1>1, <1>3, <1>4, <1>5, <1>6 DEF Remembers, Oldest

LEMMA LaterKnows ==
    ASSUME CallInv, Later, NEW place, NEW m, NEW h, Knows(place, m, h), m.index \in 0..Gradings - 1,
           place = "recorded" => m.phase \in Phase
    PROVE  Knows(place, m, h)'
<1>1. PICK i \in 0..Gradings - 1 : i = m.index
  OBVIOUS
<1>2. PICK r, o, y, ph : r = m.result /\ o = m.outcome /\ y = m.payload.outcome /\ ph = m.phase
  OBVIOUS
<1>3. OwnGrade(r, i) => OwnGrade(r, i)'
  BY LaterOwn
<1>4. Traced(r, i, 1) => Traced(r, i, 1)'
  BY LaterTraced
<1>5. ph \in Phase /\ RecordedAs(ph, r) => RecordedAs(ph, r)'
  BY LaterRecorded
<1>6. (Backed(o) => Backed(o)') /\ (Backed(y) => Backed(y)')
  BY LaterBacked
<1> QED BY <1>1, <1>2, <1>3, <1>4, <1>5, <1>6 DEF Knows, Oldest, Grading, Graded, InPhase

FrozenBacked == \A x : rows[Frozen] = <<{Receipt("frozen", x)}>> => Backed(x.outcome)

LEMMA GradeFrame ==
    ASSUME CallInv, GradeInv, Later, DOMAIN verdicts' = DOMAIN verdicts, NEW p \in Process,
           \A q \in Process \ {p} : pc'[q] = pc[q] /\ me'[q] = me[q] /\ held'[q] = held[q],
           Remembers(me[p].index, me[p].recovered, held[p])', Knows(pc[p], me[p], held[p])',
           RowsTraced', FrozenBacked'
    PROVE  GradeInv'
<1>1. ASSUME NEW q \in Process \ {p}
      PROVE  (Remembers(me[q].index, me[q].recovered, held[q]) /\ Knows(pc[q], me[q], held[q]))'
  <2>1. PICK place, m, h : place = pc[q] /\ m = me[q] /\ h = held[q]
    OBVIOUS
  <2>2. PICK i, r : i = m.index /\ r = m.recovered
    OBVIOUS
  <2>3. i \in 0..Gradings - 1 /\ (place = "recorded" => m.phase \in Phase)
    BY <2>1, <2>2 DEF CallInv, EpisodeInv, Placed
  <2>4. Remembers(i, r, h) /\ Knows(place, m, h)
    BY <2>1, <2>2 DEF GradeInv
  <2>5. Remembers(i, r, h)' /\ Knows(place, m, h)'
    BY <2>2, <2>3, <2>4, LaterRemembers, LaterKnows
  <2> QED BY <2>1, <2>2, <2>5 DEF Remembers, Knows
<1>2. \A q \in Process : (Remembers(me[q].index, me[q].recovered, held[q]) /\ Knows(pc[q], me[q], held[q]))'
  BY <1>1
<1> QED BY <1>2 DEF GradeInv, FrozenBacked

LEMMA LaterRows ==
    ASSUME CallInv, GradeInv, Later, NEW i \in 0..Gradings - 1, rows'[<<"grade", i>>] = rows[<<"grade", i>>]
    PROVE  /\ rows'[<<"grade", i>>] # <<>> =>
                 (\E s : Announced(<<"grade", i>>, s)') /\ \A j \in 0..i - 1 : Inconclusive(j)'
           /\ Confirmed(rows'[<<"grade", i>>]) => \E g : RecordedAs(<<"grade", i>>, g)' /\ Traced(g, i, 1)'
<1>1. ASSUME rows'[<<"grade", i>>] # <<>>, NEW j \in 0..i - 1 PROVE Inconclusive(j)'
  BY <1>1, Below, LaterInconclusive DEF GradeInv, RowsTraced
<1>2. ASSUME Confirmed(rows'[<<"grade", i>>])
      PROVE  \E g : RecordedAs(<<"grade", i>>, g)' /\ Traced(g, i, 1)'
  <2>1. PICK g : RecordedAs(<<"grade", i>>, g) /\ Traced(g, i, 1)
    BY <1>2 DEF GradeInv, RowsTraced, Confirmed
  <2>2. 1 \in Nat
    OBVIOUS
  <2>3. RecordedAs(<<"grade", i>>, g)' /\ Traced(g, i, 1)'
    BY <2>1, <2>2, GradePhase, LaterRecorded, LaterTraced
  <2> QED BY <2>3
<1>3. ASSUME rows'[<<"grade", i>>] # <<>> PROVE \E s : Announced(<<"grade", i>>, s)'
  <2>1. PICK s : Announced(<<"grade", i>>, s)
    BY <1>3 DEF GradeInv, RowsTraced
  <2>2. Announced(<<"grade", i>>, s)'
    BY <2>1 DEF Announced, Receipt
  <2> QED BY <2>2
<1> QED BY <1>1, <1>2, <1>3

LEMMA LaterRowsTraced ==
    ASSUME CallInv, GradeInv, Later, \A ph \in Phase : ~OfEpisode(ph) => rows'[ph] = rows[ph]
    PROVE  RowsTraced'
  BY GradePhase, LaterRows DEF OfEpisode, RowsTraced

LEMMA LaterFrozen ==
    ASSUME CallInv, GradeInv, Later, rows'[Frozen] = rows[Frozen]
    PROVE  FrozenBacked'
<1> SUFFICES ASSUME NEW x, rows[Frozen] = <<{Receipt("frozen", x)}>> PROVE Backed(x.outcome)'
  BY DEF FrozenBacked, Frozen, Receipt
<1>1. PICK o : o = x.outcome
  OBVIOUS
<1>2. Backed(o)
  BY <1>1 DEF GradeInv
<1>3. Backed(o)'
  BY <1>2, LaterBacked
<1> QED BY <1>1, <1>3 DEF Backed

\* No grading and nothing frozen is recorded.
Quiet ==
    /\ Later /\ DOMAIN verdicts' = DOMAIN verdicts
    /\ \A ph \in Phase : ~OfEpisode(ph) => rows'[ph] = rows[ph]
    /\ rows'[Frozen] = rows[Frozen]

LEMMA QuietSame ==
    ASSUME \A ph \in Phase : rows'[ph] = rows[ph], rows'[Frozen] = rows[Frozen], UNCHANGED <<calls, verdicts, retries>>
    PROVE  Quiet
  BY DEF Quiet, Later

\* p goes on, and what it knows then follows from what there is.
LEMMA GradeGoes ==
    ASSUME CallInv, GradeInv, NEW p \in Process, NEW label, Goto(p, label), Quiet,
           \A q \in Process \ {p} : me'[q] = me[q] /\ held'[q] = held[q],
           NEW i \in 0..Gradings - 1, NEW r, i = me'[p].index, r = me'[p].recovered,
           NEW m, NEW h, m = me'[p], h = held'[p], label = "recorded" => m.phase \in Phase,
           Remembers(i, r, h), Knows(label, m, h)
    PROVE  GradeInv'
<1>1. pc'[p] = label /\ \A q \in Process \ {p} : pc'[q] = pc[q]
  BY DEF Goto, CallInv, EpisodeInv, Tables
<1>2. Later
  BY DEF Quiet
<1>3. Remembers(i, r, h)' /\ Knows(label, m, h)'
  BY <1>2, LaterRemembers, LaterKnows
<1>4. Remembers(me[p].index, me[p].recovered, held[p])'
  BY <1>3 DEF Remembers
<1>5. Knows(pc[p], me[p], held[p])'
  BY <1>1, <1>3 DEF Knows
<1>6. RowsTraced' /\ FrozenBacked'
  BY <1>2, LaterRowsTraced, LaterFrozen DEF Quiet
<1>7. DOMAIN verdicts' = DOMAIN verdicts
  BY DEF Quiet
<1> QED BY <1>1, <1>2, <1>4, <1>5, <1>6, <1>7, GradeFrame

\* The places at which nothing is known.
Plain(label) == label \notin InPhase \cup {"record recovered", "grade pending", "freeze", "gather", "freeze pending",
                                          "publish", "publication pending"}

LEMMA PlainKnows ==
    ASSUME NEW label, Plain(label), NEW m, NEW h
    PROVE  Knows(label, m, h)
  BY DEF Plain, Knows, Grading, Graded, InPhase

LEMMA EpisodeKnows ==
    ASSUME NEW label \in InPhase, NEW m, OfEpisode(m.phase), NEW h
    PROVE  Knows(label, m, h)
  BY DEF OfEpisode, Knows, Grading, Graded, InPhase

LEMMA IndexType ==
    ASSUME CallInv, NEW p \in Process
    PROVE  me[p].index \in 0..Gradings - 1
  BY DEF CallInv, EpisodeInv, Placed

\* p goes to a place where nothing is known, with what it remembers.
LEMMA GradeLeaves ==
    ASSUME CallInv, GradeInv, NEW p \in Process, NEW label, Goto(p, label), Quiet,
           UNCHANGED held, \A q \in Process \ {p} : me'[q] = me[q],
           me'[p].index = me[p].index, me'[p].recovered = me[p].recovered,
           NEW m, m = me'[p], Plain(label) \/ (label \in InPhase /\ OfEpisode(m.phase)),
           label = "recorded" => m.phase \in Phase
    PROVE  GradeInv'
<1>1. PICK i \in 0..Gradings - 1 : i = me[p].index
  BY IndexType
<1>2. PICK r, h : r = me[p].recovered /\ h = held[p]
  OBVIOUS
<1>3. Remembers(i, r, h)
  BY <1>1, <1>2 DEF GradeInv
<1>4. Knows(label, m, h)
  BY PlainKnows, EpisodeKnows
<1> QED BY <1>1, <1>2, <1>3, <1>4, GradeGoes

\* p goes to a place where nothing is known, and keeps its state.
LEMMA GradeSame ==
    ASSUME CallInv, GradeInv, NEW p \in Process, NEW label, Plain(label), Goto(p, label), Quiet, UNCHANGED <<held, me>>
    PROVE  GradeInv'
<1>1. PICK m : m = me'[p]
  OBVIOUS
<1>2. label # "recorded"
  BY DEF Plain, InPhase
<1> QED BY <1>1, <1>2, GradeLeaves

LEMMA ParentPlaces ==
    ASSUME NEW p \in Process,
           \/ Run(p) \/ Claim(p) \/ AnnounceParent(p) \/ StartupFailed(p)
           \/ AnnounceActivation(p) \/ Activate(p) \/ PublishActivation(p)
           \/ Assign(p) \/ StartChild(p) \/ UnwindRun(p)
           \/ ChildReturned(p) \/ ChildRaised(p) \/ PublishChild(p) \/ CloseAndFinish(p)
           \/ CloseFailed(p) \/ CloseDone(p) \/ Finish(p)
           \/ Recover(p) \/ RecoverDurable(p) \/ RecoverChild(p) \/ NothingToRecover(p)
    PROVE  UNCHANGED runVars /\ RunRowsStay /\ \E label \in Outer : Goto(p, label)
<1>1. UNCHANGED runVars
  BY DEF Run, Claim, AnnounceParent, StartupFailed, AnnounceActivation, Activate, PublishActivation, Assign,
         StartChild, UnwindRun, ChildReturned, ChildRaised, PublishChild, CloseAndFinish, CloseFailed, CloseDone,
         Finish, Recover, RecoverDurable, RecoverChild, NothingToRecover
<1>2. CASE Run(p) \/ Claim(p) \/ StartupFailed(p) \/ Activate(p) \/ StartChild(p) \/ UnwindRun(p)
  BY <1>2, <1>1, SameRunRows DEF Run, Claim, Call, Return, StartupFailed, Unwind, Activate,
     StartChild, UnwindRun, Outer
<1>3. CASE AnnounceParent(p) \/ AnnounceActivation(p) \/ PublishActivation(p) \/ Assign(p)
  <2>1. PICK name \in {Request, Activation, Child}, ok \in Outer, bad \in Outer :
           \E n, receipts : Observe(p, name, n, receipts, ok, bad)
    BY <1>3 DEF AnnounceParent, AnnounceActivation, PublishActivation, Assign, Outer
  <2>2. name \notin Phase \cup {Frozen}
    BY OtherNames
  <2> QED BY <1>1, <2>1, <2>2, OtherRunRows
<1>4. CASE CloseDone(p)
  <2>1. PICK label \in {"finish", "recover", "idle"} : Goto(p, label)
    BY <1>4 DEF CloseDone
  <2>2. rows' = rows
    BY <1>4 DEF CloseDone
  <2> QED BY <1>1, <2>1, <2>2, SameRunRows DEF Outer
<1>5. CASE \/ ChildReturned(p) \/ ChildRaised(p) \/ CloseAndFinish(p) \/ CloseFailed(p) \/ Finish(p)
           \/ Recover(p) \/ RecoverDurable(p) \/ RecoverChild(p) \/ NothingToRecover(p)
  BY <1>5, <1>1, SameRunRows DEF ChildReturned, ChildRaised, CloseAndFinish, CloseFailed, Finish,
     Call, Return, Recover, RecoverDurable, RecoverChild, NothingToRecover, Outer
<1>6. CASE PublishChild(p)
  <2>1. PICK ok \in {"finish", "close and finish"}, bad \in {"idle", "unwind"} :
           Observe(p, Child, 2, {parent[p].intent, Receipt("outcome", parent[p].child)}, ok, bad)
    BY <1>6 DEF PublishChild
  <2>2. RunRowsStay /\ (Goto(p, ok) \/ Goto(p, bad))
    BY <2>1, OtherRunRows, OtherNames
  <2>3. ok \in Outer /\ bad \in Outer
    BY DEF Outer
  <2> QED BY <1>1, <2>2, <2>3
<1> QED BY <1>2, <1>3, <1>4, <1>5, <1>6

LEMMA QuietRows ==
    ASSUME CallInv, BindInv, RunRowsStay, UNCHANGED runVars
    PROVE  Quiet
  BY QuietSame DEF CallInv, EpisodeInv, Tables, BindInv, BindTables, RunRowsStay, runVars

LEMMA GradeSessionSteps ==
    ASSUME CallInv, BindInv, GradeInv, NEW p \in Process, SessionStep(p), UNCHANGED <<runVars, parentVars>>
    PROVE  GradeInv'
<1>1. PICK label \in Inner : Goto(p, label)
  BY SessionPlaces
<1>2. Plain(label)
  BY DEF Plain, Inner, InPhase
<1>3. Quiet
  BY SessionPlaces, QuietRows DEF runVars
<1> QED BY <1>1, <1>2, <1>3, GradeSame DEF runVars

LEMMA GradeParentSteps ==
    ASSUME CallInv, BindInv, GradeInv, NEW p \in Process,
           \/ Run(p) \/ Claim(p) \/ AnnounceParent(p) \/ StartupFailed(p)
           \/ AnnounceActivation(p) \/ Activate(p) \/ PublishActivation(p)
           \/ Assign(p) \/ StartChild(p) \/ UnwindRun(p)
           \/ ChildReturned(p) \/ ChildRaised(p) \/ PublishChild(p) \/ CloseAndFinish(p)
           \/ CloseFailed(p) \/ CloseDone(p) \/ Finish(p)
           \/ Recover(p) \/ RecoverDurable(p) \/ RecoverChild(p) \/ NothingToRecover(p)
    PROVE  GradeInv'
<1>1. UNCHANGED runVars /\ RunRowsStay
  BY ParentPlaces
<1>2. PICK label \in Outer : Goto(p, label)
  BY ParentPlaces
<1>3. Plain(label)
  BY DEF Plain, Outer, InPhase
<1>4. Quiet
  BY <1>1, QuietRows DEF runVars
<1> QED BY <1>1, <1>2, <1>3, <1>4, GradeSame DEF runVars

-----------------------------------------------------------------------------
(* What was graded: the run up to its first grading.                       *)

LEMMA MineSet ==
    ASSUME CallInv, NEW p \in Process, NEW field \in DOMAIN Fresh, NEW value, Mine(p, field, value)
    PROVE  /\ me'[p][field] = value /\ \A o \in DOMAIN Fresh \ {field} : me'[p][o] = me[p][o]
           /\ \A q \in Process \ {p} : me'[q] = me[q]
  BY DEF Mine, CallInv, EpisodeInv, Tables

LEMMA FreshFields ==
    DOMAIN Fresh = {"phase", "turn", "index", "stamp", "intent", "result", "recovered", "outcome", "payload", "entry"}
  BY DEF Fresh

LEMMA IndexZero == 0 \in 0..Gradings - 1
  BY CountsAssumption

\* No grading was begun.
LEMMA NothingRemembered == Remembers(0, Nothing, <<>>)
  BY DEF Oldest, Remembers

LEMMA GradeEnterStep ==
    ASSUME CallInv, BindInv, HeldInv, GradeInv, NEW p \in Process, EnterRun(p)
    PROVE  GradeInv'
<1>1. pc[p] = "run" /\ UNCHANGED <<rows, held, calls, verdicts, retries>> /\ me' = [me EXCEPT ![p] = Fresh]
  BY DEF EnterRun, At
<1>2. PICK label \in {"run returned", "elsewhere", "claim run", "run raised"} : Goto(p, label)
  BY DEF EnterRun, Call
<1>3. me'[p] = Fresh /\ \A q \in Process \ {p} : me'[q] = me[q]
  BY <1>1 DEF CallInv, EpisodeInv, Tables
<1>4. held[p] = <<>>
  BY <1>1 DEF HeldInv, Unpending, Early
<1>5. PICK h, m, i, r : h = held[p] /\ m = Fresh /\ i = 0 /\ r = Nothing
  OBVIOUS
<1>6. h = held'[p] /\ m = me'[p] /\ i = me'[p].index /\ r = me'[p].recovered
  <2>1. m.index = 0 /\ m.recovered = Nothing
    BY <1>5 DEF Fresh
  <2>2. held' = held
    BY <1>1
  <2> QED BY <1>3, <1>5, <2>1, <2>2
<1>7. Quiet
  BY <1>1, QuietSame
<1>8. Knows(label, m, h) /\ label # "recorded"
  BY <1>2, PlainKnows DEF Plain, InPhase
<1>9. i \in 0..Gradings - 1
  BY <1>5, IndexZero
<1>10. Remembers(i, r, h)
  BY <1>4, <1>5, NothingRemembered
<1>11. \A q \in Process \ {p} : me'[q] = me[q] /\ held'[q] = held[q]
  BY <1>1, <1>3
<1> QED BY <1>2, <1>6, <1>11, <1>7, <1>8, <1>9, <1>10, GradeGoes

\* Steps between places where nothing is known.
LEMMA GradePlainSteps ==
    ASSUME CallInv, BindInv, GradeInv, NEW p \in Process,
           ClaimRun(p) \/ AnnounceRun(p) \/ CloseWorkspace(p)
    PROVE  GradeInv'
<1>1. UNCHANGED <<held, me>>
  BY DEF ClaimRun, AnnounceRun, CloseWorkspace, runVars
<1>2. Quiet
  BY OtherNames, OtherRunRows, SameRunRows, QuietSame DEF AnnounceRun, ClaimRun, CloseWorkspace,
     CallInv, EpisodeInv, Tables, BindInv, BindTables, runVars, RunRowsStay
<1>3. PICK label \in {"controller", "turn", "run raised", "submit", "infrastructure"} : Goto(p, label)
  BY ObserveGoes DEF ClaimRun, AnnounceRun, CloseWorkspace, Call
<1>4. Plain(label)
  BY DEF Plain, InPhase
<1> QED BY <1>1, <1>2, <1>3, <1>4, GradeSame

LEMMA GradeEpisodeSteps ==
    ASSUME CallInv, GradeInv, NEW p \in Process, Turn(p) \/ AfterGeneration(p) \/ AfterAction(p)
    PROVE  GradeInv'
<1>1. Quiet /\ UNCHANGED held
  BY QuietSame DEF Turn, AfterGeneration, AfterAction
<1>2. \/ /\ UNCHANGED me \/ Mine(p, "turn", me[p].turn + 1)
         /\ \E label \in {"invalid", "infrastructure", "close workspace", "turn"} : Goto(p, label)
      \/ Goto(p, "announce") /\ \E kind \in {"generation", "action"} : Mine(p, "phase", <<kind, me[p].turn>>)
  BY DEF Turn, AfterGeneration, AfterAction
<1>3. PICK m : m = me'[p]
  OBVIOUS
<1>4. CASE /\ UNCHANGED me \/ Mine(p, "turn", me[p].turn + 1)
           /\ \E label \in {"invalid", "infrastructure", "close workspace", "turn"} : Goto(p, label)
  <2>1. PICK label \in {"invalid", "infrastructure", "close workspace", "turn"} : Goto(p, label)
    BY <1>4
  <2>2. Plain(label) /\ label # "recorded"
    BY DEF Plain, InPhase
  <2>3. /\ me'[p].index = me[p].index /\ me'[p].recovered = me[p].recovered
        /\ \A q \in Process \ {p} : me'[q] = me[q]
    BY <1>4, MineSet, FreshFields
  <2> QED BY <1>1, <1>3, <2>1, <2>2, <2>3, GradeLeaves
<1>5. CASE Goto(p, "announce") /\ \E kind \in {"generation", "action"} : Mine(p, "phase", <<kind, me[p].turn>>)
  <2>1. PICK kind \in {"generation", "action"} : Mine(p, "phase", <<kind, me[p].turn>>)
    BY <1>5
  <2>2. /\ me'[p].index = me[p].index /\ me'[p].recovered = me[p].recovered /\ m.phase = <<kind, me[p].turn>>
        /\ \A q \in Process \ {p} : me'[q] = me[q]
    BY <1>3, <2>1, MineSet, FreshFields
  <2>3. OfEpisode(m.phase)
    BY <2>2 DEF OfEpisode
  <2>4. "announce" \in InPhase
    BY DEF InPhase
  <2> QED BY <1>1, <1>3, <1>5, <2>2, <2>3, <2>4, GradeLeaves
<1> QED BY <1>2, <1>4, <1>5

\* A place where nothing is known, or a pending submission.
LEMMA GradeSubmitStep ==
    ASSUME CallInv, GradeInv, NEW p \in Process, Submit(p)
    PROVE  GradeInv'
<1>1. PICK label \in {"invalid", "run raised", "grade", "submission pending"} : Goto(p, label)
  BY DEF Submit, Refused, Call
<1>2. Plain(label)
  BY DEF Plain, InPhase
<1>3. Quiet /\ UNCHANGED <<held, me>>
  BY QuietSame DEF Submit, runVars
<1> QED BY <1>1, <1>2, <1>3, GradeSame

LEMMA GradeDispatchEpisode ==
    ASSUME CallInv, GradeInv, NEW p \in Process, DispatchEpisode(p)
    PROVE  GradeInv'
<1>1. pc[p] = "dispatched" /\ UNCHANGED <<rows, held, verdicts, retries>>
  BY DEF DispatchEpisode, At
<1>2. PICK ph \in Phase : ph = me[p].phase /\ OfEpisode(ph) /\ calls' = [calls EXCEPT ![ph] = @ + 1]
  BY <1>1 DEF DispatchEpisode, OfEpisode, CallInv, EpisodeInv, Placed
<1>3. Quiet
  BY <1>2, <1>1, GradePhase DEF OfEpisode, CallInv, EpisodeInv, Tables, Quiet, Later
<1>4. UNCHANGED me \/ \E r : Mine(p, "result", r)
  BY DEF DispatchEpisode
<1>5. PICK m : m = me'[p]
  OBVIOUS
<1>6. /\ me'[p].index = me[p].index /\ me'[p].recovered = me[p].recovered /\ m.phase = ph
      /\ \A q \in Process \ {p} : me'[q] = me[q]
  BY <1>2, <1>4, <1>5, MineSet, FreshFields
<1>7. PICK label \in {"record", "infrastructure"} : Goto(p, label)
  BY DEF DispatchEpisode
<1>8. (Plain(label) \/ label \in InPhase) /\ label # "recorded"
  BY DEF Plain, InPhase
<1> QED BY <1>1, <1>2, <1>3, <1>5, <1>6, <1>7, <1>8, GradeLeaves

\* A revision of a phase's row.
LEMMA ObserveLater ==
    ASSUME CallInv, BindInv, SampleInv, NEW p, NEW ph \in Phase, NEW n \in {1, 2}, NEW receipts, NEW ok, NEW bad,
           Observe(p, ph, n, receipts, ok, bad), UNCHANGED runVars
    PROVE  /\ Later /\ UNCHANGED <<verdicts, me, held>> /\ rows'[Frozen] = rows[Frozen]
           /\ \A o \in Phase \ {ph} : rows'[o] = rows[o]
           /\ Goto(p, ok) \/ Goto(p, bad)
<1>1. Phase \cup {Frozen} \subseteq DOMAIN rows /\ Short(rows[ph])
  BY DEF CallInv, EpisodeInv, Tables, SampleInv, SampleTables, BindInv, BindTables
<1>2. Frozen # ph
  BY NotPhases
<1>3. /\ \A o \in DOMAIN rows \ {ph} : rows'[o] = rows[o]
      /\ Confirmed(rows[ph]) => rows'[ph] = rows[ph]
      /\ Goto(p, ok) \/ Goto(p, bad)
  BY <1>1, ObserveShort
<1>4. UNCHANGED <<calls, verdicts, retries, me, held>>
  BY DEF runVars
<1>5. rows'[Frozen] = rows[Frozen] /\ \A o \in Phase \ {ph} : rows'[o] = rows[o]
  BY <1>1, <1>2, <1>3
<1>6. Later
  BY <1>3, <1>4, <1>5 DEF Later
<1> QED BY <1>3, <1>4, <1>5, <1>6

LEMMA OneNotTwo == 1 \in {1, 2} /\ ~(1 = 2) /\ 2 \in {1, 2}
  OBVIOUS

LEMMA FirstReceipt ==
    ASSUME NEW r
    PROVE  Append(<<>>, r) = <<r>>
  OBVIOUS

LEMMA ObserveFirst ==
    ASSUME CallInv, SampleInv, NEW p, NEW ph \in Phase, NEW receipts, NEW ok, NEW bad,
           Observe(p, ph, 1, receipts, ok, bad)
    PROVE  /\ Confirmed(rows'[ph]) => rows'[ph] = rows[ph]
           /\ rows'[ph] = rows[ph] \/ (rows'[ph] # <<>> /\ rows'[ph][1] = receipts)
<1>1. PICK n \in {1, 2} : n = 1 /\ n # 2
  BY OneNotTwo
<1>2. ph \in DOMAIN rows /\ Short(rows[ph]) /\ Observe(p, ph, n, receipts, ok, bad)
  BY <1>1 DEF CallInv, EpisodeInv, Tables, SampleInv, SampleTables
<1>3. Confirmed(rows'[ph]) => rows'[ph] = rows[ph] \/ (n = 2 /\ rows'[ph][2] = receipts)
  BY <1>2, ObserveShort
<1>4. rows'[ph] = rows[ph] \/ (rows'[ph] # <<>> /\ rows'[ph][1] = receipts)
  <2>1. rows' = rows \/ (rows' = [rows EXCEPT ![ph] = Append(@, receipts)] /\ 1 = Len(rows[ph]) + 1)
    BY ObserveRows
  <2>2. CASE rows' = [rows EXCEPT ![ph] = Append(@, receipts)] /\ 1 = Len(rows[ph]) + 1
    <3>1. rows[ph] = <<>>
      BY <1>2, <2>2, EmptyRow DEF Short
    <3>2. PICK s : s = Append(rows[ph], receipts)
      OBVIOUS
    <3>3. rows' = [rows EXCEPT ![ph] = s]
      BY <2>2, <3>2
    <3>4. s = <<receipts>>
      BY <3>1, <3>2, FirstReceipt
    <3>5. <<receipts>> # <<>> /\ <<receipts>>[1] = receipts
      OBVIOUS
    <3> QED BY <1>2, <3>3, <3>4, <3>5
  <2> QED BY <2>1, <2>2
<1> QED BY <1>1, <1>3, <1>4

LEMMA ObserveSecond ==
    ASSUME CallInv, SampleInv, NEW p, NEW ph \in Phase, NEW receipts, NEW ok, NEW bad,
           Observe(p, ph, 2, receipts, ok, bad)
    PROVE  /\ Confirmed(rows'[ph]) => rows'[ph] = rows[ph] \/ rows'[ph][2] = receipts
           /\ (Goto(p, ok) /\ Confirmed(rows'[ph]) /\ rows'[ph][2] = receipts) \/ Goto(p, bad)
<1>1. PICK n \in {1, 2} : n = 2
  BY OneNotTwo
<1>2. ph \in DOMAIN rows /\ Short(rows[ph]) /\ Observe(p, ph, n, receipts, ok, bad)
  BY <1>1 DEF CallInv, EpisodeInv, Tables, SampleInv, SampleTables
<1>3. /\ Confirmed(rows'[ph]) => rows'[ph] = rows[ph] \/ (n = 2 /\ rows'[ph][2] = receipts)
      /\ \/ Goto(p, ok) /\ (n = 2 => Confirmed(rows'[ph]) /\ rows'[ph][2] = receipts)
         \/ Goto(p, bad)
  BY <1>2, ObserveShort
<1> QED BY <1>1, <1>3

\* An announcement or a result of an episode's phase.
LEMMA GradeAccountEpisode ==
    ASSUME CallInv, BindInv, SampleInv, GradeInv, NEW p \in Process, OfEpisode(me[p].phase), Announce(p) \/ Record(p)
    PROVE  GradeInv'
<1>1. pc[p] \in {"announce", "record"} /\ UNCHANGED runVars
  BY DEF Announce, Record, At
<1>2. PICK ph \in Phase : ph = me[p].phase
  BY <1>1 DEF CallInv, EpisodeInv, Placed
<1>3. PICK n, receipts, ok, bad :
         /\ n \in {1, 2} /\ Observe(p, ph, n, receipts, ok, bad)
         /\ {ok, bad} \subseteq {"dispatched", "recorded", "infrastructure", "run raised", "unconfirmed"}
  <2>1. CASE Announce(p)
    <3>1. PICK bad : /\ bad \in {"infrastructure", "run raised"}
                     /\ Observe(p, ph, 1, {Receipt("intent", me[p].stamp)}, "dispatched", bad)
      BY <1>2, <2>1 DEF Announce
    <3>2. PICK receipts, ok, n : /\ n = 1 /\ receipts = {Receipt("intent", me[p].stamp)} /\ ok = "dispatched"
      OBVIOUS
    <3>3. {ok, bad} \subseteq {"dispatched", "recorded", "infrastructure", "run raised", "unconfirmed"}
      BY <3>1, <3>2
    <3>4. n \in {1, 2} /\ Observe(p, ph, n, receipts, ok, bad)
      BY <3>1, <3>2
    <3> QED BY <3>3, <3>4
  <2>2. CASE Record(p)
    BY <1>2, <2>2, OneNotTwo DEF Record
  <2> QED BY <2>1, <2>2
<1>4. /\ Later /\ UNCHANGED <<verdicts, me, held>> /\ rows'[Frozen] = rows[Frozen]
      /\ \A o \in Phase \ {ph} : rows'[o] = rows[o]
      /\ Goto(p, ok) \/ Goto(p, bad)
  BY <1>3, <1>1, ObserveLater
<1>5. Quiet
  BY <1>2, <1>4 DEF Quiet
<1>6. PICK label \in {"dispatched", "recorded", "infrastructure", "run raised", "unconfirmed"} : Goto(p, label)
  BY <1>3, <1>4
<1>7. Plain(label) \/ label \in InPhase
  BY DEF Plain, InPhase
<1>8. PICK m : m = me'[p]
  OBVIOUS
<1> QED BY <1>2, <1>4, <1>5, <1>6, <1>7, <1>8, GradeLeaves

-----------------------------------------------------------------------------
(* What was graded: a grading.                                             *)

LEMMA GradePair ==
    ASSUME NEW ph \in Phase, NEW i, ph[1] = "grade", ph[2] = i
    PROVE  ph = <<"grade", i>>
  BY DEF Phase

LEMMA PhaseOfIndex ==
    ASSUME CallInv, NEW p \in Process, pc[p] \in InPhase \cup {"record recovered"}, me[p].phase[1] = "grade"
    PROVE  me[p].phase = <<"grade", me[p].index>>
<1>1. PICK ph \in Phase : ph = me[p].phase /\ ph[2] = me[p].index /\ ph[1] = "grade"
  BY DEF InPhase, CallInv, EpisodeInv, Placed
<1> QED BY <1>1, GradePair

\* p goes on with what it remembers; its grading may be announced or recorded.
LEMMA GradeRow ==
    ASSUME CallInv, GradeInv, Later, DOMAIN verdicts' = DOMAIN verdicts, NEW p \in Process, NEW label, Goto(p, label),
           \A q \in Process \ {p} : me'[q] = me[q], UNCHANGED held, rows'[Frozen] = rows[Frozen],
           NEW i \in 0..Gradings - 1, NEW r, NEW h, NEW m,
           i = me[p].index, r = me[p].recovered, h = held[p], m = me'[p], m.index = i, m.recovered = r,
           \A o \in Phase \ {<<"grade", i>>} : rows'[o] = rows[o],
           rows'[<<"grade", i>>] # <<>> => \/ rows'[<<"grade", i>>] = rows[<<"grade", i>>]
                                           \/ \E s : Announced(<<"grade", i>>, s)',
           Confirmed(rows'[<<"grade", i>>]) => \/ rows'[<<"grade", i>>] = rows[<<"grade", i>>]
                                               \/ \E g : RecordedAs(<<"grade", i>>, g)' /\ Traced(g, i, 1)',
           Knows(label, m, h)'
    PROVE  GradeInv'
<1>1. pc'[p] = label /\ \A q \in Process \ {p} : pc'[q] = pc[q]
  BY DEF Goto, CallInv, EpisodeInv, Tables
<1>2. Remembers(i, r, h)
  BY DEF GradeInv
<1>3. Remembers(i, r, h)'
  BY <1>2, LaterRemembers
<1>4. ASSUME NEW k \in 0..Gradings - 1, k # i
      PROVE  rows'[<<"grade", k>>] = rows[<<"grade", k>>]
  BY <1>4, GradePhase
<1>5. ASSUME NEW k \in 0..Gradings - 1
      PROVE  /\ rows'[<<"grade", k>>] # <<>> =>
                   (\E s : Announced(<<"grade", k>>, s)') /\ \A j \in 0..k - 1 : Inconclusive(j)'
             /\ Confirmed(rows'[<<"grade", k>>]) => \E g : RecordedAs(<<"grade", k>>, g)' /\ Traced(g, k, 1)'
  BY <1>4, <1>3, LaterRows DEF Remembers
<1>6. RowsTraced'
  BY <1>5 DEF RowsTraced
<1>7. FrozenBacked'
  BY LaterFrozen
<1>8. Remembers(me[p].index, me[p].recovered, held[p])'
  BY <1>3 DEF Remembers
<1>9. Knows(pc[p], me[p], held[p])'
  BY <1>1 DEF Knows
<1> QED BY <1>1, <1>6, <1>7, <1>8, <1>9, GradeFrame

LEMMA GradeAnnounceGrade ==
    ASSUME CallInv, BindInv, SampleInv, GradeInv, NEW p \in Process, ~OfEpisode(me[p].phase), Announce(p)
    PROVE  GradeInv'
<1>1. pc[p] = "announce" /\ UNCHANGED runVars
  BY DEF Announce, At
<1>2. PICK m, i, r, h : m = me[p] /\ i = me[p].index /\ r = me[p].recovered /\ h = held[p]
  OBVIOUS
<1>3. i \in 0..Gradings - 1 /\ m.phase = <<"grade", i>>
  BY <1>1, <1>2, IndexType, PhaseOfIndex DEF OfEpisode, InPhase
<1>4. PICK ph \in Phase : ph = <<"grade", i>>
  BY <1>3, GradePhase
<1>5. PICK bad \in {"infrastructure", "run raised"} :
         Observe(p, ph, 1, {Receipt("intent", me[p].stamp)}, "dispatched", bad)
  BY <1>2, <1>3, <1>4 DEF Announce
<1>6. /\ Later /\ UNCHANGED <<verdicts, me, held>> /\ rows'[Frozen] = rows[Frozen]
      /\ \A o \in Phase \ {ph} : rows'[o] = rows[o]
      /\ Confirmed(rows'[ph]) => rows'[ph] = rows[ph]
      /\ rows'[ph] = rows[ph] \/ (rows'[ph] # <<>> /\ rows'[ph][1] = {Receipt("intent", me[p].stamp)})
      /\ Goto(p, "dispatched") \/ Goto(p, bad)
  <2>1. PICK receipts, ok : receipts = {Receipt("intent", me[p].stamp)} /\ ok = "dispatched"
    OBVIOUS
  <2>2. Observe(p, ph, 1, receipts, ok, bad)
    BY <1>5, <2>1
  <2>3. /\ Later /\ UNCHANGED <<verdicts, me, held>> /\ rows'[Frozen] = rows[Frozen]
        /\ \A o \in Phase \ {ph} : rows'[o] = rows[o]
        /\ Goto(p, ok) \/ Goto(p, bad)
    BY <1>1, <2>2, OneNotTwo, ObserveLater
  <2>4. /\ Confirmed(rows'[ph]) => rows'[ph] = rows[ph]
        /\ rows'[ph] = rows[ph] \/ (rows'[ph] # <<>> /\ rows'[ph][1] = receipts)
    BY <2>2, ObserveFirst
  <2> QED BY <2>1, <2>3, <2>4
<1>7. PICK label \in {"dispatched", "infrastructure", "run raised"} : Goto(p, label)
  BY <1>6
<1>8. Knows(pc[p], m, h)
  BY <1>2 DEF GradeInv
<1>9. m.recovered = Nothing
  <2>1. pc[p] \in InPhase
    BY <1>1 DEF InPhase
  <2>2. m.phase[1] = "grade"
    <3>1. \A n : <<"grade", n>>[1] = "grade"
      OBVIOUS
    <3> QED BY <1>3, <3>1
  <2> QED BY <1>8, <2>1, <2>2 DEF Knows, Grading
<1>10. Knows(label, m, h)'
  BY <1>9 DEF Knows, Graded, Grading
<1>11. rows'[ph] # <<>> => rows'[ph] = rows[ph] \/ \E s : Announced(ph, s)'
  <2>1. PICK s : s = me[p].stamp
    OBVIOUS
  <2> QED BY <1>6, <2>1 DEF Announced, Receipt
<1> QED BY <1>2, <1>3, <1>4, <1>6, <1>7, <1>10, <1>11, GradeRow

LEMMA GradeDispatchGrade ==
    ASSUME CallInv, SampleInv, GradeInv, NEW p \in Process, DispatchGrade(p)
    PROVE  GradeInv'
<1>1. pc[p] = "dispatched" /\ me[p].phase[1] = "grade" /\ UNCHANGED <<rows, held, retries>>
  BY DEF DispatchGrade, At
<1>2. PICK m, i, r, h : m = me[p] /\ i = me[p].index /\ r = me[p].recovered /\ h = held[p]
  OBVIOUS
<1>3. i \in 0..Gradings - 1 /\ m.phase = <<"grade", i>>
  BY <1>1, <1>2, IndexType, PhaseOfIndex DEF InPhase
<1>4. PICK ph \in Phase : ph = <<"grade", i>>
  BY <1>3, GradePhase
<1>5. calls' = [calls EXCEPT ![ph] = @ + 1] /\ calls[ph] = 0 /\ calls \in [Phase -> Nat]
  BY <1>1, <1>2, <1>3, <1>4 DEF DispatchGrade, CallInv, EpisodeInv, Tables, Executed
<1>6. calls'[ph] = 1 /\ \A o \in Phase \ {ph} : calls'[o] = calls[o]
  BY <1>5, CountedOnce
<1>7. PICK v \in Verdict : verdicts' = [verdicts EXCEPT ![i] = v]
  BY <1>2 DEF DispatchGrade
<1>8. DOMAIN verdicts' = DOMAIN verdicts /\ verdicts'[i] = v /\ \A k \in 0..Gradings - 1 : k # i => verdicts'[k] = verdicts[k]
  BY <1>3, <1>7 DEF GradeInv
<1>9. Later
  <2>1. ASSUME NEW k \in 0..Gradings - 1, calls[<<"grade", k>>] > 0
        PROVE  calls'[<<"grade", k>>] > 0 /\ verdicts'[k] = verdicts[k]
    BY <1>5, <2>1, <1>4, <1>6, <1>8, GradePhase
  <2> QED BY <1>1, <2>1 DEF Later
<1>10. Quiet
  BY <1>1, <1>8, <1>9 DEF Quiet
<1>11. PICK g : g = Grade(i, v)
  OBVIOUS
<1>12. OwnGrade(g, i)'
  BY <1>4, <1>6, <1>8, <1>11 DEF OwnGrade, Grade
<1>13. /\ me'[p].index = i /\ me'[p].recovered = r /\ me'[p].phase = m.phase /\ me'[p].result = g
       /\ \A q \in Process \ {p} : me'[q] = me[q]
  <2>1. \E s : me' = [me EXCEPT ![p].result = g] \/ me' = [me EXCEPT ![p].result = g, ![p].intent = s]
    BY <1>2, <1>8, <1>11 DEF DispatchGrade
  <2>2. DOMAIN me = Process /\ DOMAIN me[p] = DOMAIN Fresh
    BY DEF CallInv, EpisodeInv, Tables
  <2>3. PICK s : me' = [me EXCEPT ![p].result = g] \/ me' = [me EXCEPT ![p].result = g, ![p].intent = s]
    BY <2>1
  <2>4. \A q \in Process \ {p} : me'[q] = me[q]
    BY <2>2, <2>3
  <2>5. me'[p] = [me[p] EXCEPT !.result = g] \/ me'[p] = [me[p] EXCEPT !.result = g, !.intent = s]
    BY <2>2, <2>3
  <2>6. {"index", "recovered", "phase", "result"} \subseteq DOMAIN me[p]
    BY <2>2, FreshFields
  <2> QED BY <1>2, <2>4, <2>5, <2>6
<1>14. PICK label \in {"record", "grade pending"} : Goto(p, label)
  BY DEF DispatchGrade
<1>15. Traced(g, i, 1)'
  BY <1>3, <1>12, Below DEF Traced
<1>16. r = Nothing
  BY <1>2, <1>1 DEF GradeInv, Grading, InPhase, Knows
<1>17. PICK mm : mm = me'[p]
  OBVIOUS
<1>18. Knows(label, mm, h)'
  BY <1>12, <1>13, <1>15, <1>16, <1>17 DEF Knows, InPhase
<1>19. mm.index = i /\ mm.recovered = r /\ rows'[Frozen] = rows[Frozen]
  BY <1>1, <1>13, <1>17
<1> QED BY <1>1, <1>2, <1>3, <1>8, <1>9, <1>13, <1>14, <1>17, <1>18, <1>19, GradeRow

LEMMA GradeRecordGrade ==
    ASSUME CallInv, OwnInv, BindInv, SampleInv, GradeInv, NEW p \in Process, ~OfEpisode(me[p].phase),
           Record(p) \/ RecordRecovered(p)
    PROVE  GradeInv'
<1>1. pc[p] \in {"record", "record recovered"} /\ UNCHANGED runVars
  BY DEF Record, RecordRecovered, At
<1>2. PICK m, i, r, h : m = me[p] /\ i = me[p].index /\ r = me[p].recovered /\ h = held[p]
  OBVIOUS
<1>3. i \in 0..Gradings - 1 /\ m.phase = <<"grade", i>>
  BY <1>1, <1>2, IndexType, PhaseOfIndex DEF OfEpisode, InPhase
<1>4. PICK ph \in Phase : ph = <<"grade", i>>
  BY <1>3, GradePhase
<1>5. PICK g, s, bad : /\ g = m.result /\ bad \in {"unconfirmed", "run raised"}
                       /\ Observe(p, ph, 2, {Receipt("intent", s), Receipt("result", g)}, "recorded", bad)
  BY <1>2, <1>3, <1>4 DEF Record, RecordRecovered
<1>6. PICK receipts : receipts = {Receipt("intent", s), Receipt("result", g)}
  OBVIOUS
<1>7. /\ Later /\ UNCHANGED <<verdicts, me, held>> /\ rows'[Frozen] = rows[Frozen]
      /\ \A o \in Phase \ {ph} : rows'[o] = rows[o]
  BY <1>1, <1>5, <1>6, OneNotTwo, ObserveLater
<1>8. /\ Confirmed(rows'[ph]) => rows'[ph] = rows[ph] \/ rows'[ph][2] = receipts
      /\ (Goto(p, "recorded") /\ Confirmed(rows'[ph]) /\ rows'[ph][2] = receipts) \/ Goto(p, bad)
  BY <1>5, <1>6, ObserveSecond
<1>9. Confirmed(rows'[ph]) /\ rows'[ph][2] = receipts => RecordedAs(ph, g)'
  BY <1>6 DEF RecordedAs, Receipt, Confirmed
<1>10. /\ r = Nothing /\ Traced(g, i, 1)' /\ (OwnGrade(g, i)' \/ Oldest(h, g))
  <2>1. Knows(pc[p], m, h)
    BY <1>2 DEF GradeInv
  <2>2. m.phase[1] = "grade"
    BY <1>3
  <2>3. Graded(pc[p], m.phase) /\ Grading(pc[p], m.phase)
    BY <1>1, <2>2 DEF Graded, Grading, InPhase
  <2>4. r = Nothing /\ Traced(g, i, 1) /\ (OwnGrade(g, i) \/ Oldest(h, g))
    BY <1>2, <1>5, <2>1, <2>3 DEF Knows
  <2>5. 1 \in Nat
    OBVIOUS
  <2> QED BY <1>3, <1>7, <2>4, <2>5, LaterOwn, LaterTraced
<1>11. PICK label \in {"recorded", "unconfirmed", "run raised"} :
          Goto(p, label) /\ (label = "recorded" => RecordedAs(ph, g)')
  BY <1>5, <1>8, <1>9
<1>12. Knows(label, m, h)'
  BY <1>2, <1>3, <1>4, <1>5, <1>10, <1>11 DEF Plain, InPhase, Knows, Oldest, Grading, Graded
<1>13. Confirmed(rows'[ph]) => rows'[ph] = rows[ph] \/ \E x : RecordedAs(ph, x)' /\ Traced(x, i, 1)'
  BY <1>8, <1>9, <1>10
<1>14. DOMAIN verdicts' = DOMAIN verdicts /\ m = me'[p] /\ \A q \in Process \ {p} : me'[q] = me[q]
  BY <1>2, <1>7
<1>15. rows'[ph] # <<>> => rows'[ph] = rows[ph] \/ \E x : Announced(ph, x)'
  BY <1>5, <1>3, <1>4, SecondRevision DEF RowsGrow, GradeInv, RowsTraced, Announced, Receipt
<1> QED BY <1>2, <1>3, <1>4, <1>7, <1>11, <1>12, <1>13, <1>14, <1>15, GradeRow

LEMMA GradeStartStep ==
    ASSUME CallInv, GradeInv, NEW p \in Process, StartGrade(p)
    PROVE  GradeInv'
<1>1. pc[p] = "grade" /\ UNCHANGED held /\ Quiet
  BY QuietSame DEF StartGrade, At
<1>2. PICK i, r, h : i = me[p].index /\ r = me[p].recovered /\ h = held[p]
  OBVIOUS
<1>3. i \in 0..Gradings - 1 /\ Remembers(i, r, h)
  BY <1>2, IndexType DEF GradeInv
<1>4. PICK m, rr : m = me'[p] /\ rr = me'[p].recovered
  OBVIOUS
<1>5. CASE Refused(p) /\ UNCHANGED me
  <2>1. PICK label \in {"invalid", "run raised"} : Goto(p, label)
    BY <1>5 DEF Refused
  <2>2. Plain(label)
    BY DEF Plain, InPhase
  <2> QED BY <1>1, <1>5, <2>1, <2>2, GradeSame
<1>6. CASE r = Nothing /\ Goto(p, "announce") /\ Mine(p, "phase", <<"grade", i>>)
  <2>1. m.index = i /\ m.recovered = Nothing /\ \A q \in Process \ {p} : me'[q] = me[q]
    <3>1. PICK ph : Mine(p, "phase", ph)
      BY <1>6
    <3>2. {"index", "recovered"} \subseteq DOMAIN Fresh \ {"phase"} /\ "phase" \in DOMAIN Fresh
      BY FreshFields
    <3> QED BY <1>2, <1>4, <1>6, <3>1, <3>2, MineSet
  <2>2. Knows("announce", m, h)
    BY <2>1 DEF Knows, Graded
  <2> QED BY <1>1, <1>2, <1>3, <1>4, <1>6, <2>1, <2>2, GradeGoes
<1>7. CASE /\ r # Nothing /\ Goto(p, "record recovered")
           /\ me' = [me EXCEPT ![p].phase = <<"grade", i>>, ![p].result = r, ![p].recovered = Nothing]
  <2>1. m.index = i /\ m.recovered = Nothing /\ m.result = r /\ \A q \in Process \ {p} : me'[q] = me[q]
    BY <1>2, <1>4, <1>7, FreshFields DEF CallInv, EpisodeInv, Tables
  <2>2. Oldest(h, r) /\ Traced(r, i, 1)
    BY <1>3, <1>7 DEF Remembers
  <2>3. Knows("record recovered", m, h)
    BY <2>1, <2>2 DEF Knows
  <2>4. Remembers(i, rr, h)
    BY <1>3, <1>4, <2>1 DEF Remembers
  <2> QED BY <1>1, <1>2, <1>3, <1>4, <1>7, <2>1, <2>3, <2>4, GradeGoes
<1> QED BY <1>2, <1>5, <1>6, <1>7 DEF StartGrade

\* The grading after one that gave no verdict.
LEMMA RemembersNext ==
    ASSUME CallInv, NEW i \in 0..Gradings - 1, NEW h, Remembers(i, Nothing, h), h # <<>> => retries > 0,
           NEW g, OwnGrade(g, i) \/ Oldest(h, g), RecordedAs(<<"grade", i>>, g), g.verdict = "infrastructure"
    PROVE  Remembers(i + 1, Nothing, h)
<1>1. Inconclusive(i)
  BY DEF Inconclusive
<1>2. \A j \in 0..(i + 1) - 1 : j = i \/ j \in 0..i - 1
  BY CountsAssumption
<1>3. \A j \in 0..(i + 1) - 1 : Inconclusive(j)
  BY <1>1, <1>2 DEF Remembers
<1>4. ASSUME NEW o, Oldest(h, o) PROVE Traced(o, i + 1, 0)
  <2>1. PICK k \in 0..i : OwnGrade(o, k) /\ (k < i => verdicts[k] = "infrastructure")
    BY <1>4 DEF Remembers, Traced
  <2>2. k \in 0..i + 1 /\ (k < i \/ k = i)
    OBVIOUS
  <2>3. verdicts[k] = "infrastructure"
    <3>1. CASE k = i
      <4>1. CASE OwnGrade(g, i)
        BY <3>1, <4>1 DEF OwnGrade, Grade
      <4>2. CASE Oldest(h, g)
        <5>1. g = o
          BY <1>4, <4>2 DEF Oldest
        <5> QED BY <2>1, <3>1, <5>1 DEF OwnGrade, Grade
      <4> QED BY <4>1, <4>2
    <3> QED BY <2>1, <2>2, <3>1
  <2>4. ~(retries <= 0)
    <3>1. \A n \in Nat : n > 0 => ~(n <= 0)
      OBVIOUS
    <3>2. retries > 0 /\ retries \in Nat
      BY <1>4 DEF Oldest, CallInv, EpisodeInv, Tables
    <3> QED BY <3>1, <3>2
  <2> QED BY <2>1, <2>2, <2>3, <2>4 DEF Traced
<1> QED BY <1>3, <1>4 DEF Remembers

\* The grade that decides is its own grading's.
LEMMA TracedBacked ==
    ASSUME NEW i \in 0..Gradings - 1, NEW g, Traced(g, i, 1), RecordedAs(<<"grade", i>>, g)
    PROVE  Backed(g)
<1>1. SUFFICES ASSUME g.verdict \in Rewarded PROVE OwnGrade(g, i)
  BY DEF Backed
<1>2. PICK k \in 0..i : OwnGrade(g, k) /\ (k < i => verdicts[k] = "infrastructure")
  BY DEF Traced
<1>3. ~(k < i)
  BY <1>1, <1>2 DEF OwnGrade, Grade, Rewarded
<1>4. k = i
  BY <1>3
<1> QED BY <1>2, <1>4

LEMMA GradeAfterStep ==
    ASSUME CallInv, HeldInv, GradeInv, NEW p \in Process, AfterGrade(p)
    PROVE  GradeInv'
<1>1. pc[p] = "recorded" /\ me[p].phase[1] = "grade" /\ UNCHANGED held /\ Quiet
  BY QuietSame DEF AfterGrade, At
<1>2. PICK m, i, r, h : m = me[p] /\ i = me[p].index /\ r = me[p].recovered /\ h = held[p]
  OBVIOUS
<1>3. i \in 0..Gradings - 1 /\ m.phase = <<"grade", i>>
  BY <1>1, <1>2, IndexType, PhaseOfIndex DEF InPhase
<1>4. PICK g : g = m.result
  OBVIOUS
<1>5. Remembers(i, r, h) /\ Knows(pc[p], m, h)
  BY <1>2 DEF GradeInv
<1>6. Graded(pc[p], m.phase) /\ Grading(pc[p], m.phase)
  BY <1>1, <1>2 DEF Graded, Grading, InPhase
<1>7. /\ r = Nothing /\ Traced(g, i, 1) /\ (OwnGrade(g, i) \/ Oldest(h, g))
      /\ RecordedAs(<<"grade", i>>, g)
  BY <1>2, <1>4, <1>5, <1>6, <1>1, <1>3 DEF Knows
<1>8. PICK mm, ii : mm = me'[p] /\ ii = me'[p].index
  OBVIOUS
<1>9. CASE (Failed(p) \/ Refused(p)) /\ UNCHANGED me
  <2>1. PICK label \in {"invalid", "infrastructure", "run raised"} : Goto(p, label)
    BY <1>9 DEF Failed, Refused
  <2>2. Plain(label)
    BY DEF Plain, InPhase
  <2> QED BY <1>1, <1>9, <2>1, <2>2, GradeSame
<1>10. CASE GradeAgain(p) /\ Goto(p, "grade") /\ Mine(p, "index", i + 1)
  <2>1. g.verdict = "infrastructure" /\ i + 1 \in 0..Gradings - 1
    BY <1>2, <1>4, <1>10, <1>3, CountsAssumption DEF GradeAgain
  <2>2. ii = i + 1 /\ mm.recovered = r /\ \A q \in Process \ {p} : me'[q] = me[q]
    BY <1>2, <1>8, <1>10, MineSet, FreshFields
  <2>3. h # <<>> => retries > 0
    BY <1>1, <1>2 DEF HeldInv, Unpending, Driving
  <2>4. Remembers(i + 1, Nothing, h)
    BY <1>3, <1>5, <1>7, <2>1, <2>3, RemembersNext
  <2>5. Remembers(ii, r, h) /\ ii \in 0..Gradings - 1
    BY <1>7, <2>1, <2>2, <2>4
  <2>6. Knows("grade", mm, h)
    BY PlainKnows DEF Plain, InPhase
  <2> QED BY <1>1, <1>2, <1>8, <1>10, <2>2, <2>5, <2>6, GradeGoes
<1>11. CASE Goto(p, "freeze") /\ Mine(p, "outcome", g)
  <2>1. ii = i /\ mm.recovered = r /\ mm.outcome = g /\ \A q \in Process \ {p} : me'[q] = me[q]
    BY <1>2, <1>8, <1>11, MineSet, FreshFields
  <2>2. Backed(g)
    BY <1>3, <1>7, TracedBacked
  <2>3. Knows("freeze", mm, h)
    BY <2>1, <2>2 DEF Knows, Grading, Graded, InPhase
  <2>4. Remembers(ii, r, h) /\ ii \in 0..Gradings - 1
    BY <1>3, <1>5, <2>1
  <2> QED BY <1>1, <1>2, <1>8, <1>11, <2>1, <2>3, <2>4, GradeGoes
<1> QED BY <1>2, <1>4, <1>9, <1>10, <1>11 DEF AfterGrade

\* No measured outcome, and what is then frozen.
LEMMA GradeOutcomeSteps ==
    ASSUME CallInv, BindInv, GradeInv, NEW p \in Process, Undecided(p) \/ Freeze(p) \/ Gather(p)
    PROVE  GradeInv'
<1>1. UNCHANGED held
  BY DEF Undecided, Freeze, Gather, runVars
<1>2. Quiet
  BY OtherNames, OtherRunRows, SameRunRows, QuietSame DEF Freeze, Undecided, Gather, CallInv,
     EpisodeInv, Tables, BindInv, BindTables, runVars, RunRowsStay
<1>3. PICK m, i, r, h, mm : m = me[p] /\ i = me[p].index /\ r = me[p].recovered /\ h = held[p] /\ mm = me'[p]
  OBVIOUS
<1>4. i \in 0..Gradings - 1 /\ Remembers(i, r, h) /\ Knows(pc[p], m, h)
  BY <1>3, IndexType DEF GradeInv
<1>5. CASE Undecided(p)
  <2>1. PICK o : /\ o.verdict \in {"invalid", "infrastructure"}
                 /\ Mine(p, "outcome", o) /\ Goto(p, "freeze")
    BY <1>5 DEF Undecided, Ungraded
  <2>2. Backed(o)
    BY <2>1 DEF Backed, Rewarded
  <2>3. mm.index = i /\ mm.recovered = r /\ mm.outcome = o /\ \A q \in Process \ {p} : me'[q] = me[q]
    BY <1>3, <2>1, MineSet, FreshFields
  <2>4. Knows("freeze", mm, h)
    BY <2>2, <2>3 DEF Knows, Grading, Graded, InPhase
  <2> QED BY <1>1, <1>2, <1>3, <1>4, <2>1, <2>3, <2>4, GradeGoes
<1>6. CASE Freeze(p)
  <2>1. PICK label \in {"gather", "freeze pending"} : Goto(p, label)
    BY <1>6, ObserveGoes DEF Freeze
  <2>2. pc[p] = "freeze" /\ UNCHANGED me
    BY <1>6 DEF Freeze, At, runVars
  <2>3. Backed(m.outcome)
    BY <1>4, <2>2 DEF Knows
  <2>4. Knows(label, m, h)
    BY <2>3 DEF Knows, Grading, Graded, InPhase
  <2> QED BY <1>1, <1>2, <1>3, <1>4, <2>1, <2>2, <2>4, GradeGoes
<1>7. CASE Gather(p)
  <2>1. PICK y : y.outcome = m.outcome /\ Mine(p, "payload", y) /\ Goto(p, "publish")
    BY <1>3, <1>7 DEF Gather
  <2>2. pc[p] = "gather"
    BY <1>7 DEF Gather, At
  <2>3. Backed(m.outcome)
    BY <1>4, <2>2 DEF Knows
  <2>4. mm.index = i /\ mm.recovered = r /\ mm.payload = y /\ \A q \in Process \ {p} : me'[q] = me[q]
    BY <1>3, <2>1, MineSet, FreshFields
  <2>5. Knows("publish", mm, h)
    BY <2>1, <2>3, <2>4 DEF Knows, Grading, Graded, InPhase
  <2> QED BY <1>1, <1>2, <1>3, <1>4, <2>1, <2>4, <2>5, GradeGoes
<1> QED BY <1>5, <1>6, <1>7

-----------------------------------------------------------------------------
(* What was graded: what is frozen, raised and taken up again.             *)

LEMMA FrozenRow ==
    ASSUME BindInv, NEW p, NEW r, NEW ok, NEW bad, Observe(p, Frozen, 1, r, ok, bad)
    PROVE  rows' = rows \/ rows' = [rows EXCEPT ![Frozen] = <<r>>]
<1>1. rows[Frozen] = <<>> \/ \E x : rows[Frozen] = <<{Receipt("frozen", x)}>>
  BY DEF BindInv
<1>2. CASE Recorded(rows[Frozen], 1, r)
  BY <1>2 DEF Observe, Call
<1>3. CASE ~Recorded(rows[Frozen], 1, r) /\ Extends(rows[Frozen], 1, r)
  <2>1. rows[Frozen] = <<>>
    BY <1>1, <1>3 DEF Extends
  <2>2. PICK s : s = Append(rows[Frozen], r)
    OBVIOUS
  <2>3. s = <<r>>
    BY <2>1, <2>2, FirstReceipt
  <2>4. rows' = rows \/ rows' = [rows EXCEPT ![Frozen] = s]
    BY <1>3, <2>2 DEF Observe, Call
  <2> QED BY <2>3, <2>4
<1>4. CASE ~Recorded(rows[Frozen], 1, r) /\ ~Extends(rows[Frozen], 1, r)
  BY <1>4 DEF Observe
<1> QED BY <1>2, <1>3, <1>4

\* What is frozen is backed when it is first, and stays.
LEMMA GradePublishStep ==
    ASSUME CallInv, BindInv, GradeInv, NEW p \in Process, Publish(p)
    PROVE  GradeInv'
<1>1. pc[p] = "publish" /\ UNCHANGED runVars
  BY DEF Publish, At
<1>2. PICK m, i, r, h : m = me[p] /\ i = me[p].index /\ r = me[p].recovered /\ h = held[p]
  OBVIOUS
<1>3. i \in 0..Gradings - 1 /\ Remembers(i, r, h) /\ Knows(pc[p], m, h)
  BY <1>2, IndexType DEF GradeInv
<1>4. PICK y, o : y = m.payload /\ o = y.outcome
  OBVIOUS
<1>5. Backed(o)
  BY <1>1, <1>3, <1>4 DEF Knows
<1>6. PICK receipts : receipts = {Receipt("frozen", y)}
  OBVIOUS
<1>7. Observe(p, Frozen, 1, receipts, "finish run", "publication pending")
  BY <1>2, <1>4, <1>6 DEF Publish
<1>8. PICK label \in {"finish run", "publication pending"} : Goto(p, label)
  BY <1>7, ObserveGoes
<1>9. /\ Frozen \in DOMAIN rows /\ Phase \subseteq DOMAIN rows /\ Frozen \notin Phase
  BY NotPhases DEF CallInv, EpisodeInv, Tables, BindInv, BindTables
<1>10. /\ \A ph \in Phase : rows'[ph] = rows[ph]
       /\ rows'[Frozen] = rows[Frozen] \/ rows'[Frozen] = <<receipts>>
  BY <1>7, <1>9, FrozenRow
<1>11. Later /\ UNCHANGED <<verdicts, me, held>>
  BY <1>1, <1>10 DEF Later, runVars
<1>12. FrozenBacked'
  <2>1. ASSUME NEW x, rows'[Frozen] = <<{Receipt("frozen", x)}>>
        PROVE  Backed(x.outcome)'
    <3>1. PICK z : z = x.outcome
      OBVIOUS
    <3>2. CASE rows'[Frozen] = rows[Frozen]
      BY <2>1, <3>1, <3>2, <1>11, LaterBacked DEF GradeInv, Backed
    <3>3. CASE rows'[Frozen] = <<receipts>>
      <4>1. <<{Receipt("frozen", x)}>>[1] = <<receipts>>[1]
        BY <2>1, <3>3
      <4>2. Receipt("frozen", x) = Receipt("frozen", y)
        BY <1>6, <4>1
      <4>3. x = y
        BY <4>2 DEF Receipt
      <4>4. Backed(o)'
        BY <1>5, <1>11, LaterBacked
      <4> QED BY <1>4, <4>3, <4>4 DEF Backed
    <3> QED BY <1>10, <3>2, <3>3
  <2> QED BY <2>1 DEF FrozenBacked, Frozen, Receipt
<1>13. RowsTraced'
  BY <1>10, <1>11, LaterRowsTraced
<1>14. pc'[p] = label /\ \A q \in Process \ {p} : pc'[q] = pc[q]
  BY <1>8 DEF Goto, CallInv, EpisodeInv, Tables
<1>15. Remembers(i, r, h)'
  BY <1>3, <1>11, LaterRemembers
<1>16. Knows(label, m, h)'
  BY <1>5, <1>11, <1>4, LaterBacked DEF Knows, Grading, Graded, InPhase
<1>17. Remembers(me[p].index, me[p].recovered, held[p])'
  BY <1>2, <1>11, <1>15 DEF Remembers
<1>18. Knows(pc[p], me[p], held[p])'
  BY <1>2, <1>11, <1>14, <1>16 DEF Knows
<1> QED BY <1>11, <1>12, <1>13, <1>14, <1>17, <1>18, GradeFrame

LEMMA GradeFinishStep ==
    ASSUME CallInv, BindInv, GradeInv, NEW p \in Process, FinishRun(p)
    PROVE  GradeInv'
<1>1. pc[p] = "finish run" /\ UNCHANGED <<held, me>> /\ Quiet
  BY QuietSame DEF FinishRun, At
<1>2. PICK label \in {"run returned", "run raised", "publication pending"} : Goto(p, label)
  BY DEF FinishRun, Call
<1>3. PICK m, i, r, h : m = me[p] /\ i = me[p].index /\ r = me[p].recovered /\ h = held[p]
  OBVIOUS
<1>4. i \in 0..Gradings - 1 /\ Remembers(i, r, h)
  BY <1>3, IndexType DEF GradeInv
<1>5. Backed(m.payload.outcome)
  <2>1. PICK y : y = m.payload
    OBVIOUS
  <2>2. Keeping(pc[p], parent[p], y)
    BY <1>3, <2>1 DEF BindInv
  <2>3. rows[Frozen] = <<{Receipt("frozen", y)}>>
    BY <1>1, <2>2 DEF Keeping
  <2> QED BY <2>1, <2>3 DEF GradeInv
<1>6. Knows(label, m, h) /\ label # "recorded"
  BY <1>2, <1>5 DEF Knows, Grading, Graded, InPhase
<1> QED BY <1>1, <1>2, <1>3, <1>4, <1>6, GradeGoes

\* What is raised is what p knew.
LEMMA RemembersRaised ==
    ASSUME NEW i \in 0..Gradings - 1, NEW r, NEW h, IsRow(h), Remembers(i, r, h), NEW place, NEW m, m.index = i,
           Knows(place, m, h), NEW x, x.kind = place, x.grade = m.result, x.outcome = m.outcome, x.payload = m.payload
    PROVE  Remembers(i, r, Append(h, x))
<1>1. PICK a : a = Append(h, x)
  OBVIOUS
<1>2. a # <<>> /\ Head(a) = IF h = <<>> THEN x ELSE Head(h)
  BY <1>1, AppendHead
<1>3. CASE h # <<>>
  BY <1>2, <1>3, <1>1 DEF Remembers, Oldest
<1>4. CASE h = <<>>
  <2>1. Head(a) = x /\ r = Nothing /\ \A j \in 0..i - 1 : Inconclusive(j)
    BY <1>2, <1>4 DEF Remembers, Oldest
  <2>2. ASSUME NEW g, Oldest(a, g) PROVE Traced(g, i, 0)
    BY <2>1, <2>2, Below DEF Oldest, Knows, Traced
  <2>3. Head(a).kind = "freeze pending" => Backed(Head(a).outcome)
    BY <2>1 DEF Knows
  <2>4. Head(a).kind = "publication pending" => Backed(Head(a).payload.outcome)
    BY <2>1 DEF Knows
  <2>5. Remembers(i, r, a)
    BY <2>1, <2>2, <2>3, <2>4 DEF Remembers
  <2> QED BY <1>1, <2>5
<1> QED BY <1>3, <1>4

LEMMA GradeRaiseStep ==
    ASSUME CallInv, SampleInv, GradeInv, NEW p \in Process, Raise(p)
    PROVE  GradeInv'
<1>1. UNCHANGED me /\ Goto(p, "run raised") /\ Quiet
  BY QuietSame DEF Raise
<1>2. PICK m, i, r, h : m = me[p] /\ i = me[p].index /\ r = me[p].recovered /\ h = held[p]
  OBVIOUS
<1>3. i \in 0..Gradings - 1 /\ Remembers(i, r, h) /\ Knows(pc[p], m, h)
  BY <1>2, IndexType DEF GradeInv
<1>4. PICK x : /\ x.kind = pc[p] /\ x.grade = m.result /\ x.outcome = m.outcome /\ x.payload = m.payload
               /\ held' = [held EXCEPT ![p] = Append(@, x)]
  BY <1>2 DEF Raise
<1>5. IsRow(h) /\ DOMAIN held = Process
  BY <1>2 DEF SampleInv, SampleTables
<1>6. PICK a : a = Append(h, x)
  OBVIOUS
<1>7. held'[p] = a /\ \A q \in Process \ {p} : held'[q] = held[q]
  BY <1>2, <1>4, <1>5, <1>6
<1>8. Remembers(i, r, a)
  BY <1>2, <1>3, <1>4, <1>5, <1>6, RemembersRaised
<1>9. Knows("run raised", m, a)
  BY PlainKnows DEF Plain, InPhase
<1> QED BY <1>1, <1>2, <1>3, <1>7, <1>8, <1>9, GradeGoes

LEMMA GradeRecoverRun ==
    ASSUME CallInv, GradeInv, NEW p \in Process, RecoverRun(p)
    PROVE  GradeInv'
<1>1. UNCHANGED held /\ Quiet
  BY QuietSame DEF RecoverRun
<1>2. PICK label \in {"run returned", "finish run", "run raised"} : Goto(p, label)
  BY DEF RecoverRun
<1>3. Plain(label) /\ label # "recorded"
  BY DEF Plain, InPhase
<1>4. \/ UNCHANGED me
      \/ \E x : me' = [me EXCEPT ![p].payload = x, ![p].entry = "recover"]
  BY DEF RecoverRun
<1>5. PICK m : m = me'[p]
  OBVIOUS
<1>6. /\ me'[p].index = me[p].index /\ me'[p].recovered = me[p].recovered
      /\ \A q \in Process \ {p} : me'[q] = me[q]
  <2>1. DOMAIN me = Process /\ {"index", "recovered"} \subseteq DOMAIN me[p]
    BY FreshFields DEF CallInv, EpisodeInv, Tables
  <2>2. CASE \E x : me' = [me EXCEPT ![p].payload = x, ![p].entry = "recover"]
    <3>1. PICK x : me' = [me EXCEPT ![p].payload = x, ![p].entry = "recover"]
      BY <2>2
    <3>2. me'[p] = [me[p] EXCEPT !.payload = x, !.entry = "recover"] /\ \A q \in Process \ {p} : me'[q] = me[q]
      BY <2>1, <3>1
    <3> QED BY <2>1, <3>2
  <2> QED BY <1>4, <2>2
<1> QED BY <1>1, <1>2, <1>3, <1>5, <1>6, GradeLeaves

\* p takes up its oldest pending publication x: the places, and the record it goes on with.
LEMMA RetryRecords ==
    ASSUME CallInv, NEW p \in Process, NEW x, RetryPublication(p, x)
    PROVE  \/ me' = me /\ Goto(p, "run returned")
           \/ /\ me'[p].index = me[p].index
              /\ \/ Goto(p, "submit") /\ me'[p].recovered = me[p].recovered
                 \/ /\ x.kind = "freeze pending" /\ Goto(p, "freeze")
                    /\ me'[p].recovered = me[p].recovered /\ me'[p].outcome = x.outcome
                 \/ /\ x.kind = "publication pending" /\ Goto(p, "publish")
                    /\ me'[p].recovered = me[p].recovered /\ me'[p].payload = x.payload
                 \/ x.kind = "grade pending" /\ Goto(p, "grade") /\ me'[p].recovered = x.grade
                 \/ Goto(p, "run raised") /\ me'[p].recovered = Nothing
<1>1. DOMAIN me = Process /\ DOMAIN me[p] = DOMAIN Fresh
  BY DEF CallInv, EpisodeInv, Tables
<1>2. CASE run.state = "completed"
  BY <1>2 DEF RetryPublication
<1>3. PICK again : again = [me[p] EXCEPT !.entry = "retry", !.stamp = retries']
  OBVIOUS
<1>4. /\ again.index = me[p].index /\ again.recovered = me[p].recovered
      /\ DOMAIN again = DOMAIN Fresh
  BY <1>1, <1>3, FreshFields
<1>5. CASE run.state # "completed" /\ x.kind = "submission pending"
  BY <1>3, <1>5, <1>1, <1>4 DEF RetryPublication
<1>6. CASE run.state # "completed" /\ x.kind = "freeze pending"
  <2>1. Goto(p, "freeze") /\ me' = [me EXCEPT ![p] = [again EXCEPT !.outcome = x.outcome]]
    BY <1>3, <1>6 DEF RetryPublication
  <2>2. me'[p] = [again EXCEPT !.outcome = x.outcome]
    BY <1>1, <2>1
  <2>3. me'[p].index = me[p].index /\ me'[p].recovered = me[p].recovered /\ me'[p].outcome = x.outcome
    BY <1>4, <2>2, FreshFields
  <2> QED BY <1>6, <2>1, <2>3
<1>7. CASE run.state # "completed" /\ x.kind = "publication pending"
  <2>1. Goto(p, "publish") /\ me' = [me EXCEPT ![p] = [again EXCEPT !.payload = x.payload]]
    BY <1>3, <1>7 DEF RetryPublication
  <2>2. me'[p] = [again EXCEPT !.payload = x.payload]
    BY <1>1, <2>1
  <2>3. me'[p].index = me[p].index /\ me'[p].recovered = me[p].recovered /\ me'[p].payload = x.payload
    BY <1>4, <2>2, FreshFields
  <2> QED BY <1>7, <2>1, <2>3
<1>8. CASE run.state # "completed" /\ x.kind = "grade pending"
  <2>1. PICK y : y = IF pc'[p] = "grade" THEN x.grade ELSE Nothing
    OBVIOUS
  <2>2. me' = [me EXCEPT ![p] = [again EXCEPT !.recovered = y]]
    BY <1>3, <1>8, <2>1 DEF RetryPublication
  <2>3. me'[p] = [again EXCEPT !.recovered = y]
    BY <1>1, <2>2
  <2>4. me'[p].index = me[p].index /\ me'[p].recovered = y
    BY <1>4, <2>3, FreshFields
  <2>5. PICK label \in {"grade", "run raised"} : Goto(p, label)
    BY <1>8 DEF RetryPublication, Call
  <2>6. pc'[p] = label
    BY <2>5 DEF Goto, CallInv, EpisodeInv, Tables
  <2> QED BY <1>8, <2>1, <2>4, <2>5, <2>6
<1>9. x.kind \in Pendings
  BY DEF RetryPublication
<1> QED BY <1>2, <1>5, <1>6, <1>7, <1>8, <1>9 DEF Pendings

\* The grade taken up again is one retry older.
LEMMA RetriedGrade ==
    ASSUME CallInv, GradeInv, Later, retries' = retries + 1, NEW i \in 0..Gradings - 1, NEW g, Traced(g, i, 0)
    PROVE  Traced(g, i, 1)'
<1>1. PICK k \in 0..i : OwnGrade(g, k) /\ (k < i => verdicts[k] = "infrastructure") /\ (retries <= 0 => k = i)
  BY DEF Traced
<1>2. k \in 0..Gradings - 1
  BY Below
<1>3. OwnGrade(g, k)' /\ verdicts'[k] = verdicts[k]
  BY <1>1, <1>2, LaterOwn DEF OwnGrade, Later
<1>4. retries' <= 1 => retries <= 0
  BY DEF CallInv, EpisodeInv, Tables
<1> QED BY <1>1, <1>3, <1>4 DEF Traced

LEMMA GradeRetryStep ==
    ASSUME CallInv, HeldInv, GradeInv, NEW p \in Process, RetryChild(p)
    PROVE  GradeInv'
<1>1. CASE RecoverRun(p)
  BY <1>1, GradeRecoverRun
<1>2. CASE RetryPublication(p, parent[p].pending)
  <2>1. PICK x : x = parent[p].pending
    OBVIOUS
  <2>2. held[p] # <<>> /\ x = Head(held[p])
    BY <2>1 DEF RetryChild, HeldInv, PendingInv
  <2>3. /\ UNCHANGED <<rows, run, held, calls, verdicts>> /\ retries' = retries + 1
        /\ \A q \in Process \ {p} : me'[q] = me[q]
    BY <1>2, <2>1, RetryPlaces
  <2>4. Quiet
    BY <2>3 DEF Quiet, Later
  <2>5. PICK i, r, h, m, rr : i = me[p].index /\ r = me[p].recovered /\ h = held[p] /\ m = me'[p] /\ rr = me'[p].recovered
    OBVIOUS
  <2>6. i \in 0..Gradings - 1 /\ Remembers(i, r, h) /\ h # <<>> /\ x = Head(h)
    BY <2>2, <2>5, IndexType DEF GradeInv
  <2>7. CASE me' = me /\ Goto(p, "run returned")
    BY <2>3, <2>4, <2>7, GradeSame DEF Plain, InPhase
  <2>8. ASSUME NEW label, Goto(p, label), me'[p].index = i, Remembers(i, rr, h), Knows(label, m, h), label # "recorded"
        PROVE  GradeInv'
    BY <2>3, <2>4, <2>5, <2>6, <2>8, GradeGoes
  <2>9. CASE me'[p].index = i /\ Goto(p, "submit") /\ rr = r
    BY <2>6, <2>8, <2>9, PlainKnows DEF Plain, InPhase
  <2>10. CASE me'[p].index = i /\ x.kind = "freeze pending" /\ Goto(p, "freeze") /\ rr = r /\ m.outcome = x.outcome
    BY <2>6, <2>10, <2>8 DEF Remembers, Knows, Grading, Graded, InPhase
  <2>11. CASE me'[p].index = i /\ x.kind = "publication pending" /\ Goto(p, "publish") /\ rr = r /\ m.payload = x.payload
    BY <2>6, <2>11, <2>8 DEF Remembers, Knows, Grading, Graded, InPhase
  <2>12. CASE me'[p].index = i /\ Goto(p, "run raised") /\ rr = Nothing
    BY <2>6, <2>12, <2>8, PlainKnows DEF Plain, InPhase, Remembers
  <2>13. CASE me'[p].index = i /\ x.kind = "grade pending" /\ Goto(p, "grade") /\ rr = x.grade
    <3>1. Later
      BY <2>4 DEF Quiet
    <3>2. Oldest(h, rr) /\ Traced(rr, i, 0)
      BY <2>6, <2>13 DEF Oldest, Remembers
    <3>3. Traced(rr, i, 1)'
      BY <2>3, <2>6, <3>1, <3>2, RetriedGrade
    <3>4. Remembers(i, r, h)'
      BY <2>6, <3>1, LaterRemembers
    <3>5. Remembers(i, rr, h)'
      BY <3>2, <3>3, <3>4 DEF Remembers, Oldest
    <3>6. Knows("grade", m, h)'
      BY DEF Knows, Grading, Graded, InPhase
    <3>7. pc'[p] = "grade" /\ \A q \in Process \ {p} : pc'[q] = pc[q]
      BY <2>13 DEF Goto, CallInv, EpisodeInv, Tables
    <3>8. Remembers(me[p].index, me[p].recovered, held[p])'
      BY <2>3, <2>5, <2>13, <3>5 DEF Remembers
    <3>9. Knows(pc[p], me[p], held[p])'
      BY <2>3, <2>5, <3>6, <3>7 DEF Knows
    <3>10. RowsTraced' /\ FrozenBacked' /\ DOMAIN verdicts' = DOMAIN verdicts
      BY <2>3, <2>4, <3>1, LaterRowsTraced, LaterFrozen DEF Quiet
    <3> QED BY <2>3, <3>1, <3>7, <3>8, <3>9, <3>10, GradeFrame
  <2> QED BY <1>2, <2>1, <2>5, <2>7, <2>9, <2>10, <2>11, <2>12, <2>13, RetryRecords
<1> QED BY <1>1, <1>2 DEF RetryChild

LEMMA GradeCrashStep ==
    ASSUME CallInv, SampleInv, GradeInv, NEW p \in Process, Crash(p)
    PROVE  GradeInv'
<1>1. /\ Goto(p, "idle") /\ Quiet
      /\ me' = [me EXCEPT ![p] = Fresh] /\ held' = [held EXCEPT ![p] = <<>>]
  BY QuietSame DEF Crash, Return
<1>2. /\ me'[p] = Fresh /\ held'[p] = <<>>
      /\ \A q \in Process \ {p} : me'[q] = me[q] /\ held'[q] = held[q]
  BY <1>1 DEF CallInv, EpisodeInv, Tables, SampleInv, SampleTables
<1>3. PICK h, m, i, r : h = <<>> /\ m = Fresh /\ i = 0 /\ r = Nothing
  OBVIOUS
<1>4. m.index = 0 /\ m.recovered = Nothing
  BY <1>3 DEF Fresh
<1>5. Knows("idle", m, h)
  BY PlainKnows DEF Plain, InPhase
<1>6. i \in 0..Gradings - 1 /\ Remembers(i, r, h)
  BY <1>3, IndexZero, NothingRemembered
<1>7. h = held'[p] /\ m = me'[p] /\ i = me'[p].index /\ r = me'[p].recovered
  BY <1>2, <1>3, <1>4
<1> QED BY <1>1, <1>2, <1>5, <1>6, <1>7, GradeGoes

LEMMA GradeInit == Init => GradeInv
<1> SUFFICES ASSUME Init PROVE GradeInv
  OBVIOUS
<1>1. /\ rows = [r \in Rows |-> <<>>] /\ pc = [p \in Process |-> "idle"]
      /\ me = [p \in Process |-> Fresh] /\ held = [p \in Process |-> <<>>]
      /\ verdicts = [i \in 0..Gradings - 1 |-> Nothing]
  BY DEF Init, RunInit
<1>2. ASSUME NEW p \in Process
      PROVE  Remembers(me[p].index, me[p].recovered, held[p]) /\ Knows(pc[p], me[p], held[p])
  <2>1. me[p].index = 0 /\ me[p].recovered = Nothing /\ held[p] = <<>> /\ pc[p] = "idle"
    BY <1>1 DEF Fresh
  <2>2. PICK m, h : m = me[p] /\ h = held[p]
    OBVIOUS
  <2>3. Knows("idle", m, h)
    BY PlainKnows DEF Plain, InPhase
  <2> QED BY <2>1, <2>2, <2>3, NothingRemembered
<1>3. Phase \cup {Frozen} \subseteq Rows
  BY DEF Rows, RunRows
<1>4. \A name \in Phase \cup {Frozen} : rows[name] = <<>>
  BY <1>1, <1>3
<1>5. RowsTraced
  <2>1. ~Confirmed(<<>>)
    BY DEF Confirmed
  <2> QED BY <1>4, <2>1, GradePhase DEF RowsTraced
<1>6. FrozenBacked
  BY <1>4 DEF FrozenBacked
<1> QED BY <1>1, <1>2, <1>5, <1>6 DEF GradeInv, FrozenBacked

LEMMA GradeRunSteps ==
    ASSUME CallInv, OwnInv, BindInv, SampleInv, HeldInv, GradeInv, NEW p \in Process, RunStep(p)
    PROVE  GradeInv'
<1>1. CASE RecordRecovered(p)
  BY <1>1, Stage, GradeRecordGrade DEF RecordRecovered, At, Along, OfEpisode
<1>2. CASE Announce(p) \/ Record(p)
  BY <1>2, GradeAccountEpisode, GradeAnnounceGrade, GradeRecordGrade
<1>3. CASE \/ EnterRun(p) \/ ClaimRun(p) \/ AnnounceRun(p) \/ Turn(p) \/ DispatchEpisode(p)
           \/ AfterGeneration(p) \/ AfterAction(p) \/ CloseWorkspace(p) \/ Submit(p)
  BY <1>3, GradeEnterStep, GradePlainSteps, GradeEpisodeSteps, GradeDispatchEpisode, GradeSubmitStep
<1>4. CASE \/ DispatchGrade(p) \/ StartGrade(p) \/ AfterGrade(p) \/ Undecided(p) \/ Freeze(p) \/ Gather(p)
           \/ Publish(p) \/ FinishRun(p) \/ Raise(p)
  BY <1>4, GradeDispatchGrade, GradeStartStep, GradeAfterStep, GradeOutcomeSteps, GradePublishStep, GradeFinishStep,
     GradeRaiseStep
<1> QED BY <1>1, <1>2, <1>3, <1>4 DEF RunStep

LEMMA GradeNext ==
    CallInv /\ OwnInv /\ BindInv /\ SampleInv /\ HeldInv /\ GradeInv /\ [Next]_vars => GradeInv'
<1> SUFFICES ASSUME CallInv, OwnInv, BindInv, SampleInv, HeldInv, GradeInv, [Next]_vars PROVE GradeInv'
  OBVIOUS
<1>1. CASE UNCHANGED vars
  <2>1. UNCHANGED <<rows, pc, me, held, verdicts, calls, retries>>
    BY <1>1 DEF vars, ledgerVars, runVars
  <2>2. Later
    BY <2>1 DEF Later
  <2>3. ASSUME NEW p \in Process
        PROVE  (Remembers(me[p].index, me[p].recovered, held[p]) /\ Knows(pc[p], me[p], held[p]))'
    <3>1. PICK place, m, h, i, r : place = pc[p] /\ m = me[p] /\ h = held[p] /\ i = me[p].index /\ r = me[p].recovered
      OBVIOUS
    <3>2. i \in 0..Gradings - 1 /\ (place = "recorded" => m.phase \in Phase) /\ i = m.index
      BY <3>1 DEF CallInv, EpisodeInv, Placed
    <3>3. Remembers(i, r, h) /\ Knows(place, m, h)
      BY <3>1 DEF GradeInv
    <3>4. Remembers(i, r, h)' /\ Knows(place, m, h)'
      BY <2>2, <3>2, <3>3, LaterRemembers, LaterKnows
    <3> QED BY <2>1, <3>1, <3>4 DEF Remembers, Knows
  <2>4. RowsTraced' /\ FrozenBacked'
    BY <2>1, <2>2, LaterRowsTraced, LaterFrozen
  <2> QED BY <2>1, <2>3, <2>4 DEF GradeInv, FrozenBacked
<1>2. CASE Next
  <2>1. PICK p \in Process : \/ SessionStep(p) /\ UNCHANGED <<runVars, parentVars>>
                             \/ RunStep(p) /\ UNCHANGED <<sessionVars, parentVars>>
                             \/ ParentStep(p)
    BY <1>2 DEF Next
  <2>2. CASE ParentStep(p)
    BY <2>2, GradeParentSteps, GradeRetryStep, GradeCrashStep DEF ParentStep
  <2> QED BY <2>1, <2>2, GradeSessionSteps, GradeRunSteps
<1> QED BY <1>1, <1>2


\* A phase was recorded with one result.
LEMMA ResultOnce ==
    ASSUME NEW s, NEW t, NEW g, NEW o,
           {Receipt("intent", s), Receipt("result", g)} = {Receipt("intent", t), Receipt("result", o)}
    PROVE  g = o
<1>1. Receipt("result", g) \in {Receipt("intent", t), Receipt("result", o)}
  OBVIOUS
<1>2. Receipt("result", g) # Receipt("intent", t)
  BY DEF Receipt
<1>3. Receipt("result", g) = Receipt("result", o)
  BY <1>1, <1>2
<1> QED BY <1>3 DEF Receipt

\* A recorded phase's newest revision is its announcement and its result.
LEMMA NewestRecorded ==
    ASSUME NEW ph, NEW g, RecordedAs(ph, g)
    PROVE  Receipt("result", g) \in Newest(ph) /\ \A r \in Newest(ph) : r[1] = "result" => r = Receipt("result", g)
<1>1. PICK s : Len(rows[ph]) = 2 /\ rows[ph][2] = {Receipt("intent", s), Receipt("result", g)}
  BY DEF RecordedAs, Confirmed
<1>2. rows[ph] # <<>>
  BY <1>1
<1>3. Newest(ph) = {Receipt("intent", s), Receipt("result", g)}
  BY <1>1, <1>2 DEF Newest
<1>4. Receipt("intent", s)[1] # "result"
  BY DEF Receipt
<1> QED BY <1>3, <1>4

\* An announced phase's is its announcement.
LEMMA NewestAnnounced ==
    ASSUME NEW ph, NEW s, Announced(ph, s), Len(rows[ph]) = 1
    PROVE  \A r \in Newest(ph) : r[1] # "result"
  BY DEF Newest, Announced, Receipt

LEMMA LastGraded ==
    ASSUME CallInv, GradeInv, NEW i \in 0..Gradings - 1, NEW o, RecordedAs(<<"grade", i>>, o), o.verdict \in Rewarded
    PROVE  /\ \A k \in 0..i - 1 : Confirmed(rows[<<"grade", k>>])
           /\ \A k \in 0..Gradings - 1 : i < k => rows[<<"grade", k>>] = <<>>
<1>1. rows[<<"grade", i>>] # <<>>
  BY DEF RecordedAs, Confirmed
<1>2. \A k \in 0..i - 1 : Confirmed(rows[<<"grade", k>>])
  BY <1>1 DEF GradeInv, RowsTraced, Inconclusive, RecordedAs
<1>3. ASSUME NEW k \in 0..Gradings - 1, i < k, rows[<<"grade", k>>] # <<>> PROVE FALSE
  <2>1. Inconclusive(i)
    BY <1>3, Below DEF GradeInv, RowsTraced
  <2>2. PICK g : RecordedAs(<<"grade", i>>, g) /\ g.verdict = "infrastructure"
    BY <2>1 DEF Inconclusive
  <2>3. g = o
    BY <2>2, ResultOnce DEF RecordedAs
  <2> QED BY <2>2, <2>3 DEF Rewarded
<1> QED BY <1>2, <1>3

LEMMA GradeIndex ==
    ASSUME NEW ph \in Phase, ph[1] = "grade"
    PROVE  ph[2] \in 0..Gradings - 1
  BY DEF Phase

LEMMA OneOrTwo ==
    ASSUME NEW s, Short(s), s # <<>>
    PROVE  Len(s) = 1 \/ Len(s) = 2
<1>1. PICK S : s \in Seq(S)
  BY DEF Short, IsRow
<1>2. Len(s) \in Nat
  BY <1>1
<1>3. Len(s) # 0
  BY <1>1
<1>4. Len(s) <= 2
  BY DEF Short
<1>5. \A n \in Nat : n # 0 /\ n <= 2 => n = 1 \/ n = 2
  OBVIOUS
<1> QED BY <1>2, <1>3, <1>4, <1>5

LEMMA EmptyNotOne == Len(<<>>) # 1 /\ \A s : Len(s) = 2 => Len(s) # 1
  OBVIOUS

LEMMA GradeHolds == CallInv /\ BindInv /\ SampleInv /\ GradeInv => GradeAccounted
<1> SUFFICES ASSUME CallInv, BindInv, SampleInv, GradeInv PROVE GradeAccounted
  OBVIOUS
<1>1. GradedAgainOnInfrastructure
  <2> SUFFICES ASSUME NEW i \in 1..Gradings - 1, calls[<<"grade", i>>] > 0
               PROVE  \E r \in Newest(<<"grade", i - 1>>) : r[1] = "result" /\ r[2].verdict = "infrastructure"
    BY DEF GradedAgainOnInfrastructure
  <2>1. i \in 0..Gradings - 1 /\ i - 1 \in 0..i - 1
    BY CountsAssumption
  <2>2. rows[<<"grade", i>>] # <<>>
    BY <2>1, GradePhase DEF CallInv, EpisodeInv, Executed
  <2>3. PICK j : j = i - 1
    OBVIOUS
  <2>4. Inconclusive(j)
    BY <2>1, <2>2, <2>3 DEF GradeInv, RowsTraced
  <2>5. PICK g : RecordedAs(<<"grade", j>>, g) /\ g.verdict = "infrastructure"
    BY <2>4 DEF Inconclusive
  <2>6. Receipt("result", g) \in Newest(<<"grade", j>>)
    BY <2>5, NewestRecorded
  <2>7. Receipt("result", g)[1] = "result" /\ Receipt("result", g)[2] = g
    BY DEF Receipt
  <2> QED BY <2>3, <2>5, <2>6, <2>7
<1>2. GradeTraced
  <2> SUFFICES ASSUME NEW i \in 0..Gradings - 1, NEW r \in Newest(<<"grade", i>>), r[1] = "result"
               PROVE  \E k \in 0..i : r[2] = Grade(k, verdicts[k]) /\ (retries <= 1 => k = i)
    BY DEF GradeTraced
  <2>1. PICK ph \in Phase : ph = <<"grade", i>>
    BY GradePhase
  <2>2. rows[ph] # <<>>
    BY <2>1 DEF Newest
  <2>3. PICK s : Announced(ph, s)
    BY <2>1, <2>2 DEF GradeInv, RowsTraced
  <2>4. Len(rows[ph]) = 1 \/ Len(rows[ph]) = 2
    BY <2>2, OneOrTwo DEF SampleInv, SampleTables
  <2>5. CASE Len(rows[ph]) = 1
    BY <2>1, <2>3, <2>5, NewestAnnounced
  <2>6. CASE Len(rows[ph]) = 2
    <3>1. PICK g : RecordedAs(ph, g) /\ Traced(g, i, 1)
      BY <2>1, <2>6 DEF GradeInv, RowsTraced, Confirmed
    <3>2. r = Receipt("result", g)
      BY <2>1, <3>1, NewestRecorded
    <3>3. r[2] = g
      BY <3>2 DEF Receipt
    <3> QED BY <3>1, <3>3 DEF Traced, OwnGrade
  <2> QED BY <2>4, <2>5, <2>6
<1>3. RewardAccounted
  <2> SUFFICES ASSUME run.state = "completed", run.result.outcome.verdict \in Rewarded
               PROVE  /\ \A ph \in Phase : Len(rows[ph]) # 1
                      /\ \E i \in 0..Gradings - 1 :
                            /\ run.result.outcome = Grade(i, verdicts[i])
                            /\ \A k \in i + 1..Gradings - 1 : calls[<<"grade", k>>] = 0
    BY DEF RewardAccounted
  <2>1. PICK x, o : x = run.result /\ o = x.outcome
    OBVIOUS
  <2>2. rows[Frozen] = <<{Receipt("frozen", x)}>>
    BY <2>1 DEF BindInv
  <2>3. Backed(o)
    BY <2>1, <2>2 DEF GradeInv
  <2>4. PICK i \in 0..Gradings - 1 : OwnGrade(o, i) /\ RecordedAs(<<"grade", i>>, o)
    BY <2>1, <2>3 DEF Backed
  <2>5. /\ \A k \in 0..i - 1 : Confirmed(rows[<<"grade", k>>])
        /\ \A k \in 0..Gradings - 1 : i < k => rows[<<"grade", k>>] = <<>>
    BY <2>1, <2>4, LastGraded
  <2>6. Confirmed(rows[<<"grade", i>>])
    BY <2>4 DEF RecordedAs
  <2>7. Over
    <3>1. PICK ph \in Phase : ph = <<"grade", i>>
      BY GradePhase
    <3>2. rows[ph] # <<>>
      <4>1. \A q : q = <<>> => Len(q) # 2
        OBVIOUS
      <4> QED BY <2>6, <3>1, <4>1 DEF Confirmed
    <3>3. \A n : <<"grade", n>>[1] = "grade"
      OBVIOUS
    <3>4. ~OfEpisode(ph)
      BY <3>1, <3>3 DEF OfEpisode
    <3> QED BY <3>2, <3>4 DEF SampleInv
  <2>8. ASSUME NEW ph \in Phase PROVE Len(rows[ph]) # 1
    <3>1. CASE OfEpisode(ph)
      BY <2>7, <3>1 DEF Over
    <3>2. CASE ~OfEpisode(ph)
      <4>1. PICK k \in 0..Gradings - 1 : ph = <<"grade", k>>
        BY <3>2, GradeIndex, GradePair DEF OfEpisode
      <4>2. k \in 0..i - 1 \/ k = i \/ i < k
        BY CountsAssumption
      <4>3. Confirmed(rows[ph]) \/ rows[ph] = <<>>
        BY <2>5, <2>6, <4>1, <4>2
      <4> QED BY <4>3, EmptyNotOne DEF Confirmed
    <3> QED BY <3>1, <3>2
  <2>9. ASSUME NEW k \in i + 1..Gradings - 1 PROVE calls[<<"grade", k>>] = 0
    <3>1. k \in 0..Gradings - 1 /\ i < k
      BY CountsAssumption
    <3>2. PICK ph \in Phase : ph = <<"grade", k>> /\ rows[ph] = <<>>
      BY <2>5, <3>1, GradePhase
    <3> QED BY <3>2, NotExecuted
  <2> QED BY <2>1, <2>4, <2>8, <2>9 DEF OwnGrade
<1> QED BY <1>1, <1>2, <1>3 DEF GradeAccounted

\* A submission is graded again only after a recorded infrastructure verdict, what is recorded for a
\* grading is what the grader decided in it (or, from a second retry, in one before), and a completed
\* measured run has recorded every phase it announced and is rewarded by its last grading
\* (agents/native_service.py:124, agents/runner.py:355-420).
THEOREM GradesStayAccounted == Spec => []GradeAccounted
<1>1. BindInv => BindTables
  BY DEF BindInv
<1>2. HeldInv => PendingInv
  BY DEF HeldInv
<1> QED BY <1>1, <1>2, CallInit, CallNext, OwnInit, OwnNext, BindInit, BindNext, SampleInit, SampleNext,
           HeldInit, HeldNext, GradeInit, GradeNext, GradeHolds, PTL DEF Spec
=============================================================================
