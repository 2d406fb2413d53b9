----------------------- MODULE FeatureWorkflowProofs -----------------------
(***************************************************************************)
(* Theorems about FeatureWorkflow, for every number of controllers,        *)
(* authoring attempts, crashes and faults; and about what its preparation  *)
(* computes (TaskSource, Grounding), for all inputs.                       *)
(***************************************************************************)
EXTENDS FeatureWorkflow, TaskSource, SequenceTheorems, FiniteSetTheorems, TLAPS

\* A row is a sequence of revisions.
Rows ==
    /\ DOMAIN rows = 1..Completion
    /\ \A p \in 1..Completion : \E S : rows[p] \in Seq(S)

\* What a controller is doing; a phase is looked at or called, anything is published.
Fields == {"pc", "at", "out", "row", "retry"}

Controllers ==
    /\ DOMAIN me = Controller
    /\ \A c \in Controller :
          /\ DOMAIN me[c] = Fields
          /\ me[c].retry \in BOOLEAN
          /\ me[c].pc \notin {"idle", "enter"} => me[c].at \in 1..Completion
          /\ me[c].pc \in {"look", "call"} => me[c].at \in Phases
    /\ \A payload \in retained : payload.at \in 1..Completion

\* Whoever works on phases is inside the request's lock; retry-publication only publishes.
Exclusive ==
    \A c \in Controller :
        /\ me[c].pc \in {"idle", "enter", "look", "call", "finish"} => ~me[c].retry
        /\ me[c].pc # "idle" /\ ~me[c].retry => lock = c

\* External work was not started before it was announced, nor by whoever is about to.
Unstarted ==
    /\ runs \in [External -> Nat]
    /\ \A p \in External : runs[p] <= 1
    /\ \A p \in External : rows[p] = <<>> => runs[p] = 0
    /\ \A c \in Controller : me[c].pc = "call" =>
          /\ rows[me[c].at] # <<>>
          /\ me[c].at \in External => runs[me[c].at] = 0

OnceInv == Rows /\ Controllers /\ Exclusive /\ Unstarted

-----------------------------------------------------------------------------

\* The phases are among the rows.
LEMMA PhaseTypes ==
    /\ Construction \in Nat /\ Completion = Construction + 1
    /\ External \subseteq Phases /\ Children \subseteq Phases
    /\ Phases \subseteq 1..Completion /\ Intake \in Phases
  BY WorkflowAssumption
     DEF Construction, Completion, External, Phases, Children, Intake, Preparation, Reference

\* A phase is followed by a phase, or by the result.
LEMMA AfterType ==
    ASSUME NEW p \in Phases, NEW v
    PROVE  After(p, v) \in Phases \cup {Completion}
  BY WorkflowAssumption
     DEF After, Phases, Completion, Construction, Reference, Preparation, Source, Intake, Authoring, Author

\* No row, no run, everybody idle.
LEMMA OnceInitial == Init => OnceInv
<1> SUFFICES ASSUME Init PROVE OnceInv
  OBVIOUS
<1>1. Rows
  BY DEF Init, Rows
<1>2. Controllers
  BY DEF Init, Controllers, Idle, Fields
<1>3. Exclusive
  BY DEF Init, Exclusive, Idle
<1>4. Unstarted
  BY DEF Init, Unstarted, Idle
<1> QED BY <1>1, <1>2, <1>3, <1>4 DEF OnceInv

-----------------------------------------------------------------------------
(* How a controller moves.                                                 *)

\* c goes to a place the invariant allows.
Moves(c, new) ==
    /\ me' = [me EXCEPT ![c] = new]
    /\ DOMAIN new = Fields
    /\ new.retry \in BOOLEAN
    /\ new.pc \notin {"idle", "enter"} => new.at \in 1..Completion
    /\ new.pc \in {"look", "call"} => new.at \in Phases
    /\ new.pc \in {"idle", "enter", "look", "call", "finish"} => ~new.retry
    /\ new.pc = "call" =>
          /\ rows'[new.at] # <<>>
          /\ new.at \in External => runs'[new.at] = 0
    /\ new.pc # "idle" /\ ~new.retry => lock' = c
    /\ \A d \in Controller \ {c} : lock = d => lock' = d

\* Rows are never taken back, and what is retained has a row.
Grows ==
    /\ Rows'
    /\ \A p \in 1..Completion : rows[p] # <<>> => rows'[p] # <<>>
    /\ \A payload \in retained' : payload.at \in 1..Completion

LEMMA MoveKeeps ==
    ASSUME OnceInv, NEW c \in Controller, NEW new, Moves(c, new), Grows, UNCHANGED runs
    PROVE  OnceInv'
<1>1. me'[c] = new /\ \A d \in Controller \ {c} : me'[d] = me[d]
  BY DEF Moves, OnceInv, Controllers
<1>2. Controllers'
  BY <1>1 DEF Moves, Grows, OnceInv, Controllers
<1>3. Exclusive'
  BY <1>1 DEF Moves, OnceInv, Exclusive
<1>4. Unstarted'
  <2>1. \A p \in External : rows'[p] = <<>> => runs'[p] = 0
    BY PhaseTypes DEF Grows, OnceInv, Unstarted
  <2>2. ASSUME NEW d \in Controller, me'[d].pc = "call"
        PROVE  /\ rows'[me'[d].at] # <<>>
               /\ me'[d].at \in External => runs'[me'[d].at] = 0
    BY <2>2, <1>1 DEF Moves, OnceInv, Controllers, Grows, Unstarted
  <2> QED BY <2>1, <2>2 DEF OnceInv, Unstarted
<1> QED BY <1>2, <1>3, <1>4 DEF OnceInv, Grows

\* Nothing the invariant is about changes, but perhaps the job or a child.
LEMMA FrameKeeps ==
    ASSUME OnceInv, UNCHANGED <<lock, rows, runs, me, retained>>
    PROVE  OnceInv'
  BY DEF OnceInv, Rows, Controllers, Exclusive, Unstarted

\* Rows that stay as they are grow.
LEMMA SameGrows ==
    ASSUME OnceInv, UNCHANGED <<rows, retained>>
    PROVE  Grows
  BY DEF OnceInv, Rows, Controllers, Grows

\* A failed publication is about a row.
LEMMA PendingGrows ==
    ASSUME OnceInv, NEW c \in Controller, me[c].pc \notin {"idle", "enter"},
           Pending(c), UNCHANGED rows
    PROVE  Grows
  BY DEF OnceInv, Rows, Controllers, Grows, Pending

\* A call ends, outside the lock.
LEMMA EndKeeps ==
    ASSUME OnceInv, NEW c \in Controller, End(c), Grows, UNCHANGED runs
    PROVE  OnceInv'
  BY MoveKeeps DEF Moves, End, Idle, Fields

\* Going on with the next phase, inside the lock.
LEMMA GoOnKeeps ==
    ASSUME OnceInv, NEW c \in Controller, NEW p \in Phases, NEW o, GoOn(c, p, o),
           lock = c, UNCHANGED <<lock, rows, retained, runs>>
    PROVE  OnceInv'
<1>1. CASE After(p, o.value) = Completion
  <2> DEFINE new == [Idle EXCEPT !.pc = "finish", !.at = p, !.out = o]
  <2>1. Moves(c, new)
    BY <1>1, PhaseTypes DEF Moves, GoOn, Idle, Fields
  <2> QED BY <2>1, MoveKeeps, SameGrows
<1>2. CASE After(p, o.value) # Completion
  <2> DEFINE new == [Idle EXCEPT !.pc = "look", !.at = After(p, o.value)]
  <2>1. After(p, o.value) \in Phases
    BY <1>2, AfterType
  <2>2. Moves(c, new)
    BY <1>2, <2>1, PhaseTypes DEF Moves, GoOn, Idle, Fields
  <2> QED BY <2>2, MoveKeeps, SameGrows
<1> QED BY <1>1, <1>2

\* Whoever publishes goes on only inside the lock.
LEMMA PublishedKeeps ==
    ASSUME OnceInv, NEW c \in Controller, me[c].pc \in {"check", "written"},
           Published(c), UNCHANGED <<rows, retained, runs>>
    PROVE  OnceInv'
  BY EndKeeps, SameGrows, PhaseTypes, GoOnKeeps DEF Published, OnceInv, Controllers, Phases,
     Exclusive

\* Going on in the same phase.
LEMMA GotoKeeps ==
    ASSUME OnceInv, NEW c \in Controller, me[c].pc \notin {"idle", "enter"}, NEW pc, Goto(c, pc),
           pc \notin {"idle", "enter", "look", "call", "finish"},
           UNCHANGED <<lock, rows, retained, runs>>
    PROVE  OnceInv'
<1> DEFINE new == [me[c] EXCEPT !.pc = pc]
<1>1. new.pc = pc /\ new.at = me[c].at /\ new.retry = me[c].retry /\ DOMAIN new = Fields
  BY DEF OnceInv, Controllers, Fields
<1>2. Moves(c, new)
  BY <1>1 DEF Moves, Goto, OnceInv, Controllers, Exclusive
<1> QED BY <1>2, MoveKeeps, SameGrows

-----------------------------------------------------------------------------
(* The steps.                                                              *)

\* Taking the lock, and the job and its claim.
LEMMA EnterSteps ==
    ASSUME OnceInv, NEW c \in Controller,
           Construct(c) \/ Recover(c) \/ Enqueue(c) \/ Claim(c) \/ Enter(c) \/ AlreadyCompleted(c)
    PROVE  OnceInv'
<1> USE DEF At
<1>1. CASE Construct(c)
  <2> DEFINE new == [me[c] EXCEPT !.pc = "enter"]
  <2>1. Moves(c, new)
    BY <1>1, WorkflowAssumption DEF Moves, Construct, Goto, OnceInv, Controllers, Exclusive, Fields
  <2> QED BY <1>1, <2>1, MoveKeeps, SameGrows DEF Construct
<1>2. CASE Recover(c)
  <2> DEFINE new == [me[c] EXCEPT !.pc = "look", !.at = Intake]
  <2>1. Moves(c, new)
    BY <1>2, WorkflowAssumption, PhaseTypes DEF Moves, Recover, OnceInv, Controllers, Exclusive, Fields
  <2> QED BY <1>2, <2>1, MoveKeeps, SameGrows DEF Recover
<1>3. CASE Enqueue(c) \/ Claim(c)
  BY <1>3, FrameKeeps DEF Enqueue, Claim
<1>4. CASE Enter(c)
  <2> DEFINE new == [me[c] EXCEPT !.pc = "look", !.at = Intake]
  <2>1. Moves(c, new)
    BY <1>4, PhaseTypes DEF Moves, Enter, OnceInv, Controllers, Exclusive, Fields
  <2> QED BY <1>4, <2>1, MoveKeeps, SameGrows DEF Enter
<1>5. CASE AlreadyCompleted(c)
  BY <1>5, EndKeeps, SameGrows DEF AlreadyCompleted
<1> QED BY <1>1, <1>2, <1>3, <1>4, <1>5

\* Looking at a phase: only one that is not announced leads external work to a call.
LEMMA LookSteps ==
    ASSUME OnceInv, NEW c \in Controller,
           Replay(c) \/ Resume(c) \/ Unresolved(c) \/ Announce(c)
    PROVE  OnceInv'
<1> DEFINE p == me[c].at
<1> USE DEF At
<1>0. me[c].pc = "look" /\ p \in Phases /\ ~me[c].retry /\ lock = c
  BY DEF Replay, Resume, Unresolved, Announce, OnceInv, Controllers, Exclusive
<1>1. CASE Replay(c)
  BY <1>0, <1>1, GoOnKeeps DEF Replay
<1>2. CASE Resume(c)
  <2> DEFINE new == [me[c] EXCEPT !.pc = "call"]
  <2>1. p \notin External
    BY <1>2 DEF Resume, Children
  <2>2. Moves(c, new)
    BY <1>0, <1>2, <2>1, PhaseTypes DEF Moves, Resume, Goto, OnceInv, Controllers, Fields
  <2> QED BY <1>2, <2>2, MoveKeeps, SameGrows DEF Resume
<1>3. CASE Unresolved(c)
  BY <1>3, EndKeeps, SameGrows DEF Unresolved
<1>4. CASE Announce(c)
  <2> DEFINE new == [me[c] EXCEPT !.pc = "call"]
  <2>1. <<{}>> # <<>> /\ <<{}>> \in Seq({{}})
    OBVIOUS
  <2>2. Grows
    BY <1>0, <1>4, <2>1, PhaseTypes DEF Grows, Announce, OnceInv, Rows, Controllers
  <2>3. p \in External => runs[p] = 0
    BY <1>4 DEF Announce, OnceInv, Unstarted
  <2>4. Moves(c, new)
    BY <1>0, <1>4, <2>1, <2>3, PhaseTypes DEF Moves, Announce, Goto, OnceInv, Rows, Controllers, Fields
  <2> QED BY <1>4, <2>2, <2>4, MoveKeeps DEF Announce
<1> QED BY <1>1, <1>2, <1>3, <1>4

\* c is the only one to call, and had not called before.
LEMMA ExternalStep ==
    ASSUME OnceInv, NEW c \in Controller, RunExternal(c)
    PROVE  OnceInv'
<1> DEFINE p == me[c].at
<1> USE DEF At
<1>1. me[c].pc = "call" /\ p \in External /\ runs[p] = 0 /\ rows[p] # <<>> /\ lock = c
  BY DEF RunExternal, OnceInv, Controllers, Exclusive, Unstarted
<1>2. /\ runs' = [runs EXCEPT ![p] = 1] /\ runs' \in [External -> Nat]
      /\ \A q \in External : runs'[q] <= 1 /\ (q # p => runs'[q] = runs[q])
  BY <1>1 DEF RunExternal, OnceInv, Unstarted
<1>3. Grows /\ UNCHANGED rows
  BY SameGrows DEF RunExternal
<1>4. PICK new :
        /\ me' = [me EXCEPT ![c] = new]
        /\ DOMAIN new = Fields /\ new.retry = FALSE /\ new.pc \in {"idle", "check"}
        /\ new.pc # "idle" => new.at \in 1..Completion /\ lock' = c
  <2>1. CASE End(c)
    <3> DEFINE new == Idle
    <3>1. me' = [me EXCEPT ![c] = new] /\ DOMAIN new = Fields /\ new.retry = FALSE /\ new.pc = "idle"
      BY <2>1 DEF End, Idle, Fields
    <3> QED BY <3>1
  <2>2. CASE \E v \in Values(p) : Decide(c, Out(v, runs'[p])) /\ UNCHANGED lock
    <3>1. PICK v \in Values(p) : Decide(c, Out(v, runs'[p])) /\ UNCHANGED lock
      BY <2>2
    <3> DEFINE new == [me[c] EXCEPT !.pc = "check", !.out = Out(v, runs'[p])]
    <3>2. /\ me' = [me EXCEPT ![c] = new] /\ DOMAIN new = Fields /\ new.pc = "check"
          /\ new.at = p /\ new.retry = me[c].retry
      BY <3>1 DEF Decide, OnceInv, Controllers, Fields
    <3>3. ~me[c].retry /\ me[c].retry \in BOOLEAN /\ p \in 1..Completion
      BY <1>1, PhaseTypes DEF OnceInv, Controllers, Exclusive
    <3>4. new.retry = FALSE /\ new.at \in 1..Completion /\ lock' = c
      BY <3>1, <3>2, <3>3, <1>1
    <3> HIDE DEF new
    <3> QED BY <3>2, <3>4
  <2> QED BY <2>1, <2>2 DEF RunExternal
<1>5. me'[c] = new /\ \A d \in Controller \ {c} : me'[d] = me[d]
  BY <1>4 DEF OnceInv, Controllers
<1>6. Controllers'
  BY <1>3, <1>4, <1>5 DEF Grows, OnceInv, Controllers
<1>7. Exclusive'
  BY <1>1, <1>4, <1>5 DEF OnceInv, Exclusive
<1>8. Unstarted'
  BY <1>1, <1>4, <1>5, <1>2, <1>3 DEF OnceInv, Exclusive, Unstarted
<1> QED BY <1>3, <1>6, <1>7, <1>8 DEF OnceInv, Grows

\* A child's call is not external work.
LEMMA ChildSteps ==
    ASSUME OnceInv, NEW c \in Controller, ChildAnswers(c) \/ ChildPending(c) \/ BudgetRefuses(c)
    PROVE  OnceInv'
<1> USE DEF At
<1>1. ASSUME NEW o, Decide(c, o), me[c].pc = "call", UNCHANGED <<lock, rows, retained, runs>>
      PROVE  OnceInv'
  <2> DEFINE new == [me[c] EXCEPT !.pc = "check", !.out = o]
  <2>1. Moves(c, new)
    BY <1>1 DEF Moves, Decide, OnceInv, Controllers, Exclusive, Fields
  <2> QED BY <1>1, <2>1, MoveKeeps, SameGrows
<1>2. CASE ChildAnswers(c)
  BY <1>1, <1>2 DEF ChildAnswers
<1>3. CASE ChildPending(c)
  BY <1>3, EndKeeps, SameGrows DEF ChildPending
<1>4. CASE BudgetRefuses(c)
  BY <1>1, <1>4 DEF BudgetRefuses
<1> QED BY <1>2, <1>3, <1>4

\* A row with one more revision is a row, and not empty.
LEMMA AppendRow ==
    ASSUME NEW S, NEW s \in Seq(S), NEW x
    PROVE  \E T : Append(s, x) \in Seq(T) /\ Append(s, x) # <<>>
<1> DEFINE T == S \cup {x}
<1>1. S \subseteq T /\ x \in T
  OBVIOUS
<1> HIDE DEF T
<1>2. s \in Seq(T)
  BY <1>1, SeqMonotonic
<1> QED BY <1>1, <1>2, AppendProperties

\* A revision is recorded, was recorded before, or is refused and retained.
LEMMA ExtendKeeps ==
    ASSUME NEW c \in Controller, NEW r, NEW label, OnceInv,
           me[c].pc \in {"costs", "step"}, label \in {"read step", "gather", "written"},
           Extend(c, r, label)
    PROVE  OnceInv'
<1> DEFINE p == me[c].at
           new == [me[c] EXCEPT !.pc = label, !.row = <<>>]
<1>0. p \in 1..Completion
  BY DEF OnceInv, Controllers
<1>1. CASE Pending(c) /\ UNCHANGED rows
  BY <1>1, PendingGrows, EndKeeps DEF Extend, Pending
<1>2. ASSUME me' = [me EXCEPT ![c] = new], UNCHANGED <<lock, retained>>, Grows
      PROVE  OnceInv'
  BY <1>2, MoveKeeps DEF Moves, OnceInv, Controllers, Exclusive, Fields, Extend
<1>3. CASE rows' = [rows EXCEPT ![p] = Append(@, r)] /\ UNCHANGED retained
  <2>1. PICK S : rows[p] \in Seq(S)
    BY <1>0 DEF OnceInv, Rows
  <2>2. PICK T : Append(rows[p], r) \in Seq(T) /\ Append(rows[p], r) # <<>>
    BY <2>1, AppendRow
  <2>3. Grows
    BY <1>0, <1>3, <2>2 DEF Grows, OnceInv, Rows, Controllers
  <2> QED BY <1>1, <1>2, <1>3, <2>3 DEF Extend
<1>4. CASE UNCHANGED <<rows, retained>>
  BY <1>1, <1>2, <1>4, SameGrows DEF Extend
<1> QED BY <1>1, <1>3, <1>4 DEF Extend

\* Publishing an outcome.
LEMMA PublishSteps ==
    ASSUME OnceInv, NEW c \in Controller,
           CheckStep(c) \/ ReadRow(c) \/ ExtendCosts(c) \/ ExtendStep(c) \/ Written(c)
    PROVE  OnceInv'
<1> USE DEF At
<1>1. CASE CheckStep(c)
  BY <1>1, EndKeeps, SameGrows, GotoKeeps, PublishedKeeps DEF CheckStep
<1>2. CASE ReadRow(c)
  <2>1. ASSUME NEW pc \in {"costs", "step"}, me[c].pc \in {"read costs", "read step"},
               me' = [me EXCEPT ![c].pc = pc, ![c].row = rows[me[c].at]]
        PROVE  OnceInv'
    <3> DEFINE new == [me[c] EXCEPT !.pc = pc, !.row = rows[me[c].at]]
    <3>1. Moves(c, new)
      BY <1>2, <2>1 DEF Moves, ReadRow, OnceInv, Controllers, Exclusive, Fields
    <3> QED BY <1>2, <3>1, MoveKeeps, SameGrows DEF ReadRow
  <2> QED BY <1>2, <2>1 DEF ReadRow
<1>3. CASE ExtendCosts(c)
  <2>1. PICK r : me[c].pc = "costs" /\ Extend(c, r, "read step")
    BY <1>3 DEF ExtendCosts
  <2> QED BY <2>1, ExtendKeeps
<1>4. CASE ExtendStep(c)
  <2>1. PICK r : \E label \in {"gather", "written"} : Extend(c, r, label)
    BY <1>4 DEF ExtendStep
  <2>2. me[c].pc = "step"
    BY <1>4 DEF ExtendStep
  <2> QED BY <2>1, <2>2, ExtendKeeps
<1>5. CASE Written(c)
  BY <1>5, PublishedKeeps DEF Written
<1> QED BY <1>1, <1>2, <1>3, <1>4, <1>5

\* Freezing and completing, and publishing what was retained.
LEMMA OutcomeSteps ==
    ASSUME OnceInv, NEW c \in Controller,
           Finish(c) \/ Audit(c) \/ Freeze(c) \/ Gather(c) \/ Complete(c) \/ RetryPublication(c)
    PROVE  OnceInv'
<1> USE DEF At
<1>1. CASE Finish(c)
  <2>1. CASE End(c)
    BY <1>1, <2>1, EndKeeps, SameGrows DEF Finish
  <2>2. ASSUME NEW outcome, UNCHANGED lock,
               me' = [me EXCEPT ![c].pc = "audit", ![c].at = Completion, ![c].out = outcome]
        PROVE  OnceInv'
    <3> DEFINE new == [me[c] EXCEPT !.pc = "audit", !.at = Completion, !.out = outcome]
    <3>1. me[c].pc = "finish" /\ ~me[c].retry /\ lock = c /\ Completion \in 1..Completion
      BY <1>1, PhaseTypes DEF Finish, OnceInv, Exclusive
    <3>2. /\ new.pc = "audit" /\ new.at = Completion /\ new.retry = me[c].retry
          /\ DOMAIN new = Fields /\ me[c].retry \in BOOLEAN
      BY DEF OnceInv, Controllers, Fields
    <3>3. me' = [me EXCEPT ![c] = new]
      BY <2>2
    <3>4. Moves(c, new)
      BY <2>2, <3>1, <3>2, <3>3 DEF Moves
    <3> QED BY <1>1, <3>4, MoveKeeps, SameGrows DEF Finish
  <2> QED BY <1>1, <2>1, <2>2 DEF Finish
<1>2. CASE Audit(c)
  BY <1>2, EndKeeps, GotoKeeps, SameGrows DEF Audit
<1>3. CASE Freeze(c)
  <2>1. CASE Pending(c)
    BY <1>3, <2>1, PendingGrows, EndKeeps DEF Freeze, Pending
  <2>2. ASSUME NEW pc \in {"read step", "gather"}, Goto(c, pc), UNCHANGED <<lock, retained>>
        PROVE  OnceInv'
    BY <1>3, <2>2, GotoKeeps DEF Freeze
  <2> QED BY <1>3, <2>1, <2>2 DEF Freeze
<1>4. CASE Gather(c)
  <2> DEFINE new == [me[c] EXCEPT !.pc = "complete", !.row = Revisions]
  <2>1. Moves(c, new)
    BY <1>4 DEF Moves, Gather, OnceInv, Controllers, Exclusive, Fields
  <2> QED BY <1>4, <2>1, MoveKeeps, SameGrows DEF Gather
<1>5. CASE Complete(c)
  <2>1. CASE Pending(c)
    BY <1>5, <2>1, PendingGrows, EndKeeps DEF Complete, Pending
  <2>2. CASE /\ me' = [me EXCEPT ![c].pc = "written", ![c].row = <<>>]
             /\ UNCHANGED <<lock, retained>>
    <3> DEFINE new == [me[c] EXCEPT !.pc = "written", !.row = <<>>]
    <3>1. Moves(c, new)
      BY <1>5, <2>2 DEF Moves, Complete, OnceInv, Controllers, Exclusive, Fields
    <3> QED BY <1>5, <2>2, <3>1, MoveKeeps, SameGrows DEF Complete
  <2> QED BY <1>5, <2>1, <2>2 DEF Complete
<1>6. CASE RetryPublication(c)
  <2>1. PICK payload \in retained :
           me' = [me EXCEPT ![c] = [pc |-> IF payload.at = Completion THEN "audit" ELSE "check",
                                    at |-> payload.at, out |-> payload.out,
                                    row |-> <<>>, retry |-> TRUE]]
    BY <1>6 DEF RetryPublication
  <2> DEFINE new == [pc |-> IF payload.at = Completion THEN "audit" ELSE "check",
                     at |-> payload.at, out |-> payload.out, row |-> <<>>, retry |-> TRUE]
  <2>2. Moves(c, new)
    BY <1>6, <2>1 DEF Moves, RetryPublication, OnceInv, Controllers, Fields
  <2> QED BY <1>6, <2>2, MoveKeeps, SameGrows DEF RetryPublication
<1> QED BY <1>1, <1>2, <1>3, <1>4, <1>5, <1>6

\* A call fails or its process dies: it ends.
LEMMA FailSteps ==
    ASSUME OnceInv, NEW c \in Controller, Fault(c) \/ Crash(c)
    PROVE  OnceInv'
<1> USE DEF At
<1>1. CASE Fault(c) /\ me[c].pc \in Publishing
  BY <1>1, PendingGrows, EndKeeps DEF Fault, Publishing, Pending
<1>2. CASE Fault(c) /\ me[c].pc \notin Publishing
  BY <1>2, EndKeeps, SameGrows DEF Fault
<1>3. CASE Crash(c)
  BY <1>3, EndKeeps, SameGrows DEF Crash
<1> QED BY <1>1, <1>2, <1>3

\* The invariant is inductive.
LEMMA OnceStep == OnceInv /\ [Next]_vars => OnceInv'
<1> SUFFICES ASSUME OnceInv, [Next]_vars PROVE OnceInv'
  OBVIOUS
<1>1. CASE UNCHANGED vars
  BY <1>1, FrameKeeps DEF vars
<1>2. ASSUME NEW p \in Children, Settle(p) PROVE OnceInv'
  BY <1>2, FrameKeeps DEF Settle
<1> QED
  BY <1>1, <1>2, EnterSteps, LookSteps, ExternalStep, ChildSteps, PublishSteps, OutcomeSteps, FailSteps
     DEF Next

\* External work is started at most once for a request, whatever crashes, is retried or
\* runs beside it (workflow.py:137-138): it is announced before it is started, only inside
\* the request's lock, and only in a phase that was not announced yet.
THEOREM StartedOnce == Spec => []ExternalOnce
<1>1. OnceInv => ExternalOnce
  BY DEF OnceInv, Unstarted, ExternalOnce
<1> QED BY <1>1, OnceInitial, OnceStep, PTL DEF Spec

-----------------------------------------------------------------------------
(* What is selected: the outcomes that are known of a phase.               *)

IsRow(s) == \E S : s \in Seq(S)

\* The places of a controller that has an outcome to publish.
Carrying == {"check", "read costs", "costs", "read step", "step", "written",
             "audit", "freeze", "gather", "complete"}

\* The outcomes anybody knows of row p: selected, printed, or about to be published.
Known(p) ==
    Selected(p) \cup {payload.out : payload \in {m \in retained : m.at = p}}
      \cup {me[c].out : c \in {d \in Controller : me[d].pc \in Carrying /\ me[d].at = p}}

\* A selected outcome leads to phase p.
Leads(p) == \E q \in Announced : \E o \in Selected(q) : After(q, o.value) = p

\* What a controller has read or done stays true: the rows and what is printed only grow.
Fits(m) ==
    /\ m.pc = "look" => m.at = Intake \/ Leads(m.at)
    /\ m.pc = "finish" => m.at \in Announced /\ m.out \in Selected(m.at)
                            /\ After(m.at, m.out.value) = Completion
    /\ m.pc \in {"check", "read costs", "costs"} => m.at \in Announced
    /\ m.pc \in {"read step", "step", "written"} => m.at \in Announced \cup {Completion}
    /\ m.pc \in {"audit", "freeze", "gather", "complete"} => m.at = Completion
    /\ m.pc \in {"costs", "step"} => IsRow(m.row) /\ Receipts(m.row) \subseteq Selected(m.at)
    /\ m.pc \in {"written", "gather", "complete"} => m.out \in Selected(m.at)
    /\ m.retry => [at |-> m.at, out |-> m.out] \in retained

\* The tables' shapes, and the rows: no revision lost a receipt.
Recorded ==
    /\ DOMAIN child = Children
    /\ DOMAIN job = {"state", "result"}
    /\ \A p \in 1..Completion : \A i \in 1..Len(rows[p]) : rows[p][i] \subseteq Selected(p)
    /\ \A c \in Controller : Fits(me[c])
    /\ \A m \in retained : m = [at |-> m.at, out |-> m.out] /\ m.at \in Announced \cup {Completion}

\* The announced phases begin with intake, and a selected outcome leads to each other.
Ordered ==
    /\ Announced # {} => Intake \in Announced
    /\ PhasesInOrder

\* External work has the outcome of its one run.
ExternalAgreed ==
    \A p \in External :
        /\ runs[p] = 0 => Known(p) = {}
        /\ \A o \in Known(p) : \E v \in Values(p) : o = Out(v, 1)
        /\ \A o1, o2 \in Known(p) : o1 = o2

\* A child's phase has the result of its job, or a refusal that came before there was one;
\* nobody calls again for a refusal.
ChildAgreed(p) ==
    \/ Known(p) = {}
    \/ child[p] \in Values(p) /\ Known(p) = {Out(child[p], 0)}
    \/ /\ p \in Authoring /\ child[p] = "none"
       /\ \E r \in Refusals : Known(p) = {Out(r, 0)}
       /\ \A c \in Controller : ~(me[c].pc = "call" /\ me[c].at = p)

\* Only the last announced phase may be without an outcome.
OnePath ==
    \A p, q \in Announced : p < q => \E o \in Selected(p) : After(p, o.value) \in Announced

\* The result of the phases when the last of them ends the job.
IsResult(x) ==
    \E p \in Announced : \E o \in Selected(p) :
        /\ After(p, o.value) = Completion
        /\ x = [selected |-> o, steps |-> SelectedSteps]

OneResult ==
    /\ \A x \in Known(Completion) : IsResult(x)
    /\ job.state = "completed" => job.result.outcome \in Selected(Completion)

\* Until a refusal is printed.
Unrefused == (\A p \in Children : ChildAgreed(p)) /\ OnePath /\ OneResult

StandInv == Recorded /\ Ordered /\ ExternalAgreed /\ (RefusalRetained \/ Unrefused)

-----------------------------------------------------------------------------
(* What a step does to what is known.                                      *)

Frame == Announced' = Announced /\ \A p \in 1..Completion : Selected(p)' = Selected(p)

NoNews == \A p \in 1..Completion : Known(p)' \subseteq Known(p)

NoCall == \A d \in Controller : me'[d].pc = "call" => me'[d] = me[d]

SameJob == job' = job \/ (job.state # "completed" /\ job'.state # "completed")

Monotone ==
    /\ Announced \subseteq Announced'
    /\ \A p \in 1..Completion : Selected(p) \subseteq Selected(p)'
    /\ retained \subseteq retained'

\* Nothing happens to the phases.
Rests == Frame /\ NoNews /\ NoCall /\ SameJob /\ UNCHANGED <<child, runs>>

\* A known outcome o is selected.
Selects(p, o) ==
    /\ p \in Announced \cup {Completion} /\ o \in Known(p)
    /\ Announced' = Announced
    /\ \A q \in 1..Completion : Selected(q)' = IF q = p THEN Selected(q) \cup {o} ELSE Selected(q)
    /\ NoNews /\ NoCall /\ UNCHANGED <<job, child, runs>>

\* c is about to work on phase p, which is announced.
Calls(c, p) ==
    /\ me[c].pc = "look" /\ me[c].at = p /\ lock = c /\ p \in Phases
    /\ Selected(p) = {}
    /\ Announced' = Announced \cup {p}
    /\ \A q \in 1..Completion : Selected(q)' = Selected(q)
    /\ NoNews /\ me'[c].at = p /\ (\A d \in Controller \ {c} : me'[d] = me[d])
    /\ UNCHANGED <<job, child, runs>>

\* c has worked on phase p; o is the outcome if there is one.
Decides(c, p, o) ==
    /\ me[c].pc = "call" /\ me[c].at = p /\ p \in Phases
    /\ Frame /\ me'[c].pc # "call" /\ (\A d \in Controller \ {c} : me'[d] = me[d])
    /\ \A q \in 1..Completion : Known(q)' \subseteq Known(q) \cup (IF q = p THEN {o} ELSE {})
    /\ UNCHANGED job
    /\ \/ /\ p \in External /\ UNCHANGED child
          /\ runs' = [runs EXCEPT ![p] = @ + 1]
          /\ \E v \in Values(p) : o = Out(v, runs'[p])
       \/ /\ p \in Children /\ UNCHANGED runs
          /\ \E v \in (IF child[p] \in Values(p) THEN {child[p]} ELSE Values(p)) :
                child' = [child EXCEPT ![p] = v] /\ o = Out(v, 0)
       \/ /\ p \in Authoring /\ child[p] = "none" /\ UNCHANGED <<child, runs>>
          /\ \E r \in Refusals : o = Out(r, 0)

\* The job of child phase p moves on while nobody knows its result.
Waits(p) ==
    /\ p \in Children
    /\ \/ child[p] = "pending"
       \/ child[p] = "none" /\ \E c \in Controller : me[c].pc = "call" /\ me[c].at = p
    /\ \E v : child' = [child EXCEPT ![p] = v]
    /\ Frame /\ NoNews /\ NoCall /\ UNCHANGED <<job, runs>>

\* The last phase ended with o: the job's result is made.
Finishes(p, o) ==
    /\ p \in Announced /\ o \in Selected(p) /\ After(p, o.value) = Completion
    /\ Frame /\ NoCall /\ UNCHANGED <<job, child, runs>>
    /\ \A q \in 1..Completion :
          Known(q)' \subseteq Known(q) \cup
             (IF q = Completion THEN {[selected |-> o, steps |-> SelectedSteps]} ELSE {})

\* The frozen result completes the job.
Completes ==
    /\ job.state # "completed" /\ job'.state = "completed"
    /\ job'.result.outcome \in Selected(Completion)
    /\ Frame /\ NoNews /\ NoCall /\ UNCHANGED <<child, runs>>

\* Every step is one of these.
Effect ==
    \/ Rests
    \/ \E p \in 1..Completion : \E o : Selects(p, o)
    \/ \E c \in Controller, p \in Phases : Calls(c, p)
    \/ \E c \in Controller, p \in Phases : \E o : Decides(c, p, o)
    \/ \E p \in Children : Waits(p)
    \/ \E p \in Phases : \E o : Finishes(p, o)
    \/ Completes

StepFacts == Recorded' /\ Monotone /\ Effect

-----------------------------------------------------------------------------
(* Why a step of controller c is one.                                      *)

Moved(c, new) == me'[c] = new /\ \A d \in Controller \ {c} : me'[d] = me[d]

\* What c has to publish is printed, or nothing is.
PrintedBy(c) ==
    \/ retained' = retained
    \/ me[c].pc \in Carrying /\ retained' = retained \cup {[at |-> me[c].at, out |-> me[c].out]}

Placed(m) == m.pc \notin {"idle", "enter"} => m.at \in 1..Completion

LEMMA AnnouncedRows == Announced \subseteq Phases /\ Announced \subseteq 1..Completion
  BY PhaseTypes DEF Announced

LEMMA FitsStays ==
    ASSUME Monotone, NEW m, Fits(m), Placed(m)
    PROVE  Fits(m)'
  BY AnnouncedRows DEF Monotone, Leads, Placed, Fits

LEMMA KnownStep ==
    ASSUME NEW c \in Controller, NEW new, Moved(c, new), PrintedBy(c),
           NEW p \in 1..Completion, Selected(p)' \subseteq Known(p)
    PROVE  Known(p)' \subseteq Known(p) \cup (IF new.pc \in Carrying /\ new.at = p THEN {new.out} ELSE {})
<1> SUFFICES ASSUME NEW o \in Known(p)'
             PROVE  o \in Known(p) \/ (new.pc \in Carrying /\ new.at = p /\ o = new.out)
  OBVIOUS
<1>1. CASE o \in Selected(p)'
  BY <1>1
<1>2. ASSUME NEW m \in retained', m.at = p, o = m.out PROVE o \in Known(p)
  BY <1>2 DEF Known, PrintedBy
<1>3. ASSUME NEW d \in Controller, me'[d].pc \in Carrying, me'[d].at = p, o = me'[d].out
      PROVE  o \in Known(p) \/ (new.pc \in Carrying /\ new.at = p /\ o = new.out)
  BY <1>3 DEF Moved, Known
<1>4. QED
  BY <1>1, <1>2, <1>3 DEF Known

\* The records of the others fit on, and what is printed is about a row.
LEMMA RecordedStep ==
    ASSUME OnceInv, Recorded, Monotone, NEW c \in Controller, NEW new, Moved(c, new), PrintedBy(c),
           Fits(new)', DOMAIN child' = Children, DOMAIN job' = {"state", "result"},
           \A p \in 1..Completion : \A i \in 1..Len(rows'[p]) : rows'[p][i] \subseteq Selected(p)'
    PROVE  Recorded'
<1>1. \A d \in Controller : Fits(me[d])'
  <2> SUFFICES ASSUME NEW d \in Controller PROVE Fits(me[d])'
    OBVIOUS
  <2>1. CASE d = c
    BY <2>1 DEF Moved, Fits
  <2>2. CASE d # c
    <3>1. PICK m : m = me[d] /\ m = me'[d]
      BY <2>2 DEF Moved
    <3>2. Fits(m) /\ Placed(m)
      BY <3>1 DEF Recorded, OnceInv, Controllers, Placed
    <3>3. Fits(m)'
      BY <3>2, FitsStays
    <3>4. QED
      BY <3>1, <3>3 DEF Fits
  <2>3. QED
    BY <2>1, <2>2
<1>2. \A m \in retained' : m = [at |-> m.at, out |-> m.out] /\ m.at \in Announced' \cup {Completion}
  <2> SUFFICES ASSUME NEW m \in retained'
               PROVE  m = [at |-> m.at, out |-> m.out] /\ m.at \in Announced' \cup {Completion}
    OBVIOUS
  <2>1. CASE m \in retained
    BY <2>1 DEF Recorded, Monotone
  <2>2. CASE m \notin retained
    <3>1. me[c].pc \in Carrying /\ m = [at |-> me[c].at, out |-> me[c].out]
      BY <2>2 DEF PrintedBy
    <3>2. me[c].at \in Announced \cup {Completion}
      BY <3>1 DEF Recorded, Fits, Carrying
    <3>3. QED
      BY <3>1, <3>2 DEF Monotone
  <2>3. QED
    BY <2>1, <2>2
<1>3. QED
  BY <1>1, <1>2 DEF Recorded

\* A step that leaves the rows alone and makes up nothing.
LEMMA QuietStep ==
    ASSUME OnceInv, Recorded, NEW c \in Controller, NEW new, Moved(c, new), PrintedBy(c), Fits(new), Placed(new),
           new.pc # "call", new.pc \in Carrying => new.out \in Known(new.at),
           UNCHANGED rows
    PROVE  /\ Frame /\ NoNews /\ NoCall /\ Monotone
           /\ DOMAIN job' = {"state", "result"} /\ DOMAIN child' = Children => Recorded'
<1>1. Frame
  BY DEF Frame, Announced, Selected
<1>2. Monotone
  BY <1>1 DEF Frame, Monotone, PrintedBy
<1>3. NoCall
  BY DEF Moved, NoCall
<1>4. NoNews
  <2> SUFFICES ASSUME NEW p \in 1..Completion PROVE Known(p)' \subseteq Known(p)
    BY DEF NoNews
  <2>1. Selected(p)' \subseteq Known(p)
    BY <1>1 DEF Frame, Known
  <2>2. QED
    BY <2>1, KnownStep
<1>5. \A p \in 1..Completion : \A i \in 1..Len(rows'[p]) : rows'[p][i] \subseteq Selected(p)'
  BY DEF Recorded, Selected
<1>6. Fits(new)'
  BY <1>2, FitsStays
<1>7. QED
  BY <1>1, <1>2, <1>3, <1>4, <1>5, <1>6, RecordedStep

\* A call that ends makes up nothing.
LEMMA EndRests ==
    ASSUME OnceInv, Recorded, NEW c \in Controller, me' = [me EXCEPT ![c] = Idle], PrintedBy(c),
           UNCHANGED <<rows, child, runs>>, SameJob, DOMAIN job' = {"state", "result"}
    PROVE  StepFacts
<1>1. Moved(c, Idle)
  BY DEF Moved, OnceInv, Controllers
<1>2. Fits(Idle) /\ Placed(Idle) /\ Idle.pc \notin Carrying /\ Idle.pc # "call"
  BY DEF Fits, Placed, Idle, Carrying
<1>3. DOMAIN child' = Children
  BY DEF Recorded
<1>4. QED
  BY <1>1, <1>2, <1>3, QuietStep DEF StepFacts, Effect, Rests

\* Nor does one that goes on in a place that carries nothing, or what is known.
LEMMA MoveRests ==
    ASSUME OnceInv, Recorded, NEW c \in Controller, NEW new, me' = [me EXCEPT ![c] = new],
           Fits(new), Placed(new), new.pc # "call", new.pc \in Carrying => new.out \in Known(new.at),
           UNCHANGED <<rows, retained, job, child, runs>>
    PROVE  StepFacts
  BY QuietStep DEF Moved, OnceInv, Controllers, PrintedBy, Recorded, StepFacts, Effect, Rests,
     SameJob

\* The record of a controller, and what it carries.
LEMMA Carried ==
    ASSUME OnceInv, Recorded, NEW c \in Controller
    PROVE  /\ DOMAIN me[c] = Fields /\ Fits(me[c]) /\ Placed(me[c])
           /\ me[c].pc \in Carrying => me[c].out \in Known(me[c].at)
  BY DEF OnceInv, Controllers, Recorded, Placed, Known

\* The phase after a selected outcome, or the end.
LEMMA GoOnRests ==
    ASSUME OnceInv, Recorded, NEW c \in Controller, NEW p \in Announced, NEW o \in Selected(p),
           GoOn(c, p, o), UNCHANGED <<rows, retained, job, child, runs>>
    PROVE  StepFacts
<1>0. p \in Phases /\ p \in 1..Completion
  BY AnnouncedRows
<1>1. CASE After(p, o.value) = Completion
  <2> DEFINE new == [Idle EXCEPT !.pc = "finish", !.at = p, !.out = o]
  <2>1. new.pc = "finish" /\ new.at = p /\ new.out = o /\ ~new.retry /\ me' = [me EXCEPT ![c] = new]
    BY <1>1 DEF GoOn, Idle
  <2> HIDE DEF new
  <2>2. Fits(new) /\ Placed(new) /\ new.pc \notin Carrying
    BY <1>0, <1>1, <2>1 DEF Fits, Placed, Carrying
  <2>3. QED
    BY <2>1, <2>2, MoveRests
<1>2. CASE After(p, o.value) # Completion
  <2> DEFINE new == [Idle EXCEPT !.pc = "look", !.at = After(p, o.value)]
  <2>1. new.pc = "look" /\ new.at = After(p, o.value) /\ ~new.retry /\ me' = [me EXCEPT ![c] = new]
    BY <1>2 DEF GoOn, Idle
  <2> HIDE DEF new
  <2>2. new.at \in Phases /\ new.at \in 1..Completion
    BY <1>0, <1>2, <2>1, AfterType, PhaseTypes
  <2>3. Fits(new) /\ Placed(new) /\ new.pc \notin Carrying
    BY <2>1, <2>2 DEF Fits, Placed, Leads, Carrying
  <2>4. QED
    BY <2>1, <2>3, MoveRests
<1>3. QED
  BY <1>1, <1>2

\* Taking the lock, and the job and its claim.
LEMMA EnterFacts ==
    ASSUME OnceInv, Recorded, NEW c \in Controller,
           Construct(c) \/ Recover(c) \/ Enqueue(c) \/ Claim(c) \/ Enter(c) \/ AlreadyCompleted(c)
    PROVE  StepFacts
<1> USE DEF At
<1>0. DOMAIN me[c] = Fields /\ Fits(me[c]) /\ Placed(me[c]) /\ Intake \in 1..Completion
  BY Carried, PhaseTypes
<1>1. CASE Construct(c)
  <2> DEFINE new == [me[c] EXCEPT !.pc = "enter"]
  <2>1. new.pc = "enter" /\ ~new.retry /\ me' = [me EXCEPT ![c] = new]
    BY <1>0, <1>1 DEF Construct, Goto, Fields, OnceInv, Exclusive
  <2> HIDE DEF new
  <2>2. Fits(new) /\ Placed(new) /\ new.pc \notin Carrying
    BY <2>1 DEF Fits, Placed, Carrying
  <2>3. QED
    BY <1>1, <2>1, <2>2, MoveRests DEF Construct
<1>2. CASE Recover(c) \/ Enter(c)
  <2> DEFINE new == [me[c] EXCEPT !.pc = "look", !.at = Intake]
  <2>1. new.pc = "look" /\ new.at = Intake /\ ~new.retry /\ me' = [me EXCEPT ![c] = new]
    BY <1>0, <1>2 DEF Recover, Enter, Fields, OnceInv, Exclusive
  <2> HIDE DEF new
  <2>2. Fits(new) /\ Placed(new) /\ new.pc \notin Carrying
    BY <1>0, <2>1 DEF Fits, Placed, Carrying
  <2>3. QED
    BY <1>2, <2>1, <2>2, MoveRests DEF Recover, Enter
<1>3. CASE Enqueue(c) \/ Claim(c)
  <2>1. UNCHANGED <<rows, retained, child, runs, me>>
    BY <1>3 DEF Enqueue, Claim
  <2>2. DOMAIN job' = {"state", "result"} /\ SameJob
    BY <1>3 DEF Enqueue, Claim, Recorded, SameJob
  <2>3. Frame /\ NoNews
    BY <2>1 DEF Frame, NoNews, Announced, Selected, Known
  <2>4. Monotone /\ NoCall
    BY <2>1, <2>3 DEF Frame, Monotone, NoCall
  <2>5. Recorded'
    <3>1. ASSUME NEW m, Fits(m) PROVE Fits(m)'
      BY <2>1, <3>1 DEF Fits, Leads, Announced, Selected
    <3>2. ASSUME NEW d \in Controller PROVE Fits(me[d])'
      <4>1. PICK m : m = me[d]
        OBVIOUS
      <4>2. Fits(m)'
        BY <3>1, <4>1 DEF Recorded
      <4>3. QED
        BY <2>1, <4>1, <4>2 DEF Fits
    <3>3. QED
      BY <2>1, <2>2, <3>2 DEF Recorded, Announced, Selected
  <2>6. QED
    BY <2>1, <2>2, <2>3, <2>4, <2>5 DEF StepFacts, Effect, Rests
<1>4. CASE AlreadyCompleted(c)
  BY <1>4, EndRests DEF AlreadyCompleted, End, PrintedBy, SameJob, Recorded
<1>5. QED
  BY <1>1, <1>2, <1>3, <1>4

\* c is about to work: nothing is selected for its phase.
LEMMA CallFacts ==
    ASSUME OnceInv, Recorded, NEW c \in Controller, Resume(c) \/ Announce(c)
    PROVE  StepFacts
<1> USE DEF At
<1> DEFINE p == me[c].at
<1>0. PICK new : new = [me[c] EXCEPT !.pc = "call"]
  OBVIOUS
<1>1. me[c].pc = "look" /\ p \in Phases /\ p \in 1..Completion /\ ~me[c].retry /\ lock = c
  BY PhaseTypes DEF Resume, Announce, OnceInv, Controllers, Exclusive
<1>2. new.pc = "call" /\ new.at = p /\ ~new.retry /\ me' = [me EXCEPT ![c] = new]
  BY <1>0, <1>1, Carried DEF Resume, Announce, Goto, Fields
<1>3. Moved(c, new) /\ UNCHANGED retained /\ PrintedBy(c) /\ UNCHANGED <<job, child, runs>>
  BY <1>2 DEF Moved, OnceInv, Controllers, PrintedBy, Resume, Announce
<1>4. /\ Selected(p) = {}
      /\ \/ rows' = rows /\ rows[p] # <<>>
         \/ rows[p] = <<>> /\ rows' = [rows EXCEPT ![p] = <<{}>>]
  BY DEF Resume, Announce, Selected, Receipts
<1>5. \A q \in 1..Completion : Selected(q)' = Selected(q)
  <2>1. CASE rows' = rows
    BY <2>1 DEF Selected
  <2>2. CASE rows' = [rows EXCEPT ![p] = <<{}>>]
    BY <1>1, <2>2, <1>4 DEF Receipts, OnceInv, Rows, Selected
  <2>3. QED
    BY <1>4, <2>1, <2>2
<1>6. Announced' = Announced \cup {p}
  <2>1. CASE rows' = rows /\ rows[p] # <<>>
    BY <1>1, <1>4, <2>1 DEF Announced
  <2>2. CASE rows' = [rows EXCEPT ![p] = <<{}>>]
    BY <1>1, <2>2, PhaseTypes DEF OnceInv, Rows, Announced
  <2>3. QED
    BY <1>4, <2>1, <2>2
<1>7. Monotone
  BY <1>3, <1>5, <1>6 DEF Monotone
<1>8. NoNews
  <2> SUFFICES ASSUME NEW q \in 1..Completion PROVE Known(q)' \subseteq Known(q)
    BY DEF NoNews
  <2>1. Selected(q)' \subseteq Known(q)
    BY <1>5 DEF Known
  <2>2. new.pc \notin Carrying
    BY <1>2 DEF Carrying
  <2>3. QED
    BY <1>3, <2>1, <2>2, KnownStep
<1>9. Fits(new)'
  BY <1>2 DEF Fits
<1>10. \A q \in 1..Completion : \A i \in 1..Len(rows'[q]) : rows'[q][i] \subseteq Selected(q)'
  <2> SUFFICES ASSUME NEW q \in 1..Completion, NEW i \in 1..Len(rows'[q]) PROVE rows'[q][i] \subseteq Selected(q)'
    OBVIOUS
  <2>1. CASE rows'[q] = rows[q]
    BY <1>5, <2>1 DEF Recorded
  <2>2. CASE rows'[q] = <<{}>>
    BY <2>2
  <2>3. QED
    BY <1>1, <1>4, <2>1, <2>2 DEF OnceInv, Rows
<1>11. Recorded'
  BY <1>3, <1>7, <1>9, <1>10, RecordedStep DEF Recorded
<1>12. Calls(c, p)
  BY <1>1, <1>2, <1>3, <1>4, <1>5, <1>6, <1>8 DEF Calls, Moved
<1>13. QED
  BY <1>1, <1>7, <1>11, <1>12 DEF StepFacts, Effect

LEMMA LookFacts ==
    ASSUME OnceInv, Recorded, NEW c \in Controller, Replay(c) \/ Unresolved(c)
    PROVE  StepFacts
<1> USE DEF At
<1>1. CASE Replay(c)
  <2>1. PICK o \in Selected(me[c].at) : GoOn(c, me[c].at, o)
    BY <1>1 DEF Replay
  <2>2. me[c].at \in Announced
    BY <1>1, <2>1 DEF Replay, OnceInv, Controllers, Announced, Selected, Receipts
  <2>3. QED
    BY <1>1, <2>1, <2>2, GoOnRests DEF Replay
<1>2. CASE Unresolved(c)
  BY <1>2, EndRests DEF Unresolved, End, PrintedBy, SameJob, Recorded
<1>3. QED
  BY <1>1, <1>2

\* Working on a phase: the outcome is new.
LEMMA DecideFacts ==
    ASSUME OnceInv, Recorded, NEW c \in Controller,
           RunExternal(c) \/ ChildAnswers(c) \/ BudgetRefuses(c)
    PROVE  StepFacts
<1> USE DEF At
<1>1. PICK p : p = me[c].at
  OBVIOUS
<1>2. /\ me[c].pc = "call" /\ p \in Phases /\ p \in 1..Completion /\ ~me[c].retry
      /\ p \in Announced
  BY <1>1, PhaseTypes
     DEF RunExternal, ChildAnswers, BudgetRefuses, OnceInv, Controllers, Exclusive, Unstarted, Announced
<1>3. UNCHANGED <<rows, retained, job>> /\ DOMAIN job' = {"state", "result"} /\ DOMAIN child' = Children
  BY DEF RunExternal, ChildAnswers, BudgetRefuses, Recorded
<1> DEFINE Made(o) ==
      \/ /\ p \in External /\ UNCHANGED child
         /\ runs' = [runs EXCEPT ![p] = @ + 1]
         /\ \E v \in Values(p) : o = Out(v, runs'[p])
      \/ /\ p \in Children /\ UNCHANGED runs
         /\ \E v \in (IF child[p] \in Values(p) THEN {child[p]} ELSE Values(p)) :
               child' = [child EXCEPT ![p] = v] /\ o = Out(v, 0)
      \/ /\ p \in Authoring /\ child[p] = "none" /\ UNCHANGED <<child, runs>>
         /\ \E r \in Refusals : o = Out(r, 0)
<1>4. \E o : Made(o) /\ (Decide(c, o) \/ me' = [me EXCEPT ![c] = Idle])
  <2>1. CASE RunExternal(c)
    <3>1. p \in External /\ UNCHANGED child /\ runs' = [runs EXCEPT ![p] = @ + 1]
      BY <1>1, <2>1 DEF RunExternal
    <3>2. CASE End(c)
      BY <3>1, <3>2 DEF Values, End
    <3>3. ASSUME NEW v \in Values(p), Decide(c, Out(v, runs'[p])) PROVE \E o : Made(o) /\ Decide(c, o)
      BY <3>1, <3>3
    <3>4. QED
      BY <1>1, <2>1, <3>2, <3>3 DEF RunExternal
  <2>2. CASE ChildAnswers(c)
    BY <1>1, <2>2 DEF ChildAnswers
  <2>3. CASE BudgetRefuses(c)
    BY <1>1, <2>3 DEF BudgetRefuses
  <2>4. QED
    BY <2>1, <2>2, <2>3
<1>5. PICK o : Made(o) /\ (Decide(c, o) \/ me' = [me EXCEPT ![c] = Idle])
  BY <1>4
<1>6. PICK new : /\ me' = [me EXCEPT ![c] = new] /\ ~new.retry
                 /\ new.pc = "idle" \/ (new.pc = "check" /\ new.at = p /\ new.out = o)
  <2>1. CASE Decide(c, o)
    <3> DEFINE new == [me[c] EXCEPT !.pc = "check", !.out = o]
    <3>1. new.pc = "check" /\ new.at = p /\ new.out = o /\ ~new.retry
      BY <1>1, <1>2, Carried DEF Fields
    <3>2. me' = [me EXCEPT ![c] = new]
      BY <2>1 DEF Decide
    <3> HIDE DEF new
    <3>3. QED
      BY <3>1, <3>2
  <2>2. CASE me' = [me EXCEPT ![c] = Idle]
    <3>1. Idle.pc = "idle" /\ ~Idle.retry
      BY DEF Idle
    <3>2. QED
      BY <2>2, <3>1
  <2>3. QED
    BY <1>5, <2>1, <2>2
<1>7. Moved(c, new) /\ PrintedBy(c)
  BY <1>3, <1>6 DEF Moved, PrintedBy, OnceInv, Controllers
<1>8. Frame
  BY <1>3 DEF Frame, Announced, Selected
<1>9. Monotone
  BY <1>3, <1>8 DEF Frame, Monotone
<1>10. ASSUME NEW q \in 1..Completion PROVE Known(q)' \subseteq Known(q) \cup (IF q = p THEN {o} ELSE {})
  <2>1. Selected(q)' \subseteq Known(q)
    BY <1>8 DEF Frame, Known
  <2>2. Known(q)' \subseteq Known(q) \cup (IF new.pc \in Carrying /\ new.at = q THEN {new.out} ELSE {})
    BY <1>7, <2>1, KnownStep
  <2>3. QED
    BY <1>6, <2>2 DEF Carrying
<1>11. Fits(new) /\ Placed(new)
  BY <1>2, <1>6 DEF Fits, Placed
<1>12. Recorded'
  BY <1>3, <1>9, <1>11, <1>7, FitsStays, RecordedStep DEF Recorded, Selected
<1>13. Decides(c, p, o)
  BY <1>6, <1>7, <1>1, <1>2, <1>3, <1>5, <1>8, <1>10 DEF Moved, Decides
<1>14. QED
  BY <1>2, <1>9, <1>12, <1>13 DEF StepFacts, Effect

\* A child that stays open, or that is settled by someone else.
LEMMA WaitFacts ==
    ASSUME OnceInv, Recorded,
           (\E c \in Controller : ChildPending(c)) \/ \E p \in Children : Settle(p)
    PROVE  StepFacts
<1> USE DEF At
<1>1. ASSUME NEW c \in Controller, ChildPending(c) PROVE StepFacts
  <2>1. PICK p : p = me[c].at
    OBVIOUS
  <2>2. Moved(c, Idle) /\ PrintedBy(c) /\ UNCHANGED <<rows, job, runs>>
    BY <1>1 DEF ChildPending, End, Moved, PrintedBy, OnceInv, Controllers
  <2>3. Fits(Idle) /\ Placed(Idle) /\ Idle.pc \notin Carrying /\ Idle.pc # "call"
    BY DEF Fits, Placed, Idle, Carrying
  <2>4. /\ me[c].pc = "call" /\ me[c].at = p /\ p \in Children /\ child[p] \in {"none", "pending"}
        /\ child' = [child EXCEPT ![p] = "pending"]
        /\ DOMAIN child' = Children /\ DOMAIN job' = {"state", "result"}
    BY <1>1, <2>1 DEF ChildPending, Recorded
  <2>5. Frame /\ NoNews /\ NoCall /\ Monotone /\ Recorded'
    BY <2>2, <2>3, <2>4, QuietStep
  <2>6. Waits(p)
    BY <2>2, <2>4, <2>5 DEF Waits
  <2>7. QED
    BY <2>4, <2>5, <2>6 DEF StepFacts, Effect
<1>2. ASSUME NEW p \in Children, Settle(p) PROVE StepFacts
  <2>1. UNCHANGED <<rows, retained, job, runs, me>> /\ child[p] = "pending" /\ DOMAIN child' = Children
        /\ \E v : child' = [child EXCEPT ![p] = v]
    BY <1>2 DEF Settle, Recorded
  <2>2. Frame /\ NoNews
    BY <2>1 DEF Frame, NoNews, Announced, Selected, Known
  <2>3. Monotone /\ NoCall
    BY <2>1, <2>2 DEF Frame, Monotone, NoCall
  <2>4. ASSUME NEW d \in Controller PROVE Fits(me[d])'
    <3>1. PICK m : m = me[d]
      OBVIOUS
    <3>a. Fits(m)
      BY <3>1 DEF Recorded
    <3>2. Fits(m)'
      BY <2>1, <3>a DEF Fits, Leads, Announced, Selected
    <3>3. QED
      BY <2>1, <3>1, <3>2 DEF Fits
  <2>5. Recorded'
    BY <2>1, <2>4 DEF Recorded, Announced, Selected
  <2>6. Waits(p)
    BY <2>1, <2>2, <2>3 DEF Waits
  <2>7. QED
    BY <2>3, <2>5, <2>6 DEF StepFacts, Effect
<1>3. QED
  BY <1>1, <1>2

\* The last revision of an extended row, and the others.
LEMMA LastAppended ==
    ASSUME NEW S, NEW s \in Seq(S), NEW x
    PROVE  Append(s, x)[Len(Append(s, x))] = x
  BY AppendProperties

\* Every revision has but these receipts.
Within(s, receipts) == \A i \in 1..Len(s) : s[i] \subseteq receipts

LEMMA AppendedWithin ==
    ASSUME NEW S, NEW s \in Seq(S), NEW x, NEW all, Within(s, all), x \subseteq all
    PROVE  Within(Append(s, x), all)
  BY DEF Within

\* The revision after the ones read, if the row has it already.
LEMMA NextRevision ==
    ASSUME NEW S, NEW s \in Seq(S), NEW T, NEW t \in Seq(T), Len(s) + 1 <= Len(t)
    PROVE  Len(s) + 1 \in 1..Len(t)
  OBVIOUS

\* The result's row is not a phase's.
LEMMA ResultNoPhase == Completion \notin Phases
  BY PhaseTypes DEF Phases

\* What extending a row does to the selected outcomes: those read stay, o may come.
LEMMA ExtendFacts ==
    ASSUME OnceInv, Recorded, NEW c \in Controller, NEW p, p = me[c].at,
           NEW o \in Known(p), NEW receipts, NEW label, label \in {"read step", "gather", "written"},
           me[c].pc \in {"costs", "step"}, Extend(c, receipts, label),
           receipts = Receipts(me[c].row) \/ (me[c].pc = "step" /\ receipts = Receipts(me[c].row) \cup {o}),
           o = me[c].out,
           label \in {"gather", "written"} => o \in receipts,
           label = "gather" => p = Completion
    PROVE  StepFacts
<1>0. /\ p \in Announced \cup {Completion} /\ p \in 1..Completion /\ Fits(me[c]) /\ DOMAIN me[c] = Fields
      /\ IsRow(me[c].row) /\ Receipts(me[c].row) \subseteq Selected(p)
      /\ me[c].pc \in Carrying /\ (me[c].retry => [at |-> p, out |-> o] \in retained)
  BY Carried, AnnouncedRows DEF Fits, Placed, Carrying
<1>1. CASE Pending(c) /\ UNCHANGED rows
  BY <1>0, <1>1, EndRests DEF Pending, End, PrintedBy, Extend, SameJob, Recorded
<1>2. ASSUME ~(Pending(c) /\ UNCHANGED rows) PROVE StepFacts
  <2>0. PICK new : new = [me[c] EXCEPT !.pc = label, !.row = <<>>]
    OBVIOUS
  <2>1. /\ new.pc = label /\ new.at = p /\ new.out = o /\ new.retry = me[c].retry
        /\ me' = [me EXCEPT ![c] = new] /\ UNCHANGED <<retained, job, child, runs>>
    BY <1>0, <1>2, <2>0 DEF Extend, Fields
  <2>2. \/ UNCHANGED rows /\ receipts \subseteq Selected(p)
        \/ /\ rows' = [rows EXCEPT ![p] = Append(@, receipts)]
           /\ Selected(p) \subseteq receipts
    <3>1. PICK S : me[c].row \in Seq(S)
      BY <1>0 DEF IsRow
    <3>3. PICK T : rows[p] \in Seq(T)
      BY <1>0 DEF OnceInv, Rows
    <3>4. CASE UNCHANGED rows /\ Reconciled(p, Len(me[c].row) + 1, receipts)
      BY <3>1, <3>3, <3>4, <1>0, NextRevision DEF Reconciled, Recorded
    <3>5. QED
      BY <1>2, <3>4 DEF Extend, Acceptable
  <2>3. Moved(c, new) /\ PrintedBy(c)
    BY <2>1 DEF Moved, PrintedBy, OnceInv, Controllers
  <2>4. CASE UNCHANGED rows /\ receipts \subseteq Selected(p)
    BY <1>0, <2>1, <2>4, MoveRests DEF Fits, Placed
  <2>5. CASE rows' = [rows EXCEPT ![p] = Append(@, receipts)] /\ Selected(p) \subseteq receipts
    <3>1. PICK T : rows[p] \in Seq(T)
      BY <1>0 DEF OnceInv, Rows
    <3>2. PICK U : Append(rows[p], receipts) \in Seq(U) /\ Append(rows[p], receipts) # <<>>
      BY <3>1, AppendRow
    <3>3. /\ rows'[p] = Append(rows[p], receipts)
          /\ \A q \in 1..Completion : q # p => rows'[q] = rows[q]
      BY <1>0, <2>5 DEF OnceInv, Rows
    <3>4. Receipts(Append(rows[p], receipts)) = receipts
      BY <3>1, <3>2, LastAppended DEF Receipts
    <3>5. receipts = Selected(p) \/ receipts = Selected(p) \cup {o}
      BY <1>0, <2>5
    <3>6. PICK s : s \in {{}, {o}} /\ receipts = Selected(p) \cup s
      BY <3>5
    <3>7. \A q \in 1..Completion : Selected(q)' = IF q = p THEN Selected(q) \cup s ELSE Selected(q)
      BY <3>3, <3>4, <3>6 DEF Selected
    <3>8. Announced' = Announced
      <4>1. p \in Phases => p \in Announced
        BY <1>0, ResultNoPhase
      <4>2. \A q \in Phases : rows'[q] # <<>> <=> rows[q] # <<>>
        BY <3>2, <3>3, <4>1, PhaseTypes DEF Announced
      <4>3. QED
        BY <4>2 DEF Announced
    <3>9. Monotone
      BY <2>1, <3>7, <3>8 DEF Monotone
    <3>10. NoCall
      BY <2>1, <2>3 DEF NoCall, Moved
    <3>11. NoNews
      <4> SUFFICES ASSUME NEW q \in 1..Completion PROVE Known(q)' \subseteq Known(q)
        BY DEF NoNews
      <4>1. Selected(q)' \subseteq Known(q)
        BY <3>6, <3>7 DEF Known
      <4>2. Known(q)' \subseteq Known(q) \cup (IF new.pc \in Carrying /\ new.at = q THEN {new.out} ELSE {})
        BY <2>3, <4>1, KnownStep
      <4>3. QED
        BY <2>1, <4>2
    <3>12. Fits(new)'
      BY <2>1, <3>3, <3>4, <3>8, <1>0 DEF Selected, Fits
    <3>13. \A q \in 1..Completion : \A i \in 1..Len(rows'[q]) : rows'[q][i] \subseteq Selected(q)'
      <4> SUFFICES ASSUME NEW q \in 1..Completion, NEW i \in 1..Len(rows'[q])
                   PROVE  rows'[q][i] \subseteq Selected(q)'
        OBVIOUS
      <4>1. CASE q # p
        BY <3>3, <3>7, <4>1 DEF Recorded
      <4>2. CASE q = p
        <5>1. Within(rows[p], Selected(p)')
          BY <1>0, <3>7 DEF Within, Recorded
        <5>2. receipts \subseteq Selected(p)'
          BY <1>0, <3>6, <3>7
        <5>3. Within(Append(rows[p], receipts), Selected(p)')
          BY <3>1, <5>1, <5>2, AppendedWithin
        <5>4. Within(rows'[q], Selected(q)')
          BY <3>3, <4>2, <5>3
        <5>5. QED
          BY <5>4 DEF Within
      <4>3. QED
        BY <4>1, <4>2
    <3>14. Recorded'
      BY <2>1, <2>3, <3>9, <3>12, <3>13, RecordedStep DEF Recorded
    <3>15. CASE s = {}
      BY <3>7, <3>8, <3>15, <2>1, <3>9, <3>10, <3>11, <3>14 DEF Frame, StepFacts, Effect, Rests,
         SameJob
    <3>16. CASE s = {o}
      BY <1>0, <2>1, <3>7, <3>8, <3>10, <3>11, <3>16, <3>9, <3>14 DEF Selects, StepFacts, Effect
    <3>17. QED
      BY <3>6, <3>15, <3>16
  <2>6. QED
    BY <2>2, <2>4, <2>5
<1>3. QED
  BY <1>1, <1>2

\* Going on with the same outcome.
LEMMA StageRests ==
    ASSUME OnceInv, Recorded, NEW c \in Controller, me[c].pc \in Carrying, NEW new,
           me' = [me EXCEPT ![c] = new], new.pc \in Carrying,
           new.at = me[c].at, new.out = me[c].out, Fits(new),
           UNCHANGED <<rows, retained, job, child, runs>>
    PROVE  StepFacts
  BY Carried, MoveRests DEF Placed, Carrying

\* What c carries is printed and c ends.
LEMMA PendingRests ==
    ASSUME OnceInv, Recorded, NEW c \in Controller, Pending(c), me[c].pc \in Carrying,
           UNCHANGED <<rows, job, child, runs>>
    PROVE  StepFacts
  BY EndRests DEF Pending, End, PrintedBy, SameJob, Recorded

\* A call returns or raises without having anything to print.
LEMMA ReturnRests ==
    ASSUME OnceInv, Recorded, NEW c \in Controller, End(c),
           UNCHANGED <<rows, retained, job, child, runs>>
    PROVE  StepFacts
  BY EndRests DEF End, PrintedBy, SameJob, Recorded

\* The outcome is selected: the call ends or goes on.
LEMMA PublishedRests ==
    ASSUME OnceInv, Recorded, NEW c \in Controller, Published(c),
           me[c].at \in Announced \cup {Completion}, me[c].out \in Selected(me[c].at),
           UNCHANGED <<rows, retained, job, child, runs>>
    PROVE  StepFacts
  BY ReturnRests, GoOnRests DEF Published

LEMMA PublishFacts ==
    ASSUME OnceInv, Recorded, NEW c \in Controller,
           CheckStep(c) \/ ReadRow(c) \/ ExtendCosts(c) \/ ExtendStep(c) \/ Written(c)
    PROVE  StepFacts
<1> USE DEF At
<1>0. /\ DOMAIN me[c] = Fields /\ Fits(me[c]) /\ Placed(me[c])
      /\ me[c].pc \in Carrying => me[c].out \in Known(me[c].at)
  BY Carried
<1>1. CASE CheckStep(c)
  <2>1. me[c].pc = "check" /\ UNCHANGED <<rows, retained, job, child, runs>> /\ me[c].at \in Announced
    BY <1>0, <1>1 DEF CheckStep, Fits
  <2>2. CASE End(c)
    BY <2>1, <2>2, ReturnRests
  <2>3. CASE Goto(c, "read costs")
    <3>1. PICK new : new = [me[c] EXCEPT !.pc = "read costs"]
      OBVIOUS
    <3>2. /\ new.pc = "read costs" /\ new.at = me[c].at /\ new.out = me[c].out /\ new.retry = me[c].retry
          /\ me' = [me EXCEPT ![c] = new]
      BY <1>0, <2>3, <3>1 DEF Goto, Fields
    <3>3. Fits(new) /\ new.pc \in Carrying /\ me[c].pc \in Carrying
      BY <1>0, <2>1, <3>2 DEF Fits, Carrying
    <3>4. QED
      BY <2>1, <3>2, <3>3, StageRests
  <2>4. CASE Selected(me[c].at) = {me[c].out} /\ Published(c)
    BY <2>1, <2>4, PublishedRests
  <2>5. QED
    BY <1>1, <2>2, <2>3, <2>4 DEF CheckStep
<1>2. CASE ReadRow(c)
  <2>1. UNCHANGED <<rows, retained, job, child, runs>>
    BY <1>2 DEF ReadRow
  <2>2. PICK label \in {"costs", "step"} :
           /\ me' = [me EXCEPT ![c].pc = label, ![c].row = rows[me[c].at]]
           /\ me[c].pc = IF label = "costs" THEN "read costs" ELSE "read step"
    BY <1>2 DEF ReadRow
  <2>3. PICK new : new = [me[c] EXCEPT !.pc = label, !.row = rows[me[c].at]]
    OBVIOUS
  <2>4. /\ new.pc = label /\ new.at = me[c].at /\ new.out = me[c].out /\ new.retry = me[c].retry
        /\ new.row = rows[me[c].at] /\ me' = [me EXCEPT ![c] = new]
    BY <1>0, <2>2, <2>3 DEF Fields
  <2>5. IsRow(new.row) /\ Receipts(new.row) \subseteq Selected(new.at)
    BY <1>0, <2>2, <2>4 DEF IsRow, Selected, OnceInv, Rows, Placed
  <2>6. Fits(new) /\ new.pc \in Carrying /\ me[c].pc \in Carrying
    BY <1>0, <2>2, <2>4, <2>5 DEF Fits, Carrying
  <2>7. QED
    BY <2>1, <2>4, <2>6, StageRests
<1>3. CASE ExtendCosts(c)
  <2>1. me[c].pc = "costs" /\ Extend(c, Receipts(me[c].row), "read step") /\ me[c].out \in Known(me[c].at)
    BY <1>0, <1>3 DEF ExtendCosts, Carrying
  <2>2. PICK p, o, receipts :
           p = me[c].at /\ o = me[c].out /\ receipts = Receipts(me[c].row)
    OBVIOUS
  <2>3. QED
    BY <2>1, <2>2, ExtendFacts
<1>4. CASE ExtendStep(c)
  <2>1. PICK p, o, receipts, label :
           /\ p = me[c].at /\ o = me[c].out /\ receipts = Receipts(me[c].row) \cup {o}
           /\ label = IF p = Completion THEN "gather" ELSE "written"
    OBVIOUS
  <2>2. me[c].pc = "step" /\ Extend(c, receipts, label) /\ o \in Known(p)
    BY <1>0, <1>4, <2>1 DEF ExtendStep, Carrying
  <2>3. label \in {"gather", "written"} /\ o \in receipts /\ (label = "gather" => p = Completion)
    BY <2>1
  <2>4. QED
    BY <2>1, <2>2, <2>3, ExtendFacts
<1>5. CASE Written(c)
  BY <1>0, <1>5, PublishedRests DEF Written, Fits
<1>6. QED
  BY <1>1, <1>2, <1>3, <1>4, <1>5

\* The end of the phases: the result is new unless one is frozen.
LEMMA FinishFacts ==
    ASSUME OnceInv, Recorded, NEW c \in Controller, Finish(c)
    PROVE  StepFacts
<1> USE DEF At
<1>0. /\ DOMAIN me[c] = Fields /\ Fits(me[c]) /\ me[c].pc = "finish" /\ ~me[c].retry
      /\ UNCHANGED <<rows, retained, job, child, runs>>
  BY Carried DEF Finish, OnceInv, Exclusive
<1>1. CASE End(c)
  BY <1>0, <1>1, ReturnRests
<1>2. ASSUME NEW outcome, me' = [me EXCEPT ![c].pc = "audit", ![c].at = Completion, ![c].out = outcome],
             outcome \in Selected(Completion)
             \/ outcome = [selected |-> me[c].out, steps |-> SelectedSteps]
      PROVE  StepFacts
  <2>1. PICK new : new = [me[c] EXCEPT !.pc = "audit", !.at = Completion, !.out = outcome]
    OBVIOUS
  <2>2. /\ new.pc = "audit" /\ new.at = Completion /\ new.out = outcome /\ ~new.retry
        /\ me' = [me EXCEPT ![c] = new]
    BY <1>0, <1>2, <2>1 DEF Fields
  <2>3. Fits(new) /\ Placed(new) /\ new.pc # "call"
    BY <2>2, PhaseTypes DEF Fits, Placed
  <2>4. CASE outcome \in Selected(Completion)
    BY <1>0, <2>2, <2>3, <2>4, MoveRests DEF Known
  <2>5. CASE outcome = [selected |-> me[c].out, steps |-> SelectedSteps]
    <3>1. PICK p, o : p = me[c].at /\ o = me[c].out
      OBVIOUS
    <3>2. p \in Announced /\ p \in Phases /\ o \in Selected(p) /\ After(p, o.value) = Completion
      BY <1>0, <3>1, AnnouncedRows DEF Fits
    <3>3. Moved(c, new) /\ PrintedBy(c)
      BY <1>0, <2>2 DEF Moved, PrintedBy, OnceInv, Controllers
    <3>4. Frame
      BY <1>0 DEF Frame, Announced, Selected
    <3>5. Monotone /\ NoCall
      BY <1>0, <2>3, <3>3, <3>4 DEF Monotone, Frame, NoCall, Moved
    <3>6. ASSUME NEW q \in 1..Completion
          PROVE  Known(q)' \subseteq Known(q) \cup (IF q = Completion THEN {outcome} ELSE {})
      BY <3>4, <3>3, <2>2, KnownStep DEF Frame, Known
    <3>7. Finishes(p, o)
      BY <1>0, <2>5, <3>1, <3>2, <3>4, <3>5, <3>6 DEF Finishes
    <3>8. Recorded'
      BY <2>3, <3>5, <1>0, <3>3, FitsStays, RecordedStep DEF Recorded, Selected
    <3>9. QED
      BY <3>2, <3>5, <3>7, <3>8 DEF StepFacts, Effect
  <2>6. QED
    BY <1>2, <2>4, <2>5
<1>3. QED
  BY <1>1, <1>2 DEF Finish, Selected

\* Presenting, freezing and completing, and publishing what was printed.
LEMMA ResultFacts ==
    ASSUME OnceInv, Recorded, NEW c \in Controller,
           Audit(c) \/ Freeze(c) \/ Gather(c) \/ Complete(c) \/ RetryPublication(c)
    PROVE  StepFacts
<1> USE DEF At
<1>0. DOMAIN me[c] = Fields /\ Fits(me[c])
  BY Carried
<1>1. ASSUME NEW label \in {"freeze", "read step", "gather"}, Goto(c, label),
             me[c].pc \in {"audit", "freeze"}, label = "gather" => me[c].out \in Selected(me[c].at),
             UNCHANGED <<rows, retained, job, child, runs>>
      PROVE  StepFacts
  <2>1. PICK new : new = [me[c] EXCEPT !.pc = label]
    OBVIOUS
  <2>2. /\ new.pc = label /\ new.at = me[c].at /\ new.out = me[c].out /\ new.retry = me[c].retry
        /\ me' = [me EXCEPT ![c] = new]
    BY <1>0, <1>1, <2>1 DEF Goto, Fields
  <2>3. Fits(new) /\ new.pc \in Carrying /\ me[c].pc \in Carrying
    BY <1>0, <1>1, <2>2 DEF Fits, Carrying
  <2>4. QED
    BY <1>1, <2>2, <2>3, StageRests
<1>2. CASE Audit(c)
  BY <1>1, <1>2, ReturnRests DEF Audit
<1>3. CASE Freeze(c)
  BY <1>3, <1>0, <1>1, PendingRests DEF Freeze, Carrying, Fits, Selected
<1>4. CASE Gather(c)
  <2>1. PICK new : new = [me[c] EXCEPT !.pc = "complete", !.row = Revisions]
    OBVIOUS
  <2>2. /\ new.pc = "complete" /\ new.at = me[c].at /\ new.out = me[c].out /\ new.retry = me[c].retry
        /\ me' = [me EXCEPT ![c] = new] /\ me[c].pc = "gather"
    BY <1>0, <1>4, <2>1 DEF Gather, Fields
  <2>3. Fits(new) /\ new.pc \in Carrying /\ me[c].pc \in Carrying
    BY <1>0, <2>2 DEF Fits, Carrying
  <2>4. QED
    BY <1>4, <2>2, <2>3, StageRests DEF Gather
<1>5. CASE Complete(c)
  <2>1. CASE Pending(c) /\ UNCHANGED job
    BY <1>5, <2>1, PendingRests DEF Complete, Carrying
  <2>2. ASSUME me' = [me EXCEPT ![c].pc = "written", ![c].row = <<>>], UNCHANGED retained
        PROVE  StepFacts
    <3>1. PICK new : new = [me[c] EXCEPT !.pc = "written", !.row = <<>>]
      OBVIOUS
    <3>2. /\ new.pc = "written" /\ new.at = me[c].at /\ new.out = me[c].out /\ new.retry = me[c].retry
          /\ me' = [me EXCEPT ![c] = new] /\ me[c].pc = "complete"
      BY <1>0, <1>5, <2>2, <3>1 DEF Complete, Fields
    <3>3. me[c].at = Completion /\ me[c].out \in Selected(Completion)
      BY <1>0, <3>2 DEF Fits
    <3>4. Fits(new) /\ new.pc \in Carrying /\ me[c].pc \in Carrying
      BY <1>0, <3>2, <3>3 DEF Fits, Carrying
    <3>5. CASE UNCHANGED job
      BY <1>5, <2>2, <3>2, <3>4, <3>5, StageRests DEF Complete
    <3>6. CASE job.state = "running" /\ job' = [state |-> "completed",
                                               result |-> [outcome |-> me[c].out, revisions |-> me[c].row]]
      <4>1. /\ UNCHANGED <<rows, child, runs>> /\ DOMAIN child' = Children
            /\ DOMAIN job' = {"state", "result"} /\ job'.state = "completed" /\ job.state # "completed"
            /\ job'.result.outcome \in Selected(Completion)
        BY <1>5, <3>3, <3>6 DEF Complete, Recorded
      <4>2. Moved(c, new) /\ PrintedBy(c)
        BY <2>2, <3>2 DEF Moved, PrintedBy, OnceInv, Controllers
      <4>3. Placed(new) /\ new.out \in Known(new.at) /\ new.pc # "call"
        BY <3>2, <3>3, PhaseTypes DEF Placed, Known
      <4>4. Frame /\ NoNews /\ NoCall /\ Monotone /\ Recorded'
        BY <3>4, <4>1, <4>2, <4>3, QuietStep
      <4>5. Completes
        BY <4>1, <4>4 DEF Completes
      <4>6. QED
        BY <4>4, <4>5 DEF StepFacts, Effect
    <3>7. QED
      BY <1>5, <2>2, <3>5, <3>6 DEF Complete, Pending, End, Idle
  <2>3. QED
    BY <1>5, <2>1, <2>2 DEF Complete
<1>6. CASE RetryPublication(c)
  <2>1. PICK payload \in retained :
           me' = [me EXCEPT ![c] = [pc |-> IF payload.at = Completion THEN "audit" ELSE "check",
                                    at |-> payload.at, out |-> payload.out,
                                    row |-> <<>>, retry |-> TRUE]]
    BY <1>6 DEF RetryPublication
  <2>2. PICK new : new = [pc |-> IF payload.at = Completion THEN "audit" ELSE "check",
                          at |-> payload.at, out |-> payload.out, row |-> <<>>, retry |-> TRUE]
    OBVIOUS
  <2>3. /\ new.pc = (IF payload.at = Completion THEN "audit" ELSE "check")
        /\ new.at = payload.at /\ new.out = payload.out /\ new.retry
        /\ me' = [me EXCEPT ![c] = new]
    BY <2>1, <2>2
  <2>4. payload = [at |-> payload.at, out |-> payload.out] /\ payload.at \in Announced \cup {Completion}
    BY DEF Recorded
  <2>5. new.out \in Known(new.at)
    BY <2>3 DEF Known
  <2>6. Fits(new) /\ Placed(new) /\ new.pc # "call"
    BY <2>3, <2>4, AnnouncedRows, PhaseTypes DEF Fits, Placed
  <2>7. QED
    BY <1>6, <2>3, <2>5, <2>6, MoveRests DEF RetryPublication
<1>7. QED
  BY <1>2, <1>3, <1>4, <1>5, <1>6

LEMMA FailFacts ==
    ASSUME OnceInv, Recorded, NEW c \in Controller, Fault(c) \/ Crash(c)
    PROVE  StepFacts
  BY PendingRests, ReturnRests DEF Fault, Publishing, Carrying, Crash

\* Whatever happens is one of the effects.
LEMMA EveryStep ==
    ASSUME OnceInv, Recorded, [Next]_vars
    PROVE  StepFacts
<1>1. CASE UNCHANGED vars
  <2>1. UNCHANGED <<rows, child, runs, me, retained, job>>
    BY <1>1 DEF vars
  <2>2. Frame /\ NoNews
    BY <2>1 DEF Frame, NoNews, Announced, Selected, Known
  <2>3. Monotone /\ NoCall /\ SameJob
    BY <2>1, <2>2 DEF Frame, Monotone, NoCall, SameJob
  <2>4. ASSUME NEW d \in Controller PROVE Fits(me[d])'
    <3>1. PICK m : m = me[d]
      OBVIOUS
    <3>2. Fits(m)
      BY <3>1 DEF Recorded
    <3>3. Fits(m)'
      BY <2>1, <3>2 DEF Fits, Leads, Announced, Selected
    <3>4. QED
      BY <2>1, <3>1, <3>3 DEF Fits
  <2>5. Recorded'
    BY <2>1, <2>4 DEF Recorded, Announced, Selected
  <2>6. QED
    BY <2>1, <2>2, <2>3, <2>5 DEF StepFacts, Effect, Rests
<1>2. QED
  BY <1>1, EnterFacts, LookFacts, CallFacts, DecideFacts, WaitFacts, PublishFacts, FinishFacts,
     ResultFacts, FailFacts
     DEF Next

-----------------------------------------------------------------------------
(* What is known stays in order.                                           *)

\* A phase is followed by a later one, or by the result.
LEMMA AfterLater ==
    ASSUME NEW p \in Phases, NEW v
    PROVE  p \in Nat /\ After(p, v) \in Nat /\ After(p, v) > p
  BY WorkflowAssumption
     DEF After, Phases, Completion, Construction, Reference, Preparation, Source, Intake, Authoring, Author

\* Nobody knows two outcomes of a phase.
LEMMA OneKnown ==
    ASSUME ExternalAgreed, \A p \in Children : ChildAgreed(p), NEW p \in Phases, NEW o1 \in Known(p), NEW o2 \in Known(p)
    PROVE  o1 = o2
  BY DEF ExternalAgreed, ChildAgreed, Children

\* A phase whose outcome leads nowhere announced is the last one.
LEMMA LastPhase ==
    ASSUME ExternalAgreed, Unrefused, NEW p \in Announced, NEW o \in Selected(p), After(p, o.value) \notin Announced,
           NEW q \in Announced
    PROVE  ~(p < q)
<1> SUFFICES ASSUME p < q PROVE FALSE
  OBVIOUS
<1>1. PICK o2 \in Selected(p) : After(p, o2.value) \in Announced
  BY DEF Unrefused, OnePath
<1>2. o2 = o
  BY OneKnown, AnnouncedRows DEF Unrefused, Known
<1>3. QED
  BY <1>1, <1>2

\* Once there is a result, every announced phase has its outcome and no other is reached.
LEMMA Ended ==
    ASSUME ExternalAgreed, Unrefused, Ordered, NEW x, IsResult(x)
    PROVE  /\ \A p \in Announced : Selected(p) # {}
           /\ \A p \in Phases : p = Intake \/ Leads(p) => p \in Announced
<1>a. PICK last \in Announced : \E o \in Selected(last) : After(last, o.value) = Completion
  BY DEF IsResult
<1>1. PICK o \in Selected(last) : After(last, o.value) = Completion
  BY <1>a
<1>2. \A p \in Announced : p \in Phases /\ p \in Nat
  BY AnnouncedRows, AfterLater
<1>3. After(last, o.value) \notin Announced
  BY <1>1, <1>2, ResultNoPhase
<1>4. \A p \in Announced : ~(last < p)
  BY <1>3, LastPhase
<1>5. ASSUME NEW p \in Announced PROVE Selected(p) # {}
  BY <1>2, <1>4 DEF Unrefused, OnePath
<1>6. ASSUME NEW p \in Phases, p = Intake \/ Leads(p) PROVE p \in Announced
  <2>1. CASE p = Intake
    BY <2>1 DEF Ordered
  <2>2. CASE Leads(p) /\ p \notin Announced
    <3>a. PICK q \in Announced : \E o2 \in Selected(q) : After(q, o2.value) = p
      BY <2>2 DEF Leads
    <3>1. PICK o2 \in Selected(q) : After(q, o2.value) = p
      BY <3>a
    <3>2. ~(q < last)
      BY <2>2, <3>1, LastPhase
    <3>3. q = last
      BY <1>2, <1>4, <3>2
    <3>4. o2 = o
      BY <3>1, <3>3, OneKnown, <1>2 DEF Unrefused, Known
    <3>5. QED
      BY <1>1, <3>1, <3>3, <3>4, ResultNoPhase
  <2>3. QED
    BY <1>6, <2>1, <2>2
<1>7. QED
  BY <1>5, <1>6

\* Authoring is left to child jobs.
LEMMA AuthoringChild == \A p \in Authoring : p \notin External
  BY WorkflowAssumption DEF Authoring, Author, External, Intake, Preparation, Reference

LEMMA OrderedStep ==
    ASSUME Recorded, Ordered, Monotone, Effect
    PROVE  Ordered'
<1>1. \A p \in Announced' : p \in Announced \/ p = Intake \/ (Leads(p) /\ Announced # {})
  <2>1. CASE \E c \in Controller, p \in Phases : Calls(c, p)
    <3>1. PICK c \in Controller, p \in Phases : Calls(c, p)
      BY <2>1
    <3>2. p = Intake \/ Leads(p)
      BY <3>1 DEF Calls, Recorded, Fits
    <3>3. QED
      BY <3>1, <3>2 DEF Calls, Leads
  <2>2. QED
    BY <2>1 DEF Effect, Rests, Frame, Selects, Decides, Waits, Finishes, Completes
<1>2. \A p : Leads(p) => Leads(p)'
  BY AnnouncedRows DEF Monotone, Leads
<1>3. \A p \in Announced' \ {Intake} : Leads(p)'
  BY <1>1, <1>2 DEF Ordered, PhasesInOrder, Leads
<1>4. Announced' # {} => Intake \in Announced'
  BY <1>1 DEF Ordered, Monotone
<1>5. QED
  BY <1>3, <1>4 DEF Ordered, PhasesInOrder, Leads

LEMMA ExternalStepAgrees ==
    ASSUME OnceInv, ExternalAgreed, Effect
    PROVE  ExternalAgreed'
<1> SUFFICES ASSUME NEW p \in External
             PROVE  /\ runs'[p] = 0 => Known(p)' = {}
                    /\ \A o \in Known(p)' : \E v \in Values(p) : o = Out(v, 1)
                    /\ \A o1, o2 \in Known(p)' : o1 = o2
  BY DEF ExternalAgreed
<1>0. p \in 1..Completion /\ p # Completion /\ p \in Phases
  BY PhaseTypes, ResultNoPhase
<1>1. CASE Known(p)' \subseteq Known(p) /\ (runs'[p] = runs[p])
  BY <1>1 DEF ExternalAgreed
<1>2. ASSUME NEW c \in Controller, NEW q \in Phases, NEW o, Decides(c, q, o)
      PROVE  \/ Known(p)' \subseteq Known(p) /\ runs'[p] = runs[p]
             \/ /\ runs[p] = 0 /\ runs'[p] = 1
                /\ \E v \in Values(p) : Known(p)' \subseteq Known(p) \cup {Out(v, 1)}
  BY <1>0, <1>2, AuthoringChild DEF Decides, OnceInv, Unstarted, Children
<1>3. ASSUME NEW v \in Values(p), runs[p] = 0, runs'[p] = 1, Known(p)' \subseteq Known(p) \cup {Out(v, 1)}
      PROVE  /\ runs'[p] = 0 => Known(p)' = {}
             /\ \A o \in Known(p)' : \E w \in Values(p) : o = Out(w, 1)
             /\ \A o1, o2 \in Known(p)' : o1 = o2
  BY <1>3 DEF ExternalAgreed
<1>4. (\E c \in Controller, q \in Phases : \E o : Decides(c, q, o)) \/ (Known(p)' \subseteq Known(p) /\ runs'[p] = runs[p])
  BY <1>0 DEF Effect, Rests, NoNews, Selects, Calls, Waits, Finishes, Completes
<1>5. QED
  BY <1>1, <1>2, <1>3, <1>4

\* "none" and "pending" are no results.
LEMMA NoResults == \A p : "none" \notin Values(p) /\ "pending" \notin Values(p)
  BY DEF Values

\* A refusal somebody knows is selected, or printed, or about to be published in the lock.
LEMMA RefusalKnown ==
    ASSUME OnceInv, Recorded, NEW p \in Authoring, NEW r \in Refusals, Out(r, 0) \in Known(p), Selected(p) = {},
           NEW c \in Controller, lock = c, me[c].pc \notin Carrying
    PROVE  RefusalRetained
<1>1. Out(r, 0).value \in Refusals
  BY DEF Out
<1>2. CASE \E m \in retained : m.at = p /\ m.out = Out(r, 0)
  BY <1>1, <1>2 DEF RefusalRetained
<1>3. ASSUME NEW d \in Controller, me[d].pc \in Carrying, me[d].at = p, me[d].out = Out(r, 0)
      PROVE  RefusalRetained
  <2>1. me[d].pc # "idle" /\ d # c
    BY <1>3 DEF Carrying
  <2>2. me[d].retry
    BY <2>1 DEF OnceInv, Exclusive
  <2>3. [at |-> me[d].at, out |-> me[d].out] \in retained
    BY <2>2 DEF Recorded, Fits
  <2>4. PICK m \in retained : m = [at |-> me[d].at, out |-> me[d].out]
    BY <2>3
  <2>5. m.at = p /\ m.out = Out(r, 0)
    BY <1>3, <2>4
  <2>6. QED
    BY <1>1, <2>5 DEF RefusalRetained
<1>4. QED
  BY <1>2, <1>3 DEF Known

LEMMA ChildStepAgrees ==
    ASSUME OnceInv, Recorded, Effect, ~RefusalRetained, NEW p \in Children, ChildAgreed(p)
    PROVE  ChildAgreed(p)'
<1>0. p \in 1..Completion /\ p # Completion /\ p \in Phases /\ DOMAIN child = Children
  BY PhaseTypes, ResultNoPhase DEF Recorded
<1>1. ASSUME Known(p)' \subseteq Known(p), child'[p] = child[p],
             \A c \in Controller : me'[c].pc = "call" /\ me'[c].at = p => me[c].pc = "call" /\ me[c].at = p
      PROVE  ChildAgreed(p)'
  BY <1>1 DEF ChildAgreed
<1>2. CASE Rests \/ Completes \/ (\E q \in 1..Completion : \E o : Selects(q, o)) \/ \E q \in Phases : \E o : Finishes(q, o)
  BY <1>0, <1>1, <1>2 DEF Rests, Completes, Selects, Finishes, NoNews, NoCall
<1>3. ASSUME NEW c \in Controller, NEW q \in Phases, Calls(c, q) PROVE ChildAgreed(p)'
  BY <1>0, <1>3, <1>1, RefusalKnown DEF Calls, NoNews, Carrying, ChildAgreed
<1>4. ASSUME NEW c \in Controller, NEW q \in Phases, NEW o, Decides(c, q, o) PROVE ChildAgreed(p)'
  <2>1. me'[c].pc # "call" /\ \A d \in Controller \ {c} : me'[d] = me[d]
    BY <1>4 DEF Decides
  <2>2. CASE q # p
    BY <1>0, <1>4, <2>2, <1>1, <2>1 DEF Decides
  <2>3. CASE q = p
    <3>1. me[c].pc = "call" /\ me[c].at = p /\ Known(p)' \subseteq Known(p) \cup {o} /\ p \notin External
      BY <1>0, <1>4, <2>3 DEF Decides, Children
    <3>2. Known(p) = {} \/ (child[p] \in Values(p) /\ Known(p) = {Out(child[p], 0)})
      BY <3>1 DEF ChildAgreed
    <3>3. ASSUME NEW v \in (IF child[p] \in Values(p) THEN {child[p]} ELSE Values(p)),
                 child' = [child EXCEPT ![p] = v], o = Out(v, 0)
          PROVE  ChildAgreed(p)'
      BY <1>0, <3>3, <3>2, <3>1 DEF ChildAgreed
    <3>4. ASSUME p \in Authoring, child[p] = "none", child' = child, NEW r \in Refusals, o = Out(r, 0)
          PROVE  ChildAgreed(p)'
      BY <3>1, <3>2, <3>4, <2>1, NoResults DEF OnceInv, Exclusive, ChildAgreed
    <3>5. QED
      BY <1>4, <2>3, <3>1, <3>3, <3>4 DEF Decides
  <2>4. QED
    BY <2>2, <2>3
<1>5. ASSUME NEW q \in Children, Waits(q) PROVE ChildAgreed(p)'
  BY <1>0, <1>5, <1>1, NoResults DEF Waits, NoNews, NoCall, ChildAgreed
<1>6. QED
  BY <1>2, <1>3, <1>4, <1>5 DEF Effect

LEMMA OnePathStep ==
    ASSUME Recorded, Ordered, ExternalAgreed, Unrefused, Monotone, Effect
    PROVE  OnePath'
<1>0. \A p \in Announced : p \in Phases /\ p \in 1..Completion /\ p \in Nat
  BY AnnouncedRows, AfterLater
<1>1. ASSUME NEW p \in Announced, NEW q \in Announced, p < q
      PROVE  \E o \in Selected(p)' : After(p, o.value) \in Announced'
  BY <1>0, <1>1 DEF Unrefused, OnePath, Monotone
<1>2. CASE Announced' = Announced
  BY <1>1, <1>2 DEF OnePath
<1>3. ASSUME NEW c \in Controller, NEW r \in Phases, Calls(c, r), r \notin Announced
      PROVE  OnePath'
  <2>1. Announced' = Announced \cup {r} /\ (r = Intake \/ Leads(r)) /\ r \in Nat
    BY <1>3, AfterLater DEF Calls, Recorded, Fits
  <2>2. CASE Announced = {}
    BY <2>1, <2>2 DEF OnePath
  <2>3. CASE Announced # {}
    <3>1. Leads(r)
      BY <1>3, <2>1, <2>3 DEF Ordered
    <3>a. PICK last \in Announced : \E o \in Selected(last) : After(last, o.value) = r
      BY <3>1 DEF Leads
    <3>2. PICK o \in Selected(last) : After(last, o.value) = r
      BY <3>a
    <3>3. \A q \in Announced : ~(last < q)
      BY <1>3, <3>2, LastPhase
    <3>4. last < r
      BY <1>0, <3>2, AfterLater
    <3>5. ASSUME NEW p \in Announced', NEW q \in Announced', p < q
          PROVE  \E s \in Selected(p)' : After(p, s.value) \in Announced'
      BY <1>1, <3>5, <1>0, <3>3, <2>1, <3>2, <3>4 DEF Monotone
    <3>6. QED
      BY <3>5 DEF OnePath
  <2>4. QED
    BY <2>2, <2>3
<1>4. QED
  BY <1>2, <1>3 DEF Effect, Rests, Frame, Selects, Calls, Decides, Waits, Finishes, Completes

LEMMA OneResultStep ==
    ASSUME Recorded, Ordered, ExternalAgreed, Unrefused, Monotone, Effect
    PROVE  OneResult'
<1>0. Completion \in 1..Completion /\ \A p \in Phases : p # Completion
  BY PhaseTypes, ResultNoPhase
<1>1. job'.state = "completed" => job'.result.outcome \in Selected(Completion)'
  BY <1>0 DEF Completes, Monotone, SameJob, Unrefused, OneResult, Effect, Rests, Selects, Calls,
     Decides, Waits, Finishes
<1>2. ASSUME NEW x, IsResult(x), Announced' = Announced, \A p \in Announced : Selected(p)' = Selected(p),
             \A p \in Phases : Selected(p)' = Selected(p)
      PROVE  IsResult(x)'
  <2>1. SelectedSteps' = SelectedSteps
    BY <1>2 DEF SelectedSteps, Steps
  <2>2. QED
    BY <1>2, <2>1 DEF IsResult
<1>3. ASSUME NEW x, IsResult(x) PROVE IsResult(x)'
  <2>1. CASE Frame
    BY <1>2, <1>3, <2>1, PhaseTypes, AnnouncedRows DEF Frame
  <2>2. ASSUME NEW p \in 1..Completion, NEW o, Selects(p, o) PROVE IsResult(x)'
    <3>1. Announced' = Announced
      BY <2>2 DEF Selects
    <3>2. ASSUME NEW q \in Phases PROVE Selected(q)' = Selected(q)
      <4>1. CASE q # p
        BY <2>2, <4>1, PhaseTypes DEF Selects
      <4>2. CASE q = p
        <5>1. q \in Announced /\ o \in Known(q)
          BY <1>0, <2>2, <4>2 DEF Selects
        <5>2. Selected(q) # {}
          BY <1>3, <5>1, Ended
        <5>3. o \in Selected(q)
          BY <5>1, <5>2, OneKnown DEF Known, Unrefused
        <5>4. QED
          BY <2>2, <4>2, <5>3, PhaseTypes DEF Selects
      <4>3. QED
        BY <4>1, <4>2
    <3>3. QED
      BY <1>2, <1>3, <3>1, <3>2, AnnouncedRows
  <2>3. ASSUME NEW c \in Controller, NEW p \in Phases, Calls(c, p) PROVE FALSE
    BY <2>3, <1>3, Ended DEF Calls, Recorded, Fits
  <2>4. QED
    BY <2>1, <2>2, <2>3 DEF Effect, Rests, Decides, Waits, Finishes, Completes
<1>4. ASSUME NEW x \in Known(Completion)' PROVE IsResult(x)'
  <2>1. CASE x \in Known(Completion)
    BY <1>3, <2>1 DEF Unrefused, OneResult
  <2>2. ASSUME NEW p \in Phases, NEW o, Finishes(p, o), x = [selected |-> o, steps |-> SelectedSteps]
        PROVE  IsResult(x)'
    BY <2>2, <1>3 DEF Finishes, IsResult
  <2>3. NoNews \/ (\E c \in Controller, p \in Phases : \E o : Decides(c, p, o))
          \/ (\E p \in Phases : \E o : Finishes(p, o))
    BY DEF Effect, Rests, Selects, Calls, Waits, Completes
  <2>4. CASE NoNews
    BY <1>0, <1>4, <2>1, <2>4 DEF NoNews
  <2>5. CASE \E c \in Controller, p \in Phases : \E o : Decides(c, p, o)
    BY <1>0, <1>4, <2>1, <2>5 DEF Decides
  <2>6. CASE \E p \in Phases : \E o : Finishes(p, o)
    <3>a. PICK p \in Phases : \E o : Finishes(p, o)
      BY <2>6
    <3>1. PICK o : Finishes(p, o)
      BY <3>a
    <3>2. x \in Known(Completion) \/ x = [selected |-> o, steps |-> SelectedSteps]
      BY <1>0, <1>4, <3>1 DEF Finishes
    <3>3. QED
      BY <2>1, <2>2, <3>1, <3>2
  <2>7. QED
    BY <2>3, <2>4, <2>5, <2>6
<1>5. QED
  BY <1>1, <1>4 DEF OneResult

LEMMA StandStep == OnceInv /\ StandInv /\ [Next]_vars => StandInv'
<1> SUFFICES ASSUME OnceInv, StandInv, [Next]_vars PROVE StandInv'
  OBVIOUS
<1>1. Recorded' /\ Monotone /\ Effect
  BY EveryStep DEF StandInv, StepFacts
<1>2. Ordered' /\ ExternalAgreed'
  BY <1>1, OrderedStep, ExternalStepAgrees DEF StandInv
<1>3. CASE RefusalRetained
  BY <1>1, <1>3, <1>2 DEF Monotone, RefusalRetained, StandInv
<1>4. CASE ~RefusalRetained
  <2>1. Unrefused
    BY <1>4 DEF StandInv
  <2>2. OnePath' /\ OneResult'
    BY <1>1, <2>1, OnePathStep, OneResultStep DEF StandInv
  <2>3. ASSUME NEW p \in Children PROVE ChildAgreed(p)'
    BY <1>1, <1>4, <2>1, ChildStepAgrees DEF StandInv, Unrefused
  <2>4. QED
    BY <1>1, <1>2, <2>2, <2>3 DEF StandInv, Unrefused
<1>5. QED
  BY <1>3, <1>4

\* Nothing is known at first.
LEMMA StandInitial == Init => StandInv
<1> SUFFICES ASSUME Init PROVE StandInv
  OBVIOUS
<1>1. Announced = {} /\ \A p \in 1..Completion : rows[p] = <<>> /\ Selected(p) = {}
  BY AnnouncedRows DEF Init, Announced, Selected, Receipts
<1>2. \A c \in Controller : me[c] = Idle /\ me[c].pc = "idle" /\ ~me[c].retry
  BY DEF Init, Idle
<1>3. retained = {} /\ \A p \in 1..Completion : Known(p) = {}
  BY <1>1, <1>2 DEF Init, Known, Carrying
<1>4. Recorded
  <2>1. \A c \in Controller : Fits(me[c])
    BY <1>2 DEF Fits
  <2>2. \A p \in 1..Completion : \A i \in 1..Len(rows[p]) : rows[p][i] \subseteq Selected(p)
    BY <1>1
  <2>3. QED
    BY <1>3, <2>1, <2>2 DEF Recorded, Init
<1>5. Ordered /\ OnePath
  BY <1>1 DEF Ordered, PhasesInOrder, OnePath
<1>6. ExternalAgreed /\ (\A p \in Children : ChildAgreed(p))
  BY <1>3, PhaseTypes DEF ExternalAgreed, ChildAgreed
<1>7. OneResult
  BY <1>3, PhaseTypes DEF OneResult, Init
<1>8. QED
  BY <1>4, <1>5, <1>6, <1>7 DEF StandInv, Unrefused

-----------------------------------------------------------------------------
(* The outcomes stand, and the job keeps its promise.                      *)

LEMMA StandFacts == Spec => [](OnceInv /\ StandInv)
<1>1. Init => OnceInv /\ StandInv
  BY OnceInitial, StandInitial
<1>2. (OnceInv /\ StandInv) /\ [Next]_vars => (OnceInv /\ StandInv)'
  BY OnceStep, StandStep
<1>3. QED
  BY <1>1, <1>2, PTL DEF Spec

\* At most one element, by number.
LEMMA FewMembers ==
    ASSUME NEW S, \A x, y \in S : x = y
    PROVE  Cardinality(S) <= 1 /\ (S # {} => Cardinality(S) = 1)
<1>1. CASE S = {}
  BY <1>1, FS_EmptySet
<1>2. ASSUME NEW x \in S PROVE Cardinality(S) = 1
  BY FS_Singleton
<1>3. QED
  BY <1>1, <1>2

\* The result of a completed job, before any refusal is printed.
LEMMA CompletedResult ==
    ASSUME StandInv, ~RefusalRetained, NEW x \in Selected(Completion)
    PROVE  /\ IsResult(x) /\ x.steps = SelectedSteps
           /\ \A p \in Announced : Selected(p) # {}
           /\ Selected(Completion) = {x}
<1>1. \A y \in Selected(Completion) : IsResult(y)
  BY DEF StandInv, Unrefused, OneResult, Known
<1>2. \A p \in Announced : Selected(p) # {}
  BY <1>1, Ended DEF StandInv
<1>3. PICK p \in Announced : \E o \in Selected(p) :
         After(p, o.value) = Completion /\ x = [selected |-> o, steps |-> SelectedSteps]
  BY <1>1 DEF IsResult
<1>4. PICK o \in Selected(p) : After(p, o.value) = Completion /\ x = [selected |-> o, steps |-> SelectedSteps]
  BY <1>3
<1>5. ASSUME NEW y \in Selected(Completion) PROVE y = x
  <2>1. PICK q \in Announced : \E o2 \in Selected(q) :
           After(q, o2.value) = Completion /\ y = [selected |-> o2, steps |-> SelectedSteps]
    BY <1>1 DEF IsResult
  <2>2. PICK o2 \in Selected(q) :
           After(q, o2.value) = Completion /\ y = [selected |-> o2, steps |-> SelectedSteps]
    BY <2>1
  <2>3. ~(p < q) /\ ~(q < p)
    BY <1>4, <2>2, LastPhase, ResultNoPhase, AnnouncedRows DEF StandInv, Unrefused
  <2>4. p = q
    BY <2>3, AnnouncedRows, AfterLater
  <2>5. o = o2
    BY <2>4, OneKnown, AnnouncedRows DEF StandInv, Unrefused, Known
  <2>6. QED
    BY <1>4, <2>2, <2>5
<1>6. QED
  BY <1>1, <1>2, <1>4, <1>5

\* Each phase has one selected outcome whatever is retried, a retained external outcome is
\* the one selected, no phase comes before its turn, and the completed job's result binds
\* the selected outcomes for good (workflow.py _step, _publish_step, _publish_outcome).
THEOREM OutcomesStay == Spec => []OutcomesStand
<1>1. ASSUME OnceInv, StandInv PROVE OutcomesStand
  <2>0. ASSUME ~RefusalRetained PROVE Unrefused
    BY <1>1, <2>0 DEF StandInv
  <2>1. OneStepUnlessRefused
    <3>1. ASSUME ~RefusalRetained, NEW p \in Phases PROVE Cardinality(Selected(p)) <= 1
      BY <1>1, <2>0, <3>1, OneKnown, FewMembers DEF StandInv, Unrefused, Known
    <3>2. QED
      BY <3>1 DEF OneStepUnlessRefused, OneStep
  <2>2. PhasesInOrder
    BY <1>1 DEF StandInv, Ordered
  <2>3. PayloadStands
    <3>1. ASSUME NEW m \in retained, m.at \in External, NEW o \in Selected(m.at) PROVE o = m.out
      BY <3>1, <1>1 DEF Known, StandInv, ExternalAgreed
    <3>2. QED
      BY <3>1 DEF PayloadStands
  <2>4. ResultComplete
    <3>1. SUFFICES ASSUME job.state = "completed", ~RefusalRetained
                   PROVE  /\ job.result.outcome.steps = SelectedSteps
                          /\ \A p \in Announced : Cardinality(Selected(p)) = 1
                          /\ Selected(Completion) = {job.result.outcome}
      BY DEF ResultComplete
    <3>2. PICK x : x = job.result.outcome /\ x \in Selected(Completion)
      BY <2>0, <3>1 DEF Unrefused, OneResult
    <3>3. /\ x.steps = SelectedSteps /\ Selected(Completion) = {x}
          /\ \A p \in Announced : Selected(p) # {}
      BY <1>1, <3>1, <3>2, CompletedResult
    <3>4. ASSUME NEW p \in Announced PROVE Cardinality(Selected(p)) = 1
      BY <1>1, <2>0, <3>1, <3>3, OneKnown, AnnouncedRows, FewMembers DEF StandInv, Unrefused, Known
    <3>5. QED
      BY <3>2, <3>3, <3>4
  <2>5. QED
    BY <2>1, <2>2, <2>3, <2>4 DEF OutcomesStand
<1>2. QED
  BY <1>1, StandFacts, PTL

-----------------------------------------------------------------------------
(* The promise, step by step.                                              *)

\* What the promise sees of the job: the outcome of each phase, and of the result.
Pick(S) == IF S = {} THEN None ELSE CHOOSE o \in S : TRUE

Chosen == [p \in Phases |-> Pick(Selected(p))]

BoundTo(outcome) ==
    [p \in Phases |->
        IF \E s \in outcome.steps : s[1] = p THEN (CHOOSE s \in outcome.steps : s[1] = p)[2] ELSE None]

Bound == IF job.state # "completed" THEN None ELSE BoundTo(job.result.outcome)

LEMMA PickOne == Pick({}) = None /\ \A o : Pick({o}) = o
  BY DEF Pick

LEMMA PickSome ==
    ASSUME NEW S, S # {}
    PROVE  Pick(S) \in S
  BY DEF Pick

\* What is known of a phase is an outcome.
LEMMA KnownOutcome ==
    ASSUME StandInv, ~RefusalRetained, NEW p \in Phases, NEW o \in Known(p)
    PROVE  o \in Outcomes /\ o # None
  BY OutcomeAssumption DEF Values, StandInv, ExternalAgreed, Unrefused, ChildAgreed, Children, Out,
     Outcomes

\* The result binds what was chosen.
LEMMA BoundChosen ==
    ASSUME StandInv, ~RefusalRetained, NEW x \in Selected(Completion)
    PROVE  BoundTo(x) = Chosen
<1>2. x.steps = SelectedSteps
  BY CompletedResult
<1>3. ASSUME NEW p \in Phases
      PROVE  (IF \E s \in SelectedSteps : s[1] = p THEN (CHOOSE s \in SelectedSteps : s[1] = p)[2] ELSE None)
               = Chosen[p]
  <2>1. CASE Selected(p) = {}
    BY <2>1, PickOne DEF SelectedSteps, Chosen
  <2>2. ASSUME NEW o \in Selected(p)
        PROVE  (IF \E s \in SelectedSteps : s[1] = p THEN (CHOOSE s \in SelectedSteps : s[1] = p)[2] ELSE None)
                 = Chosen[p]
    <3>1. Selected(p) = {o}
      BY OneKnown DEF StandInv, Unrefused, Known
    <3>2. <<p, o>> \in SelectedSteps
      BY DEF SelectedSteps, Steps
    <3>3. \A s \in SelectedSteps : s[1] = p => s[2] = o
      BY <3>1 DEF SelectedSteps
    <3>4. Chosen[p] = o
      BY <3>1, PickOne DEF Chosen
    <3>5. (CHOOSE s \in SelectedSteps : s[1] = p) \in SelectedSteps
          /\ (CHOOSE s \in SelectedSteps : s[1] = p)[1] = p
      BY <3>2
    <3>6. QED
      BY <3>2, <3>3, <3>4, <3>5
  <2>3. QED
    BY <2>1, <2>2
<1>4. QED
  BY <1>2, <1>3 DEF BoundTo, Chosen

\* Same outcomes selected, same choice.
LEMMA SameChosen ==
    ASSUME \A p \in Phases : Selected(p)' = Selected(p)
    PROVE  Chosen' = Chosen
  BY DEF Chosen

\* A step in which no refusal is printed announces, selects, completes or does none of these.
LEMMA PromiseStep ==
    ASSUME OnceInv, StandInv, [Next]_vars, StandInv', ~RefusalRetained'
    PROVE  \/ UNCHANGED <<Announced, Chosen, Bound>>
           \/ /\ Bound = None /\ Announced # {} /\ (\A p \in Announced : Chosen[p] # None)
              /\ Bound' = Chosen /\ UNCHANGED <<Announced, Chosen>>
           \/ \E p \in Phases :
                 \/ /\ Bound = None /\ Announced' = Announced \cup {p}
                    /\ UNCHANGED <<Chosen, Bound>>
                 \/ /\ p \in Announced /\ Chosen[p] = None
                    /\ \E o \in Outcomes : Chosen' = [Chosen EXCEPT ![p] = o]
                    /\ UNCHANGED <<Announced, Bound>>
<1>1. Recorded /\ Monotone /\ Effect
  BY EveryStep DEF StandInv, StepFacts
<1>2. ~RefusalRetained /\ Unrefused
  BY <1>1 DEF Monotone, RefusalRetained, StandInv
<1>3. job' = job => Bound' = Bound
  BY DEF Bound
<1>4. SameJob => Bound' = Bound
  BY <1>3 DEF SameJob, Bound
<1>5. CASE Frame /\ SameJob
  BY <1>5, <1>4, SameChosen, PhaseTypes DEF Frame
<1>6. CASE Completes
  <2>1. Announced' = Announced /\ Chosen' = Chosen
    BY <1>6, SameChosen, PhaseTypes DEF Completes, Frame
  <2>2. /\ job.state # "completed" /\ job'.state = "completed"
        /\ job'.result.outcome \in Selected(Completion)
    BY <1>6 DEF Completes
  <2>3. Bound' = Chosen
    <3>1. PICK x : x = job'.result.outcome /\ x \in Selected(Completion)
      BY <2>2
    <3>2. BoundTo(x) = Chosen
      BY <1>2, <3>1, BoundChosen
    <3>3. QED
      BY <2>2, <3>1, <3>2 DEF Bound
  <2>4. Announced # {} /\ \A p \in Announced : Selected(p) # {}
    BY <1>2, <2>2, CompletedResult DEF IsResult
  <2>5. ASSUME NEW p \in Announced PROVE Chosen[p] # None
    BY <2>4, <1>2, AnnouncedRows, PickSome, KnownOutcome DEF Chosen, Known
  <2>6. QED
    BY <2>1, <2>2, <2>3, <2>4, <2>5 DEF Bound
<1>7. ASSUME NEW p \in 1..Completion, NEW o, Selects(p, o)
      PROVE  \/ UNCHANGED <<Announced, Chosen, Bound>>
             \/ /\ p \in Phases /\ p \in Announced /\ Chosen[p] = None
                /\ \E q \in Outcomes : Chosen' = [Chosen EXCEPT ![p] = q]
                /\ UNCHANGED <<Announced, Bound>>
  <2>1. UNCHANGED <<Announced, Bound>>
    BY <1>3, <1>7 DEF Selects
  <2>2. \A q \in Phases : Selected(q)' = IF q = p THEN Selected(q) \cup {o} ELSE Selected(q)
    BY <1>7, PhaseTypes DEF Selects
  <2>3. CASE p = Completion \/ o \in Selected(p)
    BY <2>2, <2>3, <2>1, SameChosen, ResultNoPhase
  <2>4. CASE p # Completion /\ o \notin Selected(p)
    <3>1. p \in Announced /\ p \in Phases /\ o \in Known(p)
      BY <1>7, <2>4, AnnouncedRows DEF Selects
    <3>2. Selected(p) = {}
      BY <1>2, <3>1, <2>4, OneKnown DEF StandInv, Unrefused, Known
    <3>3. o \in Outcomes
      BY <1>2, <3>1, KnownOutcome
    <3>4. Selected(p)' = {o} /\ \A q \in Phases : q # p => Selected(q)' = Selected(q)
      BY <2>2, <3>1, <3>2
    <3>5. Chosen' = [Chosen EXCEPT ![p] = o]
      BY <3>1, <3>4, PickOne DEF Chosen
    <3>6. Chosen[p] = None
      BY <3>1, <3>2, PickOne DEF Chosen
    <3>7. QED
      BY <2>1, <3>1, <3>3, <3>5, <3>6
  <2>5. QED
    BY <2>3, <2>4
<1>8. ASSUME NEW c \in Controller, NEW p \in Phases, Calls(c, p)
      PROVE  \/ UNCHANGED <<Announced, Chosen, Bound>>
             \/ /\ Bound = None /\ Announced' = Announced \cup {p}
                /\ UNCHANGED <<Chosen, Bound>>
  BY <1>3, <1>8, <1>1, <1>2, SameChosen, PhaseTypes, Ended DEF Calls, Recorded, Fits, Unrefused,
     OneResult, Known, StandInv, Bound
<1>9. QED
  BY <1>1, <1>5, <1>6, <1>7, <1>8 DEF Effect, Rests, Decides, Waits, Finishes, SameJob

\* The job implements the promise of every resumable job: what is selected is never replaced,
\* and the result binds the selected outcomes (_step announces before it runs, _publish_step
\* selects once, _publish_outcome completes), until a refusal is retained.
THEOREM PromiseKept == Spec => Implements
<1>1. Init => Promise!Init
  <2> SUFFICES ASSUME Init PROVE Promise!Init
    OBVIOUS
  <2>1. Announced = {} /\ \A p \in Phases : Selected(p) = {}
    BY PhaseTypes DEF Init, Announced, Selected, Receipts
  <2>2. job.state # "completed"
    BY DEF Init
  <2>3. QED
    BY <2>1, <2>2 DEF Promise!Init
<1>2. ASSUME OnceInv, StandInv, [Next]_vars, StandInv'
      PROVE  [Promise!Next \/ RefusalRetained']_Promise!vars
  <2> SUFFICES ASSUME ~RefusalRetained' PROVE [Promise!Next]_Promise!vars
    OBVIOUS
  <2>1. QED
    BY <1>2, PromiseStep
       DEF Promise!Next, Promise!vars, Promise!Announce, Promise!Select, Promise!Complete, Chosen, Bound, BoundTo, Pick
<1>3. QED
  BY <1>1, <1>2, StandFacts, PTL DEF Spec, Implements

-----------------------------------------------------------------------------
(* The source of a task, whatever its files (TaskSource).                  *)

IsMap(f) == f = [x \in DOMAIN f |-> f[x]]

\* An exception is no tree, and a tree has finitely many files.
RejectionIsApart == \A f : IsMap(f) => f # Rejection
Tree(t) == IsMap(t) /\ IsFiniteSet(DOMAIN t) /\ IsTree(t) /\ \A p \in DOMAIN t : t[p] # Rejection
Part(t, P) == [p \in P |-> t[p]]

\* A part of a tree is a tree.
LEMMA PartOfTree ==
    ASSUME NEW t, Tree(t), NEW P \in SUBSET DOMAIN t
    PROVE  Tree(Part(t, P)) /\ DOMAIN Part(t, P) = P
BY FS_Subset DEF Tree, Part, IsMap, IsTree

\* SetToSeq lists a finite set.
LEMMA Listed ==
    ASSUME NEW S, IsFiniteSet(S)
    PROVE  LET s == SetToSeq(S) IN
           /\ DOMAIN s = 1..Cardinality(S) /\ \A i \in DOMAIN s : s[i] \in S
           /\ \A i, j \in DOMAIN s : s[i] = s[j] => i = j
           /\ \A x \in S : \E i \in DOMAIN s : s[i] = x
<1> DEFINE n == Cardinality(S)
           s == SetToSeq(S)
<1>1. n \in Nat /\ \E g \in [1..n -> S] : IsInjective(g)
  BY FS_CardinalityType DEF ExistsBijection, Bijection, Injection
<1>2. s \in [1..n -> S] /\ IsInjective(s)
  BY <1>1 DEF SetToSeq
<1>3. s \in Injection(1..n, S)
  BY <1>2 DEF Injection
<1>4. Cardinality(1..n) = n
  BY <1>1, FS_Interval
<1>5. s \in Surjection(1..n, S)
  BY <1>3, <1>4, FS_Injection
<1> QED BY <1>2, <1>5 DEF IsInjective, Surjection

\* What was archived is read again (environments/archive.py, to_tar and read).
LEMMA ReadAgain ==
    ASSUME NEW t, Tree(t)
    PROVE  /\ Read(ToArchive(t)) = t
           /\ \A i \in DOMAIN ToArchive(t) : ToArchive(t)[i].kind = "file"
<1> DEFINE s == SetToSeq(DOMAIN t)
           m == ToArchive(t)
<1>1. /\ \A i \in DOMAIN s : s[i] \in DOMAIN t
      /\ \A i, j \in DOMAIN s : s[i] = s[j] => i = j
      /\ \A x \in DOMAIN t : \E i \in DOMAIN s : s[i] = x
  BY Listed DEF Tree
<1>2. m = [i \in DOMAIN s |-> [path |-> s[i], kind |-> "file", entry |-> t[s[i]]]]
  BY DEF ToArchive
<1>3. /\ DOMAIN m = DOMAIN s
      /\ \A i \in DOMAIN m : m[i].path = s[i] /\ m[i].kind = "file" /\ m[i].entry = t[s[i]]
  BY <1>2
<1> HIDE DEF s, m
<1> DEFINE files == {i \in DOMAIN m : m[i].kind = "file"}
<1>4. files = DOMAIN s
  BY <1>3
<1>5. /\ \A i \in DOMAIN m : Safe(m[i].path) /\ m[i].kind \in {"file", "directory"}
      /\ \A i, j \in DOMAIN m : m[i].path = m[j].path => i = j
      /\ \A i, j \in files : i # j => ~IsPrefix(m[i].path, m[j].path)
  BY <1>1, <1>3, <1>4 DEF Tree, IsTree
<1>6. {m[i].path : i \in files} = DOMAIN t
  <2>1. \A i \in files : m[i].path \in DOMAIN t
    BY <1>1, <1>3, <1>4
  <2>2. \A p \in DOMAIN t : \E i \in files : m[i].path = p
    BY <1>1, <1>3, <1>4
  <2> HIDE DEF files
  <2> QED BY <2>1, <2>2
<1>7. \A p \in DOMAIN t : m[CHOOSE i \in files : m[i].path = p].entry = t[p]
  BY <1>1, <1>3, <1>4
<1>8. Read(m) = [p \in {m[i].path : i \in files} |-> m[CHOOSE i \in files : m[i].path = p].entry]
  BY <1>5 DEF Read
<1> HIDE DEF files
<1>9. Read(m) = [p \in DOMAIN t |-> t[p]]
  BY <1>6, <1>7, <1>8
<1> QED BY <1>3, <1>9 DEF Tree, IsMap, m

\* What a change of a tree leaves of it.
LEMMA SavedIs ==
    ASSUME RejectionIsApart, NEW source, Tree(source), NEW exported, Tree(exported), NEW rules,
           NEW saved, saved = Saved(source, exported, rules), saved # Rejection
    PROVE  /\ Tree(saved) /\ rules.roots # {}
           /\ \A p \in Changed(saved, source) : MayChange(p, rules)
  BY PartOfTree DEF WithoutCache, Part, Saved, ChangesAllowed

\* A file that two saves changed was changed by one of them.
LEMMA ChangedOnce ==
    ASSUME NEW a, NEW b, NEW c
    PROVE  Changed(c, a) \subseteq Changed(b, a) \cup Changed(c, b)
BY DEF Changed, Entry

\* A file that may change is none of a cache.
LEMMA NoCacheChanges ==
    ASSUME NEW t, Tree(t), NEW baseline, Tree(baseline), NEW rules,
           \A p \in Changed(t, baseline) : MayChange(p, rules)
    PROVE  WithoutCache(t, baseline) = t
<1>1. \A p \in DOMAIN t : p \notin DOMAIN baseline => p \in Changed(t, baseline)
  BY DEF Changed, Entry, Tree
<1>2. \A p \in DOMAIN t : ~Transient(p, t[p], baseline)
  BY <1>1 DEF Transient, MayChange, Has
<1> QED BY <1>2 DEF WithoutCache, Tree, IsMap

\* Of what a session saved, whatever it ran and in how many saves, the submission is made
\* without an error, and the source that is graded is the one that was saved, byte for byte
\* (submission: from_saved, apply_delta, create, resolve).
THEOREM SubmissionsAreSaved ==
    ASSUME RejectionIsApart, NEW baseline, Tree(baseline), NEW rules,
           NEW exports, Tree(exports[1]), Tree(exports[2])
    PROVE  SubmissionIsSaved(baseline, exports, rules)
<1> DEFINE first == Saved(baseline, exports[1], rules)
           last == IF first = Rejection THEN Rejection ELSE Saved(first, exports[2], rules)
           delta == Delta(baseline, last)
<1> SUFFICES ASSUME last # Rejection
             PROVE  /\ Submit(baseline, last, rules) # Rejection
                    /\ ApplyDelta(baseline, Submit(baseline, last, rules), rules) = WithoutCache(last, baseline)
  BY DEF SubmissionIsSaved
<1>1. Tree(first) /\ \A p \in Changed(first, baseline) : MayChange(p, rules)
  BY SavedIs
<1>2. Tree(last) /\ rules.roots # {} /\ \A p \in Changed(last, first) : MayChange(p, rules)
  BY <1>1, SavedIs
<1>3. \A p \in Changed(last, baseline) : MayChange(p, rules)
  BY <1>1, <1>2, ChangedOnce
<1> HIDE DEF first, last
<1>4. WithoutCache(last, baseline) = last
  BY <1>2, <1>3, NoCacheChanges
<1> DEFINE touched == {q \in DOMAIN last : Entry(baseline, q) # last[q]}
           changes == Part(last, touched)
           gone == DOMAIN baseline \ DOMAIN last
<1>5. delta = [changes |-> ToArchive(changes), deletions |-> gone]
  BY <1>4 DEF Delta, Deletions, Part
<1>6. Tree(changes) /\ DOMAIN changes = touched
  BY <1>2, PartOfTree
<1>7. touched \cup gone \subseteq Changed(last, baseline)
  BY <1>2 DEF Changed, Entry, Tree
<1>8. WithoutCache(changes, baseline) = changes
  BY <1>3, <1>6, <1>7 DEF Transient, MayChange, Has, WithoutCache, Tree, IsMap
<1>9. Merge(baseline, changes, gone) = last
  <2>1. (DOMAIN baseline \ gone) \cup DOMAIN changes = DOMAIN last
    BY <1>2, <1>6 DEF Entry, Tree
  <2>2. \A p \in DOMAIN last :
           (IF p \in DOMAIN changes THEN changes[p] ELSE baseline[p]) = last[p]
    BY <1>2, <1>6 DEF Entry, Part, Tree
  <2> HIDE DEF changes, gone
  <2> QED BY <1>2, <2>1, <2>2 DEF Merge, Tree, IsMap
<1>10. Read(ToArchive(changes)) = changes /\ \A i \in DOMAIN ToArchive(changes) : ToArchive(changes)[i].kind = "file"
  BY <1>6, ReadAgain
<1>11. Read(ToArchive(last)) = last /\ last # Rejection /\ changes # Rejection
  BY <1>2, <1>6, ReadAgain, RejectionIsApart DEF Tree, RejectionIsApart
<1>12. \A p \in gone : p \in DOMAIN baseline /\ p \notin DOMAIN changes
  BY <1>6
<1> HIDE DEF changes, gone, touched
<1>13. ApplyDelta(baseline, delta, rules) = last
  BY <1>2, <1>3, <1>5, <1>6, <1>7, <1>8, <1>9, <1>10, <1>11, <1>12 DEF ApplyDelta, ChangesAllowed
<1>14. delta # Rejection
  BY <1>5 DEF IsMap, RejectionIsApart
<1> QED BY <1>4, <1>11, <1>13, <1>14 DEF Submit

\* What was captured was seen: of every command an outcome, of a test one that can be read.
LEMMA CapturedIs ==
    ASSUME RejectionIsApart, NEW modes, NEW outputs, DOMAIN outputs = DOMAIN modes, NEW role,
           NEW seen, seen = Captured(modes, outputs, role), seen # Rejection
    PROVE  /\ seen = [i \in DOMAIN modes |-> Observe(outputs[i])]
           /\ \A i \in DOMAIN modes : outputs[i].clean /\ seen[i] # Rejection
           /\ role = "reference" => \A i \in DOMAIN modes : modes[i] = "tests" => seen[i].exit = 0
  BY DEF Captured, Observe

\* A frozen reference passes its own validation; whoever does what the reference did is
\* rewarded, the baseline is not, and no failure of the machine is taken for an outcome
\* (verifiers: freeze_reference, validate_reference).
THEOREM ReferencesDecide ==
    ASSUME RejectionIsApart, NEW modes, NEW outputs, DOMAIN outputs.reference = DOMAIN modes,
           DOMAIN outputs.repeated = DOMAIN modes, DOMAIN outputs.baseline = DOMAIN modes
    PROVE  ReferenceDecides(modes, outputs)
<1> DEFINE expected == Captured(modes, outputs.reference, "reference")
           again == Captured(modes, outputs.repeated, "reference")
           before == Captured(modes, outputs.baseline, "baseline")
           proof == FreezeReference(modes, outputs)
           met == [i \in DOMAIN modes |-> Matches(modes[i], before[i], expected[i])]
           rewarded(seen) == \A i \in DOMAIN modes :
               seen[i] # Rejection /\ Matches(modes[i], seen[i], expected[i])
           observed(r) == [i \in DOMAIN modes |-> Observe(r[i])]
<1> SUFFICES ASSUME proof # Rejection
             PROVE  /\ ValidReference(modes, proof) /\ proof.expected = expected
                    /\ rewarded(observed(outputs.reference)) /\ rewarded(observed(outputs.repeated))
                    /\ ~rewarded(observed(outputs.baseline))
                    /\ \A i \in DOMAIN modes : outputs.baseline[i].clean /\ outputs.reference[i].clean
  BY DEF ReferenceDecides
<1>1. /\ expected # Rejection /\ again # Rejection /\ before # Rejection
      /\ Repeats(modes, again, expected) /\ ~Repeats(modes, before, expected)
      /\ proof = [expected |-> expected, repeated |-> again, baseline |-> before, matches |-> met]
  BY DEF FreezeReference
<1>2. /\ expected = observed(outputs.reference)
      /\ \A i \in DOMAIN modes : outputs.reference[i].clean /\ expected[i] # Rejection
      /\ \A i \in DOMAIN modes : modes[i] = "tests" => expected[i].exit = 0
  BY <1>1, CapturedIs
<1>3. again = observed(outputs.repeated) /\ \A i \in DOMAIN modes : again[i] # Rejection
  BY <1>1, CapturedIs
<1>4. before = observed(outputs.baseline) /\ \A i \in DOMAIN modes : outputs.baseline[i].clean
  BY <1>1, CapturedIs
<1> HIDE DEF expected, again, before, proof
<1>5. rewarded(expected) /\ rewarded(again) /\ ~rewarded(before)
  BY <1>1, <1>2, <1>3 DEF Repeats, Matches
<1>6. \E i \in DOMAIN modes : ~met[i]
  BY <1>1 DEF Repeats
<1>7. ValidReference(modes, proof)
  BY <1>1, <1>2, <1>6 DEF ValidReference, Repeats
<1> QED BY <1>1, <1>2, <1>3, <1>4, <1>5, <1>7

-----------------------------------------------------------------------------
(* What a contract rests on (Grounding).                                   *)

Evidence == INSTANCE Grounding

\* Where a source that the store confirms comes from.
LEMMA SourceIs ==
    ASSUME NEW held, NEW policy, NEW supplied, Evidence!Resolves(held, policy, supplied), NEW s \in supplied
    PROVE  /\ s.of = held.baseline =>
                s.text = Evidence!Excerpt(Evidence!Lines(Evidence!FileOf(held.source, s.locator.path)),
                                          s.locator.ranges)
           /\ s.of # held.baseline => s.text = held.texts[s.of]
           /\ s.role = "request" => s.text = held.texts[held.request]
<1> DEFINE spans == {t \in supplied : t.of = held.baseline}
           requests == {[id |-> t.id, path |-> t.locator.path, ranges |-> t.locator.ranges] : t \in spans}
           retrieved == IF spans = {} THEN {{}}
                        ELSE Evidence!Retrieve(policy, held.baseline, held.source, requests)
           text(q) == Evidence!Excerpt(Evidence!Lines(Evidence!FileOf(held.source, q.path)), q.ranges)
           span(q) == Evidence!Source(q.id, "baseline", held.baseline,
                                      [path |-> q.path, ranges |-> q.ranges], text(q), "existing_obligation")
<1>1. PICK again \in retrieved :
         supplied = again \cup UNION {Evidence!Expected(held, t) : t \in supplied \ spans}
  BY DEF Evidence!Resolves, Evidence!SameSources
<1>2. again \subseteq {span(q) : q \in requests}
  BY <1>1 DEF Evidence!Retrieve
<1> HIDE DEF retrieved, requests
<1>3. CASE s \in again
  <2>1. PICK q \in requests : s = span(q)
    BY <1>2, <1>3
  <2>2. /\ s.of = held.baseline /\ s.role = "baseline" /\ s.text = text(q)
        /\ s.locator.path = q.path /\ s.locator.ranges = q.ranges
    BY <2>1 DEF Evidence!Source
  <2> QED BY <2>2
<1>4. CASE s \notin again
  <2>1. PICK t \in supplied \ spans : s \in Evidence!Expected(held, t)
    BY <1>1, <1>4
  <2>2. /\ s.of = t.of /\ s.text = held.texts[t.of] /\ t.of # held.baseline
        /\ s.role = "request" => t.of = held.request
    BY <2>1 DEF Evidence!Expected, Evidence!Source
  <2> QED BY <2>2
<1> QED BY <1>3, <1>4

\* A finished contract rests on what the store shows: the request on record, quotes that are
\* where they are said to be, entry points that the installed baseline answered for
\* (requirements/evidence.py, finalize.py).
THEOREM ContractsAreGrounded ==
    ASSUME NEW profile, NEW answer, Evidence!Discovers(profile, answer, "completed"),
           NEW held, held.discovered = Evidence!Discovered(profile, answer, held.baseline),
           held.installed = profile.entries,
           NEW policy, NEW supplied, NEW inputs, NEW proposal
    PROVE  Evidence!ContractIsGrounded(held, policy, supplied, inputs, proposal)
<1> DEFINE parts == proposal.requirements \cup proposal.files \cup proposal.ambiguities
           request == {s \in supplied : s.role = "request"}
<1> SUFFICES ASSUME Evidence!Resolves(held, policy, supplied),
                    Evidence!Finalizes(held, inputs, supplied, proposal)
             PROVE  /\ inputs.request = held.texts[held.request]
                    /\ proposal.entries \subseteq held.installed
                    /\ \A r \in parts : \A e \in r.evidence :
                          Evidence!Holds(IF e.of = held.baseline
                                THEN Evidence!Excerpt(Evidence!Lines(Evidence!FileOf(held.source, e.locator.path)),
                                                      e.locator.ranges)
                                ELSE held.texts[e.of], e.quote)
  BY DEF Evidence!ContractIsGrounded
<1>1. request # {}
  <2>1. Evidence!Cardinality(request) = 1
    BY DEF Evidence!Finalizes
  <2>2. Cardinality(request) = 1
    BY <2>1 DEF Evidence!Cardinality, Cardinality, Evidence!IsFiniteSet, IsFiniteSet
  <2>3. Cardinality({}) # 1
    BY FS_EmptySet
  <2> HIDE DEF request
  <2> QED BY <2>2, <2>3, ZenonT(30)
<1>2. \A s \in request : s.text = inputs.request /\ s.text = held.texts[held.request]
  BY SourceIs DEF Evidence!Finalizes
<1>3. proposal.entries \subseteq held.installed
  BY DEF Evidence!Finalizes, Evidence!Discovered, Evidence!Discovers
<1>4. \A r \in parts : \A e \in r.evidence : Evidence!Links(e, supplied)
  BY DEF Evidence!Finalizes
<1>5. ASSUME NEW r \in parts, NEW e \in r.evidence
      PROVE  Evidence!Holds(IF e.of = held.baseline
                            THEN Evidence!Excerpt(Evidence!Lines(Evidence!FileOf(held.source, e.locator.path)),
                                                  e.locator.ranges)
                            ELSE held.texts[e.of], e.quote)
  <2>1. PICK s \in supplied : /\ s.of = e.of /\ s.locator = e.locator
                              /\ Evidence!Holds(s.text, e.quote)
    BY <1>4 DEF Evidence!Links
  <2> QED BY <2>1, SourceIs
<1> QED BY <1>1, <1>2, <1>3, <1>5

\* An operation: one that its limits refused left nothing; without an answer it has 0.
IsOperation(op) ==
    /\ op.worth \in {"accepted", "failed", "limited"}
    /\ op.worth = "limited" => op.usage = 0 /\ op.run = 0 /\ op.answer = 0

\* What the archives of an operation show of it.
LEMMA ArchiveShows ==
    ASSUME NEW op
    PROVE  LET a == Evidence!Archives(op) IN
           /\ DOMAIN a = IF op.worth = "limited" THEN Evidence!BeforeExecution ELSE Evidence!Full
           /\ a["attempt"].attempt = op.attempt /\ a["attempt"].call = op.call
           /\ a["cost"].usage = op.usage /\ a["cost"].run = op.run
           /\ op.worth # "limited" =>
                 /\ a["request"].call = op.call /\ a["schema"].call = op.call /\ a["retrieval"].call = op.call
                 /\ a["usage"].worth = op.worth /\ a["usage"].usage = op.usage
                 /\ a["events"].answer = op.answer /\ a["events"].usage = op.usage
                 /\ a["response"].answer = op.answer
  BY DEF Evidence!Archives, Evidence!Shows, Evidence!Full, Evidence!BeforeExecution

\* What an outcome whose tail is another's shows of both.
LEMMA OutcomeShows ==
    ASSUME NEW op, NEW archives, NEW other
    PROVE  LET o == [Evidence!Outcome(op, archives) EXCEPT !.answer = other.answer, !.usage = other.usage] IN
           /\ o.attempt = op.attempt /\ o.worth = op.worth /\ o.run = op.run /\ o.archives = archives
           /\ o.answer = other.answer /\ o.usage = other.usage
           /\ o.status.attempt = op.attempt /\ o.status.worth = op.worth /\ o.status.refs = Evidence!Archives(op)
  BY DEF Evidence!Outcome

\* What a call left in its archives is recovered, and what is recovered is of one operation:
\* its own archives, of this call, with the answer it gave (requirements/service.py:76).
THEOREM OutcomesAreTheCalls ==
    ASSUME NEW call, NEW ops, IsOperation(ops[1]), IsOperation(ops[2]), NEW mixed,
           NEW head \in {1, 2}, NEW tail \in {1, 2}
    PROVE  Evidence!RecoveredIsTheCalls(call, ops, mixed, head, tail)
<1> DEFINE own == Evidence!Archives(ops[head])
           others == Evidence!Archives(ops[3 - head])
           archives == [n \in DOMAIN own |-> IF n \in mixed /\ n \in DOMAIN others THEN others[n] ELSE own[n]]
           outcome == [Evidence!Outcome(ops[head], archives)
                          EXCEPT !.answer = ops[tail].answer, !.usage = ops[tail].usage]
<1> USE DEF IsOperation
<1>1. mixed = {} => archives = own
  BY DEF Evidence!Archives
<1>2. /\ outcome.attempt = ops[head].attempt /\ outcome.worth = ops[head].worth /\ outcome.run = ops[head].run
      /\ outcome.archives = archives /\ outcome.answer = ops[tail].answer /\ outcome.usage = ops[tail].usage
      /\ outcome.status.attempt = ops[head].attempt /\ outcome.status.worth = ops[head].worth
      /\ outcome.status.refs = own
  BY OutcomeShows
<1>3. /\ DOMAIN own = IF ops[head].worth = "limited" THEN Evidence!BeforeExecution ELSE Evidence!Full
      /\ own["attempt"].attempt = ops[head].attempt /\ own["attempt"].call = ops[head].call
      /\ own["cost"].usage = ops[head].usage /\ own["cost"].run = ops[head].run
      /\ ops[head].worth # "limited" =>
            /\ own["request"].call = ops[head].call /\ own["schema"].call = ops[head].call
            /\ own["retrieval"].call = ops[head].call
            /\ own["usage"].worth = ops[head].worth /\ own["usage"].usage = ops[head].usage
            /\ own["events"].answer = ops[head].answer /\ own["events"].usage = ops[head].usage
            /\ own["response"].answer = ops[head].answer
  BY ArchiveShows
<1>4. IsOperation(ops[head]) /\ Evidence!Full # Evidence!BeforeExecution
  BY DEF Evidence!Full, Evidence!BeforeExecution, Evidence!Shows
<1> HIDE DEF own, archives, outcome
<1>5. mixed = {} /\ head = tail /\ ops[head].call = call => Evidence!Recovers(call, outcome)
  BY <1>1, <1>2, <1>3, <1>4 DEF Evidence!Recovers, Evidence!Names
<1>6. Evidence!Recovers(call, outcome) =>
         /\ outcome.archives = own /\ ops[head].call = call
         /\ outcome.worth = "accepted" => outcome.answer = ops[head].answer
  BY <1>2, <1>3, <1>4 DEF Evidence!Recovers, Evidence!Names
<1> QED BY <1>5, <1>6 DEF Evidence!RecoveredIsTheCalls, own, archives, outcome
=============================================================================
