----------------------------- MODULE BoundedProcess -----------------------------
(***************************************************************************)
(* The three runners of an outside command: generation/runner.py (the      *)
(* model's client), environments/docker.py stream_process (the docker      *)
(* client) and history/git.py (git).  Each starts the command in a process *)
(* group of its own, watches time and output, and must return whatever the *)
(* group does.                                                             *)
(***************************************************************************)
EXTENDS Naturals

CONSTANT Cap

Runners == {"generation", "docker", "git"}

\* leader: running, doomed (signalled), zombie or reaped; others: the descendants in the
\* group; written: what they wrote, Cap + 1 standing for anything over the cap; closed:
\* the leader has let go of its pipes; late: the deadline has passed.
VARIABLES runner, leader, status, others, written, closed, late,
          phase, read, termination, failures, verified

childVars == <<leader, status, others, written, closed>>
callVars == <<phase, read, termination, failures, verified>>
processVars == <<runner, late, childVars, callVars>>

Init ==
    /\ runner \in Runners
    /\ leader = "running" /\ status = "none" /\ others = "none" /\ written = 0
    /\ closed = FALSE /\ late = FALSE
    /\ phase = "watching" /\ read = 0 /\ termination = "exited"
    /\ failures = 0 /\ verified = FALSE

--------------------------------------------------------------------------
(* The command and its descendants. *)

Alive == leader \in {"running", "doomed"}
EndOfFile == (closed \/ ~Alive) /\ others = "none" /\ read = written

Fork ==
    /\ leader = "running" /\ others = "none" /\ others' = "live"
    /\ UNCHANGED <<leader, status, written, closed>>

Write ==
    /\ (leader = "running" /\ ~closed) \/ others = "live"
    /\ written < Cap + 1 /\ written' = written + 1
    /\ UNCHANGED <<leader, status, others, closed>>

ClosePipes ==
    /\ leader = "running" /\ ~closed /\ closed' = TRUE
    /\ UNCHANGED <<leader, status, others, written>>

Exit ==
    /\ leader = "running" /\ leader' = "zombie"
    /\ status' \in {"ok", "failed", "cpu"}
    /\ UNCHANGED <<others, written, closed>>

\* A signalled process dies when the system lets it: nothing says that it must.
Die ==
    /\ \/ leader = "doomed" /\ leader' = "zombie" /\ status' = "killed" /\ UNCHANGED others
       \/ others = "doomed" /\ others' = "none" /\ UNCHANGED <<leader, status>>
    /\ UNCHANGED <<written, closed>>

OthersExit ==
    /\ others = "live" /\ others' = "none"
    /\ UNCHANGED <<leader, status, written, closed>>

Child == (Fork \/ Write \/ ClosePipes \/ Exit \/ Die \/ OthersExit)
         /\ UNCHANGED <<runner, late, callVars>>

Time == ~late /\ late' = TRUE /\ UNCHANGED <<runner, childVars, callVars>>

--------------------------------------------------------------------------
(* Watching. *)

KillGroup ==
    /\ leader' = IF leader = "running" THEN "doomed" ELSE leader
    /\ others' = IF others = "live" THEN "doomed" ELSE others

Reap == leader' = IF leader = "zombie" THEN "reaped" ELSE leader

Stop(reason) == termination' = reason /\ phase' = "killing"

\* Mutant: the deadline is not looked at.
BreachOfCaps(reason) ==
    \/ runner = "generation" /\ written > Cap /\ reason = "output_cap"
    \/ runner = "generation" /\ reason \in {"memory_cap", "monitoring_failure", "interrupted"}
    \/ runner = "docker" /\ reason = "monitor"

\* What ends the watch of each runner besides the command's own end.
Breach(reason) ==
    \/ late /\ reason = "deadline"
    \/ runner = "generation" /\ written > Cap /\ reason = "output_cap"
    \/ runner = "generation" /\ reason \in {"memory_cap", "monitoring_failure", "interrupted"}
    \/ runner = "docker" /\ reason = "monitor"

Breached(reason) ==
    /\ phase = "watching" /\ Breach(reason) /\ Stop(reason)
    /\ failures' = IF reason \in {"monitoring_failure", "interrupted"} THEN 1 ELSE failures
    /\ UNCHANGED <<childVars, read, verified>>

\* The chunk that passes the cap ends the watch.
Read ==
    /\ phase = "watching" /\ runner # "generation" /\ read < written
    /\ read' = read + 1
    /\ IF read < Cap THEN UNCHANGED <<phase, termination>> ELSE Stop("output_cap")
    /\ UNCHANGED <<childVars, failures, verified>>

\* Mutant: the docker client's end is the end of its output.
EndedAtExit ==
    IF runner = "git" THEN EndOfFile /\ leader \in {"zombie", "reaped"}
    ELSE leader \in {"zombie", "reaped"}

\* The docker and git runners go on to the end of both pipes, then wait for the command;
\* the other writes to files and only waits.
Ended == leader \in {"zombie", "reaped"} /\ (runner # "generation" => EndOfFile)

Finish ==
    /\ phase = "watching" /\ Ended /\ Reap
    /\ Stop(termination)
    /\ UNCHANGED <<status, others, written, closed, read, failures, verified>>

--------------------------------------------------------------------------
(* Cleaning up: whatever ended the watch, the group is killed. *)

Kill ==
    /\ phase = "killing" /\ KillGroup /\ phase' = "waiting"
    /\ UNCHANGED <<status, written, closed, read, termination, failures, verified>>

\* The wait is bounded: it reaps the command, or fails.
Wait ==
    /\ phase = "waiting"
    /\ IF leader = "doomed" THEN termination' = "cleanup_failure" /\ UNCHANGED leader
       ELSE Reap /\ UNCHANGED termination
    /\ phase' = "checking"
    /\ UNCHANGED <<status, others, written, closed, read, failures, verified>>

\* Mutant: a command that was reaped took its group with it.
LeaderGone == leader = "reaped"

\* The whole group is asked for; the docker runner does not ask.
GroupAbsent == leader = "reaped" /\ (runner # "docker" => others = "none")

\* A group still there is killed once more; git asks until its time is up.
Check ==
    /\ phase = "checking" /\ verified' = GroupAbsent
    /\ IF GroupAbsent THEN UNCHANGED <<leader, others, termination>>
       ELSE /\ KillGroup /\ termination' = "cleanup_failure"
    /\ phase' = "collecting"
    /\ UNCHANGED <<status, written, closed, read, failures>>

\* The files are read after the group is gone; a cpu signal tells over every other end.
Collect ==
    /\ phase = "collecting" /\ phase' = "returned"
    /\ read' = IF runner = "generation" THEN written ELSE read
    /\ termination' = IF runner # "generation" THEN termination
                      ELSE IF leader = "reaped" /\ status = "cpu" THEN "cpu_cap"
                      ELSE IF written > Cap THEN "output_cap" ELSE termination
    /\ UNCHANGED <<childVars, failures, verified>>

Watcher == (Breached("deadline") \/ Read \/ Finish \/ Kill \/ Wait \/ Check \/ Collect)
           /\ UNCHANGED <<runner, late>>

Mishap == (\E reason \in {"output_cap", "memory_cap", "monitoring_failure", "interrupted", "monitor"} :
              Breached(reason))
          /\ UNCHANGED <<runner, late>>

Next == Child \/ Time \/ Watcher \/ Mishap

\* The runner's own steps and the clock go on; the command owes nothing.
Spec == Init /\ [][Next]_processVars /\ WF_processVars(Watcher) /\ WF_processVars(Time)

--------------------------------------------------------------------------

\* What the caller takes for a completed command (provider.py run, docker.py checked,
\* git.py _run_bytes): the provider asks for the monitor and the group as well.
Accepted ==
    /\ phase = "returned" /\ termination = "exited" /\ status = "ok" /\ leader = "reaped"
    /\ runner = "generation" => failures = 0 /\ verified
    /\ runner = "git" => verified

\* An accepted command ended by itself, all it wrote was read and no more than the cap,
\* and for the provider and for git none of its group is left to write again.
AcceptedIsWhole ==
    Accepted => /\ status = "ok" /\ read = written /\ written <= Cap
                /\ runner # "docker" => others = "none"

\* The call returns (runner.py run, docker.py stream_process, git.py _run_bytes), even for
\* a group that ignores the signals and holds the pipes.
Returns == <>(phase = "returned")
=============================================================================
