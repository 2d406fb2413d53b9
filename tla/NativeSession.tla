--------------------------- MODULE NativeSession ---------------------------
(***************************************************************************)
(* training/factory.py, NativeSessionFactory: the GPU session a claimed    *)
(* job owns.  Startup and shutdown are announced in the job's accounting   *)
(* before they happen and confirmed afterwards; a confirmation that fails  *)
(* is repeated without starting or closing anything again.                 *)
(*                                                                         *)
(* A session lives in the process that started it and dies with it.  The   *)
(* startup key is the claim's, so the first process to announce it owns    *)
(* it; an unpublished startup is closed under a key of its own.            *)
(***************************************************************************)
EXTENDS JobLedger

VARIABLES
    session,    \* per process: "none", "asked", "unpublished", "live", "closed", "released"
    noted,      \* the process's shutdown announcement went through (intent_recorded)
    aborting,   \* the process closes an unpublished startup
    started     \* sessions ever constructed for the claim

Startup == <<"startup", 0>>
Shutdown == <<"shutdown", 0>>
Abort == <<"abort", 0>>
SessionRows == {Startup, Shutdown, Abort}

sessionVars == <<session, noted, aborting, started>>

Holds(p) == session[p] \in {"unpublished", "live"}
Holders == {p \in Process : Holds(p)}

SessionInit ==
    /\ session = [p \in Process |-> "none"]
    /\ noted = [p \in Process |-> FALSE]
    /\ aborting = [p \in Process |-> FALSE]
    /\ started = 0

\* create: a key that was ever announced is not used again.
CheckKey(p) ==
    /\ At(p, "create")
    /\ session' = [session EXCEPT ![p] = "asked"]
    /\ Goto(p, IF rows[Startup] = <<>> THEN "announce startup" ELSE "startup failed")
    /\ UNCHANGED <<rows, faults, noted, aborting, started>>

\* The announcement names nothing but the configuration: whoever made it, it is the same.
AnnounceStartup(p) ==
    /\ At(p, "announce startup")
    /\ Observe(p, Startup, 1, {Receipt("configuration", 0)}, "construct", "startup failed")
    /\ UNCHANGED sessionVars

Construct(p) ==
    /\ At(p, "construct")
    /\ \/ /\ session' = [session EXCEPT ![p] = "unpublished"]
          /\ started' = started + 1
          /\ Goto(p, "publish startup")
       \/ /\ Goto(p, "startup failed")
          /\ UNCHANGED <<session, started>>
    /\ UNCHANGED <<rows, faults, noted, aborting>>

\* Mutant: the session is used before its startup is accounted for.
PublishStartupBestEffort(p) ==
    /\ At(p, "publish startup")
    /\ Observe(p, Startup, 2, {Receipt("configuration", 0), Receipt("startup", p)}, "startup done", "startup done")
    /\ session' = [session EXCEPT ![p] = "live"]
    /\ UNCHANGED <<noted, aborting, started>>

\* _finish_startup: the receipt is dated, so it is this session's own.
PublishStartup(p) ==
    /\ At(p, "publish startup")
    /\ Observe(p, Startup, 2, {Receipt("configuration", 0), Receipt("startup", p)}, "startup done", "startup failed")
    /\ session' = [session EXCEPT ![p] = IF pc'[p] = "startup done" THEN "live" ELSE @]
    /\ UNCHANGED <<noted, aborting, started>>

Key(p) == IF aborting[p] THEN Abort ELSE Shutdown
Subject(p) == IF aborting[p] THEN Receipt("configuration", 0) ELSE Receipt("startup", p)

\* _close: of what the process holds, or has closed and not confirmed.  A startup that
\* never came to a session leaves nothing to close: NativeStartupRecoveryRequired.
Close(p) ==
    /\ At(p, "close")
    /\ aborting' = [aborting EXCEPT ![p] = @ \/ session[p] = "unpublished"]
    /\ Goto(p, CASE session[p] = "asked"                -> "close failed"
                 [] session[p] \in {"none", "released"} -> "close done"
                 [] OTHER -> IF noted[p] /\ ~aborting'[p] THEN "close session" ELSE "announce shutdown")
    /\ UNCHANGED <<rows, faults, session, noted, started>>

\* A refused announcement does not keep the session from being closed.
AnnounceShutdown(p) ==
    /\ At(p, "announce shutdown")
    /\ Observe(p, Key(p), 1, {Subject(p)}, "close session", "close unannounced")
    /\ noted' = [noted EXCEPT ![p] = pc'[p] = "close session"]
    /\ UNCHANGED <<session, aborting, started>>

\* Closing a session that is closed already does nothing.
CloseSession(p) ==
    /\ pc[p] \in {"close session", "close unannounced"}
    /\ \/ /\ session' = [session EXCEPT ![p] = "closed"]
          /\ Goto(p, IF At(p, "close unannounced") THEN "close failed" ELSE "publish shutdown")
          /\ UNCHANGED faults
       \/ /\ faults < MaxFaults /\ faults' = faults + 1
          /\ Goto(p, "close failed") /\ UNCHANGED session
    /\ UNCHANGED <<rows, noted, aborting, started>>

PublishShutdown(p) ==
    /\ At(p, "publish shutdown")
    /\ Observe(p, Key(p), 2, {Subject(p), Receipt("shutdown", p)}, "close done", "close failed")
    /\ session' = [session EXCEPT ![p] = IF pc'[p] = "close done" THEN "released" ELSE @]
    /\ UNCHANGED <<noted, aborting, started>>

\* The shutdowns confirmed for the job.
Shutdowns == {k \in {Shutdown, Abort} : Len(rows[k]) = 2}
=============================================================================
