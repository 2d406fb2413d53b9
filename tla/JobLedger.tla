----------------------------- MODULE JobLedger -----------------------------
(***************************************************************************)
(* What the controllers of one job share: its accounting rows in the       *)
(* registry, and how a call on the registry or the store ends.  A row is   *)
(* the sequence of its cumulative revisions, each a set of receipts        *)
(* (Registry.reconcile; the registry itself is Registry.tla).              *)
(***************************************************************************)
EXTENDS Naturals, Sequences

CONSTANTS Process,
          MaxFaults     \* calls that fail or whose answer is lost

VARIABLES rows, pc, faults

ledgerVars == <<rows, pc, faults>>

\* Receipts and row names are pairs: a kind and what tells two of the kind apart.
Receipt(kind, what) == <<kind, what>>

Newest(name) == IF rows[name] = <<>> THEN {} ELSE rows[name][Len(rows[name])]

At(p, label) == pc[p] = label
Goto(p, label) == pc' = [pc EXCEPT ![p] = label]

\* Revision n of a row is the one already recorded, or the next and cumulative.
Recorded(row, n, receipts) == n <= Len(row) /\ row[n] = receipts
Extends(row, n, receipts) ==
    /\ n = Len(row) + 1
    /\ n > 1 => row[n - 1] \subseteq receipts

\* The call of p went through and p goes on at ok; or it raised, done or not, and p
\* goes on at bad.
Call(p, done, same, ok, bad) ==
    \/ done /\ Goto(p, ok) /\ UNCHANGED faults
    \/ /\ faults < MaxFaults
       /\ faults' = faults + 1
       /\ done \/ same
       /\ Goto(p, bad)

\* reconcile of revision n of a row; refused when neither recorded nor the next one.
Observe(p, name, n, receipts, ok, bad) ==
    IF Recorded(rows[name], n, receipts)
    THEN Call(p, UNCHANGED rows, UNCHANGED rows, ok, bad)
    ELSE IF Extends(rows[name], n, receipts)
    THEN Call(p, rows' = [rows EXCEPT ![name] = Append(@, receipts)], UNCHANGED rows, ok, bad)
    ELSE Goto(p, bad) /\ UNCHANGED <<rows, faults>>
=============================================================================
