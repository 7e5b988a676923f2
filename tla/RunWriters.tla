----------------------------- MODULE RunWriters -----------------------------
(***************************************************************************)
(* PurgeService, which deletes the event log of a run before it rewrites   *)
(* the base, composed with the calls of RunStore.                          *)
(***************************************************************************)
EXTENDS RunStore

\* purge_run first unlinks the events.  discard_run has made sure the run it
\* read, log replayed, is terminal; only its identity and status survive.
PurgeEvents ==
  /\ pc = "idle" /\ Readable /\ Current.status \in TERMINAL_RUN_STATUSES
  /\ log' = << >>
  /\ pc' = "unlink logs"
  /\ image' = [NewRecord EXCEPT !.status = Current.status] /\ then' = "idle"
  /\ UNCHANGED <<base, crashes>>

\* It then unlinks the logs and goes on to overwrite the base.
PurgeLogs == /\ pc = "unlink logs" /\ pc' = "open"
             /\ UNCHANGED <<base, log, image, then, crashes>>

SpecPurge == Init /\ [][Next \/ PurgeEvents \/ PurgeLogs]_vars

-----------------------------------------------------------------------------
\* A purge that stops half way, because the process dies or the logs cannot
\* be deleted, leaves the run with the outcome it had ("retain minimal
\* terminal metadata only", "fail closed on partial purge",
\* services/purge_service.py).
PurgeKeepsOutcome ==
  [][ (pc = "unlink logs" /\ pc' = "idle") => Current'.status = image.status ]_vars
=============================================================================
