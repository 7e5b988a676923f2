----------------------------- MODULE ToolGate ------------------------------
(***************************************************************************)
(* The human gate in front of critical tool calls                          *)
(* (services/hitl_gate_service.py): a call leaves a draft and waits for a  *)
(* future; decisions of humans, the timeout and the caller's own           *)
(* cancellation meet in the draft's record and in that future.             *)
(***************************************************************************)
EXTENDS Naturals

CONSTANTS
  Drafts,        \* bound: the drafts ever written
  MaxDecisions   \* bound: decisions humans ever take

ASSUME GateAssumption == MaxDecisions \in Nat

VARIABLES
  record,     \* status of each draft in action_drafts.json
  future,     \* of each call: open, set, or cancelled
  waiters,    \* drafts whose future decisions can find
  answer,     \* what the call came back with, or that it is out
  first,      \* history: the first decision of a human
  redecided,  \* history: decided again, or when the call had its answer
  decisions

gvars == <<record, future, waiters, answer, first, redecided, decisions>>

GInit ==
  /\ record = [d \in Drafts |-> "none"] /\ future = [d \in Drafts |-> "none"]
  /\ waiters = {} /\ answer = [d \in Drafts |-> "none"]
  /\ first = [d \in Drafts |-> "none"] /\ redecided = {} /\ decisions = 0

\* gate_tool_call, up to where it waits.
Ask(d) ==
  /\ record[d] = "none"
  /\ record' = [record EXCEPT ![d] = "pending"]
  /\ future' = [future EXCEPT ![d] = "open"] /\ waiters' = waiters \cup {d}
  /\ answer' = [answer EXCEPT ![d] = "asked"]
  /\ UNCHANGED <<first, redecided, decisions>>

Verdict(s) == IF s = "approved" THEN "allow" ELSE "reject"

\* What _resolve_draft does to the future, if it finds one that is open.
Sets(d, s) ==
  /\ waiters' = waiters \ {d}
  /\ future' = IF d \in waiters /\ future[d] = "open"
                 THEN [future EXCEPT ![d] = Verdict(s)] ELSE future

\* approve and reject: at any time, any number of times.
Decide(d, s) ==
  /\ decisions < MaxDecisions /\ decisions' = decisions + 1
  /\ record[d] # "none" /\ record' = [record EXCEPT ![d] = s]
  /\ Sets(d, s)
  /\ first' = [first EXCEPT ![d] = IF @ = "none" THEN s ELSE @]
  /\ redecided' = IF first[d] = "none" /\ answer[d] = "asked" THEN redecided
                  ELSE redecided \cup {d}
  /\ UNCHANGED answer

\* The call finds its future set.
Collect(d) ==
  /\ answer[d] = "asked" /\ future[d] \in {"allow", "reject"}
  /\ answer' = [answer EXCEPT ![d] = future[d]]
  /\ UNCHANGED <<record, future, waiters, first, redecided, decisions>>

\* Mutant: a decision that came with the timeout is returned after all.
times_out_late(d) ==
  /\ answer[d] = "asked"
  /\ future' = [future EXCEPT ![d] = IF @ = "open" THEN "cancelled" ELSE @]
  /\ \/ record' = [record EXCEPT ![d] = "timeout"] /\ waiters' = waiters \ {d}
     \/ UNCHANGED <<record, waiters>>
  /\ answer' = [answer EXCEPT ![d] =
                  IF future[d] = "allow" THEN "allow" ELSE "reject"]
  /\ UNCHANGED <<first, redecided, decisions>>

\* Mutant: the timeout is forgotten.
times_out_set(d) == Collect(d)

\* The timeout, which may come when the future has been set but the call has
\* not run yet: it still means reject, and its record replaces the decision's,
\* unless the file cannot be written.
TimesOut(d) ==
  /\ answer[d] = "asked"
  /\ future' = [future EXCEPT ![d] = IF @ = "open" THEN "cancelled" ELSE @]
  /\ \/ record' = [record EXCEPT ![d] = "timeout"] /\ waiters' = waiters \ {d}
     \/ UNCHANGED <<record, waiters>>
  /\ answer' = [answer EXCEPT ![d] = "reject"]
  /\ UNCHANGED <<first, redecided, decisions>>

\* The callers of these drafts are cancelled (a node's own timeout).
Drops(S) ==
  /\ \A d \in S : answer[d] = "asked"
  /\ answer' = [d \in Drafts |-> IF d \in S THEN "dropped" ELSE answer[d]]
  /\ future' = [d \in Drafts |->
                  IF d \in S /\ future[d] = "open" THEN "cancelled"
                  ELSE future[d]]
  /\ UNCHANGED <<record, waiters, first, redecided, decisions>>

\* The process dies: the file stays, futures and callers do not.
Lost ==
  /\ waiters' = {}
  /\ answer' = [d \in Drafts |->
                  IF answer[d] = "asked" THEN "dropped" ELSE answer[d]]
  /\ future' = [d \in Drafts |->
                  IF future[d] = "open" THEN "cancelled" ELSE future[d]]
  /\ UNCHANGED <<record, first, redecided, decisions>>

-----------------------------------------------------------------------------
GTypeOK ==
  /\ record \in
       [Drafts -> {"none", "pending", "approved", "rejected", "timeout"}]
  /\ future \in [Drafts -> {"none", "open", "allow", "reject", "cancelled"}]
  /\ answer \in [Drafts -> {"none", "asked", "allow", "reject", "dropped"}]
  /\ first \in [Drafts -> {"none", "approved", "rejected"}]
  /\ waiters \subseteq Drafts /\ redecided \subseteq Drafts
  /\ decisions \in 0..MaxDecisions

\* A call is allowed only if the first human who decided on its draft approved
\* it; no timeout, later decision or restart turns into an approval.
AllowedByApproval == \A d \in Drafts : answer[d] = "allow" => first[d] = "approved"

\* Whoever reads the drafts is not misled about what was executed: the record
\* of an allowed call says approved, unless somebody decided on it again or
\* after the call had its answer (_resolve_draft replaces any status).
AllowIsOnRecord ==
  \A d \in Drafts \ redecided : answer[d] = "allow" => record[d] = "approved"

\* No call waits for a human for ever: each gets an answer, at the latest by the
\* timeout (gate_tool_call).
EveryCallAnswered == \A d \in Drafts : []<>(answer[d] # "asked")
=============================================================================
