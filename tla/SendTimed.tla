------------------------------ MODULE SendTimed ------------------------------
(***************************************************************************)
(* Send under a scheduler that keeps up: the executor polls a task that is *)
(* ready before the clock moves on, and the timer of a tokio timeout fires *)
(* when it is due.  The steps are those of Send; only the passing of time  *)
(* is constrained.  Nothing is assumed of the network or of the callers.   *)
(***************************************************************************)
EXTENDS Send

Overdue(r) ==
  \/ pc[r] \in Synchronous
  \/ pc[r] \in H3Awaits \cup TcpAwaits /\ Elapsed(r)

\* Time passes only while every task waits for something that is not due.
PromptTick == (\A r \in Requests : ~Overdue(r)) /\ Tick

TimedNext == (\E r \in Requests : Step(r)) \/ PromptTick \/ Terminated

TimedSpec == Init /\ [][TimedNext]_vars

\* The executor runs a ready task and the client's own timers fire in the
\* end.  No answer of a server, call of send() or drop is promised.
Fairness ==
  /\ \A r \in Requests : WF_vars(Run(r)) /\ WF_vars(Expire(r))
  /\ WF_vars(PromptTick)

FairSpec == TimedSpec /\ Fairness
-----------------------------------------------------------------------------
(* Properties *)

Running(r) == pc[r] \notin {"new"} \cup Returned

\* The longest a call of send() may take: the HTTP/3 phase and the TCP phase
\* each run under a timeout of their own.
Budget(r) == IF UsesH3(job[r]) THEN Timeout(r) + Timeout(r) ELSE Timeout(r)

\* A request with a timeout is never out for longer than its budget: neither
\* the stale retry, the second route nor the cleanups extend it.
ReturnsWithinBudget ==
  \A r \in Requests :
    Running(r) /\ Timeout(r) # NoTimeout => clock <= now[r] + Budget(r)

\* A request with a timeout returns even if every peer is silent for good.
TimedRequestsReturn ==
  \A r \in Requests :
    /\ Running(r)
    /\ Timeout(r) # NoTimeout
    /\ now[r] + Budget(r) <= MaxTime
    ~> pc[r] \in Returned

\* What "per-request timeout" says: a request is out for at most its timeout.
ReturnsWithinTimeout ==
  \A r \in Requests :
    Running(r) /\ Timeout(r) # NoTimeout => clock <= now[r] + Timeout(r)
=============================================================================
