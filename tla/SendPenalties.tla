---------------------------- MODULE SendPenalties ----------------------------
(***************************************************************************)
(* SendTimed with a history of the penalties: when each request last came  *)
(* out of insert_negative (src/src/request.rs), and whether it was called  *)
(* for a failed attempt or for a cancelled one.                            *)
(***************************************************************************)
EXTENDS SendTimed

VARIABLE penalty

NoPenalty == [cause |-> "none", at |-> 0]

Cause(r) ==
  IF cleanup[r].after \in {"https_rr", "start_tcp"} THEN "failure"
                                                    ELSE "cancellation"

PenaltyInit == Init /\ penalty = [r \in Requests |-> NoPenalty]

\* Whoever leaves insert_negative has imposed its penalty now.
RecordPenalty ==
  penalty' = [r \in Requests |->
                IF pc[r] = "evict_alt_svc" /\ pc'[r] # "evict_alt_svc"
                THEN [cause |-> Cause(r), at |-> clock] ELSE penalty[r]]

PenaltyNext == TimedNext /\ RecordPenalty

PenaltySpec == PenaltyInit /\ [][PenaltyNext]_<<vars, penalty>>
-----------------------------------------------------------------------------
(* Properties *)

\* r began after q's penalty and within the negative-cache duration of it.
InWindowOf(r, q) ==
  /\ penalty[q].cause # "none"
  /\ Origin(r) = Origin(q)
  /\ penalty[q].at < now[r]
  /\ now[r] < penalty[q].at + NegativeDuration

\* A cancelled attempt makes "later requests from the same client skip H3
\* for the negative-cache window".
CancellationSuppresses ==
  \A r, q \in Requests :
    InWindowOf(r, q) /\ penalty[q].cause = "cancellation" =>
      pc[r] # "connect"
=============================================================================
