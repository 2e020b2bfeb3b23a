--------------------------- MODULE SendRefinement ---------------------------
(* Send implements SendContract: src/src/request.rs keeps its promise.     *)
EXTENDS Send

H3Steps == {"negative", "alt_svc", "https_rr", "lookup", "connect", "stream",
            "insert_negative", "evict_alt_svc", "elapsed"}

\* The stage a request is in, read off the step it is at.
StageOf(step) ==
  CASE step = "new" -> "new"
    [] step \in H3Steps -> "probing"
    [] step \in {"start_tcp", "tcp"} -> "connecting"
    [] step = "tcp_wait" -> "awaiting"
    [] OTHER -> step

Contract == INSTANCE SendContract
  WITH replayable <- [r \in Requests |-> job[r].body # "streaming"],
       stage <- [r \in Requests |-> StageOf(pc[r])],
       copies <- sent

\* Every behaviour of send(), whatever the caches hold, the other requests
\* do and the network answers, is one the contract allows.
KeepsContract == Contract!ContractSpec
=============================================================================
