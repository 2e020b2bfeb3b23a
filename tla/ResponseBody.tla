---------------------------- MODULE ResponseBody ----------------------------
(***************************************************************************)
(* The body of one response (src/src/response.rs): hyper's Incoming, or    *)
(* H3ResponseBody (src/src/http3.rs) and the h3 stream it reads; and its   *)
(* reader, which is bytes_with_cap with its loop and the decoding behind   *)
(* it, or the caller itself when into_body handed the frames out.          *)
(*                                                                         *)
(* A poll is one step; between two polls the peer may do anything.  A drop *)
(* is a step per thing dropped: other threads drive the connection.  The   *)
(* state Ready(None) is left in the step that enters it.  Trailers, which  *)
(* hyper yields as a frame and the loop passes over, are left out.         *)
(***************************************************************************)
EXTENDS Naturals, SequencesExt

CONSTANTS Sizes,      \* how many bytes a DATA frame may carry
          MaxFrames,  \* bound: how many of them a body has
          Caps,       \* the caps passed to bytes_with_cap,
          Unlimited,  \*   among them usize::MAX
          NoCap       \* into_body: the caller reads frames as it likes

ASSUME SizeAssumption ==
  /\ Sizes \subseteq Nat /\ Caps \subseteq Nat /\ MaxFrames \in Nat
  /\ Unlimited \in Caps /\ NoCap \notin Nat

VARIABLES sent,    \* what arrived from the peer: its DATA frames, in order,
          fin,     \*   the end of its stream,
          broken,  \*   a reset or the loss of the connection
          state,   \* H3ResponseBody::state, whose stream is in Ready and Reading,
                   \*   or "incoming", a body of hyper's that has not ended
          owner,   \* whether H3ResponseBody::_sender is still held
          life,    \* how far the drop of the body has got
          cap,     \* max_wire_bytes, or NoCap
          read,    \* how many frames recv_data has taken off the stream
          got,     \* what the reader has of them
          result   \* what the reader has come to

peer == <<sent, fin, broken>>
vars == <<sent, fin, broken, state, owner, life, cap, read, got, result>>
-----------------------------------------------------------------------------
OnH3 == state \in {"ready", "reading"}

Streaming == OnH3 \/ state = "incoming"

Collecting == cap # NoCap

Bytes(frames) == FoldLeft(+, 0, frames)

\* A slip: the frame is let in if the buffer was not full before it.
FaultyFits(size) == cap = NoCap \/ Bytes(got) <= cap

\* new_total > max_bytes is BodyTooLarge.
Fits(size) == cap = NoCap \/ Bytes(Append(got, size)) <= cap

\* What the stream's recv_data() can be ready with: a stream whose connection
\* was closed, by either end, may fail at once, what had arrived or not.
HasFrame == Streaming /\ read < Len(sent)
HasEnd == Streaming /\ read = Len(sent) /\ fin
HasError == Streaming /\ (broken \/ (OnH3 /\ ~owner))

\* Response::new and Response::new_h3, with the response's head received.
Init ==
  /\ sent = <<>> /\ fin = FALSE /\ broken = FALSE
  /\ \/ state = "ready" /\ owner = TRUE
     \/ state = "incoming" /\ owner = FALSE
  /\ life = "alive"
  /\ cap \in Caps \cup {NoCap}
  /\ read = 0 /\ got = <<>> /\ result = "reading"

-----------------------------------------------------------------------------
(* The peer and the network *)

Send(size) ==
  /\ ~fin /\ ~broken /\ Len(sent) < MaxFrames
  /\ sent' = Append(sent, size)
  /\ UNCHANGED <<fin, broken, state, owner, life, cap, read, got, result>>

Finish ==
  /\ ~fin /\ ~broken
  /\ fin' = TRUE
  /\ UNCHANGED <<sent, broken, state, owner, life, cap, read, got, result>>

Break ==
  /\ ~broken
  /\ broken' = TRUE
  /\ UNCHANGED <<sent, fin, state, owner, life, cap, read, got, result>>

-----------------------------------------------------------------------------
(* poll_frame, and what the reader does with the result *)

\* h3's failures are all Cancelled, hyper's only if their message says so.
Failures == IF OnH3 THEN {"cancelled"} ELSE {"cancelled", "unreachable"}

\* The stream is put back when a frame has come.
AtRest == IF OnH3 THEN "ready" ELSE state

Polled ==
  /\ life = "alive" /\ result # "abandoned"
  /\ Collecting => result = "reading"

\* A slip: the frame that was handed out is not taken off the stream.
FaultyPollFrame ==
  /\ Polled /\ HasFrame
  /\ state' = AtRest
  /\ IF Fits(sent[read + 1])
       THEN got' = Append(got, sent[read + 1]) /\ UNCHANGED result
       ELSE result' = "too_large" /\ UNCHANGED got
  /\ UNCHANGED <<peer, owner, life, cap, read>>

PollFrame ==
  /\ Polled /\ HasFrame
  /\ state' = AtRest
  /\ read' = read + 1
  /\ IF Fits(sent[read + 1])
       THEN got' = Append(got, sent[read + 1]) /\ UNCHANGED result
       ELSE result' = "too_large" /\ UNCHANGED got
  /\ UNCHANGED <<peer, owner, life, cap>>

\* A slip: the future stays in place when it has ended.
FaultyPollEnd ==
  /\ Polled /\ HasEnd
  /\ state' = "reading"
  /\ UNCHANGED <<peer, owner, life, cap, read, got, result>>

PollEnd ==
  /\ Polled /\ HasEnd
  /\ state' = "done"
  /\ result' = "complete"
  /\ UNCHANGED <<peer, owner, life, cap, read, got>>

PollError ==
  /\ Polled /\ HasError
  /\ state' = "done"
  /\ result' \in Failures
  /\ UNCHANGED <<peer, owner, life, cap, read, got>>

Pending == OnH3 /\ ~HasFrame /\ ~HasEnd /\ ~HasError

\* A slip: the future is not kept over a pending poll, and the stream is lost
\* with it.
FaultyPollPending ==
  /\ Polled /\ Pending
  /\ state' = "done"
  /\ UNCHANGED <<peer, owner, life, cap, read, got, result>>

PollPending ==
  /\ Polled /\ Pending
  /\ state' = "reading"
  /\ UNCHANGED <<peer, owner, life, cap, read, got, result>>

\* A caller that polls on after the end, or an error, is told it has ended.
PollDone ==
  /\ Polled /\ state = "done"
  /\ result' = IF result = "reading" THEN "complete" ELSE result
  /\ UNCHANGED <<peer, state, owner, life, cap, read, got>>

Poll == PollFrame \/ PollEnd \/ PollError \/ PollPending \/ PollDone
-----------------------------------------------------------------------------
(* The body is dropped: with the collecting loop, by its cancellation, or by *)
(* the caller it was handed to.                                              *)

Abandon ==
  /\ life = "alive" /\ result = "reading"
  /\ result' = "abandoned"
  /\ UNCHANGED <<peer, state, owner, life, cap, read, got>>

\* Drop::drop, cancelling the stream only where it is at rest.
DropBody ==
  /\ life = "alive" /\ result # "reading"
  /\ life' = IF state = "ready" THEN "cancelled" ELSE "dropping"
  /\ UNCHANGED <<peer, state, owner, cap, read, got, result>>

\* A slip: the fields the other way round.
FaultyDropState ==
  /\ life \in {"cancelled", "dropping"} /\ state # "gone"
  /\ owner' = FALSE
  /\ state' = IF owner THEN state ELSE "gone"
  /\ UNCHANGED <<peer, life, cap, read, got, result>>

\* The fields are dropped in the order they are declared in: the state ...
DropState ==
  /\ life \in {"cancelled", "dropping"} /\ state # "gone"
  /\ state' = "gone"
  /\ UNCHANGED <<peer, owner, life, cap, read, got, result>>

\* ... and the last SendRequest, with which the connection is closed.
DropSender ==
  /\ state = "gone" /\ owner
  /\ owner' = FALSE
  /\ UNCHANGED <<peer, state, life, cap, read, got, result>>

-----------------------------------------------------------------------------
(* bytes_with_cap after its loop, and text and json                         *)

\* What decompress makes of the body, by its Content-Encoding.
Decompressed ==
  [identity |-> {"ok"}, gzip |-> {"ok", "decode_error"},
   deflate |-> {"ok", "decode_error"}, br |-> {"ok", "decode_error"},
   other |-> {"decode_error"}]

\* text and json read without a cap, as bytes does: what is no UTF-8, or no JSON
\* of the type asked for, cannot be decoded either.
Interpreted(bytes) == bytes \cup (IF cap = Unlimited THEN {"decode_error"} ELSE {})

\* Only when the loop has come to the end, and has let go of the body.
Decode ==
  /\ Collecting /\ state = "gone" /\ ~owner
  /\ result = "complete"
  /\ \E coding \in DOMAIN Decompressed : result' \in Interpreted(Decompressed[coding])
  /\ UNCHANGED <<peer, state, owner, life, cap, read, got>>

Answered ==
  result \notin {"reading", "complete"} \/ (~Collecting /\ result = "complete")

Terminated == state = "gone" /\ ~owner /\ Answered /\ UNCHANGED vars

Next ==
  \/ \E size \in Sizes : Send(size)
  \/ Finish \/ Break
  \/ Poll
  \/ Abandon \/ DropBody \/ DropState \/ DropSender
  \/ Decode
  \/ Terminated

Spec == Init /\ [][Next]_vars

\* A collecting task is polled when it has been woken, and a drop runs to its
\* end.  Nothing obliges the peer to do anything, or a caller of into_body.
FairSpec ==
  /\ Spec
  /\ WF_vars(Collecting /\ Poll)
  /\ WF_vars(Collecting /\ DropBody)
  /\ WF_vars(DropState)
  /\ WF_vars(DropSender)
  /\ WF_vars(Decode)
-----------------------------------------------------------------------------
(* Properties *)

TypeOK ==
  /\ sent \in Seq(Sizes) /\ Len(sent) <= MaxFrames
  /\ fin \in BOOLEAN /\ broken \in BOOLEAN /\ owner \in BOOLEAN
  /\ state \in {"ready", "reading", "incoming", "done", "gone"}
  /\ life \in {"alive", "cancelled", "dropping"}
  /\ cap \in Caps \cup {NoCap}
  /\ read \in 0..MaxFrames
  /\ got \in Seq(Sizes) /\ Len(got) <= MaxFrames
  /\ result \in {"reading", "complete", "too_large", "cancelled", "unreachable",
                 "abandoned", "ok", "decode_error"}

\* A body is never cut short in silence, over either transport: a reader that
\* is told it has come to the end, or whose bytes go on to be decoded, has every
\* frame the peer sent, in order, and the peer had ended its stream, whatever
\* was pending, broke or was polled again on the way.
CompleteIsWhole ==
  result \in {"complete", "ok", "decode_error"} => fin /\ got = sent

\* The connection is never closed from this end under a stream that can still
\* be read: a read that fails does so because of the peer or the network, and
\* the stream is gone before the last SendRequest is (CHANGELOG.md:20-27).
OwnerOutlivesStream ==
  /\ result \in {"cancelled", "unreachable"} => broken
  /\ ~owner => ~OnH3

\* What bytes_with_cap buffers never exceeds the cap, and no body that fits is
\* refused.
CapIsExact ==
  Collecting => /\ Bytes(got) <= cap
                /\ result = "too_large" => Bytes(sent) > cap

\* A body that is being collected is let go, its connection closed, and the
\* caller answered, once the peer has ended or broken its stream.
CollectedIsReleased ==
  Collecting /\ (fin \/ broken) ~> state = "gone" /\ ~owner /\ Answered

\* Error::Timeout: "The per-request timeout fired before the response (or one
\* of its body frames) arrived." (error.rs:21-22): a read does not wait for a
\* frame for ever.
BodyReadEnds == Collecting /\ result = "reading" ~> result # "reading"
=============================================================================
