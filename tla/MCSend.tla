------------------------------- MODULE MCSend -------------------------------
(* Small instances of Send for TLC. *)
EXTENDS Send, TLC

CONSTANTS a, b   \* two origins

Https(o, body, timeout) == [valid |-> TRUE, scheme |-> "https", origin |-> o,
                            body |-> body, timeout |-> timeout]

Http(o) == [Https(o, "empty", NoTimeout) EXCEPT !.scheme = "http"]

Invalid(o) == [Https(o, "empty", NoTimeout) EXCEPT !.valid = FALSE]

\* Two kinds of request to one origin that may use HTTP/3, with and without
\* a timeout.
H3Jobs == {Https(a, "empty", NoTimeout), Https(a, "replayable", 1)}

\* Requests to two origins that may use HTTP/3, and one of each kind that
\* may not.
MixedJobs == {Https(a, "empty", NoTimeout), Https(b, "empty", NoTimeout),
              Https(a, "streaming", NoTimeout), Http(a), Invalid(a)}

\* One kind, without a timeout.
PlainJobs == {Https(a, "empty", NoTimeout)}

Symmetry == Permutations(Requests)
=============================================================================
