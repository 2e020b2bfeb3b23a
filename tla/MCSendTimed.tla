---------------------------- MODULE MCSendTimed ----------------------------
(* Small instances of SendTimed for TLC. *)
EXTENDS SendTimed, MCSend

\* With a timeout of its own over HTTP/3, with the default over TCP only.
TimedJobs == {Https(a, "empty", 1), Https(a, "streaming", NoTimeout)}
=============================================================================
