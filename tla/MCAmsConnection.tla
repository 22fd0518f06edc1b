-------------------------- MODULE MCAmsConnection --------------------------
(* Instances of AmsConnection for TLC. *)
EXTENDS AmsConnection, TLC

CONSTANTS t1, t2, p1, p2

TwoThreads == {t1, t2}
OneThread == {t1}
TwoPorts == {p1, p2}
OnePort == {p1}

\* Threads and ports are interchangeable: no action or invariant names one.
Symmetry == Permutations({t1, t2}) \cup Permutations({p1, p2})

\* Ids a fresh slot may hold by accident; small ones, which get used.
InitialIdValues == {0, 2}

WireFaults == {"hangup", "unsent_write", "unknown_command"}
OrderlyFaults == {"hangup", "unsent_write", "unknown_command", "short_frame"}
LossyFaults == AllFaults \ {"short_body"}
MidFrameLoss == {"hangup_mid_frame"}
ShortBodies == {"short_body", "notification"}
=============================================================================
