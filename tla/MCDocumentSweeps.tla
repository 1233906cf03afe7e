-------------------------- MODULE MCDocumentSweeps --------------------------
(* An instance of DocumentSweeps for TLC. *)
EXTENDS DocumentSweeps, TLC

CONSTANTS k1, w1, w2

\* The first paper may be any of those that fail in some way; the second is
\* one that can be read.
TwoPapers ==
    <<{"photo", "stubborn", "unreachable", "garbled"},
      {"text", "scan", "rejected"}>>

\* Both places on one replica: what overlaps shares its backoff.
OneReplica == w1 :> k1 @@ w2 :> k1

TwoWindows == <<2, 4>>
=============================================================================
