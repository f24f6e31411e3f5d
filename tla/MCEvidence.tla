----------------------------- MODULE MCEvidence -----------------------------
(***************************************************************************)
(* Small devices with enrollments and evidence collection for TLC.         *)
(***************************************************************************)
EXTENDS EvidenceProperties, TLC

CONSTANTS t1, t2, h1, h2, p1, p2, c1, n1, noNonce

OneThread    == t1 :> h1
OneProcess   == h1 :> p1
\* Two workers sharing a handle in one process.
SharedHandle == t1 :> h1 @@ t2 :> h1
=============================================================================
