---------------------------- MODULE MCEnrollment ----------------------------
(***************************************************************************)
(* Small deployments of the SDK for TLC.                                   *)
(***************************************************************************)
EXTENDS EnrollmentProperties, TLC

CONSTANTS t1, t2, t3, h1, h2, h3, p1, p2

\* Two workers that share the one handle of their process, and a third with the
\* one handle of another process.
SharedAndOwn     == t1 :> h1 @@ t2 :> h1 @@ t3 :> h2
HandlePerProcess == h1 :> p1 @@ h2 :> p2
\* Two workers, each with a handle of its own, in one process.
HandlePerWorker  == t1 :> h1 @@ t2 :> h2
HandlesOfProcess == h1 :> p1 @@ h2 :> p1
\* The same, and a third worker in a process of its own.
HandlePerThread  == t1 :> h1 @@ t2 :> h2 @@ t3 :> h3
TwoAndOne        == h1 :> p1 @@ h2 :> p1 @@ h3 :> p2

WorkerSymmetry == Permutations({t1, t2})
=============================================================================
