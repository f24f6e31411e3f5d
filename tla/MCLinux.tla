------------------------------- MODULE MCLinux -------------------------------
(***************************************************************************)
(* Small instances of the Linux driver for TLC.                            *)
(***************************************************************************)
EXTENDS LinuxProperties, TLC

CONSTANTS chrome, firefox

\* Room for the three keys of a call, and for one session: other programs hold the
\* other slots of the TPM.
SmallTpm == "transient" :> 3 @@ "session" :> 1

BrowserSymmetry == Permutations({chrome, firefox})
=============================================================================
