----------------------------- MODULE MCIdentity -----------------------------
(***************************************************************************)
(* The identity of one machine for TLC.                                    *)
(***************************************************************************)
EXTENDS DeviceIdentity

CONSTANTS rsaCert, eccCert
=============================================================================
