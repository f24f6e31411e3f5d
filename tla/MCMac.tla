-------------------------------- MODULE MCMac --------------------------------
(***************************************************************************)
(* Small instances of the macOS driver for TLC.                            *)
(***************************************************************************)
EXTENDS MacProperties

CONSTANTS chrome, firefox
=============================================================================
