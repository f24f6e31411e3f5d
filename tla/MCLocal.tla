------------------------------ MODULE MCLocal ------------------------------
(***************************************************************************)
(* Four local parts of the Windows client that share no state, each run by *)
(* itself in one of the behaviours: the log callback, the gathering of the *)
(* EK certificates, the analysis of the boot log, and the device's id.     *)
(***************************************************************************)
EXTENDS EkCertificates, BootLog, LogShim, DeviceIdentity, TLC

CONSTANTS main, worker, cb1, cb2, root, inter, big, oem, ms, ca, custom,
          rsaCert, eccCert

\* certificates smaller than a chunk, of one and of several chunks
MCCertSize == root :> 1 @@ inter :> 2 @@ big :> 5

Variable(v, certs, on, pcr, type) ==
  [pcr |-> pcr, type |-> type, var |-> v, certs |-> certs, on |-> on]
Other(type, pcr) == Variable("", {}, FALSE, pcr, type)
Config == "EV_EFI_VARIABLE_DRIVER_CONFIG"

MCEvents ==
  {Other(LegacyHeader, 0), Other(Malformed, 0),
   Other("EV_EFI_BOOT_SERVICES_APPLICATION", 4), Other("EV_IPL", 12), Other("EV_IPL", 8),
   Variable("SecureBoot", {}, TRUE, 7, Config), Variable("SecureBoot", {}, FALSE, 7, Config),
   Variable("PK", {oem}, FALSE, 7, Config), Variable("PK", {custom}, FALSE, 7, Config),
   Variable("PK", {}, FALSE, 7, Config),
   Variable("KEK", {ms}, FALSE, 7, Config), Variable("KEK", {ms}, FALSE, 5, Config),
   Variable("db", {ms, ca}, FALSE, 7, Config)}

VARIABLE part  \* the part that runs

LocalInit == LogInit /\ CertInit /\ BootInit /\ IdentityInit
             /\ part \in {"log", "certs", "boot", "identity"}

LocalNext ==
  /\ UNCHANGED part
  /\ \/ part = "log"   /\ LogNext  /\ UNCHANGED <<certVars, bootVars, identityVars>>
     \/ part = "certs" /\ CertNext /\ UNCHANGED <<logVars, bootVars, identityVars>>
     \/ part = "boot"  /\ BootNext /\ UNCHANGED <<logVars, certVars, identityVars>>
     \/ part = "identity" /\ IdentityNext /\ UNCHANGED <<logVars, certVars, bootVars>>

localVars == <<part, logVars, certVars, bootVars, identityVars>>

\* The gathering and the analysis are loops of one thread that nothing blocks.
LocalSpec ==
  /\ LocalInit /\ [][LocalNext]_localVars
  /\ WF_localVars(part = "certs" /\ CertStep /\ UNCHANGED <<part, logVars, bootVars, identityVars>>)
=============================================================================
