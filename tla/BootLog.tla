------------------------------ MODULE BootLog ------------------------------
(***************************************************************************)
(* The measured-boot part of RootHeraldCollectLocalPosture                 *)
(* (rootherald_win.cpp): ReadEventLog (event_log.cpp),                     *)
(* ParseAndAnalyzeEventLog (event_log_parser.cpp) and                      *)
(* ValidateSecureBootChain (secureboot_validator.cpp).                     *)
(*                                                                         *)
(* An event of the log is a record: its PCR, its type, and for an EFI      *)
(* variable the name of the variable, the certificates of its signature    *)
(* list and whether its value is 1.  An event that cannot be read (it ends *)
(* after the log, has more than 8 digests, or one of an unknown algorithm) *)
(* has the type Malformed.  The code parses the same bytes twice; here     *)
(* both uses share one parse.                                              *)
(***************************************************************************)
EXTENDS Integers, Sequences, FiniteSets

CONSTANTS
  Subjects,      \* certificates of signature lists that can be decoded
  OemCerts,      \* those whose subject or issuer names a known vendor
  MicrosoftCerts,
  UefiCaCerts,   \* Microsoft's UEFI CA of 2011 or 2023
  LogEvents,     \* events that a log may hold
  MaxEvents      \* bound: events of a log

Malformed    == "malformed"
LegacyHeader == "Spec ID Event"

\* "Microsoft" is itself one of KNOWN_OEM_NAMES.
ASSUME BootConstants ==
  /\ MicrosoftCerts \subseteq OemCerts /\ OemCerts \subseteq Subjects
  /\ UefiCaCerts \subseteq Subjects
  /\ LogEvents \subseteq [pcr : 0..23, type : STRING, var : STRING,
                          certs : SUBSET Subjects, on : BOOLEAN]
  /\ MaxEvents \in Nat

VARIABLES
  bpc,       \* where the call is, "idle" outside
  rawLog,
  at,        \* the event of rawLog parsed next
  analysis,  \* EventLogAnalysis
  checked,   \* entries of the analysis that the validator went through
  report,    \* SecureBootChainReport
  posture    \* the fields of RootHeraldPosture that come from the log

bootVars == <<bpc, rawLog, at, analysis, checked, report, posture>>

EmptyAnalysis ==
  [entries |-> <<>>, secureBootEnabled |-> FALSE,
   verified |-> 0, policy |-> 0, unknown |-> 0, verdict |-> ""]
EmptyReport ==
  [pkCerts |-> {}, pkIsKnownOem |-> FALSE, kekHasMicrosoft |-> FALSE,
   dbHasMicrosoftUefiCa |-> FALSE, chainValid |-> FALSE, verdict |-> ""]
Undetermined == -1
NoPosture == [secure_boot |-> Undetermined, oem_keyed |-> Undetermined,
              measurements |-> Undetermined]

BootInit ==
  /\ bpc = "idle"
  /\ rawLog = <<>> /\ at = 1
  /\ analysis = EmptyAnalysis
  /\ checked = 0 /\ report = EmptyReport
  /\ posture = NoPosture

-----------------------------------------------------------------------------
(* ReadEventLog: the log that the firmware left, or nothing. *)

ReadEventLog ==
  /\ bpc = "idle"
  /\ \E n \in 0..MaxEvents : rawLog' \in [1..n -> LogEvents]
  \* a legacy header is stepped over, an empty log ends the call
  /\ at' = IF rawLog' # <<>> /\ rawLog'[1].type = LegacyHeader THEN 2 ELSE 1
  /\ bpc' = IF rawLog' = <<>> THEN "done" ELSE "parse"
  /\ UNCHANGED <<analysis, checked, report, posture>>

-----------------------------------------------------------------------------
(* ParseAndAnalyzeEventLog. *)

VariableTypes == {"EV_EFI_VARIABLE_DRIVER_CONFIG", "EV_EFI_VARIABLE_BOOT",
                  "EV_EFI_VARIABLE_BOOT2"}
PolicyTypes == VariableTypes \cup
  {"EV_SEPARATOR", "EV_EFI_ACTION", "EV_EFI_VARIABLE_AUTHORITY", "EV_EFI_GPT_EVENT",
   "EV_NO_ACTION", "EV_EFI_HANDOFF_TABLES", "EV_EFI_HANDOFF_TABLES2",
   "EV_PLATFORM_CONFIG_FLAGS"}
VerifiedTypes ==
  {"EV_EFI_BOOT_SERVICES_APPLICATION", "EV_EFI_BOOT_SERVICES_DRIVER",
   "EV_EFI_PLATFORM_FIRMWARE_BLOB", "EV_EFI_PLATFORM_FIRMWARE_BLOB2",
   "EV_S_CRTM_VERSION", "EV_POST_CODE", "EV_S_CRTM_CONTENTS", "EV_CPU_MICROCODE",
   "EV_COMPACT_HASH", "EV_EFI_RUNTIME_SERVICES_DRIVER"}

\* Other events of PCRs 11 to 14 are measurements of Windows.
Classification(e) ==
  IF e.type \in PolicyTypes THEN "policy"
  ELSE IF e.type \in VerifiedTypes \/ e.pcr \in 11..14 THEN "verified"
  ELSE "unknown"

\* A legacy header that is not the first event reads as a malformed one.
Readable(i) == i <= Len(rawLog) /\ rawLog[i].type \notin {Malformed, LegacyHeader}

CountIf(b) == IF b THEN 1 ELSE 0

\* Mutant: Secure Boot stays on once an event said so.
ParseEvent_StickySecureBoot ==
  /\ bpc = "parse" /\ Readable(at)
  /\ LET e == rawLog[at]
     IN  analysis' =
           [analysis EXCEPT
              !.entries  = Append(@, e),
              !.verified = @ + CountIf(Classification(e) = "verified"),
              !.policy   = @ + CountIf(Classification(e) = "policy"),
              !.unknown  = @ + CountIf(Classification(e) = "unknown"),
              !.secureBootEnabled =
                @ \/ (e.type \in VariableTypes /\ e.var = "SecureBoot" /\ e.on)]
  /\ at' = at + 1
  /\ UNCHANGED <<bpc, rawLog, checked, report, posture>>

ParseEvent ==
  /\ bpc = "parse" /\ Readable(at)
  /\ LET e == rawLog[at]
     IN  analysis' =
           [analysis EXCEPT
              !.entries  = Append(@, e),
              !.verified = @ + CountIf(Classification(e) = "verified"),
              !.policy   = @ + CountIf(Classification(e) = "policy"),
              !.unknown  = @ + CountIf(Classification(e) = "unknown"),
              !.secureBootEnabled =
                IF e.type \in VariableTypes /\ e.var = "SecureBoot" THEN e.on ELSE @]
  /\ at' = at + 1
  /\ UNCHANGED <<bpc, rawLog, checked, report, posture>>

\* The first event that cannot be read ends the parse, without a word; nothing
\* counts as revoked.
ParseDone ==
  /\ bpc = "parse" /\ ~Readable(at)
  /\ analysis' = [analysis EXCEPT !.verdict =
                    IF ~analysis.secureBootEnabled THEN "FAIL"
                    ELSE IF analysis.unknown = 0 THEN "PASS" ELSE "WARNING"]
  /\ bpc' = "validate"
  /\ UNCHANGED <<rawLog, at, checked, report, posture>>

-----------------------------------------------------------------------------
(* ValidateSecureBootChain. *)

KeyVariable(e) == /\ e.pcr = 7
                  /\ e.type \in {"EV_EFI_VARIABLE_DRIVER_CONFIG", "EV_EFI_VARIABLE_BOOT"}

\* Mutant: the variables are read from every PCR.
ValidateEntry_AnyPcr ==
  /\ bpc = "validate" /\ checked < Len(analysis.entries)
  /\ LET e == analysis.entries[checked + 1]
         key(v) == e.type \in VariableTypes /\ e.var = v
     IN  report' = [report EXCEPT
           !.pkCerts = IF key("PK") THEN e.certs ELSE @,
           !.pkIsKnownOem = @ \/ (key("PK") /\ e.certs \cap OemCerts # {}),
           !.kekHasMicrosoft = @ \/ (key("KEK") /\ e.certs \cap MicrosoftCerts # {}),
           !.dbHasMicrosoftUefiCa = @ \/ (key("db") /\ e.certs \cap UefiCaCerts # {})]
  /\ checked' = checked + 1
  /\ UNCHANGED <<bpc, rawLog, at, analysis, posture>>

\* The certificates are those of the last event; the flags, once set, stay.
ValidateEntry ==
  /\ bpc = "validate" /\ checked < Len(analysis.entries)
  /\ LET e == analysis.entries[checked + 1]
         key(v) == KeyVariable(e) /\ e.var = v
     IN  report' = [report EXCEPT
           !.pkCerts = IF key("PK") THEN e.certs ELSE @,
           !.pkIsKnownOem = @ \/ (key("PK") /\ e.certs \cap OemCerts # {}),
           !.kekHasMicrosoft = @ \/ (key("KEK") /\ e.certs \cap MicrosoftCerts # {}),
           !.dbHasMicrosoftUefiCa = @ \/ (key("db") /\ e.certs \cap UefiCaCerts # {})]
  /\ checked' = checked + 1
  /\ UNCHANGED <<bpc, rawLog, at, analysis, posture>>

Validated == bpc = "validate" /\ checked = Len(analysis.entries)

ChainVerdict ==
  /\ Validated
  /\ LET errors == \/ ~analysis.secureBootEnabled \/ report.pkCerts = {}
                   \/ ~report.kekHasMicrosoft \/ ~report.dbHasMicrosoftUefiCa
     IN  report' = [report EXCEPT
           !.chainValid = ~errors,
           !.verdict = IF errors THEN "FAIL"
                       ELSE IF report.pkIsKnownOem THEN "PASS" ELSE "WARNING"]
  /\ bpc' = "report"
  /\ UNCHANGED <<rawLog, at, analysis, checked, posture>>

-----------------------------------------------------------------------------
(* The posture. *)

\* Mutant: the measurements are counted from the place in the log.
Report_CountsPlace ==
  /\ bpc = "report"
  /\ posture' = [secure_boot |-> IF analysis.secureBootEnabled THEN 1 ELSE 0,
                 oem_keyed |-> IF report.pkIsKnownOem THEN 1 ELSE 0,
                 measurements |-> at]
  /\ bpc' = "done"
  /\ UNCHANGED <<rawLog, at, analysis, checked, report>>

\* Mutant: the Secure Boot field comes from the verdict of the chain.
Report_ByVerdict ==
  /\ bpc = "report"
  /\ posture' = [secure_boot |-> IF report.verdict = "FAIL" THEN 0 ELSE 1,
                 oem_keyed |-> IF report.pkIsKnownOem THEN 1 ELSE 0,
                 measurements |-> Len(analysis.entries)]
  /\ bpc' = "done"
  /\ UNCHANGED <<rawLog, at, analysis, checked, report>>

Report ==
  /\ bpc = "report"
  /\ posture' = [secure_boot |-> IF analysis.secureBootEnabled THEN 1 ELSE 0,
                 oem_keyed |-> IF report.pkIsKnownOem THEN 1 ELSE 0,
                 measurements |-> Len(analysis.entries)]
  /\ bpc' = "done"
  /\ UNCHANGED <<rawLog, at, analysis, checked, report>>

\* The posture goes to the caller; everything was local to the call.
PostureTaken ==
  /\ bpc = "done" /\ bpc' = "idle"
  /\ rawLog' = <<>> /\ at' = 1 /\ analysis' = EmptyAnalysis
  /\ checked' = 0 /\ report' = EmptyReport /\ posture' = NoPosture

BootStep == \/ ParseEvent \/ ParseDone \/ ValidateEntry \/ ChainVerdict
            \/ Report \/ PostureTaken
BootNext == ReadEventLog \/ BootStep

BootSpec == BootInit /\ [][BootNext]_bootVars

-----------------------------------------------------------------------------
(* What a log says, from the log alone: only what comes before the first  *)
(* event that cannot be read is counted.                                  *)

FirstEvent == IF rawLog # <<>> /\ rawLog[1].type = LegacyHeader THEN 2 ELSE 1
ReadSet    == {i \in FirstEvent..Len(rawLog) : \A j \in FirstEvent..i : Readable(j)}

Classified(c) == {i \in ReadSet : Classification(rawLog[i]) = c}

SecureBootEvent(i) == rawLog[i].type \in VariableTypes /\ rawLog[i].var = "SecureBoot"
PkEvent(i)         == KeyVariable(rawLog[i]) /\ rawLog[i].var = "PK"

\* The last event about Secure Boot, of any PCR, says that it is on.
SecureBootOn ==
  \E i \in ReadSet : /\ SecureBootEvent(i) /\ rawLog[i].on
                     /\ \A j \in ReadSet : j > i => ~SecureBootEvent(j)

\* The last platform key in the log has a certificate that can be decoded.
PlatformKey ==
  \E i \in ReadSet : /\ PkEvent(i) /\ rawLog[i].certs # {}
                     /\ \A j \in ReadSet : j > i => ~PkEvent(j)

KeyHolds(v, certs) ==
  \E i \in ReadSet : /\ KeyVariable(rawLog[i]) /\ rawLog[i].var = v
                     /\ rawLog[i].certs \cap certs # {}

-----------------------------------------------------------------------------
\* The type of the variables.
BootTypeOK ==
  /\ bpc \in {"idle", "parse", "validate", "report", "done"}
  /\ \A i \in 1..Len(rawLog) : rawLog[i] \in LogEvents
  /\ at \in 1..(MaxEvents + 2)
  /\ {analysis.verified, analysis.policy, analysis.unknown} \subseteq 0..MaxEvents
  /\ analysis.verdict \in {"", "PASS", "WARNING", "FAIL"}
  /\ checked \in 0..Len(analysis.entries)
  /\ report.pkCerts \subseteq Subjects
  /\ report.verdict \in {"", "PASS", "WARNING", "FAIL"}
  /\ posture.secure_boot \in -1..1 /\ posture.oem_keyed \in -1..1
  /\ posture.measurements \in -1..MaxEvents

\* A parse that is over has counted each event before the first that cannot be
\* read, once and in one class, and goes by the last word on Secure Boot.
AnalysisMatchesLog ==
  bpc \in {"validate", "report"} =>
    /\ Len(analysis.entries) = Cardinality(ReadSet)
    /\ analysis.verified = Cardinality(Classified("verified"))
    /\ analysis.policy   = Cardinality(Classified("policy"))
    /\ analysis.unknown  = Cardinality(Classified("unknown"))
    /\ analysis.secureBootEnabled = SecureBootOn
    /\ analysis.verdict = "PASS" => SecureBootOn /\ Classified("unknown") = {}

\* A chain is valid only if Secure Boot was last reported on, the last platform
\* key holds a certificate, and PCR 7 recorded Microsoft's keys in KEK and db; it
\* passes only if some platform key in PCR 7, not always the last, is a vendor's.
ChainGrounded ==
  report.verdict # "" =>
    /\ report.chainValid <=> /\ SecureBootOn /\ PlatformKey
                             /\ KeyHolds("KEK", MicrosoftCerts)
                             /\ KeyHolds("db", UefiCaCerts)
    /\ report.verdict = "PASS" <=> report.chainValid /\ KeyHolds("PK", OemCerts)

\* The posture is taken from one analysis of the log: undetermined without a log,
\* otherwise the count of all that could be read; and a field on which the readable
\* events have a say is what they say, be the chain valid or not.  When they say
\* nothing of Secure Boot, or of the platform key, only a claim that it is on, or a
\* vendor's, is excluded: rootherald.h has -1 there, and the code answers 0.
PostureAgrees ==
  bpc = "done" =>
    /\ rawLog = <<>> => posture = NoPosture
    /\ rawLog # <<>> => posture.measurements = Cardinality(ReadSet)
    /\ posture.secure_boot = 1 <=> SecureBootOn
    /\ posture.oem_keyed = 1 <=> KeyHolds("PK", OemCerts)
    /\ (\E i \in ReadSet : SecureBootEvent(i)) => posture.secure_boot # Undetermined
    /\ (\E i \in ReadSet : PkEvent(i)) => posture.oem_keyed # Undetermined
    /\ report.chainValid => posture.secure_boot = 1
=============================================================================
