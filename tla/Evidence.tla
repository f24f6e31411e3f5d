------------------------------ MODULE Evidence ------------------------------
(***************************************************************************)
(* CollectEvidence of the Windows SDK, beside the enrollments of module    *)
(* Enrollment on the same TPM.  The call takes no handle and no mutex; it  *)
(* is a sequence of TPM commands (probe the AK, read the PCRs one by one,  *)
(* quote, read the boot log) between which enrollments go on, software is  *)
(* measured into PCRs, and the TPM is cleared.                             *)
(*                                                                         *)
(* A PCR's value is the number of measurements extended into it since      *)
(* boot; the event log replays to the values it was read at.               *)
(***************************************************************************)
EXTENDS Enrollment, Sequences

CONSTANTS
  Collectors,      \* threads that call CollectEvidence
  Nonces,          \* challenge nonces
  EmptyNonce,      \* a nonce Base64Decode turns into nothing
  NumPcrs,         \* the PCRs the SDK reads and quotes
  MaxMeasurements  \* bound: measurements per PCR and boot

ASSUME EvidenceAssumption ==
  /\ NumPcrs \in Nat \ {0} /\ MaxMeasurements \in Nat
  /\ EmptyNonce \notin Nonces

VARIABLES
  pcr,       \* TPM: value of each PCR
  cpc,       \* where each collector is inside its call, "idle" outside
  nonce,     \* the decoded nonce of the running call
  reported,  \* PCR values read so far
  quote,     \* TPM2_Quote's result
  cret,      \* public status each collector's last call returned
  evidence,  \* last evidence each collector handed to its embedder
  window     \* history: what happened on the device during the call

collectorVars == <<cpc, nonce, reported, quote, cret, evidence>>
evidenceVars  == <<vars, pcr, collectorVars, window>>

Pcrs        == 1..NumPcrs
PcrValues   == [Pcrs -> 0..MaxMeasurements]
NoQuote     == [ak |-> NoKey, nonce |-> EmptyNonce, pcrs |-> [i \in Pcrs |-> 0]]
NoLog       == <<>>
NoEvidence  == [quote |-> NoQuote, reported |-> <<>>, replayed |-> NoLog, calm |-> TRUE]
CollectSteps == {"probe", "open", "pcrs", "log"}

\* Between the two commands of an EvictControl the persistent handle is empty.
Swapping == slot = NoKey /\ \E t \in Threads : pc[t] = "evict"

EvidenceInit ==
  /\ Init
  /\ pcr = [i \in Pcrs |-> 0]
  /\ cpc = [c \in Collectors |-> "idle"]
  /\ nonce = [c \in Collectors |-> EmptyNonce]
  /\ reported = [c \in Collectors |-> <<>>]
  /\ quote = [c \in Collectors |-> NoQuote]
  /\ cret = [c \in Collectors |-> "OK"]
  /\ evidence = [c \in Collectors |-> NoEvidence]
  /\ window = [c \in Collectors |-> [held |-> FALSE, swap |-> FALSE, measured |-> FALSE]]

-----------------------------------------------------------------------------
\* The locals of a call are gone.
Leave(S) ==
  /\ cpc' = [c \in Collectors |-> IF c \in S THEN "idle" ELSE cpc[c]]
  /\ nonce' = [c \in Collectors |-> IF c \in S THEN EmptyNonce ELSE nonce[c]]
  /\ reported' = [c \in Collectors |-> IF c \in S THEN <<>> ELSE reported[c]]
  /\ quote' = [c \in Collectors |-> IF c \in S THEN NoQuote ELSE quote[c]]

Answer(c, r) == /\ Leave({c})
                /\ cret' = [cret EXCEPT ![c] = MapRootHeraldStatus(r)]

Refuse(c, r) == Answer(c, r) /\ UNCHANGED evidence

At(c, step)  == cpc[c] = step /\ UNCHANGED <<callVars, mock, inflight, nextId, tpmVars, relayVars, pcr>>
GoOn(c, step) == cpc' = [cpc EXCEPT ![c] = step] /\ UNCHANGED <<cret, evidence>>

\* What happens on the device while a call runs.
Watch ==
  window' = [c \in Collectors |->
    IF cpc[c] = "idle" THEN window[c]
    ELSE [window[c] EXCEPT !.swap = @ \/ Swapping', !.measured = @ \/ pcr' # pcr]]

\* The entry of a call; null and empty arguments are refused at once.
CollectEvidence(c, n) ==
  /\ At(c, "idle") /\ NoFault
  /\ GoOn(c, "probe") /\ nonce' = [nonce EXCEPT ![c] = n]
  /\ window' = [window EXCEPT ![c] = [held |-> slot = seed, swap |-> Swapping,
                                      measured |-> FALSE]]
  /\ UNCHANGED <<reported, quote>>

\* Mutant: the answer of an earlier probe is cached.
SelectEnrolledProvider_Cached(c) ==
  /\ At(c, "probe") /\ NoFault
  /\ IF slot # NoKey /\ cret[c] # "NOT_ENROLLED"
     THEN GoOn(c, "open") /\ UNCHANGED <<nonce, reported, quote>>
     ELSE Refuse(c, "NOT_ENROLLED")

\* SelectEnrolledProvider: Open, IsPersistentPresent.  Either failing reads as
\* "not enrolled".
SelectEnrolledProvider(c) ==
  /\ At(c, "probe")
  /\ \/ NoFault /\ slot # NoKey /\ GoOn(c, "open") /\ UNCHANGED <<nonce, reported, quote>>
     \/ NoFault /\ slot = NoKey /\ Refuse(c, "NOT_ENROLLED")
     \/ Fault /\ Refuse(c, "NOT_ENROLLED")

\* The second TBS context, then the decoding of the nonce.
OpenTpm(c) ==
  /\ At(c, "open")
  /\ \/ /\ NoFault /\ nonce[c] # EmptyNonce
        /\ GoOn(c, "pcrs") /\ UNCHANGED <<nonce, reported, quote>>
     \/ NoFault /\ nonce[c] = EmptyNonce /\ Refuse(c, "INVALID_PARAM")
     \/ Fault /\ Refuse(c, "NO_TPM")

\* Mutant: a PCR that cannot be read is reported as zeros.
PcrRead_ZeroFill(c) ==
  /\ At(c, "pcrs") /\ Len(reported[c]) < NumPcrs
  /\ \/ NoFault /\ reported' = [reported EXCEPT ![c] = Append(@, pcr[Len(@) + 1])]
     \/ Fault /\ reported' = [reported EXCEPT ![c] = Append(@, 0)]
  /\ GoOn(c, "pcrs") /\ UNCHANGED <<nonce, quote>>

\* One PCR after the other; a failed read ends the call.
PcrRead(c) ==
  /\ At(c, "pcrs") /\ Len(reported[c]) < NumPcrs
  /\ \/ /\ NoFault /\ reported' = [reported EXCEPT ![c] = Append(@, pcr[Len(@) + 1])]
        /\ GoOn(c, "pcrs") /\ UNCHANGED <<nonce, quote>>
     \/ Fault /\ Refuse(c, "ATTESTATION_FAILED")

\* TPM2_Quote by the persistent handle, which may have been emptied since.
Quote(c) ==
  /\ At(c, "pcrs") /\ Len(reported[c]) = NumPcrs
  /\ \/ /\ NoFault /\ slot # NoKey
        /\ quote' = [quote EXCEPT ![c] = [ak |-> slot, nonce |-> nonce[c], pcrs |-> pcr]]
        /\ GoOn(c, "log") /\ UNCHANGED <<nonce, reported>>
     \/ NoFault /\ slot = NoKey /\ Refuse(c, "ATTESTATION_FAILED")
     \/ Fault /\ Refuse(c, "ATTESTATION_FAILED")

\* ReadEventLog, the EK certificates (best effort), the JSON.  An event log that
\* cannot be read is left out; a buffer that cannot be allocated ends the call.
EmitEvidence(c) ==
  /\ At(c, "log")
  /\ \/ \E l \in {pcr, NoLog} :
          /\ l = NoLog => faults < MaxFaults
          /\ faults' = IF l = NoLog THEN faults + 1 ELSE faults
          /\ evidence' = [evidence EXCEPT ![c] =
               [quote |-> quote[c], reported |-> reported[c], replayed |-> l,
                calm |-> ~window[c].measured]]
          /\ Answer(c, "OK")
     \/ Fault /\ Refuse(c, "INTERNAL")

-----------------------------------------------------------------------------
\* Software is measured into a PCR, and logged.
Measure(i) ==
  /\ pcr[i] < MaxMeasurements
  /\ pcr' = [pcr EXCEPT ![i] = @ + 1]
  /\ UNCHANGED <<vars, collectorVars>>

\* The clear of the TPM comes with a reboot, hence with new processes.
Reboot ==
  /\ TpmClear
  /\ pcr' = [i \in Pcrs |-> 0]
  /\ Leave(Collectors)
  /\ cret' = [c \in Collectors |-> "OK"]
  /\ UNCHANGED evidence

Collect(c) ==
  \/ SelectEnrolledProvider(c) \/ OpenTpm(c) \/ PcrRead(c) \/ Quote(c)
  \/ EmitEvidence(c)

EnrollmentNext ==
  /\ \/ \E t \in Threads : Call(t) \/ Step(t)
     \/ \E p \in Procs : Crash(p)
     \/ Server
  /\ UNCHANGED <<pcr, collectorVars>>

EvidenceNext ==
  \/ \E c \in Collectors, n \in Nonces \cup {EmptyNonce} : CollectEvidence(c, n)
  \/ /\ \/ \E c \in Collectors : Collect(c)
        \/ \E i \in Pcrs : Measure(i)
        \/ Reboot
        \/ EnrollmentNext
     /\ Watch

EvidenceSpec == EvidenceInit /\ [][EvidenceNext]_evidenceVars
=============================================================================
