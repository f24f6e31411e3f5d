--------------------------- MODULE LinuxProperties ---------------------------
(***************************************************************************)
(* What the Linux driver of module LinuxDriver must satisfy.               *)
(***************************************************************************)
EXTENDS LinuxDriver

Vectors == [Pcrs -> Values \cup {Zeros}]

Requests == [kind : {"enroll", "activate"}, ak : Keys]
       \cup [kind : {"attest"}, ak : Keys, was : Keys \cup {NoKey},
             quoted : Vectors, reported : Vectors]
Answers  == [kind : {"enroll", "activate", "attest"}, ak : Keys,
             answer : {"challenge", "accepted", "conflict", "refused", "ok",
                       "verified"}]

DriverTypeOK ==
  /\ pc \in [Hosts -> {"idle"} \cup Steps]
  /\ op \in [Hosts -> {"none", "enroll", "attest"}]
  /\ id \in [Hosts -> Keys \cup {NoKey}]
  /\ ret \in [Hosts -> Results] /\ partial \in SUBSET Hosts
  /\ calls \in 0..MaxCalls
  /\ loaded \in SUBSET (Hosts \X Objects)
  /\ leaked \in [Kinds -> Nat]
  /\ pcr \in [Pcrs -> Values]
  /\ quoted \in [Hosts -> Vectors] /\ reported \in [Hosts -> Vectors]
  /\ next \in [Hosts -> 1..(NumPcrs + 1)]
  /\ faults \in 0..MaxFaults
  /\ posted \in SUBSET Requests
  /\ replies \in SUBSET Answers
  /\ serverAk \in Keys \cup {NoKey}

\* The type of every variable; ret, in particular, never holds the -1 of a TPM
\* function in place of a protocol.h code.
LinuxTypeOK == managed \in BOOLEAN /\ DriverTypeOK

\* Whatever fails, is refused or times out, an object stays loaded in the TPM
\* only for a call at work (tpm_close on every return path of rootherald_linux.c,
\* the resource manager behind a killed host).
ObjectsScoped == \A o \in loaded : pc[o[1]] # "idle"

\* The challenges the server has given out for enrollments.
Challenged == {r \in replies : r.kind = "enroll" /\ r.answer = "challenge"}

\* On a bare TPM, a call that runs to its end leaves no key behind (a killed host
\* leaves all it had loaded), and policy sessions stay behind only for challenges,
\* one for each at most: refused enrollments and attestations, however many and
\* however they end, leave none.
LeaksBounded ==
  /\ leaked["transient"] <= 3 * faults
  /\ leaked["session"] <= Cardinality(Challenged)

\* When a call reports success and leaves no challenge with its caller, the server
\* holds an enrolled AK: no enrollment that was refused or timed out, and no
\* verdict but "verified", ends this way.  (With a challenge in the info,
\* RH_PROTO_OK means only that the server knows the device.)
OkMeansEnrolled ==
  \A h \in Hosts : ret[h] = "OK" /\ h \notin partial => serverAk # NoKey

\* In the evidence sent, no reported PCR value is older than the quoted one, and
\* a PCR that was not read (zeros) betrays a failed read.
ReportedFollowsQuote ==
  \A m \in posted : m.kind = "attest" =>
    \A i \in Pcrs : \/ m.quoted[i] <= m.reported[i] /\ m.reported[i] <= pcr[i]
                    \/ m.reported[i] = Zeros /\ faults > 0

\* A request is answered: the native host is not stuck in a TPM command nor in
\* an HTTP request, whatever the server does.
RequestsAnswered == \A h \in Hosts : pc[h] # "idle" ~> pc[h] = "idle"

\* libtss2 answers every command, libcurl gives up after CURLOPT_TIMEOUT.
ServedSpec == Spec /\ \A h \in Hosts : WF_vars(Step(h) /\ UNCHANGED managed)

-----------------------------------------------------------------------------
(* What comments and documents say, and the code does not do. *)

\* protocol.h: the server "MUST verify signature against the AK pub stored at
\* enrollment", hence evidence of an enrolled device is signed by that AK.
QuotedByEnrolledAk ==
  \A m \in posted : m.kind = "attest" /\ m.was # NoKey => m.ak = m.was

\* tpm_esapi.c: "Policy session is consumed by ActivateCredential", hence while no
\* command fails and no host is killed, no session stays behind in the TPM.
SessionConsumed == faults = 0 => leaked["session"] = 0
=============================================================================
