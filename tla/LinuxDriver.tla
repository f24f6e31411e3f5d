----------------------------- MODULE LinuxDriver -----------------------------
(***************************************************************************)
(* The Linux driver: RootHeraldEnroll, RootHeraldAttest and                *)
(* RootHeraldGetStatus (rootherald_linux.c) over the TPM software stack    *)
(* (tpm_esapi.c) and libcurl (http_curl.c), called by native messaging     *)
(* hosts (native_host.c), each a process that serves one request a time.   *)
(*                                                                         *)
(* The hosts share the TPM.  Behind a resource manager (managed) what a    *)
(* context loaded goes with the context; on the bare /dev/tpm0 one process *)
(* at a time has the device, and what it did not flush stays in the TPM.   *)
(*                                                                         *)
(* Every call creates an AK of its own: Esys_Create makes a random child   *)
(* of the SRK, so the call's number names the key, and the HTTP requests   *)
(* about it.                                                               *)
(***************************************************************************)
EXTENDS Naturals, FiniteSets

CONSTANTS
  Hosts,           \* native messaging hosts
  NumPcrs,         \* how many PCRs a quote selects (6 in the code)
  Slots,           \* TPM: transient objects and sessions it can hold
  MaxCalls,        \* bound: enroll and attest calls
  MaxMeasurements, \* bound: PCR extensions
  MaxFaults        \* bound: failed TPM commands, refusals, killed hosts

Objects == {"ek", "srk", "ak", "session"}
Kinds   == {"transient", "session"}
Pcrs    == 1..NumPcrs

ASSUME DriverConstants ==
  /\ NumPcrs \in Nat \ {0}
  /\ Slots \in [Kinds -> Nat]
  /\ MaxCalls \in Nat /\ MaxMeasurements \in Nat /\ MaxFaults \in Nat

VARIABLES
  managed,   \* does a resource manager sit in front of the TPM?
  pc,        \* where each host is inside its call, "idle" between requests
  op,        \* which call that is, "none" between requests
  id,        \* its number: the AK it creates
  ret,       \* result of each host's last request
  partial,   \* hosts whose last result left a challenge in the caller's info
  calls,     \* calls so far
  loaded,    \* TPM: <<host, object>> loaded through the host's context
  leaked,    \* TPM: how many objects of each kind no context owns any more
  pcr,       \* TPM: the extensions of each PCR so far
  quoted,    \* the PCR values under the quote a host holds
  reported,  \* the PCR values a host has read
  next,      \* the PCR a host reads next
  faults,
  posted,    \* requests on the wire
  replies,   \* what the server answered
  serverAk   \* server: AK of the enrolled device, or NoKey

tpmVars  == <<loaded, leaked>>
evVars   == <<pcr, quoted, reported, next>>
netVars  == <<posted, replies, serverAk>>
vars == <<managed, pc, op, id, ret, partial, calls, tpmVars, evVars, faults, netVars>>

NoKey  == 0
Keys   == 1..MaxCalls
Zeros  == 0                      \* the digest written for a PCR not read
Values == 1..(MaxMeasurements + 1)
Unread == [i \in Pcrs |-> Zeros]

Results == {"none", "OK", "NO_TPM", "ENROLLMENT_FAILED",
            "ATTESTATION_FAILED", "INVALID_PARAM", "HAS_TPM", "HAS_NO_TPM"}

Steps == {"ekCert", "ek", "srk", "ak", "public", "publish", "enrolling", "session", "policy",
          "activate", "unactivated", "prove", "activating", "quote", "pcr",
          "report", "attesting"}

Init ==
  /\ managed \in BOOLEAN
  /\ pc = [h \in Hosts |-> "idle"] /\ op = [h \in Hosts |-> "none"]
  /\ id = [h \in Hosts |-> NoKey] /\ ret = [h \in Hosts |-> "none"]
  /\ partial = {} /\ calls = 0
  /\ loaded = {} /\ leaked = [k \in Kinds |-> 0]
  /\ pcr = [i \in Pcrs |-> 1]
  /\ quoted = [h \in Hosts |-> Unread] /\ reported = [h \in Hosts |-> Unread]
  /\ next = [h \in Hosts |-> 1]
  /\ faults = 0
  /\ posted = {} /\ replies = {} /\ serverAk = NoKey

-----------------------------------------------------------------------------
(* The TPM context of a call. *)

Fault   == faults < MaxFaults /\ faults' = faults + 1
NoFault == UNCHANGED faults

Of(h)     == {h} \X Objects
KindOf(o) == IF o = "session" THEN "session" ELSE "transient"
Kept(h, k) == {o \in loaded : o[1] = h /\ KindOf(o[2]) = k}

\* A device without resource manager is opened by one process at a time.
CanOpen == managed \/ \A h \in Hosts : pc[h] = "idle"

\* A resource manager swaps objects out; the bare TPM refuses when it is full.
HasRoom(k) ==
  \/ managed
  \/ Cardinality(UNION {Kept(h, k) : h \in Hosts}) + leaked[k] < Slots[k]

\* The context goes: loaded objects of the kinds K outlive it on a bare TPM.
Gone(h, K) ==
  /\ loaded' = loaded \ Of(h)
  /\ leaked' = [k \in Kinds |->
       IF managed \/ k \notin K THEN leaked[k]
       ELSE leaked[k] + Cardinality(Kept(h, k))]

\* Mutant: the TPM context is not finalized.
TpmClose_Forgets(h) == loaded' = loaded \ {<<h, "ak">>} /\ UNCHANGED leaked

\* Mutant: the EK is left out.
TpmClose_KeepsEk(h) ==
  /\ loaded' = loaded \ Of(h)
  /\ leaked' = [leaked EXCEPT !["transient"] =
       IF <<h, "ek">> \in loaded /\ ~managed THEN @ + 1 ELSE @]

\* Flush the AK, the SRK and the EK, finalize.  The session is not flushed.
TpmClose(h) == Gone(h, {"session"})

Goto(h, step) == pc' = [pc EXCEPT ![h] = step] /\ UNCHANGED <<op, id, ret, partial>>

\* The call is over: the host writes its answer and reads the next request.
Finish(h, r) ==
  /\ pc' = [pc EXCEPT ![h] = "idle"] /\ op' = [op EXCEPT ![h] = "none"]
  /\ id' = [id EXCEPT ![h] = NoKey] /\ ret' = [ret EXCEPT ![h] = r]

Answer(h, r) == Finish(h, r) /\ partial' = partial \ {h}

\* tpm_close(tpm); return r;
Return(h, r) == TpmClose(h) /\ Answer(h, r)

\* Mutant: the -1 of the TPM function is returned as the result.
FailureOf_Raw(h) == "-1"

FailureOf(h) ==
  IF op[h] = "enroll" THEN "ENROLLMENT_FAILED" ELSE "ATTESTATION_FAILED"

\* tpm_open for a new call.
Open(h, call, step) ==
  /\ calls < MaxCalls
  /\ calls' = calls + 1
  /\ \/ /\ NoFault /\ CanOpen
        /\ pc' = [pc EXCEPT ![h] = step] /\ op' = [op EXCEPT ![h] = call]
        /\ id' = [id EXCEPT ![h] = calls + 1]
        /\ UNCHANGED <<ret, partial>>
     \/ ((NoFault /\ ~CanOpen) \/ Fault) /\ Answer(h, "NO_TPM")
  /\ UNCHANGED <<tpmVars, evVars, netVars>>

\* A TPM command that loads object o: on success the call goes on.
Load(h, o, step, failure) ==
  /\ \/ /\ NoFault /\ HasRoom(KindOf(o))
        /\ loaded' = loaded \cup {<<h, o>>} /\ UNCHANGED leaked
        /\ Goto(h, step)
     \/ /\ (NoFault /\ ~HasRoom(KindOf(o))) \/ Fault
        /\ Return(h, failure)
  /\ UNCHANGED <<calls, evVars, netVars>>

-----------------------------------------------------------------------------
(* Enrollment. *)

\* handle_enroll and handle_attest without a required field, handle_unknown, or
\* a nonce that decodes to nothing.
HandleIncomplete(h) ==
  /\ pc[h] = "idle" /\ Answer(h, "INVALID_PARAM")
  /\ UNCHANGED <<calls, tpmVars, evVars, faults, netVars>>

\* force_reenroll is not looked at.
RootHeraldEnroll(h) == Open(h, "enroll", "ekCert")

HandleEnroll(h) == pc[h] = "idle" /\ RootHeraldEnroll(h)

\* The EK certificate is optional: whatever fails, the enrollment goes on without.
\* One step for all NV commands; a TPM that answers an NV_Read with no bytes at
\* all, which the loop does not look for, is left out.
TpmReadEkCert(h) ==
  /\ pc[h] = "ekCert" /\ Goto(h, "ek")
  /\ NoFault \/ Fault
  /\ UNCHANGED <<calls, tpmVars, evVars, netVars>>

TpmReadEkPub(h) == pc[h] = "ek" /\ Load(h, "ek", "srk", "NO_TPM")

\* tpm_create_ak, CreatePrimary of the SRK.
TpmCreateSrk(h) ==
  /\ pc[h] = "srk"
  /\ Load(h, "srk", "ak", FailureOf(h))

\* tpm_create_ak, Create and Load of the AK.
TpmCreateAk(h) ==
  /\ pc[h] = "ak"
  /\ Load(h, "ak", IF op[h] = "enroll" THEN "public" ELSE "quote", FailureOf(h))

Post(m) == posted' = posted \cup {m} /\ UNCHANGED <<replies, serverAk>>

\* tpm_get_ak_pub, tpm_get_ak_name.
TpmReadPublic(h) ==
  /\ pc[h] = "public"
  /\ \/ NoFault /\ Goto(h, "publish") /\ UNCHANGED tpmVars
     \/ Fault /\ Return(h, "ENROLLMENT_FAILED")
  /\ UNCHANGED <<calls, evVars, netVars>>

PostEnroll(h) ==
  /\ pc[h] = "publish"
  /\ Post([kind |-> "enroll", ak |-> id[h]])
  /\ Goto(h, "enrolling")
  /\ UNCHANGED <<calls, tpmVars, evVars, faults>>

Reply(h, kind, answer) == [kind |-> kind, ak |-> id[h], answer |-> answer] \in replies

\* The challenge arrives whole.
EnrollChallenged(h) ==
  /\ pc[h] = "enrolling" /\ Reply(h, "enroll", "challenge")
  /\ Goto(h, "session")
  /\ UNCHANGED <<calls, tpmVars, evVars, faults, netVars>>

\* A deviceId, but no challenge: "server doesn't need credential activation".
EnrollAccepted(h) ==
  /\ pc[h] = "enrolling" /\ Reply(h, "enroll", "accepted")
  /\ Return(h, "OK")
  /\ UNCHANGED <<calls, evVars, faults, netVars>>

\* Another status than 200 or 201 (409 is one), or a reply with no deviceId.
EnrollRefused(h) ==
  /\ pc[h] = "enrolling"
  /\ \E a \in {"conflict", "refused"} : Reply(h, "enroll", a)
  /\ Return(h, "ENROLLMENT_FAILED")
  /\ UNCHANGED <<calls, evVars, faults, netVars>>

\* Mutant: the request has no timeout.
HttpTimeout_Never(h) == FALSE /\ UNCHANGED vars

\* CURLOPT_TIMEOUT, or no connection: the server may or may not have acted, and
\* may still act.
HttpTimeout(h) ==
  /\ pc[h] \in {"enrolling", "activating", "attesting"}
  /\ Return(h, FailureOf(h))
  /\ UNCHANGED <<calls, evVars, faults, netVars>>

TpmStartPolicySession(h) ==
  /\ pc[h] = "session"
  /\ \/ /\ NoFault /\ HasRoom("session")
        /\ loaded' = loaded \cup {<<h, "session">>} /\ Goto(h, "policy")
     \/ /\ (NoFault /\ ~HasRoom("session")) \/ Fault
        /\ Goto(h, "unactivated") /\ UNCHANGED loaded
  /\ UNCHANGED <<calls, leaked, evVars, netVars>>

\* A failure here does flush the session.
TpmPolicySecret(h) ==
  /\ pc[h] = "policy"
  /\ \/ NoFault /\ Goto(h, "activate") /\ UNCHANGED loaded
     \/ Fault /\ Goto(h, "unactivated") /\ loaded' = loaded \ {<<h, "session">>}
  /\ UNCHANGED <<calls, leaked, evVars, netVars>>

\* ESYS starts sessions with continueSession, and nothing flushes this one: it
\* stays loaded, whether ActivateCredential succeeds or fails.
TpmActivateCredential(h) ==
  /\ pc[h] = "activate"
  /\ \/ NoFault /\ Goto(h, "prove")
     \/ Fault /\ Goto(h, "unactivated")
  /\ UNCHANGED <<calls, tpmVars, evVars, netVars>>

\* Mutant: the challenge is not handed to the caller.
EnrollPartial_Silent(h) ==
  /\ pc[h] = "unactivated"
  /\ Return(h, "OK")
  /\ UNCHANGED <<calls, evVars, faults, netVars>>

\* "Activation failed - return partial info so caller can retry": the result is
\* RH_PROTO_OK, with the challenge in the info.
EnrollPartial(h) ==
  /\ pc[h] = "unactivated"
  /\ TpmClose(h) /\ Finish(h, "OK") /\ partial' = partial \cup {h}
  /\ UNCHANGED <<calls, evVars, faults, netVars>>

PostActivate(h) ==
  /\ pc[h] = "prove"
  /\ Post([kind |-> "activate", ak |-> id[h]])
  /\ Goto(h, "activating")
  /\ UNCHANGED <<calls, tpmVars, evVars, faults>>

ActivateReplied(h) ==
  /\ pc[h] = "activating"
  /\ \/ Reply(h, "activate", "ok") /\ Return(h, "OK")
     \/ Reply(h, "activate", "refused") /\ Return(h, "ENROLLMENT_FAILED")
  /\ UNCHANGED <<calls, evVars, faults, netVars>>

-----------------------------------------------------------------------------
(* Attestation. *)

RootHeraldAttest(h) == Open(h, "attest", "srk")

HandleAttest(h) == pc[h] = "idle" /\ RootHeraldAttest(h)

\* tpm_quote, one TPM command over all selected PCRs.
TpmQuote(h) ==
  /\ pc[h] = "quote"
  /\ \/ /\ NoFault /\ Goto(h, "pcr")
        /\ quoted' = [quoted EXCEPT ![h] = pcr]
        /\ reported' = [reported EXCEPT ![h] = Unread]
        /\ next' = [next EXCEPT ![h] = 1]
        /\ UNCHANGED <<pcr, tpmVars>>
     \/ Fault /\ Return(h, "ATTESTATION_FAILED") /\ UNCHANGED evVars
  /\ UNCHANGED <<calls, netVars>>

\* Where the read of the PCRs leads.
AfterPcr(h) == Goto(h, IF next[h] = NumPcrs THEN "report" ELSE "pcr")

\* One PCR after the other; a read that fails is reported as zeros.
TpmPcrRead(h) ==
  /\ pc[h] = "pcr" /\ AfterPcr(h)
  /\ \/ /\ NoFault
        /\ reported' = [reported EXCEPT ![h][next[h]] = pcr[next[h]]]
     \/ Fault /\ UNCHANGED reported
  /\ next' = [next EXCEPT ![h] = @ + 1]
  /\ UNCHANGED <<calls, tpmVars, pcr, quoted, netVars>>

\* Mutant: the quote is taken after the PCRs.
PostAttest_Requotes(h) ==
  /\ pc[h] = "report"
  /\ Post([kind |-> "attest", ak |-> id[h], was |-> serverAk,
           quoted |-> pcr, reported |-> reported[h]])
  /\ Goto(h, "attesting")
  /\ UNCHANGED <<calls, tpmVars, evVars, faults>>

\* was: the enrolled AK when the evidence goes out.
PostAttest(h) ==
  /\ pc[h] = "report"
  /\ Post([kind |-> "attest", ak |-> id[h], was |-> serverAk,
           quoted |-> quoted[h], reported |-> reported[h]])
  /\ Goto(h, "attesting")
  /\ UNCHANGED <<calls, tpmVars, evVars, faults>>

AttestReplied(h) ==
  /\ pc[h] = "attesting"
  /\ \/ Reply(h, "attest", "verified") /\ Return(h, "OK")
     \/ Reply(h, "attest", "refused") /\ Return(h, "ATTESTATION_FAILED")
  /\ UNCHANGED <<calls, evVars, faults, netVars>>

\* The answer is has_tpm, whether a context could be opened.  is_enrolled says
\* whether /var/lib/rootherald/device_id exists, a file no code of the repository
\* writes: it is always 0.
RootHeraldGetStatus(h) ==
  \/ NoFault /\ Answer(h, IF CanOpen THEN "HAS_TPM" ELSE "HAS_NO_TPM")
  \/ Fault /\ Answer(h, "HAS_NO_TPM")

HandleStatus(h) ==
  /\ pc[h] = "idle" /\ RootHeraldGetStatus(h)
  /\ UNCHANGED <<calls, tpmVars, evVars, netVars>>

-----------------------------------------------------------------------------
(* Environment. *)

\* The browser closes the port or kills the host: no tpm_close.
Kill(h) ==
  /\ pc[h] # "idle" /\ Fault
  /\ Gone(h, Kinds) /\ Answer(h, "none")
  /\ UNCHANGED <<calls, evVars, netVars>>

Measure ==
  /\ \E i \in Pcrs : pcr[i] <= MaxMeasurements /\ pcr' = [pcr EXCEPT ![i] = @ + 1]
  /\ UNCHANGED <<pc, op, id, ret, partial, calls, tpmVars, quoted, reported, next,
                 faults, netVars>>

Unanswered(m) == \A r \in replies : r.kind = m.kind => r.ak # m.ak

Respond(m, answer) ==
  /\ Unanswered(m)
  /\ replies' = replies \cup {[kind |-> m.kind, ak |-> m.ak, answer |-> answer]}
  /\ UNCHANGED <<pc, op, id, ret, partial, calls, tpmVars, evVars, posted>>

\* /devices/enroll: 409 when enrolled already, else a challenge for the AK, or
\* acceptance without one.
ServerEnroll(m) ==
  /\ m.kind = "enroll"
  /\ \/ /\ NoFault /\ serverAk = NoKey
        /\ Respond(m, "challenge") /\ UNCHANGED serverAk
     \/ /\ NoFault /\ serverAk = NoKey
        /\ Respond(m, "accepted") /\ serverAk' = m.ak
     \/ /\ NoFault /\ serverAk # NoKey
        /\ Respond(m, "conflict") /\ UNCHANGED serverAk
     \/ Fault /\ Respond(m, "refused") /\ UNCHANGED serverAk

\* /devices/activate: the secret names the AK the challenge was sealed to.
ServerActivate(m) ==
  /\ m.kind = "activate"
  /\ \/ NoFault /\ Respond(m, "ok") /\ serverAk' = m.ak
     \/ Fault /\ Respond(m, "refused") /\ UNCHANGED serverAk

\* /attest: the signature must verify under the AK stored at enrollment, and the
\* PCR values must hash to the quoted digest.
ServerAttest(m) ==
  /\ m.kind = "attest"
  /\ NoFault /\ UNCHANGED serverAk
  /\ Respond(m, IF m.ak = serverAk /\ m.reported = m.quoted
                THEN "verified" ELSE "refused")

Serve(m) == ServerEnroll(m) \/ ServerActivate(m) \/ ServerAttest(m)

Enrolling(h) ==
  \/ TpmReadEkCert(h) \/ TpmReadEkPub(h) \/ TpmCreateSrk(h) \/ TpmCreateAk(h)
  \/ TpmReadPublic(h) \/ PostEnroll(h)
  \/ EnrollChallenged(h) \/ EnrollAccepted(h) \/ EnrollRefused(h)
  \/ TpmStartPolicySession(h) \/ TpmPolicySecret(h) \/ TpmActivateCredential(h)
  \/ EnrollPartial(h) \/ PostActivate(h) \/ ActivateReplied(h)

Attesting(h) ==
  \/ TpmQuote(h) \/ TpmPcrRead(h) \/ PostAttest(h) \/ AttestReplied(h)

Step(h) == Enrolling(h) \/ Attesting(h) \/ HttpTimeout(h)

Request(h) ==
  \/ HandleIncomplete(h) \/ HandleEnroll(h) \/ HandleAttest(h) \/ HandleStatus(h)

Next ==
  /\ UNCHANGED managed
  /\ \/ \E h \in Hosts : Request(h) \/ Step(h) \/ Kill(h)
     \/ Measure
     \/ \E m \in posted : Serve(m)

Spec == Init /\ [][Next]_vars
=============================================================================
