------------------------------ MODULE MacDriver ------------------------------
(***************************************************************************)
(* The macOS driver: RootHeraldEnroll, RootHeraldAttest and                *)
(* RootHeraldGetStatus (rootherald_macos.m) over the Secure Enclave        *)
(* (secure_enclave.m) and NSURLSession (http_nsurlsession.m), called by    *)
(* native messaging hosts (native_host.m), each a process that serves one  *)
(* request a time.                                                         *)
(*                                                                         *)
(* The hosts share the keychain.  getOrCreateDeviceKey looks the key up by *)
(* its tag and, in a second step, creates one: nothing serializes the      *)
(* hosts, and a keychain may hold several keys with the tag.               *)
(***************************************************************************)
EXTENDS Naturals, FiniteSets

CONSTANTS
  Hosts,     \* native messaging hosts
  MaxCalls,  \* bound: calls that want the device key
  MaxFaults  \* bound: failed keychain operations, refusals, killed hosts

ASSUME MacConstants ==
  /\ IsFiniteSet(Hosts)
  /\ MaxCalls \in Nat /\ MaxFaults \in Nat

VARIABLES
  pc,       \* where each host is inside its call, "idle" between requests
  op,       \* which call that is, "none" between requests
  id,       \* its number: names its HTTP requests
  key,      \* the device key a host holds (SecKeyRef), or NoKey
  ret,      \* answer to a host's last request, "none" while it is at work
  partial,  \* hosts whose last answer left a challenge in the caller's info
  calls,    \* calls so far
  keys,     \* keychain: the permanent keys with the tag of the device key
  made,     \* Secure Enclave: keys created so far, names the next one
  misses,   \* lookups that failed, for another reason than no key or also so
  faults,
  posted,   \* requests on the wire
  replies,  \* what the server answered
  enrolled  \* server: keys of enrolled devices

hostVars == <<pc, op, id, key, ret, partial, calls>>
seVars   == <<keys, made, misses>>
netVars  == <<posted, replies, enrolled>>
vars == <<hostVars, seVars, faults, netVars>>

NoKey == 0

\* "ENROLLED" and "NOT_ENROLLED" are the two answers of the status request.
Results == {"none", "OK", "NO_TPM", "INTERNAL", "INVALID_PARAM", "ENROLLMENT_FAILED",
            "ATTESTATION_FAILED", "ENROLLED", "NOT_ENROLLED"}

Steps == {"lookup", "create", "got", "enrolling", "prove", "activating",
          "evidence", "attesting"}

Init ==
  /\ pc = [h \in Hosts |-> "idle"] /\ op = [h \in Hosts |-> "none"]
  /\ id = [h \in Hosts |-> 0] /\ key = [h \in Hosts |-> NoKey]
  /\ ret = [h \in Hosts |-> "none"] /\ partial = {} /\ calls = 0
  /\ keys = {} /\ made = 0 /\ misses = 0
  /\ faults = 0
  /\ posted = {} /\ replies = {} /\ enrolled = {}

-----------------------------------------------------------------------------
Fault   == faults < MaxFaults /\ faults' = faults + 1
NoFault == UNCHANGED faults

Goto(h, step) ==
  pc' = [pc EXCEPT ![h] = step] /\ UNCHANGED <<op, id, ret, partial, calls>>

\* The call returns, the key reference is released, the host writes its answer.
Finish(h, r) ==
  /\ pc' = [pc EXCEPT ![h] = "idle"] /\ op' = [op EXCEPT ![h] = "none"]
  /\ id' = [id EXCEPT ![h] = 0] /\ key' = [key EXCEPT ![h] = NoKey]
  /\ ret' = [ret EXCEPT ![h] = r]
  /\ UNCHANGED calls

\* The caller's info holds no challenge.
Return(h, r) == Finish(h, r) /\ partial' = partial \ {h}

\* "Partial success": the result is the same RH_PROTO_OK, only the credential blob
\* and the encrypted secret in the info tell it from a complete one.
ReturnPartial(h) == Finish(h, "OK") /\ partial' = partial \cup {h}

\* A call that gets as far as getOrCreateDeviceKey.
Enter(h, call) ==
  /\ pc[h] = "idle" /\ calls < MaxCalls
  /\ pc' = [pc EXCEPT ![h] = "lookup"] /\ op' = [op EXCEPT ![h] = call]
  /\ calls' = calls + 1 /\ id' = [id EXCEPT ![h] = calls + 1]
  /\ ret' = [ret EXCEPT ![h] = "none"]
  /\ UNCHANGED <<key, partial, seVars, faults, netVars>>

\* A required field is missing, the action is unknown, or the nonce decodes to
\* nothing.
HandleIncomplete(h) ==
  /\ pc[h] = "idle" /\ Return(h, "INVALID_PARAM")
  /\ UNCHANGED <<seVars, faults, netVars>>

\* isAvailable says NO: the attestation does not ask.
Unavailable(h) ==
  /\ pc[h] = "idle" /\ Fault
  /\ \/ Return(h, "NO_TPM")        \* RootHeraldEnroll
     \/ Return(h, "NOT_ENROLLED")  \* RootHeraldGetStatus
  /\ UNCHANGED <<seVars, netVars>>

RootHeraldEnroll(h)    == Enter(h, "enroll")
RootHeraldAttest(h)    == Enter(h, "attest")
RootHeraldGetStatus(h) == Enter(h, "status")

-----------------------------------------------------------------------------
(* getOrCreateDeviceKey. *)

\* Mutant: the query does not match the key that was created.
Lookup_Blind(h) ==
  /\ pc[h] = "lookup" /\ NoFault /\ Goto(h, "create")
  /\ UNCHANGED <<key, seVars, netVars>>

\* SecItemCopyMatching returns one of the keys; whatever the reason it returns
\* none, the call goes on to create one.
Lookup(h) ==
  /\ pc[h] = "lookup"
  /\ \/ NoFault /\ \E k \in keys : key' = [key EXCEPT ![h] = k]
        /\ Goto(h, "got") /\ UNCHANGED misses
     \/ NoFault /\ keys = {} /\ Goto(h, "create") /\ UNCHANGED <<key, misses>>
     \/ Fault /\ Goto(h, "create") /\ misses' = misses + 1 /\ UNCHANGED key
  /\ UNCHANGED <<keys, made, netVars>>

\* Mutant: kSecAttrIsPermanent is left out.
Create_Ephemeral(h) ==
  /\ pc[h] = "create" /\ NoFault
  /\ made' = made + 1 /\ key' = [key EXCEPT ![h] = made + 1]
  /\ Goto(h, "got")
  /\ UNCHANGED <<keys, misses, netVars>>

\* SecKeyCreateRandomKey makes a permanent key, also beside others.
Create(h) ==
  /\ pc[h] = "create"
  /\ \/ /\ NoFault
        /\ made' = made + 1 /\ keys' = keys \cup {made + 1}
        /\ key' = [key EXCEPT ![h] = made + 1]
        /\ Goto(h, "got")
     \/ /\ Fault /\ UNCHANGED <<made, keys>>
        /\ Return(h, IF op[h] = "status" THEN "NOT_ENROLLED" ELSE "INTERNAL")
  /\ UNCHANGED <<misses, netVars>>

\* "Check if a device key already exists (indicates prior enrollment)".
StatusKnown(h) ==
  /\ pc[h] = "got" /\ op[h] = "status"
  /\ Return(h, "ENROLLED")
  /\ UNCHANGED <<seVars, faults, netVars>>

-----------------------------------------------------------------------------
(* Enrollment and attestation. *)

Post(m) == posted' = posted \cup {m} /\ UNCHANGED <<replies, enrolled>>

\* exportPublicKey, POST /devices/enroll.
PostEnroll(h) ==
  /\ pc[h] = "got" /\ op[h] = "enroll"
  /\ \/ /\ NoFault /\ Goto(h, "enrolling") /\ UNCHANGED key
        /\ Post([kind |-> "enroll", id |-> id[h], key |-> key[h]])
     \/ Fault /\ Return(h, "INTERNAL") /\ UNCHANGED netVars
  /\ UNCHANGED seVars

Reply(h, kind, answer) == [kind |-> kind, id |-> id[h], answer |-> answer] \in replies

\* 201 with all fields; another status, or a field that is missing or not base64.
EnrollReplied(h) ==
  /\ pc[h] = "enrolling"
  /\ \/ Reply(h, "enroll", "challenge") /\ Goto(h, "prove") /\ UNCHANGED key
     \/ Reply(h, "enroll", "refused") /\ Return(h, "ENROLLMENT_FAILED")
  /\ UNCHANGED <<seVars, faults, netVars>>

\* The signature over the encrypted secret, POST /devices/activate.
PostActivate(h) ==
  /\ pc[h] = "prove"
  /\ \/ /\ NoFault /\ Goto(h, "activating") /\ UNCHANGED key
        /\ Post([kind |-> "activate", id |-> id[h], key |-> key[h]])
     \/ Fault /\ Return(h, "ENROLLMENT_FAILED") /\ UNCHANGED netVars
  /\ UNCHANGED seVars

\* Mutant: a refused activation does not save the challenge.
ActivateReplied_Silent(h) ==
  /\ pc[h] = "activating"
  /\ \E a \in {"ok", "refused"} : Reply(h, "activate", a)
  /\ Return(h, "OK")
  /\ UNCHANGED <<seVars, faults, netVars>>

ActivateReplied(h) ==
  /\ pc[h] = "activating"
  /\ \/ Reply(h, "activate", "ok") /\ Return(h, "OK")
     \/ Reply(h, "activate", "refused") /\ ReturnPartial(h)
  /\ UNCHANGED <<seVars, faults, netVars>>

\* sign:withPrivateKey: over the nonce.
SignNonce(h) ==
  /\ pc[h] = "got" /\ op[h] = "attest"
  /\ \/ NoFault /\ Goto(h, "evidence") /\ UNCHANGED key
     \/ Fault /\ Return(h, "INTERNAL")
  /\ UNCHANGED <<seVars, netVars>>

\* exportPublicKey, POST /attest.  was: the enrolled keys when it goes out.
PostAttest(h) ==
  /\ pc[h] = "evidence"
  /\ \/ /\ NoFault /\ Goto(h, "attesting") /\ UNCHANGED key
        /\ Post([kind |-> "attest", id |-> id[h], key |-> key[h], was |-> enrolled])
     \/ Fault /\ Return(h, "INTERNAL") /\ UNCHANGED netVars
  /\ UNCHANGED seVars

\* Mutant: the verdict of the server is returned as the result.
AttestReplied_Verdict(h) ==
  /\ pc[h] = "attesting"
  /\ \E a \in {"verified", "refused"} : Reply(h, "attest", a) /\ Return(h, a)
  /\ UNCHANGED <<seVars, faults, netVars>>

AttestReplied(h) ==
  /\ pc[h] = "attesting"
  /\ \/ Reply(h, "attest", "verified") /\ Return(h, "OK")
     \/ Reply(h, "attest", "refused") /\ Return(h, "ATTESTATION_FAILED")
  /\ UNCHANGED <<seVars, faults, netVars>>

\* Mutant: the request has no timeout.
HttpTimeout_Never(h) == FALSE /\ UNCHANGED vars

\* DoRequest waits for ever, but its request has a timeout of 30 seconds: the
\* server may or may not have acted, and may still act.
HttpTimeout(h) ==
  /\ \/ pc[h] = "enrolling"  /\ Return(h, "ENROLLMENT_FAILED")
     \/ pc[h] = "activating" /\ ReturnPartial(h)
     \/ pc[h] = "attesting"  /\ Return(h, "ATTESTATION_FAILED")
  /\ UNCHANGED <<seVars, faults, netVars>>

-----------------------------------------------------------------------------
(* Environment. *)

\* The browser ends the host.
Kill(h) ==
  /\ pc[h] # "idle" /\ Fault
  /\ Return(h, "none")
  /\ UNCHANGED <<seVars, netVars>>

Unanswered(m) == \A r \in replies : r.kind = m.kind => r.id # m.id

Respond(m, answer) ==
  /\ Unanswered(m)
  /\ replies' = replies \cup {[kind |-> m.kind, id |-> m.id, answer |-> answer]}
  /\ UNCHANGED <<hostVars, seVars, posted>>

\* /devices/enroll: the public key is the identity of the device.
ServerEnroll(m) ==
  /\ m.kind = "enroll" /\ UNCHANGED enrolled
  /\ \/ NoFault /\ Respond(m, IF m.key \in enrolled THEN "refused" ELSE "challenge")
     \/ Fault /\ Respond(m, "refused")

\* /devices/activate: the signature verifies under the key of the enrollment.
ServerActivate(m) ==
  /\ m.kind = "activate"
  /\ \/ NoFault /\ Respond(m, "ok") /\ enrolled' = enrolled \cup {m.key}
     \/ Fault /\ Respond(m, "refused") /\ UNCHANGED enrolled

\* /attest: the nonce must be signed by an enrolled key.
ServerAttest(m) ==
  /\ m.kind = "attest" /\ NoFault /\ UNCHANGED enrolled
  /\ Respond(m, IF m.key \in enrolled THEN "verified" ELSE "refused")

Serve(m) == ServerEnroll(m) \/ ServerActivate(m) \/ ServerAttest(m)

Step(h) ==
  \/ Lookup(h) \/ Create(h) \/ StatusKnown(h)
  \/ PostEnroll(h) \/ EnrollReplied(h) \/ PostActivate(h) \/ ActivateReplied(h)
  \/ SignNonce(h) \/ PostAttest(h) \/ AttestReplied(h)
  \/ HttpTimeout(h)

Request(h) ==
  \/ HandleIncomplete(h) \/ Unavailable(h)
  \/ RootHeraldEnroll(h) \/ RootHeraldAttest(h) \/ RootHeraldGetStatus(h)

Next ==
  \/ \E h \in Hosts : Request(h) \/ Step(h) \/ Kill(h)
  \/ \E m \in posted : Serve(m)

Spec == Init /\ [][Next]_vars
=============================================================================
