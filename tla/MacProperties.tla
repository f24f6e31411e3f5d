---------------------------- MODULE MacProperties ----------------------------
(***************************************************************************)
(* What the macOS driver of module MacDriver must satisfy.                 *)
(***************************************************************************)
EXTENDS MacDriver

DeviceKeys == Nat \ {NoKey}
Calls      == 1..MaxCalls

Requests == [kind : {"enroll", "activate"}, id : Calls, key : DeviceKeys]
       \cup [kind : {"attest"}, id : Calls, key : DeviceKeys, was : SUBSET DeviceKeys]
Answers  == [kind : {"enroll", "activate", "attest"}, id : Calls,
             answer : {"challenge", "refused", "ok", "verified"}]

\* The type of every variable; a call that talks to the server has a number, and
\* every key in use exists.
MacTypeOK ==
  /\ pc \in [Hosts -> {"idle"} \cup Steps]
  /\ op \in [Hosts -> {"none", "enroll", "attest", "status"}]
  /\ id \in [Hosts -> Calls \cup {0}]
  /\ key \in [Hosts -> 0..made]
  /\ ret \in [Hosts -> Results] /\ partial \subseteq Hosts
  /\ calls \in 0..MaxCalls
  /\ made \in Nat /\ misses \in Nat
  /\ keys \subseteq 1..made /\ enrolled \subseteq 1..made
  /\ faults \in 0..MaxFaults
  /\ posted \subseteq Requests
  /\ replies \subseteq Answers

\* Hosts that found no key and have not created theirs yet.
Creating == {h \in Hosts : pc[h] = "create"}

\* getOrCreateDeviceKey gets more often than it creates: however many requests
\* the hosts serve, a device has one key per host at most, that many only if all
\* of them look the key up before the first creates it, and one more for each
\* failed lookup.
KeysBounded ==
  Cardinality(keys) + Cardinality(Creating) <= Cardinality(Hosts) + misses

\* The device is attested with the key it was enrolled with: evidence sent once a
\* key is enrolled is signed by an enrolled key, unless several keys exist and
\* the keychain may return another one.
EvidenceByEnrolledKey ==
  \A m \in posted : m.kind = "attest" /\ m.was # {} /\ m.key \notin m.was
                       => Cardinality(keys) > 1

\* When a call reports success and leaves no challenge with its caller, the device
\* is enrolled at the server: no verdict but "verified" and no refused activation
\* ends this way.  (With a challenge in the info, RH_PROTO_OK means only that the
\* enrollment has begun.)
OkMeansEnrolled ==
  \A h \in Hosts : ret[h] = "OK" /\ h \notin partial => enrolled # {}

\* Every request is answered, whatever the keychain and the server do.
RequestsAnswered == \A h \in Hosts : pc[h] # "idle" ~> pc[h] = "idle"

\* A call of the Security framework returns; NSURLSession gives up in the end.
ServedSpec == Spec /\ \A h \in Hosts : WF_vars(Step(h))

=============================================================================
