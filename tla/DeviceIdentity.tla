---------------------------- MODULE DeviceIdentity ----------------------------
(***************************************************************************)
(* Who the device says it is.  The server names a device after its EK      *)
(* certificate, or its EK public key if it has none; CollectEvidence,      *)
(* GetStatus and CollectPosture derive the same id locally                 *)
(* (DeriveLocalDeviceId, rootherald_win.cpp).  An enrollment finds the     *)
(* certificate in the store of Windows, in the TPM through the Platform    *)
(* Crypto Provider, or on a server of AMD (GatherEkEnrollData,             *)
(* tpm_pcp.cpp, amd_aia_fetch.cpp, http_winhttp.cpp).                      *)
(*                                                                         *)
(* One call runs at a time: the calls share nothing but what is on the     *)
(* machine.  A certificate travels in Parts chunks, <<c, 1>>, <<c, 2>> ... *)
(***************************************************************************)
EXTENDS Naturals, Sequences

CONSTANTS
  EkCerts,     \* certificates of this TPM's EK
  Junk,        \* what is no certificate: another blob, an error page
  Parts,       \* chunks of a certificate on the network
  MaxBlobs,    \* bound: entries of the store of Windows
  MaxIdFaults  \* bound: failed reads, requests and allocations

ASSUME IdentityConstants ==
  /\ Junk \notin EkCerts
  /\ Parts \in Nat \ {0} /\ MaxBlobs \in Nat /\ MaxIdFaults \in Nat

VARIABLES
  ipc,       \* where the running call is, "idle" outside
  call,      \* the entry point that runs
  machine,   \* where certificates of the EK can be found
  ekCert,    \* the certificate the call has read, <<>> if none
  deviceId,  \* the id the call has found
  answer,    \* AMD's answer to the request: status and body
  body,      \* what has been received of it
  hasTpm,    \* has_tpm
  g_deviceId,
  bodies,    \* the ekCertPem of each enroll body in the backend's hands
  devices,   \* server: the ids of the devices it knows
  claim,     \* the deviceId of the last evidence, and if a device was known then
  named,     \* history: the ids derived on the device
  cut,       \* history: a download ended early
  idFaults

callLocals   == <<ekCert, deviceId, answer, body, hasTpm>>
identityVars == <<ipc, call, machine, callLocals, g_deviceId, bodies, devices,
                  claim, named, cut, idFaults>>

Calls      == {"enroll", "evidence", "status", "posture"}
WholeEk(c) == [i \in 1..Parts |-> <<c, i>>]
ErrorPage  == <<<<Junk, 1>>>>
Found      == {<<>>} \cup {WholeEk(c) : c \in EkCerts}
NoId       == [by |-> "none", of |-> <<>>]
NoAnswer   == [status |-> 0, body |-> <<>>]

\* The id of a certificate, or of the EK public key if there is none.  The code
\* of the server says the same (comment at DeriveLocalDeviceId).
IdOf(cert) == [by |-> IF cert = <<>> THEN "public key" ELSE "certificate", of |-> cert]

Machines == [store : UNION {[1..n -> EkCerts \cup {Junk}] : n \in 0..MaxBlobs},
             pcp : Found, amd : Found]

IdentityInit ==
  /\ ipc = "new" /\ call = "status"
  /\ machine = [store |-> <<>>, pcp |-> <<>>, amd |-> <<>>]
  /\ ekCert = <<>> /\ deviceId = NoId /\ answer = NoAnswer /\ body = <<>>
  /\ hasTpm = TRUE
  /\ g_deviceId = NoId
  /\ bodies = {} /\ devices = {}
  /\ claim = [id |-> NoId, enrolled |-> FALSE]
  /\ named = {} /\ cut = FALSE /\ idFaults = 0

\* What the vendor, Windows and AMD have provisioned for this TPM.
MachineSetUp ==
  /\ ipc = "new" /\ ipc' = "idle" /\ machine' \in Machines
  /\ UNCHANGED <<call, callLocals, g_deviceId, bodies, devices, claim, named, cut, idFaults>>

IdFault   == idFaults < MaxIdFaults /\ idFaults' = idFaults + 1
NoIdFault == UNCHANGED idFaults

\* The step of each call that has to do with the id; what comes before is in the
\* modules Enrollment, Evidence and BootLog.
FirstStep == [enroll |-> "ekPub", evidence |-> "ekCert",
              status |-> "probe", posture |-> "probe"]

Enter(k) ==
  /\ ipc = "idle" /\ ipc' = FirstStep[k] /\ call' = k
  /\ UNCHANGED <<machine, callLocals, g_deviceId, bodies, devices, claim, named, cut, idFaults>>

In(k, step) == ipc = step /\ call \in k /\ UNCHANGED <<call, machine, g_deviceId, devices>>
OnTo(step)  == ipc' = step /\ UNCHANGED <<bodies, claim, named>>

\* The locals of the call are gone.
Done == /\ ipc' = "idle"
        /\ ekCert' = <<>> /\ deviceId' = NoId /\ answer' = NoAnswer /\ body' = <<>>
        /\ hasTpm' = TRUE

-----------------------------------------------------------------------------
(* The certificate in the store of Windows. *)

\* The first entry that holds a certificate, among those that can be read.
StoreCert(readable) ==
  LET certs == {i \in readable : machine.store[i] # Junk}
  IN  IF certs = {} THEN <<>>
      ELSE WholeEk(machine.store[CHOOSE i \in certs : \A j \in certs : i <= j])

Entries == 1..Len(machine.store)

\* An entry that cannot be opened or read is stepped over; a list that cannot be
\* opened, or enumerated further, holds no more.
ReadEkCertFromWindowsStore(cert) ==
  \/ NoIdFault /\ cert = StoreCert(Entries)
  \/ IdFault /\ \E readable \in SUBSET Entries : cert = StoreCert(readable)

-----------------------------------------------------------------------------
(* GatherEkEnrollData. *)

\* The provider is opened and PCP_EKPUB read: without it there is no enrollment.
ReadEkPublicKey ==
  /\ In({"enroll"}, "ekPub")
  /\ \/ NoIdFault /\ OnTo("store") /\ UNCHANGED callLocals
     \/ IdFault /\ Done /\ UNCHANGED <<bodies, claim, named>>
  /\ UNCHANGED cut

EnrollStoreCert ==
  /\ In({"enroll"}, "store")
  /\ \E c \in Found :
       /\ ReadEkCertFromWindowsStore(c)
       /\ ekCert' = c /\ OnTo(IF c = <<>> THEN "pcp" ELSE "emit")
  /\ UNCHANGED <<deviceId, answer, body, hasTpm, cut>>

\* PCP_RSA_EKNVCERT.
ReadEkCertificate ==
  /\ In({"enroll"}, "pcp")
  /\ \/ NoIdFault /\ ekCert' = machine.pcp
     \/ IdFault /\ ekCert' = <<>>
  /\ OnTo(IF ekCert' = <<>> THEN "get" ELSE "emit")
  /\ UNCHANGED <<deviceId, answer, body, hasTpm, cut>>

\* FetchAmdAiaEkCert up to the status code: the request, whose URL is a hash of
\* the modulus, fails or is answered.
HttpGet ==
  /\ In({"enroll"}, "get")
  /\ \/ /\ NoIdFault
        /\ answer' = IF machine.amd = <<>> THEN [status |-> 404, body |-> ErrorPage]
                     ELSE [status |-> 200, body |-> machine.amd]
     \/ IdFault /\ answer' \in {NoAnswer, [status |-> 500, body |-> ErrorPage]}
  /\ OnTo(IF answer'.status = 0 THEN "fetched" ELSE "receive")
  /\ UNCHANGED <<ekCert, deviceId, body, hasTpm, cut>>

\* Mutant: a chunk that cannot be read leaves the one before in the buffer.
ReadBody_Repeats ==
  /\ In({"enroll"}, "receive")
  /\ \/ /\ Len(body) < Len(answer.body) /\ NoIdFault
        /\ body' = Append(body, answer.body[Len(body) + 1])
        /\ OnTo("receive") /\ UNCHANGED cut
     \/ /\ Len(body) = Len(answer.body) /\ NoIdFault
        /\ OnTo("fetched") /\ UNCHANGED <<body, cut>>
     \/ /\ body # <<>> /\ Len(body) < Len(answer.body) /\ IdFault
        /\ body' = Append(body, body[Len(body)])
        /\ OnTo("receive") /\ UNCHANGED cut
  /\ UNCHANGED <<ekCert, deviceId, answer, hasTpm>>

\* The loop over WinHttpQueryDataAvailable, which ends alike at the end of the
\* body and when the connection breaks.
ReadBody ==
  /\ In({"enroll"}, "receive")
  /\ \/ /\ Len(body) < Len(answer.body) /\ NoIdFault
        /\ body' = Append(body, answer.body[Len(body) + 1])
        /\ OnTo("receive") /\ UNCHANGED cut
     \/ /\ Len(body) = Len(answer.body) /\ NoIdFault
        /\ OnTo("fetched") /\ UNCHANGED <<body, cut>>
     \/ /\ Len(body) < Len(answer.body) /\ IdFault
        /\ OnTo("fetched") /\ cut' = TRUE /\ UNCHANGED body
  /\ UNCHANGED <<ekCert, deviceId, answer, hasTpm>>

\* Mutant: the status code is not looked at.
FetchAmdAiaEkCert_AnyStatus ==
  /\ In({"enroll"}, "fetched")
  /\ ekCert' = body
  /\ OnTo("emit")
  /\ UNCHANGED <<deviceId, answer, body, hasTpm, cut, idFaults>>

\* The body of a 200 is the certificate.
FetchAmdAiaEkCert ==
  /\ In({"enroll"}, "fetched")
  /\ ekCert' = IF answer.status = 200 THEN body ELSE <<>>
  /\ OnTo("emit")
  /\ UNCHANGED <<deviceId, answer, body, hasTpm, cut, idFaults>>

\* The enroll body goes to the backend; or the AK, or the buffer, fails.
EmitEnrollBody ==
  /\ In({"enroll"}, "emit")
  /\ \/ NoIdFault /\ bodies' = bodies \cup {ekCert}
     \/ IdFault /\ UNCHANGED bodies
  /\ Done
  /\ UNCHANGED <<claim, named, cut>>

\* The backend relays a body, perhaps again, and the server knows the device.
ServerEnrolls(cert) ==
  /\ devices' = devices \cup {IdOf(cert)}
  /\ UNCHANGED <<ipc, call, machine, callLocals, g_deviceId, bodies, claim, named, cut, idFaults>>

-----------------------------------------------------------------------------
(* The local id. *)

\* Status and posture derive an id if there is a TPM.
IdStep(tpm) == IF tpm THEN "derive" ELSE "emit"

\* IsAvailable: without a TPM, status and posture leave the id empty.
Probe ==
  /\ In({"status", "posture"}, "probe")
  /\ \/ NoIdFault /\ hasTpm' = TRUE
     \/ IdFault /\ hasTpm' = FALSE
  /\ OnTo(IF call = "posture" THEN "ekCert" ELSE IdStep(hasTpm'))
  /\ UNCHANGED <<ekCert, deviceId, answer, body, cut>>

\* ekCertPem of the evidence, ek_cert_present of the posture.
CollectEkCert ==
  /\ In({"evidence", "posture"}, "ekCert")
  /\ \E c \in Found : ReadEkCertFromWindowsStore(c) /\ ekCert' = c
  /\ OnTo(IF call = "evidence" THEN "override" ELSE IdStep(hasTpm))
  /\ UNCHANGED <<deviceId, answer, body, hasTpm, cut>>

\* Evidence names g_deviceId, if the host has set it.
TakeOverride ==
  /\ In({"evidence"}, "override") /\ NoIdFault
  /\ deviceId' = g_deviceId
  /\ OnTo(IF g_deviceId = NoId THEN "derive" ELSE "emit")
  /\ UNCHANGED <<ekCert, answer, body, hasTpm, cut>>

Derived(id) ==
  /\ deviceId' = id /\ named' = IF id = NoId THEN named ELSE named \cup {id}
  /\ ipc' = "emit" /\ UNCHANGED <<bodies, claim>>

\* Mutant: the certificate is the one the call has read, which a status has not.
DeriveLocalDeviceId_Collected ==
  /\ In({"evidence", "status", "posture"}, "derive") /\ NoIdFault
  /\ Derived(IdOf(ekCert))
  /\ UNCHANGED <<ekCert, answer, body, hasTpm, cut>>

\* Mutant: the EK public key is always what is hashed.
DeriveLocalDeviceId_KeyFirst ==
  /\ In({"evidence", "status", "posture"}, "derive") /\ NoIdFault
  /\ OnTo("derivePublic") /\ UNCHANGED deviceId
  /\ UNCHANGED <<ekCert, answer, body, hasTpm, cut>>

\* DeriveLocalDeviceId reads the store once more.
DeriveLocalDeviceId ==
  /\ In({"evidence", "status", "posture"}, "derive")
  /\ \E c \in Found :
       /\ ReadEkCertFromWindowsStore(c)
       /\ IF c # <<>> THEN Derived(IdOf(c))
          ELSE OnTo("derivePublic") /\ UNCHANGED deviceId
  /\ UNCHANGED <<ekCert, answer, body, hasTpm, cut>>

\* ...and the provider for the EK public key; the id may stay empty.
DerivePublic ==
  /\ In({"evidence", "status", "posture"}, "derivePublic")
  /\ \/ NoIdFault /\ Derived(IdOf(<<>>))
     \/ IdFault /\ Derived(NoId)
  /\ UNCHANGED <<ekCert, answer, body, hasTpm, cut>>

\* The answer goes to the caller, if its buffer can be allocated.
EmitAnswer ==
  /\ In({"evidence", "status", "posture"}, "emit")
  /\ \/ NoIdFault /\ claim' = IF call = "evidence"
                              THEN [id |-> deviceId, enrolled |-> devices # {}] ELSE claim
     \/ IdFault /\ call = "evidence" /\ UNCHANGED claim
  /\ Done
  /\ UNCHANGED <<bodies, named, cut>>

\* The host sets the override to an id the server told it, or clears it.
RootHeraldSetDeviceId(id) ==
  /\ g_deviceId' = id
  /\ UNCHANGED <<ipc, call, machine, callLocals, bodies, devices, claim, named, cut, idFaults>>

IdentityNext ==
  \/ MachineSetUp
  \/ \E k \in Calls : Enter(k)
  \/ ReadEkPublicKey \/ EnrollStoreCert \/ ReadEkCertificate
  \/ HttpGet \/ ReadBody \/ FetchAmdAiaEkCert \/ EmitEnrollBody
  \/ \E cert \in bodies : ServerEnrolls(cert)
  \/ Probe \/ CollectEkCert \/ TakeOverride \/ DeriveLocalDeviceId \/ DerivePublic
  \/ EmitAnswer
  \/ \E id \in devices \cup {NoId} : RootHeraldSetDeviceId(id)

IdentitySpec == IdentityInit /\ [][IdentityNext]_identityVars

-----------------------------------------------------------------------------
Contents == {SubSeq(WholeEk(c), 1, n) : c \in EkCerts, n \in 0..Parts} \cup {<<>>, ErrorPage}
Ids      == {IdOf(c) : c \in Contents} \cup {NoId}

\* The type of the variables.
IdentityTypeOK ==
  /\ ipc \in {"new", "idle", "ekPub", "store", "pcp", "get", "receive", "fetched",
              "probe", "ekCert", "override", "derive", "derivePublic", "emit"}
  /\ call \in Calls /\ machine \in Machines
  /\ ekCert \in Contents /\ deviceId \in Ids /\ hasTpm \in BOOLEAN
  /\ answer.status \in {0, 200, 404, 500} /\ answer.body \in Found \cup {ErrorPage}
  /\ body \in Contents
  /\ g_deviceId \in Ids /\ bodies \subseteq Contents /\ devices \subseteq Ids \ {NoId}
  /\ claim \in [id : Ids, enrolled : BOOLEAN] /\ named \subseteq Ids \ {NoId}
  /\ cut \in BOOLEAN /\ idFaults \in 0..MaxIdFaults

\* Certificates of this machine, by preference.
Best == IF StoreCert(Entries) # <<>> THEN StoreCert(Entries)
        ELSE IF machine.pcp # <<>> THEN machine.pcp ELSE machine.amd

\* An enrollment sends a whole certificate of this TPM's EK, never an error page
\* or another blob, unless a download ended early; and if nothing failed it sends
\* the best one there is, and none only if there is none.
EkCertSent ==
  /\ ~cut => bodies \subseteq Found
  /\ idFaults = 0 => bodies \subseteq {Best}

\* A TPM has one name on its own machine: evidence, status and posture derive the
\* same id whenever they derive one and nothing fails.
OneLocalId == idFaults = 0 => \A i, j \in named : i = j

\* The id the device derives is the one the server knows, if the store of Windows
\* has its certificate or there is no certificate at all, and nothing failed.
\* Otherwise it may not be: see IdKnownToServer.
IdKnownIfInStore ==
  idFaults = 0 /\ claim.enrolled /\ Best = StoreCert(Entries)
    => claim.id \in devices

-----------------------------------------------------------------------------
(* What a comment says, and the code does not do. *)

\* rootherald_win.cpp: "Derive the deviceId exactly as the server does": evidence
\* collected when nothing failed names a device the server knows.
IdKnownToServer == idFaults = 0 /\ claim.enrolled => claim.id \in devices
=============================================================================
