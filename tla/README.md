# Root Herald native SDK: verification development

TLA+ models of the Root Herald native SDK (Windows, Linux and macOS drivers),
TLC configurations that check them on small deployments, and TLAPS proofs of the
properties that matter most.

## The system

The SDK attests a device by its TPM (Secure Enclave on macOS). On Windows it is
a static library that does local TPM work and emits opaque bodies, which the
embedder's backend relays to the Root Herald server. On Linux and macOS a native
messaging host serves one request at a time and talks to the server itself.

| Component | State | Operations | What makes it correct |
|---|---|---|---|
| Windows facade (`rootherald_client.cpp`) | a mutex, `mockTpm`, an application id per handle | Create, Destroy, SetMockTpm, EnrollBegin, EnrollComplete, GetDeviceInfo, CollectPosture, CollectEvidence | one call per handle; only public status codes leave |
| Windows enrollment (`rootherald_win.cpp`) | `g_enrollProvider`, one per **process** | EnrollBegin, EnrollComplete | a handshake releases one proof, after its AK is durable, and can be completed while it is in flight |
| TPM key provider, TPM commands (`windows/src/tpm/`) | EK/AK handles per provider; in the TPM: loaded objects, sessions, the persistent AK | CreateAk, ActivateCredential, PersistAk (EvictControl), DeleteAk, Close, PcrRead, Quote, NV_Read | nothing leaks in the TPM; the persistent AK is not lost |
| Evidence collection (`rootherald_win.cpp`) | locals only | CollectEvidence | a coherent snapshot; truthful refusals |
| EK certificate and device id (`rootherald_win.cpp`, `tpm_pcp.cpp`, `amd_aia_fetch.cpp`, `http_winhttp.cpp`) | `g_deviceId` | GatherEkEnrollData, DeriveLocalDeviceId, GetStatus, CollectPosture | a whole certificate of this TPM; one id, the server's |
| EK chain (`tpm_commands.cpp`, `certs/`) | none | chunked NV reads, registry store, merge | whole certificates, at most 8, none merged twice |
| Boot analysis (`windows/src/boot/`) | none | ReadEventLog, ParseAndAnalyzeEventLog, ValidateSecureBootChain | bounds; the verdict ladder; no claim without data |
| Log shim (`internal/log.*`) | callback and user pointer, process-wide | set, write | a callback gets its own pointer |
| JSON helpers (`internal/json_helpers.h`) | none | JsonBuild, JsonGet | what is built is found again |
| Linux driver (`linux/src`) | ESYS context per call; no persistent AK | Enroll, Attest, GetStatus; native host | the AK that is enrolled is the AK that quotes; nothing leaks |
| macOS driver (`macos/src`) | one Secure-Enclave key in the keychain | Enroll, Attest, GetStatus; native host | one device key, the enrolled one |

Interaction. On Windows a facade call takes its handle's mutex and calls the
driver; the driver owns a key provider, which owns a TBS context; every TPM
command is one call into TBS. Two relays through the backend lie between
EnrollBegin and EnrollComplete, so handshake state waits in `g_enrollProvider`
of an elevated, resident process. CollectEvidence takes no handle and no mutex;
it meets enrollment only in the TPM, at the persistent handle. On Linux and macOS
several hosts (one per browser) meet in the TPM, or in the keychain, and at the
server.

Hard behaviours: a process-wide global behind per-handle mutexes; two processes
at one persistent handle; multi-command operations that fail halfway
(EvictControl clears, then persists); lost responses; crashes and TPM clears;
stale, duplicated or malformed challenges; a probe used many commands later;
time-outs of requests the server has executed; look-up-then-create without a
lock; lengths that come from the TPM or from a log; an identity derived in two
places. `PROJECT.json` lists each at its line, with the properties aimed at it.

## Modules

| Module | What it is |
|---|---|
| `Enrollment` | EnrollBegin, EnrollComplete and SetMockTpm of any number of threads, handles and processes over one TPM, and the relay and server around them |
| `EnrollmentProperties` | type invariant, safety, refinement mapping, fairness and liveness of `Enrollment` |
| `Handshake` | abstract specification: what a handshake promises to the backend; `Enrollment` implements it |
| `Evidence`, `EvidenceProperties` | extends `Enrollment` with CollectEvidence, PCR measurements and the reboot; composition on one TPM |
| `LinuxDriver`, `LinuxProperties` | native hosts that enroll and attest over ESAPI and libcurl, with and without a resource manager |
| `MacDriver`, `MacProperties` | native hosts that share the device key of one keychain, over NSURLSession |
| `LogShim` | the log callback, each access to a global a step |
| `EkCertificates` | the certificate chain of an enrollment, byte by byte |
| `DeviceIdentity` | the EK certificate of an enrollment, and the id that evidence, status and posture derive |
| `BootLog` | event-log parser, Secure Boot validator and posture, event by event |
| `*Proofs` | theorems, checked by TLAPS |
| `MC*` | deployments for TLC; `MCLocal` puts the four local parts side by side |

### How the state corresponds to the code

`Enrollment`, `Evidence` (Windows, concurrent):

| Variable | Code |
|---|---|
| `pc`, `this`, `arg` | where a thread is inside a call, the provider its member calls run on, the challenge it was given |
| `ret`, `cret` | the `RootHeraldStatus` of a thread's last call, after `MapRootHeraldStatus` |
| `mock` | `RootHeraldClientImpl::mockTpm` |
| `Locked(h)` | `RootHeraldClientImpl::lock`: held while some thread on `h` is inside a call |
| `inflight` | `g_enrollProvider`, per process |
| `loaded` | TPM objects and sessions loaded through a provider's TBS context, which TBS drops with the context |
| `slot` | the AK at the persistent handle |
| `seed` | the owner seed; EK and AK are primary keys of constant templates, so the AK **is** a function of it |
| `enrollBodies`, `challenges`, `activateBodies` | messages in the embedder's and the backend's hands: sets, so they can be replayed, reordered and lost |
| `serverAk` | the AK the server stored |
| `persisted`, `window` | history, for the properties only |
| `pcr` | PCR values, as the number of measurements since boot |
| `reported`, `quote`, `nonce`, `evidence` | CollectEvidence's locals, and the blob it returned |

One action is one TPM command with the code around it. A failed command or
allocation is a `Fault`. A command that changes the TPM may also have been
executed although its response was lost: then the code sees a failure and the
TPM has changed. Null arguments return at once; a challenge is whole or
misses a field (`Malformed`). A thread that waits for its handle's mutex has not
begun its call (`pc` is `"idle"`). A member call on a provider that another thread
has destroyed is undefined behaviour: `UseAfterReset` is the outcome in which the
process dies. The outcome in which the freed object is read as if it were intact
is not modelled. CollectEvidence shares no process state with enrollment, so a
collector is not placed in a process: a crash of its process only loses its
locals, and `Reboot` is the one that matters.

`LinuxDriver`: `pc`, `op`, `ret` are a host's place in its request, `partial` the
hosts whose last `RH_PROTO_OK` came with the challenge left in the
`RootHeraldEnrollmentInfo` ("partial success" in the code; the result is the same,
and the native host drops the challenge), `loaded` what its ESYS context holds,
`leaked` what no context owns any more (only without a resource manager,
`managed = FALSE`, where `/dev/tpm0` is exclusive). Esys_Create makes a random
child of the SRK, so the number of the call names its AK and its requests. `posted` and `replies` are requests on the wire and the server's
answers: a time-out may come before or after the server has acted. A policy
session is started with continueSession set, as ESYS does, and stays loaded until
its context goes. The EK certificate is optional for an enrollment, so
`tpm_read_ek_cert` is one step that succeeds or fails: its NV commands are not
taken apart, and its loop, which does not look for an empty answer, is taken to
end.

`MacDriver`: `partial` as on Linux, `keys` are the keychain items with the device
key's tag, `misses` the lookups that failed. Lookup and creation are two steps; with several items, a
lookup returns any.

`LogShim`: `fn` and `data` are what `rh_log` has fetched of the two globals; one
name stands for a callback and its own `user_data`. `EkCertificates`: a
certificate is a sequence of bytes `<<name, i>>`, so a gap or an overlap shows;
offsets are taken modulo `Width`; the indices, the registry entries and the merge
are loops of one step each. `DeviceIdentity`: one call at a time on one machine;
`machine` is where certificates of its EK can be found, and an entry of the
store that cannot be read is stepped over. `BootLog`: an
event is a record of the fields the parser and the validator look at; one that
does not fit in the log is `Malformed`.

## Runs

| Run | Deployment | Shows |
|---|---|---|
| `enroll_shared_handle` | 2 threads on 1 handle in 1 process, a third with its handle in another, mock mode; 2 begins, 2 challenges, 2 seeds, 1 fault; symmetry of the two threads | `TypeOK`, `HandshakeNotStolen`, `InFlightCanComplete`, `TransientsOwned`, `SessionsScoped`, `AkLostOnlyByFault`, and the refinement `ImplementsHandshake` |
| `enroll_two_handles` | 2 threads with a handle each in 1 process, a third in an unelevated one; 2 begins, 1 challenge, 1 seed, 1 fault | `EnrolledAkWasPersisted`, `CallsReturn`, with `UseAfterReset` happening |
| `evidence_coherent` | 1 enrolling thread, 1 collector, 2 PCRs, 1 measurement each, 2 seeds, 1 fault | `EvidenceTypeOK`, `EvidenceCoherent`, `RefusedOnlyDuringSwap` |
| `evidence_recovers` | 2 enrolling threads on a handle, 1 collector; no faults | `NotEnrolledRecovers`, `HandshakeConverges` |
| `linux_hosts` | 2 hosts, with and without a resource manager; 2 calls, 1 PCR, 1 fault | `LinuxTypeOK`, `ObjectsScoped`, `OkMeansEnrolled`, `ReportedFollowsQuote`, `LeaksBounded`, `RequestsAnswered` |
| `mac_hosts` | 2 hosts; 3 calls, 1 fault | `MacTypeOK`, `KeysBounded`, `EvidenceByEnrolledKey`, `OkMeansEnrolled`, `RequestsAnswered` |
| `local_parts` | one of the four local parts per behaviour | log: `LogTypeOK`, `LinesMatchedUnlessRegistering`; chain: `CertTypeOK`, `ChainWhole`, `ChainComplete`, `MergeAddsNoDuplicate`, `GatheringEnds`; boot: `BootTypeOK`, `AnalysisMatchesLog`, `ChainGrounded`, `PostureAgrees`; identity: `IdentityTypeOK`, `EkCertSent`, `OneLocalId`, `IdKnownIfInStore` |

Five runs end in a counterexample, each a statement of a document or a comment
that the code does not keep:

| Run | Statement | What happens |
|---|---|---|
| `enroll_handle_per_worker` | INTEGRATING.md, "Thread safety": one handle per worker is enough | the second worker's EnrollBegin or EnrollComplete replaces or destroys the provider under the first one's EnrollComplete |
| `device_id_of_server` | rootherald_win.cpp: the id is derived "exactly as the server does" | a device whose EK certificate comes from the TPM or from AMD is enrolled under the certificate's id and attests under the public key's |
| `linux_attest_key` | protocol.h: the server verifies the quote against the AK stored at enrollment | Attest creates a new, random AK and quotes with that |
| `linux_session` | tpm_esapi.c:884: "Policy session is consumed by ActivateCredential" | an enrollment in which nothing fails leaves its session in a bare TPM: ESYS sets continueSession, the code does not clear it and flushes nothing |
| `chain_duplicates` | protocol.h:59-60: the chain's entries are "deduplicated by client (SHA-256 of DER)" | a certificate at two NV indices is sent twice: on-die certificates are recorded, not compared |

Other disagreements met while modelling, visible in the modules but without a
run of their own:

* rootherald.h:162 lets EnrollComplete return `ELEVATION_REQUIRED`; it returns
  `NOT_ENROLLED` in an unelevated process, since only EnrollBegin looks.
* rootherald.h:398-400 keeps `NOT_ENROLLED` for a device without an AK and
  `TPM_UNAVAILABLE` for a TPM failure; a failed context or probe in
  SelectEnrolledProvider also reads as `NOT_ENROLLED`.
* INTEGRATING.md:106 calls re-running the handshake a rotation; the new AK is the
  old one until the TPM is cleared (`Enrollment`: the AK is a function of `seed`).
* rootherald_win.cpp:402 says EnrollBegin makes no network call; it may fetch a
  certificate from AMD (`DeviceIdentity`: `HttpGet`). A download that breaks off
  after a 200 is enrolled as it is (the premise of `EkCertSent`).
* log.cpp:11-15 calls one missed or spurious line the worst case; two overlapping
  registrations leave a callback with another's pointer for good (`raced`).
* rootherald.h:194 and :339-340 promise -1 for an undetermined `secure_boot` or
  `oem_keyed`; a log whose readable part says nothing of them is answered 0.
  `PostureAgrees` leaves that case open but for a claim of 1. `boot_log_revoked`
  is always 0, since `revokedCount` is never incremented. A log that cannot be
  read to its end is analysed up to there, without a sign of it.
* rootherald_macos.m:310 takes a device key as a sign of "prior enrollment", but
  GetStatus creates the key it looks for (`MacDriver`: `Lookup`, `Create`,
  `StatusKnown`): a Mac that never enrolled answers enrolled.
* Enrollments on Linux and macOS that the server did not activate end in
  `RH_PROTO_OK` like complete ones, and the native hosts answer `success:true` to
  both. `OkMeansEnrolled` is about calls that leave no challenge in the info; what
  a host's user sees does not tell the two apart. The Linux status never says
  enrolled.

### Bounds

`MaxBegins`, `MaxSecrets`, `MaxSeeds`, `MaxFaults`, `MaxCalls`, `MaxRegs`,
`MaxLines` and `MaxMeasurements` cap what would grow for ever; `MaxStore`,
`MaxEvents`, `MaxBlobs` cap inputs. Two begins suffice for a handshake to supersede
another and for two processes to meet at the persistent handle; two challenges for a
stale one; two seeds for an AK the TPM no longer has. One fault puts a failure, a
lost response, a crash or a TPM clear anywhere; failures during the recovery from
another are the theorems' part. Two threads suffice in a process because a call
interferes through one global, and two processes at the one slot. `enroll_two_handles`
has one seed, hence no TPM clear, since liveness is checked there; the theorem
`OnlyPersistedIsEnrolled` has no such limit. One measurement per PCR between two
reads makes views differ, and two PCRs make them differ one by one. Two hosts suffice for a race at
the keychain, and three calls for an enrollment, another one and the evidence
after both. Three registrations are two that overlap and one after. Certificates
of one, two and five bytes against a chunk of two cover a read in one, in exactly
one and in several commands; a limit of two intermediates is reached by NV
alone, by the store alone and by both. Boot logs of four events hold
a header, Secure Boot on and then off, and keys that are replaced. Constants that
the code fixes (16 NV indices, chunks of 1024, 8 intermediates, 16-bit offsets)
are parameters, scaled down so that their limits are reached. The code would take
an answer to TPM2_NV_Read that is longer than what it asked for (`got > want`,
tpm_commands.cpp:729-738); the models leave it out, since the TPM specification
gives the command no such answer.

Some premises limit what a run can show. `AkLostOnlyByFault` says nothing once
something failed: a failure between the two commands of EvictControl does lose
the AK. `evidence_recovers` has no failures, so a `NOT_ENROLLED` that comes from a
passing TPM failure is not told apart. `EkCertSent` leaves out a body that broke
off. No property rules out the 409 after an activation that timed out.

### Fairness

`CallFairness`: a thread inside a call goes on. The library spawns no threads and
waits on nothing but its mutex and `Tbsip_Submit_Command`, which returns.
`RelayFairness` and `RelayAgain`: the embedder does what INTEGRATING.md asks of it,
relaying bodies and challenges and calling EnrollComplete. Those calls compete
for a mutex (or share the embedder's attention with other calls), so the
assumption is strong fairness; this is the embedder's duty, and no claim is made
without it. `CallsReturn` needs `CallFairness` only: a call that has begun ends by
returning or with its process, also when another handle's call resets its
provider; a mutex that starves a waiting thread is not excluded.

`ServedSpec` (Linux, macOS): a host inside a request goes on. libtss2 and the
Security framework answer every call, `CURLOPT_TIMEOUT` and the request time-out
of NSURLSession end every wait; the server is under no fairness at all.
`LocalSpec`: the gathering of the chain is a loop nothing blocks.

## Proofs

Each theorem holds for every value of the constants that the named assumption of
its module admits: any sets of threads, handles, processes, collectors and
certificates (macOS hosts are a finite set), any bounds on calls, failures and
lengths.

| Theorem | Statement | Inductive invariant and why |
|---|---|---|
| `EnrollmentProofs!TypeCorrect` | `Spec => []TypeOK` | `TypeInv`: a step takes its provider from `this[t]`, its challenge from `arg[t]`, and the next secret is counted from `challenges`, so a thread inside a call has a provider, one inside EnrollComplete an issued challenge, and `challenges` is finite |
| `EnrollmentProofs!OnlyPersistedIsEnrolled` | `Spec => []EnrolledAkWasPersisted` | follows the AK backwards: the server's AK is that of a challenge whose secret was released (`ReleasedAkWasPersisted`, `SecretsNameAks`); the thread that released it had found the challenge sealed to the AK of the current seed, which EvictControl persisted (`PersistsTheActivatedAk`). No mutex is used, so threads with a handle each are covered |
| `EnrollmentProofs!HandshakesNotStolen` | (1) `[]HandshakeNotStolen` | `OneCallPerHandle`, the mutex |
| `EnrollmentKeyProofs!AkKept` | (1) `[]AkLostOnlyByFault` | `KeyInv`: the slot holds the AK of the current seed or nothing, and no AK of a later seed was persistent. By `HandshakesNotStolen` no thread stops evicting because its process dies |
| `EnrollmentKeyProofs!TransientsAlwaysOwned`, `SessionsAlwaysScoped`, `InFlightAlwaysCompletable` | (1) `[]TransientsOwned`, `[]SessionsScoped`, `[]InFlightCanComplete` | `ProviderInv`, who may hold a provider: one that EnrollBegin has yet to create has left no trace (`ProvidersFresh`); no two threads work on one and no two processes hold one in flight (`ProvidersApart`); each EnrollBegin has loaded what its step says (`BeginLoads`). Without `ProvidersApart` the destructor of one handshake could unload the keys of another |
| `HandshakeProofs!EnrollmentImplementsHandshake` | (1) `Spec => ImplementsHandshake` | `RelayInv`, what the relay has seen: the handshake in flight has given out its enroll body and no proof, the one being begun neither. Then each step changes at most one phase: an action of `Handshake` or a stutter (`Quiet`) |
| `HandshakeProofs!HandshakesLiveOnce`, `EnrolledByAProof` | (1) what the refinement says to the backend: a phase goes from open to durable to proved, or to closed, and nowhere else; an enrolled AK means a proved handshake | the refinement and `Abstract!Next`; the second by induction from the first |
| `EvidenceProofs!EvidenceTypeCorrect` | `EvidenceSpec => []EvidenceTypeOK` | `TypeInv` of the enrollments beside it, `CollectionTyped` |
| `EvidenceProofs!EvidenceAlwaysCoherent` | `EvidenceSpec => []EvidenceCoherent` | `ViewsInv`: what was read so far is an old value of its PCR, and the present one if nothing was measured since the call began; what was quoted lies between what was read and the PCR; a call that quotes has read every PCR |
| `EvidenceProofs!RefusedOnlyWhenSwapped` | (1) `[]RefusedOnlyDuringSwap` | `KeyKept`, which is `KeyInv` and the mutex beside a collection, and `AkSeen`: a call that began with the AK in place finds it there unless a command failed or an enrollment has swapped it, since `seed` changes by a failure only |
| `LinuxProofs!LinuxTypeCorrect`, `ObjectsAlwaysScoped` | `LinuxTypeOK`, `ObjectsScoped` | `TypeInv`: a call at work has a number, a host in the PCR loop one left to read, and objects are loaded for calls at work only |
| `LinuxProofs!SuccessMeansEnrolled` | `OkMeansEnrolled` | `OkInv`: the server gives no good answer without an enrolled AK, and never forgets one |
| `LinuxProofs!ReportedAlwaysFollowsQuote` | `ReportedFollowsQuote` | `ReadInv`: what is read so far lies between the quote and the PCR, or a read has failed |
| `LinuxProofs!LeaksAlwaysBounded` | `LeaksBounded` | `LeakInv`: a bare TPM serves one call at a time; each challenge is for a call of its own (`Numbered`), and a call that has one and no session yet, or whose session is loaded, leaves room for one more: fewer sessions have leaked than challenges were given |
| `MacProofs!MacTypeCorrect`, `SingleKeySigns`, `SuccessMeansEnrolled`, `KeysAlwaysBounded` | the safety of `mac_hosts` | `MacInv`: every key a host holds, posts or enrolls is in the keychain; for the bound, the hosts that found no key are counted with the keys |
| `LocalProofs!LogTypeCorrect`, `LinesMatched` | `LogTypeOK`, `LinesMatchedUnlessRegistering` | `LogInv`: unless registrations overlapped, the globals are a pair whenever no thread is between the two writes, and what a thread has fetched is still in them unless a registration overlapped it |
| `LocalProofs!CertTypeCorrect`, `ChainAlwaysWhole`, `ChainAlwaysComplete`, `MergeNeverDuplicates` | `CertTypeOK`, `ChainWhole`, `ChainComplete`, `MergeAddsNoDuplicate` | `CertInv`: what is in the chain is whole and from this machine (`FromMachine`; a chunked read has the first `readOffset` bytes of its certificate, and does not wrap because a size fits in `Width`); without failures nothing before the place the loops have reached is left out, and `seen` is the chain (`NoneLeftOut`); the read of the TPM adds one certificate per index at most (`FromIndices`), so what comes after is the merge's, which compares |
| `LocalProofs!IdentityTypeCorrect`, `EkCertAlwaysSent`, `AlwaysOneLocalId`, `IdAlwaysKnownIfInStore` | the safety of the identity | `IdentityInv`: a body received so far is the beginning of what was answered (`Received`); a later source is asked only if the earlier ones have nothing (`Sought`); the ids of the device and of the server are each functions of the machine (`Named`) |
| `BootProofs!BootTypeCorrect`, `AnalysisAlwaysMatchesLog`, `ChainIsGrounded`, `PostureAlwaysAgrees` | `BootTypeOK`, `AnalysisMatchesLog`, `ChainGrounded`, `PostureAgrees` | `BootInv`: the entries are the log's readable part so far, and each flag says what the entries checked so far say; `CountsFollowLog`: each count is the cardinality of its class among the places parsed, so a count never exceeds the log; `PostureFollowsAnalysis` |

(1) assumes `OneHandlePerProcess`: a process uses a single handle, on any number
of threads. INTEGRATING.md:279-280 offers two deployments, a shared handle and a
handle per worker; the assumption is the first of them, the one in which the
code's only lock, that of the handle, covers the process-wide `g_enrollProvider`.
The second is not safe: `enroll_handle_per_worker` shows what happens. The
assumption holds in `enroll_shared_handle`, `evidence_coherent` and
`evidence_recovers`; `enroll_two_handles` checks what needs no such premise.

Every safety property that a passing run checks is stated by one of these
theorems, and so is the refinement. Only model-checked: liveness under fairness
(`CallsReturn`, `HandshakeConverges`, `NotEnrolledRecovers`, `RequestsAnswered`,
`GatheringEnds`) and `ENABLED`, which are beyond the prover; and the five
counterexamples. Induction over data is too: no theorem is about what a recursive
definition computes, and none of these modules has one. Lengths and least
elements are argued by the theorems of the library (`SequenceTheorems`,
`FiniteSetTheorems`, `NaturalsInduction`, `WellFoundedInduction`).

## Not modelled

* Marshalling of TPM commands, ESAPI structures and certificates; base64, PEM and
  JSON text: data that no property tells apart. A challenge is whole or misses a
  field, a certificate is whole or cut.
* Create, Destroy, SetApplicationId and the version strings of the facades: they
  touch nothing but their own handle. The session functions and
  `RootHeraldClient_CollectEvidence` of Linux and macOS check their arguments and
  return `ROOTHERALD_ERR_INTERNAL`. `rootherald_stub.c` (the build without
  tpm2-tss) returns canned data.
* Functions nobody calls: the AK functions of `TpmPcp`, `HttpPost`,
  `HttpPostForm`, the site key, `http_get`, `HttpGetJson`.
* The torn read of `g_deviceId`, and torn reads of the log globals (a pointer is
  written in one piece on every supported target).
* The server beyond what the client relies on; samples.

`PROJECT.json` names each part with its reason.

## Plan

1. Proofs: the enrollment's theorems beside evidence collection and reboots
   (`EvidenceSpec` implements `Handshake` and keeps `EnrolledAkWasPersisted`, as
   it keeps `KeyInv` already); which results marked (1) hold for processes with
   several handles (`EnrolledAkWasPersisted` does).
2. Models: `RootHeraldClient_Destroy` while a call on the same handle runs, if the
   code ever says what an embedder may expect of it.
