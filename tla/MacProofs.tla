------------------------------ MODULE MacProofs ------------------------------
(***************************************************************************)
(* Theorems about the macOS driver, for every finite set of hosts.         *)
(***************************************************************************)
EXTENDS MacProperties, FiniteSetTheorems, TLAPS

\* A call at work has a number, and past getOrCreateDeviceKey a key of the
\* keychain.
HostsHold == \A h \in Hosts :
  /\ pc[h] # "idle" => id[h] \in Calls
  /\ pc[h] \notin {"idle", "lookup", "create"} => key[h] \in keys

HostOK ==
  /\ pc \in [Hosts -> {"idle"} \cup Steps]
  /\ op \in [Hosts -> {"none", "enroll", "attest", "status"}]
  /\ id \in [Hosts -> Calls \cup {0}]
  /\ key \in [Hosts -> 0..made]
  /\ ret \in [Hosts -> Results] /\ partial \subseteq Hosts
  /\ calls \in 0..MaxCalls
  /\ HostsHold

KeyOK ==
  /\ made \in Nat /\ misses \in Nat
  /\ keys \subseteq 1..made

\* Whatever key is on the wire or at the server is in the keychain: keys are
\* permanent.  A good answer is one about an enrolled key.
NetOK ==
  /\ posted \subseteq Requests
  /\ replies \subseteq Answers
  /\ enrolled \subseteq keys
  /\ \A m \in posted : m.key \in keys /\ (m.kind = "attest" => m.was \subseteq keys)
  /\ \A r \in replies : r.answer \in {"ok", "verified"} => enrolled # {}

FaultOK == faults \in 0..MaxFaults

MacInv == HostOK /\ KeyOK /\ NetOK /\ FaultOK

-----------------------------------------------------------------------------
(* Lemmas on the operators the actions are built from. *)

\* The fault counter stays within its bound.
LEMMA FaultType == ASSUME FaultOK, Fault \/ NoFault PROVE FaultOK'
BY MacConstants DEF FaultOK, Fault, NoFault

\* Steps that leave the keychain alone.
LEMMA KeysKept ==
  ASSUME MacInv, UNCHANGED seVars PROVE KeyOK' /\ keys' = keys /\ made' = made
BY DEF MacInv, KeyOK, seVars

\* Steps that leave the wire and the server alone, while keys may be added.
LEMMA NetKept ==
  ASSUME MacInv, UNCHANGED netVars, keys \subseteq keys' PROVE NetOK'
BY DEF MacInv, NetOK, netVars

\* A step inside a call, which keeps the key it holds or takes another one.
LEMMA GotoType ==
  ASSUME MacInv, NEW h \in Hosts, NEW s \in Steps, Goto(h, s), pc[h] # "idle",
         keys \subseteq keys', made' \in Nat, made <= made',
         NEW k \in 0..made', key' = [key EXCEPT ![h] = k],
         s \notin {"lookup", "create"} => k \in keys'
  PROVE  HostOK'
<1>1. key' \in [Hosts -> 0..made'] BY DEF MacInv, HostOK, KeyOK
<1>2. pc' \in [Hosts -> {"idle"} \cup Steps] BY DEF MacInv, HostOK, Goto
<1>3. HostsHold' BY DEF MacInv, HostOK, HostsHold, Goto
<1>4. QED BY <1>1, <1>2, <1>3 DEF MacInv, HostOK, Goto

\* A step inside a call that has its key already.
LEMMA GoesOn ==
  ASSUME MacInv, NEW h \in Hosts, NEW s \in Steps, Goto(h, s),
         pc[h] \notin {"idle", "lookup", "create"},
         UNCHANGED key, UNCHANGED seVars
  PROVE  HostOK'
<1>1. key[h] \in keys /\ key[h] \in 0..made BY DEF MacInv, HostOK, HostsHold
<1>2. key' = [key EXCEPT ![h] = key[h]] BY DEF MacInv, HostOK
<1>3. made' \in Nat /\ made <= made' /\ keys \subseteq keys' /\ key[h] \in 0..made'
  BY <1>1 DEF MacInv, KeyOK, seVars
<1>4. QED BY <1>1, <1>2, <1>3, GotoType

\* The end of a call.
LEMMA ReturnType ==
  ASSUME MacInv, NEW h \in Hosts,
         (\E r \in Results : Return(h, r)) \/ ReturnPartial(h),
         UNCHANGED <<keys, made>>
  PROVE  HostOK'
<1>0. /\ \E s \in Results : Finish(h, s)
      /\ partial' \in {partial \ {h}, partial \cup {h}}
  BY DEF Return, ReturnPartial, Results
<1>1. key' \in [Hosts -> 0..made']
  BY <1>0 DEF MacInv, HostOK, KeyOK, Finish, NoKey
<1>2. HostsHold' BY <1>0 DEF MacInv, HostOK, HostsHold, Finish
<1>3. QED BY <1>0, <1>1, <1>2 DEF MacInv, HostOK, Finish

\* A request goes out, about the key its sender holds.
LEMMA PostType ==
  ASSUME MacInv, NEW m \in Requests, Post(m), keys' = keys,
         m.key \in keys, m.kind = "attest" => m.was \subseteq keys
  PROVE  NetOK'
BY DEF MacInv, NetOK, Post

\* The results of the calls.
LEMMA ResultTypes ==
  /\ "none" \in Results /\ "OK" \in Results
  /\ "NO_TPM" \in Results /\ "INTERNAL" \in Results /\ "INVALID_PARAM" \in Results
  /\ "ENROLLMENT_FAILED" \in Results /\ "ATTESTATION_FAILED" \in Results
  /\ "ENROLLED" \in Results /\ "NOT_ENROLLED" \in Results
BY DEF Results

\* The steps of a call.
LEMMA StepTypes ==
  {"lookup", "create", "got", "enrolling", "prove", "activating",
   "evidence", "attesting"} = Steps /\ "idle" \notin Steps
BY DEF Steps

-----------------------------------------------------------------------------
(* The invariant. *)

\* It holds at the start.
LEMMA InvInit == Init => MacInv
BY MacConstants DEF Init, MacInv, HostOK, HostsHold, KeyOK, NetOK, FaultOK, NoKey, Results

\* A call that begins, or is refused at once.
LEMMA RequestStep ==
  ASSUME MacInv, NEW h \in Hosts, Request(h) PROVE MacInv'
<1>1. CASE \E c \in {"enroll", "attest", "status"} : Enter(h, c)
  <2>1. PICK c \in {"enroll", "attest", "status"} : Enter(h, c) BY <1>1
  <2>2. HostsHold'
    BY <2>1, MacConstants DEF Enter, seVars, MacInv, HostOK, HostsHold, Calls
  <2>3. HostOK'
    BY <2>1, <2>2, MacConstants, ResultTypes, StepTypes
    DEF Enter, seVars, MacInv, HostOK, Calls
  <2>4. QED BY <2>1, <2>3, KeysKept, NetKept DEF Enter, MacInv, FaultOK
<1>2. CASE HandleIncomplete(h)
  BY <1>2, ResultTypes, KeysKept, NetKept, ReturnType
  DEF HandleIncomplete, MacInv, FaultOK, seVars
<1>3. CASE Unavailable(h)
  BY <1>3, ResultTypes, KeysKept, NetKept, ReturnType, FaultType
  DEF Unavailable, MacInv, seVars
<1>4. QED BY <1>1, <1>2, <1>3
  DEF Request, RootHeraldEnroll, RootHeraldAttest, RootHeraldGetStatus

\* getOrCreateDeviceKey.
LEMMA KeyStep ==
  ASSUME MacInv, NEW h \in Hosts, Lookup(h) \/ Create(h) PROVE MacInv'
<1>1. CASE Lookup(h)
  <2>0. FaultOK' BY <1>1, FaultType DEF Lookup, MacInv
  <2>1. KeyOK' /\ NetOK' /\ keys \subseteq keys' /\ made' \in Nat /\ made <= made'
    BY <1>1, NetKept DEF Lookup, MacInv, KeyOK
  <2>2. CASE \E k \in keys : key' = [key EXCEPT ![h] = k] /\ Goto(h, "got")
    <3>1. PICK k \in keys : key' = [key EXCEPT ![h] = k] /\ Goto(h, "got") BY <2>2
    <3>2. k \in 0..made' BY <1>1 DEF Lookup, MacInv, KeyOK
    <3>3. HostOK' BY <1>1, <2>1, <3>1, <3>2, GotoType, StepTypes DEF Lookup
    <3>4. QED BY <2>0, <2>1, <3>3 DEF MacInv
  <2>3. CASE Goto(h, "create") /\ UNCHANGED key
    <3>1. key' = [key EXCEPT ![h] = key[h]] /\ key[h] \in 0..made'
      BY <2>3, <2>1 DEF MacInv, HostOK, KeyOK
    <3>2. HostOK' BY <1>1, <2>1, <2>3, <3>1, GotoType, StepTypes DEF Lookup
    <3>3. QED BY <2>0, <2>1, <3>2 DEF MacInv
  <2>4. QED BY <1>1, <2>2, <2>3 DEF Lookup
<1>2. CASE Create(h)
  <2>0. FaultOK' BY <1>2, FaultType DEF Create, MacInv
  <2>1. KeyOK' /\ keys \subseteq keys' /\ made' \in Nat /\ made <= made'
    <3>1. made \in Nat /\ misses \in Nat /\ keys \subseteq 1..made BY DEF MacInv, KeyOK
    <3>2. misses' = misses BY <1>2 DEF Create
    <3>3. CASE UNCHANGED <<made, keys>> BY <3>1, <3>2, <3>3 DEF KeyOK
    <3>4. CASE made' = made + 1 /\ keys' = keys \cup {made + 1}
      BY <3>1, <3>2, <3>4 DEF KeyOK
    <3>5. QED BY <1>2, <3>3, <3>4 DEF Create
  <2>2. NetOK' BY <1>2, <2>1, NetKept DEF Create
  <2>3. CASE made' = made + 1 /\ keys' = keys \cup {made + 1}
             /\ key' = [key EXCEPT ![h] = made + 1] /\ Goto(h, "got")
    <3>1. made + 1 \in 0..made' /\ made + 1 \in keys' BY <2>3 DEF MacInv, KeyOK
    <3>2. HostOK' BY <1>2, <2>1, <2>3, <3>1, GotoType, StepTypes DEF Create
    <3>3. QED BY <2>0, <2>1, <2>2, <3>2 DEF MacInv
  <2>4. CASE /\ UNCHANGED <<made, keys>>
             /\ \E r \in {"NOT_ENROLLED", "INTERNAL"} : Return(h, r)
    <3>1. HostOK' BY <2>4, ResultTypes, ReturnType
    <3>2. QED BY <2>0, <2>1, <2>2, <3>1 DEF MacInv
  <2>5. QED BY <1>2, <2>3, <2>4 DEF Create
<1>3. QED BY <1>1, <1>2

\* A step that posts a request, or fails.
LEMMA SendStep ==
  ASSUME MacInv, NEW h \in Hosts, NEW m \in Requests, NEW s \in Steps, NEW r \in Results,
         m.key = key[h], m.kind = "attest" => m.was = enrolled,
         pc[h] \notin {"idle", "lookup", "create"},
         \/ NoFault /\ Goto(h, s) /\ UNCHANGED key /\ Post(m)
         \/ Fault /\ Return(h, r) /\ UNCHANGED netVars,
         UNCHANGED seVars
  PROVE  MacInv'
<1>1. KeyOK' /\ keys' = keys /\ made' = made BY KeysKept
<1>2. m.key \in keys /\ (m.kind = "attest" => m.was \subseteq keys)
  BY DEF MacInv, HostOK, HostsHold, NetOK
<1>3. FaultOK' BY FaultType DEF MacInv
<1>4. NetOK' BY <1>1, <1>2, PostType, NetKept
<1>5. HostOK' BY <1>1, GoesOn, ReturnType
<1>6. QED BY <1>1, <1>3, <1>4, <1>5 DEF MacInv

\* A step that takes an answer, or ends the call.
LEMMA TakeStep ==
  ASSUME MacInv, NEW h \in Hosts, UNCHANGED <<seVars, netVars>>, Fault \/ NoFault,
         \/ (\E r \in Results : Return(h, r)) \/ ReturnPartial(h)
         \/ /\ \E s \in Steps : Goto(h, s)
            /\ UNCHANGED key /\ pc[h] \notin {"idle", "lookup", "create"}
  PROVE  MacInv'
<1>1. KeyOK' /\ keys' = keys /\ made' = made BY KeysKept
<1>2. NetOK' /\ FaultOK' BY <1>1, NetKept, FaultType DEF MacInv
<1>3. HostOK' BY <1>1, GoesOn, ReturnType
<1>4. QED BY <1>1, <1>2, <1>3 DEF MacInv

\* The steps of enrollment, attestation and status.
LEMMA CallStep ==
  ASSUME MacInv, NEW h \in Hosts, Step(h) \/ Kill(h) PROVE MacInv'
<1>1. CASE Lookup(h) \/ Create(h) BY <1>1, KeyStep
<1>2. CASE PostEnroll(h)
  <2> DEFINE m == [kind |-> "enroll", id |-> id[h], key |-> key[h]]
  <2>1. m \in Requests
    BY <1>2 DEF PostEnroll, Requests, DeviceKeys, MacInv, HostOK, HostsHold, KeyOK, NoKey
  <2>2. m.key = key[h] /\ m.kind # "attest" OBVIOUS
  <2>3. QED BY <1>2, <2>1, <2>2, SendStep, StepTypes, ResultTypes DEF PostEnroll
<1>3. CASE PostActivate(h)
  <2> DEFINE m == [kind |-> "activate", id |-> id[h], key |-> key[h]]
  <2>1. m \in Requests
    BY <1>3 DEF PostActivate, Requests, DeviceKeys, MacInv, HostOK, HostsHold, KeyOK, NoKey
  <2>2. m.key = key[h] /\ m.kind # "attest" OBVIOUS
  <2>3. QED BY <1>3, <2>1, <2>2, SendStep, StepTypes, ResultTypes DEF PostActivate
<1>4. CASE PostAttest(h)
  <2> DEFINE m == [kind |-> "attest", id |-> id[h], key |-> key[h], was |-> enrolled]
  <2>1. m \in Requests
    BY <1>4 DEF PostAttest, Requests, DeviceKeys, MacInv, HostOK, HostsHold, NetOK, KeyOK, NoKey
  <2>2. m.key = key[h] /\ m.was = enrolled OBVIOUS
  <2>3. QED BY <1>4, <2>1, <2>2, SendStep, StepTypes, ResultTypes DEF PostAttest
<1>5. CASE EnrollReplied(h)
  BY <1>5, TakeStep, StepTypes, ResultTypes DEF EnrollReplied, NoFault
<1>6. CASE SignNonce(h)
  BY <1>6, TakeStep, StepTypes, ResultTypes DEF SignNonce
<1>7. CASE StatusKnown(h) \/ ActivateReplied(h) \/ AttestReplied(h) \/ HttpTimeout(h)
  BY <1>7, TakeStep, ResultTypes
  DEF StatusKnown, ActivateReplied, AttestReplied, HttpTimeout, NoFault
<1>8. CASE Kill(h)
  BY <1>8, TakeStep, ResultTypes DEF Kill
<1>9. QED BY <1>1, <1>2, <1>3, <1>4, <1>5, <1>6, <1>7, <1>8 DEF Step

\* The server adds enrolled keys and answers.
LEMMA ServeStep ==
  ASSUME MacInv, NEW m \in posted, Serve(m) PROVE MacInv'
<1>1. m \in Requests /\ m.key \in keys BY DEF MacInv, NetOK
<1>2. m.kind \in {"enroll", "activate", "attest"} /\ m.id \in Calls
  BY <1>1 DEF Requests
<1>3. PICK a \in {"challenge", "refused", "ok", "verified"} :
        /\ Respond(m, a)
        /\ enrolled' \in {enrolled, enrolled \cup {m.key}}
        /\ a \in {"ok", "verified"} => enrolled' # {}
  BY DEF Serve, ServerEnroll, ServerActivate, ServerAttest
<1>4. HostOK' /\ KeyOK' /\ keys' = keys /\ posted' = posted
  BY <1>3 DEF Respond, hostVars, seVars, MacInv, HostOK, HostsHold, KeyOK
<1>5. FaultOK' BY FaultType DEF MacInv, Serve, ServerEnroll, ServerActivate, ServerAttest
<1>6. replies' = replies \cup {[kind |-> m.kind, id |-> m.id, answer |-> a]}
  BY <1>3 DEF Respond
<1>7. NetOK'
  <2>1. replies' \subseteq Answers
    BY <1>2, <1>6 DEF Answers, MacInv, NetOK
  <2>2. enrolled \subseteq enrolled' /\ enrolled' \subseteq keys' BY <1>1, <1>3, <1>4 DEF MacInv, NetOK
  <2>3. \A r \in replies' : r.answer \in {"ok", "verified"} => enrolled' # {}
    BY <1>3, <1>6, <2>2 DEF MacInv, NetOK
  <2>4. QED BY <1>4, <2>1, <2>2, <2>3 DEF MacInv, NetOK
<1>8. QED BY <1>4, <1>5, <1>7 DEF MacInv

\* Every step preserves the invariant.
LEMMA InvStep == MacInv /\ [Next]_vars => MacInv'
<1> SUFFICES ASSUME MacInv, [Next]_vars PROVE MacInv' OBVIOUS
<1>1. CASE \E h \in Hosts : Request(h) \/ Step(h) \/ Kill(h)
  BY <1>1, RequestStep, CallStep
<1>2. CASE \E m \in posted : Serve(m) BY <1>2, ServeStep
<1>3. CASE UNCHANGED vars
  BY <1>3 DEF vars, hostVars, seVars, netVars, MacInv, HostOK, HostsHold, KeyOK, NetOK, FaultOK
<1>4. QED BY <1>1, <1>2, <1>3 DEF Next

\* Every reachable state satisfies the inductive invariant.
LEMMA Invariant == Spec => []MacInv
BY InvInit, InvStep, PTL DEF Spec

\* Every variable of the macOS driver keeps its type.
THEOREM MacTypeCorrect == Spec => []MacTypeOK
<1>1. MacInv => MacTypeOK
  BY DEF MacInv, HostOK, KeyOK, NetOK, FaultOK, MacTypeOK
<1>2. QED BY <1>1, Invariant, PTL

-----------------------------------------------------------------------------
(* Evidence. *)

\* A device with a single key is attested with the key it was enrolled with:
\* getOrCreateDeviceKey hands out permanent keys only, and only permanent keys
\* get enrolled.
THEOREM SingleKeySigns == Spec => []EvidenceByEnrolledKey
<1>1. ASSUME MacInv PROVE EvidenceByEnrolledKey
  <2> SUFFICES ASSUME NEW m \in posted, m.kind = "attest", m.was # {}, m.key \notin m.was
               PROVE  Cardinality(keys) > 1
    BY DEF EvidenceByEnrolledKey
  <2>1. PICK k \in m.was : TRUE OBVIOUS
  <2>2. m.key \in keys /\ k \in keys /\ k # m.key BY <1>1, <2>1 DEF MacInv, NetOK
  <2>3. IsFiniteSet(keys)
    <3>1. IsFiniteSet(1..made) BY <1>1, FS_Interval DEF MacInv, KeyOK
    <3>2. QED BY <1>1, <3>1, FS_Subset DEF MacInv, KeyOK
  <2>4. Cardinality(keys \ {k}) = Cardinality(keys) - 1 /\ IsFiniteSet(keys \ {k})
    BY <2>2, <2>3, FS_RemoveElement
  <2>5. Cardinality(keys \ {k}) # 0 BY <2>2, <2>4, FS_EmptySet
  <2>6. Cardinality(keys) \in Nat /\ Cardinality(keys \ {k}) \in Nat
    BY <2>3, <2>4, FS_CardinalityType
  <2>7. QED BY <2>4, <2>5, <2>6
<1>2. QED BY <1>1, Invariant, PTL

-----------------------------------------------------------------------------
(* Verdicts. *)

\* The answer of a call decides on its result.
LEMMA OkStep ==
  ASSUME MacInv, OkMeansEnrolled, [Next]_vars PROVE OkMeansEnrolled'
<1>1. CASE \E h \in Hosts : Request(h) \/ Step(h) \/ Kill(h)
  <2>1. PICK h \in Hosts : Request(h) \/ Step(h) \/ Kill(h) BY <1>1
  <2>2. enrolled' = enrolled
    BY <2>1 DEF Request, HandleIncomplete, Unavailable, RootHeraldEnroll,
       RootHeraldAttest, RootHeraldGetStatus, Enter, Step, Kill, Lookup, Create,
       StatusKnown, PostEnroll, EnrollReplied, PostActivate, ActivateReplied,
       SignNonce, PostAttest, AttestReplied, HttpTimeout, Post, netVars
  <2>3. SUFFICES ASSUME NEW g \in Hosts, ret'[g] = "OK", g \notin partial',
                        ~(ret[g] = "OK" /\ g \notin partial)
                 PROVE  enrolled # {}
    BY <2>2 DEF OkMeansEnrolled
  <2>4. CASE ActivateReplied(h) \/ AttestReplied(h)
    BY <2>3, <2>4 DEF ActivateReplied, AttestReplied, Return, ReturnPartial, Finish,
       Reply, MacInv, HostOK, NetOK
  <2>5. CASE ~(ActivateReplied(h) \/ AttestReplied(h))
    <3>1. \/ UNCHANGED <<ret, partial>>
          \/ \E r \in Results \ {"OK"} : ret' = [ret EXCEPT ![h] = r]
                                       /\ partial' \in {partial, partial \ {h}}
          \/ ret' = [ret EXCEPT ![h] = "OK"] /\ partial' = partial \cup {h}
      <4> USE DEF Goto, Return, Finish, Results
      <4>1. CASE Request(h)
        BY <4>1 DEF Request, HandleIncomplete, Unavailable, RootHeraldEnroll,
           RootHeraldAttest, RootHeraldGetStatus, Enter
      <4>2. CASE Lookup(h) \/ Create(h) \/ StatusKnown(h) \/ Kill(h)
        BY <4>2 DEF Lookup, Create, StatusKnown, Kill
      <4>3. CASE PostEnroll(h) \/ EnrollReplied(h) \/ PostActivate(h)
        BY <4>3 DEF PostEnroll, EnrollReplied, PostActivate
      <4>4. CASE SignNonce(h) \/ PostAttest(h) \/ HttpTimeout(h)
        BY <4>4 DEF SignNonce, PostAttest, HttpTimeout, ReturnPartial
      <4>5. QED BY <2>1, <2>5, <4>1, <4>2, <4>3, <4>4 DEF Step
    <3>2. QED BY <2>3, <3>1 DEF MacInv, HostOK
  <2>6. QED BY <2>4, <2>5
<1>2. CASE \E m \in posted : Serve(m)
  BY <1>2 DEF OkMeansEnrolled, Serve, ServerEnroll, ServerActivate, ServerAttest,
     Respond, hostVars
<1>3. CASE UNCHANGED vars
  BY <1>3 DEF vars, hostVars, netVars, OkMeansEnrolled
<1>4. QED BY <1>1, <1>2, <1>3 DEF Next

\* A call that reports a complete success leaves the device enrolled.
THEOREM SuccessMeansEnrolled == Spec => []OkMeansEnrolled
<1>1. Init => OkMeansEnrolled BY DEF Init, OkMeansEnrolled
<1>2. QED BY <1>1, OkStep, Invariant, PTL DEF Spec

-----------------------------------------------------------------------------
(* The number of device keys. *)

\* The sets that KeysBounded counts are finite.
LEMMA Counts ==
  ASSUME MacInv
  PROVE  /\ IsFiniteSet(keys) /\ IsFiniteSet(Creating)
         /\ Cardinality(keys) \in Nat /\ Cardinality(Creating) \in Nat
         /\ Cardinality(Creating) <= Cardinality(Hosts) /\ Cardinality(Hosts) \in Nat
<1>1. IsFiniteSet(1..made) BY FS_Interval DEF MacInv, KeyOK
<1>2. IsFiniteSet(keys) BY <1>1, FS_Subset DEF MacInv, KeyOK
<1>3. Creating \in SUBSET Hosts BY DEF Creating
<1>4. IsFiniteSet(Creating) /\ Cardinality(Creating) <= Cardinality(Hosts)
  BY <1>3, MacConstants, FS_Subset
<1>5. QED BY <1>2, <1>4, MacConstants, FS_CardinalityType

\* No host gets to create a key, none is created.
LEMMA FewerCreating ==
  ASSUME MacInv, MacInv', KeysBounded, UNCHANGED <<keys, misses>>, Creating' \subseteq Creating
  PROVE  KeysBounded'
<1>1. Cardinality(Creating') <= Cardinality(Creating) BY Counts, FS_Subset
<1>2. Cardinality(Creating') \in Nat /\ misses \in Nat
  <2>1. IsFiniteSet(Creating') BY Counts, FS_Subset
  <2>2. QED BY <2>1, FS_CardinalityType DEF MacInv, KeyOK
<1>3. Cardinality(keys) + Cardinality(Creating') <= Cardinality(Hosts) + misses
  BY <1>1, <1>2, Counts DEF KeysBounded
<1>4. QED BY <1>3 DEF KeysBounded

\* Lookups make hosts create, creations turn them into keys.
LEMMA BoundStep ==
  ASSUME MacInv, MacInv', KeysBounded, [Next]_vars PROVE KeysBounded'
<1>1. ASSUME NEW h \in Hosts, Lookup(h) PROVE KeysBounded'
  <2>1. CASE Goto(h, "got") /\ UNCHANGED misses
    BY <1>1, <2>1, FewerCreating DEF Lookup, Goto, Creating, MacInv, HostOK
  <2>2. CASE keys = {} /\ UNCHANGED misses
    <3>1. Creating' \in SUBSET Hosts /\ keys' = {} BY <1>1, <2>2 DEF Creating, Lookup
    <3>2. Cardinality(Creating') <= Cardinality(Hosts) /\ Cardinality(Creating') \in Nat
      BY <3>1, MacConstants, FS_Subset, FS_CardinalityType
    <3>3. Cardinality(keys') = 0 BY <3>1, FS_EmptySet
    <3>4. Cardinality(keys') + Cardinality(Creating') <= Cardinality(Hosts) + misses'
      BY <2>2, <3>2, <3>3, Counts DEF MacInv, KeyOK
    <3>5. QED BY <3>4 DEF KeysBounded
  <2>3. CASE Goto(h, "create") /\ misses' = misses + 1
    <3>1. Creating' = Creating \cup {h}
      BY <2>3 DEF Goto, Creating, MacInv, HostOK
    <3>2. Cardinality(Creating') <= Cardinality(Creating) + 1 /\ Cardinality(Creating') \in Nat
      <4>1. /\ IsFiniteSet(Creating \cup {h})
            /\ Cardinality(Creating \cup {h}) \in {Cardinality(Creating), Cardinality(Creating) + 1}
        BY Counts, FS_AddElement
      <4>2. QED BY <3>1, <4>1, Counts
    <3>3. keys' = keys BY <1>1 DEF Lookup
    <3>4. Cardinality(keys) + Cardinality(Creating') <= Cardinality(Hosts) + misses'
      BY <2>3, <3>2, Counts DEF KeysBounded, MacInv, KeyOK
    <3>5. QED BY <3>3, <3>4 DEF KeysBounded
  <2>4. QED BY <1>1, <2>1, <2>2, <2>3 DEF Lookup
<1>2. ASSUME NEW h \in Hosts, Create(h) PROVE KeysBounded'
  <2>1. Creating' = Creating \ {h} /\ h \in Creating
    BY <1>2 DEF Create, Goto, Return, Finish, Creating, MacInv, HostOK
  <2>2. CASE keys' = keys \cup {made + 1}
    <3>1. made + 1 \notin keys BY DEF MacInv, KeyOK
    <3>2. Cardinality(keys') = Cardinality(keys) + 1 BY <2>2, <3>1, Counts, FS_AddElement
    <3>3. Cardinality(Creating') = Cardinality(Creating) - 1 BY <2>1, Counts, FS_RemoveElement
    <3>4. misses' = misses BY <1>2 DEF Create
    <3>5. Cardinality(keys') + Cardinality(Creating') <= Cardinality(Hosts) + misses'
      BY <3>2, <3>3, <3>4, Counts DEF KeysBounded, MacInv, KeyOK
    <3>6. QED BY <3>5 DEF KeysBounded
  <2>3. CASE UNCHANGED keys
    BY <1>2, <2>1, <2>3, FewerCreating DEF Create
  <2>4. QED BY <1>2, <2>2, <2>3 DEF Create
<1>3. ASSUME NEW h \in Hosts, Request(h) \/ Step(h) \/ Kill(h), ~Lookup(h), ~Create(h)
      PROVE  UNCHANGED <<keys, misses>> /\ Creating' \subseteq Creating
  <2>1. CASE Request(h)
    BY <2>1 DEF Request, HandleIncomplete, Unavailable, RootHeraldEnroll,
       RootHeraldAttest, RootHeraldGetStatus, Enter, Return, ReturnPartial, Finish, Creating, seVars, MacInv, HostOK
  <2>2. CASE StatusKnown(h) \/ ActivateReplied(h) \/ AttestReplied(h) \/ HttpTimeout(h) \/ Kill(h)
    BY <2>2 DEF StatusKnown, ActivateReplied, AttestReplied, HttpTimeout, Kill,
       Return, ReturnPartial, Finish, Creating, seVars, MacInv, HostOK
  <2>3. CASE PostEnroll(h) \/ EnrollReplied(h) \/ PostActivate(h)
    BY <2>3 DEF PostEnroll, EnrollReplied, PostActivate, Goto, Return, ReturnPartial, Finish, Creating, seVars,
       MacInv, HostOK
  <2>4. CASE SignNonce(h) \/ PostAttest(h)
    BY <2>4 DEF SignNonce, PostAttest, Goto, Return, ReturnPartial, Finish, Creating, seVars, MacInv, HostOK
  <2>5. QED BY <1>3, <2>1, <2>2, <2>3, <2>4 DEF Step
<1>4. ASSUME NEW m \in posted, Serve(m)
      PROVE  UNCHANGED <<keys, misses>> /\ Creating' \subseteq Creating
  BY <1>4 DEF Serve, ServerEnroll, ServerActivate, ServerAttest, Respond, hostVars,
     seVars, Creating
<1>5. ASSUME UNCHANGED vars PROVE UNCHANGED <<keys, misses>> /\ Creating' \subseteq Creating
  BY <1>5 DEF vars, hostVars, seVars, Creating
<1>6. QED BY <1>1, <1>2, <1>3, <1>4, <1>5, FewerCreating DEF Next

\* A device has at most one key per host, plus one for each failed lookup.
THEOREM KeysAlwaysBounded == Spec => []KeysBounded
<1>1. Init => KeysBounded
  <2> SUFFICES ASSUME Init PROVE KeysBounded OBVIOUS
  <2>1. Creating = {} /\ keys = {} /\ misses = 0 BY DEF Init, Creating
  <2>2. Cardinality(Hosts) \in Nat BY MacConstants, FS_CardinalityType
  <2>3. QED BY <2>1, <2>2, FS_EmptySet DEF KeysBounded
<1>2. QED BY <1>1, BoundStep, Invariant, PTL DEF Spec
=============================================================================
